---------------------------- MODULE MCMigrationPlan ----------------------------
(***************************************************************************)
(* Instances of MigrationPlan for TLC, with the costs of its plans.  The   *)
(* drained node 1 and candidate 2 are in one zone, candidate 3 in the      *)
(* other; candidate 2 is tainted, and each node has a resident: that of    *)
(* node 1 is not moved.  There is a kind of pod for each thing the search  *)
(* and the criteria look at.                                               *)
(***************************************************************************)
EXTENDS SoftConstraints, TLC

MCHost        == 11 :> 2 @@ 12 :> 3 @@ 13 :> 1
MCName        == [p \in {1, 2, 3, 11, 12, 13} |-> p]
MCAllocatable == 2 :> [cpu |-> 3, mem |-> 3] @@ 3 :> [cpu |-> 4, mem |-> 2]
MCLabels ==
  [n \in {1, 2, 3} |-> "hostname" :> ToString(n)
                       @@ "zone" :> (IF n = 3 THEN "south" ELSE "north")]
MCTaints ==
  (1 :> {} @@ 2 :> {[key |-> "old", value |-> "yes", effect |-> "NoSchedule"]} @@ 3 :> {})

Old == [key |-> "old", operator |-> "Exists", value |-> "", effect |-> ""]
South(operator) == {[key |-> "zone", operator |-> operator, values |-> {"south"}]}
Near(app) == [spaces |-> {}, apps |-> {app}, key |-> "hostname", weight |-> 1]
Anywhere(app) == [Near(app) EXCEPT !.spaces = {"shop", "ops"}]

Even(key, hard) == [key |-> key, apps |-> {"web"}, maxSkew |-> 1, hard |-> hard]

Web ==
  [space |-> "shop", app |-> "web", cpu |-> 1, mem |-> 1, tolerations |-> {Old},
   nodeTerms |-> {}, preferences |-> {}, needs |-> <<>>, avoids |-> {},
   follows |-> {}, shuns |-> {}, spread |-> {},
   system |-> FALSE, finished |-> FALSE]
Db == [Web EXCEPT !.app = "db"]

MCKinds ==
  { Web,
    [Web EXCEPT !.cpu = 2, !.preferences = {[term |-> South("In"), weight |-> 1]}],
    [Web EXCEPT !.tolerations = {}],
    [Web EXCEPT !.avoids = {Anywhere("web")}],
    [Web EXCEPT !.spread = {Even("zone", TRUE), Even("hostname", FALSE)},
                !.preferences = {[term |-> South("NotIn"), weight |-> 1]}],
    [Db EXCEPT !.follows = {Near("web")}],
    [Db EXCEPT !.needs = <<Near("web"), Near("db")>>, !.avoids = {Near("db")}],
    [Db EXCEPT !.avoids = {Near("web")}, !.shuns = {Near("db")},
               !.nodeTerms = {South("In"), South("Exists")}] }
MCResidentKinds ==
  { Web,
    [Db EXCEPT !.shuns = {Near("web")}],
    [Web EXCEPT !.avoids = {Near("web")}],
    [Web EXCEPT !.system = TRUE, !.cpu = 2, !.avoids = {Near("web")}],
    [Db EXCEPT !.finished = TRUE, !.space = "ops"] }
=============================================================================
