------------------------------ MODULE Forecaster ------------------------------
(***************************************************************************)
(* The forecaster: one loop that watches the open request, adds a node     *)
(* when pods stay unschedulable (reactive, profile QOS only) and, once in  *)
(* a forecast period, adds or removes one on a predicted CPU load.  It     *)
(* keeps its state in memory and talks to the cluster through the API      *)
(* server.  The operator is reduced to what the forecaster sees of it: a   *)
(* request moves at most one node and ends.                                *)
(***************************************************************************)
EXTENDS Integers

CONSTANTS
  Names,               \* names of ClusterConfigurations, reused once ended
  NoRequest,           \* no ClusterConfiguration of that name is open
  MinNodes, MaxNodes,  \* the bounds of cluster-configuration-parameters
  InitiallyActive,     \* Ready workers at the start
  StabilizationCycles, \* equal forecasts in a row that make a decision
  Grace,               \* ticks from the end of a request to a reactive one
  Cooldown,            \* ticks without scale-down after a reactive scale-up
  Period,              \* ticks from one forecast to the next
  DefaultGrace,        \* the three timers when forecast-parameters cannot be
  DefaultCooldown,     \* read
  DefaultPeriod,
  QOS,                 \* whether selectionProfile is QOS
  MayDisable,          \* whether forecast-parameters may say Enabled: false
  FaultKinds,          \* the faults that may happen
  MaxFaults            \* bound: faults in a behaviour

ASSUME ForecasterAssumption ==
  /\ MinNodes \in Nat /\ MaxNodes \in Nat
  /\ InitiallyActive \in MinNodes..MaxNodes
  /\ StabilizationCycles \in Nat \ {0}
  /\ Grace \in Nat /\ Cooldown \in Nat /\ Period \in Nat
  /\ DefaultGrace \in Nat /\ DefaultCooldown \in Nat /\ DefaultPeriod \in Nat
  /\ QOS \in BOOLEAN /\ MayDisable \in BOOLEAN
  /\ FaultKinds \subseteq {"api", "lost", "crash"} /\ MaxFaults \in Nat

VARIABLES
  step,              \* where the loop is
  settings,          \* params of this tick
  bounds,            \* min_nodes, max_nodes and the profile of this tick
  due,               \* forecast_due of this tick
  podsSeen,          \* pending of this tick; "unknown" is None
  read,              \* the number of workers get_active_worker led to
  previousLabel,     \* state.previous_scaling_label
  labelCount,        \* state.scaling_label_count, up to StabilizationCycles
  idle,              \* ticks since state.idle_since, up to LongestGrace; or
                     \* InFlight
  reactiveInFlight,  \* state.reactive_in_flight
  cooldown,          \* ticks until state.scale_down_blocked_until
  untilForecast,     \* ticks until next_forecast_at
  requests,          \* the open ClusterConfigurations
  active,            \* Ready workers
  pods,              \* what is unschedulable: nothing, or for how long
  quiet,             \* history: ticks since a request ended that was not
                     \* overlooked, up to LongestGrace
  overlooked,        \* history: the forecaster counts idle time although the
                     \* open request is there
  defaulted,         \* history: a request was created on the default bounds
  waiting,           \* history: pods have waited ever since the tick began
  fresh,             \* history: forecasts since the last request created with
                     \* an answer, up to StabilizationCycles
  faults             \* faults so far

params  == <<settings, bounds>>
tick    == <<due, podsSeen, read>>
votes   == <<previousLabel, labelCount>>
timers  == <<idle, cooldown, untilForecast>>
history == <<quiet, overlooked, defaulted, waiting, fresh>>
cluster == <<requests, active, pods, history>>
vars    == <<step, params, tick, votes, timers, reactiveInFlight, cluster,
             faults>>

Steps    == {"read", "track", "pods", "react", "create", "forecast", "decide",
             "sleep"}
InFlight == -1         \* idle_since = None
NoLabel  == 2          \* previous_scaling_label = None
Labels   == {-1, 0, 1}
Triggers == {"pending", "forecast"}
Request  == [trigger : Triggers, required : Int, moved : BOOLEAN]

\* What the two ConfigMaps say, and what the code uses when they cannot be read.
Settings        == [cycles |-> StabilizationCycles, grace |-> Grace,
                    cooldown |-> Cooldown, period |-> Period]
DefaultSettings == [cycles |-> 1, grace |-> DefaultGrace,
                    cooldown |-> DefaultCooldown, period |-> DefaultPeriod]
Bounds          == [min |-> MinNodes, max |-> MaxNodes, qos |-> QOS]
DefaultBounds   == [min |-> 1, max |-> 5, qos |-> FALSE]

Lower(a, b)  == IF a < b THEN a ELSE b
Higher(a, b) == IF a > b THEN a ELSE b
LongestGrace == Higher(Grace, DefaultGrace)

\* A count that is kept up to a bound.
Longer(count, bound) == IF count < bound THEN count + 1 ELSE bound

FlagsOK ==
  /\ due \in BOOLEAN /\ reactiveInFlight \in BOOLEAN
  /\ overlooked \in BOOLEAN /\ defaulted \in BOOLEAN /\ waiting \in BOOLEAN

TypeOK ==
  /\ FlagsOK
  /\ step \in Steps /\ read \in Int
  /\ podsSeen \in {"none", "young", "overdue", "unknown"}
  /\ previousLabel \in Labels \cup {NoLabel}
  /\ labelCount \in 0..StabilizationCycles
  /\ settings \in {Settings, DefaultSettings} /\ bounds \in {Bounds, DefaultBounds}
  /\ idle \in {InFlight} \cup 0..LongestGrace
  /\ cooldown \in 0..Higher(Cooldown, DefaultCooldown)
  /\ untilForecast \in 0..Higher(Period, DefaultPeriod)
  /\ requests \in [Names -> Request \cup {NoRequest}]
  /\ active \in Int /\ pods \in {"none", "young", "overdue"}
  /\ quiet \in 0..LongestGrace /\ fresh \in 0..StabilizationCycles
  /\ faults \in 0..MaxFaults

Init ==
  /\ step = "read" /\ settings = Settings /\ bounds = Bounds
  /\ due = FALSE /\ podsSeen = "none" /\ read = 0
  /\ previousLabel = NoLabel /\ labelCount = 0
  /\ idle = 0 /\ reactiveInFlight = FALSE
  /\ cooldown = 0 /\ untilForecast = 0
  /\ requests = [r \in Names |-> NoRequest]
  /\ active = InitiallyActive /\ pods = "none"
  /\ quiet = LongestGrace /\ overlooked = FALSE
  /\ defaulted = FALSE /\ waiting = FALSE /\ fresh = 0
  /\ faults = 0

\* "api": an API call fails without effect.  "lost": the create takes effect
\* and the forecaster gets an error.  "crash": the forecaster restarts.
Fault(kind) ==
  /\ kind \in FaultKinds /\ faults < MaxFaults
  /\ faults' = faults + 1

-----------------------------------------------------------------------------
ScalingInProgress == \E r \in Names : requests[r] # NoRequest

\* Mutant: an API error is taken for "nothing in progress".
ListsOptimistically(inProgress) ==
  \/ inProgress = ScalingInProgress /\ UNCHANGED faults
  \/ inProgress = FALSE /\ Fault("api")

\* scaling_in_progress: in doubt there is a request.
ListsRequests(inProgress) ==
  \/ inProgress = ScalingInProgress /\ UNCHANGED faults
  \/ inProgress = TRUE /\ Fault("api")

Opens(r, trigger, required, lost) ==
  /\ requests[r] = NoRequest
  /\ overlooked' = lost
  /\ defaulted' = (defaulted \/ bounds = DefaultBounds)
  /\ fresh' = IF lost THEN fresh ELSE 0
  /\ requests' = [requests EXCEPT ![r] =
       [trigger |-> trigger, required |-> required, moved |-> FALSE]]

NothingOpened == UNCHANGED <<requests, overlooked, defaulted, fresh>>

(***************************************************************************)
(* create_cluster_configuration: list, then create.  Nobody else creates   *)
(* requests, so what happens between the two calls happens before or after *)
(* both.                                                                   *)
(***************************************************************************)
CreateClusterConfiguration(trigger, required, created) ==
  \/ /\ created = FALSE
     /\ ListsRequests(TRUE) /\ NothingOpened
  \/ /\ ListsRequests(FALSE) /\ created = TRUE
     /\ \E r \in Names : Opens(r, trigger, required, FALSE)
  \/ /\ ~ScalingInProgress /\ created = FALSE
     /\ \/ Fault("api") /\ NothingOpened
        \/ /\ Fault("lost")
           /\ \E r \in Names : Opens(r, trigger, required, TRUE)

-----------------------------------------------------------------------------
\* A tick while forecast-parameters says Enabled: false: nothing is tracked.
TickDisabled ==
  /\ MayDisable
  /\ step = "read" /\ step' = "sleep"
  /\ UNCHANGED <<params, tick, votes, timers, reactiveInFlight, cluster, faults>>

\* read_forecast_cm and read_cluster_configuration_cm: a ConfigMap that cannot
\* be read is replaced by the defaults, which are enabled and not QOS.
ReadParameters ==
  /\ step = "read" /\ step' = "track"
  /\ \/ settings' = Settings /\ bounds' = Bounds /\ UNCHANGED faults
     \/ /\ settings' \in {Settings, DefaultSettings}
        /\ bounds' \in {Bounds, DefaultBounds}
        /\ Fault("api")
  /\ waiting' = (pods # "none")
  /\ UNCHANGED <<tick, votes, timers, reactiveInFlight, requests, active, pods,
                 quiet, overlooked, defaulted, fresh>>

\* Mutant: the end of a request is not noticed.
EndMissed == UNCHANGED <<idle, reactiveInFlight, cooldown>>

\* The first tick without open request takes it for ended now.
EndNoticed ==
  /\ idle' = IF idle = InFlight THEN 0 ELSE idle
  /\ reactiveInFlight' = (reactiveInFlight /\ idle # InFlight)
  /\ cooldown' = IF idle = InFlight /\ reactiveInFlight THEN settings.cooldown
                                                        ELSE cooldown

TrackScalingProgress ==
  /\ step = "track" /\ step' = "pods"
  /\ due' = (untilForecast = 0)
  /\ \/ /\ ListsRequests(TRUE)
        /\ idle' = InFlight /\ UNCHANGED <<reactiveInFlight, cooldown>>
     \/ ListsRequests(FALSE) /\ EndNoticed
  /\ overlooked' = FALSE
  /\ UNCHANGED <<params, podsSeen, read, votes, untilForecast, requests, active,
                 pods, quiet, defaulted, waiting, fresh>>

AfterReactive == IF due THEN "forecast" ELSE "sleep"

ListUnschedulablePods ==
  /\ step = "pods"
  /\ \/ (bounds.qos \/ due) /\ podsSeen' = pods /\ UNCHANGED faults
     \/ (bounds.qos \/ due) /\ podsSeen' = "unknown" /\ Fault("api")
     \/ ~bounds.qos /\ ~due /\ podsSeen' = "none" /\ UNCHANGED faults
  /\ step' = IF bounds.qos /\ podsSeen' \in {"young", "overdue"}
             THEN "react" ELSE AfterReactive
  /\ UNCHANGED <<params, due, read, votes, timers, reactiveInFlight, cluster>>

\* Mutant: the maximum is compared with the workers before the scale-up.
ReactiveDueAtMaximum ==
  /\ idle # InFlight /\ idle >= settings.grace
  /\ podsSeen = "overdue" /\ active <= bounds.max

\* The conditions of reactive_step, up to get_active_worker.
ReactiveDue ==
  /\ idle # InFlight /\ idle >= settings.grace
  /\ podsSeen = "overdue" /\ active < bounds.max

ReactiveStep ==
  /\ step = "react"
  /\ \/ ReactiveDue /\ step' = "create" /\ read' = active + 1
     \/ ~ReactiveDue /\ step' = AfterReactive /\ UNCHANGED read
  /\ UNCHANGED <<params, due, podsSeen, votes, timers, reactiveInFlight,
                 cluster, faults>>

\* Mutant: the votes are kept when the request is created.
ReactiveCreatedVotesKept ==
  /\ idle' = InFlight /\ reactiveInFlight' = TRUE
  /\ UNCHANGED votes

\* Mutant: idle_since is left alone when the request is created.
ReactiveCreatedStillIdle ==
  /\ reactiveInFlight' = TRUE
  /\ previousLabel' = NoLabel /\ labelCount' = 0
  /\ UNCHANGED idle

ReactiveCreated ==
  /\ idle' = InFlight /\ reactiveInFlight' = TRUE
  /\ previousLabel' = NoLabel /\ labelCount' = 0

ReactiveCreate ==
  /\ step = "create" /\ step' = AfterReactive
  /\ \/ CreateClusterConfiguration("pending", read, TRUE) /\ ReactiveCreated
     \/ /\ CreateClusterConfiguration("pending", read, FALSE)
        /\ UNCHANGED <<idle, reactiveInFlight, votes>>
  /\ UNCHANGED <<params, tick, cooldown, untilForecast, active, pods, quiet,
                 waiting>>

-----------------------------------------------------------------------------
\* forecast_step up to the call of forecast, which takes its time.
ForecastStart ==
  /\ step = "forecast" /\ step' = "decide"
  /\ read' = active
  /\ UNCHANGED <<params, due, podsSeen, votes, timers, reactiveInFlight,
                 cluster, faults>>

\* Mutant: pods that could not be listed are taken for none.
VetoOnPodsOnly == podsSeen \in {"young", "overdue"} \/ cooldown > 0

ScaleDownVeto == podsSeen # "none" \/ cooldown > 0

Cast(label) == IF label # previousLabel THEN 1
               ELSE IF labelCount < StabilizationCycles THEN labelCount + 1
               ELSE StabilizationCycles

Decisive(label) ==
  /\ label # 0 /\ Cast(label) >= settings.cycles
  /\ label < 0 => ~ScaleDownVeto
  /\ read + label \in bounds.min..bounds.max

\* What remains of forecast_step once forecast has returned label.  The count
\* starts again whether or not the request was created.
ForecastDecide(label) ==
  /\ step = "decide" /\ step' = "sleep"
  /\ previousLabel' = label
  /\ \/ /\ ~Decisive(label)
        /\ labelCount' = Cast(label)
        /\ fresh' = Longer(fresh, StabilizationCycles)
        /\ UNCHANGED <<idle, requests, overlooked, defaulted, faults>>
     \/ /\ Decisive(label)
        /\ labelCount' = 0
        /\ \/ /\ CreateClusterConfiguration("forecast", read + label, TRUE)
              /\ idle' = InFlight
           \/ /\ CreateClusterConfiguration("forecast", read + label, FALSE)
              /\ UNCHANGED idle
  /\ untilForecast' = settings.period
  /\ UNCHANGED <<params, tick, cooldown, reactiveInFlight, active, pods, quiet,
                 waiting>>

Later(timer) == IF timer > 0 THEN timer - 1 ELSE 0

\* time.sleep: the only step during which time passes.
Sleep ==
  /\ step = "sleep" /\ step' = "read"
  /\ settings' = Settings /\ bounds' = Bounds
  /\ due' = FALSE /\ podsSeen' = "none" /\ read' = 0
  /\ idle' = IF idle = InFlight THEN InFlight ELSE Longer(idle, LongestGrace)
  /\ cooldown' = Later(cooldown) /\ untilForecast' = Later(untilForecast)
  /\ quiet' = Longer(quiet, LongestGrace)
  /\ overlooked' = (overlooked \/ (ScalingInProgress /\ idle # InFlight))
  /\ waiting' = FALSE
  /\ UNCHANGED <<votes, reactiveInFlight, requests, active, pods, defaulted,
                 fresh, faults>>

\* A crash, or an error of get_active_worker, which nobody catches: main
\* starts with a new ScalingState, and the first forecast is due at once.
Restart ==
  /\ \/ Fault("crash")
     \/ step \in {"react", "forecast"} /\ Fault("api")
  /\ step' = "read" /\ settings' = Settings /\ bounds' = Bounds
  /\ due' = FALSE /\ podsSeen' = "none" /\ read' = 0
  /\ previousLabel' = NoLabel /\ labelCount' = 0
  /\ idle' = 0 /\ reactiveInFlight' = FALSE
  /\ cooldown' = 0 /\ untilForecast' = 0
  /\ waiting' = FALSE
  /\ UNCHANGED <<requests, active, pods, quiet, overlooked, defaulted, fresh>>

-----------------------------------------------------------------------------
\* The operator moves the node of request r.
MoveNode(r) ==
  /\ requests[r] # NoRequest /\ ~requests[r].moved
  /\ requests[r].required # active
  /\ requests' = [requests EXCEPT ![r].moved = TRUE]
  /\ active' = IF requests[r].required > active THEN active + 1 ELSE active - 1
  /\ UNCHANGED <<step, params, tick, votes, timers, reactiveInFlight, pods,
                 history, faults>>

\* Request r becomes Finished or Failed.
EndRequest(r) ==
  /\ requests[r] # NoRequest
  /\ requests' = [requests EXCEPT ![r] = NoRequest]
  /\ quiet' = IF overlooked THEN quiet ELSE 0
  /\ UNCHANGED <<step, params, tick, votes, timers, reactiveInFlight, active,
                 pods, overlooked, defaulted, waiting, fresh, faults>>

PodsChange(from, to) ==
  /\ pods = from /\ pods' = to
  /\ waiting' = (waiting /\ to # "none")
  /\ UNCHANGED <<step, params, tick, votes, timers, reactiveInFlight, requests,
                 active, quiet, overlooked, defaulted, fresh, faults>>

PodsAge == PodsChange("none", "young") \/ PodsChange("young", "overdue")
PodsScheduled == PodsChange("young", "none") \/ PodsChange("overdue", "none")

-----------------------------------------------------------------------------
Tick ==
  \/ TrackScalingProgress
  \/ ListUnschedulablePods \/ ReactiveStep \/ ReactiveCreate \/ ForecastStart
  \/ \E label \in Labels : ForecastDecide(label)
  \/ Sleep

Next ==
  \/ ReadParameters \/ TickDisabled \/ Tick \/ Restart
  \/ \E r \in Names : MoveNode(r) \/ EndRequest(r)
  \/ PodsAge \/ PodsScheduled

(***************************************************************************)
(* The loop goes on and is enabled time and again; the operator ends every *)
(* request, as OneStepRequestsEnd of Operator promises.                    *)
(***************************************************************************)
Fairness ==
  /\ SF_vars(ReadParameters) /\ WF_vars(TickDisabled \/ Tick)
  /\ \A r \in Names : WF_vars(EndRequest(r))

Spec == Init /\ [][Next]_vars
FairSpec == Spec /\ Fairness

-----------------------------------------------------------------------------
Created(r) == requests[r] = NoRequest /\ requests'[r] # NoRequest

\* There is never more than one open request, whatever calls fail or are
\* repeated and however often the forecaster restarts.
OneRequestAtATime ==
  \A r, s \in Names :
    requests[r] # NoRequest /\ requests[s] # NoRequest => r = s

\* The pool stays within its configured bounds although requests are computed
\* from counts that are out of date when they are created and carried out; once
\* a request was created in a tick that could not read the bounds, it stays
\* within the wider of these and of the defaults.
PoolWithinBounds ==
  active \in IF defaulted
            THEN Lower(MinNodes, DefaultBounds.min)
                   ..Higher(MaxNodes, DefaultBounds.max)
            ELSE MinNodes..MaxNodes

\* The scheduler had the grace period to place pods on the node of the last
\* request before a reactive request asks for another one: the forecaster only
\* sees ends from tick to tick and forgets them in a restart.  Left out is the
\* end of a request it overlooked: one whose create got no answer, or one open
\* when it restarted into a pause.
GraceRespected ==
  [][\A r \in Names :
       Created(r) /\ requests'[r].trigger = "pending" 
         => quiet >= settings.grace]_vars

\* No node is asked to go while pods have waited for one ever since the tick
\* began, whatever the profile, although the pods are listed before the forecast
\* and the list may fail.
NoScaleDownUnderPods ==
  [][\A r \in Names :
       Created(r) /\ requests'[r].required < read => ~waiting]_vars

\* A forecast moves a node only when as many forecasts as the stabilization asks
\* for were made since the last request the forecaster knows to have created:
\* votes cast for another number of nodes do not count.
VotesAreFresh ==
  [][\A r \in Names :
       Created(r) /\ requests'[r].trigger = "forecast"
         => fresh + 1 >= settings.cycles]_vars

\* Pods that stay overdue get a request for one more node, unless the cluster
\* is at its maximum.
ScaleUpOpen ==
  \E r \in Names : requests[r] # NoRequest /\ requests[r].required > active
OverduePodsGetANode ==
  pods = "overdue" ~> pods # "overdue" \/ active >= MaxNodes \/ ScaleUpOpen
=============================================================================
