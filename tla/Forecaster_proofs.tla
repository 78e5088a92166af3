-------------------------- MODULE Forecaster_proofs --------------------------
(***************************************************************************)
(* What holds of the forecaster for every pool, every timer and every      *)
(* number of faults.                                                       *)
(***************************************************************************)
EXTENDS Forecaster, TLAPS

\* What a call of create_cluster_configuration leaves: the open requests as
\* they were or, when there was none, one new request.
LEMMA CreateEffect ==
  ASSUME TypeOK, NEW trigger \in Triggers, NEW required \in Int,
         NEW created \in BOOLEAN,
         CreateClusterConfiguration(trigger, required, created)
  PROVE  /\ requests' \in [Names -> Request \cup {NoRequest}]
         /\ faults' \in 0..MaxFaults
         /\ created => ~ScalingInProgress
         /\ \/ requests' = requests
            \/ /\ ~ScalingInProgress
               /\ \E r \in Names, lost \in BOOLEAN :
                    Opens(r, trigger, required, lost)
         /\ UNCHANGED <<requests, overlooked>> \/ created \/ overlooked'
<1> USE DEF TypeOK
<1>1. \A r \in Names, lost \in BOOLEAN : Opens(r, trigger, required, lost)
        => requests' \in [Names -> Request \cup {NoRequest}]
  BY DEF Opens, Request
<1>2. faults' \in 0..MaxFaults
  <2>1. UNCHANGED faults \/ (faults < MaxFaults /\ faults' = faults + 1)
    BY ONLY CreateClusterConfiguration(trigger, required, created), Zenon
       DEF CreateClusterConfiguration, ListsRequests, Fault
  <2> QED
    BY <2>1, ForecasterAssumption
<1>3. CASE /\ created = FALSE /\ ListsRequests(TRUE)
           /\ NothingOpened
  BY <1>2, <1>3 DEF NothingOpened
<1>4. CASE /\ ListsRequests(FALSE) /\ created = TRUE
           /\ \E r \in Names : Opens(r, trigger, required, FALSE)
  BY <1>1, <1>2, <1>4 DEF ListsRequests
<1>5. CASE /\ ~ScalingInProgress /\ created = FALSE
           /\ \/ Fault("api") /\ NothingOpened
              \/ /\ Fault("lost")
                 /\ \E r \in Names : Opens(r, trigger, required, TRUE)
  BY <1>1, <1>2, <1>5 DEF Fault, Opens, NothingOpened
<1> QED
  BY <1>3, <1>4, <1>5 DEF CreateClusterConfiguration

\* The counter of votes stays a counter.
LEMMA CastType ==
  ASSUME TypeOK, NEW label \in Labels
  PROVE  Cast(label) \in 0..StabilizationCycles
BY ForecasterAssumption DEF TypeOK, Cast

\* A call of create_cluster_configuration keeps the types of the history.
LEMMA CreateHistory ==
  ASSUME FlagsOK, fresh \in 0..StabilizationCycles,
         NEW trigger, NEW required, NEW created,
         CreateClusterConfiguration(trigger, required, created)
  PROVE  /\ overlooked' \in BOOLEAN /\ defaulted' \in BOOLEAN
         /\ fresh' \in 0..StabilizationCycles
<1>1. CASE NothingOpened
  BY <1>1 DEF NothingOpened, FlagsOK
<1>2. ASSUME NEW r \in Names, NEW lost \in BOOLEAN,
             Opens(r, trigger, required, lost)
      PROVE  /\ overlooked' \in BOOLEAN /\ defaulted' \in BOOLEAN
             /\ fresh' \in 0..StabilizationCycles
  BY <1>2, ForecasterAssumption DEF Opens, FlagsOK
<1> QED
  BY <1>1, <1>2 DEF CreateClusterConfiguration

\* The flags of the loop stay flags.
LEMMA Flags ==
  ASSUME FlagsOK, fresh \in 0..StabilizationCycles, [Next]_vars
  PROVE  FlagsOK'
<1>1. CASE TrackScalingProgress \/ ReadParameters
  BY <1>1 DEF TrackScalingProgress, ReadParameters, EndNoticed, FlagsOK, tick
<1>2. CASE ReactiveCreate
  <2>1. overlooked' \in BOOLEAN /\ defaulted' \in BOOLEAN
    BY <1>2, CreateHistory DEF ReactiveCreate
  <2> QED
    BY <1>2, <2>1 DEF ReactiveCreate, ReactiveCreated, tick, FlagsOK
<1>3. CASE TickDisabled \/ ListUnschedulablePods \/ ReactiveStep \/ ForecastStart
  BY <1>3 DEF TickDisabled, ListUnschedulablePods, ReactiveStep, ForecastStart,
              tick, cluster, history, FlagsOK
<1>4. ASSUME NEW label \in Labels, ForecastDecide(label) PROVE FlagsOK'
  <2>1. overlooked' \in BOOLEAN /\ defaulted' \in BOOLEAN
    BY <1>4, CreateHistory DEF ForecastDecide, FlagsOK
  <2> QED
    BY <1>4, <2>1 DEF ForecastDecide, tick, FlagsOK
<1>5. CASE Sleep
  BY <1>5 DEF Sleep, FlagsOK
<1>6. CASE Restart
  BY <1>6 DEF Restart, cluster, history, FlagsOK
<1>7. CASE \/ PodsAge \/ PodsScheduled
           \/ \E r \in Names : MoveNode(r) \/ EndRequest(r)
  BY <1>7 DEF MoveNode, EndRequest, PodsAge, PodsScheduled, PodsChange, tick,
              history, FlagsOK
<1>8. CASE UNCHANGED vars
  BY <1>8 DEF vars, tick, cluster, history, FlagsOK
<1> QED
  BY <1>1, <1>2, <1>3, <1>4, <1>5, <1>6, <1>7, <1>8 DEF Next, Tick

\* The state of the loop, of the requests and of the pool has its type.
THEOREM Typing == Spec => []TypeOK
<1>1. Init => TypeOK
  <2> SUFFICES ASSUME Init PROVE TypeOK
    OBVIOUS
  <2>1. FlagsOK
    BY DEF Init, FlagsOK
  <2> QED
    BY <2>1, ForecasterAssumption
       DEF Init, TypeOK, Steps, NoLabel, InFlight, LongestGrace, Higher
<1>2. TypeOK /\ [Next]_vars => TypeOK'
  <2> SUFFICES ASSUME TypeOK, [Next]_vars PROVE TypeOK'
    OBVIOUS
  <2>0. FlagsOK'
    BY Flags DEF TypeOK
  <2> USE <2>0, ForecasterAssumption DEF TypeOK, Steps, params
  <2>a. /\ LongestGrace \in Nat
        /\ settings.cooldown \in 0..Higher(Cooldown, DefaultCooldown)
        /\ settings.period \in 0..Higher(Period, DefaultPeriod)
    BY DEF LongestGrace, Higher, Settings, DefaultSettings
  <2>b. CASE ReadParameters
    BY <2>b DEF ReadParameters, Fault, tick, votes, timers
  <2>1. CASE TrackScalingProgress
    BY <2>1, <2>a DEF TrackScalingProgress, ListsRequests, EndNoticed, Fault,
                InFlight, votes
  <2>2. CASE TickDisabled
    BY <2>2 DEF TickDisabled, tick, votes, timers, cluster, history
  <2>3. CASE ListUnschedulablePods
    BY <2>3 DEF ListUnschedulablePods, AfterReactive, Fault, votes, timers,
                cluster, history
  <2>4. CASE ReactiveStep
    BY <2>4 DEF ReactiveStep, AfterReactive, votes, timers, cluster, history
  <2>5. CASE ReactiveCreate
    <3>1. /\ requests' \in [Names -> Request \cup {NoRequest}]
          /\ faults' \in 0..MaxFaults /\ fresh' \in 0..StabilizationCycles
      BY <2>5, CreateEffect, CreateHistory DEF ReactiveCreate, Triggers
    <3>2. step' \in Steps
      BY <2>5 DEF ReactiveCreate, AfterReactive
    <3>3. CASE ReactiveCreated
      BY <2>5, <3>1, <3>2, <3>3 DEF ReactiveCreate, ReactiveCreated, tick
    <3>4. CASE UNCHANGED <<idle, reactiveInFlight, votes>>
      BY <2>5, <3>1, <3>2, <3>4 DEF ReactiveCreate, votes, tick
    <3> QED
      BY <2>5, <3>3, <3>4 DEF ReactiveCreate
  <2>6. CASE ForecastStart
    BY <2>6 DEF ForecastStart, votes, timers, cluster, history
  <2>7. ASSUME NEW label \in Labels, ForecastDecide(label) PROVE TypeOK'
    <3>1. /\ requests' \in [Names -> Request \cup {NoRequest}]
          /\ faults' \in 0..MaxFaults /\ fresh' \in 0..StabilizationCycles
      <4>1. read + label \in Int /\ "forecast" \in Triggers
        BY DEF Labels, Triggers
      <4>2. CASE /\ UNCHANGED <<requests, faults>>
                 /\ fresh' = Longer(fresh, StabilizationCycles)
        BY <4>2 DEF Longer
      <4>3. ASSUME NEW created \in BOOLEAN,
                   CreateClusterConfiguration("forecast", read + label, created)
            PROVE  /\ requests' \in [Names -> Request \cup {NoRequest}]
                   /\ faults' \in 0..MaxFaults
                   /\ fresh' \in 0..StabilizationCycles
        BY <4>1, <4>3, CreateEffect, CreateHistory
      <4> QED
        BY <2>7, <4>2, <4>3 DEF ForecastDecide
    <3>2. Cast(label) \in 0..StabilizationCycles
      BY CastType
    <3>3. step' \in Steps /\ previousLabel' \in Labels \cup {NoLabel}
      BY <2>7 DEF ForecastDecide
    <3>4. labelCount' \in 0..StabilizationCycles
      <4>1. CASE ~Decisive(label)
        BY <2>7, <3>2, <4>1 DEF ForecastDecide
      <4>2. CASE Decisive(label)
        BY <2>7, <4>2 DEF ForecastDecide
      <4> QED
        BY <4>1, <4>2
    <3>5. /\ idle' \in {InFlight} \cup 0..LongestGrace
          /\ untilForecast' \in 0..Higher(Period, DefaultPeriod)
      <4>1. (idle' = InFlight \/ idle' = idle) /\ untilForecast' = settings.period
        BY ONLY <2>7, Zenon DEF ForecastDecide
      <4> QED
        BY <4>1, <2>a
    <3>6. UNCHANGED <<settings, bounds, read, podsSeen, cooldown, active, pods,
                      quiet>>
      BY <2>7 DEF ForecastDecide, tick
    <3> QED
      BY <2>0, <3>1, <3>3, <3>4, <3>5, <3>6
  <2>8. CASE Sleep
    <3>1. /\ idle' \in {InFlight} \cup 0..LongestGrace
          /\ quiet' \in 0..LongestGrace
      BY <2>8, <2>a DEF Sleep, Longer, InFlight
    <3>2. /\ cooldown' \in 0..Higher(Cooldown, DefaultCooldown)
          /\ untilForecast' \in 0..Higher(Period, DefaultPeriod)
      BY <2>8 DEF Sleep, Later, Higher
    <3> QED
      BY <2>8, <3>1, <3>2 DEF Sleep, votes
  <2>9. CASE Restart
    BY <2>9, <2>a DEF Restart, Fault, NoLabel, Higher
  <2>10. ASSUME NEW r \in Names, MoveNode(r) PROVE TypeOK'
    <3>1. requests[r] \in Request /\ active' \in Int
      BY <2>10 DEF MoveNode
    <3>2. requests' \in [Names -> Request \cup {NoRequest}]
      BY <2>10, <3>1 DEF MoveNode, Request
    <3> QED
      BY <2>10, <3>1, <3>2 DEF MoveNode, tick, votes, timers, history
  <2>11. ASSUME NEW r \in Names, EndRequest(r) PROVE TypeOK'
    <3>1. /\ requests' \in [Names -> Request \cup {NoRequest}]
          /\ quiet' \in 0..LongestGrace
      BY <2>11, <2>a DEF EndRequest
    <3> QED
      BY <2>11, <3>1 DEF EndRequest, tick, votes, timers
  <2>12. CASE PodsAge \/ PodsScheduled
    BY <2>12 DEF PodsAge, PodsScheduled, PodsChange, tick, votes, timers,
                 history
  <2>13. CASE UNCHANGED vars
    BY <2>13 DEF vars, tick, votes, timers, cluster, history
  <2> QED
    BY <2>b, <2>1, <2>2, <2>3, <2>4, <2>5, <2>6, <2>7, <2>8, <2>9, <2>10,
       <2>11, <2>12, <2>13 DEF Next, Tick
<1> QED
  BY <1>1, <1>2, PTL DEF Spec

-----------------------------------------------------------------------------
\* There is never more than one open request.  That is inductive by itself:
\* requests are created by the one loop, which sees none open or does nothing.
THEOREM OneRequest == Spec => []OneRequestAtATime
<1>1. Init => OneRequestAtATime
  BY DEF Init, OneRequestAtATime
<1>2. TypeOK /\ OneRequestAtATime /\ [Next]_vars => OneRequestAtATime'
  <2> SUFFICES ASSUME TypeOK, OneRequestAtATime, [Next]_vars
               PROVE  OneRequestAtATime'
    OBVIOUS
  <2>1. CASE UNCHANGED requests
    BY <2>1 DEF OneRequestAtATime
  <2>2. ASSUME NEW trigger \in Triggers, NEW required \in Int,
               NEW created \in BOOLEAN,
               CreateClusterConfiguration(trigger, required, created)
        PROVE  OneRequestAtATime'
    <3>1. CASE requests' = requests
      BY <2>1, <3>1
    <3>2. ASSUME ~ScalingInProgress, NEW r \in Names, NEW lost \in BOOLEAN,
                 Opens(r, trigger, required, lost)
          PROVE  \A s \in Names : requests'[s] # NoRequest => s = r
      BY <3>2 DEF ScalingInProgress, Opens, TypeOK
    <3> QED
      BY <2>2, <3>1, <3>2, CreateEffect DEF OneRequestAtATime
  <2>3. ASSUME NEW r \in Names, MoveNode(r) \/ EndRequest(r)
        PROVE  OneRequestAtATime'
    <3>1. \A s \in Names : requests'[s] # NoRequest => requests[s] # NoRequest
      BY <2>3 DEF MoveNode, EndRequest, TypeOK
    <3> QED
      BY <3>1 DEF OneRequestAtATime
  <2>4. CASE ReactiveCreate
    BY <2>2, <2>4 DEF ReactiveCreate, Triggers, TypeOK
  <2>5. ASSUME NEW label \in Labels, ForecastDecide(label)
        PROVE  OneRequestAtATime'
    <3>1. read + label \in Int /\ "forecast" \in Triggers
      BY DEF Labels, Triggers, TypeOK
    <3> QED
      BY <2>1, <2>2, <2>5, <3>1 DEF ForecastDecide
  <2>6. CASE \/ ReadParameters
             \/ TrackScalingProgress \/ TickDisabled \/ ListUnschedulablePods
             \/ ReactiveStep \/ ForecastStart \/ Sleep \/ Restart
             \/ PodsAge \/ PodsScheduled \/ UNCHANGED vars
    <3>1. UNCHANGED requests
      BY <2>6 DEF ReadParameters, TrackScalingProgress, TickDisabled, ListUnschedulablePods,
                  ReactiveStep, ForecastStart, Sleep, Restart, PodsAge,
                  PodsScheduled, PodsChange, cluster, history, vars
    <3> QED
      BY <2>1, <3>1
  <2> QED
    BY <2>3, <2>4, <2>5, <2>6 DEF Next, Tick
<1> QED
  BY <1>1, <1>2, Typing, PTL DEF Spec

-----------------------------------------------------------------------------
\* Where the pool may be.
Limits ==
  IF defaulted THEN Lower(MinNodes, DefaultBounds.min)
                      ..Higher(MaxNodes, DefaultBounds.max)
               ELSE MinNodes..MaxNodes

\* Where it may be once a request of this tick is created.
TickLimits ==
  IF defaulted \/ bounds = DefaultBounds
  THEN Lower(MinNodes, DefaultBounds.min)..Higher(MaxNodes, DefaultBounds.max)
  ELSE MinNodes..MaxNodes

\* What keeps the pool within its bounds: whatever is asked for is within
\* them, the request about to be created included.
WithinBounds ==
  /\ PoolWithinBounds
  /\ \A r \in Names :
       requests[r] # NoRequest => requests[r].required \in Limits
  /\ step = "create" => read \in TickLimits

\* The limits only widen, and the bounds of a tick are within its limits.
LEMMA LimitsWiden ==
  ASSUME TypeOK
  PROVE  /\ Limits \subseteq TickLimits /\ TickLimits \subseteq Int
         /\ \A n \in Int : n \in bounds.min..bounds.max => n \in TickLimits
         /\ \A n \in Limits : n < bounds.max => n + 1 \in TickLimits
<1> USE ForecasterAssumption
<1>1. /\ DefaultBounds.min = 1 /\ DefaultBounds.max = 5
      /\ bounds # DefaultBounds => bounds.min = MinNodes /\ bounds.max = MaxNodes
  BY DEF DefaultBounds, Bounds, TypeOK
<1>2. CASE defaulted \/ bounds = DefaultBounds
  BY <1>1, <1>2 DEF Limits, TickLimits, Lower, Higher
<1>3. CASE ~defaulted /\ bounds # DefaultBounds
  BY <1>1, <1>3 DEF Limits, TickLimits
<1> QED
  BY <1>2, <1>3

\* A request within the limits of the tick keeps the pool and the requests
\* within those of the next state.
LEMMA CreateWithin ==
  ASSUME TypeOK, WithinBounds, NEW trigger \in Triggers,
         NEW required \in TickLimits, NEW created \in BOOLEAN,
         CreateClusterConfiguration(trigger, required, created),
         UNCHANGED <<bounds, active>>, step' # "create"
  PROVE  WithinBounds'
<1>1. CASE NothingOpened
  BY <1>1 DEF NothingOpened, WithinBounds, PoolWithinBounds, Limits
<1>2. ASSUME NEW r \in Names, NEW lost \in BOOLEAN,
             Opens(r, trigger, required, lost)
      PROVE  WithinBounds'
  <2>1. Limits' = TickLimits
    BY <1>2 DEF Opens, Limits, TickLimits
  <2>2. active' \in Limits'
    BY <2>1, LimitsWiden DEF WithinBounds, PoolWithinBounds, Limits
  <2>3. \A s \in Names : requests'[s] # NoRequest => requests'[s].required \in Limits'
    BY <1>2, <2>1, LimitsWiden DEF Opens, TypeOK, WithinBounds
  <2> QED
    BY <2>2, <2>3 DEF WithinBounds, PoolWithinBounds, Limits
<1> QED
  BY <1>1, <1>2 DEF CreateClusterConfiguration

\* Every step keeps the pool and what is asked for within the limits.
LEMMA BoundsStep ==
  ASSUME TypeOK, WithinBounds, [Next]_vars
  PROVE  WithinBounds'
<1>1. ASSUME UNCHANGED <<requests, active, defaulted>>,
             step' = "create" => step = "create" /\ UNCHANGED <<read, bounds>>
      PROVE  WithinBounds'
  BY <1>1 DEF WithinBounds, PoolWithinBounds, Limits, TickLimits
<1>2. ASSUME NEW r \in Names, MoveNode(r) PROVE WithinBounds'
  <2>1. requests[r] \in Request /\ requests[r].required \in Limits
    BY <1>2 DEF MoveNode, TypeOK, WithinBounds
  <2>2. Limits' = Limits /\ UNCHANGED <<step, read, bounds, defaulted>>
    BY <1>2 DEF MoveNode, Limits, params, tick, history
  <2>3. active' \in Limits
    <3>1. active \in Limits /\ active \in Int
      BY DEF WithinBounds, PoolWithinBounds, Limits, TypeOK
    <3>2. PICK low \in Int, high \in Int : Limits = low..high
      BY ForecasterAssumption DEF Limits, Lower, Higher, DefaultBounds
    <3> QED
      BY <1>2, <2>1, <3>1, <3>2 DEF MoveNode
  <2>4. \A s \in Names :
          requests'[s] # NoRequest => requests'[s].required \in Limits
    BY <1>2, <2>1 DEF MoveNode, WithinBounds, TypeOK, Request
  <2> QED
    BY <2>2, <2>3, <2>4 DEF WithinBounds, PoolWithinBounds, Limits, TickLimits
<1>3. ASSUME NEW r \in Names, EndRequest(r) PROVE WithinBounds'
  BY <1>3 DEF EndRequest, WithinBounds, PoolWithinBounds, Limits, TickLimits,
              TypeOK, params, tick
<1>4. CASE ReactiveStep
  <2>1. active \in Limits /\ active \in Int
    BY DEF WithinBounds, PoolWithinBounds, Limits, TypeOK
  <2>2. ReactiveDue => active + 1 \in TickLimits
    BY <2>1, LimitsWiden DEF ReactiveDue
  <2>3. AfterReactive # "create"
    BY DEF AfterReactive
  <2> QED
    BY <1>4, <2>2, <2>3
       DEF ReactiveStep, WithinBounds, PoolWithinBounds, Limits, TickLimits,
           params, cluster, history
<1>5. CASE ReactiveCreate
  <2>1. read \in TickLimits /\ "pending" \in Triggers
    BY <1>5 DEF ReactiveCreate, WithinBounds, Triggers
  <2>2. step' # "create" /\ UNCHANGED <<bounds, active>>
    BY <1>5 DEF ReactiveCreate, AfterReactive, params
  <2>3. PICK created \in BOOLEAN :
          CreateClusterConfiguration("pending", read, created)
    BY <1>5 DEF ReactiveCreate
  <2> QED
    BY <2>1, <2>2, <2>3, CreateWithin
<1>6. ASSUME NEW label \in Labels, ForecastDecide(label) PROVE WithinBounds'
  <2>1. step' # "create" /\ UNCHANGED <<bounds, active>>
    BY <1>6 DEF ForecastDecide, params
  <2>2. CASE ~Decisive(label)
    BY <1>1, <1>6, <2>1, <2>2 DEF ForecastDecide
  <2>3. CASE Decisive(label)
    <3>1. read + label \in Int /\ "forecast" \in Triggers
      BY DEF Labels, Triggers, TypeOK
    <3>2. read + label \in TickLimits
      BY <2>3, <3>1, LimitsWiden DEF Decisive
    <3>3. PICK created \in BOOLEAN :
            CreateClusterConfiguration("forecast", read + label, created)
      BY <1>6, <2>3 DEF ForecastDecide
    <3> QED
      BY <2>1, <3>1, <3>2, <3>3, CreateWithin
  <2> QED
    BY <2>2, <2>3
<1>7. CASE \/ ReadParameters \/ TrackScalingProgress \/ TickDisabled
           \/ ListUnschedulablePods \/ ForecastStart \/ Sleep \/ Restart
           \/ PodsAge \/ PodsScheduled \/ UNCHANGED vars
  BY <1>1, <1>7
     DEF ReadParameters, TrackScalingProgress, TickDisabled,
         ListUnschedulablePods, AfterReactive, ForecastStart, Sleep, Restart,
         PodsAge, PodsScheduled, PodsChange, cluster, history, params, tick, vars
<1> QED
  BY <1>2, <1>3, <1>4, <1>5, <1>6, <1>7 DEF Next, Tick

\* No request takes the pool out of the bounds it was created with, however old
\* the count is that it was computed from: the pool is within the configured
\* ones until a request was created on the default ones, and afterwards within
\* the wider of the two.
THEOREM Pool == Spec => []PoolWithinBounds
<1>1. Init => WithinBounds
  BY ForecasterAssumption DEF Init, WithinBounds, PoolWithinBounds
<1>2. TypeOK /\ WithinBounds /\ [Next]_vars => WithinBounds'
  BY BoundsStep
<1>3. WithinBounds => PoolWithinBounds
  BY DEF WithinBounds
<1> QED
  BY <1>1, <1>2, <1>3, Typing, PTL DEF Spec

-----------------------------------------------------------------------------
\* Why the grace period is respected.  The idle time the forecaster counts has
\* passed, and while it counts no request is open but one it overlooked, or one
\* it forgot in a restart and had no time to overlook.
GraceInv ==
  /\ idle # InFlight => idle <= quiet
  /\ idle # InFlight /\ ScalingInProgress => overlooked \/ idle = 0
  /\ step = "create" => idle # InFlight /\ idle >= settings.grace

\* A create that reports failure has created nothing, or a request that is
\* overlooked.
LEMMA CreateUnknown ==
  ASSUME TypeOK, NEW trigger \in Triggers, NEW required \in Int,
         CreateClusterConfiguration(trigger, required, FALSE)
  PROVE  UNCHANGED <<requests, overlooked>> \/ overlooked'
BY CreateEffect

\* A step of the loop that leaves the clocks and the step "create" alone.
LEMMA GraceUntouched ==
  ASSUME TypeOK, GraceInv, UNCHANGED <<idle, quiet>>,
         UNCHANGED <<requests, overlooked>> \/ overlooked',
         step' = "create" => step = "create" /\ UNCHANGED settings
  PROVE  GraceInv'
BY DEF GraceInv, ScalingInProgress

\* Every step keeps the invariant of the grace period.
LEMMA GraceStep ==
  ASSUME TypeOK, GraceInv, [Next]_vars
  PROVE  GraceInv'
<1> USE ForecasterAssumption DEF InFlight
<1>1. CASE TrackScalingProgress
  <2>1. step' = "pods" /\ UNCHANGED <<requests, quiet>>
    BY <1>1 DEF TrackScalingProgress
  <2>2. CASE idle' = InFlight
    BY <2>1, <2>2 DEF GraceInv
  <2>3. CASE ListsRequests(FALSE) /\ EndNoticed
    <3>1. ~ScalingInProgress'
      BY <2>1, <2>3 DEF ListsRequests, ScalingInProgress
    <3>2. idle' <= quiet'
      BY <2>1, <2>3 DEF EndNoticed, GraceInv, TypeOK
    <3> QED
      BY <2>1, <3>1, <3>2 DEF GraceInv
  <2> QED
    BY <1>1, <2>2, <2>3 DEF TrackScalingProgress
<1>2. CASE ReactiveStep
  BY <1>2 DEF ReactiveStep, ReactiveDue, AfterReactive, GraceInv, TypeOK,
              ScalingInProgress, timers, cluster, history, params
<1>3. CASE ReactiveCreate
  <2>1. step' # "create" /\ UNCHANGED quiet
    BY <1>3 DEF ReactiveCreate, AfterReactive
  <2>2. CASE idle' = InFlight
    BY <2>1, <2>2 DEF GraceInv
  <2>3. CASE /\ CreateClusterConfiguration("pending", read, FALSE)
             /\ UNCHANGED idle
    <3>1. UNCHANGED <<requests, overlooked>> \/ overlooked'
      BY <2>3, CreateUnknown DEF Triggers, TypeOK
    <3> QED
      BY <2>1, <2>3, <3>1, GraceUntouched
  <2> QED
    BY <1>3, <2>2, <2>3 DEF ReactiveCreate, ReactiveCreated
<1>4. ASSUME NEW label \in Labels, ForecastDecide(label) PROVE GraceInv'
  <2>1. step' = "sleep" /\ UNCHANGED quiet
    BY <1>4 DEF ForecastDecide
  <2>2. CASE idle' = InFlight
    BY <2>1, <2>2 DEF GraceInv
  <2>3. CASE UNCHANGED <<idle, requests, overlooked>>
    BY <2>1, <2>3, GraceUntouched
  <2>4. CASE /\ CreateClusterConfiguration("forecast", read + label, FALSE)
             /\ UNCHANGED idle
    <3>1. read + label \in Int /\ "forecast" \in Triggers
      BY DEF Labels, Triggers, TypeOK
    <3>2. UNCHANGED <<requests, overlooked>> \/ overlooked'
      BY <2>4, <3>1, CreateUnknown
    <3> QED
      BY <2>1, <2>4, <3>2, GraceUntouched
  <2> QED
    BY <1>4, <2>2, <2>3, <2>4 DEF ForecastDecide
<1>5. CASE Sleep
  <2>1. /\ step' = "read" /\ UNCHANGED requests
        /\ idle' = IF idle = InFlight THEN InFlight
                                      ELSE Longer(idle, LongestGrace)
        /\ quiet' = Longer(quiet, LongestGrace)
        /\ ScalingInProgress /\ idle # InFlight => overlooked'
    BY <1>5 DEF Sleep
  <2>2. CASE idle = InFlight
    BY <2>1, <2>2 DEF GraceInv
  <2>3. CASE idle # InFlight
    <3>1. idle' <= quiet'
      <4>1. LongestGrace \in Nat
        BY DEF LongestGrace, Higher
      <4> QED
        BY <2>1, <2>3, <4>1 DEF GraceInv, Longer, TypeOK
    <3>2. ScalingInProgress' => overlooked'
      BY <2>1, <2>3 DEF ScalingInProgress
    <3> QED
      BY <2>1, <3>1, <3>2 DEF GraceInv
  <2> QED
    BY <2>2, <2>3
<1>6. CASE Restart
  <2>1. step' = "read" /\ idle' = 0 /\ UNCHANGED quiet
    BY <1>6 DEF Restart
  <2> QED
    BY <2>1 DEF GraceInv, TypeOK
<1>7. ASSUME NEW r \in Names, MoveNode(r) PROVE GraceInv'
  <2>1. /\ ScalingInProgress
        /\ UNCHANGED <<step, settings, idle, quiet, overlooked>>
    BY <1>7 DEF MoveNode, ScalingInProgress, timers, history, params
  <2> QED
    BY <2>1 DEF GraceInv
<1>8. ASSUME NEW r \in Names, EndRequest(r) PROVE GraceInv'
  <2>1. /\ ScalingInProgress /\ UNCHANGED <<step, settings, idle, overlooked>>
        /\ quiet' = IF overlooked THEN quiet ELSE 0
    BY <1>8 DEF EndRequest, ScalingInProgress, timers, params
  <2> QED
    BY <2>1 DEF GraceInv
<1>9. CASE \/ ReadParameters \/ TickDisabled \/ ListUnschedulablePods
           \/ ForecastStart \/ PodsAge \/ PodsScheduled \/ UNCHANGED vars
  <2>1. UNCHANGED <<requests, overlooked, idle, quiet>>
    BY <1>9 DEF ReadParameters, TickDisabled, ListUnschedulablePods, ForecastStart, PodsAge,
                PodsScheduled, PodsChange, cluster, history, timers, vars
  <2>2. step' = "create" => step = "create" /\ UNCHANGED settings
    BY <1>9 DEF ReadParameters, TickDisabled, ListUnschedulablePods,
                AfterReactive, ForecastStart, PodsAge, PodsScheduled,
                PodsChange, params, vars
  <2> QED
    BY <2>1, <2>2, GraceUntouched
<1> QED
  BY <1>1, <1>2, <1>3, <1>4, <1>5, <1>6, <1>7, <1>8, <1>9 DEF Next, Tick

\* A new request is one of the two that the loop creates.
LEMMA CreatedBy ==
  ASSUME TypeOK, [Next]_vars, NEW r \in Names, Created(r)
  PROVE  \/ /\ ReactiveCreate
            /\ \E lost \in BOOLEAN : Opens(r, "pending", read, lost)
         \/ \E label \in Labels, lost \in BOOLEAN :
              /\ ForecastDecide(label) /\ Decisive(label)
              /\ Opens(r, "forecast", read + label, lost)
<1>1. ASSUME NEW s \in Names, NEW trigger, NEW required, NEW lost,
             Opens(s, trigger, required, lost)
      PROVE  s = r
  BY <1>1 DEF Opens, Created, TypeOK
<1>2. CASE ReactiveCreate
  <2>1. PICK created \in BOOLEAN :
          CreateClusterConfiguration("pending", read, created)
    BY <1>2 DEF ReactiveCreate
  <2>2. PICK s \in Names, lost \in BOOLEAN : Opens(s, "pending", read, lost)
    BY <2>1, CreateEffect DEF Created, Triggers, TypeOK
  <2> QED
    BY <1>1, <1>2, <2>2
<1>3. ASSUME NEW label \in Labels, ForecastDecide(label)
      PROVE  \E lost \in BOOLEAN :
               /\ ForecastDecide(label) /\ Decisive(label)
               /\ Opens(r, "forecast", read + label, lost)
  <2>1. read + label \in Int /\ "forecast" \in Triggers
    BY DEF Labels, Triggers, TypeOK
  <2>2. PICK created \in BOOLEAN :
          /\ Decisive(label)
          /\ CreateClusterConfiguration("forecast", read + label, created)
    BY <1>3 DEF ForecastDecide, Created
  <2>3. PICK s \in Names, lost \in BOOLEAN :
          Opens(s, "forecast", read + label, lost)
    BY <2>1, <2>2, CreateEffect DEF Created
  <2> QED
    BY <1>1, <1>3, <2>2, <2>3
<1>4. ASSUME NEW s \in Names, MoveNode(s) \/ EndRequest(s) PROVE FALSE
  BY <1>4 DEF MoveNode, EndRequest, Created, TypeOK
<1>5. requests' # requests
  BY DEF Created
<1> QED
  BY <1>2, <1>3, <1>4, <1>5
     DEF Next, Tick, ReadParameters, TrackScalingProgress, TickDisabled,
         ListUnschedulablePods, ReactiveStep, ForecastStart, Sleep, Restart,
         PodsAge, PodsScheduled, PodsChange, cluster, vars

\* A reactive request comes no earlier than the grace period after the end of
\* the last request that was not overlooked.
THEOREM GraceBetweenRequests == Spec => GraceRespected
<1>1. Init => GraceInv
  BY ForecasterAssumption
     DEF Init, GraceInv, ScalingInProgress, LongestGrace, Higher
<1>2. TypeOK /\ GraceInv /\ [Next]_vars => GraceInv'
  BY GraceStep
<1>3. TypeOK /\ GraceInv /\ [Next]_vars =>
        [\A r \in Names :
           Created(r) /\ requests'[r].trigger = "pending"
             => quiet >= settings.grace]_vars
  <2> SUFFICES ASSUME TypeOK, GraceInv, [Next]_vars, NEW r \in Names,
                      Created(r), requests'[r].trigger = "pending"
               PROVE  quiet >= settings.grace
    OBVIOUS
  <2>1. CASE ReactiveCreate
    <3>1. settings.grace \in Nat
      BY ForecasterAssumption DEF TypeOK, Settings, DefaultSettings
    <3>2. LongestGrace \in Nat
      BY ForecasterAssumption DEF LongestGrace, Higher
    <3> QED
      BY <2>1, <3>1, <3>2 DEF ReactiveCreate, GraceInv, TypeOK, InFlight
  <2>2. ASSUME NEW required, NEW lost, Opens(r, "forecast", required, lost)
        PROVE  FALSE
    BY <2>2 DEF Opens, TypeOK
  <2> QED
    BY <2>1, <2>2, CreatedBy
<1> QED
  BY <1>1, <1>2, <1>3, Typing, PTL DEF Spec, GraceRespected

-----------------------------------------------------------------------------
\* Why no node goes under waiting pods.  A tick that has got to its forecast has
\* seen the pods that have waited all along, or did not see anything.
Seen ==
  /\ waiting => pods # "none"
  /\ step \in {"forecast", "decide"} => due
  /\ step \in {"react", "create", "forecast", "decide"} /\ waiting
       => podsSeen # "none"

\* Every step keeps what a tick has seen.
LEMMA SeenStep ==
  ASSUME TypeOK, Seen, [Next]_vars
  PROVE  Seen'
<1>1. CASE ReadParameters \/ TickDisabled \/ Sleep \/ Restart
  <2>1. step' \in {"track", "sleep", "read"}
    BY <1>1 DEF ReadParameters, TickDisabled, Sleep, Restart
  <2>2. waiting' => pods' # "none"
    BY <1>1, Zenon DEF ReadParameters, TickDisabled, Sleep, Restart, cluster,
                       history, Seen
  <2> QED
    BY <2>1, <2>2 DEF Seen
<1>2. CASE TrackScalingProgress
  BY <1>2 DEF TrackScalingProgress, Seen
<1>3. CASE ListUnschedulablePods
  <2>1. UNCHANGED <<due, pods, waiting>>
    BY <1>3 DEF ListUnschedulablePods, cluster, history
  <2>2. step' \in {"react", "sleep"} \/ (step' = "forecast" /\ due)
    BY <1>3 DEF ListUnschedulablePods, AfterReactive
  <2>3. step' # "sleep" /\ waiting => podsSeen' # "none"
    BY <1>3 DEF ListUnschedulablePods, AfterReactive, Seen
  <2> QED
    BY <2>1, <2>2, <2>3 DEF Seen
<1>4. CASE ReactiveStep \/ ForecastStart
  BY <1>4 DEF ReactiveStep, ForecastStart, AfterReactive, cluster, history,
              Seen
<1>5. CASE ReactiveCreate
  BY <1>5 DEF ReactiveCreate, AfterReactive, tick, Seen
<1>6. ASSUME NEW label \in Labels, ForecastDecide(label) PROVE Seen'
  BY <1>6 DEF ForecastDecide, tick, Seen
<1>7. ASSUME NEW r \in Names, MoveNode(r) \/ EndRequest(r) PROVE Seen'
  BY <1>7 DEF MoveNode, EndRequest, tick, history, Seen
<1>8. ASSUME NEW from, NEW to, PodsChange(from, to) PROVE Seen'
  <2>1. (waiting' => waiting) /\ (waiting' => pods' # "none")
    BY <1>8, Zenon DEF PodsChange
  <2> QED
    BY <1>8, <2>1 DEF PodsChange, tick, Seen
<1>9. CASE UNCHANGED vars
  BY <1>9 DEF tick, cluster, history, vars, Seen
<1> QED
  BY <1>1, <1>2, <1>3, <1>4, <1>5, <1>6, <1>7, <1>8, <1>9
     DEF Next, Tick, PodsAge, PodsScheduled

\* Whatever the forecast says, no node is asked to go while pods have waited
\* since the tick began, with failed lists and restarts.
THEOREM Veto == Spec => NoScaleDownUnderPods
<1>1. Init => Seen
  BY DEF Init, Seen
<1>2. TypeOK /\ Seen /\ [Next]_vars => Seen'
  BY SeenStep
<1>3. TypeOK /\ Seen /\ [Next]_vars =>
        [\A r \in Names :
           Created(r) /\ requests'[r].required < read => ~waiting]_vars
  <2> SUFFICES ASSUME TypeOK, Seen, [Next]_vars, NEW r \in Names,
                      Created(r), requests'[r].required < read
               PROVE  ~waiting
    OBVIOUS
  <2>1. ASSUME NEW required \in Int, NEW trigger, NEW lost,
               Opens(r, trigger, required, lost)
        PROVE  required < read
    BY <2>1 DEF Opens, TypeOK
  <2>2. ASSUME NEW label \in Labels, ForecastDecide(label), Decisive(label),
               NEW lost, Opens(r, "forecast", read + label, lost)
        PROVE  ~waiting
    <3>1. read + label \in Int /\ label \in Int /\ read \in Int
      BY DEF Labels, TypeOK
    <3>2. label < 0
      BY <2>1, <2>2, <3>1
    <3>3. podsSeen = "none"
      BY <2>2, <3>2 DEF Decisive, ScaleDownVeto
    <3> QED
      BY <2>2, <3>3 DEF ForecastDecide, Seen
  <2>3. ASSUME NEW lost, Opens(r, "pending", read, lost) PROVE FALSE
    BY <2>1, <2>3 DEF TypeOK
  <2> QED
    BY <2>2, <2>3, CreatedBy
<1> QED
  BY <1>1, <1>2, <1>3, Typing, PTL DEF Spec, NoScaleDownUnderPods

-----------------------------------------------------------------------------
\* Why the votes are fresh: the forecaster counts no more of them than there
\* were forecasts since the last request it knows to have created.
VotesCounted == labelCount <= fresh

\* A call of create_cluster_configuration leaves the count of forecasts alone,
\* or reports success.
LEMMA CreateCount ==
  ASSUME NEW trigger, NEW required,
         CreateClusterConfiguration(trigger, required, FALSE)
  PROVE  fresh' = fresh
BY DEF CreateClusterConfiguration, NothingOpened, Opens

\* Every step keeps the votes within the forecasts.
LEMMA VotesStep ==
  ASSUME TypeOK, VotesCounted, [Next]_vars
  PROVE  VotesCounted'
<1> USE ForecasterAssumption
<1>1. CASE ReactiveCreate
  <2>1. CASE ReactiveCreated
    <3>1. PICK created \in BOOLEAN :
            CreateClusterConfiguration("pending", read, created)
      BY <1>1 DEF ReactiveCreate
    <3>2. fresh' \in 0..StabilizationCycles
      BY <3>1, CreateHistory DEF TypeOK
    <3> QED
      BY <2>1, <3>2 DEF ReactiveCreated, VotesCounted
  <2>2. CASE /\ CreateClusterConfiguration("pending", read, FALSE)
             /\ UNCHANGED votes
    BY <2>2, CreateCount DEF votes, VotesCounted
  <2> QED
    BY <1>1, <2>1, <2>2 DEF ReactiveCreate
<1>2. ASSUME NEW label \in Labels, ForecastDecide(label) PROVE VotesCounted'
  <2>1. CASE ~Decisive(label)
    <3>1. /\ labelCount' = Cast(label)
          /\ fresh' = Longer(fresh, StabilizationCycles)
      BY <1>2, <2>1, Zenon DEF ForecastDecide
    <3> QED
      BY <3>1 DEF Cast, Longer, VotesCounted, TypeOK
  <2>2. CASE Decisive(label)
    <3>1. PICK created \in BOOLEAN :
            CreateClusterConfiguration("forecast", read + label, created)
      BY <1>2, <2>2 DEF ForecastDecide
    <3>2. fresh' \in 0..StabilizationCycles
      BY <3>1, CreateHistory DEF TypeOK
    <3> QED
      BY <1>2, <2>2, <3>2 DEF ForecastDecide, VotesCounted
  <2> QED
    BY <2>1, <2>2
<1>3. CASE Restart
  BY <1>3 DEF Restart, VotesCounted, TypeOK
<1>4. ASSUME NEW r \in Names, MoveNode(r) \/ EndRequest(r)
      PROVE  VotesCounted'
  BY <1>4 DEF MoveNode, EndRequest, votes, history, VotesCounted
<1>5. CASE \/ ReadParameters \/ TrackScalingProgress \/ TickDisabled
           \/ ListUnschedulablePods \/ ReactiveStep \/ ForecastStart \/ Sleep
           \/ PodsAge \/ PodsScheduled \/ UNCHANGED vars
  BY <1>5 DEF ReadParameters, TrackScalingProgress, TickDisabled,
              ListUnschedulablePods, ReactiveStep, ForecastStart, Sleep,
              PodsAge, PodsScheduled, PodsChange, cluster, history, votes, vars,
              VotesCounted
<1> QED
  BY <1>1, <1>2, <1>3, <1>4, <1>5 DEF Next, Tick

\* A request that a forecast asks for rests on as many forecasts as the
\* stabilization wants, all of them made after the last request the forecaster
\* knows to have created, whatever is lost, fails or restarts.
THEOREM FreshVotes == Spec => VotesAreFresh
<1>1. Init => VotesCounted
  BY DEF Init, VotesCounted
<1>2. TypeOK /\ VotesCounted /\ [Next]_vars => VotesCounted'
  BY VotesStep
<1>3. TypeOK /\ VotesCounted /\ [Next]_vars =>
        [\A r \in Names :
           Created(r) /\ requests'[r].trigger = "forecast"
             => fresh + 1 >= settings.cycles]_vars
  <2> SUFFICES ASSUME TypeOK, VotesCounted, [Next]_vars, NEW r \in Names,
                      Created(r), requests'[r].trigger = "forecast"
               PROVE  fresh + 1 >= settings.cycles
    OBVIOUS
  <2>1. ASSUME NEW required, NEW lost, Opens(r, "pending", required, lost)
        PROVE  FALSE
    BY <2>1 DEF Opens, TypeOK
  <2>2. ASSUME NEW label \in Labels, Decisive(label)
        PROVE  fresh + 1 >= settings.cycles
    <3>1. settings.cycles \in Nat
      BY ForecasterAssumption DEF TypeOK, Settings, DefaultSettings
    <3>2. Cast(label) <= fresh + 1
      BY ForecasterAssumption DEF Cast, VotesCounted, TypeOK
    <3>3. Cast(label) >= settings.cycles
      BY <2>2 DEF Decisive
    <3> QED
      BY <3>1, <3>2, <3>3, CastType, ForecasterAssumption DEF TypeOK
  <2> QED
    BY <2>1, <2>2, CreatedBy
<1> QED
  BY <1>1, <1>2, <1>3, Typing, PTL DEF Spec, VotesAreFresh
=============================================================================
