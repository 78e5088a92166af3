------------------------ MODULE MCConsumptionProfile ------------------------
EXTENDS ConsumptionProfile, TLC

CONSTANTS n1, n2

MCNodes == {n1, n2}
MCCoresOf == n1 :> 2 @@ n2 :> 4
MCTop == 3

\* Readings in hundredths of a watt, so that a mean of two may have to be
\* rounded; fractions for pools of up to 4, gaps of up to 3 and scores of 2.
MCUnit == 2880
MCThousandth == 288

Up(cpu, watts) == [cpu |-> cpu, watts |-> watts]
Both(a, b) == n1 :> a @@ n2 :> b

\* Both at work, one of them off, a missing reading, all off, another power at
\* the same level.
MCInstants ==
  {Both(Up(3, 3), Up(1, 1)), Both(Off, Up(2, 2)),
   Both(Up(1, Unknown), Off), Both(Off, Off), Both(Up(3, 2), Up(3, 1))}

\* n1 with any levels, in any order of power, or none; n2 with some or none.
MCStored ==
  {Both([capacity |-> IF levels = [u \in Levels |-> Unknown] THEN Unknown ELSE 2,
         levels |-> levels],
        entry) :
     levels \in [Levels -> {Unknown, 1 * MCUnit, 3 * MCUnit}],
     entry \in {NoProfile[n2],
               [capacity |-> 4,
                levels |-> [u \in Levels |-> IF u = 1 THEN 2 * MCUnit
                                            ELSE IF u = 3 THEN 5 * MCUnit
                                            ELSE Unknown]]}}
=============================================================================
