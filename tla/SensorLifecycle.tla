--------------------------- MODULE SensorLifecycle ---------------------------
(***************************************************************************)
(* What fault detection and recovery promise together, one sensor at a     *)
(* time and without threads, messages or streaks: a sensor in use is       *)
(* condemned on enough definitive verdicts, acquitted on an unbroken row   *)
(* of clean ones, and once excluded it is used again only after an         *)
(* unbroken row of clean probe verdicts.                                   *)
(***************************************************************************)
EXTENDS Naturals, SensorContract

CONSTANTS Sensors, FaultConfirmLimit, RecoveryConfirmLimit

VARIABLES
    state,        \* the life-cycle state of each sensor
    accusations,  \* definitive faults since it became SUSPECT
    acquittals,   \* clean verdicts in a row since it became SUSPECT
    passes        \* clean probe verdicts in a row since its probe began

lifecycleVars == <<state, accusations, acquittals, passes>>

\* The verdict that makes a sensor SUSPECT counts as the first detection, and
\* PROBING never leads to HEALTHY directly.
AccusationsNeeded == IF FaultConfirmLimit > 2 THEN FaultConfirmLimit - 1 ELSE 1
PassesNeeded == IF RecoveryConfirmLimit > 2 THEN RecoveryConfirmLimit ELSE 2

\* Counting beyond what is needed tells nothing new.
Count(n, enough) == IF n < enough THEN n + 1 ELSE n

LInit ==
    /\ state = [s \in Sensors |-> "HEALTHY"]
    /\ accusations = [s \in Sensors |-> 0]
    /\ acquittals = [s \in Sensors |-> 0]
    /\ passes = [s \in Sensors |-> 0]

Move(s, from, to) == state[s] = from /\ state' = [state EXCEPT ![s] = to]

Suspect(s) ==
    /\ Move(s, "HEALTHY", "SUSPECT")
    /\ accusations' = [accusations EXCEPT ![s] = 0]
    /\ acquittals' = [acquittals EXCEPT ![s] = 0]
    /\ UNCHANGED passes

\* A definitive fault, which may condemn.
Accuse(s) ==
    /\ state[s] = "SUSPECT"
    /\ accusations' = [accusations EXCEPT ![s] = Count(@, AccusationsNeeded)]
    /\ acquittals' = [acquittals EXCEPT ![s] = 0]
    /\ \/ UNCHANGED state
       \/ accusations'[s] >= AccusationsNeeded /\ Move(s, "SUSPECT", "FAULTED")
    /\ UNCHANGED passes

\* A contradiction: no evidence against this sensor, but none for it either.
Doubt(s) ==
    /\ state[s] = "SUSPECT"
    /\ acquittals' = [acquittals EXCEPT ![s] = 0]
    /\ UNCHANGED <<state, accusations, passes>>

\* A clean verdict, which may acquit.
Acquit(s) ==
    /\ state[s] = "SUSPECT"
    /\ acquittals' = [acquittals EXCEPT ![s] = Count(@, RecoveryConfirmLimit)]
    /\ \/ UNCHANGED state
       \/ acquittals'[s] >= RecoveryConfirmLimit /\ Move(s, "SUSPECT", "HEALTHY")
    /\ UNCHANGED <<accusations, passes>>

Exclude(s) ==
    Move(s, "FAULTED", "EXCLUDED") /\ UNCHANGED <<accusations, acquittals, passes>>

Probe(s) ==
    /\ Move(s, "EXCLUDED", "PROBING")
    /\ passes' = [passes EXCEPT ![s] = 0]
    /\ UNCHANGED <<accusations, acquittals>>

Pass(s) ==
    /\ \/ Move(s, "PROBING", "VALIDATING")
       \/ state[s] = "VALIDATING" /\ UNCHANGED state
    /\ passes' = [passes EXCEPT ![s] = Count(@, PassesNeeded)]
    /\ UNCHANGED <<accusations, acquittals>>

Fail(s) ==
    /\ Move(s, "PROBING", "EXCLUDED") \/ Move(s, "VALIDATING", "EXCLUDED")
    /\ UNCHANGED <<accusations, acquittals, passes>>

Reinstate(s) ==
    /\ passes[s] >= PassesNeeded
    /\ Move(s, "VALIDATING", "HEALTHY")
    /\ UNCHANGED <<accusations, acquittals, passes>>

LNext == \E s \in Sensors :
    \/ Suspect(s) \/ Accuse(s) \/ Doubt(s) \/ Acquit(s) \/ Exclude(s)
    \/ Probe(s) \/ Pass(s) \/ Fail(s) \/ Reinstate(s)

LSpec == LInit /\ [][LNext]_lifecycleVars
===============================================================================
