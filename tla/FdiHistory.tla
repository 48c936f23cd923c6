----------------------------- MODULE FdiHistory -----------------------------
(***************************************************************************)
(* FdiThreads with the evidence each sensor's verdicts amount to, recorded *)
(* in history variables that no thread reads.  They count the verdicts     *)
(* themselves, not the streaks the code keeps, which both threads reset;   *)
(* with them the threads implement SensorLifecycle.                        *)
(***************************************************************************)
EXTENDS FdiThreads

VARIABLES
    accusations,  \* definitive faults since the sensor became SUSPECT
    acquittals,   \* clean verdicts in a row since it became SUSPECT
    passes        \* clean probe verdicts in a row since its probe began

historyVars == <<accusations, acquittals, passes>>
hvars == <<vars, historyVars>>

Lifecycle == INSTANCE SensorLifecycle WITH state <- [s \in Sensors |-> ctx[s].state]

HInit ==
    /\ Init
    /\ accusations = [s \in Sensors |-> 0]
    /\ acquittals = [s \in Sensors |-> 0]
    /\ passes = [s \in Sensors |-> 0]

\* FdiUpdate weighs `detected` only if it read a state of its own before.
RecordDetection ==
    LET s == Cur
        watched == before \in {"HEALTHY", "SUSPECT"}
        suspect == ctx[s].state = "SUSPECT"
    IN  /\ accusations' = [accusations EXCEPT ![s] =
               IF ~watched THEN @
               ELSE IF ~suspect THEN IF detected = "NONE" THEN @ ELSE 0
               ELSE IF detected \in Definitive
                    THEN Lifecycle!Count(@, Lifecycle!AccusationsNeeded) ELSE @]
        /\ acquittals' = [acquittals EXCEPT ![s] =
               IF ~watched THEN @
               ELSE IF detected # "NONE" THEN 0
               ELSE IF suspect THEN Lifecycle!Count(@, RecoveryConfirmLimit) ELSE @]
        /\ UNCHANGED passes

\* A clean verdict of recovery continues the row; a fault ends the probe.
RecordPass ==
    /\ passes' = [passes EXCEPT ![rid] =
           IF verdict = "NONE" THEN Lifecycle!Count(@, Lifecycle!PassesNeeded) ELSE @]
    /\ UNCHANGED <<accusations, acquittals>>

RecordProbe ==
    /\ passes' = [passes EXCEPT ![rid] =
           IF ctx'[rid].state # ctx[rid].state THEN 0 ELSE @]
    /\ UNCHANGED <<accusations, acquittals>>

HNext ==
    \/ FdiUpdate /\ RecordDetection
    \/ RecoveryEvaluate /\ RecordPass
    \/ RecoveryExcluded /\ RecordProbe
    \/ /\ \/ SensorStep \/ FdiReceive
          \/ FdiDetect \/ FdiIsolate \/ FdiPublish \/ FdiLog \/ FdiSkipRecovery
          \/ RecoveryReceive
          \/ RecoveryExpire \/ RecoveryDetect \/ RecoveryStore \/ RecoverySettle
          \/ RecoveryLogTimeout \/ RecoveryLogPermanent
          \/ LoggerStep
       /\ UNCHANGED historyVars

HSpec == HInit /\ [][HNext]_hvars

-------------------------------------------------------------------------------
\* The streaks the threads keep never run ahead of the evidence, although FDI
\* may act on a reinstated sensor before recovery's last stores to it have
\* landed: a streak can be lost to that race, never gained.
StreaksHaveEvidence ==
    \A s \in Sensors :
       /\ ctx[s].state = "SUSPECT" =>
             /\ ctx[s].fault_streak <= accusations[s] + 1
             /\ ctx[s].recovery_streak <= acquittals[s]
       /\ ctx[s].state = "VALIDATING" => ctx[s].validation_streak <= passes[s]

\* The threads implement the life cycle: every condemnation, acquittal, probe
\* and reinstatement happens in its order and on its evidence, in whatever
\* order the threads run (fault_detector.c under main.c's threads).
ImplementsLifecycle == Lifecycle!LSpec
===============================================================================
