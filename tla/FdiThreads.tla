----------------------------- MODULE FdiThreads -----------------------------
(***************************************************************************)
(* The four threads of main.c and the three channels between them:         *)
(*                                                                         *)
(*   sensor_fusion --> fault_detector --> recovery                         *)
(*                              |             |                            *)
(*                              +--> logger <-+                            *)
(*                                                                         *)
(* MsgSend() blocks until the receiving thread reaches MsgReceive(), and   *)
(* every receiver replies before it handles what it received: a message is *)
(* a rendezvous, one step of sender and receiver together.  A thread's     *)
(* steps are otherwise split wherever it reads or writes a context that    *)
(* another thread uses.                                                    *)
(*                                                                         *)
(* Time enters the program through msg.now_us, one stamp a cycle, and only *)
(* differences of stamps are compared.  The model keeps those differences: *)
(* FdiReceive ages every timer by the time since the previous stamp.       *)
(***************************************************************************)
EXTENDS FaultDetector

CONSTANTS
    Sensors,              \* sensor_id_t: the sensors with a context
    SensorCount, Order,   \* pairs[]: the order FDI evaluates them in
    RangerCount, Ranger,  \* us1, us2: the order fusion_compute() reads them in
    Verdicts,             \* what fdi_detect() may return
    Gaps,                 \* possible times between two msg.now_us
    RecoveryTimeout,      \* RECOVERY_TIMEOUT_US
    RecoveryMaxAttempts,  \* RECOVERY_MAX_ATTEMPTS
    BackoffBase,          \* RECOVERY_BACKOFF_BASE_US
    BackoffMax,           \* RECOVERY_BACKOFF_MAX_US
    AttachOutcomes,       \* the sets of connections start-up may end with
    LogMayFail            \* may the logger's fopen() fail?

\* The connections made by queue_connect(), by sender and owner.
Links == {"fusion_to_fdi", "fdi_to_logger", "fdi_to_recovery", "recovery_to_logger"}

ASSUME TopologyAssumption ==
    /\ SensorCount \in Nat \ {0} /\ Order \in [1..SensorCount -> Sensors]
    /\ \A i, j \in 1..SensorCount : Order[i] = Order[j] => i = j
    /\ RangerCount \in Nat \ {0} /\ Ranger \in [1..RangerCount -> Sensors]
    /\ AttachOutcomes \subseteq SUBSET Links
    /\ LogMayFail \in BOOLEAN

ASSUME VerdictsAssumption == Verdicts \subseteq FaultType

ASSUME TimingAssumption ==
    /\ Gaps \subseteq Nat
    /\ RecoveryTimeout \in Nat /\ RecoveryMaxAttempts \in Nat \ {0}
    /\ BackoffBase \in Nat /\ BackoffMax \in Nat

\* BackoffBase << (attempts - 1) is an integer; the prover knows nothing of ^.
ASSUME BackoffAssumption ==
    \A n \in 1..RecoveryMaxAttempts : BackoffBase * 2^(n - 1) \in Nat

VARIABLES
    ctx,         \* g_us1_ctx .. g_imu2_ctx: shared by all threads but the logger
    sup,         \* g_sup[]: recovery's books
    attached,    \* the coids that are not -1
    pcSensor,    \* sensor_fusion_thread: next step
    slot,        \*   index of the ranger fusion_compute() is reading
    contrib,     \*   contrib_t of each ranger: not present, or its sigma
    pcFdi,       \* fault_detector_thread: next step
    idx,         \*   i
    before,      \*   evaluate_sensor(): the state it read first
    detected,    \*   evaluate_sensor(): what fdi_detect() returned
    ev,          \*   the event built for pairs[i]
    pcRecovery,  \* recovery_thread: next step
    rid,         \*   ev.id of the event being handled
    late,        \*   ev.timestamp_us - probe_started_us > RECOVERY_TIMEOUT_US
    gated,       \*   ev.timestamp_us < next_probe_us
    lag,         \*   time between ev.timestamp_us and the newest stamp
    verdict,     \*   what fdi_detect() returned
    pending,     \*   stores of a reinstatement that are not yet visible
    pcLogger,    \* logger_thread: next step
    last_state   \*   last_state[]

sensorVars   == <<pcSensor, slot, contrib>>
fdiVars      == <<pcFdi, idx, before, detected, ev>>
recoveryVars == <<pcRecovery, rid, late, gated, lag, verdict, pending>>
loggerVars   == <<pcLogger, last_state>>
vars == <<ctx, sup, attached, sensorVars, fdiVars, recoveryVars, loggerVars>>

Cur == Order[idx]
AtMost(n, bound) == IF n > bound THEN bound ELSE n
Left(time, passed) == IF time > passed THEN time - passed ELSE 0

\* Beyond these no comparison of the code can tell two values apart.
AgeCap == RecoveryTimeout + 1
LagCap == AgeCap + BackoffMax
AttemptsCap == RecoveryMaxAttempts + 1

Supervision == [age       : 0..AgeCap,      \* newest stamp - probe_started_us
                wait      : 0..BackoffMax,  \* next_probe_us - newest stamp
                attempts  : 0..AttemptsCap,
                permanent : BOOLEAN]

Books(age, wait, attempts, permanent) ==
    [age |-> age, wait |-> wait, attempts |-> attempts, permanent |-> permanent]

\* The fields fdi_probe_evaluate() stores after the sensor may already be in use.
ReinstatedFields == {"state", "fault_streak", "recovery_streak"}

Init ==
    /\ ctx = [s \in Sensors |-> ContextInit]
    /\ sup = [s \in Sensors |-> Books(AgeCap, 0, 0, FALSE)]
    /\ attached \in AttachOutcomes
    /\ pcSensor = "send" /\ slot = 1
    /\ contrib = [u \in Sensors |-> "absent"]
    /\ pcFdi = "receive" /\ idx = 1
    /\ before = "HEALTHY" /\ detected = "NONE"
    /\ ev = [state |-> "HEALTHY", fault |-> "NONE"]
    /\ pcRecovery = "receive" /\ rid = Order[1]
    /\ late = FALSE /\ gated = FALSE /\ lag = 0
    /\ verdict = "NONE" /\ pending = {}
    /\ pcLogger = "open"
    /\ last_state = [s \in Sensors |-> "HEALTHY"]

-------------------------------------------------------------------------------
(* sensor_fusion_thread(): MsgSend() to FDI, then fusion_compute(), which   *)
(* reads ctx->state twice for each ranger.                                  *)

\* Bug: the contributors of the cycle before are kept.
StartFusionKeeps == pcSensor' = "check" /\ slot' = 1 /\ UNCHANGED contrib

StartFusion ==
    /\ pcSensor' = "check" /\ slot' = 1
    /\ contrib' = [u \in Sensors |-> "absent"]

\* The connection to FDI was never made: fuse without an evaluation.
SensorUnattended ==
    /\ pcSensor = "send" /\ "fusion_to_fdi" \notin attached
    /\ StartFusion
    /\ UNCHANGED <<ctx, sup, attached, fdiVars, recoveryVars, loggerVars>>

NextSlot ==
    IF slot < RangerCount
    THEN pcSensor' = "check" /\ slot' = slot + 1
    ELSE pcSensor' = "send" /\ UNCHANGED slot

\* read_contributor() returns early: state not usable, no sample, or a stale one.
FuseSkip ==
    /\ pcSensor = "check"
    /\ NextSlot
    /\ UNCHANGED <<contrib, ctx, sup, attached, fdiVars, recoveryVars, loggerVars>>

\* The first read of ctx->state lets the sensor contribute ...
FuseAdmit ==
    /\ pcSensor = "check" /\ ctx[Ranger[slot]].state \in Usable
    /\ pcSensor' = "weigh"
    /\ UNCHANGED <<slot, contrib, ctx, sup, attached, fdiVars, recoveryVars, loggerVars>>

\* ... and the second decides its uncertainty.
FuseWeigh ==
    /\ pcSensor = "weigh"
    /\ contrib' = [contrib EXCEPT ![Ranger[slot]] =
                      IF ctx[Ranger[slot]].state = "SUSPECT" THEN "inflated" ELSE "base"]
    /\ NextSlot
    /\ UNCHANGED <<ctx, sup, attached, fdiVars, recoveryVars, loggerVars>>

-------------------------------------------------------------------------------
(* fault_detector_thread() and evaluate_sensor().                           *)

\* What a new time stamp does to every timer.
Elapse(gap) ==
    /\ sup' = [s \in Sensors |->
                  Books(AtMost(sup[s].age + gap, AgeCap), Left(sup[s].wait, gap),
                        sup[s].attempts, sup[s].permanent)]
    /\ lag' = IF pcRecovery = "receive" THEN 0 ELSE AtMost(lag + gap, LagCap)

\* MsgReceive() and MsgReply(): FDI replies first, so the sensor thread fuses
\* while FDI evaluates.
FdiReceive ==
    /\ pcSensor = "send" /\ "fusion_to_fdi" \in attached
    /\ pcFdi = "receive"
    /\ StartFusion
    /\ pcFdi' = "detect" /\ idx' = 1
    /\ \E gap \in Gaps : Elapse(gap)
    /\ UNCHANGED <<ctx, attached, before, detected, ev, pcRecovery, rid, late,
                   gated, verdict, pending, loggerVars>>

FdiDetect ==
    /\ pcFdi = "detect"
    /\ before' = ctx[Cur].state
    /\ detected' \in Verdicts
    /\ pcFdi' = "update"
    /\ UNCHANGED <<idx, ev, ctx, sup, attached, sensorVars, recoveryVars, loggerVars>>

\* The switch on `before`, up to the call of fdi_isolate().
FdiUpdate ==
    /\ pcFdi = "update"
    /\ LET c == IF before \in {"HEALTHY", "SUSPECT"}
                THEN UpdateState(ctx[Cur], detected)
                ELSE ctx[Cur]
       IN  /\ ctx' = [ctx EXCEPT ![Cur] = [c EXCEPT !.last_fault = detected]]
           /\ pcFdi' = IF before \in DetectorOwned /\ c.state = "FAULTED"
                       THEN "isolate" ELSE "publish"
    /\ UNCHANGED <<idx, before, detected, ev, sup, attached, sensorVars,
                   recoveryVars, loggerVars>>

FdiIsolate ==
    /\ pcFdi = "isolate"
    /\ ctx' = [ctx EXCEPT ![Cur] = Isolate(@)]
    /\ pcFdi' = "publish"
    /\ UNCHANGED <<idx, before, detected, ev, sup, attached, sensorVars,
                   recoveryVars, loggerVars>>

FdiPublish ==
    /\ pcFdi = "publish"
    /\ ev' = [state |-> ctx[Cur].state, fault |-> ctx[Cur].last_fault]
    /\ pcFdi' = "log"
    /\ UNCHANGED <<idx, before, detected, ctx, sup, attached, sensorVars,
                   recoveryVars, loggerVars>>

\* MsgReceive(), MsgReply() and the rest of the loop in logger_thread(), which handles
\* one event before the next: what it does not log leaves last_state[] as it is anyway.
LogEvent(s, state) ==
    /\ pcLogger = "receive"
    /\ last_state' = [last_state EXCEPT ![s] = state]

\* Bug: an event is dropped while the logger is busy.
FdiLogDrops ==
    /\ pcFdi = "log"
    /\ last_state' \in {last_state, [last_state EXCEPT ![Cur] = ev.state]}
    /\ pcFdi' = "wake"
    /\ UNCHANGED <<idx, before, detected, ev, ctx, sup, attached, pcLogger,
                   sensorVars, recoveryVars>>

\* MsgSend() to the logger.
FdiLog ==
    /\ pcFdi = "log"
    /\ IF "fdi_to_logger" \in attached
       THEN LogEvent(Cur, ev.state)
       ELSE UNCHANGED last_state
    /\ pcFdi' = "wake"
    /\ UNCHANGED <<idx, before, detected, ev, ctx, sup, attached, pcLogger,
                   sensorVars, recoveryVars>>

\* Bug: the loop runs one time too often.
NextSensorOvershoots ==
    IF idx <= SensorCount
    THEN pcFdi' = "detect" /\ idx' = idx + 1
    ELSE pcFdi' = "receive" /\ UNCHANGED idx

\* Bug: the loop never ends.
NextSensorWraps ==
    pcFdi' = "detect" /\ idx' = (idx % SensorCount) + 1

NextSensor ==
    IF idx < SensorCount
    THEN pcFdi' = "detect" /\ idx' = idx + 1
    ELSE pcFdi' = "receive" /\ UNCHANGED idx

FdiSkipRecovery ==
    /\ pcFdi = "wake"
    /\ ev.state \notin RecoveryOwned \/ "fdi_to_recovery" \notin attached
    /\ NextSensor
    /\ UNCHANGED <<before, detected, ev, ctx, sup, attached, sensorVars,
                   recoveryVars, loggerVars>>

-------------------------------------------------------------------------------
(* recovery_thread().                                                       *)

RecoveryReceive ==
    /\ pcFdi = "wake" /\ ev.state \in RecoveryOwned /\ "fdi_to_recovery" \in attached
    /\ pcRecovery = "receive"
    /\ NextSensor
    /\ rid' = Cur /\ lag' = 0
    /\ late' = (sup[Cur].age > RecoveryTimeout)
    /\ gated' = (sup[Cur].wait > 0)
    /\ pcRecovery' = "dispatch"
    /\ UNCHANGED <<before, detected, ev, ctx, sup, attached, verdict, pending,
                   sensorVars, loggerVars>>

\* case STATE_EXCLUDED: latched, inside the backoff window, or a new probe; and
\* the default case.
RecoveryExcluded ==
    /\ pcRecovery = "dispatch" /\ ctx[rid].state \notin {"PROBING", "VALIDATING"}
    /\ IF ctx[rid].state # "EXCLUDED" \/ sup[rid].permanent \/ gated
       THEN UNCHANGED <<ctx, sup>>
       ELSE /\ ctx' = [ctx EXCEPT ![rid] = StartProbe(@)]
            /\ sup' = [sup EXCEPT ![rid].age = AtMost(lag, AgeCap)]
    /\ pcRecovery' = "receive"
    /\ UNCHANGED <<rid, late, gated, lag, verdict, pending, attached,
                   sensorVars, fdiVars, loggerVars>>

\* The probe timed out: fdi_isolate() is called on a sensor that is not FAULTED.
RecoveryExpire ==
    /\ pcRecovery = "dispatch" /\ ctx[rid].state \in {"PROBING", "VALIDATING"} /\ late
    /\ ctx' = [ctx EXCEPT ![rid] = Isolate(@)]
    /\ sup' = [sup EXCEPT ![rid].attempts = AtMost(@ + 1, AttemptsCap)]
    /\ pcRecovery' = "log_timeout"
    /\ UNCHANGED <<rid, late, gated, lag, verdict, pending, attached,
                   sensorVars, fdiVars, loggerVars>>

\* Bug: the break after the timeout is missing.
RecoveryDetectLate ==
    /\ pcRecovery = "dispatch" /\ ctx[rid].state \in {"PROBING", "VALIDATING"}
    /\ verdict' \in Verdicts
    /\ pcRecovery' = "evaluate"
    /\ UNCHANGED <<rid, late, gated, lag, pending, ctx, sup, attached,
                   sensorVars, fdiVars, loggerVars>>

\* Bug: the event is believed, and ctx->state is not read again.
RecoveryDetectUnread ==
    /\ pcRecovery = "dispatch" /\ ~late
    /\ verdict' \in Verdicts
    /\ pcRecovery' = "evaluate"
    /\ UNCHANGED <<rid, late, gated, lag, pending, ctx, sup, attached,
                   sensorVars, fdiVars, loggerVars>>

RecoveryDetect ==
    /\ pcRecovery = "dispatch" /\ ctx[rid].state \in {"PROBING", "VALIDATING"} /\ ~late
    /\ verdict' \in Verdicts
    /\ pcRecovery' = "evaluate"
    /\ UNCHANGED <<rid, late, gated, lag, pending, ctx, sup, attached,
                   sensorVars, fdiVars, loggerVars>>

\* fdi_probe_evaluate().  The stores of a reinstatement reach the other cores
\* one at a time; FDI may act on the new state before it sees the rest.
RecoveryEvaluate ==
    /\ pcRecovery = "evaluate"
    /\ LET c == ProbeEvaluate(ctx[rid], verdict)
       IN  IF c.state = "HEALTHY"
           THEN /\ ctx' = [ctx EXCEPT ![rid] =
                              Ctx(@.state, c.last_fault, @.fault_streak,
                                  @.recovery_streak, c.validation_streak)]
                /\ pending' = ReinstatedFields
                /\ pcRecovery' = "commit"
           ELSE /\ ctx' = [ctx EXCEPT ![rid] = c]
                /\ pcRecovery' = "receive"
                /\ UNCHANGED pending
    /\ UNCHANGED <<rid, late, gated, lag, verdict, sup, attached, sensorVars,
                   fdiVars, loggerVars>>

RecoveryStore ==
    /\ pcRecovery = "commit"
    /\ \E field \in pending :
          /\ ctx' = [ctx EXCEPT ![rid] =
                        CASE field = "state"           -> [@ EXCEPT !.state = "HEALTHY"]
                          [] field = "fault_streak"    -> [@ EXCEPT !.fault_streak = 0]
                          [] field = "recovery_streak" -> [@ EXCEPT !.recovery_streak = 0]]
          /\ pending' = pending \ {field}
    /\ UNCHANGED <<pcRecovery, rid, late, gated, lag, verdict, sup, attached,
                   sensorVars, fdiVars, loggerVars>>

\* if (ctx->state == STATE_HEALTHY): a second read, after FDI may have moved on.
RecoverySettle ==
    /\ pcRecovery = "commit" /\ pending = {}
    /\ sup' = IF ctx[rid].state = "HEALTHY"
              THEN [sup EXCEPT ![rid] = Books(@.age, 0, 0, FALSE)]
              ELSE sup
    /\ pcRecovery' = "receive"
    /\ UNCHANGED <<rid, late, gated, lag, verdict, pending, ctx, attached,
                   sensorVars, fdiVars, loggerVars>>

\* log_recovery_event(): blocks while the logger is not receiving.
LogRecoveryEvent ==
    IF "recovery_to_logger" \in attached
    THEN LogEvent(rid, ctx[rid].state)
    ELSE UNCHANGED last_state

Backoff(attempts) == AtMost(BackoffBase * 2^(attempts - 1), BackoffMax)

RecoveryLogTimeout ==
    /\ pcRecovery = "log_timeout"
    /\ LogRecoveryEvent
    /\ IF sup[rid].attempts >= RecoveryMaxAttempts
       THEN /\ sup' = [sup EXCEPT ![rid].permanent = TRUE]
            /\ pcRecovery' = "log_permanent"
       ELSE /\ sup' = [sup EXCEPT ![rid].wait = Left(Backoff(sup[rid].attempts), lag)]
            /\ pcRecovery' = "receive"
    /\ UNCHANGED <<rid, late, gated, lag, verdict, pending, ctx, attached,
                   pcLogger, sensorVars, fdiVars>>

RecoveryLogPermanent ==
    /\ pcRecovery = "log_permanent"
    /\ LogRecoveryEvent
    /\ pcRecovery' = "receive"
    /\ UNCHANGED <<rid, late, gated, lag, verdict, pending, ctx, sup, attached,
                   pcLogger, sensorVars, fdiVars>>

-------------------------------------------------------------------------------
(* logger_thread(): a failed fopen() ends the thread, and nobody receives on *)
(* its channel again.                                                        *)

LoggerOpen ==
    /\ pcLogger = "open"
    /\ pcLogger' = "receive"
    /\ UNCHANGED <<ctx, sup, attached, last_state, sensorVars, fdiVars, recoveryVars>>

LoggerOpenFails ==
    /\ pcLogger = "open" /\ LogMayFail
    /\ pcLogger' = "exited"
    /\ UNCHANGED <<ctx, sup, attached, last_state, sensorVars, fdiVars, recoveryVars>>

-------------------------------------------------------------------------------
SensorStep   == SensorUnattended \/ FuseSkip \/ FuseAdmit \/ FuseWeigh
FdiStep      == \/ FdiDetect \/ FdiUpdate \/ FdiIsolate \/ FdiPublish
                \/ FdiLog \/ FdiSkipRecovery
RecoveryStep == \/ RecoveryExcluded \/ RecoveryExpire \/ RecoveryDetect
                \/ RecoveryEvaluate \/ RecoveryStore \/ RecoverySettle
                \/ RecoveryLogTimeout \/ RecoveryLogPermanent
LoggerStep   == LoggerOpen \/ LoggerOpenFails

Next == \/ SensorStep \/ FdiReceive \/ FdiStep
        \/ RecoveryReceive \/ RecoveryStep \/ LoggerStep

Spec == Init /\ [][Next]_vars

\* Every thread that can run does: the detector, recovery and logger threads
\* outrank or wait for nobody but each other, and the sensor thread sleeps
\* 100 ms in each cycle.
Fairness == /\ WF_vars(SensorStep \/ FdiReceive)
            /\ WF_vars(FdiStep \/ RecoveryReceive)
            /\ WF_vars(RecoveryStep)
            /\ WF_vars(LoggerStep)

FairSpec == Spec /\ Fairness

-------------------------------------------------------------------------------
TypeOK ==
    /\ ctx \in [Sensors -> Context]
    /\ sup \in [Sensors -> Supervision]
    /\ attached \in SUBSET Links
    /\ pcSensor \in {"send", "check", "weigh"} /\ slot \in 1..RangerCount
    /\ contrib \in [Sensors -> {"absent", "base", "inflated"}]
    /\ pcFdi \in {"receive", "detect", "update", "isolate", "publish", "log", "wake"}
    /\ idx \in 1..SensorCount
    /\ before \in SensorState /\ detected \in FaultType
    /\ ev \in [state : SensorState, fault : FaultType]
    /\ pcRecovery \in {"receive", "dispatch", "evaluate", "commit",
                       "log_timeout", "log_permanent"}
    /\ rid \in Sensors
    /\ late \in BOOLEAN /\ gated \in BOOLEAN /\ lag \in 0..LagCap
    /\ verdict \in FaultType /\ pending \in SUBSET ReinstatedFields
    /\ pcLogger \in {"open", "receive", "exited"}
    /\ last_state \in [Sensors -> SensorState]

-------------------------------------------------------------------------------
(* Safety.                                                                   *)

\* The sensor whose ctx->state FDI is about to store, and the one recovery is.
DetectorWrites ==
    IF pcFdi = "isolate" \/ (pcFdi = "update" /\ before \in DetectorOwned)
    THEN {Cur} ELSE {}
RecoveryWrites ==
    IF \/ pcRecovery = "dispatch" /\ ctx[rid].state \in RecoveryOwned
       \/ pcRecovery = "evaluate"
       \/ pcRecovery = "commit" /\ "state" \in pending
    THEN {rid} ELSE {}

\* The two threads never store the state of one sensor at the same time,
\* although FDI decides on a state it read before fdi_detect() and recovery on
\* an event FDI sent a cycle ago ("so the two threads don't race on the same
\* ctx->state path", evaluate_sensor()).
NoConcurrentWriters == DetectorWrites \cap RecoveryWrites = {}

\* A sensor recovery has given up on is never used again: no event that was
\* already under way, no late probe result and no backoff that runs out brings
\* it back into the fusion (permanent_fail, recovery_thread()).
AbandonedStaysOut ==
    \A s \in Sensors : sup[s].permanent => ctx[s].state \notin Usable

\* The distance of this cycle rests on s.
Fused(s) == contrib[s] # "absent" \/ (pcSensor = "weigh" /\ Ranger[slot] = s)

\* Fusion runs beside the cycle that condemns a sensor and may still use it then, but
\* not beside the one that abandons it: an event of an earlier cycle cannot make
\* recovery count its attempts while the sensor is in the distance (fusion_compute()
\* against recovery_thread()).
AbandonedIsNotFused == \A s \in Sensors : sup[s].permanent => ~Fused(s)

\* A sensor FDI still watches never carries a streak that would have
\* condemned, acquitted or reinstated it, whichever thread reset it last
\* (fdi_update_state() and fdi_probe_evaluate()).
StreaksBelowLimits ==
    \A s \in Sensors :
       /\ ctx[s].state = "SUSPECT" =>
             /\ ctx[s].fault_streak <= 1 \/ ctx[s].fault_streak < FaultConfirmLimit
             /\ ctx[s].recovery_streak < RecoveryConfirmLimit
       /\ ctx[s].state = "VALIDATING" /\ rid = s /\ pcRecovery = "evaluate" =>
             /\ ctx[s].validation_streak >= 1
             /\ \/ ctx[s].validation_streak = 1
                \/ ctx[s].validation_streak < RecoveryConfirmLimit

\* Whichever of FDI's and recovery's events the logger takes first, the timeline shows a
\* sensor suspected before it shows it out of use, and shows it out of use before it is
\* used again: no exclusion and no return is missing from it (logger_thread()).
ExclusionsAreLogged ==
    [][\A s \in Sensors : "fdi_to_logger" \in attached =>
          /\ last_state[s] = "HEALTHY" => last_state'[s] \in {"HEALTHY", "SUSPECT"}
          /\ ctx[s].state \notin Usable /\ ctx'[s].state \in Usable =>
                last_state[s] \notin Usable]_<<ctx, last_state>>

-------------------------------------------------------------------------------
(* Liveness.                                                                 *)

\* Once the logger runs, cycle follows cycle and no thread is left waiting:
\* recovery blocks on the logger, FDI on both, and the sensor thread on FDI,
\* which takes its next message only when it is done with the one before.
CyclesRecur ==
    <>(pcLogger = "receive") =>
       []<>(pcSensor = "send") /\ []<>(pcSensor # "send") /\ []<>(pcRecovery = "receive")

\* A sensor that is clean from some time on is used again and stays in use,
\* wherever it was in its life cycle, unless a probe of it has timed out or the
\* logger has exited (auto-recovery: FDI's streaks, the probe and the
\* validation, and the events that drive them).
CleanSensorsReturn ==
    <>[](detected = "NONE" /\ verdict = "NONE" /\ pcLogger # "exited")
        => <>[](\A s \in Sensors : ctx[s].state = "HEALTHY" \/ sup[s].attempts > 0)

-------------------------------------------------------------------------------
(* What comments and the README say and the threads do not do.               *)

\* main.c:31-33 and :411-415: a probe that timed out is back in EXCLUDED when
\* the timeout is logged.
TimedOutProbeIsExcluded ==
    pcRecovery = "log_timeout" => ctx[rid].state = "EXCLUDED"

\* main.c:34-36: a persistently faulty sensor is latched in EXCLUDED in the end
\* and not probed for ever.
OscillationEnds == \A s \in Sensors : <>[](ctx[s].state # "PROBING")

\* README.md:13 and :121: when FDI has finished a cycle that condemned a sensor,
\* the distance fused in that cycle was computed without it.
SameCycleRemoval ==
    pcFdi = "receive" /\ pcSensor = "send" =>
       \A u \in Sensors : contrib[u] # "absent" => ctx[u].state \in Usable

\* README.md:275, read with :106-118: the timeline is "an auditable sequence of every
\* state transition".  Each line it gets continues the one before by one transition of the
\* life cycle, where the exclusion that follows FAULTED in the same evaluation counts as
\* one with it.
Transitions ==
    {<<"HEALTHY", "SUSPECT">>, <<"SUSPECT", "HEALTHY">>, <<"SUSPECT", "EXCLUDED">>,
     <<"EXCLUDED", "PROBING">>, <<"PROBING", "EXCLUDED">>, <<"PROBING", "VALIDATING">>,
     <<"VALIDATING", "EXCLUDED">>, <<"VALIDATING", "HEALTHY">>}

TimelineIsComplete ==
    [][\A s \in Sensors : last_state'[s] = last_state[s]
                            \/ <<last_state[s], last_state'[s]>> \in Transitions]_last_state

\* README.md:41 and :79: best-effort logging cannot hold up fault handling.
DetectionSurvivesLogger == []<>(pcFdi = "receive")
===============================================================================
