--------------------------- MODULE FdiThreadsProofs ---------------------------
(***************************************************************************)
(* Theorems about the threads of main.c, for any number of sensors, any    *)
(* limits and timeouts, any connections and any schedule.                  *)
(***************************************************************************)
EXTENDS FdiThreads, FaultDetectorProofs, FiniteSetTheorems

USE TopologyAssumption, VerdictsAssumption, TimingAssumption

-------------------------------------------------------------------------------
(* Types.                                                                    *)

LEMMA CurIsSensor == TypeOK => Cur \in Sensors
  BY DEF TypeOK, Cur

LEMMA AtMostType ==
  ASSUME NEW n \in Nat, NEW bound \in Nat
  PROVE  AtMost(n, bound) \in 0..bound
  BY DEF AtMost

LEMMA LeftType ==
  ASSUME NEW t \in Nat, NEW bound \in Nat, NEW n \in 0..bound
  PROVE  Left(n, t) \in 0..bound
  BY DEF Left

LEMMA CapsType == AgeCap \in Nat /\ LagCap \in Nat /\ AttemptsCap \in Nat
  BY DEF AgeCap, LagCap, AttemptsCap

LEMMA BooksType ==
  ASSUME NEW age \in 0..AgeCap, NEW wait \in 0..BackoffMax,
         NEW attempts \in 0..AttemptsCap, NEW permanent \in BOOLEAN
  PROVE  Books(age, wait, attempts, permanent) \in Supervision
  BY DEF Books, Supervision

LEMMA TypeInit == Init => TypeOK
<1> SUFFICES ASSUME Init PROVE TypeOK
  OBVIOUS
<1>1. ContextInit \in Context
  BY DEF ContextInit, Context, SensorState, FaultType
<1>2. Books(AgeCap, 0, 0, FALSE) \in Supervision
  <2>1. AgeCap \in 0..AgeCap /\ 0 \in 0..BackoffMax /\ 0 \in 0..AttemptsCap
    BY CapsType
  <2>2. QED
    BY <2>1, BooksType, Zenon
<1>3. ctx \in [Sensors -> Context] /\ sup \in [Sensors -> Supervision]
  BY <1>1, <1>2 DEF Init
<1>4. /\ attached \in SUBSET Links
      /\ slot \in 1..RangerCount /\ idx \in 1..SensorCount /\ rid \in Sensors
  BY DEF Init
<1>5. late \in BOOLEAN /\ gated \in BOOLEAN
  BY Zenon DEF Init
<1>6. lag \in 0..LagCap
  BY CapsType DEF Init
<1>7. QED
  BY <1>3, <1>4, <1>5, <1>6 DEF Init, TypeOK, SensorState, FaultType, ReinstatedFields

LEMMA TypeSensor == TypeOK /\ SensorStep => TypeOK'
<1> SUFFICES ASSUME TypeOK, SensorStep PROVE TypeOK'
  OBVIOUS
<1> USE DEF TypeOK, sensorVars, fdiVars, recoveryVars, loggerVars
<1>1. CASE SensorUnattended
  BY <1>1 DEF SensorUnattended, StartFusion
<1>2. CASE FuseSkip
  BY <1>2 DEF FuseSkip, NextSlot
<1>3. CASE FuseAdmit
  BY <1>3 DEF FuseAdmit
<1>4. CASE FuseWeigh
  BY <1>4 DEF FuseWeigh, NextSlot
<1>5. QED
  BY <1>1, <1>2, <1>3, <1>4 DEF SensorStep

LEMMA TypeElapse ==
  ASSUME TypeOK, NEW gap \in Gaps, Elapse(gap)
  PROVE  sup' \in [Sensors -> Supervision] /\ lag' \in 0..LagCap
<1>1. gap \in Nat
  OBVIOUS
<1>2. lag' \in 0..LagCap
  <2>1. lag + gap \in Nat
    BY <1>1, CapsType DEF TypeOK
  <2>2. AtMost(lag + gap, LagCap) \in 0..LagCap
    BY <2>1, AtMostType, CapsType
  <2>3. lag' = 0 \/ lag' = AtMost(lag + gap, LagCap)
    BY DEF Elapse
  <2>4. QED
    BY <2>2, <2>3, CapsType
<1>3. ASSUME NEW s \in Sensors
      PROVE  Books(AtMost(sup[s].age + gap, AgeCap), Left(sup[s].wait, gap),
                   sup[s].attempts, sup[s].permanent) \in Supervision
  <2>1. /\ sup[s].age \in 0..AgeCap
        /\ sup[s].wait \in 0..BackoffMax
        /\ sup[s].attempts \in 0..AttemptsCap
    BY DEF TypeOK, Supervision
  <2>2. AtMost(sup[s].age + gap, AgeCap) \in 0..AgeCap
    <3>1. sup[s].age + gap \in Nat
      BY <1>1, <2>1, CapsType
    <3>2. QED
      BY <3>1, AtMostType, CapsType
  <2>3. Left(sup[s].wait, gap) \in 0..BackoffMax
    BY <1>1, <2>1, LeftType
  <2>4. sup[s].permanent \in BOOLEAN
    BY DEF TypeOK, Supervision
  <2>5. QED
    BY <2>1, <2>2, <2>3, <2>4, BooksType
<1>4. QED
  BY <1>2, <1>3 DEF Elapse

LEMMA TypeFdi == TypeOK /\ (FdiReceive \/ FdiStep) => TypeOK'
<1> SUFFICES ASSUME TypeOK, FdiReceive \/ FdiStep PROVE TypeOK'
  OBVIOUS
<1> USE DEF TypeOK, sensorVars, fdiVars, recoveryVars, loggerVars
<1>0. Cur \in Sensors
  BY CurIsSensor
<1>1. CASE FdiReceive
  BY <1>1, TypeElapse DEF FdiReceive, StartFusion
<1>2. CASE FdiDetect
  BY <1>0, <1>2 DEF FdiDetect, Context
<1>3. CASE FdiUpdate
  <2> DEFINE c == IF before \in {"HEALTHY", "SUSPECT"}
                  THEN UpdateState(ctx[Cur], detected) ELSE ctx[Cur]
  <2>1. c \in Context
    BY <1>0, UpdateStateType
  <2>2. [c EXCEPT !.last_fault = detected] \in Context
    BY <2>1 DEF Context
  <2>3. QED
    BY <1>0, <1>3, <2>2 DEF FdiUpdate
<1>4. CASE FdiIsolate
  BY <1>0, <1>4, IsolateType DEF FdiIsolate
<1>5. CASE FdiPublish
  BY <1>0, <1>5 DEF FdiPublish, Context
<1>6. CASE FdiLog
  BY <1>0, <1>6 DEF FdiLog, LogEvent
<1>7. CASE FdiSkipRecovery
  BY <1>7 DEF FdiSkipRecovery, NextSensor
<1>8. QED
  BY <1>1, <1>2, <1>3, <1>4, <1>5, <1>6, <1>7 DEF FdiStep

LEMMA BackoffType ==
  ASSUME NEW n \in 1..RecoveryMaxAttempts
  PROVE  Backoff(n) \in 0..BackoffMax
<1>1. BackoffBase * 2^(n - 1) \in Nat
  BY BackoffAssumption
<1>2. QED
  BY <1>1, AtMostType DEF Backoff

\* Each field of recovery's books can be stored on its own.
LEMMA BooksUpdate ==
  ASSUME NEW b \in Supervision
  PROVE  /\ \A v \in 0..AgeCap : [b EXCEPT !.age = v] \in Supervision
         /\ \A v \in 0..BackoffMax : [b EXCEPT !.wait = v] \in Supervision
         /\ \A v \in 0..AttemptsCap : [b EXCEPT !.attempts = v] \in Supervision
         /\ [b EXCEPT !.permanent = TRUE] \in Supervision
  BY DEF Supervision

\* Recovery has counted an attempt when it logs its timeout: the backoff shifts
\* by attempts - 1.
Counted == pcRecovery \in {"log_timeout", "log_permanent"} => sup[rid].attempts >= 1

LEMMA TypeRecovery == TypeOK /\ Counted /\ (RecoveryReceive \/ RecoveryStep) => TypeOK'
<1> SUFFICES ASSUME TypeOK, Counted, RecoveryReceive \/ RecoveryStep PROVE TypeOK'
  OBVIOUS
<1> USE DEF TypeOK, sensorVars, fdiVars, recoveryVars, loggerVars
<1>0. /\ ctx[rid] \in Context /\ sup[rid] \in Supervision
      /\ ctx[rid].state \in SensorState
  BY DEF Context
<1>1. CASE RecoveryReceive
  <2>1. Cur \in Sensors
    BY CurIsSensor
  <2>2. late' \in BOOLEAN /\ gated' \in BOOLEAN
    <3>1. /\ late' = (sup[Cur].age > RecoveryTimeout)
          /\ gated' = (sup[Cur].wait > 0)
      BY <1>1 DEF RecoveryReceive
    <3>2. QED
      BY <3>1, SMT
  <2>3. lag' \in 0..LagCap
    BY <1>1, CapsType DEF RecoveryReceive
  <2>4. QED
    BY <1>1, <2>1, <2>2, <2>3 DEF RecoveryReceive, NextSensor
<1>2. CASE RecoveryExcluded
  <2>1. StartProbe(ctx[rid]) \in Context
    BY <1>0, StartProbeType
  <2>2. AtMost(lag, AgeCap) \in 0..AgeCap
    <3>1. lag \in Nat
      BY CapsType
    <3>2. QED
      BY <3>1, AtMostType, CapsType
  <2>3. [sup[rid] EXCEPT !.age = AtMost(lag, AgeCap)] \in Supervision
    BY <1>0, <2>2, BooksUpdate
  <2>4. \/ ctx' = ctx /\ sup' = sup
        \/ /\ ctx' = [ctx EXCEPT ![rid] = StartProbe(ctx[rid])]
           /\ sup' = [sup EXCEPT ![rid] = [sup[rid] EXCEPT !.age = AtMost(lag, AgeCap)]]
    BY <1>2 DEF RecoveryExcluded
  <2>5. ctx' \in [Sensors -> Context]
    BY <2>1, <2>4
  <2>6. sup' \in [Sensors -> Supervision]
    BY <2>3, <2>4
  <2>7. QED
    BY <1>2, <2>5, <2>6 DEF RecoveryExcluded
<1>3. CASE RecoveryExpire
  <2>1. Isolate(ctx[rid]) \in Context
    BY <1>0, IsolateType
  <2>2. AtMost(sup[rid].attempts + 1, AttemptsCap) \in 0..AttemptsCap
    <3>1. sup[rid].attempts + 1 \in Nat
      <4>1. sup[rid].attempts \in 0..AttemptsCap
        BY <1>0 DEF Supervision
      <4>2. QED
        BY <4>1, CapsType
    <3>2. QED
      BY <3>1, AtMostType, CapsType
  <2>3. [sup[rid] EXCEPT !.attempts = AtMost(sup[rid].attempts + 1, AttemptsCap)]
          \in Supervision
    BY <1>0, <2>2, BooksUpdate
  <2>4. QED
    BY <1>3, <2>1, <2>3 DEF RecoveryExpire
<1>4. CASE RecoveryDetect
  BY <1>4 DEF RecoveryDetect
<1>5. CASE RecoveryEvaluate
  <2> DEFINE c == ProbeEvaluate(ctx[rid], verdict)
             partial == Ctx(ctx[rid].state, c.last_fault, ctx[rid].fault_streak,
                            ctx[rid].recovery_streak, c.validation_streak)
  <2>1. c \in Context
    BY <1>0, ProbeEvaluateType
  <2>2. partial \in Context
    BY <1>0, <2>1 DEF Context, Ctx
  <2>3. \/ ctx' = [ctx EXCEPT ![rid] = partial] /\ pending' = ReinstatedFields
             /\ pcRecovery' = "commit"
        \/ ctx' = [ctx EXCEPT ![rid] = c] /\ pending' = pending
             /\ pcRecovery' = "receive"
    BY <1>5 DEF RecoveryEvaluate
  <2>4. ctx' \in [Sensors -> Context]
    BY <2>1, <2>2, <2>3
  <2>5. QED
    BY <1>5, <2>3, <2>4 DEF RecoveryEvaluate
<1>6. CASE RecoveryStore
  <2>1. PICK field \in pending :
          /\ ctx' = [ctx EXCEPT ![rid] =
                        CASE field = "state"           -> [@ EXCEPT !.state = "HEALTHY"]
                          [] field = "fault_streak"    -> [@ EXCEPT !.fault_streak = 0]
                          [] field = "recovery_streak" -> [@ EXCEPT !.recovery_streak = 0]]
          /\ pending' = pending \ {field}
    BY <1>6 DEF RecoveryStore
  <2>2. /\ [ctx[rid] EXCEPT !.state = "HEALTHY"] \in Context
        /\ [ctx[rid] EXCEPT !.fault_streak = 0] \in Context
        /\ [ctx[rid] EXCEPT !.recovery_streak = 0] \in Context
    <3>1. "HEALTHY" \in SensorState /\ 0 \in 0..255
      BY DEF SensorState
    <3>2. QED
      BY <1>0, <3>1, FieldUpdate, Zenon
  <2>3. ctx' \in [Sensors -> Context]
    BY <2>1, <2>2 DEF ReinstatedFields
  <2>4. QED
    BY <1>6, <2>1, <2>3 DEF RecoveryStore
<1>7. CASE RecoverySettle
  <2>1. Books(sup[rid].age, 0, 0, FALSE) \in Supervision
    <3>1. /\ sup[rid].age \in 0..AgeCap
          /\ 0 \in 0..BackoffMax /\ 0 \in 0..AttemptsCap
      BY <1>0, CapsType DEF Supervision
    <3>2. QED
      BY <3>1, BooksType, Zenon
  <2>2. sup' \in [Sensors -> Supervision]
    BY <1>7, <2>1 DEF RecoverySettle
  <2>3. QED
    BY <1>7, <2>2 DEF RecoverySettle
<1>8. CASE RecoveryLogTimeout
  <2>1. last_state' \in [Sensors -> SensorState]
    BY <1>0, <1>8 DEF RecoveryLogTimeout, LogRecoveryEvent, LogEvent
  <2>2. sup' \in [Sensors -> Supervision]
    <3>1. CASE sup[rid].attempts >= RecoveryMaxAttempts
      BY <1>0, <1>8, <3>1, BooksUpdate DEF RecoveryLogTimeout
    <3>2. CASE ~(sup[rid].attempts >= RecoveryMaxAttempts)
      <4>1. sup[rid].attempts \in 1..RecoveryMaxAttempts
        BY <1>0, <1>8, <3>2, CapsType DEF Counted, RecoveryLogTimeout, Supervision
      <4>2. lag \in Nat
        BY CapsType
      <4>3. Left(Backoff(sup[rid].attempts), lag) \in 0..BackoffMax
        BY <4>1, <4>2, BackoffType, LeftType
      <4>4. [sup[rid] EXCEPT !.wait = Left(Backoff(sup[rid].attempts), lag)]
              \in Supervision
        BY <1>0, <4>3, BooksUpdate
      <4>5. QED
        BY <1>8, <3>2, <4>4 DEF RecoveryLogTimeout
    <3>3. QED
      BY <3>1, <3>2
  <2>3. pcRecovery' \in {"log_permanent", "receive"}
    BY <1>8 DEF RecoveryLogTimeout
  <2>4. QED
    BY <1>8, <2>1, <2>2, <2>3 DEF RecoveryLogTimeout
<1>9. CASE RecoveryLogPermanent
  BY <1>0, <1>9 DEF RecoveryLogPermanent, LogRecoveryEvent, LogEvent
<1>10. QED
  BY <1>1, <1>2, <1>3, <1>4, <1>5, <1>6, <1>7, <1>8, <1>9 DEF RecoveryStep

LEMMA TypeLogger == TypeOK /\ LoggerStep => TypeOK'
  BY DEF TypeOK, LoggerStep, LoggerOpen, LoggerOpenFails,
         sensorVars, fdiVars, recoveryVars

LEMMA TypeStutter == TypeOK /\ UNCHANGED vars => TypeOK'
  BY DEF TypeOK, vars, sensorVars, fdiVars, recoveryVars, loggerVars

-------------------------------------------------------------------------------
(* What each action does to the states of the sensors.                       *)

\* What the two threads know of the sensor each is working on.
Ownership ==
    /\ pcFdi = "update" /\ before \in DetectorOwned => ctx[Cur].state = before
    /\ pcFdi = "isolate" => ctx[Cur].state = "FAULTED"
    /\ pcRecovery = "evaluate" => ctx[rid].state \in {"PROBING", "VALIDATING"}
    /\ pcRecovery = "commit" /\ "state" \in pending => ctx[rid].state = "VALIDATING"

SameStates == \A s \in Sensors : ctx'[s].state = ctx[s].state
SameStatesBut(t) == \A s \in Sensors \ {t} : ctx'[s].state = ctx[s].state

LEMMA FdiUpdateStates ==
  ASSUME TypeOK, Ownership, FdiUpdate
  PROVE  /\ SameStatesBut(Cur)
         /\ IF before \in {"HEALTHY", "SUSPECT"}
            THEN ctx[Cur].state \in DetectorOwned /\ ctx'[Cur].state \in DetectorOwned
            ELSE ctx'[Cur].state = ctx[Cur].state
         /\ pcFdi' = "isolate" => ctx'[Cur].state = "FAULTED"
         /\ pcFdi' \in {"isolate", "publish"}
<1> DEFINE c == IF before \in {"HEALTHY", "SUSPECT"}
                THEN UpdateState(ctx[Cur], detected) ELSE ctx[Cur]
           d == [c EXCEPT !.last_fault = detected]
<1>1. Cur \in Sensors /\ ctx[Cur] \in Context /\ detected \in FaultType
  BY CurIsSensor DEF TypeOK
<1>2. c \in Context
  BY <1>1, UpdateStateType
<1>3. d.state = c.state
  BY <1>2 DEF Context
<1>4. /\ ctx' = [ctx EXCEPT ![Cur] = d]
      /\ pcFdi' = IF before \in DetectorOwned /\ c.state = "FAULTED"
                  THEN "isolate" ELSE "publish"
  BY <1>1 DEF FdiUpdate
<1>5. before \in {"HEALTHY", "SUSPECT"} =>
         ctx[Cur].state \in DetectorOwned /\ c.state \in DetectorOwned
  BY <1>1, UpdateStateStates DEF FdiUpdate, Ownership, DetectorOwned
<1> HIDE DEF c, d
<1>6. SameStatesBut(Cur) /\ ctx'[Cur] = d
  BY <1>1, <1>4 DEF SameStatesBut, TypeOK
<1>7. before \notin {"HEALTHY", "SUSPECT"} => c = ctx[Cur]
  BY DEF c
<1>8. QED
  BY <1>3, <1>4, <1>5, <1>6, <1>7

LEMMA FdiIsolateStates ==
  ASSUME TypeOK, Ownership, FdiIsolate
  PROVE  SameStatesBut(Cur) /\ ctx[Cur].state = "FAULTED" /\ ctx'[Cur].state = "EXCLUDED"
<1>1. Cur \in Sensors /\ ctx[Cur] \in Context
  BY CurIsSensor DEF TypeOK
<1>2. ctx[Cur].state = "FAULTED"
  BY DEF FdiIsolate, Ownership
<1>3. Isolate(ctx[Cur]).state = "EXCLUDED"
  BY <1>1, <1>2 DEF Isolate, Context
<1>4. QED
  BY <1>1, <1>2, <1>3 DEF FdiIsolate, SameStatesBut, TypeOK

LEMMA RecoveryExcludedStates ==
  ASSUME TypeOK, RecoveryExcluded
  PROVE  /\ SameStatesBut(rid)
         /\ \/ ctx' = ctx /\ sup' = sup
            \/ /\ ctx[rid].state = "EXCLUDED" /\ ctx'[rid].state = "PROBING"
               /\ \A s \in Sensors \ {rid} : sup'[s] = sup[s]
               /\ sup'[rid].attempts = sup[rid].attempts
               /\ sup'[rid].permanent = sup[rid].permanent
<1>1. ctx[rid] \in Context /\ sup[rid] \in Supervision
  BY DEF TypeOK
<1>2. CASE ctx' = ctx /\ sup' = sup
  BY <1>2 DEF SameStatesBut
<1>3. CASE /\ ctx[rid].state = "EXCLUDED"
           /\ ctx' = [ctx EXCEPT ![rid] = StartProbe(ctx[rid])]
           /\ sup' = [sup EXCEPT ![rid] = [sup[rid] EXCEPT !.age = AtMost(lag, AgeCap)]]
  <2>1. StartProbe(ctx[rid]).state = "PROBING"
    BY <1>3 DEF StartProbe, Ctx
  <2>2. SameStatesBut(rid) /\ ctx'[rid].state = "PROBING"
    BY <1>3, <2>1 DEF SameStatesBut, TypeOK
  <2>3. /\ \A s \in Sensors \ {rid} : sup'[s] = sup[s]
        /\ sup'[rid] = [sup[rid] EXCEPT !.age = AtMost(lag, AgeCap)]
    BY <1>3 DEF TypeOK
  <2>4. sup'[rid].attempts = sup[rid].attempts /\ sup'[rid].permanent = sup[rid].permanent
    BY <1>1, <2>3 DEF Supervision
  <2>5. QED
    BY <1>3, <2>2, <2>3, <2>4
<1>4. QED
  BY <1>2, <1>3 DEF RecoveryExcluded

LEMMA RecoveryExpireStates ==
  ASSUME TypeOK, RecoveryExpire
  PROVE  ctx' = ctx
<1>1. Isolate(ctx[rid]) = ctx[rid]
  BY DEF RecoveryExpire, Isolate
<1>2. QED
  BY <1>1 DEF RecoveryExpire, TypeOK

LEMMA RecoveryEvaluateStates ==
  ASSUME TypeOK, Ownership, RecoveryEvaluate
  PROVE  /\ SameStatesBut(rid)
         /\ ctx[rid].state \in {"PROBING", "VALIDATING"}
         /\ \/ /\ pcRecovery' = "receive" /\ ctx'[rid].state \in {"EXCLUDED", "VALIDATING"}
            \/ /\ pcRecovery' = "commit" /\ ctx[rid].state = "VALIDATING"
               /\ ctx'[rid].state = "VALIDATING"
<1> DEFINE c == ProbeEvaluate(ctx[rid], verdict)
           partial == Ctx(ctx[rid].state, c.last_fault, ctx[rid].fault_streak,
                          ctx[rid].recovery_streak, c.validation_streak)
<1>1. ctx[rid] \in Context /\ verdict \in FaultType /\ rid \in Sensors
  BY DEF TypeOK
<1>2. ctx[rid].state \in {"PROBING", "VALIDATING"}
  BY DEF RecoveryEvaluate, Ownership
<1>3. /\ c.state \in {"EXCLUDED", "VALIDATING", "HEALTHY"}
      /\ c.state = "HEALTHY" => ctx[rid].state = "VALIDATING"
  BY <1>1, <1>2, ProbeEvaluateStates
<1>4. partial.state = ctx[rid].state
  BY DEF Ctx
<1> HIDE DEF c
<1>5. \/ /\ c.state = "HEALTHY" /\ pcRecovery' = "commit"
         /\ ctx' = [ctx EXCEPT ![rid] = partial]
      \/ /\ c.state # "HEALTHY" /\ pcRecovery' = "receive"
         /\ ctx' = [ctx EXCEPT ![rid] = c]
  BY DEF RecoveryEvaluate, c
<1> HIDE DEF partial
<1>6. QED
  BY <1>1, <1>2, <1>3, <1>4, <1>5 DEF SameStatesBut, TypeOK

LEMMA RecoveryStoreStates ==
  ASSUME TypeOK, RecoveryStore
  PROVE  /\ SameStatesBut(rid)
         /\ \/ /\ "state" \in pending /\ "state" \notin pending'
               /\ ctx'[rid].state = "HEALTHY"
            \/ ctx'[rid].state = ctx[rid].state /\ pending' \subseteq pending
<1>1. PICK field \in pending :
        /\ ctx' = [ctx EXCEPT ![rid] =
                      CASE field = "state"           -> [@ EXCEPT !.state = "HEALTHY"]
                        [] field = "fault_streak"    -> [@ EXCEPT !.fault_streak = 0]
                        [] field = "recovery_streak" -> [@ EXCEPT !.recovery_streak = 0]]
        /\ pending' = pending \ {field}
  BY DEF RecoveryStore
<1>2. ctx[rid] \in Context /\ rid \in Sensors /\ pending \subseteq ReinstatedFields
  BY DEF TypeOK
<1>3. /\ [ctx[rid] EXCEPT !.state = "HEALTHY"].state = "HEALTHY"
      /\ [ctx[rid] EXCEPT !.fault_streak = 0].state = ctx[rid].state
      /\ [ctx[rid] EXCEPT !.recovery_streak = 0].state = ctx[rid].state
  BY <1>2 DEF Context
<1>4. SameStatesBut(rid)
  BY <1>1, <1>2 DEF SameStatesBut, TypeOK
<1>5. CASE field = "state"
  BY <1>1, <1>2, <1>3, <1>4, <1>5 DEF TypeOK
<1>6. CASE field # "state"
  BY <1>1, <1>2, <1>3, <1>4, <1>6 DEF TypeOK, ReinstatedFields
<1>7. QED
  BY <1>5, <1>6

-------------------------------------------------------------------------------
(* Ownership is inductive.                                                   *)

LEMMA OwnershipSensor == TypeOK /\ Ownership /\ (SensorStep \/ LoggerStep) => Ownership'
  BY DEF Ownership, SensorStep, SensorUnattended, FuseSkip, FuseAdmit, FuseWeigh,
         LoggerStep, LoggerOpen, LoggerOpenFails, Cur, fdiVars, recoveryVars

LEMMA OwnershipFdi == TypeOK /\ Ownership /\ (FdiReceive \/ FdiStep) => Ownership'
<1> SUFFICES ASSUME TypeOK, Ownership, FdiReceive \/ FdiStep PROVE Ownership'
  OBVIOUS
<1>0. Cur \in Sensors /\ rid \in Sensors
  BY CurIsSensor DEF TypeOK
<1>1. CASE FdiReceive
  BY <1>1 DEF Ownership, FdiReceive
<1>2. CASE FdiDetect
  BY <1>2 DEF Ownership, FdiDetect, recoveryVars, Cur
<1>3. CASE FdiUpdate
  <2>1. Cur' = Cur /\ rid' = rid /\ pcRecovery' = pcRecovery /\ pending' = pending
    BY <1>3 DEF FdiUpdate, recoveryVars, Cur
  <2>2. ctx[rid].state \in {"PROBING", "VALIDATING"} => ctx'[rid].state = ctx[rid].state
    BY <1>0, <1>3, FdiUpdateStates DEF SameStatesBut, DetectorOwned
  <2>3. pcFdi' # "update" /\ (pcFdi' = "isolate" => ctx'[Cur].state = "FAULTED")
    BY <1>3, FdiUpdateStates
  <2>4. QED
    BY <2>1, <2>2, <2>3 DEF Ownership
<1>4. CASE FdiIsolate
  <2>1. /\ Cur' = Cur /\ rid' = rid /\ pcRecovery' = pcRecovery /\ pending' = pending
        /\ pcFdi' = "publish"
    BY <1>4 DEF FdiIsolate, recoveryVars, Cur
  <2>2. ctx[rid].state \in {"PROBING", "VALIDATING"} => ctx'[rid].state = ctx[rid].state
    BY <1>0, <1>4, FdiIsolateStates DEF SameStatesBut
  <2>3. QED
    BY <2>1, <2>2 DEF Ownership
<1>5. CASE FdiPublish \/ FdiLog \/ FdiSkipRecovery
  BY <1>5 DEF Ownership, FdiPublish, FdiLog, FdiSkipRecovery, NextSensor, recoveryVars
<1>6. QED
  BY <1>1, <1>2, <1>3, <1>4, <1>5 DEF FdiStep

\* Recovery never moves a sensor that FDI is about to move.
LEMMA OwnershipRecovery ==
  TypeOK /\ Ownership /\ (RecoveryReceive \/ RecoveryStep) => Ownership'
<1> SUFFICES ASSUME TypeOK, Ownership, RecoveryReceive \/ RecoveryStep PROVE Ownership'
  OBVIOUS
<1>0. Cur \in Sensors /\ rid \in Sensors
  BY CurIsSensor DEF TypeOK
<1>1. CASE RecoveryReceive
  BY <1>1 DEF Ownership, RecoveryReceive, NextSensor
<1>2. ASSUME ~RecoveryReceive
      PROVE  Cur' = Cur /\ rid' = rid /\ pcFdi' = pcFdi /\ before' = before
  BY <1>2 DEF RecoveryStep, RecoveryExcluded, RecoveryExpire, RecoveryDetect,
        RecoveryEvaluate, RecoveryStore, RecoverySettle, RecoveryLogTimeout,
        RecoveryLogPermanent, fdiVars, Cur
<1>3. ASSUME ~RecoveryReceive, SameStatesBut(rid), ctx[rid].state \in RecoveryOwned
      PROVE  ctx[Cur].state \in DetectorOwned => ctx'[Cur].state = ctx[Cur].state
  BY <1>0, <1>3 DEF SameStatesBut, RecoveryOwned, DetectorOwned
<1>4. ASSUME ~RecoveryReceive,
             ctx[Cur].state \in DetectorOwned => ctx'[Cur].state = ctx[Cur].state
      PROVE  /\ pcFdi' = "update" /\ before' \in DetectorOwned => ctx'[Cur'].state = before'
             /\ pcFdi' = "isolate" => ctx'[Cur'].state = "FAULTED"
  BY <1>2, <1>4 DEF Ownership, DetectorOwned
<1>5. CASE ~RecoveryReceive /\ RecoveryExcluded
  <2>1. pcRecovery' = "receive"
    BY <1>5 DEF RecoveryExcluded
  <2>2. ctx[Cur].state \in DetectorOwned => ctx'[Cur].state = ctx[Cur].state
    BY <1>0, <1>3, <1>5, RecoveryExcludedStates DEF RecoveryOwned, SameStatesBut
  <2>3. QED
    BY <1>4, <1>5, <2>1, <2>2 DEF Ownership
<1>6. CASE ~RecoveryReceive /\ RecoveryExpire
  <2>1. pcRecovery' = "log_timeout" /\ ctx' = ctx
    BY <1>6, RecoveryExpireStates DEF RecoveryExpire
  <2>2. QED
    BY <1>4, <1>6, <2>1 DEF Ownership
<1>7. CASE ~RecoveryReceive /\ RecoveryDetect
  BY <1>2, <1>7 DEF Ownership, RecoveryDetect
<1>8. CASE ~RecoveryReceive /\ RecoveryEvaluate
  <2>1. ctx[Cur].state \in DetectorOwned => ctx'[Cur].state = ctx[Cur].state
    BY <1>3, <1>8, RecoveryEvaluateStates DEF RecoveryOwned
  <2>2. \/ pcRecovery' = "receive"
        \/ pcRecovery' = "commit" /\ ctx'[rid].state = "VALIDATING"
    BY <1>8, RecoveryEvaluateStates
  <2>3. QED
    BY <1>2, <1>4, <1>8, <2>1, <2>2 DEF Ownership
<1>9. CASE ~RecoveryReceive /\ RecoveryStore
  <2>1. pcRecovery = "commit" /\ pcRecovery' = "commit"
    BY <1>9 DEF RecoveryStore
  <2>2. CASE "state" \in pending /\ "state" \notin pending' /\ ctx'[rid].state = "HEALTHY"
    <3>1. ctx[rid].state \in RecoveryOwned
      BY <2>1, <2>2 DEF Ownership, RecoveryOwned
    <3>2. ctx[Cur].state \in DetectorOwned => ctx'[Cur].state = ctx[Cur].state
      BY <1>3, <1>9, <3>1, RecoveryStoreStates
    <3>3. QED
      BY <1>4, <1>9, <2>1, <2>2, <3>2 DEF Ownership
  <2>3. CASE ctx'[rid].state = ctx[rid].state /\ pending' \subseteq pending
    <3>1. ctx'[Cur].state = ctx[Cur].state
      BY <1>0, <1>9, <2>3, RecoveryStoreStates DEF SameStatesBut
    <3>2. QED
      BY <1>2, <1>4, <1>9, <2>1, <2>3, <3>1 DEF Ownership
  <2>4. QED
    BY <1>9, <2>2, <2>3, RecoveryStoreStates
<1>10. CASE ~RecoveryReceive /\ (RecoverySettle \/ RecoveryLogTimeout \/ RecoveryLogPermanent)
  <2>1. ctx' = ctx /\ pcRecovery' \in {"receive", "log_permanent"}
    BY <1>10 DEF RecoverySettle, RecoveryLogTimeout, RecoveryLogPermanent
  <2>2. QED
    BY <1>4, <1>10, <2>1 DEF Ownership
<1>11. QED
  BY <1>1, <1>5, <1>6, <1>7, <1>8, <1>9, <1>10 DEF RecoveryStep

-------------------------------------------------------------------------------
(* A probe that timed out keeps its sensor in PROBING or VALIDATING for ever. *)

Expiry ==
    /\ \A s \in Sensors :
          /\ sup[s].permanent => sup[s].attempts > 0
          /\ sup[s].attempts > 0 => /\ ctx[s].state \in {"PROBING", "VALIDATING"}
                                    /\ sup[s].age > RecoveryTimeout
    /\ pcRecovery = "dispatch" /\ late => sup[rid].age > RecoveryTimeout
    /\ pcRecovery = "dispatch" /\ sup[rid].attempts > 0 => late
    /\ pcRecovery \in {"evaluate", "commit"} => sup[rid].attempts = 0
    /\ Counted

LEMMA ExpirySensor == TypeOK /\ Expiry /\ (SensorStep \/ LoggerStep) => Expiry'
  BY DEF Expiry, Counted, SensorStep, SensorUnattended, FuseSkip, FuseAdmit, FuseWeigh,
         LoggerStep, LoggerOpen, LoggerOpenFails, recoveryVars

\* FDI does not touch a sensor in PROBING or VALIDATING, and time only adds to
\* the age of its probe.
LEMMA ExpiryFdi == TypeOK /\ Ownership /\ Expiry /\ (FdiReceive \/ FdiStep) => Expiry'
<1> SUFFICES ASSUME TypeOK, Ownership, Expiry, FdiReceive \/ FdiStep PROVE Expiry'
  OBVIOUS
<1>0. Cur \in Sensors /\ rid \in Sensors
  BY CurIsSensor DEF TypeOK
<1>1. CASE FdiReceive
  <2>1. PICK gap \in Gaps : Elapse(gap)
    BY <1>1 DEF FdiReceive
  <2>2. /\ ctx' = ctx /\ rid' = rid /\ pcRecovery' = pcRecovery /\ late' = late
    BY <1>1 DEF FdiReceive
  <2>3. ASSUME NEW s \in Sensors
        PROVE  /\ sup'[s].attempts = sup[s].attempts /\ sup'[s].permanent = sup[s].permanent
               /\ sup[s].age > RecoveryTimeout => sup'[s].age > RecoveryTimeout
    <3>1. /\ sup'[s].attempts = sup[s].attempts /\ sup'[s].permanent = sup[s].permanent
          /\ sup'[s].age = AtMost(sup[s].age + gap, AgeCap)
      BY <2>1 DEF Elapse, Books
    <3>2. sup[s].age \in Nat /\ gap \in Nat
      BY CapsType DEF TypeOK, Supervision
    <3>3. sup[s].age > RecoveryTimeout =>
             AtMost(sup[s].age + gap, AgeCap) > RecoveryTimeout
      BY <3>2 DEF AtMost, AgeCap
    <3>4. QED
      BY <3>1, <3>3
  <2>4. QED
    BY <1>0, <2>2, <2>3 DEF Expiry, Counted
<1>2. CASE FdiUpdate \/ FdiIsolate
  <2>1. sup' = sup /\ rid' = rid /\ pcRecovery' = pcRecovery /\ late' = late
    BY <1>2 DEF FdiUpdate, FdiIsolate, recoveryVars
  <2>2. ASSUME NEW s \in Sensors, ctx[s].state \in {"PROBING", "VALIDATING"}
        PROVE  ctx'[s].state = ctx[s].state
    BY <1>2, <2>2, FdiUpdateStates, FdiIsolateStates DEF SameStatesBut, DetectorOwned
  <2>3. QED
    BY <2>1, <2>2 DEF Expiry, Counted
<1>3. CASE FdiDetect \/ FdiPublish \/ FdiLog \/ FdiSkipRecovery
  BY <1>3 DEF Expiry, Counted, FdiDetect, FdiPublish, FdiLog, FdiSkipRecovery, recoveryVars
<1>4. QED
  BY <1>1, <1>2, <1>3 DEF FdiStep

LEMMA ExpiryRecovery ==
  TypeOK /\ Ownership /\ Expiry /\ (RecoveryReceive \/ RecoveryStep) => Expiry'
<1> SUFFICES ASSUME TypeOK, Ownership, Expiry, RecoveryReceive \/ RecoveryStep
             PROVE  Expiry'
  OBVIOUS
<1>0. /\ rid \in Sensors /\ Cur \in Sensors /\ sup[rid] \in Supervision
      /\ \A s \in Sensors : sup[s].attempts \in Nat
  <2>1. \A s \in Sensors : sup[s].attempts \in 0..AttemptsCap
    BY DEF TypeOK, Supervision
  <2>2. QED
    BY <2>1, CurIsSensor, CapsType DEF TypeOK
<1>1. CASE RecoveryReceive
  <2>1. /\ ctx' = ctx /\ sup' = sup /\ rid' = Cur /\ pcRecovery' = "dispatch"
        /\ late' = (sup[Cur].age > RecoveryTimeout)
    BY <1>1 DEF RecoveryReceive
  <2>2. QED
    BY <1>0, <2>1 DEF Expiry, Counted
<1>2. CASE RecoveryExcluded
  <2>1. /\ SameStatesBut(rid) /\ rid' = rid /\ pcRecovery' = "receive"
        /\ \/ ctx' = ctx /\ sup' = sup
           \/ /\ ctx[rid].state = "EXCLUDED" /\ ctx'[rid].state = "PROBING"
              /\ \A s \in Sensors \ {rid} : sup'[s] = sup[s]
              /\ sup'[rid].attempts = sup[rid].attempts
              /\ sup'[rid].permanent = sup[rid].permanent
    BY <1>2, RecoveryExcludedStates DEF RecoveryExcluded
  <2>2. CASE ctx' = ctx /\ sup' = sup
    BY <2>1, <2>2 DEF Expiry, Counted
  <2>3. CASE ~(ctx' = ctx /\ sup' = sup)
    <3>1. ~(sup[rid].attempts > 0)
      BY <1>0, <2>1, <2>3 DEF Expiry
    <3>2. ASSUME NEW s \in Sensors
          PROVE  /\ sup'[s].permanent => sup'[s].attempts > 0
                 /\ sup'[s].attempts > 0 => /\ ctx'[s].state \in {"PROBING", "VALIDATING"}
                                            /\ sup'[s].age > RecoveryTimeout
      <4>1. CASE s = rid
        BY <2>1, <2>3, <3>1, <4>1 DEF Expiry
      <4>2. CASE s # rid
        BY <2>1, <2>3, <4>2 DEF Expiry, SameStatesBut
      <4>3. QED
        BY <4>1, <4>2
    <3>3. QED
      BY <2>1, <3>2 DEF Expiry, Counted
  <2>4. QED
    BY <2>2, <2>3
<1>3. CASE RecoveryExpire
  <2> DEFINE n == AtMost(sup[rid].attempts + 1, AttemptsCap)
  <2>1. /\ ctx' = ctx /\ rid' = rid /\ pcRecovery' = "log_timeout"
        /\ ctx[rid].state \in {"PROBING", "VALIDATING"}
        /\ pcRecovery = "dispatch" /\ late
    BY <1>3, RecoveryExpireStates DEF RecoveryExpire
  <2>2. n >= 1
    BY <1>0, CapsType DEF AtMost, AttemptsCap
  <2> HIDE DEF n
  <2>3. sup' = [sup EXCEPT ![rid] = [sup[rid] EXCEPT !.attempts = n]]
    BY <1>3 DEF RecoveryExpire, n
  <2>4. /\ \A s \in Sensors \ {rid} : sup'[s] = sup[s]
        /\ sup'[rid] = [sup[rid] EXCEPT !.attempts = n]
    BY <1>0, <2>3 DEF TypeOK
  <2>5. /\ sup'[rid].attempts = n /\ sup'[rid].age = sup[rid].age
    BY <1>0, <2>4 DEF Supervision
  <2>6. sup[rid].age > RecoveryTimeout
    BY <2>1 DEF Expiry
  <2>7. n > 0
    BY <1>0, CapsType DEF AtMost, AttemptsCap, n
  <2>8. ASSUME NEW s \in Sensors
        PROVE  /\ sup'[s].permanent => sup'[s].attempts > 0
               /\ sup'[s].attempts > 0 => /\ ctx'[s].state \in {"PROBING", "VALIDATING"}
                                          /\ sup'[s].age > RecoveryTimeout
    <3>1. CASE s = rid
      BY <2>1, <2>5, <2>6, <2>7, <3>1
    <3>2. CASE s # rid
      BY <2>1, <2>4, <3>2 DEF Expiry
    <3>3. QED
      BY <3>1, <3>2
  <2>9. QED
    BY <2>1, <2>2, <2>5, <2>8 DEF Expiry, Counted
<1>4. CASE RecoveryDetect
  <2>1. /\ ctx' = ctx /\ sup' = sup /\ rid' = rid /\ pcRecovery' = "evaluate"
        /\ pcRecovery = "dispatch" /\ ~late
    BY <1>4 DEF RecoveryDetect
  <2>2. sup[rid].attempts = 0
    BY <1>0, <2>1 DEF Expiry
  <2>3. QED
    BY <2>1, <2>2 DEF Expiry, Counted
<1>5. CASE RecoveryEvaluate \/ RecoveryStore
  <2>1. /\ sup' = sup /\ rid' = rid /\ SameStatesBut(rid)
        /\ pcRecovery \in {"evaluate", "commit"}
        /\ pcRecovery' \in {"receive", "commit"}
    BY <1>5, RecoveryEvaluateStates, RecoveryStoreStates
    DEF RecoveryEvaluate, RecoveryStore
  <2>2. sup[rid].attempts = 0
    BY <2>1 DEF Expiry
  <2>3. QED
    BY <2>1, <2>2 DEF Expiry, Counted, SameStatesBut
<1>6. CASE RecoverySettle
  <2>1. /\ ctx' = ctx /\ rid' = rid /\ pcRecovery' = "receive"
        /\ \/ sup' = sup
           \/ sup' = [sup EXCEPT ![rid] = Books(sup[rid].age, 0, 0, FALSE)]
    BY <1>6 DEF RecoverySettle
  <2>2. ASSUME NEW s \in Sensors
        PROVE  sup'[s] = sup[s] \/ (sup'[s].attempts = 0 /\ ~sup'[s].permanent)
    BY <2>1 DEF TypeOK, Books
  <2>3. ASSUME NEW s \in Sensors
        PROVE  /\ sup'[s].permanent => sup'[s].attempts > 0
               /\ sup'[s].attempts > 0 => /\ ctx'[s].state \in {"PROBING", "VALIDATING"}
                                          /\ sup'[s].age > RecoveryTimeout
    BY <2>1, <2>2 DEF Expiry
  <2>4. QED
    BY <2>1, <2>3 DEF Expiry, Counted
<1>7. CASE RecoveryLogTimeout
  <2>1. /\ ctx' = ctx /\ rid' = rid /\ pcRecovery' \in {"receive", "log_permanent"}
        /\ pcRecovery = "log_timeout"
    BY <1>7 DEF RecoveryLogTimeout
  <2>2. ASSUME NEW s \in Sensors
        PROVE  /\ sup'[s].attempts = sup[s].attempts /\ sup'[s].age = sup[s].age
               /\ sup'[s].permanent => sup[s].permanent \/ s = rid
    <3>1. CASE sup' = [sup EXCEPT ![rid].permanent = TRUE]
      BY <1>0, <3>1 DEF TypeOK, Supervision
    <3>2. CASE sup' = [sup EXCEPT ![rid].wait = Left(Backoff(sup[rid].attempts), lag)]
      BY <1>0, <3>2 DEF TypeOK, Supervision
    <3>3. QED
      BY <1>7, <3>1, <3>2 DEF RecoveryLogTimeout
  <2>3. sup[rid].attempts > 0
    BY <1>0, <2>1 DEF Expiry, Counted
  <2>4. ASSUME NEW s \in Sensors
        PROVE  /\ sup'[s].permanent => sup'[s].attempts > 0
               /\ sup'[s].attempts > 0 => /\ ctx'[s].state \in {"PROBING", "VALIDATING"}
                                          /\ sup'[s].age > RecoveryTimeout
    BY <2>1, <2>2, <2>3 DEF Expiry
  <2>5. sup'[rid].attempts >= 1
    BY <1>0, <2>1, <2>2 DEF Expiry, Counted
  <2>6. QED
    BY <2>1, <2>4, <2>5 DEF Expiry, Counted
<1>8. CASE RecoveryLogPermanent
  BY <1>8 DEF RecoveryLogPermanent, Expiry, Counted
<1>9. QED
  BY <1>1, <1>2, <1>3, <1>4, <1>5, <1>6, <1>7, <1>8 DEF RecoveryStep

-------------------------------------------------------------------------------
(* The inductive invariant and what follows from it.                         *)

IInv == TypeOK /\ Ownership /\ Expiry

LEMMA IInvInit == Init => IInv
<1> SUFFICES ASSUME Init PROVE Ownership /\ Expiry
  BY TypeInit DEF IInv
<1>1. Ownership
  BY DEF Init, Ownership
<1>2. \A s \in Sensors : sup[s].attempts = 0 /\ ~sup[s].permanent
  BY DEF Init, Books
<1>3. Expiry
  <2>1. pcRecovery = "receive"
    BY DEF Init
  <2>2. QED
    BY <1>2, <2>1 DEF Expiry, Counted
<1>4. QED
  BY <1>1, <1>3

LEMMA IInvNext == IInv /\ [Next]_vars => IInv'
<1> SUFFICES ASSUME IInv, [Next]_vars PROVE IInv'
  OBVIOUS
<1>1. CASE SensorStep \/ LoggerStep
  BY <1>1, TypeSensor, TypeLogger, OwnershipSensor, ExpirySensor DEF IInv
<1>2. CASE FdiReceive \/ FdiStep
  BY <1>2, TypeFdi, OwnershipFdi, ExpiryFdi DEF IInv
<1>3. CASE RecoveryReceive \/ RecoveryStep
  BY <1>3, TypeRecovery, OwnershipRecovery, ExpiryRecovery DEF IInv, Expiry
<1>4. CASE UNCHANGED vars
  <2>1. TypeOK'
    BY <1>4, TypeStutter DEF IInv
  <2>2. Ownership' /\ Expiry'
    BY <1>4 DEF IInv, Ownership, Expiry, Counted, Cur, vars, fdiVars, recoveryVars
  <2>3. QED
    BY <2>1, <2>2 DEF IInv
<1>5. QED
  BY <1>1, <1>2, <1>3, <1>4 DEF Next

\* The inductive invariant holds in every execution of the threads.
THEOREM InvariantHolds == Spec => []IInv
  BY IInvInit, IInvNext, PTL DEF Spec

\* Every variable keeps its type: no timer, streak or index leaves its range.
THEOREM TypeCorrect == Spec => []TypeOK
<1>1. IInv => TypeOK
  BY DEF IInv
<1>2. QED
  BY <1>1, InvariantHolds, PTL

\* FDI and recovery never store the state of one sensor at the same time, for
\* any schedule: the split of the states in evaluate_sensor() is enough, with
\* no lock.
THEOREM NoRaceOnState == Spec => []NoConcurrentWriters
<1>1. IInv => NoConcurrentWriters
  <2> SUFFICES ASSUME IInv, DetectorWrites \cap RecoveryWrites # {} PROVE FALSE
    BY DEF NoConcurrentWriters
  <2>1. Cur = rid /\ Cur \in DetectorWrites /\ rid \in RecoveryWrites
    BY DEF DetectorWrites, RecoveryWrites
  <2>2. ctx[Cur].state \in DetectorOwned
    BY <2>1 DEF DetectorWrites, IInv, Ownership, DetectorOwned
  <2>3. ctx[rid].state \in RecoveryOwned
    BY <2>1 DEF RecoveryWrites, IInv, Ownership, RecoveryOwned
  <2>4. QED
    BY <2>1, <2>2, <2>3 DEF DetectorOwned, RecoveryOwned
<1>2. QED
  BY <1>1, InvariantHolds, PTL

\* A sensor recovery has given up on is never used again.
THEOREM GivenUpIsNeverUsed == Spec => []AbandonedStaysOut
<1>1. IInv => AbandonedStaysOut
  BY DEF IInv, Expiry, AbandonedStaysOut, Usable
<1>2. QED
  BY <1>1, InvariantHolds, PTL

\* While a timed-out probe is on its books a sensor is in PROBING or VALIDATING.
ExpiredIsStuck ==
    \A s \in Sensors : sup[s].attempts > 0 => ctx[s].state \in {"PROBING", "VALIDATING"}

\* A probe that timed out leaves the sensor where it was: neither excluded, nor
\* probed afresh, nor reinstated (the timeout branch of recovery_thread()).
THEOREM TimeoutIsFinal == Spec => []ExpiredIsStuck
<1>1. IInv => ExpiredIsStuck
  BY DEF IInv, Expiry, ExpiredIsStuck
<1>2. QED
  BY <1>1, InvariantHolds, PTL
-------------------------------------------------------------------------------
(* What the timeline shows.                                                  *)

\* FDI has judged s and the logger has not yet taken its event.
Evaluating(s) == Cur = s /\ pcFdi \in {"isolate", "publish", "log"}
Handling(s)   == rid = s /\ pcRecovery # "receive"

\* How far a sensor may be ahead of what was last logged for it.
Reported(s) ==
    /\ last_state[s] = "HEALTHY" =>
          \/ ctx[s].state = "HEALTHY"
          \/ Evaluating(s) /\ ctx[s].state = "SUSPECT"
    /\ last_state[s] = "SUSPECT" =>
          \/ ctx[s].state = "SUSPECT"
          \/ Evaluating(s) /\ \/ ctx[s].state \in {"HEALTHY", "EXCLUDED"}
                              \/ ctx[s].state = "FAULTED" /\ pcFdi = "isolate"
                              \/ ctx[s].state = "PROBING" /\ ~Handling(s)

\* What the event that is about to be logged says.
Announced ==
    pcFdi = "log" =>
       /\ ev.state \in {"HEALTHY", "SUSPECT"} => ctx[Cur].state = ev.state
       /\ last_state[Cur] = "HEALTHY" => ev.state \in {"HEALTHY", "SUSPECT"}
       /\ last_state[Cur] = "SUSPECT" =>
             ev.state \in {"SUSPECT", "HEALTHY", "EXCLUDED", "PROBING"}

Timeline == "fdi_to_logger" \in attached => (\A s \in Sensors : Reported(s)) /\ Announced

LEMMA UpdateStateMoves ==
  ASSUME NEW c \in Context, NEW d \in FaultType
  PROVE  c.state = "HEALTHY" => UpdateState(c, d).state \in {"HEALTHY", "SUSPECT"}
  BY DEF UpdateState, Context, Ctx, FaultType, Definitive

LEMMA FdiUpdateMoves ==
  ASSUME TypeOK, Ownership, FdiUpdate
  PROVE  /\ ctx[Cur].state = "HEALTHY" => ctx'[Cur].state \in {"HEALTHY", "SUSPECT"}
         /\ ctx[Cur].state = "SUSPECT" =>
               \/ ctx'[Cur].state \in {"HEALTHY", "SUSPECT"}
               \/ ctx'[Cur].state = "FAULTED" /\ pcFdi' = "isolate"
<1> DEFINE c == IF before \in {"HEALTHY", "SUSPECT"}
                THEN UpdateState(ctx[Cur], detected) ELSE ctx[Cur]
           d == [c EXCEPT !.last_fault = detected]
<1>1. Cur \in Sensors /\ ctx[Cur] \in Context /\ detected \in FaultType
  BY CurIsSensor DEF TypeOK
<1>2. c \in Context
  BY <1>1, UpdateStateType
<1>3. d.state = c.state
  BY <1>2 DEF Context
<1>4. /\ ctx' = [ctx EXCEPT ![Cur] = d]
      /\ before \in DetectorOwned /\ c.state = "FAULTED" => pcFdi' = "isolate"
  BY <1>1 DEF FdiUpdate
<1>5. /\ ctx[Cur].state = "HEALTHY" => c.state \in {"HEALTHY", "SUSPECT"}
      /\ ctx[Cur].state \in DetectorOwned => c.state \in DetectorOwned
      /\ before \notin {"HEALTHY", "SUSPECT"} => c = ctx[Cur]
  BY <1>1, UpdateStateMoves, UpdateStateStates
<1> HIDE DEF c, d
<1>6. ctx'[Cur] = d
  BY <1>1, <1>4 DEF TypeOK
<1>7. QED
  BY <1>3, <1>4, <1>5, <1>6 DEF DetectorOwned

LEMMA TimelineInit == Init => Timeline
  BY DEF Init, Timeline, Reported, Announced, ContextInit

LEMMA TimelineFdi == IInv /\ Timeline /\ (FdiReceive \/ FdiStep) => Timeline'
<1> SUFFICES ASSUME IInv, Timeline, FdiReceive \/ FdiStep, "fdi_to_logger" \in attached
             PROVE  (\A s \in Sensors : Reported(s)') /\ Announced'
  BY DEF Timeline, FdiReceive, FdiStep, FdiDetect, FdiUpdate, FdiIsolate, FdiPublish, FdiLog,
         FdiSkipRecovery
<1>0. /\ TypeOK /\ Ownership /\ Cur \in Sensors
      /\ \A s \in Sensors : Reported(s)
      /\ Announced
  BY CurIsSensor DEF IInv, Timeline
<1>1. CASE FdiReceive \/ FdiDetect \/ FdiSkipRecovery
  <2>1. /\ ctx' = ctx /\ last_state' = last_state
        /\ pcFdi \notin {"isolate", "publish", "log"} /\ pcFdi' # "log"
    BY <1>1 DEF FdiReceive, FdiDetect, FdiSkipRecovery, NextSensor, loggerVars
  <2>2. QED
    BY <1>0, <2>1 DEF Reported, Announced, Evaluating
<1>2. CASE FdiUpdate
  <2>1. /\ Cur' = Cur /\ last_state' = last_state /\ rid' = rid /\ pcRecovery' = pcRecovery
        /\ pcFdi = "update" /\ pcFdi' \in {"isolate", "publish"}
        /\ SameStatesBut(Cur)
    BY <1>0, <1>2, FdiUpdateStates DEF FdiUpdate, Cur, loggerVars, recoveryVars
  <2>2. ASSUME NEW s \in Sensors, s # Cur PROVE Reported(s)'
    BY <1>0, <2>1, <2>2 DEF Reported, Evaluating, SameStatesBut
  <2>3. Reported(Cur)'
    BY <1>0, <1>2, <2>1, FdiUpdateMoves DEF Reported, Evaluating
  <2>4. QED
    BY <2>1, <2>2, <2>3 DEF Announced
<1>3. CASE FdiIsolate
  <2>1. /\ Cur' = Cur /\ last_state' = last_state /\ pcFdi = "isolate" /\ pcFdi' = "publish"
        /\ SameStatesBut(Cur) /\ ctx[Cur].state = "FAULTED" /\ ctx'[Cur].state = "EXCLUDED"
    BY <1>0, <1>3, FdiIsolateStates DEF FdiIsolate, Cur, loggerVars
  <2>2. ASSUME NEW s \in Sensors, s # Cur PROVE Reported(s)'
    BY <1>0, <2>1, <2>2 DEF Reported, Evaluating, SameStatesBut
  <2>3. Reported(Cur)'
    BY <1>0, <2>1 DEF Reported, Evaluating
  <2>4. QED
    BY <2>1, <2>2, <2>3 DEF Announced
<1>4. CASE FdiPublish
  <2>1. /\ Cur' = Cur /\ last_state' = last_state /\ pcFdi = "publish" /\ pcFdi' = "log"
        /\ ctx' = ctx /\ rid' = rid /\ pcRecovery' = pcRecovery
        /\ ev'.state = ctx[Cur].state
    BY <1>4 DEF FdiPublish, Cur, loggerVars, recoveryVars
  <2>2. \A s \in Sensors : Reported(s)'
    BY <1>0, <2>1 DEF Reported, Evaluating, Handling
  <2>3. Announced'
    BY <1>0, <2>1 DEF Announced, Reported
  <2>4. QED
    BY <2>2, <2>3
<1>5. CASE FdiLog
  <2>1. /\ Cur' = Cur /\ pcFdi = "log" /\ pcFdi' = "wake" /\ ctx' = ctx
        /\ last_state' = [last_state EXCEPT ![Cur] = ev.state]
    BY <1>5 DEF FdiLog, LogEvent, Cur
  <2>2. ASSUME NEW s \in Sensors, s # Cur PROVE Reported(s)'
    BY <1>0, <2>1, <2>2 DEF Reported, Evaluating, TypeOK
  <2>3. Reported(Cur)'
    BY <1>0, <2>1 DEF Reported, Announced, TypeOK
  <2>4. QED
    BY <2>1, <2>2, <2>3 DEF Announced
<1>6. QED
  BY <1>1, <1>2, <1>3, <1>4, <1>5 DEF FdiStep

\* What recovery logs is of a probe that has timed out.
LEMMA RecoveryLogs ==
  ASSUME IInv, RecoveryLogTimeout \/ RecoveryLogPermanent
  PROVE  \/ last_state' = last_state
         \/ /\ last_state' = [last_state EXCEPT ![rid] = ctx[rid].state]
            /\ ctx[rid].state \in {"PROBING", "VALIDATING"} /\ Handling(rid)
<1>1. pcRecovery \in {"log_timeout", "log_permanent"} /\ LogRecoveryEvent
  BY DEF RecoveryLogTimeout, RecoveryLogPermanent
<1>2. rid \in Sensors /\ sup[rid].attempts >= 1 /\ sup[rid].attempts \in Nat
  BY <1>1, CapsType DEF IInv, Expiry, Counted, TypeOK, Supervision
<1>3. ctx[rid].state \in {"PROBING", "VALIDATING"}
  BY <1>2 DEF IInv, Expiry
<1>4. QED
  BY <1>1, <1>3 DEF LogRecoveryEvent, LogEvent, Handling

LEMMA TimelineRecovery == IInv /\ Timeline /\ (RecoveryReceive \/ RecoveryStep) => Timeline'
<1> SUFFICES ASSUME IInv, Timeline, RecoveryReceive \/ RecoveryStep,
                    "fdi_to_logger" \in attached
             PROVE  (\A s \in Sensors : Reported(s)') /\ Announced'
  BY DEF Timeline, RecoveryReceive, RecoveryStep, RecoveryExcluded, RecoveryExpire,
         RecoveryDetect, RecoveryEvaluate, RecoveryStore, RecoverySettle,
         RecoveryLogTimeout, RecoveryLogPermanent
<1>0. /\ TypeOK /\ Ownership /\ Cur \in Sensors /\ rid \in Sensors
      /\ \A s \in Sensors : Reported(s)
      /\ Announced
  BY CurIsSensor DEF IInv, Timeline, TypeOK
<1>1. CASE RecoveryReceive
  <2>1. /\ ctx' = ctx /\ last_state' = last_state /\ pcFdi = "wake" /\ pcFdi' # "log"
    BY <1>1 DEF RecoveryReceive, NextSensor, loggerVars
  <2>2. QED
    BY <1>0, <2>1 DEF Reported, Announced, Evaluating
<1>2. ASSUME RecoveryStep
      PROVE  /\ Cur' = Cur /\ rid' = rid /\ pcFdi' = pcFdi /\ ev' = ev
             /\ pcRecovery # "receive"
  BY <1>2 DEF RecoveryStep, RecoveryExcluded, RecoveryExpire, RecoveryDetect,
        RecoveryEvaluate, RecoveryStore, RecoverySettle, RecoveryLogTimeout,
        RecoveryLogPermanent, fdiVars, Cur
<1>3. CASE RecoveryExcluded \/ RecoveryEvaluate \/ RecoveryStore
  <2>1. /\ SameStatesBut(rid) /\ last_state' = last_state
        /\ Cur' = Cur /\ rid' = rid /\ pcFdi' = pcFdi /\ ev' = ev /\ pcRecovery # "receive"
    BY <1>0, <1>2, <1>3, RecoveryExcludedStates, RecoveryEvaluateStates, RecoveryStoreStates
    DEF RecoveryStep, RecoveryExcluded, RecoveryEvaluate, RecoveryStore, loggerVars
  <2>2. ASSUME NEW s \in Sensors, s # rid PROVE Reported(s)'
    BY <1>0, <2>1, <2>2 DEF Reported, Evaluating, Handling, SameStatesBut
  <2>3. \/ ctx'[rid].state = ctx[rid].state
        \/ ctx[rid].state \in {"PROBING", "VALIDATING"}
        \/ ctx[rid].state = "EXCLUDED" /\ ctx'[rid].state = "PROBING" /\ pcRecovery' = "receive"
    <3>1. CASE RecoveryExcluded
      BY <1>0, <3>1, RecoveryExcludedStates DEF RecoveryExcluded
    <3>2. CASE RecoveryEvaluate
      BY <1>0, <3>2, RecoveryEvaluateStates
    <3>3. CASE RecoveryStore
      BY <1>0, <3>3, RecoveryStoreStates DEF RecoveryStore, Ownership
    <3>4. QED
      BY <1>3, <3>1, <3>2, <3>3
  <2>4. Reported(rid)'
    BY <1>0, <2>1, <2>3 DEF Reported, Evaluating, Handling
  <2>5. Announced'
    BY <1>0, <2>1, <2>3 DEF Announced, SameStatesBut
  <2>6. QED
    BY <2>1, <2>2, <2>4, <2>5
<1>4. CASE RecoveryExpire \/ RecoveryDetect \/ RecoverySettle
  <2>1. /\ ctx' = ctx /\ last_state' = last_state
        /\ Cur' = Cur /\ rid' = rid /\ pcFdi' = pcFdi /\ ev' = ev /\ pcRecovery # "receive"
    BY <1>0, <1>2, <1>4, RecoveryExpireStates
    DEF RecoveryStep, RecoveryExpire, RecoveryDetect, RecoverySettle, loggerVars
  <2>2. QED
    BY <1>0, <2>1 DEF Reported, Announced, Evaluating, Handling
<1>5. CASE RecoveryLogTimeout \/ RecoveryLogPermanent
  <2>1. /\ ctx' = ctx /\ Cur' = Cur /\ rid' = rid /\ pcFdi' = pcFdi /\ ev' = ev
        /\ pcRecovery # "receive"
    BY <1>2, <1>5 DEF RecoveryStep, RecoveryLogTimeout, RecoveryLogPermanent
  <2>2. CASE last_state' = last_state
    BY <1>0, <2>1, <2>2 DEF Reported, Announced, Evaluating, Handling
  <2>3. CASE /\ last_state' = [last_state EXCEPT ![rid] = ctx[rid].state]
             /\ ctx[rid].state \in {"PROBING", "VALIDATING"} /\ Handling(rid)
    <3>1. /\ last_state'[rid] \notin {"HEALTHY", "SUSPECT"}
          /\ \A s \in Sensors \ {rid} : last_state'[s] = last_state[s]
      BY <1>0, <2>3 DEF TypeOK
    <3>2. QED
      BY <1>0, <2>1, <3>1 DEF Reported, Announced, Evaluating, Handling
  <2>4. QED
    BY <1>5, <2>2, <2>3, RecoveryLogs
<1>6. QED
  BY <1>1, <1>3, <1>4, <1>5 DEF RecoveryStep

LEMMA TimelineNext == IInv /\ Timeline /\ [Next]_vars => Timeline'
<1> SUFFICES ASSUME IInv, Timeline, [Next]_vars PROVE Timeline'
  OBVIOUS
<1>1. CASE SensorStep \/ LoggerStep \/ UNCHANGED vars
  BY <1>1 DEF Timeline, Reported, Announced, Evaluating, Handling, Cur, SensorStep,
        SensorUnattended, FuseSkip, FuseAdmit, FuseWeigh, LoggerStep, LoggerOpen,
        LoggerOpenFails, vars, fdiVars, recoveryVars, loggerVars
<1>2. QED
  BY <1>1, TimelineFdi, TimelineRecovery DEF Next

\* What a step may log.
LEMMA NextLogs ==
  ASSUME IInv, Timeline, [Next]_vars, "fdi_to_logger" \in attached, NEW s \in Sensors
  PROVE  /\ last_state[s] = "HEALTHY" => last_state'[s] \in {"HEALTHY", "SUSPECT"}
         /\ last_state[s] = "SUSPECT" =>
               last_state'[s] \in {"SUSPECT", "HEALTHY", "EXCLUDED", "PROBING"}
<1>1. TypeOK /\ Reported(s) /\ Announced
  BY DEF IInv, Timeline
<1>2. CASE FdiLog
  <2>1. last_state' = [last_state EXCEPT ![Cur] = ev.state] /\ pcFdi = "log"
    BY <1>2 DEF FdiLog, LogEvent
  <2>2. QED
    BY <1>1, <2>1 DEF Announced, TypeOK
<1>3. CASE RecoveryLogTimeout \/ RecoveryLogPermanent
  <2>1. \/ last_state' = last_state
        \/ /\ last_state' = [last_state EXCEPT ![rid] = ctx[rid].state]
           /\ ctx[rid].state \in {"PROBING", "VALIDATING"} /\ Handling(rid)
    BY <1>3, RecoveryLogs
  <2>2. QED
    BY <1>1, <2>1 DEF Reported, TypeOK
<1>4. CASE ~(FdiLog \/ RecoveryLogTimeout \/ RecoveryLogPermanent)
  <2>1. last_state' = last_state
    BY <1>4 DEF Next, SensorStep, SensorUnattended, FuseSkip, FuseAdmit, FuseWeigh, FdiReceive,
          FdiStep, FdiDetect, FdiUpdate, FdiIsolate, FdiPublish, FdiSkipRecovery,
          RecoveryReceive, RecoveryStep, RecoveryExcluded, RecoveryExpire, RecoveryDetect,
          RecoveryEvaluate, RecoveryStore, RecoverySettle, LoggerStep, LoggerOpen,
          LoggerOpenFails, vars, loggerVars
  <2>2. QED
    BY <2>1
<1>5. QED
  BY <1>2, <1>3, <1>4

\* Only a reinstatement brings a sensor back into use, at the end of its validation and
\* while recovery handles an event of it.
LEMMA NextReinstates ==
  ASSUME IInv, [Next]_vars, NEW s \in Sensors,
         ctx[s].state \notin Usable, ctx'[s].state \in Usable
  PROVE  ctx[s].state = "VALIDATING" /\ Handling(s)
<1>1. TypeOK /\ Ownership /\ Cur \in Sensors /\ rid \in Sensors
  BY CurIsSensor DEF IInv, TypeOK
<1>2. ctx' # ctx
  OBVIOUS
<1>3. CASE FdiStep
  <2>1. FdiUpdate \/ FdiIsolate
    BY <1>2, <1>3 DEF FdiStep, FdiDetect, FdiPublish, FdiLog, FdiSkipRecovery
  <2>2. CASE FdiUpdate
    <3>1. /\ SameStatesBut(Cur)
          /\ before \notin {"HEALTHY", "SUSPECT"} => ctx'[Cur].state = ctx[Cur].state
      BY <1>1, <2>2, FdiUpdateStates
    <3>2. before \in {"HEALTHY", "SUSPECT"} => ctx[Cur].state \in Usable
      BY <1>1, <2>2 DEF Ownership, FdiUpdate, DetectorOwned, Usable
    <3>3. QED
      BY <3>1, <3>2 DEF SameStatesBut
  <2>3. CASE FdiIsolate
    BY <1>1, <2>3, FdiIsolateStates DEF SameStatesBut, Usable
  <2>4. QED
    BY <2>1, <2>2, <2>3
<1>4. CASE RecoveryStep
  <2>1. RecoveryExcluded \/ RecoveryEvaluate \/ RecoveryStore
    BY <1>1, <1>2, <1>4, RecoveryExpireStates
    DEF RecoveryStep, RecoveryDetect, RecoverySettle, RecoveryLogTimeout, RecoveryLogPermanent
  <2>2. CASE RecoveryExcluded
    BY <1>1, <1>2, <2>2, RecoveryExcludedStates DEF SameStatesBut, Usable
  <2>3. CASE RecoveryEvaluate
    BY <1>1, <2>3, RecoveryEvaluateStates DEF SameStatesBut, Usable
  <2>4. CASE RecoveryStore
    BY <1>1, <2>4, RecoveryStoreStates
    DEF SameStatesBut, Ownership, RecoveryStore, Handling
  <2>5. QED
    BY <2>1, <2>2, <2>3, <2>4
<1>5. CASE SensorStep \/ FdiReceive \/ RecoveryReceive \/ LoggerStep \/ UNCHANGED vars
  BY <1>2, <1>5 DEF SensorStep, SensorUnattended, FuseSkip, FuseAdmit, FuseWeigh, FdiReceive,
        RecoveryReceive, LoggerStep, LoggerOpen, LoggerOpenFails, vars
<1>6. QED
  BY <1>3, <1>4, <1>5 DEF Next

\* No sensor leaves use before its suspicion is in the timeline, nor returns to use before
\* the timeline showed it out of use, whichever of two threads' events the logger takes
\* first, as long as FDI is connected to it.
THEOREM TimelineShowsExclusions == Spec => ExclusionsAreLogged
<1> DEFINE Logged == \A s \in Sensors : "fdi_to_logger" \in attached =>
              /\ last_state[s] = "HEALTHY" => last_state'[s] \in {"HEALTHY", "SUSPECT"}
              /\ ctx[s].state \notin Usable /\ ctx'[s].state \in Usable =>
                    last_state[s] \notin Usable
<1>1. IInv /\ Timeline /\ [Next]_vars => [Logged]_<<ctx, last_state>>
  <2> SUFFICES ASSUME IInv, Timeline, [Next]_vars, "fdi_to_logger" \in attached,
                      NEW s \in Sensors
               PROVE  /\ last_state[s] = "HEALTHY" => last_state'[s] \in {"HEALTHY", "SUSPECT"}
                      /\ ctx[s].state \notin Usable /\ ctx'[s].state \in Usable =>
                            last_state[s] \notin Usable
    OBVIOUS
  <2>1. last_state[s] = "HEALTHY" => last_state'[s] \in {"HEALTHY", "SUSPECT"}
    BY NextLogs
  <2>2. ASSUME ctx[s].state \notin Usable, ctx'[s].state \in Usable
        PROVE  last_state[s] \notin Usable
    <3>1. ctx[s].state = "VALIDATING" /\ Handling(s)
      BY <2>2, NextReinstates
    <3>2. Reported(s)
      BY DEF Timeline
    <3>3. QED
      BY <3>1, <3>2 DEF Reported, Usable
  <2>3. QED
    BY <2>1, <2>2
<1>2. Spec => []Timeline
  BY TimelineInit, TimelineNext, InvariantHolds, PTL DEF Spec
<1>3. QED
  BY <1>1, <1>2, InvariantHolds, PTL DEF Spec, ExclusionsAreLogged

-------------------------------------------------------------------------------
(* How long a condemned sensor may stay in the distance.                     *)

\* FDI is done with s in this cycle, or has judged it at least.
Passed(s) == pcFdi = "receive" \/ \E i \in 1..(idx - 1) : Order[i] = s
Judged(s) == Passed(s) \/ (Cur = s /\ pcFdi \in {"isolate", "publish", "log", "wake"})

\* A sensor is in the distance though it may not be used.
Lingers(s) == Fused(s) /\ ctx[s].state \notin Usable

\* It was condemned in this very cycle, and has had no time since for more than one
\* event of recovery, an event of an earlier cycle not counted: that one can only
\* start the probe.
Lingering ==
    \A s \in Sensors : Lingers(s) =>
       /\ Judged(s)
       /\ sup[s].attempts <= 1
       /\ sup[s].attempts = 1 => Passed(s) /\ ~(rid = s /\ pcRecovery = "dispatch")
       /\ ctx[s].state \in {"PROBING", "VALIDATING"} /\ ~Passed(s) =>
             ~(rid = s /\ pcRecovery # "receive")

\* The latch is set only after as many attempts as it asks for.
Latched == \A s \in Sensors : sup[s].permanent => sup[s].attempts >= RecoveryMaxAttempts

LEMMA LingeringInit == Init => Lingering /\ Latched
<1> SUFFICES ASSUME Init PROVE Lingering /\ Latched
  OBVIOUS
<1>1. \A s \in Sensors : ~sup[s].permanent /\ ctx[s].state = "HEALTHY"
  BY DEF Init, Books, ContextInit
<1>2. QED
  BY <1>1 DEF Lingering, Lingers, Latched, Usable

\* Only a sensor that is usable is admitted to the distance.
LEMMA LingeringSensor ==
  TypeOK /\ Lingering /\ (SensorStep \/ LoggerStep \/ FdiReceive) => Lingering'
<1> SUFFICES ASSUME TypeOK, Lingering, SensorStep \/ LoggerStep \/ FdiReceive,
                    NEW s \in Sensors, Lingers(s)'
             PROVE  /\ Judged(s)'
                    /\ sup'[s].attempts <= 1
                    /\ sup'[s].attempts = 1 =>
                          Passed(s)' /\ ~(rid' = s /\ pcRecovery' = "dispatch")
                    /\ ctx'[s].state \in {"PROBING", "VALIDATING"} /\ ~Passed(s)' =>
                          ~(rid' = s /\ pcRecovery' # "receive")
  BY DEF Lingering
<1>1. CASE SensorUnattended \/ FdiReceive
  <2>1. contrib'[s] = "absent" /\ pcSensor' # "weigh"
    BY <1>1 DEF SensorUnattended, FdiReceive, StartFusion
  <2>2. QED
    BY <2>1 DEF Lingers, Fused
<1>2. CASE FuseSkip \/ FuseAdmit \/ FuseWeigh \/ LoggerStep
  <2>1. UNCHANGED <<ctx, sup, pcFdi, idx, rid, pcRecovery>>
    BY <1>2 DEF FuseSkip, FuseAdmit, FuseWeigh, LoggerStep, LoggerOpen, LoggerOpenFails,
               fdiVars, recoveryVars
  <2>2. Fused(s)
    <3>1. CASE FuseSkip
      BY <3>1 DEF FuseSkip, NextSlot, Lingers, Fused
    <3>2. CASE FuseAdmit
      <4>1. contrib' = contrib /\ slot' = slot /\ ctx' = ctx
            /\ ctx[Ranger[slot]].state \in Usable
        BY <3>2 DEF FuseAdmit
      <4>2. QED
        BY <4>1 DEF Lingers, Fused
    <3>3. CASE FuseWeigh
      <4>1. pcSensor = "weigh" /\ pcSensor' # "weigh"
            /\ (s # Ranger[slot] => contrib'[s] = contrib[s])
        BY <3>3 DEF FuseWeigh, NextSlot, TypeOK
      <4>2. QED
        BY <4>1 DEF Lingers, Fused
    <3>4. CASE LoggerStep
      BY <3>4 DEF LoggerStep, LoggerOpen, LoggerOpenFails, sensorVars, Lingers, Fused
    <3>5. QED
      BY <1>2, <3>1, <3>2, <3>3, <3>4
  <2>3. Lingers(s) /\ (Judged(s)' <=> Judged(s)) /\ (Passed(s)' <=> Passed(s))
    BY <2>1, <2>2 DEF Lingers, Judged, Passed, Cur
  <2>4. QED
    BY <2>1, <2>3 DEF Lingering
<1>3. QED
  BY <1>1, <1>2 DEF SensorStep

\* While FDI has s before it, s is not behind it.
LEMMA CurNotPassed ==
  ASSUME TypeOK, pcFdi # "receive"
  PROVE  ~Passed(Cur)
<1> SUFFICES ASSUME NEW i \in 1..(idx - 1), Order[i] = Order[idx] PROVE FALSE
  BY DEF Passed, Cur
<1>1. i \in 1..SensorCount /\ idx \in 1..SensorCount /\ i # idx
  BY DEF TypeOK
<1>2. QED
  BY <1>1

LEMMA NextSensorPasses ==
  ASSUME TypeOK, NextSensor, pcFdi = "wake"
  PROVE  \A s \in Sensors : Judged(s) => Passed(s)'
<1> SUFFICES ASSUME NEW s \in Sensors, Judged(s) PROVE Passed(s)'
  OBVIOUS
<1>1. idx \in 1..SensorCount
  BY DEF TypeOK
<1>2. CASE ~(idx < SensorCount)
  BY <1>2 DEF NextSensor, Passed
<1>3. CASE idx < SensorCount
  <2>1. idx' = idx + 1 /\ pcFdi' = "detect"
    BY <1>3 DEF NextSensor
  <2>2. PICK i \in 1..idx : Order[i] = s
    BY <1>1 DEF Judged, Passed, Cur
  <2>3. i \in 1..(idx' - 1)
    BY <1>1, <2>1, <2>2
  <2>4. QED
    BY <2>2, <2>3 DEF Passed
<1>4. QED
  BY <1>2, <1>3

LEMMA LingeringFdi == IInv /\ Lingering /\ FdiStep => Lingering'
<1> SUFFICES ASSUME IInv, Lingering, FdiStep, NEW s \in Sensors, Lingers(s)'
             PROVE  /\ Judged(s)'
                    /\ sup'[s].attempts <= 1
                    /\ sup'[s].attempts = 1 =>
                          Passed(s)' /\ ~(rid' = s /\ pcRecovery' = "dispatch")
                    /\ ctx'[s].state \in {"PROBING", "VALIDATING"} /\ ~Passed(s)' =>
                          ~(rid' = s /\ pcRecovery' # "receive")
  BY DEF Lingering
<1>0. /\ TypeOK /\ Ownership /\ Expiry /\ Cur \in Sensors
      /\ sup' = sup /\ rid' = rid /\ pcRecovery' = pcRecovery
      /\ Fused(s) /\ sup[s].attempts \in Nat
  <2>1. TypeOK /\ Ownership /\ Expiry
    BY DEF IInv
  <2>2. sup' = sup /\ rid' = rid /\ pcRecovery' = pcRecovery /\ UNCHANGED sensorVars
    BY DEF FdiStep, FdiDetect, FdiUpdate, FdiIsolate, FdiPublish, FdiLog, FdiSkipRecovery,
           recoveryVars
  <2>3. sup[s].attempts \in Nat
    BY <2>1, CapsType DEF TypeOK, Supervision
  <2>4. QED
    BY <2>1, <2>2, <2>3, CurIsSensor DEF Lingers, Fused, sensorVars
<1>1. ASSUME pcFdi # "receive", pcFdi' # "receive", idx' = idx
      PROVE  Passed(s)' <=> Passed(s)
  BY <1>1 DEF Passed
<1>2. CASE FdiDetect \/ FdiPublish \/ FdiLog
  <2>1. /\ ctx' = ctx /\ idx' = idx /\ Cur' = Cur
        /\ \/ pcFdi = "detect" /\ pcFdi' = "update"
           \/ pcFdi = "publish" /\ pcFdi' = "log"
           \/ pcFdi = "log" /\ pcFdi' = "wake"
    BY <1>2 DEF FdiDetect, FdiPublish, FdiLog, Cur
  <2>2. Lingers(s)
    BY <1>0, <2>1 DEF Lingers
  <2>3. Judged(s)' <=> Judged(s)
    BY <1>1, <2>1 DEF Judged
  <2>4. QED
    BY <1>0, <1>1, <2>1, <2>2, <2>3 DEF Lingering
<1>3. CASE FdiUpdate \/ FdiIsolate
  <2>1. /\ idx' = idx /\ Cur' = Cur /\ SameStatesBut(Cur)
        /\ pcFdi \in {"update", "isolate"} /\ pcFdi' \in {"isolate", "publish"}
    BY <1>0, <1>3, FdiUpdateStates, FdiIsolateStates DEF FdiUpdate, FdiIsolate, Cur
  <2>2. ~Passed(Cur) /\ (Passed(s)' <=> Passed(s))
    BY <1>0, <1>1, <2>1, CurNotPassed
  <2>3. CASE s = Cur
    <3>1. ctx[s].state \in DetectorOwned /\ ctx'[s].state \notin {"PROBING", "VALIDATING"}
      <4>1. CASE FdiUpdate
        <5>1. ctx[s].state \in Usable
          <6>1. pcFdi = "update"
            BY <4>1 DEF FdiUpdate
          <6>2. ~Judged(s)
            BY <2>2, <2>3, <6>1 DEF Judged
          <6>3. QED
            BY <1>0, <6>2 DEF Lingering, Lingers
        <5>2. ctx'[s].state \notin Usable
          BY DEF Lingers
        <5>3. QED
          BY <1>0, <2>3, <4>1, <5>1, <5>2, FdiUpdateStates DEF DetectorOwned
      <4>2. CASE FdiIsolate
        BY <1>0, <2>3, <4>2, FdiIsolateStates DEF DetectorOwned
      <4>3. QED
        BY <1>3, <4>1, <4>2
    <3>2. sup[s].attempts = 0
      BY <1>0, <3>1 DEF Expiry, DetectorOwned
    <3>3. Judged(s)'
      BY <2>1, <2>3 DEF Judged
    <3>4. QED
      BY <1>0, <3>1, <3>2, <3>3
  <2>4. CASE s # Cur
    <3>1. ctx'[s].state = ctx[s].state /\ Lingers(s)
      BY <1>0, <2>1, <2>4 DEF SameStatesBut, Lingers
    <3>2. Passed(s) /\ Passed(s)'
      BY <2>2, <2>4, <3>1 DEF Lingering, Judged
    <3>3. Judged(s)'
      BY <3>2 DEF Judged
    <3>4. QED
      BY <1>0, <3>1, <3>2, <3>3 DEF Lingering
  <2>5. QED
    BY <2>3, <2>4
<1>4. CASE FdiSkipRecovery
  <2>1. pcFdi = "wake" /\ ctx' = ctx /\ NextSensor
    BY <1>4 DEF FdiSkipRecovery
  <2>2. Lingers(s)
    BY <1>0, <2>1 DEF Lingers
  <2>3. Passed(s)' /\ Judged(s)'
    <3>1. Passed(s)'
      BY <1>0, <2>1, <2>2, NextSensorPasses DEF Lingering
    <3>2. QED
      BY <3>1 DEF Judged
  <2>4. QED
    BY <1>0, <2>2, <2>3 DEF Lingering
<1>5. QED
  BY <1>2, <1>3, <1>4 DEF FdiStep

\* Recovery hears of a sensor before FDI is done with it.
LEMMA LingeringReceive == IInv /\ Lingering /\ RecoveryReceive => Lingering'
<1> SUFFICES ASSUME IInv, Lingering, RecoveryReceive, NEW s \in Sensors, Lingers(s)'
             PROVE  /\ Judged(s)'
                    /\ sup'[s].attempts <= 1
                    /\ sup'[s].attempts = 1 =>
                          Passed(s)' /\ ~(rid' = s /\ pcRecovery' = "dispatch")
                    /\ ctx'[s].state \in {"PROBING", "VALIDATING"} /\ ~Passed(s)' =>
                          ~(rid' = s /\ pcRecovery' # "receive")
  BY DEF Lingering
<1>1. /\ ctx' = ctx /\ sup' = sup /\ UNCHANGED sensorVars
      /\ rid' = Cur /\ NextSensor /\ pcFdi = "wake"
  BY DEF RecoveryReceive
<1>2. TypeOK /\ Lingers(s)
  BY <1>1 DEF IInv, Lingers, Fused, sensorVars
<1>3. Passed(s)'
  BY <1>1, <1>2, NextSensorPasses DEF Lingering
<1>4. ~Passed(Cur)
  BY <1>1, <1>2, CurNotPassed
<1>5. QED
  BY <1>1, <1>2, <1>3, <1>4 DEF Lingering, Judged

\* What a step of recovery may do to the sensor it handles.
LEMMA RecoveryStepMoves ==
  ASSUME IInv, RecoveryStep
  PROVE  /\ UNCHANGED <<rid, fdiVars, sensorVars>>
         /\ pcRecovery # "receive" /\ pcRecovery' # "dispatch"
         /\ SameStatesBut(rid)
         /\ ctx'[rid].state \notin Usable => ctx[rid].state \notin Usable
         /\ pcRecovery' # "receive" /\ ctx'[rid].state \in {"PROBING", "VALIDATING"} =>
               ctx[rid].state \in {"PROBING", "VALIDATING"}
<1>1. TypeOK /\ Ownership
  BY DEF IInv
<1>2. UNCHANGED <<rid, fdiVars, sensorVars>> /\ pcRecovery # "receive"
      /\ pcRecovery' # "dispatch"
  BY DEF RecoveryStep, RecoveryExcluded, RecoveryExpire, RecoveryDetect, RecoveryEvaluate,
         RecoveryStore, RecoverySettle, RecoveryLogTimeout, RecoveryLogPermanent
<1>3. CASE RecoveryExcluded
  <2>1. pcRecovery' = "receive"
    BY <1>3 DEF RecoveryExcluded
  <2>2. QED
    BY <1>1, <1>2, <1>3, <2>1, RecoveryExcludedStates DEF Usable, SameStatesBut
<1>4. CASE RecoveryEvaluate
  BY <1>1, <1>2, <1>4, RecoveryEvaluateStates DEF Usable, SameStatesBut
<1>5. CASE RecoveryStore
  BY <1>1, <1>2, <1>5, RecoveryStoreStates DEF Usable, SameStatesBut
<1>6. CASE ~(RecoveryExcluded \/ RecoveryEvaluate \/ RecoveryStore)
  <2>1. ctx' = ctx
    BY <1>1, <1>6, RecoveryExpireStates
    DEF RecoveryStep, RecoveryDetect, RecoverySettle, RecoveryLogTimeout, RecoveryLogPermanent
  <2>2. QED
    BY <1>2, <2>1 DEF SameStatesBut
<1>7. QED
  BY <1>3, <1>4, <1>5, <1>6

\* And to its books: only a timeout adds to the attempts.
LEMMA RecoveryStepCounts ==
  ASSUME IInv, RecoveryStep
  PROVE  /\ \A s \in Sensors \ {rid} : sup'[s].attempts = sup[s].attempts
                                      /\ sup'[s].permanent = sup[s].permanent
         /\ \/ /\ RecoveryExpire /\ sup'[rid].attempts = AtMost(sup[rid].attempts + 1, AttemptsCap)
               /\ sup'[rid].permanent = sup[rid].permanent
            \/ /\ ~RecoveryExpire /\ sup'[rid].attempts = sup[rid].attempts
               /\ sup'[rid].permanent =>
                     sup[rid].permanent \/ sup[rid].attempts >= RecoveryMaxAttempts
            \/ ~RecoveryExpire /\ sup'[rid].attempts = 0 /\ ~sup'[rid].permanent
<1>1. TypeOK /\ rid \in Sensors /\ sup[rid] \in Supervision
  BY DEF IInv, TypeOK
<1>2. CASE RecoveryExcluded
  <2>1. ~RecoveryExpire
    BY <1>2 DEF RecoveryExcluded, RecoveryExpire
  <2>2. QED
    BY <1>1, <1>2, <2>1, RecoveryExcludedStates
<1>3. CASE RecoveryExpire
  <2> DEFINE n == AtMost(sup[rid].attempts + 1, AttemptsCap)
  <2>1. sup' = [sup EXCEPT ![rid] = [sup[rid] EXCEPT !.attempts = n]]
    BY <1>3 DEF RecoveryExpire
  <2> HIDE DEF n
  <2>2. /\ \A s \in Sensors \ {rid} : sup'[s] = sup[s]
        /\ sup'[rid] = [sup[rid] EXCEPT !.attempts = n]
    BY <1>1, <2>1 DEF TypeOK
  <2>3. sup'[rid].attempts = n /\ sup'[rid].permanent = sup[rid].permanent
    BY <1>1, <2>2 DEF Supervision
  <2>4. QED
    BY <1>3, <2>2, <2>3 DEF n
<1>4. CASE RecoverySettle
  <2>1. \/ sup' = sup
        \/ sup' = [sup EXCEPT ![rid] = Books(sup[rid].age, 0, 0, FALSE)]
    BY <1>4 DEF RecoverySettle
  <2>2. ~RecoveryExpire
    BY <1>4 DEF RecoverySettle, RecoveryExpire
  <2>3. QED
    BY <1>1, <2>1, <2>2 DEF TypeOK, Books
<1>5. CASE RecoveryLogTimeout
  <2>1. ~RecoveryExpire
    BY <1>5 DEF RecoveryLogTimeout, RecoveryExpire
  <2>2. CASE /\ sup[rid].attempts >= RecoveryMaxAttempts
             /\ sup' = [sup EXCEPT ![rid].permanent = TRUE]
    <3>1. /\ \A s \in Sensors \ {rid} : sup'[s] = sup[s]
          /\ sup'[rid].attempts = sup[rid].attempts
      BY <1>1, <2>2 DEF TypeOK, Supervision
    <3>2. QED
      BY <2>1, <2>2, <3>1
  <2>3. CASE sup' = [sup EXCEPT ![rid].wait = Left(Backoff(sup[rid].attempts), lag)]
    <3>1. /\ \A s \in Sensors \ {rid} : sup'[s] = sup[s]
          /\ sup'[rid].attempts = sup[rid].attempts
          /\ sup'[rid].permanent = sup[rid].permanent
      BY <1>1, <2>3 DEF TypeOK, Supervision
    <3>2. QED
      BY <2>1, <3>1
  <2>4. QED
    BY <1>5, <2>2, <2>3 DEF RecoveryLogTimeout
<1>6. CASE RecoveryDetect \/ RecoveryEvaluate \/ RecoveryStore \/ RecoveryLogPermanent
  BY <1>6 DEF RecoveryDetect, RecoveryEvaluate, RecoveryStore, RecoveryLogPermanent,
             RecoveryExpire
<1>7. QED
  BY <1>2, <1>3, <1>4, <1>5, <1>6 DEF RecoveryStep

\* Recovery is never late with a sensor of the distance twice.
LEMMA LingeringRecovery == IInv /\ Lingering /\ RecoveryStep => Lingering'
<1> SUFFICES ASSUME IInv, Lingering, RecoveryStep, NEW s \in Sensors, Lingers(s)'
             PROVE  /\ Judged(s)'
                    /\ sup'[s].attempts <= 1
                    /\ sup'[s].attempts = 1 =>
                          Passed(s)' /\ ~(rid' = s /\ pcRecovery' = "dispatch")
                    /\ ctx'[s].state \in {"PROBING", "VALIDATING"} /\ ~Passed(s)' =>
                          ~(rid' = s /\ pcRecovery' # "receive")
  BY DEF Lingering
<1>1. /\ TypeOK /\ Ownership /\ Expiry
      /\ \A r \in Sensors : sup[r].attempts \in Nat
  <2>1. TypeOK /\ Ownership /\ Expiry
    BY DEF IInv
  <2>2. \A r \in Sensors : sup[r].attempts \in 0..AttemptsCap
    BY <2>1 DEF TypeOK, Supervision
  <2>3. QED
    BY <2>1, <2>2, CapsType
<1>2. /\ rid' = rid /\ pcRecovery # "receive" /\ pcRecovery' # "dispatch"
      /\ (Judged(s)' <=> Judged(s)) /\ (Passed(s)' <=> Passed(s)) /\ Fused(s)
  <2>1. /\ UNCHANGED <<rid, fdiVars, sensorVars>>
        /\ pcRecovery # "receive" /\ pcRecovery' # "dispatch"
    BY RecoveryStepMoves
  <2>2. QED
    BY <2>1 DEF Judged, Passed, Cur, Lingers, Fused, fdiVars, sensorVars
<1>3. Lingers(s)
  <2>1. ctx'[s].state \notin Usable => ctx[s].state \notin Usable
    BY RecoveryStepMoves DEF SameStatesBut
  <2>2. QED
    BY <1>2, <2>1 DEF Lingers
<1>4. CASE s # rid
  BY <1>2, <1>3, <1>4, RecoveryStepCounts DEF Lingering
<1>5. CASE s = rid
  <2>1. /\ Judged(s)'
        /\ ctx'[s].state \in {"PROBING", "VALIDATING"} /\ ~Passed(s)' =>
              ~(rid' = s /\ pcRecovery' # "receive")
    BY <1>2, <1>3, <1>5, RecoveryStepMoves DEF Lingering
  <2>2. /\ sup'[s].attempts <= 1 /\ (sup'[s].attempts = 1 => Passed(s)')
    <3>1. CASE RecoveryExpire
      <4>1. /\ pcRecovery = "dispatch" /\ ctx[rid].state \in {"PROBING", "VALIDATING"}
        BY <3>1 DEF RecoveryExpire
      <4>2. Passed(s)
        BY <1>3, <1>5, <4>1 DEF Lingering
      <4>3. sup[s].attempts = 0
        BY <1>1, <1>3, <1>5, <4>1 DEF Lingering
      <4>4. AtMost(0 + 1, AttemptsCap) = 1
        BY CapsType DEF AtMost, AttemptsCap
      <4>5. sup'[s].attempts = 1
        BY <1>5, <3>1, <4>3, <4>4, RecoveryStepCounts
      <4>6. QED
        BY <1>2, <4>2, <4>5
    <3>2. CASE ~RecoveryExpire
      <4>1. sup'[s].attempts \in {0, sup[s].attempts}
        BY <1>5, <3>2, RecoveryStepCounts
      <4>2. QED
        BY <1>1, <1>2, <1>3, <4>1 DEF Lingering
    <3>3. QED
      BY <3>1, <3>2
  <2>3. QED
    BY <1>2, <2>1, <2>2
<1>6. QED
  BY <1>4, <1>5

LEMMA LatchedNext == IInv /\ Latched /\ [Next]_vars => Latched'
<1> SUFFICES ASSUME IInv, Latched, [Next]_vars, NEW s \in Sensors, sup'[s].permanent
             PROVE  sup'[s].attempts >= RecoveryMaxAttempts
  BY DEF Latched
<1>1. CASE FdiReceive
  <2>1. PICK gap \in Gaps : Elapse(gap)
    BY <1>1 DEF FdiReceive
  <2>2. sup'[s].attempts = sup[s].attempts /\ sup'[s].permanent = sup[s].permanent
    BY <2>1 DEF Elapse, Books
  <2>3. QED
    BY <2>2 DEF Latched
<1>2. CASE RecoveryStep /\ s = rid
  <2>1. sup[rid].attempts \in 0..AttemptsCap
    BY DEF IInv, TypeOK, Supervision
  <2>2. sup[rid].attempts >= RecoveryMaxAttempts =>
           AtMost(sup[rid].attempts + 1, AttemptsCap) >= RecoveryMaxAttempts
    BY <2>1, CapsType DEF AtMost, AttemptsCap
  <2>3. QED
    BY <1>2, <2>2, RecoveryStepCounts DEF Latched
<1>3. CASE RecoveryStep /\ s # rid
  BY <1>3, RecoveryStepCounts DEF Latched
<1>4. CASE ~FdiReceive /\ ~RecoveryStep
  <2>1. sup' = sup
    BY <1>4 DEF Next, SensorStep, SensorUnattended, FuseSkip, FuseAdmit, FuseWeigh, FdiStep,
          FdiDetect, FdiUpdate, FdiIsolate, FdiPublish, FdiLog, FdiSkipRecovery,
          RecoveryReceive, LoggerStep, LoggerOpen, LoggerOpenFails, vars
  <2>2. QED
    BY <2>1 DEF Latched
<1>5. QED
  BY <1>1, <1>2, <1>3, <1>4

LEMMA LingeringNext == IInv /\ Lingering /\ [Next]_vars => Lingering'
<1> SUFFICES ASSUME IInv, Lingering, [Next]_vars PROVE Lingering'
  OBVIOUS
<1>1. CASE UNCHANGED vars
  BY <1>1 DEF Lingering, Lingers, Fused, Judged, Passed, Cur, vars, sensorVars, fdiVars,
             recoveryVars
<1>2. TypeOK
  BY DEF IInv
<1>3. QED
  BY <1>1, <1>2, LingeringSensor, LingeringFdi, LingeringReceive, LingeringRecovery DEF Next

\* A distance may rest on a sensor that is out of use, but only on one that FDI has
\* judged in the very cycle of that distance and whose probe recovery has found late at
\* most once since (fusion_compute() beside evaluate_sensor() and recovery_thread()).
THEOREM CondemnedLingersOneCycle == Spec => []Lingering
  BY LingeringInit, LingeringNext, InvariantHolds, PTL DEF Spec

\* A sensor that recovery gives up on is out of the distance already, as long as that takes
\* more than one attempt: no event of an earlier cycle can latch it beside the fusion that
\* still uses it.
THEOREM AbandonedLeftTheDistance ==
  RecoveryMaxAttempts >= 2 => (Spec => []AbandonedIsNotFused)
<1> SUFFICES ASSUME RecoveryMaxAttempts >= 2 PROVE Spec => []AbandonedIsNotFused
  OBVIOUS
<1>1. IInv /\ Lingering /\ Latched => AbandonedIsNotFused
  <2> SUFFICES ASSUME IInv, Lingering, Latched, NEW s \in Sensors, sup[s].permanent, Fused(s)
               PROVE  FALSE
    BY DEF AbandonedIsNotFused
  <2>1. Lingers(s)
    BY DEF IInv, Expiry, Lingers, Usable
  <2>2. sup[s].attempts \in 0..AttemptsCap
    BY DEF IInv, TypeOK, Supervision
  <2>3. sup[s].attempts <= 1 /\ sup[s].attempts >= RecoveryMaxAttempts
    BY <2>1 DEF Lingering, Latched
  <2>4. QED
    BY <2>2, <2>3, CapsType
<1>2. Spec => []Latched
  BY LingeringInit, LatchedNext, InvariantHolds, PTL DEF Spec
<1>3. QED
  BY <1>1, <1>2, CondemnedLingersOneCycle, InvariantHolds, PTL

-------------------------------------------------------------------------------
(* The backoff and the latch.                                                *)

\* Recovery waits only for a sensor whose probe has timed out.
Backing ==
    /\ \A s \in Sensors : sup[s].wait > 0 => sup[s].attempts > 0
    /\ pcRecovery = "dispatch" /\ gated => sup[rid].attempts > 0

\* No probe is ever held back: neither the latch nor the backoff is in force for a
\* sensor recovery finds in EXCLUDED.
GatesOpen ==
    pcRecovery = "dispatch" /\ ctx[rid].state = "EXCLUDED" =>
       ~sup[rid].permanent /\ ~gated

LEMMA BackingElapse ==
  ASSUME TypeOK, Backing, FdiReceive
  PROVE  Backing'
<1>1. PICK gap \in Gaps : Elapse(gap)
  BY DEF FdiReceive
<1>2. rid' = rid /\ pcRecovery' = pcRecovery /\ gated' = gated /\ rid \in Sensors
  BY DEF FdiReceive, TypeOK
<1>3. ASSUME NEW s \in Sensors
      PROVE  /\ sup'[s].attempts = sup[s].attempts
             /\ sup'[s].wait > 0 => sup[s].wait > 0
  <2>1. sup'[s].attempts = sup[s].attempts /\ sup'[s].wait = Left(sup[s].wait, gap)
    BY <1>1 DEF Elapse, Books
  <2>2. sup[s].wait \in Nat /\ gap \in Nat
    BY DEF TypeOK, Supervision
  <2>3. Left(sup[s].wait, gap) > 0 => sup[s].wait > 0
    BY <2>2 DEF Left
  <2>4. QED
    BY <2>1, <2>3
<1>4. QED
  BY <1>2, <1>3 DEF Backing

\* The wait of a sensor grows only when its timeout is logged, and goes with the attempts.
LEMMA BackingRecovery == IInv /\ Backing /\ RecoveryStep => Backing'
<1> SUFFICES ASSUME IInv, Backing, RecoveryStep PROVE Backing'
  OBVIOUS
<1>1. /\ TypeOK /\ Expiry /\ rid \in Sensors /\ sup[rid] \in Supervision
      /\ rid' = rid /\ pcRecovery' # "dispatch"
      /\ \A s \in Sensors : sup[s].attempts \in 0..AttemptsCap
  BY RecoveryStepMoves DEF IInv, TypeOK, Supervision
<1>2. ASSUME NEW s \in Sensors, sup'[s].wait > 0
      PROVE  sup'[s].attempts > 0
  <2>1. CASE RecoveryExcluded \/ RecoveryExpire
    <3>1. sup'[s].wait = sup[s].wait
      <4>1. CASE RecoveryExcluded /\ sup' # sup
        <5>1. sup' = [sup EXCEPT ![rid] = [sup[rid] EXCEPT !.age = AtMost(lag, AgeCap)]]
          BY <4>1 DEF RecoveryExcluded
        <5>2. QED
          BY <1>1, <5>1 DEF TypeOK, Supervision
      <4>2. CASE RecoveryExpire
        BY <1>1, <4>2 DEF RecoveryExpire, TypeOK, Supervision
      <4>3. QED
        BY <2>1, <4>1, <4>2
    <3>2. sup[s].attempts > 0
      BY <1>2, <3>1 DEF Backing
    <3>3. AtMost(sup[rid].attempts + 1, AttemptsCap) > 0
      BY <1>1, CapsType DEF AtMost, AttemptsCap
    <3>4. CASE s = rid /\ RecoveryExpire
      BY <3>3, <3>4, RecoveryStepCounts
    <3>5. CASE s # rid
      BY <3>2, <3>5, RecoveryStepCounts
    <3>6. CASE RecoveryExcluded
      BY <1>1, <3>2, <3>6, RecoveryExcludedStates
    <3>7. QED
      BY <2>1, <3>4, <3>5, <3>6
  <2>2. CASE RecoverySettle
    <3>1. sup'[s] = sup[s] \/ sup'[s].wait = 0
      BY <2>2 DEF RecoverySettle, TypeOK, Books
    <3>2. QED
      BY <1>2, <3>1 DEF Backing
  <2>3. CASE RecoveryLogTimeout
    <3>1. sup[rid].attempts > 0
      BY <1>1, <2>3 DEF Expiry, Counted, RecoveryLogTimeout
    <3>2. sup'[rid].attempts = sup[rid].attempts /\ (s # rid => sup'[s] = sup[s])
      <4>1. CASE sup' = [sup EXCEPT ![rid].permanent = TRUE]
        BY <1>1, <4>1 DEF TypeOK, Supervision
      <4>2. CASE sup' = [sup EXCEPT ![rid].wait = Left(Backoff(sup[rid].attempts), lag)]
        BY <1>1, <4>2 DEF TypeOK, Supervision
      <4>3. QED
        BY <2>3, <4>1, <4>2 DEF RecoveryLogTimeout
    <3>3. QED
      BY <1>2, <3>1, <3>2 DEF Backing
  <2>4. CASE ~(RecoveryExcluded \/ RecoveryExpire \/ RecoverySettle \/ RecoveryLogTimeout)
    <3>1. sup' = sup
      BY <2>4 DEF RecoveryStep, RecoveryDetect, RecoveryEvaluate, RecoveryStore,
                  RecoveryLogPermanent
    <3>2. QED
      BY <1>2, <3>1 DEF Backing
  <2>5. QED
    BY <2>1, <2>2, <2>3, <2>4
<1>3. QED
  BY <1>1, <1>2 DEF Backing

\* A probe is never delayed or refused: whenever recovery finds a sensor in EXCLUDED it
\* probes it, so the backoff and the latch of case STATE_EXCLUDED decide nothing (what a
\* probe that times out leaves behind, recovery_thread()).
THEOREM BackoffNeverGates == Spec => []GatesOpen
<1>1. Init => Backing
  BY DEF Init, Books, Backing
<1>2. IInv /\ Backing /\ [Next]_vars => Backing'
  <2> SUFFICES ASSUME IInv, Backing, [Next]_vars PROVE Backing'
    OBVIOUS
  <2>1. CASE RecoveryReceive
    BY <2>1, CurIsSensor DEF RecoveryReceive, Backing, IInv
  <2>2. CASE SensorStep \/ FdiStep \/ LoggerStep \/ UNCHANGED vars
    BY <2>2 DEF Backing, SensorStep, SensorUnattended, FuseSkip, FuseAdmit, FuseWeigh, FdiStep,
          FdiDetect, FdiUpdate, FdiIsolate, FdiPublish, FdiLog, FdiSkipRecovery, LoggerStep,
          LoggerOpen, LoggerOpenFails, vars, recoveryVars
  <2>3. QED
    BY <2>1, <2>2, BackingElapse, BackingRecovery DEF Next, IInv
<1>3. IInv /\ Backing => GatesOpen
  BY DEF IInv, Expiry, TypeOK, Backing, GatesOpen
<1>4. QED
  BY <1>1, <1>2, <1>3, InvariantHolds, PTL DEF Spec

-------------------------------------------------------------------------------
(* What a contradiction can do.                                              *)

\* Nothing has singled out a sensor: FDI watches all of them, and recovery sleeps.
Unaccused ==
    /\ \A s \in Sensors : ctx[s].state \in Usable
    /\ detected \notin Definitive /\ pcFdi # "isolate"
    /\ pcFdi = "update" => before \in Usable
    /\ ev.state \in Usable /\ pcRecovery = "receive"

AllInUse == \A s \in Sensors : ctx[s].state \in Usable

LEMMA UnaccusedStays ==
  ASSUME NEW c \in Context, NEW d \in FaultType \ Definitive, c.state \in Usable
  PROVE  UpdateState(c, d).state \in Usable
<1>1. d = "NONE" \/ d = "CONTRADICTORY"
  BY DEF Definitive, FaultType
<1>2. c.state = "HEALTHY" \/ c.state = "SUSPECT"
  BY DEF Usable
<1>3. QED
  BY <1>1, <1>2, UpdateStateCases, CtxFields DEF Usable

LEMMA UnaccusedUpdate ==
  ASSUME TypeOK, Unaccused, FdiUpdate
  PROVE  AllInUse' /\ pcFdi' = "publish"
<1> DEFINE c == IF before \in {"HEALTHY", "SUSPECT"}
                THEN UpdateState(ctx[Cur], detected) ELSE ctx[Cur]
           d == [c EXCEPT !.last_fault = detected]
<1>1. Cur \in Sensors /\ ctx[Cur] \in Context /\ detected \in FaultType \ Definitive
  BY CurIsSensor DEF TypeOK, Unaccused
<1>2. c \in Context /\ c.state \in Usable
  BY <1>1, UpdateStateType, UnaccusedStays DEF Unaccused
<1>3. d.state = c.state
  BY <1>2 DEF Context
<1>4. /\ ctx' = [ctx EXCEPT ![Cur] = d]
      /\ pcFdi' = IF before \in DetectorOwned /\ c.state = "FAULTED"
                  THEN "isolate" ELSE "publish"
  BY <1>1 DEF FdiUpdate
<1> HIDE DEF c, d
<1>5. \A s \in Sensors : ctx'[s] = IF s = Cur THEN d ELSE ctx[s]
  BY <1>4 DEF TypeOK
<1>6. QED
  BY <1>2, <1>3, <1>4, <1>5 DEF Unaccused, AllInUse, Usable

\* Contradictions alone exclude nobody, for ever: while no check singles a sensor out,
\* every sensor stays in use, recovery is never woken and nothing is ever isolated, in
\* any interleaving (fdi_update_state(), evaluate_sensor()).
THEOREM ContradictionsExcludeNobody ==
  Verdicts \cap Definitive = {} => (Spec => []AllInUse)
<1> SUFFICES ASSUME Verdicts \cap Definitive = {} PROVE Spec => []AllInUse
  OBVIOUS
<1>1. Init => Unaccused
  BY DEF Init, Unaccused, ContextInit, Usable, Definitive
<1>2. IInv /\ Unaccused /\ [Next]_vars => Unaccused'
  <2> SUFFICES ASSUME IInv, Unaccused, [Next]_vars PROVE Unaccused'
    OBVIOUS
  <2>0. TypeOK /\ Cur \in Sensors
    BY CurIsSensor DEF IInv
  <2>1. CASE SensorStep \/ LoggerStep \/ FdiReceive \/ UNCHANGED vars
    BY <2>1 DEF Unaccused, SensorStep, SensorUnattended, FuseSkip, FuseAdmit, FuseWeigh,
          LoggerStep, LoggerOpen, LoggerOpenFails, FdiReceive, vars, fdiVars, recoveryVars
  <2>2. CASE FdiDetect
    BY <2>0, <2>2 DEF Unaccused, FdiDetect, recoveryVars
  <2>3. CASE FdiUpdate
    <3>1. AllInUse' /\ pcFdi' = "publish"
      BY <2>0, <2>3, UnaccusedUpdate
    <3>2. QED
      BY <2>3, <3>1 DEF Unaccused, AllInUse, FdiUpdate, recoveryVars
  <2>4. CASE FdiPublish
    <3>1. ev' = [state |-> ctx[Cur].state, fault |-> ctx[Cur].last_fault]
      BY <2>4 DEF FdiPublish
    <3>2. ev'.state \in Usable
      BY <2>0, <3>1 DEF Unaccused
    <3>3. QED
      BY <2>4, <3>2 DEF Unaccused, FdiPublish, recoveryVars
  <2>5. CASE FdiLog \/ FdiSkipRecovery
    BY <2>5 DEF Unaccused, FdiLog, FdiSkipRecovery, NextSensor, recoveryVars
  <2>6. ~FdiIsolate /\ ~RecoveryReceive /\ ~RecoveryStep
    BY DEF Unaccused, FdiIsolate, RecoveryReceive, RecoveryStep, RecoveryExcluded,
           RecoveryExpire, RecoveryDetect, RecoveryEvaluate, RecoveryStore, RecoverySettle,
           RecoveryLogTimeout, RecoveryLogPermanent, Usable, RecoveryOwned
  <2>7. QED
    BY <2>1, <2>2, <2>3, <2>4, <2>5, <2>6 DEF Next, FdiStep
<1>3. Unaccused => AllInUse
  BY DEF Unaccused, AllInUse
<1>4. QED
  BY <1>1, <1>2, <1>3, InvariantHolds, PTL DEF Spec

-------------------------------------------------------------------------------
(* How much each thread may still do before it receives again.               *)

FdiStepsLeft == [receive |-> 0, wake |-> 1, log |-> 2, publish |-> 3, isolate |-> 4,
                 update |-> 5, detect |-> 6]
FdiWork == IF pcFdi = "receive" THEN 0 ELSE 6 * (SensorCount - idx) + FdiStepsLeft[pcFdi]

RecoveryWork ==
    CASE pcRecovery = "receive"       -> 0
      [] pcRecovery = "log_permanent" -> 1
      [] pcRecovery = "log_timeout"   -> 2
      [] pcRecovery = "commit"        -> 1 + Cardinality(pending)
      [] pcRecovery = "evaluate"      -> 5
      [] pcRecovery = "dispatch"      -> 6

FusionWork ==
    CASE pcSensor = "send"  -> 0
      [] pcSensor = "check" -> 2 * (RangerCount - slot) + 2
      [] pcSensor = "weigh" -> 2 * (RangerCount - slot) + 1

\* No thread ever has more to do than one round of its loop.
WorkBounded ==
    /\ FdiWork \in 0..(6 * SensorCount)
    /\ RecoveryWork \in 0..6
    /\ FusionWork \in 0..(2 * RangerCount)

\* A thread that is at work is nearer to its next message after each step of its own, and
\* no step of another thread takes it further away.
WorkShrinks ==
    [][/\ pcFdi # "receive" => FdiWork' < FdiWork \/ UNCHANGED fdiVars
       /\ pcRecovery # "receive" =>
             RecoveryWork' < RecoveryWork \/ UNCHANGED <<pcRecovery, pending>>
       /\ pcSensor # "send" => FusionWork' < FusionWork \/ UNCHANGED sensorVars]_vars

LEMMA CountDown ==
  ASSUME NEW n \in Nat, NEW i \in 1..n
  PROVE  /\ 0 < 6 * (n - i) + 1
         /\ 6 * (n - (i + 1)) + 6 < 6 * (n - i) + 1
         /\ \A j, k \in Nat : j < k => 6 * (n - i) + j < 6 * (n - i) + k
<1> DEFINE m == n - i
<1>1. m \in Nat /\ n - (i + 1) = m - 1
  OBVIOUS
<1> HIDE DEF m
<1>2. /\ 0 < 6 * m + 1 /\ 6 * (m - 1) + 6 < 6 * m + 1
      /\ \A j, k \in Nat : j < k => 6 * m + j < 6 * m + k
  BY <1>1
<1>3. QED
  BY <1>1, <1>2 DEF m

LEMMA FdiWorkShrinks ==
  ASSUME TypeOK, [Next]_vars, pcFdi # "receive"
  PROVE  FdiWork' < FdiWork \/ UNCHANGED fdiVars
<1>1. idx \in 1..SensorCount
  BY DEF TypeOK
<1>2. CASE NextSensor /\ pcFdi = "wake"
  <2>1. CASE idx < SensorCount
    <3>1. pcFdi' = "detect" /\ idx' = idx + 1
      BY <1>2, <2>1 DEF NextSensor
    <3>2. FdiWork = 6 * (SensorCount - idx) + 1
      BY <1>2 DEF FdiWork, FdiStepsLeft
    <3>3. FdiWork' = 6 * (SensorCount - (idx + 1)) + 6
      BY <3>1 DEF FdiWork, FdiStepsLeft
    <3>4. QED
      BY <1>1, <3>2, <3>3, CountDown
  <2>2. CASE ~(idx < SensorCount)
    <3>1. FdiWork' = 0 /\ FdiWork = 6 * (SensorCount - idx) + 1
      BY <1>2, <2>2 DEF NextSensor, FdiWork, FdiStepsLeft
    <3>2. QED
      BY <1>1, <3>1, CountDown
  <2>3. QED
    BY <2>1, <2>2
<1>3. CASE FdiDetect \/ FdiUpdate \/ FdiIsolate \/ FdiPublish \/ FdiLog
  <2>1. /\ idx' = idx
        /\ \/ pcFdi = "detect" /\ pcFdi' = "update"
           \/ pcFdi = "update" /\ pcFdi' \in {"isolate", "publish"}
           \/ pcFdi = "isolate" /\ pcFdi' = "publish"
           \/ pcFdi = "publish" /\ pcFdi' = "log"
           \/ pcFdi = "log" /\ pcFdi' = "wake"
    BY <1>3 DEF FdiDetect, FdiUpdate, FdiIsolate, FdiPublish, FdiLog
  <2>2. FdiStepsLeft[pcFdi'] < FdiStepsLeft[pcFdi] /\ FdiStepsLeft[pcFdi'] \in Nat
        /\ FdiStepsLeft[pcFdi] \in Nat
    BY <2>1 DEF FdiStepsLeft
  <2>3. /\ FdiWork = 6 * (SensorCount - idx) + FdiStepsLeft[pcFdi]
        /\ FdiWork' = 6 * (SensorCount - idx) + FdiStepsLeft[pcFdi']
    BY <2>1 DEF FdiWork, FdiStepsLeft
  <2>4. QED
    BY <1>1, <2>2, <2>3, CountDown
<1>4. CASE UNCHANGED fdiVars
  BY <1>4 DEF fdiVars, FdiWork
<1>5. QED
  BY <1>2, <1>3, <1>4 DEF Next, SensorStep, SensorUnattended, FuseSkip, FuseAdmit, FuseWeigh,
     FdiReceive, FdiStep, FdiSkipRecovery, RecoveryReceive, RecoveryStep, RecoveryExcluded,
     RecoveryExpire, RecoveryDetect, RecoveryEvaluate, RecoveryStore, RecoverySettle,
     RecoveryLogTimeout, RecoveryLogPermanent, LoggerStep, LoggerOpen, LoggerOpenFails, vars

LEMMA PendingIs ==
  ASSUME TypeOK
  PROVE  /\ IsFiniteSet(pending) /\ Cardinality(pending) \in Nat
         /\ Cardinality(pending) <= 3
         /\ Cardinality(ReinstatedFields) = 3
<1>1. IsFiniteSet({}) /\ Cardinality({}) = 0
  BY FS_EmptySet
<1>2. IsFiniteSet({"state"}) /\ Cardinality({"state"}) = 1
  BY FS_Singleton
<1>3. /\ IsFiniteSet({"state"} \cup {"fault_streak"})
      /\ Cardinality({"state"} \cup {"fault_streak"}) = 2
  <2>1. "fault_streak" \notin {"state"}
    OBVIOUS
  <2>2. QED
    BY <1>2, <2>1, FS_AddElement, 1 + 1 = 2, Zenon
<1>4. /\ IsFiniteSet(({"state"} \cup {"fault_streak"}) \cup {"recovery_streak"})
      /\ Cardinality(({"state"} \cup {"fault_streak"}) \cup {"recovery_streak"}) = 3
  <2>1. "recovery_streak" \notin {"state"} \cup {"fault_streak"}
    OBVIOUS
  <2>2. QED
    BY <1>3, <2>1, FS_AddElement, 2 + 1 = 3, Zenon
<1>5. ReinstatedFields = ({"state"} \cup {"fault_streak"}) \cup {"recovery_streak"}
  BY DEF ReinstatedFields
<1>6. IsFiniteSet(pending) /\ Cardinality(pending) <= 3
  <2>1. pending \in SUBSET ReinstatedFields
    BY DEF TypeOK
  <2>2. IsFiniteSet(ReinstatedFields) /\ Cardinality(ReinstatedFields) = 3
    BY <1>4, <1>5, Zenon
  <2>3. IsFiniteSet(pending) /\ Cardinality(pending) <= Cardinality(ReinstatedFields)
    BY <2>1, <2>2, FS_Subset, Zenon
  <2>4. QED
    BY <2>2, <2>3
<1>7. QED
  BY <1>4, <1>5, <1>6, FS_CardinalityType

LEMMA WorkIsBounded == TypeOK => WorkBounded
<1> SUFFICES ASSUME TypeOK PROVE WorkBounded
  OBVIOUS
<1>1. FdiWork \in 0..(6 * SensorCount)
  <2> DEFINE k == FdiStepsLeft[pcFdi]
             m == SensorCount - idx
  <2>1. k \in 0..6 /\ m \in 0..(SensorCount - 1)
    BY DEF TypeOK, FdiStepsLeft
  <2>2. FdiWork = 0 \/ FdiWork = 6 * m + k
    BY DEF FdiWork
  <2> HIDE DEF k, m
  <2>3. 6 * m <= 6 * (SensorCount - 1) /\ 6 * m \in Nat
    BY <2>1
  <2>4. 6 * m + k \in 0..(6 * SensorCount)
    BY <2>1, <2>3
  <2>5. QED
    BY <2>2, <2>4
<1>2. RecoveryWork \in 0..6
  BY PendingIs DEF TypeOK, RecoveryWork
<1>3. FusionWork \in 0..(2 * RangerCount)
  BY DEF TypeOK, FusionWork
<1>4. QED
  BY <1>1, <1>2, <1>3 DEF WorkBounded

LEMMA RecoveryWorkShrinks ==
  ASSUME TypeOK, [Next]_vars, pcRecovery # "receive"
  PROVE  RecoveryWork' < RecoveryWork \/ UNCHANGED <<pcRecovery, pending>>
<1>1. /\ IsFiniteSet(pending) /\ Cardinality(pending) \in Nat
      /\ Cardinality(ReinstatedFields) = 3
  BY PendingIs
<1>2. CASE RecoveryStore
  <2>1. PICK field \in pending : pending' = pending \ {field}
    BY <1>2 DEF RecoveryStore
  <2>2. Cardinality(pending \ {field}) = Cardinality(pending) - 1
    BY <1>1, FS_RemoveElement
  <2>3. /\ RecoveryWork = 1 + Cardinality(pending)
        /\ RecoveryWork' = 1 + Cardinality(pending')
    BY <1>2 DEF RecoveryStore, RecoveryWork
  <2>4. QED
    BY <1>1, <2>1, <2>2, <2>3
<1>3. CASE RecoveryEvaluate
  <2>1. /\ pcRecovery = "evaluate"
        /\ \/ pcRecovery' = "receive"
           \/ pcRecovery' = "commit" /\ pending' = ReinstatedFields
    BY <1>3 DEF RecoveryEvaluate
  <2>2. QED
    BY <1>1, <2>1 DEF RecoveryWork
<1>4. CASE RecoverySettle
  <2>1. pcRecovery = "commit" /\ pcRecovery' = "receive"
    BY <1>4 DEF RecoverySettle
  <2>2. RecoveryWork = 1 + Cardinality(pending) /\ RecoveryWork' = 0
    BY <2>1 DEF RecoveryWork
  <2>3. QED
    BY <1>1, <2>2
<1>5. CASE \/ RecoveryExcluded \/ RecoveryExpire \/ RecoveryDetect
           \/ RecoveryLogTimeout \/ RecoveryLogPermanent
  <2>1. \/ /\ pcRecovery = "dispatch"
           /\ pcRecovery' \in {"receive", "log_timeout", "evaluate"}
        \/ pcRecovery = "log_timeout" /\ pcRecovery' \in {"receive", "log_permanent"}
        \/ pcRecovery = "log_permanent" /\ pcRecovery' = "receive"
    BY <1>5 DEF RecoveryExcluded, RecoveryExpire, RecoveryDetect, RecoveryLogTimeout,
               RecoveryLogPermanent
  <2>2. QED
    BY <2>1 DEF RecoveryWork
<1>6. CASE UNCHANGED <<pcRecovery, pending>>
  BY <1>6
<1>7. QED
  BY <1>2, <1>3, <1>4, <1>5, <1>6 DEF Next, SensorStep, SensorUnattended, FuseSkip, FuseAdmit,
     FuseWeigh, FdiReceive, FdiStep, FdiDetect, FdiUpdate, FdiIsolate, FdiPublish, FdiLog,
     FdiSkipRecovery, RecoveryReceive, RecoveryStep, LoggerStep, LoggerOpen, LoggerOpenFails,
     vars, recoveryVars

LEMMA FusionWorkShrinks ==
  ASSUME TypeOK, [Next]_vars, pcSensor # "send"
  PROVE  FusionWork' < FusionWork \/ UNCHANGED sensorVars
<1>1. slot \in 1..RangerCount
  BY DEF TypeOK
<1>2. CASE FuseSkip \/ FuseWeigh
  <2>1. pcSensor \in {"check", "weigh"} /\ NextSlot
    BY <1>2 DEF FuseSkip, FuseWeigh
  <2>2. FusionWork >= 2 * (RangerCount - slot) + 1 /\ FusionWork \in Nat
    BY <1>1, <2>1 DEF FusionWork
  <2>3. CASE slot < RangerCount
    <3>1. FusionWork' = 2 * (RangerCount - (slot + 1)) + 2
      BY <2>1, <2>3 DEF NextSlot, FusionWork
    <3>2. QED
      BY <1>1, <2>2, <3>1
  <2>4. CASE ~(slot < RangerCount)
    <3>1. FusionWork' = 0
      BY <2>1, <2>4 DEF NextSlot, FusionWork
    <3>2. QED
      BY <1>1, <2>2, <3>1
  <2>5. QED
    BY <2>3, <2>4
<1>3. CASE FuseAdmit
  <2>1. FusionWork = 2 * (RangerCount - slot) + 2 /\ FusionWork' = 2 * (RangerCount - slot) + 1
    BY <1>3 DEF FuseAdmit, FusionWork
  <2>2. QED
    BY <1>1, <2>1
<1>4. CASE UNCHANGED sensorVars
  BY <1>4
<1>5. QED
  BY <1>2, <1>3, <1>4 DEF Next, SensorStep, SensorUnattended, FdiReceive, FdiStep, FdiDetect,
     FdiUpdate, FdiIsolate, FdiPublish, FdiLog, FdiSkipRecovery, RecoveryReceive, RecoveryStep,
     RecoveryExcluded, RecoveryExpire, RecoveryDetect, RecoveryEvaluate, RecoveryStore,
     RecoverySettle, RecoveryLogTimeout, RecoveryLogPermanent, LoggerStep, LoggerOpen,
     LoggerOpenFails, vars

\* Every loop of the four threads is bounded by the numbers of sensors and rangers: what
\* keeps a thread from its next message is another thread it waits for, never its own
\* work (the part of CyclesRecur that needs no fairness).
THEOREM CyclesAreBounded == Spec => []WorkBounded /\ WorkShrinks
<1>1. IInv /\ [Next]_vars =>
         [/\ pcFdi # "receive" => FdiWork' < FdiWork \/ UNCHANGED fdiVars
          /\ pcRecovery # "receive" =>
                RecoveryWork' < RecoveryWork \/ UNCHANGED <<pcRecovery, pending>>
          /\ pcSensor # "send" => FusionWork' < FusionWork \/ UNCHANGED sensorVars]_vars
  BY FdiWorkShrinks, RecoveryWorkShrinks, FusionWorkShrinks DEF IInv
<1>2. IInv => WorkBounded
  BY WorkIsBounded DEF IInv
<1>3. QED
  BY <1>1, <1>2, InvariantHolds, PTL DEF Spec, WorkShrinks
===============================================================================
