---------------------------- MODULE LifecycleProofs ----------------------------
(***************************************************************************)
(* Proofs that the streaks the threads keep have their evidence, and that  *)
(* the threads implement SensorLifecycle, for any number of sensors and    *)
(* any limits.  On the invariant of FdiThreadsProofs.                      *)
(***************************************************************************)
EXTENDS FdiHistory, FdiThreadsProofs

\* What FDI's streaks in a context say, given the evidence.
Watched(c, accused, acquitted) ==
    /\ c.recovery_streak < RecoveryConfirmLimit
    /\ c.state # "SUSPECT" => c.recovery_streak = 0
    /\ c.state = "SUSPECT" =>
         /\ c.fault_streak <= 1 \/ c.fault_streak < FaultConfirmLimit
         /\ c.fault_streak <= accused + 1
         /\ c.recovery_streak <= acquitted

\* What recovery's streak says, but while the stores of a reinstatement land.
Probed(c, passed, committing) ==
    c.state = "VALIDATING" =>
      /\ c.validation_streak <= passed
      /\ ~committing => /\ c.validation_streak >= 1
                        /\ c.validation_streak = 1 \/ c.validation_streak < RecoveryConfirmLimit

Committing(s) == rid = s /\ pcRecovery = "commit"

HistoryTypes ==
    /\ accusations \in [Sensors -> Nat]
    /\ acquittals \in [Sensors -> Nat]
    /\ passes \in [Sensors -> Nat]

Evidence ==
    /\ \A s \in Sensors : /\ Watched(ctx[s], accusations[s], acquittals[s])
                          /\ Probed(ctx[s], passes[s], Committing(s))
    /\ pcRecovery = "commit" => IF "state" \in pending
                                THEN passes[rid] >= Lifecycle!PassesNeeded
                                ELSE ctx[rid].state # "VALIDATING"

-------------------------------------------------------------------------------
(* Single contexts and counters.                                             *)

LEMMA Limits ==
    /\ FaultConfirmLimit \in 1..255 /\ RecoveryConfirmLimit \in 1..255
    /\ Lifecycle!AccusationsNeeded \in Nat /\ Lifecycle!PassesNeeded \in Nat
    /\ Lifecycle!AccusationsNeeded = IF FaultConfirmLimit > 2 THEN FaultConfirmLimit - 1 ELSE 1
    /\ Lifecycle!PassesNeeded = IF RecoveryConfirmLimit > 2 THEN RecoveryConfirmLimit ELSE 2
  BY LimitsAssumption DEF Lifecycle!AccusationsNeeded, Lifecycle!PassesNeeded

LEMMA CountIs ==
    ASSUME NEW n \in Nat, NEW enough \in Nat
    PROVE  /\ Lifecycle!Count(n, enough) \in Nat
           /\ Lifecycle!Count(n, enough) = IF n < enough THEN n + 1 ELSE n
  BY DEF Lifecycle!Count

LEMMA ProbeEvaluateCases ==
    ASSUME NEW c, NEW d
    PROVE  /\ c.state \in {"PROBING", "VALIDATING"} /\ d # "NONE" =>
                ProbeEvaluate(c, d) = Ctx("EXCLUDED", d, c.fault_streak, c.recovery_streak,
                                          c.validation_streak)
           /\ c.state = "PROBING" /\ d = "NONE" =>
                ProbeEvaluate(c, d) = Ctx("VALIDATING", d, c.fault_streak, c.recovery_streak, 1)
           /\ c.state = "VALIDATING" /\ d = "NONE" =>
                ProbeEvaluate(c, d) =
                   IF Inc(c.validation_streak) >= RecoveryConfirmLimit
                   THEN Ctx("HEALTHY", d, 0, 0, 0)
                   ELSE Ctx("VALIDATING", d, c.fault_streak, c.recovery_streak,
                            Inc(c.validation_streak))
  BY DEF ProbeEvaluate

-------------------------------------------------------------------------------
(* What a verdict of FDI adds to the evidence, and what it may do with it.   *)

AccusedBy(c, d, accused) ==
    IF c.state # "SUSPECT" THEN IF d = "NONE" THEN accused ELSE 0
    ELSE IF d \in Definitive THEN Lifecycle!Count(accused, Lifecycle!AccusationsNeeded)
    ELSE accused

AcquittedBy(c, d, acquitted) ==
    IF d # "NONE" THEN 0
    ELSE IF c.state = "SUSPECT" THEN Lifecycle!Count(acquitted, RecoveryConfirmLimit)
    ELSE acquitted

\* A step of the life cycle, of one sensor: from state, accusations and acquittals
\* to others.
Detection(from, to, accused, acquitted, accused1, acquitted1) ==
    \/ to = from /\ accused1 = accused /\ acquitted1 = acquitted
    \/ from = "HEALTHY" /\ to = "SUSPECT" /\ accused1 = 0 /\ acquitted1 = 0
    \/ /\ from = "SUSPECT" /\ acquitted1 = 0
       /\ accused1 = Lifecycle!Count(accused, Lifecycle!AccusationsNeeded)
       /\ to = from \/ (accused1 >= Lifecycle!AccusationsNeeded /\ to = "FAULTED")
    \/ from = "SUSPECT" /\ to = from /\ accused1 = accused /\ acquitted1 = 0
    \/ /\ from = "SUSPECT" /\ accused1 = accused
       /\ acquitted1 = Lifecycle!Count(acquitted, RecoveryConfirmLimit)
       /\ to = from \/ (acquitted1 >= RecoveryConfirmLimit /\ to = "HEALTHY")

\* Both counters may wrap or stop: the streak stays behind the evidence all the same.
LEMMA AccusedOnce ==
    ASSUME NEW f \in 0..255, NEW accused \in Nat, f <= accused + 1,
           NEW accused1, accused1 = Lifecycle!Count(accused, Lifecycle!AccusationsNeeded)
    PROVE  /\ Inc(f) \in 0..255 /\ accused1 \in Nat
           /\ Inc(f) >= FaultConfirmLimit => accused1 >= Lifecycle!AccusationsNeeded
           /\ ~(Inc(f) >= FaultConfirmLimit) =>
                Inc(f) < FaultConfirmLimit /\ Inc(f) <= accused1 + 1
  <1>1. PICK n, l \in Nat : n = Lifecycle!AccusationsNeeded /\ l = FaultConfirmLimit
    BY Limits
  <1>2. n = (IF l > 2 THEN l - 1 ELSE 1) /\ l \in 1..255
    BY <1>1, Limits
  <1>3. accused1 = (IF accused < n THEN accused + 1 ELSE accused) /\ accused1 \in Nat
    BY <1>1, CountIs
  <1>4. PICK g \in 0..255 : g = Inc(f) /\ g = IF f = 255 THEN 0 ELSE f + 1
    BY IncIs
  <1>5. g >= l => accused1 >= n
    BY <1>2, <1>3, <1>4
  <1>6. ~(g >= l) => g < l /\ g <= accused1 + 1
    BY <1>2, <1>3, <1>4
  <1> QED BY <1>1, <1>3, <1>4, <1>5, <1>6

LEMMA AcquittedOnce ==
    ASSUME NEW r \in 0..255, r < RecoveryConfirmLimit, NEW acquitted \in Nat, r <= acquitted,
           NEW acquitted1, acquitted1 = Lifecycle!Count(acquitted, RecoveryConfirmLimit)
    PROVE  /\ Inc(r) \in 0..255 /\ acquitted1 \in Nat
           /\ Inc(r) >= RecoveryConfirmLimit => acquitted1 >= RecoveryConfirmLimit
           /\ ~(Inc(r) >= RecoveryConfirmLimit) =>
                Inc(r) < RecoveryConfirmLimit /\ Inc(r) <= acquitted1
  <1>1. PICK l \in 1..255 : l = RecoveryConfirmLimit
    BY Limits
  <1>2. acquitted1 = (IF acquitted < l THEN acquitted + 1 ELSE acquitted) /\ acquitted1 \in Nat
    BY <1>1, CountIs
  <1>3. PICK g \in 0..255 : g = Inc(r) /\ g = IF r = 255 THEN 0 ELSE r + 1
    BY IncIs
  <1>4. g >= l => acquitted1 >= l
    BY <1>1, <1>2, <1>3
  <1>5. ~(g >= l) => g < l /\ g <= acquitted1
    BY <1>1, <1>2, <1>3
  <1> QED BY <1>1, <1>2, <1>3, <1>4, <1>5

LEMMA DetectionEvidence ==
    ASSUME NEW c \in Context, NEW d \in FaultType, c.state \in {"HEALTHY", "SUSPECT"},
           NEW accused \in Nat, NEW acquitted \in Nat, Watched(c, accused, acquitted),
           NEW accused1, accused1 = AccusedBy(c, d, accused),
           NEW acquitted1, acquitted1 = AcquittedBy(c, d, acquitted),
           NEW e, e = UpdateState(c, d)
    PROVE  /\ accused1 \in Nat /\ acquitted1 \in Nat
           /\ Watched(e, accused1, acquitted1)
           /\ Detection(c.state, e.state, accused, acquitted, accused1, acquitted1)
  <1>1. PICK f, r \in 0..255 : f = c.fault_streak /\ r = c.recovery_streak
    BY DEF Context
  <1>2. /\ r < RecoveryConfirmLimit
        /\ c.state # "SUSPECT" => r = 0
        /\ c.state = "SUSPECT" => /\ f <= 1 \/ f < FaultConfirmLimit
                                  /\ f <= accused + 1 /\ r <= acquitted
    BY <1>1 DEF Watched
  <1>3. 0 < RecoveryConfirmLimit
    BY Limits
  <1>4. CASE c.state = "HEALTHY" /\ d = "NONE"
    <2>1. accused1 = accused /\ acquitted1 = acquitted
      BY <1>4 DEF AccusedBy, AcquittedBy
    <2>2. e.state = "HEALTHY" /\ e.fault_streak = f /\ e.recovery_streak = r
      BY <1>1, <1>4, UpdateStateCases, CtxFields
    <2> QED BY <1>2, <1>4, <2>1, <2>2 DEF Watched, Detection
  <1>5. CASE c.state = "HEALTHY" /\ d # "NONE"
    <2>1. accused1 = 0 /\ acquitted1 = 0
      BY <1>5 DEF AccusedBy, AcquittedBy
    <2>2. e.state = "SUSPECT" /\ e.fault_streak = 1 /\ e.recovery_streak = r
      BY <1>1, <1>5, UpdateStateCases, CtxFields
    <2>3. r = 0
      BY <1>2, <1>5
    <2> QED BY <1>2, <1>5, <2>1, <2>2, <2>3 DEF Watched, Detection
  <1>6. CASE c.state = "SUSPECT" /\ d = "CONTRADICTORY"
    <2>1. accused1 = accused /\ acquitted1 = 0
      BY <1>6 DEF AccusedBy, AcquittedBy, Definitive
    <2>2. e.state = "SUSPECT" /\ e.fault_streak = f /\ e.recovery_streak = 0
      BY <1>1, <1>6, UpdateStateCases, CtxFields
    <2> QED BY <1>2, <1>3, <1>6, <2>1, <2>2 DEF Watched, Detection
  <1>7. CASE c.state = "SUSPECT" /\ d \in Definitive
    <2>1. /\ accused1 = Lifecycle!Count(accused, Lifecycle!AccusationsNeeded)
          /\ acquitted1 = 0
      BY <1>7 DEF AccusedBy, AcquittedBy, Definitive
    <2>2. /\ e.state = (IF Inc(f) >= FaultConfirmLimit THEN "FAULTED" ELSE "SUSPECT")
          /\ e.fault_streak = Inc(f) /\ e.recovery_streak = 0
      BY <1>1, <1>7, UpdateStateCases, CtxFields
    <2>3. /\ Inc(f) \in 0..255 /\ accused1 \in Nat
          /\ Inc(f) >= FaultConfirmLimit => accused1 >= Lifecycle!AccusationsNeeded
          /\ ~(Inc(f) >= FaultConfirmLimit) =>
               Inc(f) < FaultConfirmLimit /\ Inc(f) <= accused1 + 1
      BY <1>2, <1>7, <2>1, AccusedOnce
    <2>4. CASE Inc(f) >= FaultConfirmLimit
      BY <1>3, <1>7, <2>1, <2>2, <2>3, <2>4 DEF Watched, Detection
    <2>5. CASE ~(Inc(f) >= FaultConfirmLimit)
      BY <1>3, <1>7, <2>1, <2>2, <2>3, <2>5 DEF Watched, Detection
    <2> QED BY <2>4, <2>5
  <1>8. CASE c.state = "SUSPECT" /\ d = "NONE"
    <2>1. /\ accused1 = accused
          /\ acquitted1 = Lifecycle!Count(acquitted, RecoveryConfirmLimit)
      BY <1>8 DEF AccusedBy, AcquittedBy, Definitive
    <2>2. /\ Inc(r) \in 0..255 /\ acquitted1 \in Nat
          /\ Inc(r) >= RecoveryConfirmLimit => acquitted1 >= RecoveryConfirmLimit
          /\ ~(Inc(r) >= RecoveryConfirmLimit) =>
               Inc(r) < RecoveryConfirmLimit /\ Inc(r) <= acquitted1
      BY <1>2, <1>8, <2>1, AcquittedOnce
    <2>3. CASE Inc(r) >= RecoveryConfirmLimit
      <3>1. e.state = "HEALTHY" /\ e.recovery_streak = 0
        BY <1>1, <1>8, <2>3, UpdateStateCases, CtxFields
      <3> QED BY <1>3, <1>8, <2>1, <2>2, <2>3, <3>1 DEF Watched, Detection
    <2>4. CASE ~(Inc(r) >= RecoveryConfirmLimit)
      <3>1. e.state = "SUSPECT" /\ e.fault_streak = f /\ e.recovery_streak = Inc(r)
        BY <1>1, <1>8, <2>4, UpdateStateCases, CtxFields
      <3> QED BY <1>2, <1>8, <2>1, <2>2, <2>4, <3>1 DEF Watched, Detection
    <2> QED BY <2>3, <2>4
  <1> QED BY <1>4, <1>5, <1>6, <1>7, <1>8 DEF FaultType, Definitive

\* What a verdict of recovery does to a probe.
PassedBy(d, passed) ==
    IF d = "NONE" THEN Lifecycle!Count(passed, Lifecycle!PassesNeeded) ELSE passed

LEMMA ProbeEvidence ==
    ASSUME NEW c \in Context, NEW d \in FaultType, c.state \in {"PROBING", "VALIDATING"},
           NEW passed \in Nat, Probed(c, passed, FALSE),
           NEW passed1, passed1 = PassedBy(d, passed),
           NEW e, e = ProbeEvaluate(c, d)
    PROVE  /\ passed1 \in Nat
           /\ \/ e.state = "EXCLUDED" /\ passed1 = passed /\ e.recovery_streak = c.recovery_streak
              \/ /\ e.state = "VALIDATING" /\ e.recovery_streak = c.recovery_streak
                 /\ passed1 = Lifecycle!Count(passed, Lifecycle!PassesNeeded)
                 /\ Probed(e, passed1, FALSE)
              \/ /\ e.state = "HEALTHY" /\ c.state = "VALIDATING"
                 /\ passed1 = Lifecycle!Count(passed, Lifecycle!PassesNeeded)
                 /\ passed1 >= Lifecycle!PassesNeeded /\ e.validation_streak = 0
  <1>1. CASE d # "NONE"
    <2>1. e.state = "EXCLUDED" /\ e.recovery_streak = c.recovery_streak
      BY <1>1, ProbeEvaluateCases, CtxFields
    <2>2. passed1 = passed
      BY <1>1 DEF PassedBy
    <2> QED BY <2>1, <2>2
  <1>2. PICK n \in Nat, l \in 1..255, v \in 0..255 :
           /\ n = Lifecycle!PassesNeeded /\ l = RecoveryConfirmLimit /\ v = c.validation_streak
           /\ n = IF l > 2 THEN l ELSE 2
    BY Limits DEF Context
  <1>3. ASSUME d = "NONE"
        PROVE  /\ passed1 = (IF passed < n THEN passed + 1 ELSE passed) /\ passed1 \in Nat
               /\ passed1 = Lifecycle!Count(passed, Lifecycle!PassesNeeded)
    BY <1>2, <1>3, CountIs DEF PassedBy
  <1>4. CASE d = "NONE" /\ c.state = "PROBING"
    <2>1. e.state = "VALIDATING" /\ e.recovery_streak = c.recovery_streak /\ e.validation_streak = 1
      BY <1>4, ProbeEvaluateCases, CtxFields
    <2>2. 1 <= passed1
      BY <1>2, <1>3, <1>4
    <2> QED BY <1>3, <1>4, <2>1, <2>2 DEF Probed
  <1>5. CASE d = "NONE" /\ c.state = "VALIDATING"
    <2>1. v <= passed /\ v >= 1 /\ (v = 1 \/ v < l)
      BY <1>2, <1>5 DEF Probed
    <2>2. Inc(v) = v + 1
      BY <1>2, <2>1, IncIs
    <2>3. CASE v + 1 >= l
      <3>1. e.state = "HEALTHY" /\ e.validation_streak = 0
        BY <1>2, <1>5, <2>2, <2>3, ProbeEvaluateCases, CtxFields
      <3>2. passed1 >= n
        BY <1>2, <1>3, <1>5, <2>1, <2>3
      <3> QED BY <1>2, <1>3, <1>5, <3>1, <3>2
    <2>4. CASE ~(v + 1 >= l)
      <3>1. /\ e.state = "VALIDATING" /\ e.recovery_streak = c.recovery_streak
            /\ e.validation_streak = v + 1
        BY <1>2, <1>5, <2>2, <2>4, ProbeEvaluateCases, CtxFields
      <3>2. v + 1 <= passed1 /\ v + 1 >= 1 /\ v + 1 < l
        BY <1>2, <1>3, <1>5, <2>1, <2>4
      <3> QED BY <1>2, <1>3, <1>5, <3>1, <3>2 DEF Probed
    <2> QED BY <2>3, <2>4
  <1> QED BY <1>1, <1>4, <1>5

-------------------------------------------------------------------------------
(* Steps of the threads and steps of the life cycle.                         *)

States == [s \in Sensors |-> ctx[s].state]

LEMMA Stays ==
    ASSUME SameStates
    PROVE  States' = States
  BY DEF SameStates, States

LEMMA Moves ==
    ASSUME NEW s \in Sensors, SameStatesBut(s), NEW from, NEW to,
           ctx[s].state = from, ctx'[s].state = to
    PROVE  Lifecycle!Move(s, from, to)
  BY DEF Lifecycle!Move, SameStatesBut

\* A context that others do not see the change of.
LEMMA SameWatched ==
    ASSUME NEW c, NEW e, NEW a, NEW q, Watched(c, a, q),
           e.state = c.state, e.fault_streak = c.fault_streak,
           e.recovery_streak = c.recovery_streak
    PROVE  Watched(e, a, q)
  BY DEF Watched

\* A step that changes no context, and leaves a commit only when it is through.
LEMMA Quiet ==
    ASSUME TypeOK, HistoryTypes, Evidence, ctx' = ctx, UNCHANGED historyVars,
           \/ UNCHANGED <<rid, pcRecovery, pending>>
           \/ pcRecovery' # "commit" /\ (pcRecovery = "commit" => pending = {})
    PROVE  /\ HistoryTypes' /\ Evidence'
           /\ UNCHANGED <<States, accusations, acquittals, passes>>
  <1>1. HistoryTypes' /\ UNCHANGED <<States, accusations, acquittals, passes>>
    BY DEF HistoryTypes, historyVars, States
  <1>2. \A s \in Sensors : Watched(ctx'[s], accusations'[s], acquittals'[s])
    BY DEF Evidence, historyVars
  <1>3. CASE UNCHANGED <<rid, pcRecovery, pending>>
    BY <1>1, <1>2, <1>3 DEF Evidence, historyVars, Committing
  <1>4. CASE pcRecovery' # "commit" /\ (pcRecovery = "commit" => pending = {})
    <2>1. ASSUME NEW s \in Sensors PROVE Probed(ctx'[s], passes'[s], Committing(s)')
      <3>1. Probed(ctx[s], passes[s], Committing(s)) /\ passes' = passes
        BY DEF Evidence, historyVars
      <3>2. Committing(s) => ctx[s].state # "VALIDATING"
        BY <1>4 DEF Evidence, Committing
      <3> QED BY <3>1, <3>2 DEF Probed
    <2> QED BY <1>1, <1>2, <1>4, <2>1 DEF Evidence
  <1> QED BY <1>3, <1>4

LEMMA FdiUpdateEvidence ==
    ASSUME TypeOK, Ownership, HistoryTypes, Evidence, FdiUpdate, RecordDetection
    PROVE  /\ HistoryTypes' /\ Evidence'
           /\ [Lifecycle!LNext]_<<States, accusations, acquittals, passes>>
  <1>0. PICK s \in Sensors : s = Cur
    BY CurIsSensor
  <1> DEFINE accused == AccusedBy(ctx[s], detected, accusations[s])
             acquitted == AcquittedBy(ctx[s], detected, acquittals[s])
  <1>1. s \in Sensors /\ ctx[s] \in Context /\ detected \in FaultType
    BY DEF TypeOK
  <1>2. SameStatesBut(s)
    BY <1>0, FdiUpdateStates
  <1>3. /\ UNCHANGED <<rid, pcRecovery, pending, passes>>
        /\ passes \in [Sensors -> Nat] /\ accusations \in [Sensors -> Nat]
        /\ acquittals \in [Sensors -> Nat]
    BY DEF FdiUpdate, recoveryVars, RecordDetection, HistoryTypes
  <1>4. \A t \in Sensors \ {s} : ctx'[t] = ctx[t]
    BY <1>0, <1>1 DEF FdiUpdate, TypeOK
  <1>5. CASE before \notin {"HEALTHY", "SUSPECT"}
    <2>1. accusations' = accusations /\ acquittals' = acquittals
      BY <1>0, <1>1, <1>3, <1>5 DEF RecordDetection
    <2>2. ctx'[s] = [ctx[s] EXCEPT !.last_fault = detected]
      BY <1>0, <1>1, <1>5 DEF FdiUpdate, TypeOK
    <2>3. /\ ctx'[s].state = ctx[s].state /\ ctx'[s].fault_streak = ctx[s].fault_streak
          /\ ctx'[s].recovery_streak = ctx[s].recovery_streak
          /\ ctx'[s].validation_streak = ctx[s].validation_streak
      BY <1>1, <2>2 DEF Context
    <2>4. SameStates
      BY <1>2, <2>3 DEF SameStates, SameStatesBut
    <2>5. \A t \in Sensors : Watched(ctx'[t], accusations'[t], acquittals'[t])
      BY <1>1, <1>4, <2>1, <2>3, SameWatched DEF Evidence
    <2>6. \A t \in Sensors : Probed(ctx'[t], passes'[t], Committing(t)')
      BY <1>1, <1>3, <1>4, <2>3 DEF Evidence, Probed, Committing
    <2>7. Evidence'
      BY <1>3, <2>4, <2>5, <2>6 DEF Evidence, SameStates, TypeOK
    <2>8. UNCHANGED <<States, accusations, acquittals, passes>>
      BY <1>3, <2>1, <2>4, Stays
    <2> QED BY <1>3, <2>1, <2>7, <2>8 DEF HistoryTypes
  <1>6. CASE before \in {"HEALTHY", "SUSPECT"}
    <2>1. ctx[s].state = before /\ ctx[s].state \in {"HEALTHY", "SUSPECT"}
      BY <1>0, <1>6 DEF FdiUpdate, Ownership, DetectorOwned
    <2>2. PICK e : e = UpdateState(ctx[s], detected)
      OBVIOUS
    <2>3. e \in Context
      BY <1>1, <2>2, UpdateStateType
    <2>4. ctx'[s] = [e EXCEPT !.last_fault = detected]
      BY <1>0, <1>1, <1>6, <2>2 DEF FdiUpdate, TypeOK
    <2>5. /\ ctx'[s].state = e.state /\ ctx'[s].fault_streak = e.fault_streak
          /\ ctx'[s].recovery_streak = e.recovery_streak
      BY <2>3, <2>4 DEF Context
    <2>6. /\ accusations' = [accusations EXCEPT ![s] = accused]
          /\ acquittals' = [acquittals EXCEPT ![s] = acquitted]
      BY <1>0, <1>6, <2>1 DEF RecordDetection, AccusedBy, AcquittedBy
    <2>7. Watched(ctx[s], accusations[s], acquittals[s])
      BY <1>1 DEF Evidence
    <2>8. /\ accused \in Nat /\ acquitted \in Nat
          /\ Watched(e, accused, acquitted)
          /\ Detection(ctx[s].state, e.state, accusations[s], acquittals[s], accused, acquitted)
      BY <1>1, <1>3, <2>1, <2>2, <2>7, DetectionEvidence
    <2> HIDE DEF accused, acquitted
    <2>9. HistoryTypes'
      BY <1>3, <2>6, <2>8 DEF HistoryTypes
    <2>10. accusations'[s] = accused /\ acquittals'[s] = acquitted
      BY <1>1, <1>3, <2>6
    <2>11. \A t \in Sensors : Watched(ctx'[t], accusations'[t], acquittals'[t])
      <3>1. Watched(ctx'[s], accusations'[s], acquittals'[s])
        BY <2>5, <2>8, <2>10, SameWatched
      <3>2. ASSUME NEW t \in Sensors \ {s}
            PROVE  Watched(ctx'[t], accusations'[t], acquittals'[t])
        BY <1>1, <1>3, <1>4, <2>6 DEF Evidence
      <3> QED BY <3>1, <3>2
    <2>12. e.state # "VALIDATING"
      BY <2>1, <2>8 DEF Detection
    <2>13. \A t \in Sensors : Probed(ctx'[t], passes'[t], Committing(t)')
      <3>1. Probed(ctx'[s], passes'[s], Committing(s)')
        BY <2>5, <2>12 DEF Probed
      <3>2. ASSUME NEW t \in Sensors \ {s} PROVE Probed(ctx'[t], passes'[t], Committing(t)')
        BY <1>3, <1>4 DEF Evidence, Committing
      <3> QED BY <3>1, <3>2
    <2>14. Evidence'
      <3>1. ctx'[rid].state = "VALIDATING" => ctx[rid].state = "VALIDATING"
        BY <1>1, <1>4, <2>5, <2>12 DEF TypeOK
      <3> QED BY <1>3, <2>11, <2>13, <3>1 DEF Evidence
    <2>15. [Lifecycle!LNext]_<<States, accusations, acquittals, passes>>
      <3>1. \A from, to : ctx[s].state = from /\ e.state = to => Lifecycle!Move(s, from, to)
        BY <1>1, <1>2, <2>5, Moves
      <3>2. CASE /\ e.state = ctx[s].state /\ accused = accusations[s]
                 /\ acquitted = acquittals[s]
        <4>1. accusations' = accusations /\ acquittals' = acquittals
          BY <1>3, <2>6, <3>2
        <4>2. SameStates
          BY <1>2, <2>5, <3>2 DEF SameStates, SameStatesBut
        <4> QED BY <1>3, <4>1, <4>2, Stays
      <3>3. CASE /\ ctx[s].state = "HEALTHY" /\ e.state = "SUSPECT"
                 /\ accused = 0 /\ acquitted = 0
        <4>1. Lifecycle!Suspect(s)
          BY <1>3, <2>6, <3>1, <3>3 DEF Lifecycle!Suspect
        <4> QED BY <1>1, <4>1 DEF Lifecycle!LNext
      <3>4. ASSUME e.state = ctx[s].state PROVE UNCHANGED States
        BY <1>2, <2>5, <3>4, Stays DEF SameStates, SameStatesBut
      <3>5. States[s] = ctx[s].state
        BY <1>1 DEF States
      <3>6. CASE /\ ctx[s].state = "SUSPECT" /\ acquitted = 0
                 /\ accused = Lifecycle!Count(accusations[s], Lifecycle!AccusationsNeeded)
                 /\ \/ e.state = ctx[s].state
                    \/ accused >= Lifecycle!AccusationsNeeded /\ e.state = "FAULTED"
        <4>1. Lifecycle!Accuse(s)
          BY <1>1, <1>3, <2>6, <2>10, <3>1, <3>4, <3>5, <3>6 DEF Lifecycle!Accuse, States
        <4> QED BY <1>1, <4>1 DEF Lifecycle!LNext
      <3>7. CASE /\ ctx[s].state = "SUSPECT" /\ e.state = ctx[s].state
                 /\ accused = accusations[s] /\ acquitted = 0
        <4>1. Lifecycle!Doubt(s)
          BY <1>1, <1>3, <2>6, <2>10, <3>4, <3>5, <3>7 DEF Lifecycle!Doubt, States
        <4> QED BY <1>1, <4>1 DEF Lifecycle!LNext
      <3>8. CASE /\ ctx[s].state = "SUSPECT" /\ accused = accusations[s]
                 /\ acquitted = Lifecycle!Count(acquittals[s], RecoveryConfirmLimit)
                 /\ \/ e.state = ctx[s].state
                    \/ acquitted >= RecoveryConfirmLimit /\ e.state = "HEALTHY"
        <4>1. Lifecycle!Acquit(s)
          BY <1>1, <1>3, <2>6, <2>10, <3>1, <3>4, <3>5, <3>8 DEF Lifecycle!Acquit, States
        <4> QED BY <1>1, <4>1 DEF Lifecycle!LNext
      <3> QED BY <2>8, <3>2, <3>3, <3>6, <3>7, <3>8 DEF Detection
    <2> QED BY <2>9, <2>14, <2>15
  <1> QED BY <1>5, <1>6

LEMMA FdiIsolateEvidence ==
    ASSUME TypeOK, Ownership, HistoryTypes, Evidence, FdiIsolate, UNCHANGED historyVars
    PROVE  /\ HistoryTypes' /\ Evidence'
           /\ [Lifecycle!LNext]_<<States, accusations, acquittals, passes>>
  <1>0. PICK s \in Sensors : s = Cur
    BY CurIsSensor
  <1>1. /\ UNCHANGED <<rid, pcRecovery, pending, accusations, acquittals, passes>>
        /\ HistoryTypes' /\ ctx[s] \in Context
    BY DEF FdiIsolate, recoveryVars, historyVars, HistoryTypes, TypeOK
  <1>2. ctx[s].state = "FAULTED" /\ ctx'[s].state = "EXCLUDED" /\ SameStatesBut(s)
    BY <1>0, FdiIsolateStates
  <1>3. ctx' = [ctx EXCEPT ![s] = Isolate(ctx[s])] /\ ctx \in [Sensors -> Context]
    BY <1>0 DEF FdiIsolate, TypeOK
  <1>4. /\ \A t \in Sensors \ {s} : ctx'[t] = ctx[t]
        /\ ctx'[s].recovery_streak = ctx[s].recovery_streak
    BY <1>1, <1>2, <1>3 DEF Isolate, Context
  <1>5. Watched(ctx'[s], accusations'[s], acquittals'[s])
    BY <1>1, <1>2, <1>4 DEF Evidence, Watched
  <1>6. Probed(ctx'[s], passes'[s], Committing(s)')
    BY <1>2 DEF Probed
  <1>7. ASSUME NEW t \in Sensors
        PROVE  /\ Watched(ctx'[t], accusations'[t], acquittals'[t])
               /\ Probed(ctx'[t], passes'[t], Committing(t)')
    <2>1. CASE t = s
      BY <1>5, <1>6, <2>1
    <2>2. CASE t # s
      BY <1>1, <1>4, <2>2 DEF Evidence, Committing
    <2> QED BY <2>1, <2>2
  <1>8. ctx'[rid].state = "VALIDATING" => ctx[rid].state = "VALIDATING"
    BY <1>2, <1>4 DEF TypeOK
  <1>9. Evidence'
    BY <1>1, <1>7, <1>8 DEF Evidence
  <1>10. Lifecycle!Exclude(s)
    BY <1>1, <1>2, Moves DEF Lifecycle!Exclude
  <1> QED BY <1>1, <1>9, <1>10 DEF Lifecycle!LNext

LEMMA RecoveryExcludedEvidence ==
    ASSUME TypeOK, HistoryTypes, Evidence, RecoveryExcluded, RecordProbe
    PROVE  /\ HistoryTypes' /\ Evidence'
           /\ [Lifecycle!LNext]_<<States, accusations, acquittals, passes>>
  <1>0. PICK s \in Sensors : s = rid /\ s = rid'
    BY DEF TypeOK, RecoveryExcluded
  <1>1. /\ pcRecovery = "dispatch" /\ pcRecovery' = "receive"
        /\ UNCHANGED <<accusations, acquittals>> /\ passes \in [Sensors -> Nat]
        /\ passes' = [passes EXCEPT ![s] = IF ctx'[s].state # ctx[s].state THEN 0 ELSE @]
    BY <1>0 DEF RecoveryExcluded, RecordProbe, HistoryTypes
  <1>2. HistoryTypes'
    BY <1>1 DEF HistoryTypes
  <1>3. CASE ctx' = ctx
    <2>1. passes' = passes
      BY <1>1, <1>3
    <2> QED BY <1>1, <1>3, <2>1, Quiet DEF historyVars
  <1>4. CASE ctx' # ctx
    <2>1. /\ ctx[s].state = "EXCLUDED" /\ ctx'[s].state = "PROBING" /\ SameStatesBut(s)
          /\ ctx' = [ctx EXCEPT ![s] = StartProbe(ctx[s])] /\ ctx \in [Sensors -> Context]
      BY <1>0, <1>4, RecoveryExcludedStates DEF RecoveryExcluded, TypeOK
    <2>2. passes' = [passes EXCEPT ![s] = 0]
      BY <1>1, <2>1
    <2>3. /\ \A t \in Sensors \ {s} : ctx'[t] = ctx[t]
          /\ ctx'[s].recovery_streak = ctx[s].recovery_streak
      BY <2>1, CtxFields DEF StartProbe
    <2>4. Watched(ctx'[s], accusations'[s], acquittals'[s])
      BY <1>1, <2>1, <2>3 DEF Evidence, Watched
    <2>5. Probed(ctx'[s], passes'[s], Committing(s)')
      BY <2>1 DEF Probed
    <2>6. ASSUME NEW t \in Sensors
          PROVE  /\ Watched(ctx'[t], accusations'[t], acquittals'[t])
                 /\ Probed(ctx'[t], passes'[t], Committing(t)')
      <3>1. CASE t = s
        BY <2>4, <2>5, <3>1
      <3>2. CASE t # s
        <4>1. /\ Probed(ctx[t], passes[t], Committing(t))
              /\ Watched(ctx[t], accusations[t], acquittals[t])
              /\ passes'[t] = passes[t] /\ ctx'[t] = ctx[t] /\ ~Committing(t)
          BY <1>0, <1>1, <2>2, <2>3, <3>2 DEF Evidence, Committing
        <4> QED BY <1>1, <4>1 DEF Probed
      <3> QED BY <3>1, <3>2
    <2>7. Evidence'
      BY <1>1, <2>6 DEF Evidence
    <2>8. Lifecycle!Probe(s)
      BY <1>1, <2>1, <2>2, Moves DEF Lifecycle!Probe
    <2> QED BY <1>2, <2>7, <2>8 DEF Lifecycle!LNext
  <1> QED BY <1>3, <1>4

LEMMA RecoveryEvaluateEvidence ==
    ASSUME TypeOK, Ownership, HistoryTypes, Evidence, RecoveryEvaluate, RecordPass
    PROVE  /\ HistoryTypes' /\ Evidence'
           /\ [Lifecycle!LNext]_<<States, accusations, acquittals, passes>>
  <1>0. PICK s \in Sensors : s = rid /\ s = rid'
    BY DEF TypeOK, RecoveryEvaluate
  <1>1. PICK e, passed : /\ e = ProbeEvaluate(ctx[s], verdict)
                         /\ passed = PassedBy(verdict, passes[s])
    OBVIOUS
  <1>2. /\ pcRecovery = "evaluate" /\ UNCHANGED <<accusations, acquittals>>
        /\ passes' = [passes EXCEPT ![s] = passed] /\ passes \in [Sensors -> Nat]
        /\ ctx[s] \in Context /\ verdict \in FaultType /\ ctx \in [Sensors -> Context]
        /\ ctx[s].state \in {"PROBING", "VALIDATING"}
    BY <1>0, <1>1 DEF RecoveryEvaluate, RecordPass, PassedBy, HistoryTypes, TypeOK, Ownership
  <1>3. Watched(ctx[s], accusations[s], acquittals[s]) /\ Probed(ctx[s], passes[s], FALSE)
    <2>1. ~Committing(s)
      BY <1>2 DEF Committing
    <2>2. Probed(ctx[s], passes[s], Committing(s))
      BY DEF Evidence
    <2> QED BY <2>1, <2>2 DEF Evidence, Probed
  <1>4. /\ passed \in Nat
        /\ \/ /\ e.state = "EXCLUDED" /\ passed = passes[s]
              /\ e.recovery_streak = ctx[s].recovery_streak
           \/ /\ e.state = "VALIDATING" /\ e.recovery_streak = ctx[s].recovery_streak
              /\ passed = Lifecycle!Count(passes[s], Lifecycle!PassesNeeded)
              /\ Probed(e, passed, FALSE)
           \/ /\ e.state = "HEALTHY" /\ ctx[s].state = "VALIDATING"
              /\ passed = Lifecycle!Count(passes[s], Lifecycle!PassesNeeded)
              /\ passed >= Lifecycle!PassesNeeded /\ e.validation_streak = 0
    BY <1>1, <1>2, <1>3, ProbeEvidence DEF Probed
  <1>5. HistoryTypes' /\ passes'[s] = passed
    BY <1>2, <1>4 DEF HistoryTypes
  <1>6. PICK g : /\ ctx' = [ctx EXCEPT ![s] = g]
                 /\ g = IF e.state = "HEALTHY"
                        THEN Ctx(ctx[s].state, e.last_fault, ctx[s].fault_streak,
                                 ctx[s].recovery_streak, e.validation_streak)
                        ELSE e
    BY <1>0, <1>1, <1>2 DEF RecoveryEvaluate
  <1>7. ctx'[s] = g /\ (\A t \in Sensors \ {s} : ctx'[t] = ctx[t]) /\ SameStatesBut(s)
    BY <1>2, <1>6 DEF SameStatesBut
  <1>8. /\ g.recovery_streak = ctx[s].recovery_streak
        /\ g.state = IF e.state = "HEALTHY" THEN "VALIDATING" ELSE e.state
    <2>1. CASE e.state = "HEALTHY"
      BY <1>4, <1>6, <2>1, CtxFields
    <2>2. CASE e.state # "HEALTHY"
      <3>1. g = e
        BY <1>6, <2>2
      <3> QED BY <1>4, <2>2, <3>1
    <2> QED BY <2>1, <2>2
  <1>9. Watched(g, accusations'[s], acquittals'[s])
    <2>1. g.state # "SUSPECT" /\ ctx[s].recovery_streak = 0
      BY <1>2, <1>3, <1>4, <1>8 DEF Watched
    <2> QED BY <1>2, <1>3, <1>8, <2>1 DEF Watched
  <1>10. /\ e.state = "HEALTHY" => pcRecovery' = "commit" /\ pending' = ReinstatedFields
         /\ e.state # "HEALTHY" => pcRecovery' = "receive"
    BY <1>0, <1>1 DEF RecoveryEvaluate
  <1>11. Probed(g, passed, Committing(s)')
    <2>1. CASE e.state = "HEALTHY"
      <3>1. g.validation_streak = 0 /\ g.state = "VALIDATING"
        BY <1>4, <1>6, <2>1, CtxFields
      <3>2. Committing(s)'
        BY <1>0, <1>10, <2>1 DEF Committing
      <3> QED BY <1>4, <3>1, <3>2 DEF Probed
    <2>2. CASE e.state # "HEALTHY"
      BY <1>4, <1>6, <2>2 DEF Probed
    <2> QED BY <2>1, <2>2
  <1>12. ASSUME NEW t \in Sensors
         PROVE  /\ Watched(ctx'[t], accusations'[t], acquittals'[t])
                /\ Probed(ctx'[t], passes'[t], Committing(t)')
    <2>1. CASE t = s
      BY <1>5, <1>7, <1>9, <1>11, <2>1
    <2>2. CASE t # s
      <3>1. /\ Probed(ctx[t], passes[t], Committing(t))
            /\ Watched(ctx[t], accusations[t], acquittals[t])
            /\ passes'[t] = passes[t] /\ ctx'[t] = ctx[t] /\ ~Committing(t)
        BY <1>0, <1>2, <1>7, <2>2 DEF Evidence, Committing
      <3> QED BY <1>2, <3>1 DEF Probed
    <2> QED BY <2>1, <2>2
  <1>13. pcRecovery' = "commit" => "state" \in pending' /\ passes'[rid'] >= Lifecycle!PassesNeeded
    BY <1>0, <1>4, <1>5, <1>10 DEF ReinstatedFields
  <1>14. Evidence'
    BY <1>12, <1>13 DEF Evidence
  <1>15. [Lifecycle!LNext]_<<States, accusations, acquittals, passes>>
    <2>1. \A from, to : ctx[s].state = from /\ g.state = to => Lifecycle!Move(s, from, to)
      BY <1>7, Moves
    <2>2. ctx[s].state = g.state => UNCHANGED States
      BY <1>7, Stays DEF SameStates, SameStatesBut
    <2>3. States[s] = ctx[s].state
      BY DEF States
    <2>4. CASE e.state = "EXCLUDED"
      <3>1. g.state = "EXCLUDED" /\ passes' = passes
        BY <1>2, <1>4, <1>6, <2>4
      <3>2. Lifecycle!Fail(s)
        BY <1>2, <2>1, <3>1 DEF Lifecycle!Fail
      <3> QED BY <3>2 DEF Lifecycle!LNext
    <2>5. CASE e.state # "EXCLUDED"
      <3>1. /\ g.state = "VALIDATING"
            /\ passed = Lifecycle!Count(passes[s], Lifecycle!PassesNeeded)
        BY <1>4, <1>8, <2>5
      <3>2. Lifecycle!Pass(s)
        BY <1>2, <2>1, <2>2, <2>3, <3>1 DEF Lifecycle!Pass, States
      <3> QED BY <3>2 DEF Lifecycle!LNext
    <2> QED BY <2>4, <2>5
  <1> QED BY <1>5, <1>14, <1>15

LEMMA RecoveryStoreEvidence ==
    ASSUME TypeOK, Ownership, HistoryTypes, Evidence, RecoveryStore, UNCHANGED historyVars
    PROVE  /\ HistoryTypes' /\ Evidence'
           /\ [Lifecycle!LNext]_<<States, accusations, acquittals, passes>>
  <1>0. PICK s \in Sensors : s = rid /\ s = rid'
    BY DEF TypeOK, RecoveryStore
  <1>1. /\ pcRecovery = "commit" /\ pcRecovery' = "commit"
        /\ UNCHANGED <<accusations, acquittals, passes>> /\ HistoryTypes'
        /\ ctx[s] \in Context /\ ctx \in [Sensors -> Context] /\ pending \subseteq ReinstatedFields
        /\ Watched(ctx[s], accusations[s], acquittals[s])
        /\ Probed(ctx[s], passes[s], TRUE)
    <2>1. Committing(s) /\ Probed(ctx[s], passes[s], Committing(s))
      BY <1>0 DEF RecoveryStore, Committing, Evidence
    <2> QED BY <2>1 DEF RecoveryStore, historyVars, HistoryTypes, TypeOK, Evidence, Probed
  <1>2. PICK field \in pending :
          /\ ctx' = [ctx EXCEPT ![s] =
                        CASE field = "state"           -> [@ EXCEPT !.state = "HEALTHY"]
                          [] field = "fault_streak"    -> [@ EXCEPT !.fault_streak = 0]
                          [] field = "recovery_streak" -> [@ EXCEPT !.recovery_streak = 0]]
          /\ pending' = pending \ {field}
    BY <1>0 DEF RecoveryStore
  <1>3. PICK g : g = ctx'[s]
    OBVIOUS
  <1>4. (\A t \in Sensors \ {s} : ctx'[t] = ctx[t]) /\ SameStatesBut(s)
    BY <1>1, <1>2 DEF SameStatesBut
  <1>5. /\ field = "state" => /\ g.state = "HEALTHY"
                              /\ g.recovery_streak = ctx[s].recovery_streak
        /\ field = "fault_streak" => /\ g.state = ctx[s].state /\ g.fault_streak = 0
                                     /\ g.recovery_streak = ctx[s].recovery_streak
                                     /\ g.validation_streak = ctx[s].validation_streak
        /\ field = "recovery_streak" => /\ g.state = ctx[s].state /\ g.recovery_streak = 0
                                        /\ g.fault_streak = ctx[s].fault_streak
                                        /\ g.validation_streak = ctx[s].validation_streak
        /\ field \in {"state", "fault_streak", "recovery_streak"}
    <2>1. field \in {"state", "fault_streak", "recovery_streak"}
      BY <1>1 DEF ReinstatedFields
    <2>2. CASE field = "state"
      <3>1. g = [ctx[s] EXCEPT !.state = "HEALTHY"]
        BY <1>1, <1>2, <1>3, <2>2
      <3> QED BY <1>1, <2>2, <3>1 DEF Context
    <2>3. CASE field = "fault_streak"
      <3>1. g = [ctx[s] EXCEPT !.fault_streak = 0]
        BY <1>1, <1>2, <1>3, <2>3
      <3> QED BY <1>1, <2>3, <3>1 DEF Context
    <2>4. CASE field = "recovery_streak"
      <3>1. g = [ctx[s] EXCEPT !.recovery_streak = 0]
        BY <1>1, <1>2, <1>3, <2>4
      <3> QED BY <1>1, <2>4, <3>1 DEF Context
    <2> QED BY <2>1, <2>2, <2>3, <2>4
  <1>6. field = "state" => /\ ctx[s].state = "VALIDATING"
                           /\ passes[s] >= Lifecycle!PassesNeeded
    BY <1>0, <1>1 DEF Ownership, Evidence
  <1>7. Watched(g, accusations[s], acquittals[s])
    <2>1. accusations[s] \in Nat /\ acquittals[s] \in Nat /\ 0 < RecoveryConfirmLimit
      BY Limits DEF HistoryTypes
    <2>2. CASE field = "state"
      BY <1>1, <1>5, <1>6, <2>1, <2>2 DEF Watched
    <2>3. CASE field = "fault_streak"
      BY <1>1, <1>5, <2>1, <2>3 DEF Watched
    <2>4. CASE field = "recovery_streak"
      BY <1>1, <1>5, <2>1, <2>4 DEF Watched
    <2> QED BY <1>5, <2>2, <2>3, <2>4
  <1>8. Probed(g, passes[s], TRUE)
    BY <1>1, <1>5 DEF Probed
  <1>9. ASSUME NEW t \in Sensors
        PROVE  /\ Watched(ctx'[t], accusations'[t], acquittals'[t])
               /\ Probed(ctx'[t], passes'[t], Committing(t)')
    <2>1. CASE t = s
      <3>1. Committing(s)'
        BY <1>0, <1>1 DEF Committing
      <3>2. Probed(ctx'[t], passes'[t], Committing(t)')
        BY <1>1, <1>3, <1>8, <2>1, <3>1 DEF Probed
      <3> QED BY <1>1, <1>3, <1>7, <2>1, <3>2
    <2>2. CASE t # s
      BY <1>0, <1>1, <1>4, <2>2 DEF Evidence, Committing
    <2> QED BY <2>1, <2>2
  <1>10. IF "state" \in pending' THEN passes'[s] >= Lifecycle!PassesNeeded
         ELSE ctx'[s].state # "VALIDATING"
    <2>1. CASE field = "state"
      BY <1>2, <1>3, <1>5, <2>1
    <2>2. CASE field # "state"
      <3>1. ("state" \in pending' <=> "state" \in pending) /\ ctx'[s].state = ctx[s].state
        BY <1>2, <1>3, <1>5, <2>2
      <3> QED BY <1>0, <1>1, <3>1 DEF Evidence
    <2> QED BY <2>1, <2>2
  <1>11. Evidence'
    BY <1>0, <1>9, <1>10 DEF Evidence
  <1>12. [Lifecycle!LNext]_<<States, accusations, acquittals, passes>>
    <2>1. CASE field = "state"
      <3>1. Lifecycle!Move(s, "VALIDATING", "HEALTHY")
        BY <1>3, <1>4, <1>5, <1>6, <2>1, Moves
      <3>2. Lifecycle!Reinstate(s)
        BY <1>1, <1>6, <2>1, <3>1 DEF Lifecycle!Reinstate
      <3> QED BY <3>2 DEF Lifecycle!LNext
    <2>2. CASE field # "state"
      <3>1. SameStates
        BY <1>3, <1>4, <1>5, <2>2 DEF SameStates, SameStatesBut
      <3> QED BY <1>1, <3>1, Stays
    <2> QED BY <2>1, <2>2
  <1> QED BY <1>1, <1>11, <1>12

-------------------------------------------------------------------------------
(* The invariant and what follows from it.                                   *)

HInv == IInv /\ HistoryTypes /\ Evidence

LEMMA HInvInit == HInit => HInv /\ Lifecycle!LInit
  <1> SUFFICES ASSUME HInit PROVE HInv /\ Lifecycle!LInit
    OBVIOUS
  <1>1. IInv
    BY IInvInit DEF HInit
  <1>2. /\ accusations = [s \in Sensors |-> 0] /\ acquittals = [s \in Sensors |-> 0]
        /\ passes = [s \in Sensors |-> 0] /\ pcRecovery = "receive"
        /\ ctx = [s \in Sensors |-> ContextInit]
    BY DEF HInit, Init
  <1>3. HistoryTypes
    BY <1>2 DEF HistoryTypes
  <1>4. ASSUME NEW s \in Sensors
        PROVE  /\ Watched(ctx[s], accusations[s], acquittals[s])
               /\ Probed(ctx[s], passes[s], Committing(s))
    <2>1. ctx[s].state = "HEALTHY" /\ ctx[s].recovery_streak = 0
      BY <1>2 DEF ContextInit
    <2>2. 0 < RecoveryConfirmLimit
      BY Limits
    <2> QED BY <2>1, <2>2 DEF Watched, Probed
  <1>5. Evidence
    BY <1>2, <1>4 DEF Evidence
  <1>6. [s \in Sensors |-> ctx[s].state] = [s \in Sensors |-> "HEALTHY"]
    BY <1>2 DEF ContextInit
  <1>7. Lifecycle!LInit
    BY <1>2, <1>6 DEF Lifecycle!LInit
  <1> QED BY <1>1, <1>3, <1>5, <1>7 DEF HInv

\* Every step keeps the invariant and is a step of the life cycle, or of none.
LEMMA HInvNext ==
    ASSUME HInv, [HNext]_hvars
    PROVE  HInv' /\ [Lifecycle!LNext]_<<States, accusations, acquittals, passes>>
  <1> DEFINE Stepped == /\ HistoryTypes' /\ Evidence'
                        /\ [Lifecycle!LNext]_<<States, accusations, acquittals, passes>>
  <1>1. TypeOK /\ Ownership /\ HistoryTypes /\ Evidence
    BY DEF HInv, IInv
  <1>2. IInv'
    <2>1. [Next]_vars
      BY DEF HNext, hvars, Next, SensorStep, FdiStep, RecoveryStep, LoggerStep
    <2> QED BY <2>1, IInvNext DEF HInv
  <1>3. CASE FdiUpdate /\ RecordDetection
    BY <1>1, <1>2, <1>3, FdiUpdateEvidence DEF HInv
  <1>4. CASE RecoveryEvaluate /\ RecordPass
    BY <1>1, <1>2, <1>4, RecoveryEvaluateEvidence DEF HInv
  <1>5. CASE RecoveryExcluded /\ RecordProbe
    BY <1>1, <1>2, <1>5, RecoveryExcludedEvidence DEF HInv
  <1>6. CASE FdiIsolate /\ UNCHANGED historyVars
    BY <1>1, <1>2, <1>6, FdiIsolateEvidence DEF HInv
  <1>7. CASE RecoveryStore /\ UNCHANGED historyVars
    BY <1>1, <1>2, <1>7, RecoveryStoreEvidence DEF HInv
  <1>8. ASSUME ctx' = ctx, UNCHANGED historyVars,
               \/ UNCHANGED <<rid, pcRecovery, pending>>
               \/ pcRecovery' # "commit" /\ (pcRecovery = "commit" => pending = {})
        PROVE  Stepped
    BY <1>1, <1>8, Quiet
  <1>9. CASE /\ UNCHANGED historyVars
             /\ \/ SensorStep \/ LoggerStep \/ FdiReceive \/ FdiDetect \/ FdiPublish
                \/ FdiLog \/ FdiSkipRecovery
    <2>1. ctx' = ctx /\ UNCHANGED <<rid, pcRecovery, pending>>
      BY <1>9 DEF SensorStep, SensorUnattended, FuseSkip, FuseAdmit, FuseWeigh, LoggerStep,
            LoggerOpen, LoggerOpenFails, FdiReceive, FdiDetect, FdiPublish, FdiLog,
            FdiSkipRecovery, recoveryVars
    <2> QED BY <1>2, <1>8, <1>9, <2>1 DEF HInv
  <1>10. CASE /\ UNCHANGED historyVars
              /\ \/ RecoveryReceive \/ RecoveryDetect \/ RecoveryExpire \/ RecoverySettle
                 \/ RecoveryLogTimeout \/ RecoveryLogPermanent
    <2>1. ctx' = ctx
      BY <1>1, <1>10, RecoveryExpireStates DEF RecoveryReceive, RecoveryDetect,
            RecoverySettle, RecoveryLogTimeout, RecoveryLogPermanent
    <2>2. pcRecovery' # "commit" /\ (pcRecovery = "commit" => pending = {})
      BY <1>10 DEF RecoveryReceive, RecoveryDetect, RecoveryExpire, RecoverySettle,
            RecoveryLogTimeout, RecoveryLogPermanent
    <2> QED BY <1>2, <1>8, <1>10, <2>1, <2>2 DEF HInv
  <1>11. CASE UNCHANGED hvars
    <2>1. ctx' = ctx /\ UNCHANGED historyVars /\ UNCHANGED <<rid, pcRecovery, pending>>
      BY <1>11 DEF hvars, vars, recoveryVars
    <2> QED BY <1>2, <1>8, <2>1 DEF HInv
  <1> HIDE DEF Stepped
  <1> QED BY <1>3, <1>4, <1>5, <1>6, <1>7, <1>9, <1>10, <1>11 DEF HNext

THEOREM EvidenceHolds == HSpec => []HInv
  <1>1. HInv /\ [HNext]_hvars => HInv'
    BY HInvNext
  <1> QED BY HInvInit, <1>1, PTL DEF HSpec

\* No streak is ever at a limit that would have moved the sensor, for any limits, whichever
\* thread reset it last.
THEOREM StreaksStayBelow == HSpec => []StreaksBelowLimits
  <1>1. HInv => StreaksBelowLimits
    <2> SUFFICES ASSUME HInv, NEW s \in Sensors
                 PROVE  /\ Watched(ctx[s], accusations[s], acquittals[s])
                        /\ Probed(ctx[s], passes[s], Committing(s))
                        /\ pcRecovery = "evaluate" => ~Committing(s)
      BY DEF StreaksBelowLimits, Watched, Probed
    <2> QED BY DEF HInv, Evidence, Committing
  <1> QED BY <1>1, EvidenceHolds, PTL

\* The race on a reinstated sensor can lose a streak and never makes one up.
THEOREM StreaksAreEarned == HSpec => []StreaksHaveEvidence
  <1>1. HInv => StreaksHaveEvidence
    BY DEF HInv, Evidence, Watched, Probed, StreaksHaveEvidence
  <1> QED BY <1>1, EvidenceHolds, PTL

\* The four threads implement the life cycle: nothing happens to a sensor out of its order or
\* without its evidence, for any number of sensors, limits, times, pauses and connections.
THEOREM ThreadsImplementLifecycle == HSpec => ImplementsLifecycle
  <1>1. HInv /\ [HNext]_hvars
          => [Lifecycle!LNext]_<<[s \in Sensors |-> ctx[s].state], accusations, acquittals, passes>>
    BY HInvNext DEF States
  <1> QED BY HInvInit, <1>1, EvidenceHolds, PTL
          DEF HSpec, ImplementsLifecycle, Lifecycle!LSpec, Lifecycle!lifecycleVars
================================================================================
