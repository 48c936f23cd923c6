------------------------- MODULE FaultDetectorProofs -------------------------
(***************************************************************************)
(* What the operations of fault_detector.c do to one context: facts about  *)
(* single calls, which the proofs about the threads cite.                  *)
(***************************************************************************)
EXTENDS FaultDetector, TLAPS

\* A streak stays a uint8_t.
LEMMA IncType == ASSUME NEW n \in 0..255 PROVE Inc(n) \in 0..255
  BY SMT DEF Inc

\* Storing one field keeps the record a context.
LEMMA FieldUpdate ==
  ASSUME NEW c \in Context
  PROVE  /\ \A v \in SensorState : [c EXCEPT !.state = v] \in Context
         /\ \A v \in FaultType : [c EXCEPT !.last_fault = v] \in Context
         /\ \A v \in 0..255 : [c EXCEPT !.fault_streak = v] \in Context
         /\ \A v \in 0..255 : [c EXCEPT !.recovery_streak = v] \in Context
  BY DEF Context

\* Every operation returns a context.
LEMMA UpdateStateType ==
  ASSUME NEW c \in Context, NEW d \in FaultType
  PROVE  UpdateState(c, d) \in Context
<1>1. Inc(c.fault_streak) \in 0..255 /\ Inc(c.recovery_streak) \in 0..255
  BY IncType DEF Context
<1>2. QED
  BY <1>1 DEF UpdateState, Context, Ctx, SensorState, Definitive

LEMMA IsolateType ==
  ASSUME NEW c \in Context
  PROVE  Isolate(c) \in Context
  BY DEF Isolate, Context, SensorState

LEMMA StartProbeType ==
  ASSUME NEW c \in Context
  PROVE  StartProbe(c) \in Context
  BY DEF StartProbe, Context, Ctx, SensorState

LEMMA ProbeEvaluateType ==
  ASSUME NEW c \in Context, NEW d \in FaultType
  PROVE  ProbeEvaluate(c, d) \in Context
<1>1. Inc(c.validation_streak) \in 0..255
  BY IncType DEF Context
<1>2. QED
  BY <1>1 DEF ProbeEvaluate, Context, Ctx, SensorState

-------------------------------------------------------------------------------
\* fdi_update_state() moves a sensor only within the states FDI owns, and
\* leaves the others as they are.
LEMMA UpdateStateStates ==
  ASSUME NEW c \in Context, NEW d \in FaultType
  PROVE  /\ c.state \in DetectorOwned => UpdateState(c, d).state \in DetectorOwned
         /\ c.state \in RecoveryOwned => UpdateState(c, d).state = c.state
  BY DEF UpdateState, Context, Ctx, FaultType, Definitive, DetectorOwned, RecoveryOwned

\* fdi_probe_evaluate() ends a probe in EXCLUDED, continues it, or reinstates;
\* it never reinstates from PROBING.
LEMMA ProbeEvaluateStates ==
  ASSUME NEW c \in Context, NEW d \in FaultType
  PROVE  /\ c.state = "PROBING" =>
               ProbeEvaluate(c, d).state \in {"EXCLUDED", "VALIDATING"}
         /\ c.state = "VALIDATING" =>
               ProbeEvaluate(c, d).state \in {"EXCLUDED", "VALIDATING", "HEALTHY"}
  BY DEF ProbeEvaluate, Context, Ctx, SensorState

-------------------------------------------------------------------------------
(* The operations, case by case, for the proofs that follow a streak.         *)

LEMMA IncIs ==
    ASSUME NEW n \in 0..255
    PROVE  Inc(n) = IF n = 255 THEN 0 ELSE n + 1
  BY DEF Inc

LEMMA CtxFields ==
    ASSUME NEW st, NEW l, NEW f, NEW r, NEW v
    PROVE  /\ Ctx(st, l, f, r, v).state = st /\ Ctx(st, l, f, r, v).fault_streak = f
           /\ Ctx(st, l, f, r, v).recovery_streak = r
           /\ Ctx(st, l, f, r, v).validation_streak = v
           /\ Ctx(st, l, f, r, v).last_fault = l
  BY DEF Ctx

\* fdi_update_state(), case by case.
LEMMA UpdateStateCases ==
    ASSUME NEW c, NEW d
    PROVE  /\ c.state = "HEALTHY" /\ d # "NONE" =>
                UpdateState(c, d) = Ctx("SUSPECT", d, 1, c.recovery_streak, c.validation_streak)
           /\ c.state = "HEALTHY" /\ d = "NONE" =>
                UpdateState(c, d) = Ctx(c.state, d, c.fault_streak, c.recovery_streak,
                                        c.validation_streak)
           /\ c.state = "SUSPECT" /\ d = "CONTRADICTORY" =>
                UpdateState(c, d) = Ctx("SUSPECT", d, c.fault_streak, 0, c.validation_streak)
           /\ c.state = "SUSPECT" /\ d \in Definitive =>
                UpdateState(c, d) = Ctx(IF Inc(c.fault_streak) >= FaultConfirmLimit
                                        THEN "FAULTED" ELSE "SUSPECT",
                                        d, Inc(c.fault_streak), 0, c.validation_streak)
           /\ c.state = "SUSPECT" /\ d = "NONE" =>
                UpdateState(c, d) =
                   IF Inc(c.recovery_streak) >= RecoveryConfirmLimit
                   THEN Ctx("HEALTHY", d, 0, 0, c.validation_streak)
                   ELSE Ctx("SUSPECT", d, c.fault_streak, Inc(c.recovery_streak),
                            c.validation_streak)
  BY DEF UpdateState, Definitive
===============================================================================
