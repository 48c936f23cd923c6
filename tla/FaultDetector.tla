---------------------------- MODULE FaultDetector ----------------------------
(***************************************************************************)
(* The per-sensor state machine of fault_detector.c, as operators from one *)
(* fdi_context_t to the next.  A context is the record                     *)
(*     [state, last_fault, fault_streak, recovery_streak,                  *)
(*      validation_streak]                                                 *)
(* id, redundant_id and cfg never change after fdi_context_init() and are  *)
(* the index of the context and the constants below.  The verdict of       *)
(* fdi_detect() is an argument of the operators that consume it.           *)
(***************************************************************************)
EXTENDS Naturals, SensorContract

CONSTANTS
    FaultConfirmLimit,     \* cfg.fault_confirm_limit
    RecoveryConfirmLimit   \* cfg.recovery_confirm_limit

\* Both are uint8_t; main() sets them to 3, and 0 would confirm nothing.
ASSUME LimitsAssumption ==
    /\ FaultConfirmLimit \in 1..255
    /\ RecoveryConfirmLimit \in 1..255

Context == [state             : SensorState,
            last_fault        : FaultType,
            fault_streak      : 0..255,
            recovery_streak   : 0..255,
            validation_streak : 0..255]

\* A context with the given fields.
Ctx(state, last_fault, fault_streak, recovery_streak, validation_streak) ==
    [state             |-> state,
     last_fault        |-> last_fault,
     fault_streak      |-> fault_streak,
     recovery_streak   |-> recovery_streak,
     validation_streak |-> validation_streak]

\* The streaks are uint8_t, so ++ wraps.
Inc(streak) == (streak + 1) % 256

\* A fault that singles out one sensor.  A contradiction accuses both members
\* of a pair alike.
Definitive == FaultType \ {"NONE", "CONTRADICTORY"}

-------------------------------------------------------------------------------
\* fdi_context_init()
ContextInit == [state             |-> "HEALTHY",
                last_fault        |-> "NONE",
                fault_streak      |-> 0,
                recovery_streak   |-> 0,
                validation_streak |-> 0]

\* Bug: an acquittal leaves recovery_streak as it is.
UpdateStateKeepsStreak(c, detected) ==
    LET Upd(state, fault_streak, recovery_streak) ==
            Ctx(state, detected, fault_streak, recovery_streak, c.validation_streak)
    IN  CASE c.state = "HEALTHY" /\ detected # "NONE" ->
               Upd("SUSPECT", 1, c.recovery_streak)
          [] c.state = "SUSPECT" /\ detected \in Definitive ->
               Upd(IF Inc(c.fault_streak) >= FaultConfirmLimit
                   THEN "FAULTED" ELSE "SUSPECT", Inc(c.fault_streak), 0)
          [] c.state = "SUSPECT" /\ detected = "NONE" ->
               Upd(IF Inc(c.recovery_streak) >= RecoveryConfirmLimit
                   THEN "HEALTHY" ELSE "SUSPECT", 0, Inc(c.recovery_streak))
          [] OTHER -> Upd(c.state, c.fault_streak, c.recovery_streak)

\* Bug: a contradiction counts as a fault of this very sensor.
UpdateStateBlames(c, detected) ==
    LET Upd(state, fault_streak, recovery_streak) ==
            Ctx(state, detected, fault_streak, recovery_streak, c.validation_streak)
    IN  CASE c.state = "HEALTHY" /\ detected # "NONE" ->
               Upd("SUSPECT", 1, c.recovery_streak)
          [] c.state = "SUSPECT" /\ detected # "NONE" ->
               Upd(IF Inc(c.fault_streak) >= FaultConfirmLimit
                   THEN "FAULTED" ELSE "SUSPECT", Inc(c.fault_streak), 0)
          [] c.state = "SUSPECT" /\ detected = "NONE" ->
               IF Inc(c.recovery_streak) >= RecoveryConfirmLimit
               THEN Upd("HEALTHY", 0, 0)
               ELSE Upd("SUSPECT", c.fault_streak, Inc(c.recovery_streak))
          [] OTHER -> Upd(c.state, c.fault_streak, c.recovery_streak)

\* Bug: a clean verdict does not count towards an acquittal.
UpdateStateNeverAcquits(c, detected) ==
    LET Upd(state, fault_streak, recovery_streak) ==
            Ctx(state, detected, fault_streak, recovery_streak, c.validation_streak)
    IN  CASE c.state = "HEALTHY" /\ detected # "NONE" ->
               Upd("SUSPECT", 1, c.recovery_streak)
          [] c.state = "SUSPECT" /\ detected \in Definitive ->
               Upd(IF Inc(c.fault_streak) >= FaultConfirmLimit
                   THEN "FAULTED" ELSE "SUSPECT", Inc(c.fault_streak), 0)
          [] OTHER -> Upd(c.state, c.fault_streak, c.recovery_streak)

\* fdi_update_state(): HEALTHY <-> SUSPECT -> FAULTED; every other state is kept.
UpdateState(c, detected) ==
    LET Upd(state, fault_streak, recovery_streak) ==
            Ctx(state, detected, fault_streak, recovery_streak, c.validation_streak)
    IN  CASE c.state = "HEALTHY" /\ detected # "NONE" ->
               Upd("SUSPECT", 1, c.recovery_streak)
          [] c.state = "SUSPECT" /\ detected = "CONTRADICTORY" ->
               Upd("SUSPECT", c.fault_streak, 0)
          [] c.state = "SUSPECT" /\ detected \in Definitive ->
               Upd(IF Inc(c.fault_streak) >= FaultConfirmLimit
                   THEN "FAULTED" ELSE "SUSPECT", Inc(c.fault_streak), 0)
          [] c.state = "SUSPECT" /\ detected = "NONE" ->
               IF Inc(c.recovery_streak) >= RecoveryConfirmLimit
               THEN Upd("HEALTHY", 0, 0)
               ELSE Upd("SUSPECT", c.fault_streak, Inc(c.recovery_streak))
          [] OTHER -> Upd(c.state, c.fault_streak, c.recovery_streak)

\* fdi_isolate(): acts on a FAULTED sensor and on no other.
Isolate(c) ==
    IF c.state = "FAULTED" THEN [c EXCEPT !.state = "EXCLUDED"] ELSE c

\* fdi_start_probe()
StartProbe(c) ==
    IF c.state = "EXCLUDED"
    THEN Ctx("PROBING", c.last_fault, c.fault_streak, c.recovery_streak, 0)
    ELSE c

\* Bug: one clean verdict validates.
ProbeEvaluateAtOnce(c, detected) ==
    IF detected = "NONE" THEN Ctx("HEALTHY", detected, 0, 0, 0)
    ELSE Ctx("EXCLUDED", detected, c.fault_streak, c.recovery_streak, c.validation_streak)

\* fdi_probe_evaluate(): PROBING -> VALIDATING -> HEALTHY on clean verdicts,
\* back to EXCLUDED on the first fault.
ProbeEvaluate(c, detected) ==
    LET Upd(state, validation_streak) ==
            Ctx(state, detected, c.fault_streak, c.recovery_streak, validation_streak)
    IN  CASE c.state \in {"PROBING", "VALIDATING"} /\ detected # "NONE" ->
               Upd("EXCLUDED", c.validation_streak)
          [] c.state = "PROBING" /\ detected = "NONE" ->
               Upd("VALIDATING", 1)
          [] c.state = "VALIDATING" /\ detected = "NONE" ->
               IF Inc(c.validation_streak) >= RecoveryConfirmLimit
               THEN Ctx("HEALTHY", detected, 0, 0, 0)
               ELSE Upd("VALIDATING", Inc(c.validation_streak))
          [] OTHER -> Upd(c.state, c.validation_streak)
===============================================================================
