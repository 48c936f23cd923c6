----------------------------- MODULE FaultChecks -----------------------------
(***************************************************************************)
(* The four checks of fault_detector.c, as predicates of the histories     *)
(* they read.  A history is a sequence of value vectors, oldest first; a   *)
(* vector is a sequence of value_count integers in units of the sensor's   *)
(* resolution.                                                             *)
(***************************************************************************)
EXTENDS Integers, Sequences, SequencesExt, SensorContract

CONSTANTS
    BufferLen,               \* SENSOR_BUFFER_LEN
    DelayTimeout,            \* cfg.delay_timeout_us
    StuckThreshold,          \* cfg.stuck_threshold
    NoiseThreshold,          \* cfg.noise_threshold
    ContradictionThreshold   \* cfg.contradiction_threshold

ASSUME ThresholdsAssumption ==
    /\ BufferLen \in 1..255
    /\ DelayTimeout \in Nat /\ StuckThreshold \in Nat
    /\ NoiseThreshold \in Nat /\ ContradictionThreshold \in Nat

Distance(a, b) == IF a > b THEN a - b ELSE b - a
Components(history) == DOMAIN history[1]

\* Bug: now_us - last wraps when a sample arrived after now_us was taken.
DelayedUnguarded(now, last) == now < last \/ now - last > DelayTimeout

\* check_delayed() once the buffer is known to hold a sample.
Delayed(now, last) == now >= last /\ now - last > DelayTimeout

\* check_stuck(): every component stays within the threshold.
Stuck(history) ==
    /\ Len(history) = BufferLen
    /\ \A c \in Components(history) : \A i, j \in DOMAIN history :
          Distance(history[i][c], history[j][c]) <= StuckThreshold

\* check_noisy(): some component jumps between neighbours.
Noisy(history) ==
    /\ Len(history) = BufferLen
    /\ \E c \in Components(history) : \E i \in 2..BufferLen :
          Distance(history[i][c], history[i - 1][c]) > NoiseThreshold

\* check_contradictory(): the Euclidean distance over the components both have.
Contradictory(a, b) ==
    LET shared == DOMAIN a \cap DOMAIN b
        square == [c \in shared |-> Distance(a[c], b[c]) * Distance(a[c], b[c])]
    IN  SumFunction(square) > ContradictionThreshold * ContradictionThreshold
===============================================================================
