----------------------------- MODULE SensorBuffer -----------------------------
(***************************************************************************)
(* The circular history of sensor_buffer.c: the operators that read a      *)
(* sensor_buffer_t, and the only operation that changes one.  Every        *)
(* function of the file holds buf->lock from its first access to its last, *)
(* so each is one step.  A reading stands for timestamp_us and value[];    *)
(* the buffer looks into neither.                                          *)
(***************************************************************************)
EXTENDS Integers, Sequences

CONSTANTS
    BufferLen,        \* SENSOR_BUFFER_LEN
    Readings,         \* what a sample may carry
    SequenceModulus   \* 2^32: next_sequence is a uint32_t

ASSUME BufferAssumption ==
    /\ BufferLen \in 1..255          \* sample_count is a uint8_t
    /\ SequenceModulus \in Nat \ {0}
    /\ Readings # {}

VARIABLES samples, write_index, sample_count, next_sequence

vars == <<samples, write_index, sample_count, next_sequence>>

Sample == [reading : Readings, sequence : 0..(SequenceModulus - 1)]
Slots == 0..(BufferLen - 1)

\* memset() in sensor_buffer_init(): a slot that was never written reads as zeros.
Blank == [reading |-> CHOOSE r \in Readings : TRUE, sequence |-> 0]

Init ==
    /\ samples = [slot \in Slots |-> Blank]
    /\ write_index = 0 /\ sample_count = 0 /\ next_sequence = 0

\* Bug: the count goes on growing.
CountsOn(count) == count + 1

\* The count stops at the length.
Counted(count) == IF count < BufferLen THEN count + 1 ELSE count

\* sensor_buffer_write()
Write(reading) ==
    /\ samples' = [samples EXCEPT ![write_index] =
                      [reading |-> reading, sequence |-> next_sequence]]
    /\ next_sequence' = (next_sequence + 1) % SequenceModulus
    /\ write_index' = (write_index + 1) % BufferLen
    /\ sample_count' = Counted(sample_count)

Next == \E reading \in Readings : Write(reading)

Spec == Init /\ [][Next]_vars

-------------------------------------------------------------------------------
AtMost(n, bound) == IF n > bound THEN bound ELSE n

\* Bug: the copy starts at the slot that is written next.
HistoryFromWriteIndex(max_out) ==
    LET count == AtMost(sample_count, max_out)
    IN  [i \in 1..count |-> samples[(write_index + i - 1) % BufferLen]]

\* sensor_buffer_read_history()
ReadHistory(max_out) ==
    LET count == AtMost(sample_count, max_out)
        start == (write_index + BufferLen - count) % BufferLen
    IN  [i \in 1..count |-> samples[(start + i - 1) % BufferLen]]

\* Bug: the slot behind the latest sample.
LatestIndexBehind == (write_index + BufferLen - 2) % BufferLen

LatestIndex == (write_index + BufferLen - 1) % BufferLen

\* sensor_buffer_get_latest() and sensor_buffer_last_timestamp(), when they find a sample.
GetLatest == samples[LatestIndex]

-------------------------------------------------------------------------------
TypeOK ==
    /\ samples \in [Slots -> Sample]
    /\ write_index \in Slots
    /\ sample_count \in 0..BufferLen
    /\ next_sequence \in 0..(SequenceModulus - 1)

\* Whatever the ring has overwritten, fdi_detect() and fusion_compute() see the
\* same newest sample: the one written last ends every history they may ask for
\* (sensor_buffer_read_history() and sensor_buffer_get_latest()).
LatestEndsHistory ==
    sample_count > 0 => \A n \in 1..BufferLen :
       LET history == ReadHistory(n) IN history[Len(history)] = GetLatest

\* The ring implements the window: a history of the whole buffer is the last
\* samples written, oldest first, none skipped or repeated at the wrap
\* (sensor_buffer_write() and sensor_buffer_read_history()).
Window == INSTANCE SampleWindow
             WITH Length <- BufferLen, window <- ReadHistory(BufferLen), written <- next_sequence
ImplementsWindow == Window!WSpec
===============================================================================
