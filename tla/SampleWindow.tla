----------------------------- MODULE SampleWindow -----------------------------
(***************************************************************************)
(* What sensor_buffer.h promises of one sensor's history, without indices: *)
(* the samples are the last ones written, oldest first, at most Length of  *)
(* them, and every sample is numbered one above the sample before it.      *)
(***************************************************************************)
EXTENDS Integers, Sequences

CONSTANTS Length, Readings, SequenceModulus

VARIABLES window, written

Sample == [reading : Readings, sequence : 0..(SequenceModulus - 1)]

Newest(s, n) == IF Len(s) > n THEN SubSeq(s, Len(s) - n + 1, Len(s)) ELSE s

WInit == window = <<>> /\ written = 0

Record(reading) ==
    /\ window' = Newest(Append(window, [reading |-> reading, sequence |-> written]), Length)
    /\ written' = (written + 1) % SequenceModulus

WNext == \E reading \in Readings : Record(reading)

WSpec == WInit /\ [][WNext]_<<window, written>>
===============================================================================
