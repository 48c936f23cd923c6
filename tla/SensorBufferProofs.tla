--------------------------- MODULE SensorBufferProofs ---------------------------
(***************************************************************************)
(* Proofs about the ring buffer, for any length, any modulus of the        *)
(* sequence numbers and any readings: it implements the window of the      *)
(* newest samples, and all histories end with the latest one.  The         *)
(* invariant is only that the indices stay within the array; the work is   *)
(* in the arithmetic of the wrap.                                          *)
(***************************************************************************)
EXTENDS SensorBuffer, TLAPS

\* The part of the ring's invariant that does not depend on what is stored.
Indexed ==
    /\ DOMAIN samples = Slots /\ samples = [slot \in Slots |-> samples[slot]]
    /\ write_index \in Slots
    /\ sample_count \in 0..BufferLen
    /\ next_sequence \in 0..(SequenceModulus - 1)

\* An index that stays below the length, or passes it once.
LEMMA ModSmall ==
    ASSUME NEW n \in Nat \ {0}, NEW x \in 0..(n - 1)
    PROVE  x % n = x
  OBVIOUS

LEMMA ModOnce ==
    ASSUME NEW n \in Nat \ {0}, NEW x \in n..(2 * n - 1)
    PROVE  x % n = x - n
  OBVIOUS

\* The length as a number, and the range of a remainder.
LEMMA LengthTypes ==
    /\ BufferLen \in Nat \ {0} /\ SequenceModulus \in Nat \ {0}
    /\ \A x \in Int : x % BufferLen \in Slots /\ x % SequenceModulus \in 0..(SequenceModulus - 1)
  BY BufferAssumption DEF Slots

LEMMA InitIndexed == Init => Indexed
  BY LengthTypes DEF Init, Indexed, Slots

LEMMA WriteIndexed ==
    ASSUME Indexed, NEW reading, Write(reading)
    PROVE  Indexed'
  <1>1. write_index + 1 \in Int /\ next_sequence + 1 \in Int
    BY LengthTypes DEF Indexed, Slots
  <1>2. write_index' \in Slots /\ next_sequence' \in 0..(SequenceModulus - 1)
    BY <1>1, LengthTypes DEF Write
  <1>3. sample_count' \in 0..BufferLen
    BY LengthTypes DEF Write, Counted, Indexed
  <1>4. DOMAIN samples' = Slots /\ samples' = [slot \in Slots |-> samples'[slot]]
    BY DEF Write, Indexed
  <1> QED BY <1>2, <1>3, <1>4 DEF Indexed

\* A history is read from the slots that were written last, the newest at its end.
HistorySlot(count, i) == (((write_index + BufferLen - count) % BufferLen) + i - 1) % BufferLen

\* Without remainders: where n steps, taken c back and i forward, end up.
Around(w, c, i, n) == IF w - c + i - 1 >= 0 THEN w - c + i - 1 ELSE w - c + i - 1 + n

LEMMA AroundOnce ==
    ASSUME NEW n \in Nat \ {0}, NEW w \in 0..(n - 1), NEW c \in 1..n, NEW i \in 1..c,
           NEW start \in Int, start = (w + n - c) % n
    PROVE  /\ (start + i - 1) % n = Around(w, c, i, n)
           /\ Around(w, c, i, n) \in 0..(n - 1)
  <1>1. ASSUME w >= c PROVE start = w - c
    <2>1. PICK x \in n..(2 * n - 1) : x = w + n - c
      BY <1>1
    <2>2. x % n = x - n
      BY ModOnce
    <2> QED BY <2>1, <2>2
  <1>2. ASSUME w < c PROVE start = w - c + n
    <2>1. PICK x \in 0..(n - 1) : x = w + n - c
      BY <1>2
    <2>2. x % n = x
      BY ModSmall
    <2> QED BY <2>1, <2>2
  <1>3. CASE w >= c
    <2>1. start + i - 1 \in 0..(n - 1) /\ start = w - c
      BY <1>1, <1>3
    <2>2. (start + i - 1) % n = start + i - 1
      BY <2>1, ModSmall
    <2> QED BY <1>3, <2>1, <2>2 DEF Around
  <1>4. CASE w < c /\ w - c + i - 1 >= 0
    <2>1. start + i - 1 \in n..(2 * n - 1) /\ start = w - c + n
      BY <1>2, <1>4
    <2>2. PICK x \in n..(2 * n - 1) : x = start + i - 1
      BY <2>1
    <2>3. x % n = x - n
      BY ModOnce
    <2> QED BY <1>4, <2>1, <2>2, <2>3 DEF Around
  <1>5. CASE w < c /\ w - c + i - 1 < 0
    <2>1. start + i - 1 \in 0..(n - 1) /\ start = w - c + n
      BY <1>2, <1>5
    <2>2. (start + i - 1) % n = start + i - 1
      BY <2>1, ModSmall
    <2> QED BY <1>5, <2>1, <2>2 DEF Around
  <1> QED BY <1>3, <1>4, <1>5

LEMMA HistorySlots ==
    ASSUME Indexed, NEW count \in 1..BufferLen, NEW i \in 1..count
    PROVE  /\ HistorySlot(count, i) = Around(write_index, count, i, BufferLen)
           /\ HistorySlot(count, i) \in Slots
  <1>1. /\ write_index \in 0..(BufferLen - 1) /\ BufferLen \in Nat \ {0}
        /\ (write_index + BufferLen - count) % BufferLen \in Int
    BY LengthTypes DEF Indexed, Slots
  <1> QED BY <1>1, AroundOnce DEF HistorySlot, Slots

\* The latest sample lies behind the write index, where every history ends.
LEMMA LatestSlot ==
    ASSUME Indexed, NEW count \in 1..BufferLen
    PROVE  LatestIndex = Around(write_index, count, count, BufferLen)
  <1> DEFINE start == (write_index + BufferLen - 1) % BufferLen
  <1>1. /\ write_index \in 0..(BufferLen - 1) /\ BufferLen \in Nat \ {0}
        /\ start \in 0..(BufferLen - 1)
    BY LengthTypes DEF Indexed, Slots
  <1>2. (start + 1 - 1) % BufferLen = Around(write_index, 1, 1, BufferLen)
    <2>1. start \in Int /\ 1 \in 1..BufferLen /\ 1 \in 1..1
      BY <1>1
    <2> HIDE DEF start
    <2>2. start = (write_index + BufferLen - 1) % BufferLen
      BY DEF start
    <2> QED BY <1>1, <2>1, <2>2, AroundOnce
  <1>3. (start + 1 - 1) % BufferLen = start
    <2> HIDE DEF start
    <2>1. start + 1 - 1 = start
      BY <1>1
    <2> QED BY <1>1, <2>1, ModSmall
  <1>4. Around(write_index, 1, 1, BufferLen) = Around(write_index, count, count, BufferLen)
    BY <1>1 DEF Around
  <1> QED BY <1>2, <1>3, <1>4 DEF LatestIndex

\* A history, without remainders.
LEMMA Histories ==
    ASSUME Indexed, NEW n \in 1..BufferLen, NEW count, count = AtMost(sample_count, n)
    PROVE  /\ count \in 0..BufferLen
           /\ ReadHistory(n) =
                [i \in 1..count |-> samples[Around(write_index, count, i, BufferLen)]]
  <1>1. count \in 0..BufferLen
    BY LengthTypes DEF AtMost, Indexed
  <1>2. \A i \in 1..count :
           HistorySlot(count, i) = Around(write_index, count, i, BufferLen)
    BY <1>1, HistorySlots
  <1>3. ReadHistory(n) = [i \in 1..count |-> samples[HistorySlot(count, i)]]
    BY DEF ReadHistory, HistorySlot
  <1> QED BY <1>1, <1>2, <1>3

LEMMA IndexedLatest ==
    ASSUME Indexed
    PROVE  LatestEndsHistory
  <1> SUFFICES ASSUME sample_count > 0, NEW n \in 1..BufferLen
               PROVE  ReadHistory(n)[Len(ReadHistory(n))] = GetLatest
    BY DEF LatestEndsHistory
  <1> DEFINE count == AtMost(sample_count, n)
  <1>1. count \in 1..BufferLen
    BY LengthTypes DEF AtMost, Indexed
  <1>2. ReadHistory(n) = [i \in 1..count |-> samples[Around(write_index, count, i, BufferLen)]]
    BY Histories
  <1> HIDE DEF count
  <1>3. Len(ReadHistory(n)) = count
    BY <1>1, <1>2
  <1>4. ReadHistory(n)[count] = samples[Around(write_index, count, count, BufferLen)]
    BY <1>1, <1>2
  <1> QED BY <1>1, <1>3, <1>4, LatestSlot DEF GetLatest

\* One write on: the newest entry is the written slot, the others are the ones of
\* before, moved down by one when the array is full.
Wrapped(w, n) == IF w + 1 < n THEN w + 1 ELSE 0
UpTo(c, n) == IF c < n THEN c + 1 ELSE c

LEMMA AroundNext ==
    ASSUME NEW n \in Nat \ {0}, NEW w \in 0..(n - 1), NEW c \in 0..n,
           NEW w1 \in Int, w1 = Wrapped(w, n), NEW c1 \in Int, c1 = UpTo(c, n),
           NEW i \in 1..c1
    PROVE  /\ i = c1 => Around(w1, c1, i, n) = w
           /\ i < c1 => /\ i + 1 - (c1 - c) \in 1..c
                        /\ Around(w1, c1, i, n) = Around(w, c, i + 1 - (c1 - c), n)
                        /\ Around(w1, c1, i, n) # w
                        /\ Around(w1, c1, i, n) \in 0..(n - 1)
  <1> DEFINE j == i + 1 - (c1 - c)
  <1>1. CASE c < n /\ w + 1 < n
    <2>1. c1 = c + 1 /\ w1 = w + 1 /\ j = i
      BY <1>1 DEF Wrapped, UpTo
    <2> QED BY <1>1, <2>1 DEF Around
  <1>2. CASE c < n /\ ~(w + 1 < n)
    <2>1. c1 = c + 1 /\ w1 = 0 /\ w = n - 1 /\ j = i
      BY <1>2 DEF Wrapped, UpTo
    <2> QED BY <1>2, <2>1 DEF Around
  <1>3. CASE c = n /\ w + 1 < n
    <2>1. c1 = n /\ w1 = w + 1 /\ j = i + 1
      BY <1>3 DEF Wrapped, UpTo
    <2> QED BY <1>3, <2>1 DEF Around
  <1>4. CASE c = n /\ ~(w + 1 < n)
    <2>1. c1 = n /\ w1 = 0 /\ w = n - 1 /\ j = i + 1
      BY <1>4 DEF Wrapped, UpTo
    <2> QED BY <1>4, <2>1 DEF Around
  <1> QED BY <1>1, <1>2, <1>3, <1>4

\* A history after a write, from the one before.
Moved(old, c, c1, item) ==
    [i \in 1..c1 |-> IF i = c1 THEN item ELSE old[i + 1 - (c1 - c)]]

Written(reading) == [reading |-> reading, sequence |-> next_sequence]

\* The write index goes around once.
LEMMA WriteIndex ==
    ASSUME Indexed
    PROVE  (write_index + 1) % BufferLen =
              IF write_index + 1 < BufferLen THEN write_index + 1 ELSE 0
  <1>1. write_index \in 0..(BufferLen - 1) /\ BufferLen \in Nat \ {0}
    BY LengthTypes DEF Indexed, Slots
  <1>2. ASSUME write_index + 1 < BufferLen
        PROVE  (write_index + 1) % BufferLen = write_index + 1
    <2>1. write_index + 1 \in 0..(BufferLen - 1)
      BY <1>1, <1>2
    <2> QED BY <1>1, <2>1, ModSmall
  <1>3. ASSUME ~(write_index + 1 < BufferLen)
        PROVE  (write_index + 1) % BufferLen = 0
    <2>1. write_index + 1 = BufferLen
      BY <1>1, <1>3
    <2>2. BufferLen % BufferLen = 0
      <3>1. BufferLen \in BufferLen..(2 * BufferLen - 1)
        BY <1>1
      <3> QED BY <1>1, <3>1, ModOnce
    <2> QED BY <2>1, <2>2
  <1> QED BY <1>2, <1>3

\* A write appends to the history of the whole buffer, and drops the oldest when it is full.
LEMMA WriteHistory ==
    ASSUME Indexed, NEW reading, Write(reading),
           NEW old, old = ReadHistory(BufferLen), NEW new, new = ReadHistory(BufferLen)'
    PROVE  /\ old = [i \in 1..sample_count |-> old[i]]
           /\ new = Moved(old, sample_count, sample_count', Written(reading))
           /\ sample_count \in 0..BufferLen /\ BufferLen \in Nat \ {0}
           /\ sample_count' = IF sample_count < BufferLen THEN sample_count + 1 ELSE sample_count
  <1>1. /\ write_index \in 0..(BufferLen - 1) /\ BufferLen \in Nat \ {0}
        /\ sample_count \in 0..BufferLen /\ BufferLen \in 1..BufferLen
    BY LengthTypes DEF Indexed, Slots
  <1>2. /\ write_index' = IF write_index + 1 < BufferLen THEN write_index + 1 ELSE 0
        /\ sample_count' = IF sample_count < BufferLen THEN sample_count + 1 ELSE sample_count
    BY WriteIndex DEF Write, Counted
  <1>3. /\ write_index' = Wrapped(write_index, BufferLen)
        /\ sample_count' = UpTo(sample_count, BufferLen)
    BY <1>2 DEF Wrapped, UpTo
  <1>4. /\ sample_count' \in 0..BufferLen /\ sample_count' \in Int
        /\ write_index' \in 0..(BufferLen - 1) /\ write_index' \in Int
    BY <1>1, <1>2
  <1>5. Indexed'
    BY WriteIndexed
  <1>6. AtMost(sample_count, BufferLen) = sample_count
    BY <1>1 DEF AtMost
  <1>7. old = [i \in 1..sample_count |-> samples[Around(write_index, sample_count, i, BufferLen)]]
    BY <1>1, <1>6, Histories
  <1>8. new = [i \in 1..sample_count' |->
                 samples'[Around(write_index', sample_count', i, BufferLen)]]
    <2>1. AtMost(sample_count, BufferLen)' = sample_count'
      BY <1>1, <1>4 DEF AtMost
    <2>2. new = [i \in 1..sample_count' |->
                   samples'[(((write_index' + BufferLen - sample_count') % BufferLen) + i - 1)
                              % BufferLen]]
      BY <2>1 DEF ReadHistory
    <2>3. ASSUME NEW i \in 1..sample_count'
          PROVE  (((write_index' + BufferLen - sample_count') % BufferLen) + i - 1) % BufferLen
                   = Around(write_index', sample_count', i, BufferLen)
      <3>1. (write_index' + BufferLen - sample_count') % BufferLen \in Int
        BY <1>1, <1>4
      <3>2. sample_count' \in 1..BufferLen
        BY <1>4
      <3> QED BY <1>1, <1>4, <3>1, <3>2, AroundOnce
    <2> QED BY <2>2, <2>3
  <1>9. \A i \in 1..sample_count' :
           /\ i = sample_count' =>
                Around(write_index', sample_count', i, BufferLen) = write_index
           /\ i < sample_count' =>
                /\ i + 1 - (sample_count' - sample_count) \in 1..sample_count
                /\ Around(write_index', sample_count', i, BufferLen)
                     = Around(write_index, sample_count,
                              i + 1 - (sample_count' - sample_count), BufferLen)
                /\ Around(write_index', sample_count', i, BufferLen) # write_index
                /\ Around(write_index', sample_count', i, BufferLen) \in 0..(BufferLen - 1)
    <2> TAKE i \in 1..sample_count'
    <2>1. BufferLen \in Nat \ {0} /\ write_index \in 0..(BufferLen - 1)
          /\ sample_count \in 0..BufferLen /\ write_index' \in Int /\ sample_count' \in Int
          /\ write_index' = Wrapped(write_index, BufferLen)
          /\ sample_count' = UpTo(sample_count, BufferLen)
          /\ i \in 1..sample_count'
      BY <1>1, <1>4, <1>3
    <2> QED BY <2>1, AroundNext
  <1>10. ASSUME NEW i \in 1..sample_count'
        PROVE  samples'[Around(write_index', sample_count', i, BufferLen)] =
                 IF i = sample_count' THEN Written(reading)
                 ELSE old[i + 1 - (sample_count' - sample_count)]
    <2>1. CASE i = sample_count'
      <3>1. Around(write_index', sample_count', i, BufferLen) = write_index
        BY <1>9, <2>1
      <3>2. samples'[write_index] = Written(reading)
        BY <1>1 DEF Write, Written, Indexed, Slots
      <3> QED BY <2>1, <3>1, <3>2
    <2>2. CASE i # sample_count'
      <3> DEFINE j == i + 1 - (sample_count' - sample_count)
                 slot == Around(write_index', sample_count', i, BufferLen)
      <3>0. i < sample_count'
        BY <1>4, <2>2
      <3>1. /\ j \in 1..sample_count
            /\ slot = Around(write_index, sample_count, j, BufferLen)
            /\ slot # write_index
            /\ slot \in 0..(BufferLen - 1)
        BY <1>9, <3>0
      <3> HIDE DEF j, slot
      <3>2. samples'[slot] = samples[slot]
        BY <1>1, <3>1 DEF Write, Indexed, Slots
      <3>3. old[j] = samples[slot]
        BY <1>7, <3>1
      <3> QED BY <2>2, <3>2, <3>3 DEF j, slot
    <2> QED BY <2>1, <2>2
  <1> QED BY <1>1, <1>2, <1>7, <1>8, <1>10 DEF Moved

\* Appended and cut to the newest n: the write of the window.
LEMMA AppendCut ==
    ASSUME NEW n \in Nat \ {0}, NEW c \in 0..n, NEW c1 \in Int, c1 = UpTo(c, n), NEW item,
           NEW old, old = [i \in 1..c |-> old[i]],
           NEW new, new = Moved(old, c, c1, item)
    PROVE  new = Window!Newest(Append(old, item), n)
  <1> DEFINE S == {old[i] : i \in 1..c} \cup {item}
             longer == Append(old, item)
  <1>0. new = [i \in 1..c1 |-> IF i = c1 THEN item ELSE old[i + 1 - (c1 - c)]]
    BY DEF Moved
  <1>1. old \in Seq(S) /\ Len(old) = c
    <2>1. old \in [1..c -> S] /\ c \in Nat
      OBVIOUS
    <2> QED BY <2>1
  <1>2. /\ longer \in Seq(S) /\ Len(longer) = c + 1
        /\ \A i \in 1..c : longer[i] = old[i]
        /\ longer[c + 1] = item
    BY <1>1
  <1> HIDE DEF longer
  <1>3. longer = [i \in 1..(c + 1) |-> IF i = c + 1 THEN item ELSE old[i]]
    BY <1>2
  <1>4. CASE c < n
    <2>1. c1 = c + 1
      BY <1>4 DEF UpTo
    <2>2. new = longer
      <3>1. \A i \in 1..c1 : i + 1 - (c1 - c) = i
        BY <2>1
      <3>2. new = [i \in 1..c1 |-> IF i = c1 THEN item ELSE old[i]]
        BY <1>0, <3>1
      <3> QED BY <1>3, <2>1, <3>2
    <2>3. Window!Newest(longer, n) = longer
      BY <1>2, <1>4 DEF Window!Newest
    <2> QED BY <2>2, <2>3 DEF longer
  <1>5. CASE c = n
    <2>1. c1 = c
      BY <1>5 DEF UpTo
    <2>2. Window!Newest(longer, n) = SubSeq(longer, 2, n + 1)
      BY <1>2, <1>5 DEF Window!Newest
    <2>3. SubSeq(longer, 2, n + 1) = [i \in 1..n |-> longer[i + 1]]
      BY <1>2, <1>5
    <2>4. new = [i \in 1..n |-> longer[i + 1]]
      <3>1. \A i \in 1..c1 : i + 1 - (c1 - c) = i + 1 /\ (i = c1 <=> i + 1 = c + 1)
                             /\ i + 1 \in 1..(c + 1)
        BY <2>1
      <3>2. new = [i \in 1..c1 |-> IF i = c1 THEN item ELSE old[i + 1]]
        BY <1>0, <3>1
      <3>3. \A i \in 1..c1 : longer[i + 1] = IF i = c1 THEN item ELSE old[i + 1]
        BY <1>3, <3>1
      <3>4. c1 = n
        BY <1>5, <2>1
      <3> HIDE DEF longer
      <3> QED BY <3>2, <3>3, <3>4
    <2> QED BY <2>2, <2>3, <2>4 DEF longer
  <1> QED BY <1>4, <1>5

LEMMA WriteRecords ==
    ASSUME Indexed, NEW reading, Write(reading)
    PROVE  Window!Record(reading)
  <1>1. PICK old, new : old = ReadHistory(BufferLen) /\ new = ReadHistory(BufferLen)'
    OBVIOUS
  <1>2. /\ old = [i \in 1..sample_count |-> old[i]]
        /\ new = Moved(old, sample_count, sample_count', Written(reading))
        /\ sample_count \in 0..BufferLen /\ BufferLen \in Nat \ {0}
        /\ sample_count' = UpTo(sample_count, BufferLen)
    BY <1>1, WriteHistory DEF UpTo
  <1>3. sample_count' \in Int
    BY <1>2 DEF UpTo
  <1>4. new = Window!Newest(Append(old, Written(reading)), BufferLen)
    BY <1>2, <1>3, AppendCut
  <1>5. next_sequence' = (next_sequence + 1) % SequenceModulus
    BY DEF Write
  <1> QED BY <1>1, <1>4, <1>5 DEF Window!Record, Written

LEMMA InitWindow == Init => Window!WInit
  <1> SUFFICES ASSUME Init PROVE Window!WInit
    OBVIOUS
  <1>1. AtMost(sample_count, BufferLen) = 0
    BY LengthTypes DEF Init, AtMost
  <1>2. ReadHistory(BufferLen) = [i \in 1..0 |-> samples[HistorySlot(0, i)]]
    BY <1>1 DEF ReadHistory, HistorySlot
  <1>3. ReadHistory(BufferLen) = <<>>
    BY <1>2
  <1> QED BY <1>3 DEF Window!WInit, Init

-------------------------------------------------------------------------------
\* The indices stay within the array, and the count at its length.
THEOREM RingIndexed == Spec => []Indexed
  <1>1. Indexed /\ [Next]_vars => Indexed'
    <2> SUFFICES ASSUME Indexed, [Next]_vars PROVE Indexed'
      OBVIOUS
    <2>1. CASE UNCHANGED vars
      BY <2>1 DEF vars, Indexed
    <2>2. ASSUME NEW reading \in Readings, Write(reading) PROVE Indexed'
      BY <2>2, WriteIndexed
    <2> QED BY <2>1, <2>2 DEF Next
  <1> QED BY <1>1, InitIndexed, PTL DEF Spec

\* Whatever is written, the slots hold samples.
THEOREM RingTypeCorrect == Spec => []TypeOK
  <1>1. Init => TypeOK
    <2> SUFFICES ASSUME Init PROVE TypeOK
      OBVIOUS
    <2>1. Blank \in Sample
      <3>1. (CHOOSE r \in Readings : TRUE) \in Readings
        BY BufferAssumption
      <3>2. 0 \in 0..(SequenceModulus - 1)
        BY LengthTypes
      <3> QED BY <3>1, <3>2 DEF Blank, Sample
    <2> QED BY <2>1, LengthTypes DEF Init, TypeOK, Slots
  <1>2. TypeOK /\ [Next]_vars => TypeOK'
    <2> SUFFICES ASSUME TypeOK, [Next]_vars PROVE TypeOK'
      OBVIOUS
    <2>1. CASE UNCHANGED vars
      BY <2>1 DEF vars, TypeOK
    <2>2. ASSUME NEW reading \in Readings, Write(reading) PROVE TypeOK'
      <3>1. Indexed'
        BY <2>2, WriteIndexed DEF TypeOK, Indexed
      <3>2. [reading |-> reading, sequence |-> next_sequence] \in Sample
        BY DEF TypeOK, Sample
      <3> QED BY <2>2, <3>1, <3>2 DEF Write, TypeOK, Indexed
    <2> QED BY <2>1, <2>2 DEF Next
  <1> QED BY <1>1, <1>2, PTL DEF Spec

\* The newest sample ends every history, before and after the wrap.
THEOREM LatestEnds == Spec => []LatestEndsHistory
  <1>1. Indexed => LatestEndsHistory
    BY IndexedLatest
  <1> QED BY <1>1, RingIndexed, PTL

\* sensor_buffer_write() and sensor_buffer_read_history() together are the window of the
\* newest samples: no sample is lost, repeated or out of order at the wrap.
THEOREM RingImplementsWindow == Spec => ImplementsWindow
  <1>1. Indexed /\ [Next]_vars => [Window!WNext]_<<ReadHistory(BufferLen), next_sequence>>
    <2> SUFFICES ASSUME Indexed, [Next]_vars
                 PROVE  [Window!WNext]_<<ReadHistory(BufferLen), next_sequence>>
      OBVIOUS
    <2>1. CASE UNCHANGED vars
      BY <2>1 DEF vars, ReadHistory, AtMost
    <2>2. ASSUME NEW reading \in Readings, Write(reading)
          PROVE  Window!WNext
      BY <2>2, WriteRecords DEF Window!WNext
    <2> QED BY <2>1, <2>2 DEF Next
  <1> QED BY <1>1, InitWindow, RingIndexed, PTL DEF Spec, ImplementsWindow, Window!WSpec
=================================================================================
