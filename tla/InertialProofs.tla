----------------------------- MODULE InertialProofs -----------------------------
(***************************************************************************)
(* Proofs about Inertial, for any length of buffer and calibration, any    *)
(* word, any biases and any motion of the vehicle: what the second IMU's   *)
(* buffer holds is its own, and is the acceleration up to what a           *)
(* calibration took for bias.                                              *)
(***************************************************************************)
EXTENDS Inertial, SensorBufferProofs

BeforePolls == {"open", "wake_first", "wake_second", "calibrate"}

\* Halfway through a calibration the sum is the bias and gravity of the samples so
\* far, plus the vehicle's motion; a finished one keeps it as the offset.
Calibrated ==
    /\ sampled \in 0..CalibrationSamples /\ sum \in Int /\ moved \in Int /\ offset \in Int
    /\ bias \in Biases /\ pull \in {0, OneG} /\ is_calibrated \in BOOLEAN
    /\ pc \in BeforePolls =>
         /\ sample_count = 0
         /\ ~is_calibrated
         /\ sum = sampled * (pull + bias) + moved
    /\ offset = IF is_calibrated
                THEN CalibrationSamples * (pull + bias) + moved - CalibrationSamples * pull
                ELSE 0

IInv ==
    /\ Indexed
    /\ Calibrated
    /\ SamplesAreOwn
    /\ SampleIsAcceleration

-------------------------------------------------------------------------------
\* Two bytes take a word apart and put it together again, sign and all.
LEMMA DivMod ==
    ASSUME NEW n \in Nat \ {0}, NEW x \in Nat
    PROVE  \E high, low \in Nat :
              high = x \div n /\ low = x % n /\ n * high + low = x
  <1>1. x \div n \in Nat /\ x % n \in Nat /\ n * (x \div n) + (x % n) = x
    OBVIOUS
  <1> QED BY <1>1

LEMMA ModBelow ==
    ASSUME NEW n \in Nat \ {0}, NEW x \in (0 - n)..(0 - 1)
    PROVE  x % n = x + n
  OBVIOUS

LEMMA MergeBytes ==
    ASSUME NEW word \in Words
    PROVE  Merge(Bytes(word)) = word
  <1>1. /\ ByteModulus \in Nat \ {0} /\ WordModulus \in Nat \ {0}
        /\ WordModulus = 2 * (WordModulus \div 2)
    <2>1. ByteModulus \in Nat \ {0} /\ WordModulus % 2 = 0
      BY RangeAssumption
    <2>2. WordModulus \in Nat \ {0}
      BY <2>1 DEF WordModulus
    <2> QED BY <2>1, <2>2
  <1> DEFINE half == WordModulus \div 2
             bits == word % WordModulus
             bytes == Bytes(word)
  <1>2. word \in Int /\ half \in Nat /\ 0 - half <= word /\ word <= half - 1
    BY <1>1 DEF Words
  <1>3. bits = (IF word >= 0 THEN word ELSE word + WordModulus) /\ bits \in Nat
    <2>1. CASE word >= 0
      <3>1. word \in 0..(WordModulus - 1)
        BY <1>1, <1>2, <2>1
      <3> QED BY <1>1, <2>1, <3>1, ModSmall
    <2>2. CASE word < 0
      <3>1. word \in (0 - WordModulus)..(0 - 1)
        BY <1>1, <1>2, <2>2
      <3>2. word % WordModulus = word + WordModulus
        BY <1>1, <3>1, ModBelow
      <3> QED BY <1>1, <1>2, <2>2, <3>2
    <2> QED BY <1>2, <2>1, <2>2
  <1>4. bytes[1] * ByteModulus + bytes[2] = bits
    <2>1. bytes = <<bits \div ByteModulus, bits % ByteModulus>>
      BY DEF Bytes
    <2> HIDE DEF bits, bytes
    <2>2. PICK high, low \in Nat :
             /\ high = bits \div ByteModulus /\ low = bits % ByteModulus
             /\ ByteModulus * high + low = bits
      BY <1>1, <1>3, DivMod, Zenon
    <2>3. bytes[1] = high /\ bytes[2] = low
      BY <2>1, <2>2
    <2>4. high * ByteModulus = ByteModulus * high
      BY <1>1, <2>2
    <2> QED BY <2>2, <2>3, <2>4
  <1> HIDE DEF bits, bytes
  <1>5. (IF bits < half THEN bits ELSE bits - WordModulus) = word
    BY <1>1, <1>2, <1>3
  <1> QED BY <1>4, <1>5 DEF Merge, bytes

-------------------------------------------------------------------------------
\* A write adds its reading to what the buffer holds, and takes only from the rest.
LEMMA WriteHolds ==
    ASSUME Indexed, NEW reading, Write(reading)
    PROVE  Held' \subseteq Held \cup {reading}
  <1>1. PICK old, new : old = ReadHistory(BufferLen) /\ new = ReadHistory(BufferLen)'
    OBVIOUS
  <1>2. /\ new = Moved(old, sample_count, sample_count', Written(reading))
        /\ sample_count \in 0..BufferLen /\ BufferLen \in Nat \ {0}
        /\ sample_count' = IF sample_count < BufferLen THEN sample_count + 1 ELSE sample_count
    BY <1>1, WriteHistory
  <1> SUFFICES ASSUME NEW i \in 1..sample_count'
               PROVE  new[i].reading \in Held \cup {reading}
    BY <1>1 DEF Held
  <1>3. CASE i = sample_count'
    <2>1. new[i] = Written(reading)
      BY <1>2, <1>3 DEF Moved
    <2> QED BY <2>1 DEF Written
  <1>4. CASE i # sample_count'
    <2>1. PICK j \in 1..sample_count : j = i + 1 - (sample_count' - sample_count)
      <3>1. PICK c, c1 \in Int : c = sample_count /\ c1 = sample_count'
        BY <1>2
      <3>2. c1 = (IF c < BufferLen THEN c + 1 ELSE c) /\ c \in 0..BufferLen /\ i \in 1..c1 /\ i # c1
        BY <1>2, <1>4, <3>1
      <3>3. i + 1 - (c1 - c) \in 1..c
        BY <1>2, <3>2
      <3> QED BY <3>1, <3>3
    <2>2. new[i] = old[j]
      BY <1>2, <1>4, <2>1 DEF Moved
    <2> QED BY <1>1, <2>1, <2>2 DEF Held
  <1> QED BY <1>3, <1>4

\* Nothing is held before the first sample.
LEMMA NothingHeld == sample_count = 0 => Held = {}
  BY DEF Held

LEMMA SameHeld ==
    ASSUME UNCHANGED ringVars
    PROVE  Held' = Held /\ sample_count' = sample_count /\ (Indexed => Indexed')
  BY DEF ringVars, vars, Held, ReadHistory, AtMost, Indexed

\* What makes SampleIsAcceleration true of one reading.
Measures(reading) ==
    reading.value = CalibrationSamples * (reading.motion + pull)
                    + IF is_calibrated THEN 0 - moved ELSE CalibrationSamples * bias

LEMMA Types ==
    /\ CalibrationSamples \in Nat \ {0} /\ OneG \in Int
    /\ Biases \subseteq Int /\ Motions \subseteq Int
  BY CalibrationAssumption, RangeAssumption

LEMMA RawIsSum ==
    ASSUME Calibrated, NEW motion \in Motions
    PROVE  Raw(motion) = motion + pull + bias
  <1>1. bias + motion + pull \in Words
    BY RangeAssumption DEF Calibrated
  <1>2. bias + motion + pull = motion + pull + bias
    BY Types DEF Calibrated
  <1>3. motion + pull + bias \in Words
    BY <1>1, <1>2
  <1> QED BY <1>3, MergeBytes DEF Raw

\* One more of the same.
LEMMA Times ==
    ASSUME NEW x \in Int, NEW n \in Nat
    PROVE  n * x \in Int /\ 0 * x = 0 /\ (n + 1) * x = n * x + x
  OBVIOUS

LEMMA InitIInv == IInit => IInv
  <1> SUFFICES ASSUME IInit PROVE IInv
    OBVIOUS
  <1>1. Indexed
    BY InitIndexed DEF IInit
  <1>2. sample_count = 0
    BY DEF IInit, Init
  <1>3. Held = {}
    BY <1>2, NothingHeld
  <1>4. Calibrated
    <2>1. pull + bias \in Int
      BY Types DEF IInit
    <2>2. sum = sampled * (pull + bias) + moved
      BY <2>1, Times DEF IInit
    <2>3. ~is_calibrated /\ is_calibrated \in BOOLEAN /\ offset = 0
      BY DEF IInit
    <2>4. /\ sampled \in 0..CalibrationSamples /\ sum \in Int /\ moved \in Int
          /\ offset \in Int /\ bias \in Biases /\ pull \in {0, OneG}
      BY Types DEF IInit
    <2> QED BY <1>2, <2>2, <2>3, <2>4 DEF Calibrated
  <1> QED BY <1>1, <1>3, <1>4 DEF IInv, SamplesAreOwn, SampleIsAcceleration

-------------------------------------------------------------------------------
(* The steps before the first poll *)

LEMMA StartIInv ==
    ASSUME IInv, Start \/ StartFails \/ PollFirst \/ Exited \/ UNCHANGED iVars
    PROVE  IInv'
  <1>1. /\ UNCHANGED <<imuVars, calibVars, ringVars>>
        /\ pc' \in BeforePolls => pc \in BeforePolls
    <2>1. CASE Start
      BY <2>1 DEF Start, StartSteps, NextStep, BeforePolls
    <2> QED BY <2>1 DEF StartFails, PollFirst, Exited, iVars, BeforePolls
  <1>2. Held' = Held /\ sample_count' = sample_count /\ Indexed'
    BY <1>1, SameHeld DEF IInv
  <1>3. Calibrated'
    BY <1>1, <1>2 DEF IInv, Calibrated, imuVars, calibVars
  <1>4. SamplesAreOwn' /\ SampleIsAcceleration'
    BY <1>1, <1>2 DEF IInv, SamplesAreOwn, SampleIsAcceleration, imuVars, calibVars
  <1> QED BY <1>2, <1>3, <1>4 DEF IInv

LEMMA CalibrateSampleIInv ==
    ASSUME IInv, CalibrateSample
    PROVE  IInv'
  <1>1. PICK motion \in Motions : sum' = sum + Raw(motion) /\ moved' = moved + motion
    BY DEF CalibrateSample
  <1>2. /\ pc = "calibrate" /\ pc' = pc /\ sampled < CalibrationSamples /\ sampled' = sampled + 1
        /\ UNCHANGED <<bias, pull, offset, is_calibrated, ringVars>>
    BY DEF CalibrateSample, imuVars
  <1>3. /\ sample_count = 0 /\ ~is_calibrated /\ offset = 0
        /\ sum = sampled * (pull + bias) + moved
    BY <1>2 DEF IInv, Calibrated, BeforePolls
  <1>4. Held' = Held /\ sample_count' = sample_count /\ Indexed'
    BY <1>2, SameHeld DEF IInv
  <1>5. Held = {}
    BY <1>3, NothingHeld
  <1>6. Raw(motion) = motion + pull + bias
    BY RawIsSum DEF IInv
  <1>7. sum' = sampled' * (pull' + bias') + moved'
    <2>1. PICK b, p, n, m, t \in Int :
             b = bias /\ p = pull /\ n = sampled /\ m = moved /\ t = sum
      BY Types DEF IInv, Calibrated
    <2>2. n \in Nat /\ p + b \in Int /\ motion \in Int
      BY <2>1, Types DEF IInv, Calibrated
    <2>3. t = n * (p + b) + m
      BY <1>3, <2>1
    <2>4. (n + 1) * (p + b) = n * (p + b) + (p + b) /\ n * (p + b) \in Int
      BY <2>2, Times
    <2>5. t + (motion + p + b) = (n + 1) * (p + b) + (m + motion)
      BY <2>1, <2>2, <2>3, <2>4
    <2> QED BY <1>1, <1>2, <1>6, <2>1, <2>5
  <1>8. /\ sampled' \in 0..CalibrationSamples /\ sum' \in Int /\ moved' \in Int
        /\ offset' \in Int /\ bias' \in Biases /\ pull' \in {0, OneG} /\ is_calibrated' \in BOOLEAN
    BY <1>1, <1>2, <1>6, Types DEF IInv, Calibrated
  <1>9. Calibrated'
    BY <1>2, <1>3, <1>4, <1>7, <1>8 DEF Calibrated
  <1> QED BY <1>4, <1>5, <1>9 DEF IInv, SamplesAreOwn, SampleIsAcceleration

LEMMA CalibrateDoneIInv ==
    ASSUME IInv, CalibrateDone
    PROVE  IInv'
  <1>1. /\ pc = "calibrate" /\ pc' = "buffers" /\ sampled = CalibrationSamples
        /\ offset' = Mean(sum) /\ is_calibrated' = TRUE /\ sampled' = 0 /\ sum' = 0
        /\ UNCHANGED <<bias, pull, moved, ringVars>>
    BY DEF CalibrateDone, imuVars
  <1>2. sample_count = 0 /\ sum = sampled * (pull + bias) + moved
    BY <1>1 DEF IInv, Calibrated, BeforePolls
  <1>3. Held' = Held /\ sample_count' = sample_count /\ Indexed'
    BY <1>1, SameHeld DEF IInv
  <1>4. Held = {}
    BY <1>2, NothingHeld
  <1>5. offset' = CalibrationSamples * (pull + bias) + moved - CalibrationSamples * pull
    <2>1. sum = CalibrationSamples * (pull + bias) + moved
      BY <1>1, <1>2
    <2>2. PICK x, y, m \in Int : /\ x = CalibrationSamples * (pull + bias)
                                 /\ y = CalibrationSamples * pull /\ m = moved
      BY Types, Times DEF IInv, Calibrated
    <2>3. offset' = (x + m) - y
      BY <1>1, <2>1, <2>2, Zenon DEF Mean
    <2> QED BY <2>2, <2>3
  <1>6. CalibrationSamples * (pull + bias) \in Int /\ CalibrationSamples * pull \in Int
    BY Types, Times DEF IInv, Calibrated
  <1>7. /\ sampled' \in 0..CalibrationSamples /\ sum' \in Int /\ moved' \in Int
        /\ offset' \in Int /\ bias' \in Biases /\ pull' \in {0, OneG} /\ is_calibrated' \in BOOLEAN
    BY <1>1, <1>5, <1>6, Types DEF IInv, Calibrated
  <1>8. pc' \notin BeforePolls
    BY <1>1 DEF BeforePolls
  <1>9. Calibrated'
    BY <1>1, <1>5, <1>7, <1>8 DEF Calibrated
  <1> QED BY <1>3, <1>4, <1>9 DEF IInv, SamplesAreOwn, SampleIsAcceleration

LEMMA CalibrateFailsIInv ==
    ASSUME IInv, CalibrateFails
    PROVE  IInv'
  <1>1. /\ pc = "calibrate" /\ pc' = "buffers" /\ sampled' = 0 /\ sum' = 0 /\ moved' = 0
        /\ UNCHANGED <<bias, pull, offset, is_calibrated, ringVars>>
    BY DEF CalibrateFails, imuVars
  <1>2. sample_count = 0 /\ ~is_calibrated /\ offset = 0
    BY <1>1 DEF IInv, Calibrated, BeforePolls
  <1>3. Held' = Held /\ sample_count' = sample_count /\ Indexed'
    BY <1>1, SameHeld DEF IInv
  <1>4. Held = {}
    BY <1>2, NothingHeld
  <1>5. pc' \notin BeforePolls
    BY <1>1 DEF BeforePolls
  <1>6. Calibrated'
    BY <1>1, <1>2, <1>5, Types DEF IInv, Calibrated
  <1> QED BY <1>3, <1>4, <1>6 DEF IInv, SamplesAreOwn, SampleIsAcceleration

-------------------------------------------------------------------------------
\* The sample of a poll, with the offset that the calibration left.
LEMMA SampleMeasures ==
    ASSUME Calibrated, NEW motion \in Motions, NEW value,
           value = CalibrationSamples * Raw(motion) - offset
    PROVE  value = CalibrationSamples * (motion + pull)
                   + IF is_calibrated THEN 0 - moved ELSE CalibrationSamples * bias
  <1>1. PICK b, p, m, o \in Int : b = bias /\ p = pull /\ m = moved /\ o = offset
    BY Types DEF Calibrated
  <1>2. motion \in Int /\ CalibrationSamples \in Int
    BY Types
  <1>3. value = CalibrationSamples * (motion + p + b) - o
    BY <1>1, RawIsSum
  <1>4. /\ CalibrationSamples * (motion + p + b)
             = CalibrationSamples * (motion + p) + CalibrationSamples * b
        /\ CalibrationSamples * (p + b) = CalibrationSamples * p + CalibrationSamples * b
        /\ CalibrationSamples * b \in Int /\ CalibrationSamples * p \in Int
        /\ CalibrationSamples * (motion + p) \in Int
    BY <1>1, <1>2
  <1>5. CASE is_calibrated
    <2>1. o = CalibrationSamples * (p + b) + m - CalibrationSamples * p
      BY <1>1, <1>5 DEF Calibrated
    <2>2. value = CalibrationSamples * (motion + p) + (0 - m)
      BY <1>1, <1>3, <1>4, <2>1
    <2> QED BY <1>1, <1>5, <2>2
  <1>6. CASE ~is_calibrated
    <2>1. o = 0
      BY <1>1, <1>6 DEF Calibrated
    <2>2. value = CalibrationSamples * (motion + p) + CalibrationSamples * b
      BY <1>1, <1>3, <1>4, <2>1
    <2> QED BY <1>1, <1>6, <2>2
  <1> QED BY <1>5, <1>6

LEMMA PollSecondIInv ==
    ASSUME IInv, PollSecond
    PROVE  IInv'
  <1>1. PICK result \in {0, -1}, motion \in Motions :
           /\ sample' = IF result = 0
                        THEN [of |-> "second", motion |-> motion,
                              value |-> CalibrationSamples * Raw(motion) - offset]
                        ELSE sample
           /\ IF HandedOn(result) THEN Write(sample') ELSE UNCHANGED ringVars
    BY DEF PollSecond
  <1>2. pc' = "poll_first" /\ UNCHANGED <<imuVars, calibVars>>
    BY DEF PollSecond
  <1>3. pc' \notin BeforePolls
    BY <1>2 DEF BeforePolls
  <1>4. Calibrated'
    BY <1>2, <1>3 DEF IInv, Calibrated, imuVars, calibVars
  <1>5. CASE result = 0
    <2>1. PICK reading : reading = sample'
      OBVIOUS
    <2>2. Write(reading)
      BY <1>1, <1>5, <2>1 DEF HandedOn
    <2>3. Indexed' /\ Held' \subseteq Held \cup {reading}
      BY <2>2, WriteIndexed, WriteHolds DEF IInv
    <2>4. /\ reading.of = "second" /\ reading.motion = motion
          /\ reading.value = CalibrationSamples * Raw(motion) - offset
      BY <1>1, <1>5, <2>1
    <2>5. Measures(reading)
      BY <2>4, SampleMeasures DEF IInv, Measures
    <2>6. SamplesAreOwn'
      BY <2>3, <2>4 DEF IInv, SamplesAreOwn
    <2>7. \A r \in Held' : Measures(r)
      BY <2>3, <2>5 DEF IInv, SampleIsAcceleration, Measures
    <2>8. SampleIsAcceleration'
      BY <1>2, <2>7 DEF SampleIsAcceleration, Measures, imuVars, calibVars
    <2> QED BY <1>4, <2>3, <2>6, <2>8 DEF IInv
  <1>6. CASE result # 0
    <2>1. UNCHANGED ringVars
      BY <1>1, <1>6 DEF HandedOn
    <2>2. Held' = Held /\ Indexed'
      BY <2>1, SameHeld DEF IInv
    <2>3. SamplesAreOwn' /\ SampleIsAcceleration'
      BY <1>2, <2>2 DEF IInv, SamplesAreOwn, SampleIsAcceleration, imuVars, calibVars
    <2> QED BY <1>4, <2>2, <2>3 DEF IInv
  <1> QED BY <1>5, <1>6

-------------------------------------------------------------------------------
THEOREM InertialInvariant == ISpec => []IInv
  <1>1. IInv /\ [INext]_iVars => IInv'
    <2> SUFFICES ASSUME IInv, [INext]_iVars PROVE IInv'
      OBVIOUS
    <2>1. CASE Start \/ StartFails \/ PollFirst \/ Exited \/ UNCHANGED iVars
      BY <2>1, StartIInv
    <2>2. CASE CalibrateSample
      BY <2>2, CalibrateSampleIInv
    <2>3. CASE CalibrateDone
      BY <2>3, CalibrateDoneIInv
    <2>4. CASE CalibrateFails
      BY <2>4, CalibrateFailsIInv
    <2>5. CASE PollSecond
      BY <2>5, PollSecondIInv
    <2> QED BY <2>1, <2>2, <2>3, <2>4, <2>5 DEF INext
  <1> QED BY <1>1, InitIInv, PTL DEF ISpec

\* No failed read ever lends the buffer of one IMU the values of the other.
THEOREM OwnSamples == ISpec => []SamplesAreOwn
  <1>1. IInv => SamplesAreOwn
    BY DEF IInv
  <1> QED BY <1>1, InertialInvariant, PTL

\* A finished calibration cancels the bias and leaves gravity in, a failed one leaves
\* nothing, for any word, however the vehicle moved.
THEOREM SamplesMeasure == ISpec => []SampleIsAcceleration
  <1>1. IInv => SampleIsAcceleration
    BY DEF IInv
  <1> QED BY <1>1, InertialInvariant, PTL

\* The newest sample ends every history of this buffer, as LatestEnds says of any.
THEOREM LatestEndsOfImu == ISpec => []LatestEndsHistory
  <1>1. IInv => LatestEndsHistory
    BY IndexedLatest DEF IInv
  <1> QED BY <1>1, InertialInvariant, PTL

-------------------------------------------------------------------------------
(* The buffer of the second IMU is the ring of SensorBuffer.                   *)

\* What a calibration takes for bias grows by one motion a sample.
Bounded ==
    /\ pc \in StartSteps \cup {"calibrate", "poll_first", "poll_second", "exit"}
    /\ moved \in Drifts
    /\ pc \in BeforePolls =>
         moved \in (0 - sampled * MaxMotion)..(sampled * MaxMotion)
    /\ sample \in Reading

LEMMA DriftTypes ==
    /\ MaxMotion \in Nat /\ Motions \subseteq (0 - MaxMotion)..MaxMotion
    /\ \A n \in 0..CalibrationSamples :
         /\ n * MaxMotion \in Nat
         /\ (0 - n * MaxMotion)..(n * MaxMotion) \subseteq Drifts
    /\ 0 \in Drifts
  <1>1. MaxMotion \in Nat /\ CalibrationSamples \in Nat
        /\ Motions \subseteq (0 - MaxMotion)..MaxMotion
    BY RangeAssumption, CalibrationAssumption
  <1>2. ASSUME NEW n \in 0..CalibrationSamples
        PROVE  /\ n * MaxMotion \in Nat
               /\ n * MaxMotion <= CalibrationSamples * MaxMotion
    <2>1. PICK rest \in Nat : CalibrationSamples = n + rest
      <3>1. CalibrationSamples - n \in Nat /\ CalibrationSamples = n + (CalibrationSamples - n)
        BY <1>1, <1>2
      <3> QED BY <3>1
    <2>2. /\ (n + rest) * MaxMotion = n * MaxMotion + rest * MaxMotion
          /\ n * MaxMotion \in Nat /\ rest * MaxMotion \in Nat
      BY <1>1, <1>2, <2>1
    <2> QED BY <1>1, <2>1, <2>2
  <1>3. CalibrationSamples * MaxMotion \in Nat
    BY <1>1, <1>2
  <1>4. ASSUME NEW n \in 0..CalibrationSamples
        PROVE  (0 - n * MaxMotion)..(n * MaxMotion) \subseteq Drifts
    <2>1. PICK a, c \in Nat : a = n * MaxMotion /\ c = CalibrationSamples * MaxMotion
      BY <1>2, <1>3
    <2>2. a <= c
      BY <1>2, <2>1
    <2> QED BY <2>1, <2>2 DEF Drifts
  <1>5. 0 \in Drifts
    BY <1>3 DEF Drifts
  <1> QED BY <1>1, <1>2, <1>4, <1>5

LEMMA InitBounded == IInit => Bounded
  <1> SUFFICES ASSUME IInit PROVE Bounded
    OBVIOUS
  <1>1. Blank.reading \in Reading
    <2>1. (CHOOSE r \in Readings : TRUE) \in Readings
      BY BufferAssumption
    <2> QED BY <2>1, ReadingsAssumption DEF Blank
  <1>2. 0 * MaxMotion = 0
    BY DriftTypes
  <1> QED BY <1>1, <1>2, DriftTypes DEF IInit, Bounded, StartSteps

LEMMA CalibrateSampleBounded ==
    ASSUME IInv, Bounded, CalibrateSample
    PROVE  Bounded'
  <1>1. PICK motion \in Motions : moved' = moved + motion
    BY DEF CalibrateSample
  <1>2. /\ pc = "calibrate" /\ pc' = pc /\ sample' = sample
        /\ sampled \in 0..CalibrationSamples /\ sampled' = sampled + 1
        /\ sampled' \in 0..CalibrationSamples
    BY CalibrationAssumption DEF CalibrateSample, IInv, Calibrated
  <1>3. moved' \in (0 - sampled' * MaxMotion)..(sampled' * MaxMotion)
    <2>1. PICK n \in 0..CalibrationSamples, m, a \in Int :
             n = sampled /\ m = moved /\ a = n * MaxMotion
      BY <1>2, DriftTypes DEF IInv, Calibrated
    <2>2. m \in (0 - a)..a
      BY <1>2, <2>1 DEF Bounded, BeforePolls
    <2>3. motion \in (0 - MaxMotion)..MaxMotion /\ MaxMotion \in Nat
      BY DriftTypes
    <2>4. (n + 1) * MaxMotion = a + MaxMotion
      BY <2>1, <2>3, Times
    <2>5. m + motion \in (0 - (a + MaxMotion))..(a + MaxMotion)
      BY <2>1, <2>2, <2>3
    <2> QED BY <1>1, <1>2, <2>1, <2>4, <2>5
  <1>4. moved' \in Drifts
    BY <1>2, <1>3, DriftTypes
  <1> QED BY <1>2, <1>3, <1>4 DEF Bounded

LEMMA IsValue ==
    ASSUME NEW motion \in Motions, NEW down \in {0, OneG},
           NEW rest \in Drifts \cup {CalibrationSamples * b : b \in Biases}
    PROVE  CalibrationSamples * (motion + down) + rest \in Values
  <1> DEFINE Value(m, d, r) == CalibrationSamples * (m + d) + r
             Rests == Drifts \cup {CalibrationSamples * b : b \in Biases}
  <1>1. Values = {Value(m, d, r) : m \in Motions, d \in {0, OneG}, r \in Rests}
    BY DEF Values
  <1>2. rest \in Rests
    OBVIOUS
  <1> HIDE DEF Value, Rests
  <1>3. Value(motion, down, rest) \in Values
    BY <1>1, <1>2
  <1> QED BY <1>3 DEF Value

\* A sample of the second IMU, whether the offset is a calibration's or zero.
LEMMA SecondIsReading ==
    ASSUME IInv, Bounded, NEW motion \in Motions
    PROVE  [of |-> "second", motion |-> motion,
            value |-> CalibrationSamples * Raw(motion) - offset] \in Reading
  <1>1. PICK value : value = CalibrationSamples * Raw(motion) - offset
    OBVIOUS
  <1>2. /\ is_calibrated =>
             value = CalibrationSamples * (motion + pull) + (0 - moved)
        /\ ~is_calibrated =>
             value = CalibrationSamples * (motion + pull) + CalibrationSamples * bias
    BY <1>1, SampleMeasures DEF IInv
  <1>3. 0 - moved \in Drifts
    <2>1. PICK c \in Nat : c = CalibrationSamples * MaxMotion
      BY DriftTypes, CalibrationAssumption
    <2> QED BY <2>1 DEF Bounded, Drifts
  <1>4. pull \in {0, OneG} /\ bias \in Biases /\ is_calibrated \in BOOLEAN
    BY DEF IInv, Calibrated
  <1>5. value \in Values
    <2>1. CASE is_calibrated
      BY <1>2, <1>3, <1>4, <2>1, IsValue
    <2>2. CASE ~is_calibrated
      <3>1. CalibrationSamples * bias \in {CalibrationSamples * b : b \in Biases}
        BY <1>4
      <3> QED BY <1>2, <1>4, <2>2, <3>1, IsValue
    <2> QED BY <2>1, <2>2
  <1> QED BY <1>1, <1>5 DEF Reading

LEMMA StepBounded == IInv /\ Bounded /\ [INext]_iVars => Bounded'
  <1> SUFFICES ASSUME IInv, Bounded, [INext]_iVars PROVE Bounded'
    OBVIOUS
  <1>1. CASE Start \/ StartFails \/ Exited \/ UNCHANGED iVars
    <2>1. UNCHANGED <<sampled, moved, sample>> /\ (pc' \in BeforePolls => pc \in BeforePolls)
          /\ pc' \in StartSteps \cup {"calibrate", "poll_first", "poll_second", "exit"}
      BY <1>1 DEF Start, StartFails, Exited, iVars, calibVars, StartSteps, NextStep,
                  BeforePolls, Bounded
    <2> QED BY <2>1 DEF Bounded
  <1>2. CASE CalibrateSample
    BY <1>2, CalibrateSampleBounded
  <1>3. CASE CalibrateDone
    BY <1>3 DEF CalibrateDone, Bounded, BeforePolls, StartSteps
  <1>4. CASE CalibrateFails
    BY <1>4, DriftTypes DEF CalibrateFails, Bounded, BeforePolls, StartSteps
  <1>5. CASE PollFirst
    <2>1. sample' \in Reading
      <3>1. \A motion \in Motions : [of |-> "first", value |-> 0, motion |-> motion] \in Reading
        BY DEF Reading
      <3> QED BY <1>5, <3>1 DEF PollFirst, Bounded
    <2>2. pc' = "poll_second" /\ moved' = moved
      BY <1>5 DEF PollFirst, calibVars
    <2> QED BY <2>1, <2>2 DEF Bounded, BeforePolls
  <1>6. CASE PollSecond
    <2>1. sample' \in Reading
      BY <1>6, SecondIsReading DEF PollSecond, Bounded
    <2>2. pc' = "poll_first" /\ moved' = moved
      BY <1>6 DEF PollSecond, calibVars
    <2> QED BY <2>1, <2>2 DEF Bounded, BeforePolls
  <1> QED BY <1>1, <1>2, <1>3, <1>4, <1>5, <1>6 DEF INext

\* Only a poll that read the second IMU writes, and it writes a sample.
LEMMA StepIsRingStep == IInv /\ Bounded /\ [INext]_iVars => [Next]_vars
  <1> SUFFICES ASSUME IInv, Bounded, [INext]_iVars PROVE [Next]_vars
    OBVIOUS
  <1>1. CASE ~PollSecond
    <2>1. UNCHANGED ringVars
      BY <1>1 DEF INext, Start, StartFails, CalibrateSample, CalibrateDone,
                  CalibrateFails, PollFirst, Exited, iVars
    <2> QED BY <2>1 DEF ringVars
  <1>2. CASE PollSecond
    <2>1. PICK result \in {0, -1} :
             IF HandedOn(result) THEN Write(sample') ELSE UNCHANGED ringVars
      BY <1>2 DEF PollSecond
    <2>2. sample' \in Readings
      BY StepBounded, ReadingsAssumption DEF Bounded
    <2> QED BY <2>1, <2>2 DEF Next, ringVars
  <1> QED BY <1>1, <1>2

THEOREM InertialBounded == ISpec => []Bounded
  BY InitBounded, StepBounded, InertialInvariant, PTL DEF ISpec

\* Whatever start-up, calibration and polling do to the buffer of the second IMU, the
\* ring sees nothing but writes of samples: all that is proved of the ring holds here.
THEOREM ImuImplementsRing == ISpec => Spec
  <1>1. IInit => Init
    BY DEF IInit
  <1> QED BY <1>1, StepIsRingStep, InertialInvariant, InertialBounded, PTL DEF ISpec, Spec

\* Every variable of the driver and its ring keeps its type, the values of the samples
\* their bounds (mpu6050_calibrate(), mpu6050_read() and sensor_manager_poll()).
THEOREM InertialTypeCorrect == ISpec => []ITypeOK
  <1>1. TypeOK /\ IInv /\ Bounded => ITypeOK
    BY DEF IInv, Calibrated, Bounded, ITypeOK
  <1> QED BY <1>1, ImuImplementsRing, RingTypeCorrect, InertialInvariant, InertialBounded, PTL

\* The samples fdi_detect() and fusion_compute() see of an IMU are the last ones that were
\* handed on, oldest first and none twice, whatever reads failed in between.
THEOREM ImuImplementsWindow == ISpec => ImplementsWindow
  BY ImuImplementsRing, RingImplementsWindow
===============================================================================
