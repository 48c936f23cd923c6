------------------------------- MODULE Inertial -------------------------------
(***************************************************************************)
(* One axis of the second IMU, from start-up to its ring buffer: the I2C   *)
(* bus is opened, both IMUs are woken and calibrated, and then every poll  *)
(* reads the first IMU and the second into one local variable.  Any        *)
(* transaction on the bus may fail.                                        *)
(*                                                                         *)
(* Values are in LSB and multiplied by the number of calibration samples,  *)
(* so that the mean is an integer.  The vehicle accelerates as it likes,   *)
(* during the calibration too.                                             *)
(***************************************************************************)
EXTENDS SensorBuffer

CONSTANTS
    ByteModulus,        \* 2^8
    CalibrationSamples, \* samples
    OneG,               \* 1.0 g in LSB
    Biases,             \* what the IMU is off by
    Motions,            \* the accelerations of the vehicle
    MaxMotion           \* and the range they are in

ASSUME CalibrationAssumption == CalibrationSamples \in Nat \ {0}

WordModulus == ByteModulus * ByteModulus
Words == (0 - WordModulus \div 2)..(WordModulus \div 2 - 1)

\* The device measures within its range.
ASSUME RangeAssumption ==
    /\ ByteModulus \in Nat \ {0} /\ WordModulus % 2 = 0
    /\ OneG \in Int /\ Biases \subseteq Int
    /\ MaxMotion \in Nat /\ Motions \subseteq (0 - MaxMotion)..MaxMotion
    /\ \A bias \in Biases, motion \in Motions, pull \in {0, OneG} : bias + motion + pull \in Words

VARIABLES
    pc,          \* the thread's next step
    bias,        \* of the IMU, on this axis
    pull,        \* gravity along this axis: 1.0 g on az, none on the others
    sampled,     \* i: calibration samples so far
    sum,         \* az_sum, say
    offset,      \* calib.az_offset, say
    is_calibrated,
    sample,      \* the local variable of sensor_manager_poll()
    moved        \* history: the accelerations during the calibration, summed up

imuVars == <<bias, pull>>
calibVars == <<sampled, sum, offset, is_calibrated, moved>>
ringVars == vars
iVars == <<pc, imuVars, calibVars, sample, ringVars>>

\* The vehicle's motions during the calibration, summed up.
Drifts == (0 - CalibrationSamples * MaxMotion)..(CalibrationSamples * MaxMotion)

\* The acceleration and gravity, with either a drift taken for bias or the bias left in.
Values ==
    {CalibrationSamples * (motion + down) + rest :
        motion \in Motions, down \in {0, OneG},
        rest \in Drifts \cup {CalibrationSamples * b : b \in Biases}}

\* A sample, with the IMU it is of and the acceleration at the time as history.
Reading == [of : {"second"}, value : Values, motion : Motions]
              \cup [of : {"first"}, value : {0}, motion : Motions]

ASSUME ReadingsAssumption == Readings = Reading

StartSteps == {"open", "wake_first", "wake_second", "buffers"}

IInit ==
    /\ pc = "open"
    /\ bias \in Biases /\ pull \in {0, OneG}
    /\ sampled = 0 /\ sum = 0 /\ offset = 0 /\ is_calibrated = FALSE /\ moved = 0
    /\ sample = Blank.reading
    /\ Init

-------------------------------------------------------------------------------
\* Two's complement, high byte first: what the device sends.
Bytes(word) == LET bits == word % WordModulus IN <<bits \div ByteModulus, bits % ByteModulus>>

\* Bug: the word is kept in an int, and its sign is lost.
MergeUnsigned(bytes) == bytes[1] * ByteModulus + bytes[2]

\* (int16_t)((raw[0] << 8) | raw[1])
Merge(bytes) ==
    LET bits == bytes[1] * ByteModulus + bytes[2]
    IN  IF bits < WordModulus \div 2 THEN bits ELSE bits - WordModulus

\* What a burst read makes of the acceleration of the vehicle.
Raw(motion) == Merge(Bytes(motion + pull + bias))

-------------------------------------------------------------------------------
(* sensor_manager_init(), from the bus on *)

NextStep(step) ==
    CASE step = "open"        -> "wake_first"
      [] step = "wake_first"  -> "wake_second"
      [] step = "wake_second" -> "calibrate"
      [] step = "buffers"     -> "poll_first"

\* mpu6050_init() clears offsets and sleep bit, and looks at WHO_AM_I in vain.
Start ==
    /\ pc \in StartSteps /\ pc' = NextStep(pc)
    /\ UNCHANGED <<imuVars, calibVars, sample, ringVars>>

StartFails ==
    /\ pc \in StartSteps /\ pc' = "exit"
    /\ UNCHANGED <<imuVars, calibVars, sample, ringVars>>

CalibrateSample ==
    /\ pc = "calibrate" /\ sampled < CalibrationSamples
    /\ \E motion \in Motions : sum' = sum + Raw(motion) /\ moved' = moved + motion
    /\ sampled' = sampled + 1
    /\ UNCHANGED <<pc, imuVars, offset, is_calibrated, sample, ringVars>>

\* Bug: the offset takes gravity away from the z axis.
MeanAll(total) == total

\* The mean of the samples, less 1.0 g on the z axis.
Mean(total) == total - CalibrationSamples * pull

CalibrateDone ==
    /\ pc = "calibrate" /\ sampled = CalibrationSamples
    /\ offset' = Mean(sum) /\ is_calibrated' = TRUE
    /\ sampled' = 0 /\ sum' = 0
    /\ pc' = "buffers"
    /\ UNCHANGED <<imuVars, moved, sample, ringVars>>

\* The sums are lost, the offset stays as it was, and nobody looks at the result.
CalibrateFails ==
    /\ pc = "calibrate" /\ sampled < CalibrationSamples
    /\ sampled' = 0 /\ sum' = 0 /\ moved' = 0
    /\ pc' = "buffers"
    /\ UNCHANGED <<imuVars, offset, is_calibrated, sample, ringVars>>

-------------------------------------------------------------------------------
(* sensor_manager_poll(), from the first IMU on *)

\* The first IMU: its own values do not matter here, only whose they are.
PollFirst ==
    /\ pc = "poll_first" /\ pc' = "poll_second"
    /\ \/ \E motion \in Motions : sample' = [of |-> "first", value |-> 0, motion |-> motion]
       \/ UNCHANGED sample
    /\ UNCHANGED <<imuVars, calibVars, ringVars>>

\* Bug: the sample is handed on whatever mpu6050_read() returned.
HandedOnAlways(result) == TRUE

HandedOn(result) == result = 0

\* mpu6050_read() leaves *out alone when the transaction fails.
PollSecond ==
    /\ pc = "poll_second" /\ pc' = "poll_first"
    /\ \E result \in {0, -1}, motion \in Motions :
          /\ sample' = IF result = 0
                       THEN [of |-> "second", motion |-> motion,
                             value |-> CalibrationSamples * Raw(motion) - offset]
                       ELSE sample
          /\ IF HandedOn(result) THEN Write(sample') ELSE UNCHANGED ringVars
    /\ UNCHANGED <<imuVars, calibVars>>

\* The process is gone.
Exited == pc = "exit" /\ UNCHANGED iVars

INext ==
    \/ Start \/ StartFails \/ CalibrateSample \/ CalibrateDone \/ CalibrateFails
    \/ PollFirst \/ PollSecond \/ Exited

ISpec == IInit /\ [][INext]_iVars

-------------------------------------------------------------------------------
ITypeOK ==
    /\ TypeOK
    /\ pc \in StartSteps \cup {"calibrate", "poll_first", "poll_second", "exit"}
    /\ bias \in Biases /\ pull \in {0, OneG}
    /\ sampled \in 0..CalibrationSamples
    /\ sum \in Int /\ offset \in Int /\ moved \in Drifts
    /\ is_calibrated \in BOOLEAN
    /\ sample \in Reading

\* The samples fdi_detect() and fusion_compute() may still see.
Held == {ReadHistory(BufferLen)[i].reading : i \in 1..sample_count}

\* Both IMUs are read into one local variable, and a failed read leaves it to
\* the values of the twin: they never reach the buffer of this one, where they
\* would hide both a dead sensor and a contradiction (sensor_manager_poll()).
SamplesAreOwn == \A reading \in Held : reading.of = "second"

\* A calibration that went through cancels the bias, leaves gravity in and is off by
\* no more than the vehicle moved meanwhile, even if it was pushed both ways; one that
\* failed half-way leaves no part of itself behind (mpu6050_calibrate(), mpu6050_read()).
SampleIsAcceleration ==
    \A reading \in Held :
       reading.value = CalibrationSamples * (reading.motion + pull)
                       + IF is_calibrated
                         THEN 0 - moved ELSE CalibrationSamples * bias
===============================================================================
