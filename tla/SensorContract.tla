---------------------------- MODULE SensorContract ----------------------------
(***************************************************************************)
(* The identifiers of mq_names.h that every other part shares: sensor      *)
(* states, fault classes, and the redundant partner of a sensor.           *)
(***************************************************************************)

\* sensor_state_t
SensorState == {"HEALTHY", "SUSPECT", "FAULTED", "EXCLUDED", "PROBING", "VALIDATING"}

\* fault_type_t, without the FAULT_ prefix
FaultType == {"NONE", "DELAYED", "STUCK", "NOISY", "CONTRADICTORY"}

\* sensor_id_t and sensor_redundant_pair()
SensorId == {"US1", "US2", "IMU1", "IMU2"}

RedundantPair ==
    [s \in SensorId |-> CASE s = "US1"  -> "US2"
                          [] s = "US2"  -> "US1"
                          [] s = "IMU1" -> "IMU2"
                          [] s = "IMU2" -> "IMU1"]

\* The states main.c splits between its two writers.  evaluate_sensor() moves
\* a sensor that is in one of the first three, recovery_thread() one that is
\* in one of the others.
DetectorOwned == {"HEALTHY", "SUSPECT", "FAULTED"}
RecoveryOwned == {"EXCLUDED", "PROBING", "VALIDATING"}

\* state_is_usable() of fusion.c: the states whose readings may be fused.
Usable == {"HEALTHY", "SUSPECT"}
===============================================================================
