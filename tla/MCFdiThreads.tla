---------------------------- MODULE MCFdiThreads ----------------------------
(***************************************************************************)
(* Instances of FdiThreads for TLC: one ultrasonic ranger with everything  *)
(* that may go wrong around it, or the pair of rangers.                    *)
(***************************************************************************)
EXTENDS FdiThreads

OneSensor == {"US1"}
OneOrder  == <<"US1">>

Rangers  == {"US1", "US2"}
PairOrder == <<"US1", "US2">>

AllAttached  == {Links}
AnyAttached  == SUBSET Links
FusionMayBeAlone == {Links, Links \ {"fusion_to_fdi"}}
===============================================================================
