-------------------------------- MODULE Fusion --------------------------------
(***************************************************************************)
(* fusion_compute() of fusion.c, cycle after cycle: the degradation ladder *)
(* FULL, SINGLE, HOLDOVER, UNSAFE and the distance, uncertainty and safe   *)
(* edge it reports.  Distances are integers of a millimetre, times of a    *)
(* tick of 100 ms and speeds of a millimetre per tick; a division rounds   *)
(* down.  What the sensors say in a cycle is the environment's choice.     *)
(***************************************************************************)
EXTENDS Integers, SensorContract

CONSTANTS
    Distances,     \* readings
    Ages,          \* ages of the newest samples
    States,        \* the states of the rangers' contexts
    Accelerations, \* longitudinal acceleration of a usable IMU
    Pauses,        \* times between two calls
    StaleSample,   \* STALE_SAMPLE_US
    HoldoverMax    \* HOLDOVER_MAX_US

ASSUME FusionAssumption ==
    /\ Distances \subseteq Nat /\ Ages \subseteq Nat
    /\ States \subseteq SensorState /\ Accelerations \subseteq Int
    /\ Pauses \subseteq Nat \ {0}
    /\ StaleSample \in Nat /\ HoldoverMax \in Nat

VARIABLES
    last_good,       \* fs->last_good_cm
    held,            \* now_us - fs->last_good_us
    velocity,        \* fs->velocity_mps
    unintegrated,    \* now_us - fs->last_integrate_us
    have_last_good,  \* fs->have_last_good
    out,             \* fusion_result_t of the last call
    evidence,        \* history: age of the newest sample `out` rests on
    nearest          \* history: the nearest reading `out` rests on, and whether
                     \* both were weighed alike or disagreed

fs == <<last_good, held, velocity, unintegrated, have_last_good>>
vars == <<fs, out, evidence, nearest>>

UsBase == 20                       \* US_BASE_UNCERTAINTY_CM
SuspectMult == 3                   \* SUSPECT_UNCERTAINTY_MULT
Single(sigma) == (5 * sigma) \div 2 \* SINGLE_UNCERTAINTY_MULT
PairDisagree == 200                \* PAIR_DISAGREE_CM
GrowthPerTick == 25                \* HOLDOVER_GROWTH_CM_PER_S
Deadband == 3                      \* ACCEL_DEADBAND_G
DtMax == 5                         \* the clamp of dt

Magnitude(n) == IF n < 0 THEN 0 - n ELSE n
Lesser(m, n) == IF m < n THEN m ELSE n

\* Bug: the result is not clamped.
Unclamped(n) == n

NotNegative(n) == IF n < 0 THEN 0 ELSE n

\* sqrt(1 / (1/sa^2 + 1/sb^2)) for the two sigmas there are.
Joint(sa, sb) == IF sa = sb THEN IF sa = UsBase THEN 14 ELSE 42 ELSE 19

\* A ranger's context and newest sample, or none.
Reading == [state : States, cm : Distances, age : Ages]
NoSample == [state |-> "HEALTHY", cm |-> 0, age |-> StaleSample + 1]

\* read_contributor(): present, and with which sigma.
Contributes(r) == r.state \in Usable /\ r.age <= StaleSample
Sigma(r) == IF r.state = "SUSPECT" THEN UsBase * SuspectMult ELSE UsBase

\* The accelerations read_long_accel() may return; below the deadband it is 0.
LongAccel == {IF Magnitude(g) < Deadband THEN 0 ELSE g : g \in Accelerations}

Result(mode, distance, uncertainty, contributors) ==
    [mode |-> mode, valid |-> mode # "UNSAFE", distance |-> distance,
     uncertainty |-> uncertainty, contributors |-> contributors,
     safe |-> NotNegative(distance - uncertainty)]
Unsafe == Result("UNSAFE", 0, 0, 0)

Init ==
    /\ last_good = 0 /\ held = 0 /\ velocity = 0 /\ unintegrated = 0
    /\ have_last_good = FALSE
    /\ out = Unsafe /\ evidence = 0
    /\ nearest = [cm |-> 0, even |-> TRUE]

-------------------------------------------------------------------------------
\* A range was measured: holdover starts afresh from it.
Refresh(result, age, reading, even) ==
    /\ out' = result
    /\ last_good' = result.distance /\ held' = 0 /\ have_last_good' = TRUE
    /\ velocity' = 0 /\ unintegrated' = 0
    /\ evidence' = age /\ nearest' = [cm |-> reading, even |-> even]

\* Of two rangers that disagree, the closer one.
Believed(a, b) == Lesser(a.cm, b.cm)

Disagree(a, b) == Magnitude(a.cm - b.cm) > PairDisagree

\* The inverse-variance mean: each is weighed with the other's variance.
Mean(a, b) ==
    LET wa == Sigma(b) * Sigma(b)
        wb == Sigma(a) * Sigma(a)
    IN  (a.cm * wa + b.cm * wb) \div (wa + wb)

\* Bug: the distance between the two counts for nothing.
PairUncertaintyNarrow(a, b) == Joint(Sigma(a), Sigma(b))

PairUncertainty(a, b) ==
    Joint(Sigma(a), Sigma(b)) + Magnitude(a.cm - b.cm) \div 2

Full(a, b) ==
    /\ Contributes(a) /\ Contributes(b)
    /\ Refresh(IF Disagree(a, b)
               THEN Result("FULL", Believed(a, b), Magnitude(a.cm - b.cm), 2)
               ELSE Result("FULL", Mean(a, b), PairUncertainty(a, b), 2),
               Lesser(a.age, b.age), Lesser(a.cm, b.cm),
               Sigma(a) = Sigma(b) \/ Disagree(a, b))

DegradedSingle(a, b) ==
    \E c \in {a, b} :
       /\ Contributes(c) /\ (Contributes(a) # Contributes(b))
       /\ Refresh(Result("SINGLE", c.cm, Single(Sigma(c)), 1), c.age, c.cm, TRUE)

\* Bug: every holdover starts the time allowed for it afresh.
HeldForRestarts(pause) == pause

HeldFor(pause) == held + pause

\* Bug: the distance follows the sign of the velocity.
DeadReckonSigned(speed, dt) == last_good - speed * dt

\* Any motion is taken for approach.
DeadReckon(speed, dt) == last_good - Magnitude(speed) * dt

\* No ranger contributes; accel is 0 when no IMU is usable.
Holdover(pause, accel) ==
    LET dt == Lesser(unintegrated + pause, DtMax)
        speed == velocity + accel * dt
        distance == DeadReckon(speed, dt)
    IN  /\ have_last_good /\ HeldFor(pause) <= HoldoverMax
        /\ velocity' = speed /\ unintegrated' = 0
        /\ last_good' = distance /\ held' = HeldFor(pause)
        /\ out' = Result("HOLDOVER", NotNegative(distance),
                         UsBase + GrowthPerTick * HeldFor(pause), 0)
        /\ evidence' = evidence + pause
        /\ UNCHANGED <<have_last_good, nearest>>

\* Nothing to hold over from, or held for too long.
GiveUp(pause) ==
    /\ have_last_good => HeldFor(pause) > HoldoverMax
    /\ out' = Unsafe
    /\ held' = Lesser(HeldFor(pause), HoldoverMax + 1)
    /\ unintegrated' = Lesser(unintegrated + pause, DtMax)
    /\ UNCHANGED <<last_good, velocity, have_last_good, evidence, nearest>>

Next ==
    \E a, b \in Reading \cup {NoSample} :
       \/ Full(a, b) \/ DegradedSingle(a, b)
       \/ /\ ~Contributes(a) /\ ~Contributes(b)
          /\ \E pause \in Pauses :
                GiveUp(pause) \/ \E accel \in LongAccel : Holdover(pause, accel)

Spec == Init /\ [][Next]_vars

-------------------------------------------------------------------------------
\* What the ladder may report: fusion_result_t and fusion_state_t.
TypeOK ==
    /\ last_good \in Int /\ velocity \in Int /\ have_last_good \in BOOLEAN
    /\ held \in 0..(HoldoverMax + 1) /\ unintegrated \in 0..DtMax
    /\ out.mode \in {"FULL", "SINGLE", "HOLDOVER", "UNSAFE"}
    /\ out.valid \in BOOLEAN /\ out.contributors \in 0..2
    /\ out.distance \in Nat /\ out.uncertainty \in Nat /\ out.safe \in Nat
    /\ evidence \in Nat
    /\ nearest.cm \in Nat /\ nearest.even \in BOOLEAN

\* fusion_zone_name(): how far the zone is from CRITICAL/STOP.
ZoneRank(r) ==
    IF ~r.valid THEN 0
    ELSE CASE r.safe > 1000 -> 4
           [] r.safe > 600 /\ r.safe <= 1000 -> 3
           [] r.safe > 300 /\ r.safe <= 600 -> 2
           [] r.safe > 150 /\ r.safe <= 300 -> 1
           [] OTHER -> 0

\* No distance is reported that rests on a measurement older than the holdover
\* allows, however the sensors came and went before: the ladder ends in UNSAFE
\* (HOLDOVER_MAX_US and STALE_SAMPLE_US, fusion_compute()).
EvidenceIsBounded == out.valid => evidence <= HoldoverMax + StaleSample

\* As long as no ranger contributes, the zone never relaxes from one cycle to
\* the next: neither the accelerometer nor the passing of time nor giving up
\* makes the vehicle safer (fusion_compute() and fusion_zone_name()).
BlindZoneNeverRelaxes ==
    [][out.contributors = 0 /\ out'.contributors = 0 => ZoneRank(out') <= ZoneRank(out)]_vars

\* The safe edge of a measured distance never lies beyond the nearest ranger
\* that contributed to it, when both were weighed alike or disagreed ("believe
\* the CLOSER one", fusion_compute()).
EdgeBeforeNearest ==
    out.contributors > 0 /\ nearest.even => out.safe <= nearest.cm
===============================================================================
