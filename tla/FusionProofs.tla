----------------------------- MODULE FusionProofs -----------------------------
(***************************************************************************)
(* The degradation ladder of Fusion for any readings, ages, accelerations, *)
(* pauses and limits.                                                      *)
(***************************************************************************)
EXTENDS Fusion, TLAPS

\* What a rung of the ladder says of the state it leaves behind: a measured or
\* held distance is backed by evidence no older than the time it has been held,
\* and what a holdover reports is what the next one starts from.
Backing ==
    /\ out.valid <=> out.mode # "UNSAFE"
    /\ out.mode = "UNSAFE" =>
          /\ ~have_last_good \/ held > HoldoverMax
          /\ out.contributors = 0
    /\ have_last_good /\ held <= HoldoverMax => evidence <= held + StaleSample
    /\ out.mode = "HOLDOVER" =>
          /\ out.contributors = 0 /\ held <= HoldoverMax
          /\ out.safe = NotNegative(out.distance - out.uncertainty)
          /\ out.distance = NotNegative(last_good)
          /\ out.uncertainty = UsBase + GrowthPerTick * held
    /\ out.mode \in {"FULL", "SINGLE"} => out.contributors > 0 /\ held <= HoldoverMax
    /\ out.mode # "UNSAFE" => have_last_good

IInv == TypeOK /\ Backing /\ EdgeBeforeNearest

-------------------------------------------------------------------------------
\* A contributing reading is a number of millimetres of a fresh enough sample.
LEMMA ContributorType ==
    ASSUME NEW r \in Reading \cup {NoSample}, Contributes(r)
    PROVE  /\ r.cm \in Nat /\ r.age \in Nat /\ r.age <= StaleSample
           /\ Sigma(r) \in {20, 60}
<1>1. r \in Reading
  BY FusionAssumption DEF NoSample, Contributes, Reading
<1>2. r.cm \in Nat /\ r.age \in Nat
  BY <1>1, FusionAssumption DEF Reading
<1>3. r.age <= StaleSample
  BY DEF Contributes
<1>4. Sigma(r) \in {20, 60}
  BY DEF Sigma, UsBase, SuspectMult
<1>5. QED
  BY <1>2, <1>3, <1>4

\* The clamp at zero.
LEMMA ClampIsNat ==
    ASSUME NEW n \in Int
    PROVE  NotNegative(n) \in Nat /\ NotNegative(n) >= n /\ (n >= 0 => NotNegative(n) = n)
BY DEF NotNegative

\* The clamp keeps the order of what it clamps.
LEMMA ClampIsMonotone ==
    ASSUME NEW m \in Int, NEW n \in Int, m <= n
    PROVE  NotNegative(m) <= NotNegative(n)
BY DEF NotNegative

\* The longer a distance is held, the wider its uncertainty.
LEMMA UncertaintyGrows ==
    ASSUME NEW m \in Nat, NEW n \in Nat, m <= n
    PROVE  /\ UsBase + GrowthPerTick * m \in Nat /\ UsBase + GrowthPerTick * n \in Nat
           /\ UsBase + GrowthPerTick * m <= UsBase + GrowthPerTick * n
BY DEF UsBase, GrowthPerTick

\* The mean of two readings is a number, and halfway between two weighed alike.
LEMMA MeanIsHalfway ==
    ASSUME NEW a \in Reading \cup {NoSample}, Contributes(a),
           NEW b \in Reading \cup {NoSample}, Contributes(b)
    PROVE  /\ Mean(a, b) \in Nat
           /\ Sigma(a) = Sigma(b) => Mean(a, b) = (a.cm + b.cm) \div 2
<1>1. /\ a.cm \in Nat /\ b.cm \in Nat
      /\ Sigma(a) \in {20, 60} /\ Sigma(b) \in {20, 60}
  BY ContributorType
<1>2. CASE Sigma(a) = 20 /\ Sigma(b) = 20
  BY <1>1, <1>2 DEF Mean
<1>3. CASE Sigma(a) = 20 /\ Sigma(b) = 60
  BY <1>1, <1>3 DEF Mean
<1>4. CASE Sigma(a) = 60 /\ Sigma(b) = 20
  BY <1>1, <1>4 DEF Mean
<1>5. CASE Sigma(a) = 60 /\ Sigma(b) = 60
  BY <1>1, <1>5 DEF Mean
<1>6. QED
  BY <1>1, <1>2, <1>3, <1>4, <1>5

\* What fusion reports of two rangers: numbers, and a safe edge before the
\* nearer one if they were weighed alike or disagree.
LEMMA PairIsSafe ==
    ASSUME NEW a \in Reading \cup {NoSample}, Contributes(a),
           NEW b \in Reading \cup {NoSample}, Contributes(b)
    PROVE  /\ Believed(a, b) \in Nat /\ Mean(a, b) \in Nat
           /\ Magnitude(a.cm - b.cm) \in Nat /\ PairUncertainty(a, b) \in Nat
           /\ Lesser(a.cm, b.cm) \in Nat
           /\ Believed(a, b) = Lesser(a.cm, b.cm)
           /\ Sigma(a) = Sigma(b) =>
                 Mean(a, b) - PairUncertainty(a, b) <= Lesser(a.cm, b.cm)
<1>1. /\ a.cm \in Nat /\ b.cm \in Nat
      /\ Sigma(a) \in {20, 60} /\ Sigma(b) \in {20, 60}
  BY ContributorType
<1>2. Magnitude(a.cm - b.cm) \in Nat /\ Lesser(a.cm, b.cm) \in Nat
  BY <1>1 DEF Magnitude, Lesser
<1>3. Joint(Sigma(a), Sigma(b)) \in 14..42
  BY <1>1 DEF Joint, UsBase
<1>4. PairUncertainty(a, b) \in Nat
  BY <1>2, <1>3 DEF PairUncertainty
<1>5. Sigma(a) = Sigma(b) => Mean(a, b) - PairUncertainty(a, b) <= Lesser(a.cm, b.cm)
  <2> SUFFICES ASSUME Sigma(a) = Sigma(b)
               PROVE  Mean(a, b) - PairUncertainty(a, b) <= Lesser(a.cm, b.cm)
    OBVIOUS
  <2>1. Mean(a, b) = (a.cm + b.cm) \div 2
    BY MeanIsHalfway
  <2> HIDE DEF Joint, Sigma
  <2>2. QED
    BY <1>1, <1>3, <2>1 DEF PairUncertainty, Magnitude, Lesser
<1>6. QED
  BY <1>2, <1>4, <1>5, MeanIsHalfway DEF Believed

\* The result of giving up.
LEMMA UnsafeFields ==
    /\ Unsafe.mode = "UNSAFE" /\ ~Unsafe.valid /\ Unsafe.valid \in BOOLEAN
    /\ Unsafe.distance = 0 /\ Unsafe.uncertainty = 0 /\ Unsafe.contributors = 0
    /\ Unsafe.safe \in Nat
<1>1. Unsafe.safe = NotNegative(0 - 0)
  BY DEF Unsafe, Result
<1>2. NotNegative(0 - 0) \in Nat
  BY ClampIsNat
<1>3. Unsafe.valid = FALSE
  BY DEF Unsafe, Result
<1>4. QED
  BY <1>1, <1>2, <1>3 DEF Unsafe, Result

-------------------------------------------------------------------------------
\* A measured range: the case Full and DegradedSingle share.
LEMMA RefreshKeeps ==
    ASSUME IInv,
           NEW mode \in {"FULL", "SINGLE"}, NEW distance \in Nat,
           NEW uncertainty \in Nat, NEW contributors \in 1..2,
           NEW age \in Nat, age <= StaleSample,
           NEW reading \in Nat, NEW even \in BOOLEAN,
           even => distance - uncertainty <= reading,
           Refresh(Result(mode, distance, uncertainty, contributors), age, reading, even)
    PROVE  IInv'
<1> DEFINE r == Result(mode, distance, uncertainty, contributors)
<1>1. /\ out' = r /\ last_good' = r.distance /\ held' = 0 /\ have_last_good' = TRUE
      /\ velocity' = 0 /\ unintegrated' = 0
      /\ evidence' = age /\ nearest' = [cm |-> reading, even |-> even]
  BY DEF Refresh
<1>2. /\ r.mode = mode /\ r.valid = TRUE
      /\ r.distance = distance /\ r.uncertainty = uncertainty
      /\ r.contributors = contributors
      /\ r.safe = NotNegative(distance - uncertainty)
  <2>1. mode # "UNSAFE"
    OBVIOUS
  <2>2. QED
    BY <2>1 DEF Result
<1>3. r.safe \in Nat
  BY <1>2, ClampIsNat
<1> HIDE DEF r
<1>4. HoldoverMax \in Nat /\ StaleSample \in Nat
  BY FusionAssumption
<1>5. TypeOK'
  <2>1. /\ nearest'.cm \in Nat /\ nearest'.even \in BOOLEAN
    BY <1>1, Zenon
  <2>2. out'.valid \in BOOLEAN /\ have_last_good' \in BOOLEAN
    BY <1>1, <1>2
  <2>3. out'.mode \in {"FULL", "SINGLE", "HOLDOVER", "UNSAFE"}
    BY <1>1, <1>2
  <2>4. /\ last_good' \in Int /\ velocity' \in Int
        /\ held' \in 0..(HoldoverMax + 1) /\ unintegrated' \in 0..DtMax
        /\ out'.contributors \in 0..2
        /\ out'.distance \in Nat /\ out'.uncertainty \in Nat /\ out'.safe \in Nat
        /\ evidence' \in Nat
    BY <1>1, <1>2, <1>3, <1>4 DEF DtMax
  <2>5. QED
    BY <2>1, <2>2, <2>3, <2>4 DEF TypeOK
<1>6. Backing'
  BY <1>1, <1>2, <1>4 DEF Backing
<1>7. EdgeBeforeNearest'
  <2> SUFFICES ASSUME even PROVE r.safe <= reading
    BY <1>1 DEF EdgeBeforeNearest
  <2>1. NotNegative(distance - uncertainty) <= NotNegative(reading)
    BY ClampIsMonotone
  <2>2. NotNegative(reading) = reading
    BY DEF NotNegative
  <2>3. QED
    BY <1>2, <2>1, <2>2
<1>8. QED
  BY <1>5, <1>6, <1>7 DEF IInv

\* Both rangers contribute.
LEMMA FullKeeps ==
    ASSUME IInv, NEW a \in Reading \cup {NoSample}, NEW b \in Reading \cup {NoSample},
           Full(a, b)
    PROVE  IInv'
<1>1. Contributes(a) /\ Contributes(b)
  BY DEF Full
<1>2. /\ a.age \in Nat /\ b.age \in Nat /\ a.age <= StaleSample /\ b.age <= StaleSample
      /\ a.cm \in Nat /\ b.cm \in Nat
  BY <1>1, ContributorType
<1>3. Lesser(a.age, b.age) \in Nat /\ Lesser(a.age, b.age) <= StaleSample
  BY <1>2, FusionAssumption DEF Lesser
<1> DEFINE even == Sigma(a) = Sigma(b) \/ Disagree(a, b)
           gap == Magnitude(a.cm - b.cm)
<1>4. /\ Believed(a, b) \in Nat /\ Mean(a, b) \in Nat
      /\ gap \in Nat /\ PairUncertainty(a, b) \in Nat
      /\ Lesser(a.cm, b.cm) \in Nat
      /\ Believed(a, b) = Lesser(a.cm, b.cm)
      /\ Sigma(a) = Sigma(b) =>
            Mean(a, b) - PairUncertainty(a, b) <= Lesser(a.cm, b.cm)
  BY <1>1, PairIsSafe
<1>5. CASE Disagree(a, b)
  <2>1. Refresh(Result("FULL", Believed(a, b), gap, 2),
                Lesser(a.age, b.age), Lesser(a.cm, b.cm), even)
    BY <1>5 DEF Full
  <2> HIDE DEF gap
  <2>2. Believed(a, b) - gap <= Lesser(a.cm, b.cm)
    BY <1>4
  <2>3. even \in BOOLEAN
    BY <1>5
  <2> HIDE DEF even
  <2>4. QED
    BY <1>3, <1>4, <2>1, <2>2, <2>3, RefreshKeeps
<1>6. CASE ~Disagree(a, b)
  <2>1. Refresh(Result("FULL", Mean(a, b), PairUncertainty(a, b), 2),
                Lesser(a.age, b.age), Lesser(a.cm, b.cm), even)
    BY <1>6 DEF Full
  <2>2. even => Mean(a, b) - PairUncertainty(a, b) <= Lesser(a.cm, b.cm)
    BY <1>4, <1>6
  <2>3. even \in BOOLEAN
    BY <1>6
  <2> HIDE DEF even
  <2>4. QED
    BY <1>3, <1>4, <2>1, <2>2, <2>3, RefreshKeeps
<1>7. QED
  BY <1>5, <1>6

\* One ranger contributes.
LEMMA SingleKeeps ==
    ASSUME IInv, NEW a \in Reading \cup {NoSample}, NEW b \in Reading \cup {NoSample},
           DegradedSingle(a, b)
    PROVE  IInv'
<1>1. PICK c \in {a, b} :
         /\ Contributes(c)
         /\ Refresh(Result("SINGLE", c.cm, Single(Sigma(c)), 1), c.age, c.cm, TRUE)
  BY DEF DegradedSingle
<1>2. /\ c.age \in Nat /\ c.age <= StaleSample /\ c.cm \in Nat /\ Sigma(c) \in {20, 60}
  BY <1>1, ContributorType
<1>3. Single(Sigma(c)) \in Nat
  BY <1>2 DEF Single
<1>4. TRUE => c.cm - Single(Sigma(c)) <= c.cm
  BY <1>2, <1>3
<1>5. TRUE \in BOOLEAN /\ 1 \in 1..2
  OBVIOUS
<1> HIDE DEF Single, Sigma
<1>6. QED
  BY <1>1, <1>2, <1>3, <1>4, <1>5, RefreshKeeps

\* Nobody contributes and the last good distance is held.
LEMMA HoldoverKeeps ==
    ASSUME IInv, NEW pause \in Pauses, NEW accel \in LongAccel, Holdover(pause, accel)
    PROVE  /\ IInv'
           /\ last_good' <= last_good /\ held' >= held
           /\ held' <= HoldoverMax /\ have_last_good
<1> DEFINE dt == Lesser(unintegrated + pause, DtMax)
           speed == velocity + accel * dt
           distance == DeadReckon(speed, dt)
           uncertainty == UsBase + GrowthPerTick * HeldFor(pause)
           r == Result("HOLDOVER", NotNegative(distance), uncertainty, 0)
<1>1. /\ have_last_good /\ HeldFor(pause) <= HoldoverMax
      /\ velocity' = speed /\ unintegrated' = 0
      /\ last_good' = distance /\ held' = HeldFor(pause)
      /\ out' = r /\ evidence' = evidence + pause
      /\ have_last_good' = have_last_good /\ nearest' = nearest
  BY DEF Holdover
<1>2. /\ r.mode = "HOLDOVER" /\ r.valid = TRUE
      /\ r.distance = NotNegative(distance) /\ r.uncertainty = uncertainty
      /\ r.contributors = 0
      /\ r.safe = NotNegative(r.distance - r.uncertainty)
  BY DEF Result
<1>3. /\ held \in 0..(HoldoverMax + 1) /\ unintegrated \in 0..DtMax /\ velocity \in Int
      /\ last_good \in Int /\ evidence \in Nat /\ have_last_good \in BOOLEAN
      /\ nearest.cm \in Nat /\ nearest.even \in BOOLEAN
  BY DEF IInv, TypeOK
<1>4. pause \in Nat /\ StaleSample \in Nat /\ HoldoverMax \in Nat
  BY FusionAssumption
<1>5. accel \in Int
  BY FusionAssumption DEF LongAccel
<1>6. dt \in Nat
  BY <1>3, <1>4 DEF Lesser, DtMax
<1> HIDE DEF dt
<1>7. speed \in Int
  BY <1>3, <1>5, <1>6
<1> HIDE DEF speed
<1>8. Magnitude(speed) \in Nat
  BY <1>7 DEF Magnitude
<1>9. Magnitude(speed) * dt \in Nat
  BY <1>6, <1>8
<1>10. distance \in Int /\ distance <= last_good
  BY <1>3, <1>9 DEF DeadReckon
<1> HIDE DEF distance
<1>11. HeldFor(pause) \in Nat /\ HeldFor(pause) >= held
  BY <1>3, <1>4 DEF HeldFor
<1>12. uncertainty \in Nat
  BY <1>11 DEF UsBase, GrowthPerTick
<1>13. NotNegative(distance) \in Nat /\ r.safe \in Nat
  BY <1>2, <1>10, <1>12, ClampIsNat
<1> HIDE DEF r
<1>14. TypeOK'
  <2>1. /\ nearest'.cm \in Nat /\ nearest'.even \in BOOLEAN
    BY <1>1, <1>3
  <2>2. out'.valid \in BOOLEAN /\ have_last_good' \in BOOLEAN
    BY <1>1, <1>2, <1>3
  <2>3. out'.mode \in {"FULL", "SINGLE", "HOLDOVER", "UNSAFE"}
    BY <1>1, <1>2
  <2>4. /\ last_good' \in Int /\ velocity' \in Int
        /\ held' \in 0..(HoldoverMax + 1) /\ unintegrated' \in 0..DtMax
        /\ out'.contributors \in 0..2
        /\ out'.distance \in Nat /\ out'.uncertainty \in Nat /\ out'.safe \in Nat
        /\ evidence' \in Nat
    BY <1>1, <1>2, <1>3, <1>4, <1>7, <1>10, <1>11, <1>12, <1>13 DEF DtMax
  <2>5. QED
    BY <2>1, <2>2, <2>3, <2>4 DEF TypeOK
<1>15. evidence' <= held' + StaleSample
  <2>1. held <= HoldoverMax
    BY <1>1, <1>3, <1>4, <1>11
  <2>2. evidence <= held + StaleSample
    BY <1>1, <2>1 DEF IInv, Backing
  <2>3. QED
    BY <1>1, <1>3, <1>4, <2>2 DEF HeldFor
<1>16. Backing'
  BY <1>1, <1>2, <1>15 DEF Backing
<1>17. EdgeBeforeNearest'
  BY <1>1, <1>2 DEF EdgeBeforeNearest
<1>18. QED
  BY <1>1, <1>10, <1>11, <1>14, <1>16, <1>17 DEF IInv

\* Nobody contributes and there is nothing to hold, or no longer.
LEMMA GiveUpKeeps ==
    ASSUME IInv, NEW pause \in Pauses, GiveUp(pause)
    PROVE  IInv' /\ out'.mode = "UNSAFE" /\ ~out'.valid
<1>1. /\ have_last_good => HeldFor(pause) > HoldoverMax
      /\ out' = Unsafe /\ held' = Lesser(HeldFor(pause), HoldoverMax + 1)
      /\ unintegrated' = Lesser(unintegrated + pause, DtMax)
      /\ last_good' = last_good /\ velocity' = velocity
      /\ have_last_good' = have_last_good /\ evidence' = evidence /\ nearest' = nearest
  BY DEF GiveUp
<1>2. /\ Unsafe.mode = "UNSAFE" /\ ~Unsafe.valid /\ Unsafe.valid \in BOOLEAN
      /\ Unsafe.distance = 0 /\ Unsafe.uncertainty = 0 /\ Unsafe.contributors = 0
      /\ Unsafe.safe \in Nat
  BY UnsafeFields
<1>3. /\ held \in 0..(HoldoverMax + 1) /\ unintegrated \in 0..DtMax /\ velocity \in Int
      /\ last_good \in Int /\ evidence \in Nat /\ have_last_good \in BOOLEAN
      /\ nearest.cm \in Nat /\ nearest.even \in BOOLEAN
  BY DEF IInv, TypeOK
<1>4. pause \in Nat /\ HoldoverMax \in Nat
  BY FusionAssumption
<1>5. TypeOK'
  <2>1. /\ nearest'.cm \in Nat /\ nearest'.even \in BOOLEAN
    BY <1>1, <1>3
  <2>2. out'.valid \in BOOLEAN /\ have_last_good' \in BOOLEAN
    BY <1>1, <1>2, <1>3
  <2>3. out'.mode \in {"FULL", "SINGLE", "HOLDOVER", "UNSAFE"}
    BY <1>1, <1>2
  <2>4. /\ last_good' \in Int /\ velocity' \in Int
        /\ held' \in 0..(HoldoverMax + 1) /\ unintegrated' \in 0..DtMax
        /\ out'.contributors \in 0..2
        /\ out'.distance \in Nat /\ out'.uncertainty \in Nat /\ out'.safe \in Nat
        /\ evidence' \in Nat
    BY <1>1, <1>2, <1>3, <1>4 DEF HeldFor, Lesser, DtMax
  <2>5. QED
    BY <2>1, <2>2, <2>3, <2>4 DEF TypeOK
<1>6. have_last_good => held' > HoldoverMax
  BY <1>1, <1>3, <1>4 DEF HeldFor, Lesser
<1>7. have_last_good' => ~(held' <= HoldoverMax)
  BY <1>1, <1>4, <1>5, <1>6 DEF TypeOK
<1>8. Backing'
  BY <1>1, <1>2, <1>6, <1>7 DEF Backing
<1>9. EdgeBeforeNearest'
  BY <1>1, <1>2 DEF EdgeBeforeNearest
<1>10. QED
  BY <1>1, <1>2, <1>5, <1>8, <1>9 DEF IInv

-------------------------------------------------------------------------------
\* The ladder's invariant: what it reports is backed by its carried state, for
\* any readings, pauses and limits (fusion_compute()).
THEOREM LadderInvariant == Spec => []IInv
<1>1. Init => IInv
  <2> SUFFICES ASSUME Init PROVE IInv
    OBVIOUS
  <2>1. /\ Unsafe.mode = "UNSAFE" /\ ~Unsafe.valid /\ Unsafe.valid \in BOOLEAN
        /\ Unsafe.distance = 0 /\ Unsafe.uncertainty = 0 /\ Unsafe.contributors = 0
        /\ Unsafe.safe \in Nat
    BY UnsafeFields
  <2>2. TypeOK
    <3>1. nearest.cm \in Nat /\ nearest.even \in BOOLEAN
      BY DEF Init
    <3>2. out.valid \in BOOLEAN /\ have_last_good \in BOOLEAN
      BY <2>1 DEF Init
    <3>3. out.mode \in {"FULL", "SINGLE", "HOLDOVER", "UNSAFE"}
      BY <2>1 DEF Init
    <3>4. /\ last_good \in Int /\ velocity \in Int
          /\ held \in 0..(HoldoverMax + 1) /\ unintegrated \in 0..DtMax
          /\ out.contributors \in 0..2
          /\ out.distance \in Nat /\ out.uncertainty \in Nat /\ out.safe \in Nat
          /\ evidence \in Nat
      BY <2>1, FusionAssumption DEF Init, DtMax
    <3>5. QED
      BY <3>1, <3>2, <3>3, <3>4 DEF TypeOK
  <2>3. Backing /\ EdgeBeforeNearest
    BY <2>1 DEF Init, Backing, EdgeBeforeNearest
  <2>4. QED
    BY <2>2, <2>3 DEF IInv
<1>2. IInv /\ [Next]_vars => IInv'
  <2> SUFFICES ASSUME IInv, [Next]_vars PROVE IInv'
    OBVIOUS
  <2>1. CASE Next
    <3>1. PICK a \in Reading \cup {NoSample}, b \in Reading \cup {NoSample} :
             \/ Full(a, b) \/ DegradedSingle(a, b)
             \/ \E pause \in Pauses :
                   GiveUp(pause) \/ \E accel \in LongAccel : Holdover(pause, accel)
      BY <2>1 DEF Next
    <3>2. QED
      BY <3>1, FullKeeps, SingleKeeps, GiveUpKeeps, HoldoverKeeps
  <2>2. CASE UNCHANGED vars
    BY <2>2 DEF vars, fs, IInv, TypeOK, Backing, EdgeBeforeNearest
  <2>3. QED
    BY <2>1, <2>2
<1>3. QED
  BY <1>1, <1>2, PTL DEF Spec

\* Whatever fusion_compute() is fed, its result and its carried state keep their
\* types, and the reported safe edge is never negative.
THEOREM LadderTypeCorrect == Spec => []TypeOK
<1>1. IInv => TypeOK
  BY DEF IInv
<1>2. QED
  BY <1>1, LadderInvariant, PTL

\* No valid distance rests on a measurement older than the holdover allows, for
\* any limits and any coming and going of the sensors (fusion_compute()).
THEOREM EvidenceNeverOutlivesHoldover == Spec => []EvidenceIsBounded
<1>1. IInv => EvidenceIsBounded
  <2> SUFFICES ASSUME IInv, out.valid PROVE evidence <= HoldoverMax + StaleSample
    BY DEF EvidenceIsBounded
  <2>1. out.mode # "UNSAFE" /\ have_last_good
    BY DEF IInv, Backing
  <2>2. out.mode \in {"FULL", "SINGLE", "HOLDOVER"}
    BY <2>1 DEF IInv, TypeOK
  <2>3. held <= HoldoverMax
    BY <2>2 DEF IInv, Backing
  <2>4. evidence <= held + StaleSample
    BY <2>1, <2>3 DEF IInv, Backing
  <2>5. held \in Int /\ evidence \in Nat /\ HoldoverMax \in Nat /\ StaleSample \in Nat
    BY FusionAssumption DEF IInv, TypeOK
  <2>6. QED
    BY <2>3, <2>4, <2>5
<1>2. QED
  BY <1>1, LadderInvariant, PTL

\* The safe edge of a measured distance never lies beyond the nearer ranger, for
\* any two readings weighed alike or in disagreement (fusion_compute()).
THEOREM EdgeNeverBeyondNearest == Spec => []EdgeBeforeNearest
<1>1. IInv => EdgeBeforeNearest
  BY DEF IInv
<1>2. QED
  BY <1>1, LadderInvariant, PTL

-------------------------------------------------------------------------------
\* The less safe distance, the more restrictive the zone.
LEMMA ZoneFollowsEdge ==
    ASSUME NEW m \in Nat, NEW n \in Nat, m <= n,
           NEW p, p.valid, p.safe = m,
           NEW q, q.valid, q.safe = n
    PROVE  ZoneRank(p) <= ZoneRank(q)
BY DEF ZoneRank

\* The zone never relaxes while no ranger contributes, for any acceleration of
\* either sign and any pause between two calls (fusion_compute()).
THEOREM BlindNeverRelaxes == Spec => BlindZoneNeverRelaxes
<1>1. IInv /\ [Next]_vars =>
         [out.contributors = 0 /\ out'.contributors = 0 => ZoneRank(out') <= ZoneRank(out)]_vars
  <2> SUFFICES ASSUME IInv, Next, out.contributors = 0, out'.contributors = 0
               PROVE  ZoneRank(out') <= ZoneRank(out)
    OBVIOUS
  <2>1. ZoneRank(out) \in Nat
    BY DEF ZoneRank, IInv, TypeOK
  <2>2. PICK a \in Reading \cup {NoSample}, b \in Reading \cup {NoSample} :
           \/ Full(a, b) \/ DegradedSingle(a, b)
           \/ \E pause \in Pauses :
                 GiveUp(pause) \/ \E accel \in LongAccel : Holdover(pause, accel)
    BY DEF Next
  <2>3. CASE Full(a, b) \/ DegradedSingle(a, b)
    BY <2>3 DEF Full, DegradedSingle, Refresh, Result
  <2>4. ASSUME NEW pause \in Pauses, GiveUp(pause)
        PROVE  ZoneRank(out') <= ZoneRank(out)
    <3>1. ZoneRank(out') = 0
      BY <2>4, GiveUpKeeps DEF ZoneRank
    <3>2. QED
      BY <2>1, <3>1
  <2>5. ASSUME NEW pause \in Pauses, NEW accel \in LongAccel, Holdover(pause, accel)
        PROVE  ZoneRank(out') <= ZoneRank(out)
    <3>1. /\ IInv' /\ last_good' <= last_good /\ held' >= held
          /\ held' <= HoldoverMax /\ have_last_good
      BY <2>5, HoldoverKeeps
    <3>2. /\ held \in Nat /\ held' \in Nat /\ last_good \in Int /\ last_good' \in Int
          /\ out.safe \in Nat /\ out'.safe \in Nat /\ HoldoverMax \in Nat
      BY <3>1, FusionAssumption DEF IInv, TypeOK
    <3>3. out'.mode = "HOLDOVER" /\ out'.valid
      BY <2>5 DEF Holdover, Result
    <3>4. out.mode = "HOLDOVER" /\ out.valid
      <4>1. out.mode # "UNSAFE"
        BY <3>1, <3>2 DEF IInv, Backing
      <4>2. out.mode \notin {"FULL", "SINGLE"}
        BY DEF IInv, Backing
      <4>3. QED
        BY <4>1, <4>2 DEF IInv, TypeOK, Backing
    <3>5. /\ out.safe = NotNegative(out.distance - out.uncertainty)
          /\ out.distance = NotNegative(last_good)
          /\ out.uncertainty = UsBase + GrowthPerTick * held
      BY <3>4 DEF IInv, Backing
    <3>6. /\ out'.safe = NotNegative(out'.distance - out'.uncertainty)
          /\ out'.distance = NotNegative(last_good')
          /\ out'.uncertainty = UsBase + GrowthPerTick * held'
      BY <3>1, <3>3 DEF IInv, Backing
    <3>7. out'.safe <= out.safe
      <4>1. /\ UsBase + GrowthPerTick * held \in Nat
            /\ UsBase + GrowthPerTick * held' \in Nat
            /\ UsBase + GrowthPerTick * held <= UsBase + GrowthPerTick * held'
        BY <3>1, <3>2, UncertaintyGrows
      <4>2. /\ NotNegative(last_good) \in Nat /\ NotNegative(last_good') \in Nat
            /\ NotNegative(last_good') <= NotNegative(last_good)
        BY <3>1, <3>2, ClampIsNat, ClampIsMonotone
      <4>3. /\ out.distance - out.uncertainty \in Int
            /\ out'.distance - out'.uncertainty \in Int
            /\ out'.distance - out'.uncertainty <= out.distance - out.uncertainty
        BY <3>5, <3>6, <4>1, <4>2
      <4>4. QED
        BY <3>5, <3>6, <4>3, ClampIsMonotone
    <3>8. QED
      BY <3>2, <3>3, <3>4, <3>7, ZoneFollowsEdge
  <2>6. QED
    BY <2>2, <2>3, <2>4, <2>5
<1>2. QED
  BY <1>1, LadderInvariant, PTL DEF Spec, BlindZoneNeverRelaxes
===============================================================================
