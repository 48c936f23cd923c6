------------------------- MODULE DetectionCycleProofs -------------------------
(***************************************************************************)
(* Theorems about fault detection beside the poll, for any buffer length,  *)
(* stuck threshold and wild readings, any motion whose steps are within    *)
(* the noise and the contradiction threshold, and any order of the locks.  *)
(***************************************************************************)
EXTENDS DetectionCycle, FaultDetectorProofs

Types ==
    /\ truth \in Distances /\ mode \in Behaviours /\ glitched \subseteq Rangers
    /\ window \in [Rangers -> Seq([{1} -> Distances])]
    /\ \A s \in Rangers : Len(window[s]) <= BufferLen
    /\ age \in [Rangers -> 0..AgeCap]
    /\ pcSensor \in {"sleep", "poll_first", "poll_second", "send"}
    /\ pcFdi \in {"receive", "count", "timestamp", "stuck", "noisy", "latest", "compare"}
    /\ cur \in Rangers /\ lag \in 0..LongestPeriod
    /\ latest \in [{1} -> Distances]
    /\ ctx \in [Rangers -> Context]
    /\ overdue \in [Rangers -> 0..(FaultConfirmLimit + 1)]

\* The detector replies before it evaluates, so at most one sleep ends meanwhile.
Pace == pcFdi # "receive" /\ pcSensor = "sleep" => lag = 0

\* What the checks that were passed still say while the later ones run.
Passed ==
    /\ pcFdi \in {"timestamp", "stuck", "noisy", "latest", "compare"} => window[cur] # <<>>
    /\ pcFdi \in {"stuck", "noisy", "latest", "compare"} => InTime(age[cur], lag)

\* Each evaluation that found a sensor overdue has added to its streak.
Counted ==
    \A s \in Rangers :
       /\ ctx[s].state \in {"HEALTHY", "SUSPECT", "EXCLUDED"}
       /\ ctx[s].state = "SUSPECT" =>
             /\ ctx[s].fault_streak <= 1 \/ ctx[s].fault_streak < FaultConfirmLimit
             /\ ctx[s].fault_streak >= overdue[s]
       /\ ctx[s].state = "HEALTHY" => overdue[s] = 0

Value(s) == window[s][Len(window[s])][1]

\* The sensor thread has read s in this cycle.
Polled(s) == pcSensor \in {"sleep", "send"} \/ (pcSensor = "poll_second" /\ s = First)

\* What a clean sensor's buffer holds: the obstacle, seen once in each cycle.
Tracks(s) ==
    /\ IF Polled(s) THEN window[s] = route ELSE route = Write(window[s], truth)
    /\ ~crept => ~Creeps(window[s])
    /\ \A i \in 2..Len(window[s]) :
          Distance(window[s][i][1], window[s][i - 1][1]) \in 0..MaxMove
    /\ window[s] # <<>> => IF Polled(s) THEN Value(s) = truth
                           ELSE Distance(truth, Value(s)) \in 0..MaxMove

\* And it is never late, by the stamp the detector judges it by.
Prompt(s) ==
    /\ pcSensor = "send" \/ (pcSensor = "poll_second" /\ s = First) =>
          window[s] # <<>> /\ age[s] = 0
    /\ pcFdi # "receive" => window[s] # <<>> /\ age[s] <= lag

Clean == \A s \in Rangers : mode[s] = "clean" =>
            Tracks(s) /\ Prompt(s) /\ (~crept => ctx[s].state \in Usable)

\* The vehicle's way, and that a creeping one is never forgotten.
Routed ==
    /\ route \in Seq([{1} -> Distances]) /\ Len(route) <= BufferLen
    /\ crept \in BOOLEAN /\ (Creeps(route) => crept)

\* Two clean twins: their newest samples are of the same poll, or one poll apart.
Twins ==
    (\A s \in Rangers : mode[s] = "clean") =>
       /\ \A s \in Rangers : ctx[s].last_fault \in {"NONE", "STUCK"}
                             /\ (~crept => ctx[s].state = "HEALTHY")
       /\ pcSensor = "poll_first" /\ window[First] # <<>> /\ window[Second] # <<>> =>
             Value(First) = Value(Second)
       /\ pcFdi = "compare" => /\ Distance(latest[1], truth) <= MaxMove
                               /\ Distance(latest[1], Value(RedundantPair[cur])) <= MaxMove
                               /\ pcSensor = "sleep" => latest[1] = truth

IInv == Types /\ Pace /\ Passed /\ Counted /\ Routed /\ Clean /\ Twins
-------------------------------------------------------------------------------
(* Constants, numbers and sequences.                                         *)

Sample == [{1} -> Distances]

LEMMA PairIs ==
    /\ First # Second /\ First \in Rangers /\ Second \in Rangers
    /\ \A s \in Rangers : s = First \/ s = Second
    /\ RedundantPair[First] = Second /\ RedundantPair[Second] = First
  <1>1. Rangers = {First, Second} /\ First \in SensorId /\ Second \in SensorId
    BY PairAssumption
  <1>2. RedundantPair[First] = Second
    BY PairAssumption
  <1>3. RedundantPair[First] # First /\ RedundantPair[RedundantPair[First]] = First
    BY <1>1 DEF RedundantPair, SensorId
  <1> QED BY <1>1, <1>2, <1>3

LEMMA Numbers ==
    /\ BufferLen \in Nat /\ BufferLen >= 1
    /\ DelayTimeout \in Nat /\ LongestPeriod \in Nat /\ LongestPeriod >= 1 /\ AgeCap \in Nat
    /\ AgeCap = DelayTimeout + LongestPeriod + 1
    /\ MaxMove \in Nat /\ MaxMove <= NoiseThreshold /\ MaxMove <= ContradictionThreshold
    /\ NoiseThreshold \in Nat /\ ContradictionThreshold \in Nat /\ StuckThreshold \in Nat
    /\ Moves \subseteq 0..MaxMove
    /\ FaultConfirmLimit \in Nat /\ FaultConfirmLimit >= 1 /\ FaultConfirmLimit <= 255
    /\ MaxDistance \in Nat /\ Distances \subseteq Nat /\ Wild \subseteq Distances
  BY ThresholdsAssumption, MotionAssumption, LimitsAssumption DEF AgeCap, Distances

LEMMA DistanceIs ==
    ASSUME NEW a \in Nat, NEW b \in Nat
    PROVE  /\ Distance(a, b) \in Nat /\ Distance(a, b) = Distance(b, a) /\ Distance(a, a) = 0
           /\ Distance(a, b) = 0 => a = b
  BY DEF Distance

LEMMA InTimeIs ==
    ASSUME NEW a \in Nat, NEW l \in Nat
    PROVE  InTime(a, l) <=> a - l <= DelayTimeout
  BY Numbers DEF InTime, Delayed

LEMMA CapIs ==
    ASSUME NEW n \in Nat
    PROVE  AtMostCap(n) \in 0..AgeCap /\ AtMostCap(n) <= n
  BY Numbers DEF AtMostCap

LEMMA SampleIs ==
    ASSUME NEW v \in Distances
    PROVE  <<v>> \in Sample /\ <<v>>[1] = v
  BY DEF Sample

\* A write keeps all neighbours but the one it makes.
LEMMA WriteIs ==
    ASSUME NEW w \in Seq(Sample), Len(w) <= BufferLen, NEW v \in Distances
    PROVE  /\ Write(w, v) \in Seq(Sample) /\ Len(Write(w, v)) <= BufferLen
           /\ Write(w, v) # <<>> /\ Write(w, v)[Len(Write(w, v))] = <<v>>
           /\ \A i \in 2..Len(Write(w, v)) :
                 \/ /\ i = Len(Write(w, v)) /\ w # <<>>
                    /\ Write(w, v)[i - 1] = w[Len(w)]
                 \/ /\ i # Len(Write(w, v))
                    /\ \E j \in 2..Len(w) :
                          Write(w, v)[i] = w[j] /\ Write(w, v)[i - 1] = w[j - 1]
  <1>1. <<v>> \in Sample
    BY SampleIs
  <1>2. CASE Len(w) < BufferLen
    <2>1. Write(w, v) = Append(w, <<v>>)
      BY <1>2 DEF Write
    <2> QED BY <1>1, <1>2, <2>1, Numbers
  <1>3. CASE ~(Len(w) < BufferLen)
    <2>1. Write(w, v) = Append(Tail(w), <<v>>) /\ Len(w) = BufferLen /\ w # <<>>
      BY <1>3, Numbers DEF Write
    <2>2. Tail(w) \in Seq(Sample)
      BY <2>1
    <2>3. PICK u \in Seq(Sample) : u = Tail(w)
      BY <2>2
    <2>4. Len(u) = Len(w) - 1 /\ \A i \in 1..Len(u) : u[i] = w[i + 1]
      BY <2>1, <2>3
    <2>5. Write(w, v) = Append(u, <<v>>)
      BY <2>1, <2>3
    <2>6. Append(u, <<v>>) \in Seq(Sample)
      BY <1>1
    <2>7. PICK z \in Seq(Sample) : z = Append(u, <<v>>)
      BY <2>6
    <2>8. /\ Len(z) = Len(w) /\ z[Len(z)] = <<v>>
          /\ \A i \in 1..(Len(w) - 1) : z[i] = w[i + 1]
      BY <1>1, <2>1, <2>4, <2>7, Numbers
    <2>9. ASSUME NEW i \in 2..Len(z)
          PROVE  \/ i = Len(z) /\ w # <<>> /\ z[i - 1] = w[Len(w)]
                 \/ i # Len(z) /\ \E j \in 2..Len(w) : z[i] = w[j] /\ z[i - 1] = w[j - 1]
      <3>1. CASE i = Len(z)
        BY <2>1, <2>8, <3>1, Numbers
      <3>2. CASE i # Len(z)
        <4>1. i + 1 \in 2..Len(w) /\ z[i] = w[i + 1] /\ z[i - 1] = w[(i + 1) - 1]
          BY <2>1, <2>8, <3>2, Numbers
        <4> QED BY <3>2, <4>1
      <3> QED BY <3>1, <3>2
    <2> QED BY <2>1, <2>5, <2>7, <2>8, <2>9, Numbers
  <1> QED BY <1>2, <1>3

-------------------------------------------------------------------------------
(* What the checks say of a clean history.                                   *)

Steady(w) == \A i \in 2..Len(w) : Distance(w[i][1], w[i - 1][1]) \in 0..MaxMove

LEMMA SteadyPasses ==
    ASSUME NEW w \in Seq(Sample), Steady(w)
    PROVE  ~Noisy(w)
  <1> SUFFICES ASSUME Noisy(w) PROVE FALSE
    OBVIOUS
  <1>1. Len(w) = BufferLen /\ 1 \in 1..Len(w) /\ w[1] \in Sample
    BY Numbers DEF Noisy
  <1>2. Components(w) = {1}
    BY <1>1 DEF Components, Sample
  <1>3. PICK i \in 2..BufferLen : Distance(w[i][1], w[i - 1][1]) > NoiseThreshold
    BY <1>2 DEF Noisy
  <1>4. Distance(w[i][1], w[i - 1][1]) \in 0..MaxMove
    BY <1>1 DEF Steady
  <1> QED BY <1>3, <1>4, Numbers

\* check_stuck() sees a full history exactly as the vehicle's way is measured.
LEMMA StuckIsCreeping ==
    ASSUME NEW w \in Seq(Sample)
    PROVE  Stuck(w) <=> Creeps(w)
  <1>1. CASE Len(w) = BufferLen
    <2>1. 1 \in 1..Len(w) /\ w[1] \in Sample
      BY <1>1, Numbers
    <2>2. Components(w) = {1}
      BY <2>1 DEF Components, Sample
    <2> QED BY <2>2 DEF Stuck, Creeps
  <1>2. CASE Len(w) # BufferLen
    BY <1>2 DEF Stuck, Creeps
  <1> QED BY <1>1, <1>2

\* The library's sum, of one component.
LEMMA SumOverOne ==
    ASSUME NEW g, NEW S, S = {1}
    PROVE  LET iter[s \in SUBSET S] == IF s = {} THEN 0
                                       ELSE LET x == CHOOSE x \in s : TRUE
                                            IN  g[x] + iter[s \ {x}]
           IN  iter[S] = g[1] + 0
  <1> DEFINE Iter(F) == F = [s \in SUBSET S |->
                                IF s = {} THEN 0
                                ELSE LET x == CHOOSE x \in s : TRUE IN g[x] + F[s \ {x}]]
             F1 == [s \in SUBSET S |-> IF s = {} THEN 0 ELSE g[1] + 0]
             F0 == CHOOSE F : Iter(F)
  <1>1. SUBSET S = {{}, S} /\ S # {}
    OBVIOUS
  <1>2. (CHOOSE x \in S : TRUE) = 1 /\ S \ {1} = {}
    OBVIOUS
  <1>3. Iter(F1)
    <2>1. ASSUME NEW s \in SUBSET S
          PROVE  F1[s] = IF s = {} THEN 0
                         ELSE LET x == CHOOSE x \in s : TRUE IN g[x] + F1[s \ {x}]
      <3>1. CASE s = {}
        BY <3>1
      <3>2. CASE s = S
        BY <1>1, <1>2, <3>2
      <3> QED BY <1>1, <3>1, <3>2
    <2> QED BY <2>1
  <1>4. Iter(F0)
    BY <1>3
  <1> HIDE DEF F0
  <1>5. F0[{}] = 0
    BY <1>1, <1>4
  <1>6. F0[S] = LET x == CHOOSE x \in S : TRUE IN g[x] + F0[S \ {x}]
    <2>1. S \in SUBSET S /\ S # {}
      BY <1>1
    <2> QED BY <1>4, <2>1
  <1>7. F0[S] = g[1] + F0[{}]
    BY <1>2, <1>6
  <1> QED BY <1>5, <1>7 DEF F0

LEMMA SumOne ==
    ASSUME NEW g, DOMAIN g = {1}
    PROVE  SumFunction(g) = g[1] + 0
  BY SumOverOne DEF SumFunction, SumFunctionOnSet, FoldFunctionOnSet, MapThenFoldSet

LEMMA NearIsAgreed ==
    ASSUME NEW a \in Sample, NEW b \in Sample, Distance(a[1], b[1]) <= MaxMove
    PROVE  ~Contradictory(a, b)
  <1> DEFINE g == [c \in DOMAIN a \cap DOMAIN b |-> Distance(a[c], b[c]) * Distance(a[c], b[c])]
  <1>1. DOMAIN a = {1} /\ DOMAIN b = {1} /\ a[1] \in Nat /\ b[1] \in Nat
    BY Numbers DEF Sample
  <1>2. DOMAIN g = {1} /\ g[1] = Distance(a[1], b[1]) * Distance(a[1], b[1])
    BY <1>1
  <1>3. PICK d, m, n \in Nat : d = Distance(a[1], b[1]) /\ m = MaxMove /\ n = ContradictionThreshold
    BY <1>1, DistanceIs, Numbers
  <1>4. d * d <= n * n
    <2>1. d <= n
      BY <1>3, Numbers
    <2>2. d * d <= d * n /\ d * n <= n * n
      BY <2>1
    <2> QED BY <2>2
  <1>5. SumFunction(g) = g[1] + 0
    BY <1>2, SumOne
  <1> HIDE DEF g
  <1>6. SumFunction(g) = d * d
    BY <1>2, <1>3, <1>5
  <1> QED BY <1>3, <1>4, <1>6 DEF Contradictory, g

-------------------------------------------------------------------------------
(* The sensor thread.                                                        *)

LEMMA InitHolds == Init => IInv
  <1> SUFFICES ASSUME Init PROVE IInv
    OBVIOUS
  <1>1. ContextInit \in Context
    BY DEF ContextInit, Context, SensorState, FaultType
  <1>2. <<0>> \in Sample /\ 0 \in 0..AgeCap /\ 0 \in 0..LongestPeriod /\ 0 \in 0..(FaultConfirmLimit + 1)
    BY SampleIs, Numbers DEF Distances
  <1>3. Types
    <2>1. window \in [Rangers -> Seq([{1} -> Distances])]
      BY DEF Init
    <2> QED BY <1>1, <1>2, <2>1, PairIs, Numbers DEF Init, Types, Sample
  <1>4. Pace /\ Passed /\ Counted
    BY DEF Init, Pace, Passed, Counted, ContextInit
  <1>5. Clean /\ Routed
    <2>1. <<>> \in Seq([{1} -> Distances]) /\ Len(<<>>) = 0 /\ ~Creeps(<<>>)
      BY Numbers DEF Creeps
    <2>2. route = <<>> /\ crept = FALSE
      BY DEF Init
    <2>3. ~Creeps(route)
      BY <2>1, <2>2
    <2>4. Routed
      <3>1. /\ route \in Seq([{1} -> Distances]) /\ Len(route) = 0
            /\ crept \in BOOLEAN
        BY <2>1, <2>2
      <3> QED BY <2>3, <3>1, Numbers DEF Routed
    <2> QED BY <2>3, <2>4 DEF Init, Clean, Tracks, Polled, Prompt, ContextInit, Usable
  <1>6. Twins
    BY PairIs DEF Init, Twins, ContextInit
  <1> QED BY <1>3, <1>4, <1>5, <1>6 DEF IInv

\* What Wake does to the numbers, with the types of everything it reads.
LEMMA WakeIs ==
    ASSUME IInv, Wake
    PROVE  /\ pcSensor = "sleep" /\ pcSensor' = "poll_first"
           /\ truth' \in Distances /\ Distance(truth', truth) \in 0..MaxMove
           /\ route' = Write(route, truth') /\ crept' = (crept \/ Creeps(route'))
           /\ lag' \in 0..LongestPeriod
           /\ age' \in [Rangers -> 0..AgeCap]
           /\ pcFdi # "receive" =>
                \E p \in Nat : lag' = lag + p /\ \A s \in Rangers : age'[s] <= age[s] + p
           /\ UNCHANGED <<mode, glitched, window, pcFdi, cur, latest, ctx, overdue>>
  <1>1. PICK p \in 1..LongestPeriod :
          /\ age' = [s \in Rangers |-> AtMostCap(age[s] + p)]
          /\ lag' = IF pcFdi = "receive" THEN 0 ELSE lag + p
    BY DEF Wake
  <1>2. pcFdi # "receive" => lag = 0
    BY DEF IInv, Pace, Wake
  <1>3. ASSUME NEW s \in Rangers
        PROVE  AtMostCap(age[s] + p) \in 0..AgeCap /\ AtMostCap(age[s] + p) <= age[s] + p
    <2>1. age[s] + p \in Nat
      BY Numbers DEF IInv, Types
    <2> QED BY <2>1, CapIs
  <1>4. lag' \in 0..LongestPeriod
    BY <1>1, <1>2, Numbers
  <1>5. /\ age' \in [Rangers -> 0..AgeCap]
        /\ \A s \in Rangers : age'[s] <= age[s] + p
    BY <1>1, <1>3
  <1>6. truth' \in Distances /\ Distance(truth', truth) \in 0..MaxMove
    <2>1. truth' \in {d \in Distances : Distance(d, truth) \in Moves}
      BY DEF Wake
    <2> QED BY <2>1, Numbers
  <1> QED BY <1>1, <1>4, <1>5, <1>6 DEF Wake

LEMMA WakeHolds == IInv /\ Wake => IInv'
  <1> SUFFICES ASSUME IInv, Wake PROVE IInv'
    OBVIOUS
  <1>0. /\ pcSensor = "sleep" /\ pcSensor' = "poll_first"
        /\ truth' \in Distances /\ Distance(truth', truth) \in 0..MaxMove
        /\ route' = Write(route, truth') /\ crept' = (crept \/ Creeps(route'))
        /\ mode' = mode /\ window' = window /\ pcFdi' = pcFdi /\ cur' = cur
        /\ latest' = latest /\ ctx' = ctx /\ overdue' = overdue
        /\ Types
    BY WakeIs DEF IInv
  <1>1. Types'
    BY <1>0, WakeIs DEF Types
  <1>2. Pace' /\ Counted'
    BY <1>0 DEF Pace, IInv, Counted
  <1>3. ASSUME pcFdi # "receive", NEW s \in Rangers
        PROVE  /\ InTime(age[s], lag) => InTime(age[s], lag)'
               /\ age[s] <= lag => age'[s] <= lag'
    <2>1. PICK p \in Nat : lag' = lag + p /\ age'[s] <= age[s] + p
      BY <1>3, WakeIs
    <2>2. /\ age[s] \in Nat /\ lag \in Nat /\ age'[s] \in Nat /\ lag' \in Nat
      BY <1>0, <1>1, Numbers DEF Types
    <2>3. PICK a, a1, l, l1 \in Nat : a = age[s] /\ a1 = age'[s] /\ l = lag /\ l1 = lag'
      BY <2>2
    <2>4. /\ a - l <= DelayTimeout => a1 - l1 <= DelayTimeout
          /\ a <= l => a1 <= l1
      BY <2>1, <2>3, Numbers
    <2>5. InTime(a, l) => InTime(a1, l1)
      BY <2>4, InTimeIs
    <2> QED BY <2>3, <2>4, <2>5 DEF InTime
  <1>4. Passed'
    <2>1. cur \in Rangers
      BY <1>0 DEF Types
    <2>2. InTime(age[cur], lag) /\ pcFdi # "receive" => InTime(age[cur], lag)'
      BY <1>0, <1>3, <2>1
    <2> QED BY <1>0, <2>2 DEF Passed, IInv
  <1>5. truth \in Nat /\ truth' \in Nat /\ latest \in Sample /\ latest[1] \in Nat
    BY <1>0, Numbers DEF Types, Sample
  <1>6. ASSUME NEW s \in Rangers, mode[s] = "clean"
        PROVE  Tracks(s)' /\ Prompt(s)' /\ (~crept' => ctx'[s].state \in Usable)
    <2>1. Tracks(s) /\ Prompt(s) /\ (~crept => ctx[s].state \in Usable)
      BY <1>6 DEF IInv, Clean
    <2>2. /\ window[s] # <<>> => Value(s) = truth
          /\ window[s] = route
      BY <1>0, <2>1 DEF Tracks, Polled
    <2>3. Tracks(s)'
      <3>1. ~Polled(s)' /\ route' = Write(window'[s], truth')
        BY <1>0, <2>2 DEF Polled
      <3>2. ~crept' => ~Creeps(window'[s])
        BY <1>0, <2>1 DEF Tracks
      <3> QED BY <1>0, <2>1, <2>2, <3>1, <3>2 DEF Tracks, Value
    <2>4. Prompt(s)'
      BY <1>0, <1>3, <2>1 DEF Prompt
    <2> QED BY <1>0, <2>1, <2>3, <2>4
  <1>7. Clean' /\ Routed'
    <2>1. Routed'
      <3>1. route \in Seq(Sample) /\ Len(route) <= BufferLen /\ crept \in BOOLEAN
        BY DEF IInv, Routed, Sample
      <3>2. route' \in Seq(Sample) /\ Len(route') <= BufferLen
        BY <1>0, <3>1, WriteIs
      <3> QED BY <1>0, <3>1, <3>2 DEF Routed, Sample
    <2> QED BY <1>0, <1>6, <2>1 DEF Clean
  <1>8. Twins'
    <2> SUFFICES ASSUME \A s \in Rangers : mode[s] = "clean"
                 PROVE  /\ \A s \in Rangers : ctx[s].last_fault \in {"NONE", "STUCK"}
                                               /\ (~crept => ctx[s].state = "HEALTHY")
                        /\ window[First] # <<>> /\ window[Second] # <<>> =>
                              Value(First) = Value(Second)
                        /\ pcFdi = "compare" =>
                              /\ Distance(latest[1], truth') <= MaxMove
                              /\ Distance(latest[1], Value(RedundantPair[cur])) <= MaxMove
      BY <1>0 DEF Twins, Value
    <2>1. window[First] # <<>> /\ window[Second] # <<>> => Value(First) = Value(Second)
      BY <1>0, PairIs DEF IInv, Clean, Tracks, Polled
    <2>2. pcFdi = "compare" => latest[1] = truth
      BY <1>0 DEF IInv, Twins
    <2>3. Distance(truth, truth') <= MaxMove
      <3>1. PICK d \in 0..MaxMove : d = Distance(truth', truth)
        BY <1>0
      <3> QED BY <1>5, <3>1, DistanceIs, Numbers
    <2> QED BY <2>1, <2>2, <2>3 DEF IInv, Twins
  <1> QED BY <1>1, <1>2, <1>4, <1>7, <1>8 DEF IInv

LEMMA ReceiveHolds == IInv /\ FdiReceive => IInv'
  <1> SUFFICES ASSUME IInv, FdiReceive PROVE IInv'
    OBVIOUS
  <1>0. /\ pcSensor = "send" /\ pcSensor' = "sleep" /\ pcFdi = "receive" /\ pcFdi' = "count"
        /\ lag' = 0 /\ cur' = First
        /\ mode' = mode /\ window' = window /\ truth' = truth /\ glitched' = glitched
        /\ route' = route /\ crept' = crept
        /\ age' = age /\ latest' = latest /\ ctx' = ctx /\ overdue' = overdue
        /\ Types
    BY DEF FdiReceive, Evaluate, IInv
  <1>1. Types'
    BY <1>0, PairIs, Numbers DEF Types
  <1>2. Pace' /\ Passed' /\ Counted'
    BY <1>0 DEF IInv, Pace, Passed, Counted
  <1>3. ASSUME NEW s \in Rangers, mode[s] = "clean"
        PROVE  Tracks(s)' /\ Prompt(s)' /\ (~crept' => ctx'[s].state \in Usable)
    <2>1. Tracks(s) /\ Prompt(s) /\ (~crept => ctx[s].state \in Usable)
      BY <1>3 DEF IInv, Clean
    <2>2. Tracks(s)'
      BY <1>0, <2>1 DEF Tracks, Polled, Value
    <2>3. Prompt(s)'
      BY <1>0, <2>1 DEF Prompt
    <2> QED BY <1>0, <2>1, <2>2, <2>3
  <1>4. Clean' /\ Routed'
    BY <1>0, <1>3 DEF Clean, Routed, IInv
  <1>5. Twins'
    BY <1>0 DEF Twins, IInv
  <1> QED BY <1>1, <1>2, <1>4, <1>5 DEF IInv

Polling(s) ==
    \/ pcSensor = "poll_first" /\ pcSensor' = "poll_second" /\ s = First
    \/ pcSensor = "poll_second" /\ pcSensor' = "send" /\ s = Second

Stored(s, v) ==
    /\ mode[s] = "clean" => v = truth
    /\ window' = [window EXCEPT ![s] = Write(window[s], v)]
    /\ age' = [age EXCEPT ![s] = 0]

LEMMA PollIs ==
    ASSUME Types, Poll
    PROVE  /\ glitched' \subseteq Rangers
           /\ UNCHANGED <<mode, truth, route, crept, pcFdi, cur, lag, latest, ctx, overdue>>
           /\ \E s \in Rangers :
                 /\ Polling(s)
                 /\ \/ \E v \in Distances : Stored(s, v)
                    \/ mode[s] # "clean" /\ window' = window /\ age' = age
  <1>1. PICK s \in Rangers : Polling(s) /\ PollSensor(s)
    BY PairIs DEF Poll, Polling
  <1>2. glitched' \subseteq Rangers
    BY <1>1 DEF PollSensor, Types
  <1>3. \/ \E v \in Distances : Stored(s, v)
        \/ mode[s] # "clean" /\ window' = window /\ age' = age
    <2>1. CASE mode[s] # "faulty" /\ Deliver(s, truth)
      <3>1. Stored(s, truth)
        BY <2>1 DEF Deliver, Stored
      <3> QED BY <3>1 DEF Types
    <2>2. CASE mode[s] # "clean" /\ \E v \in Wild : Deliver(s, v)
      <3>1. PICK v \in Wild : Deliver(s, v)
        BY <2>2
      <3>2. Stored(s, v)
        BY <2>2, <3>1 DEF Deliver, Stored
      <3> QED BY <3>2, Numbers
    <2>3. CASE mode[s] # "clean" /\ window' = window /\ age' = age
      BY <2>3
    <2> QED BY <1>1, <2>1, <2>2, <2>3 DEF PollSensor
  <1> QED BY <1>1, <1>2, <1>3 DEF Poll

LEMMA PollTypes ==
    ASSUME IInv, Poll
    PROVE  /\ Types' /\ Pace' /\ Passed' /\ Counted'
  <1>0. /\ Types /\ UNCHANGED <<mode, truth, pcFdi, cur, lag, latest, ctx, overdue>>
        /\ UNCHANGED <<route, crept>>
    BY PollIs DEF IInv
  <1>1. PICK s \in Rangers :
          /\ Polling(s)
          /\ \/ \E v \in Distances : Stored(s, v)
             \/ mode[s] # "clean" /\ window' = window /\ age' = age
    BY <1>0, PollIs
  <1>2. CASE \E v \in Distances : Stored(s, v)
    <2>1. PICK v \in Distances : Stored(s, v)
      BY <1>2
    <2>2. PICK w : w = Write(window[s], v)
      OBVIOUS
    <2>3. w \in Seq(Sample) /\ Len(w) <= BufferLen /\ w # <<>>
      BY <1>0, <2>2, WriteIs DEF Types, Sample
    <2>4. /\ window' = [window EXCEPT ![s] = w] /\ age' = [age EXCEPT ![s] = 0]
      BY <2>1, <2>2 DEF Stored
    <2>5. /\ window' \in [Rangers -> Seq([{1} -> Distances])]
          /\ \A r \in Rangers : Len(window'[r]) <= BufferLen
          /\ age' \in [Rangers -> 0..AgeCap]
      BY <1>0, <2>3, <2>4, Numbers DEF Types, Sample
    <2>6. /\ cur \in Rangers /\ lag \in Nat /\ InTime(0, lag)
      <3>1. lag \in Nat /\ 0 - lag <= DelayTimeout
        BY <1>0, Numbers DEF Types
      <3> QED BY <1>0, <3>1, InTimeIs DEF Types
    <2>7. /\ window[cur] # <<>> => window'[cur] # <<>>
          /\ InTime(age[cur], lag) => InTime(age'[cur], lag)
      BY <1>0, <2>3, <2>4, <2>6 DEF Types
    <2>8. Passed'
      <3>1. InTime(age[cur], lag)' <=> InTime(age'[cur], lag)
        BY <1>0 DEF InTime
      <3> QED BY <1>0, <2>7, <3>1 DEF Passed, IInv
    <2> QED BY <1>0, <1>1, <2>5, <2>8, PollIs
            DEF Types, Pace, Counted, IInv, Polling
  <1>3. CASE window' = window /\ age' = age
    BY <1>0, <1>1, <1>3, PollIs DEF Types, Pace, Passed, Counted, IInv, Polling, InTime
  <1> QED BY <1>1, <1>2, <1>3

\* A clean sensor's history stays steady, for its last sample is of the cycle before.
LEMMA PollTracks ==
    ASSUME Types, NEW s \in Rangers, Tracks(s), ~Polled(s), mode[s] = "clean",
           NEW v \in Distances, Stored(s, v)
    PROVE  /\ Steady(window'[s]) /\ window'[s] # <<>>
           /\ window'[s][Len(window'[s])][1] = truth /\ age'[s] = 0
           /\ window'[s] = route
  <1>1. PICK w \in Seq(Sample), w1 \in Seq(Sample) : w = window[s] /\ w1 = Write(window[s], v)
    BY WriteIs DEF Types, Sample
  <1>2. v = truth /\ window'[s] = w1 /\ age'[s] = 0 /\ Len(w) <= BufferLen
    BY <1>1 DEF Stored, Types
  <1>3. /\ w1 # <<>> /\ w1[Len(w1)] = <<v>>
        /\ \A i \in 2..Len(w1) :
              \/ i = Len(w1) /\ w # <<>> /\ w1[i - 1] = w[Len(w)]
              \/ i # Len(w1) /\ \E j \in 2..Len(w) : w1[i] = w[j] /\ w1[i - 1] = w[j - 1]
    <2>1. w1 = Write(w, v) /\ Len(w) <= BufferLen
      BY <1>1, <1>2
    <2>2. /\ Write(w, v) # <<>> /\ Write(w, v)[Len(Write(w, v))] = <<v>>
          /\ \A i \in 2..Len(Write(w, v)) :
                \/ i = Len(Write(w, v)) /\ w # <<>> /\ Write(w, v)[i - 1] = w[Len(w)]
                \/ i # Len(Write(w, v))
                   /\ \E j \in 2..Len(w) :
                         Write(w, v)[i] = w[j] /\ Write(w, v)[i - 1] = w[j - 1]
      BY <2>1, WriteIs
    <2> QED BY <2>1, <2>2
  <1>4. /\ Steady(w) /\ (w # <<>> => Distance(truth, w[Len(w)][1]) \in 0..MaxMove)
        /\ route = Write(w, truth)
    BY <1>1 DEF Tracks, Steady, Value
  <1>5. ASSUME NEW i \in 2..Len(w1)
        PROVE  Distance(w1[i][1], w1[i - 1][1]) \in 0..MaxMove
    <2>1. CASE i = Len(w1) /\ w # <<>> /\ w1[i - 1] = w[Len(w)]
      BY <1>2, <1>3, <1>4, <2>1, SampleIs
    <2>2. CASE \E j \in 2..Len(w) : w1[i] = w[j] /\ w1[i - 1] = w[j - 1]
      BY <1>4, <2>2 DEF Steady
    <2> QED BY <1>3, <2>1, <2>2
  <1>6. window'[s] = route
    BY <1>1, <1>2, <1>4
  <1> QED BY <1>2, <1>3, <1>5, <1>6, SampleIs DEF Steady

LEMMA PollHolds == IInv /\ Poll => IInv'
  <1> SUFFICES ASSUME IInv, Poll PROVE Routed' /\ Clean' /\ Twins'
    BY PollTypes DEF IInv
  <1>0. /\ Types /\ route' = route /\ crept' = crept /\ mode' = mode /\ truth' = truth /\ pcFdi' = pcFdi /\ cur' = cur
        /\ lag' = lag /\ latest' = latest /\ ctx' = ctx
    BY PollIs DEF IInv
  <1>1. PICK s \in Rangers :
          /\ Polling(s)
          /\ \/ \E v \in Distances : Stored(s, v)
             \/ mode[s] # "clean" /\ window' = window /\ age' = age
    BY <1>0, PollIs
  <1>2. /\ ~Polled(s) /\ Polled(s)' /\ pcSensor' # "sleep" /\ pcSensor' # "poll_first"
        /\ \A r \in Rangers : r # s => window'[r] = window[r] /\ age'[r] = age[r]
        /\ \A r \in Rangers : r # s => Polled(r)' = Polled(r)
    BY <1>0, <1>1, PairIs DEF Polling, Polled, Stored, Types
  <1>3. ASSUME mode[s] = "clean"
        PROVE  /\ Steady(window'[s]) /\ window'[s] # <<>>
               /\ window'[s][Len(window'[s])][1] = truth /\ age'[s] = 0
               /\ window'[s] = route
    <2>1. PICK v \in Distances : Stored(s, v)
      BY <1>1, <1>3
    <2> QED BY <1>0, <1>2, <1>3, <2>1, PollTracks DEF IInv, Clean
  <1>4. ASSUME NEW r \in Rangers, mode[r] = "clean"
        PROVE  Tracks(r)' /\ Prompt(r)' /\ (~crept' => ctx'[r].state \in Usable)
    <2>1. Tracks(r) /\ Prompt(r) /\ (~crept => ctx[r].state \in Usable)
      BY <1>4 DEF IInv, Clean
    <2>2. CASE r = s
      <3>1. lag \in Nat
        BY <1>0, Numbers DEF Types
      <3>2. Tracks(r)'
        <4>1. ~crept' => ~Creeps(window'[r])
          BY <1>0, <1>3, <1>4, <2>2 DEF IInv, Routed
        <4> QED BY <1>0, <1>2, <1>3, <1>4, <2>2, <4>1 DEF Tracks, Steady, Value
      <3>3. Prompt(r)'
        BY <1>0, <1>3, <1>4, <2>2, <3>1 DEF Prompt
      <3> QED BY <1>0, <2>1, <3>2, <3>3
    <2>3. CASE r # s
      <3>1. Tracks(r)'
        BY <1>0, <1>2, <2>1, <2>3 DEF Tracks, Value
      <3>2. Prompt(r)'
        BY <1>0, <1>1, <1>2, <2>1, <2>3, PairIs DEF Prompt, Polling
      <3> QED BY <1>0, <2>1, <3>1, <3>2
    <2> QED BY <2>2, <2>3
  <1>5. Clean' /\ Routed'
    BY <1>0, <1>4 DEF Clean, Routed, IInv
  <1>6. Twins'
    <2> SUFFICES ASSUME \A r \in Rangers : mode[r] = "clean", pcFdi = "compare"
                 PROVE  /\ Distance(latest[1], truth) <= MaxMove
                        /\ Distance(latest[1], Value(RedundantPair[cur])') <= MaxMove
      BY <1>0, <1>2 DEF Twins, IInv, Value
    <2>1. /\ Distance(latest[1], truth) <= MaxMove
          /\ Distance(latest[1], Value(RedundantPair[cur])) <= MaxMove
          /\ RedundantPair[cur] \in Rangers
      BY <1>0, PairIs DEF IInv, Twins, Types
    <2>2. Value(RedundantPair[cur])' = truth
             \/ Value(RedundantPair[cur])' = Value(RedundantPair[cur])
      BY <1>0, <1>2, <1>3, <2>1 DEF Value
    <2> QED BY <2>1, <2>2
  <1> QED BY <1>5, <1>6

-------------------------------------------------------------------------------
(* The detector.                                                             *)

FdiCheck == \/ FdiCount \/ FdiTimestamp \/ FdiStuck
            \/ FdiNoisy \/ FdiLatest \/ FdiCompare

InTimeNow == window[cur] # <<>> /\ InTime(age[cur], lag)

\* What is known of a verdict, whatever was written between the locks.
Sound(d) ==
    /\ d \in FaultType
    /\ ~InTimeNow => d = "DELAYED"
    /\ mode[cur] = "clean" => d \in {"NONE", "CONTRADICTORY", "STUCK"}
    /\ (mode[cur] = "clean" /\ ~crept) => d # "STUCK"
    /\ (\A s \in Rangers : mode[s] = "clean") => d # "CONTRADICTORY"

GoneOn ==
    /\ ctx' = ctx /\ cur' = cur /\ overdue' = overdue
    /\ pcFdi' \in {"timestamp", "stuck", "noisy", "latest", "compare"} /\ pcFdi # "receive"
    /\ window[cur] # <<>>
    /\ pcFdi' # "timestamp" => InTime(age[cur], lag)
    /\ pcFdi' = "compare" => latest' = window[cur][Len(window[cur])]
    /\ pcFdi' # "compare" => latest' = latest

\* fdi_detect() keeps its sample until it returns.
Dropped == latest' = latest \/ latest' = <<0>>

\* Two clean twins agree when they are compared.
LEMMA CleanTwinsAgree ==
    ASSUME IInv, pcFdi = "compare", \A s \in Rangers : mode[s] = "clean"
    PROVE  ~Contradictory(latest, Last(window[RedundantPair[cur]]))
  <1>1. PICK r \in Rangers : r = RedundantPair[cur]
    BY PairIs DEF IInv, Types
  <1>2. window[r] # <<>>
    BY <1>1 DEF IInv, Clean, Prompt
  <1>3. PICK w \in Seq(Sample) : w = window[r]
    BY DEF IInv, Types, Sample
  <1>4. Last(window[r]) = w[Len(w)] /\ w[Len(w)] \in Sample
    BY <1>2, <1>3 DEF Last
  <1>5. Distance(latest[1], w[Len(w)][1]) <= MaxMove
    BY <1>1, <1>3 DEF IInv, Twins, Value
  <1>6. latest \in Sample
    BY DEF IInv, Types, Sample
  <1> QED BY <1>1, <1>4, <1>5, <1>6, NearIsAgreed

\* Neither of the checks of one history accuses a clean sensor.
LEMMA CleanIsUnsuspected ==
    ASSUME IInv, pcFdi # "receive", mode[cur] = "clean"
    PROVE  InTimeNow /\ ~Noisy(window[cur]) /\ (~crept => ~Stuck(window[cur]))
  <1>1. cur \in Rangers /\ Tracks(cur) /\ Prompt(cur)
    BY DEF IInv, Types, Clean
  <1>2. window[cur] \in Seq(Sample) /\ age[cur] \in Nat /\ lag \in Nat
    BY <1>1, Numbers DEF IInv, Types, Sample
  <1>3. window[cur] # <<>> /\ age[cur] <= lag /\ Steady(window[cur])
    BY <1>1 DEF Prompt, Tracks, Steady
  <1>4. age[cur] - lag <= DelayTimeout
    BY <1>2, <1>3, Numbers
  <1>5. ~crept => ~Stuck(window[cur])
    BY <1>1, <1>2, StuckIsCreeping DEF Tracks
  <1> QED BY <1>2, <1>3, <1>4, <1>5, InTimeIs, SteadyPasses DEF InTimeNow

LEMMA CheckEnds ==
    ASSUME IInv, FdiCheck
    PROVE  /\ UNCHANGED <<mode, truth, route, crept, glitched, window, age, pcSensor, lag>>
           /\ \/ \E d : Sound(d) /\ Conclude(d) /\ Dropped
              \/ GoneOn
  <1>0. cur \in Rangers /\ pcFdi # "receive"
    BY DEF IInv, Types, FdiCheck, FdiCount, FdiTimestamp, FdiStuck, FdiNoisy, FdiLatest,
           FdiCompare
  <1>1. UNCHANGED <<mode, truth, route, crept, glitched, window, age, pcSensor, lag>>
    BY DEF FdiCheck, FdiCount, FdiTimestamp, FdiStuck, FdiNoisy, FdiLatest, FdiCompare,
           sensorVars
  <1>2. pcFdi \in {"stuck", "noisy", "latest", "compare"} => InTimeNow
    BY DEF IInv, Passed, InTimeNow
  <1>3. mode[cur] = "clean" =>
           InTimeNow /\ ~Noisy(window[cur]) /\ (~crept => ~Stuck(window[cur]))
    BY <1>0, CleanIsUnsuspected
  <1>4. (\A s \in Rangers : mode[s] = "clean") => mode[cur] = "clean"
    BY <1>0
  <1>5. CASE FdiCount
    <2>1. CASE window[cur] = <<>>
      <3>1. Conclude("DELAYED") /\ Dropped
        BY <1>5, <2>1 DEF FdiCount, Dropped
      <3>2. Sound("DELAYED")
        BY <1>3, <1>4, <2>1 DEF Sound, InTimeNow, FaultType
      <3> QED BY <1>1, <3>1, <3>2
    <2>2. CASE window[cur] # <<>>
      BY <1>0, <1>1, <1>5, <2>2 DEF FdiCount, GoOn, GoneOn
    <2> QED BY <2>1, <2>2
  <1>6. CASE FdiTimestamp
    <2>1. CASE ~InTime(age[cur], lag)
      <3>1. Conclude("DELAYED") /\ Dropped
        BY <1>6, <2>1 DEF FdiTimestamp, Dropped
      <3>2. Sound("DELAYED")
        BY <1>3, <1>4, <2>1 DEF Sound, InTimeNow, FaultType
      <3> QED BY <1>1, <3>1, <3>2
    <2>2. CASE InTime(age[cur], lag)
      <3>1. window[cur] # <<>>
        BY <1>6 DEF IInv, Passed, FdiTimestamp
      <3> QED BY <1>0, <1>1, <1>6, <2>2, <3>1 DEF FdiTimestamp, GoOn, GoneOn
    <2> QED BY <2>1, <2>2
  <1>7. CASE FdiStuck
    <2>1. CASE Stuck(window[cur])
      <3>1. Conclude("STUCK") /\ Dropped /\ InTimeNow
        BY <1>2, <1>7, <2>1 DEF FdiStuck, Dropped
      <3>2. Sound("STUCK")
        BY <1>3, <1>4, <2>1, <3>1 DEF Sound, FaultType
      <3> QED BY <1>1, <3>1, <3>2
    <2>2. CASE ~Stuck(window[cur])
      <3>1. InTimeNow
        BY <1>2, <1>7 DEF FdiStuck
      <3> QED BY <1>0, <1>1, <1>7, <2>2, <3>1 DEF FdiStuck, GoOn, GoneOn, InTimeNow
    <2> QED BY <2>1, <2>2
  <1>8. CASE FdiNoisy
    <2>1. CASE Noisy(window[cur])
      <3>1. Conclude("NOISY") /\ Dropped /\ InTimeNow
        BY <1>2, <1>8, <2>1 DEF FdiNoisy, Dropped
      <3>2. Sound("NOISY")
        BY <1>3, <1>4, <2>1, <3>1 DEF Sound, FaultType
      <3> QED BY <1>1, <3>1, <3>2
    <2>2. CASE ~Noisy(window[cur])
      <3>1. InTimeNow
        BY <1>2, <1>8 DEF FdiNoisy
      <3> QED BY <1>0, <1>1, <1>8, <2>2, <3>1 DEF FdiNoisy, GoOn, GoneOn, InTimeNow
    <2> QED BY <2>1, <2>2
  <1>9. CASE FdiLatest
    <2>1. InTimeNow
      BY <1>2, <1>9 DEF FdiLatest
    <2>2. latest' = window[cur][Len(window[cur])]
      BY <1>9 DEF FdiLatest, Last
    <2> QED BY <1>0, <1>1, <1>9, <2>1, <2>2 DEF FdiLatest, GoOn, GoneOn, InTimeNow
  <1>10. CASE FdiCompare
    <2>1. InTimeNow
      BY <1>2, <1>10 DEF FdiCompare
    <2>2. CASE Conclude("CONTRADICTORY")
               /\ Contradictory(latest, Last(window[RedundantPair[cur]]))
      <3>1. Sound("CONTRADICTORY")
        BY <1>10, <2>1, <2>2, CleanTwinsAgree DEF Sound, FaultType, FdiCompare
      <3> QED BY <1>1, <1>10, <2>2, <3>1 DEF FdiCompare, Dropped
    <2>3. CASE Conclude("NONE")
      <3>1. Sound("NONE")
        BY <2>1 DEF Sound, FaultType
      <3> QED BY <1>1, <1>10, <2>3, <3>1 DEF FdiCompare, Dropped
    <2> QED BY <1>10, <2>2, <2>3 DEF FdiCompare
  <1> QED BY <1>5, <1>6, <1>7, <1>8, <1>9, <1>10 DEF FdiCheck

\* One context after a verdict, as Conclude stores it.
Judge(c, d) ==
    LET n == IF c.state \in {"HEALTHY", "SUSPECT"} THEN Isolate(UpdateState(c, d)) ELSE c
    IN  [n EXCEPT !.last_fault = d]

Below(c) == c.state = "SUSPECT" => c.fault_streak <= 1 \/ c.fault_streak < FaultConfirmLimit

LEMMA JudgeFields ==
    ASSUME NEW n \in Context, NEW d \in FaultType
    PROVE  /\ [n EXCEPT !.last_fault = d] \in Context
           /\ [n EXCEPT !.last_fault = d].state = n.state
           /\ [n EXCEPT !.last_fault = d].last_fault = d
           /\ [n EXCEPT !.last_fault = d].fault_streak = n.fault_streak
  BY DEF Context

LEMMA IsolateIs ==
    ASSUME NEW c \in Context
    PROVE  /\ c.state = "FAULTED" => Isolate(c).state = "EXCLUDED"
           /\ c.state # "FAULTED" => Isolate(c) = c
  BY DEF Isolate, Context

\* fdi_update_state() and fdi_isolate() together, on a sensor the detector judges.
LEMMA JudgeIs ==
    ASSUME NEW c \in Context, NEW d \in FaultType, Below(c),
           c.state \in {"HEALTHY", "SUSPECT", "EXCLUDED"}
    PROVE  /\ Judge(c, d) \in Context /\ Below(Judge(c, d)) /\ Judge(c, d).last_fault = d
           /\ Judge(c, d).state \in {"HEALTHY", "SUSPECT", "EXCLUDED"}
           /\ d = "DELAYED" =>
                /\ Judge(c, d).state # "HEALTHY"
                /\ Judge(c, d).state = "SUSPECT" =>
                     \/ c.state = "HEALTHY" /\ Judge(c, d).fault_streak = 1
                     \/ c.state = "SUSPECT" /\ Judge(c, d).fault_streak = c.fault_streak + 1
           /\ d \in {"NONE", "CONTRADICTORY"} /\ c.state \in Usable =>
                Judge(c, d).state \in Usable
           /\ d = "NONE" /\ c.state = "HEALTHY" => Judge(c, d).state = "HEALTHY"
  <1>1. PICK u \in Context : u = UpdateState(c, d)
    BY UpdateStateType
  <1>2. PICK v \in Context : v = Isolate(u)
    BY IsolateType
  <1>3. PICK n \in Context : n = Judge(c, d) /\ n.last_fault = d
    <2>1. Judge(c, d) = [v EXCEPT !.last_fault = d] \/ Judge(c, d) = [c EXCEPT !.last_fault = d]
      BY <1>1, <1>2 DEF Judge
    <2> QED BY <2>1, JudgeFields
  <1>4. CASE c.state = "EXCLUDED"
    <2>1. n = [c EXCEPT !.last_fault = d]
      BY <1>3, <1>4 DEF Judge
    <2>2. n.state = "EXCLUDED"
      BY <1>4, <2>1, JudgeFields
    <2> QED BY <1>3, <1>4, <2>2 DEF Below, Usable
  <1>5. CASE c.state \in {"HEALTHY", "SUSPECT"}
    <2>1. n = [v EXCEPT !.last_fault = d]
      BY <1>1, <1>2, <1>3, <1>5 DEF Judge
    <2>2. n.state = v.state /\ n.fault_streak = v.fault_streak
      BY <2>1, JudgeFields
    <2>3. /\ u.state = "FAULTED" => v.state = "EXCLUDED"
          /\ u.state # "FAULTED" => v = u
      BY <1>2, IsolateIs
    <2>4. CASE c.state = "HEALTHY"
      <3>1. \/ d # "NONE" /\ u.state = "SUSPECT" /\ u.fault_streak = 1
            \/ d = "NONE" /\ u.state = "HEALTHY"
        BY <1>1, <2>4, UpdateStateCases, CtxFields
      <3> QED BY <1>3, <2>2, <2>3, <2>4, <3>1 DEF Below, Usable
    <2>5. CASE c.state = "SUSPECT"
      <3>1. PICK f, l \in Nat : f = c.fault_streak /\ l = FaultConfirmLimit
        BY Numbers DEF Context
      <3>2. (f <= 1 \/ f < l) /\ f <= 254 /\ Inc(f) = f + 1
        <4>1. f <= 1 \/ f < l
          BY <2>5, <3>1 DEF Below
        <4>2. f <= 254
          BY <3>1, <4>1, Numbers
        <4> QED BY <4>1, <4>2, IncIs
      <3>3. CASE d = "NONE"
        <4>1. \/ u.state = "HEALTHY"
              \/ u.state = "SUSPECT" /\ u.fault_streak = f
          BY <1>1, <2>5, <3>1, <3>3, UpdateStateCases, CtxFields
        <4> QED BY <1>3, <2>2, <2>3, <2>5, <3>1, <3>2, <3>3, <4>1 DEF Below, Usable
      <3>4. CASE d = "CONTRADICTORY"
        <4>1. u.state = "SUSPECT" /\ u.fault_streak = f
          BY <1>1, <2>5, <3>1, <3>4, UpdateStateCases, CtxFields
        <4> QED BY <1>3, <2>2, <2>3, <2>5, <3>1, <3>2, <3>4, <4>1 DEF Below, Usable
      <3>5. CASE d \in Definitive
        <4>1. u = Ctx(IF Inc(c.fault_streak) >= FaultConfirmLimit THEN "FAULTED" ELSE "SUSPECT",
                      d, Inc(c.fault_streak), 0, c.validation_streak)
          BY <1>1, <2>5, <3>5, UpdateStateCases
        <4>2. /\ u.fault_streak = f + 1
              /\ u.state = IF f + 1 >= l THEN "FAULTED" ELSE "SUSPECT"
          BY <3>1, <3>2, <4>1, CtxFields
        <4>3. \/ u.state = "FAULTED"
              \/ u.state = "SUSPECT" /\ u.fault_streak = f + 1 /\ f + 1 < l
          BY <4>2
        <4>4. d \notin {"NONE", "CONTRADICTORY"}
          BY <3>5 DEF Definitive
        <4> QED BY <1>3, <2>2, <2>3, <2>5, <3>1, <4>3, <4>4 DEF Below
      <3> QED BY <3>3, <3>4, <3>5 DEF Definitive
    <2> QED BY <1>5, <2>4, <2>5
  <1> QED BY <1>4, <1>5

LEMMA ConcludeIs ==
    ASSUME IInv, NEW d, Sound(d), Conclude(d)
    PROVE  /\ ctx' \in [Rangers -> Context]
           /\ \A s \in Rangers : s # cur => ctx'[s] = ctx[s] /\ overdue'[s] = overdue[s]
           /\ ctx'[cur] = Judge(ctx[cur], d)
           /\ overdue' \in [Rangers -> 0..(FaultConfirmLimit + 1)]
           /\ overdue'[cur] <= overdue[cur] + 1
           /\ InTimeNow => overdue'[cur] = 0
           /\ pcFdi' \in {"count", "receive"} /\ cur' \in Rangers
           /\ pcFdi # "receive" => pcFdi' # "compare"
  <1>1. cur \in Rangers /\ ctx \in [Rangers -> Context] /\ d \in FaultType
    BY DEF IInv, Types, Sound
  <1>2. PICK k, l \in Nat : k = overdue[cur] /\ l = FaultConfirmLimit /\ k <= l + 1
    BY <1>1, Numbers DEF IInv, Types
  <1>3. ctx' = [ctx EXCEPT ![cur] = Judge(ctx[cur], d)]
    BY DEF Conclude, Judge
  <1>4. Judge(ctx[cur], d) \in Context
    BY <1>1, JudgeIs DEF IInv, Counted, Below
  <1>5. PICK n : /\ overdue' = [overdue EXCEPT ![cur] = n]
                 /\ n = IF InTimeNow THEN 0
                        ELSE IF overdue[cur] < FaultConfirmLimit + 1
                             THEN overdue[cur] + 1 ELSE overdue[cur]
    BY DEF Conclude, InTimeNow
  <1>6. n \in 0..(l + 1) /\ n <= k + 1 /\ (InTimeNow => n = 0)
    <2>1. n = 0 \/ (~InTimeNow /\ n = IF k < l + 1 THEN k + 1 ELSE k)
      BY <1>2, <1>5
    <2> QED BY <1>2, <1>5, <2>1
  <1>7. /\ overdue' \in [Rangers -> 0..(FaultConfirmLimit + 1)]
        /\ overdue'[cur] = n
        /\ \A s \in Rangers : s # cur => ctx'[s] = ctx[s] /\ overdue'[s] = overdue[s]
    BY <1>1, <1>2, <1>3, <1>5, <1>6 DEF IInv, Types
  <1>8. pcFdi' \in {"count", "receive"} /\ cur' \in Rangers
    BY <1>1, PairIs DEF Conclude, Evaluate
  <1> QED BY <1>1, <1>2, <1>3, <1>4, <1>6, <1>7, <1>8

LEMMA ConcludeHolds ==
    ASSUME IInv, NEW d, Sound(d), Conclude(d), Dropped, pcFdi # "receive",
           UNCHANGED <<mode, truth, route, crept, glitched, window, age, pcSensor, lag>>
    PROVE  IInv'
  <1>0. /\ cur \in Rangers /\ d \in FaultType /\ Types
        /\ \A s \in Rangers : ctx[s] \in Context /\ overdue[s] \in Nat
    BY Numbers DEF IInv, Types, Sound
  <1>1. Types'
    <2>1. latest' \in [{1} -> Distances]
      BY <1>0, SampleIs, Numbers DEF Types, Dropped, Sample, Distances
    <2> QED BY <1>0, <2>1, ConcludeIs DEF Types
  <1>2. Pace' /\ Passed'
    BY ConcludeIs DEF IInv, Pace, Passed
  <1>3. PICK c, n \in Context :
          /\ c = ctx[cur] /\ n = Judge(c, d) /\ n = ctx'[cur]
    BY <1>0, <1>1, ConcludeIs DEF Types
  <1>4. /\ Below(n) /\ n.state \in {"HEALTHY", "SUSPECT", "EXCLUDED"}
        /\ d = "DELAYED" =>
             /\ n.state # "HEALTHY"
             /\ n.state = "SUSPECT" =>
                  \/ c.state = "HEALTHY" /\ n.fault_streak = 1
                  \/ c.state = "SUSPECT" /\ n.fault_streak = c.fault_streak + 1
        /\ d \in {"NONE", "CONTRADICTORY"} /\ c.state \in Usable => n.state \in Usable
        /\ d = "NONE" /\ c.state = "HEALTHY" => n.state = "HEALTHY"
        /\ n.last_fault = d
    <2>1. Below(c) /\ c.state \in {"HEALTHY", "SUSPECT", "EXCLUDED"}
      BY <1>0, <1>3 DEF IInv, Counted, Below
    <2>2. d \in FaultType /\ n = Judge(c, d)
      BY <1>0, <1>3
    <2>3. /\ Below(Judge(c, d)) /\ Judge(c, d).state \in {"HEALTHY", "SUSPECT", "EXCLUDED"}
          /\ d = "DELAYED" =>
               /\ Judge(c, d).state # "HEALTHY"
               /\ Judge(c, d).state = "SUSPECT" =>
                    \/ c.state = "HEALTHY" /\ Judge(c, d).fault_streak = 1
                    \/ c.state = "SUSPECT" /\ Judge(c, d).fault_streak = c.fault_streak + 1
          /\ d \in {"NONE", "CONTRADICTORY"} /\ c.state \in Usable => Judge(c, d).state \in Usable
          /\ d = "NONE" /\ c.state = "HEALTHY" => Judge(c, d).state = "HEALTHY"
          /\ Judge(c, d).last_fault = d
      BY <2>1, <2>2, JudgeIs
    <2> QED BY <2>2, <2>3
  <1>5. Counted'
    <2>1. PICK k, k1 \in Nat : k = overdue[cur] /\ k1 = overdue'[cur] /\ k1 <= k + 1
      BY <1>0, <1>1, ConcludeIs, Numbers DEF Types
    <2>2. /\ c.state = "SUSPECT" => c.fault_streak >= k
          /\ c.state = "HEALTHY" => k = 0
      BY <1>0, <1>3, <2>1 DEF IInv, Counted
    <2>3. d # "DELAYED" => k1 = 0
      BY <2>1, ConcludeIs DEF Sound
    <2>4. c.fault_streak \in Nat /\ n.fault_streak \in Nat
      BY DEF Context
    <2>5. n.state = "SUSPECT" => n.fault_streak >= k1
      BY <1>4, <2>1, <2>2, <2>3, <2>4
    <2>6. n.state = "HEALTHY" => k1 = 0
      BY <1>4, <2>3
    <2>7. ASSUME NEW s \in Rangers
          PROVE  /\ ctx'[s].state \in {"HEALTHY", "SUSPECT", "EXCLUDED"}
                 /\ ctx'[s].state = "SUSPECT" =>
                      /\ ctx'[s].fault_streak <= 1 \/ ctx'[s].fault_streak < FaultConfirmLimit
                      /\ ctx'[s].fault_streak >= overdue'[s]
                 /\ ctx'[s].state = "HEALTHY" => overdue'[s] = 0
      <3>1. CASE s = cur
        BY <1>3, <1>4, <2>1, <2>5, <2>6, <3>1 DEF Below
      <3>2. CASE s # cur
        BY <3>2, ConcludeIs DEF IInv, Counted
      <3> QED BY <3>1, <3>2
    <2> QED BY <2>7 DEF Counted
  <1>6. ASSUME NEW s \in Rangers, mode[s] = "clean"
        PROVE  Tracks(s)' /\ Prompt(s)' /\ (~crept' => ctx'[s].state \in Usable)
    <2>1. Tracks(s) /\ Prompt(s) /\ (~crept => ctx[s].state \in Usable)
      BY <1>6 DEF IInv, Clean
    <2>2. Tracks(s)'
      BY <2>1 DEF Tracks, Polled, Value
    <2>3. Prompt(s)'
      BY <2>1 DEF Prompt
    <2>4. ~crept' => ctx'[s].state \in Usable
      <3>1. CASE s = cur
        BY <1>3, <1>4, <1>6, <2>1, <3>1 DEF Sound
      <3>2. CASE s # cur
        BY <2>1, <3>2, ConcludeIs
      <3> QED BY <3>1, <3>2
    <2> QED BY <2>2, <2>3, <2>4
  <1>7. Clean' /\ Routed'
    BY <1>6 DEF Clean, Routed, IInv
  <1>8. Twins'
    <2> SUFFICES ASSUME \A s \in Rangers : mode[s] = "clean"
                 PROVE  /\ \A s \in Rangers : ctx'[s].last_fault \in {"NONE", "STUCK"}
                                               /\ (~crept => ctx'[s].state = "HEALTHY")
                        /\ pcSensor = "poll_first" /\ window[First] # <<>>
                              /\ window[Second] # <<>> => Value(First) = Value(Second)
      BY ConcludeIs DEF Twins, Value
    <2>1. ASSUME NEW s \in Rangers
          PROVE  /\ ctx'[s].last_fault \in {"NONE", "STUCK"}
                 /\ ~crept => ctx'[s].state = "HEALTHY"
      <3>1. /\ ctx[s].last_fault \in {"NONE", "STUCK"}
            /\ ~crept => ctx[s].state = "HEALTHY"
        BY DEF IInv, Twins
      <3>2. d \in {"NONE", "STUCK"} /\ (~crept => d = "NONE")
        BY <1>0 DEF Sound
      <3> QED BY <1>3, <1>4, <3>1, <3>2, ConcludeIs
    <2> QED BY <2>1 DEF IInv, Twins
  <1> QED BY <1>1, <1>2, <1>5, <1>7, <1>8 DEF IInv

LEMMA GoneOnHolds ==
    ASSUME IInv, GoneOn,
           UNCHANGED <<mode, truth, route, crept, glitched, window, age, pcSensor, lag>>
    PROVE  IInv'
  <1>0. /\ Types /\ cur \in Rangers /\ cur' = cur /\ ctx' = ctx /\ overdue' = overdue
        /\ pcFdi # "receive"
    BY DEF IInv, Types, GoneOn
  <1>1. latest' \in Sample
    <2>1. window[cur] \in Seq(Sample) /\ window[cur] # <<>> /\ latest \in Sample
      BY <1>0 DEF GoneOn, Types, Sample
    <2>2. window[cur][Len(window[cur])] \in Sample
      BY <2>1
    <2> QED BY <2>1, <2>2 DEF GoneOn
  <1>2. Types'
    BY <1>0, <1>1 DEF Types, GoneOn, Sample
  <1>3. Pace' /\ Counted'
    BY <1>0 DEF IInv, Pace, Counted, GoneOn
  <1>4. Passed'
    BY <1>0 DEF Passed, GoneOn, InTime
  <1>5. ASSUME NEW s \in Rangers, mode[s] = "clean"
        PROVE  Tracks(s)' /\ Prompt(s)' /\ (~crept' => ctx'[s].state \in Usable)
    <2>1. Tracks(s) /\ Prompt(s) /\ (~crept => ctx[s].state \in Usable)
      BY <1>5 DEF IInv, Clean
    <2>2. Tracks(s)'
      BY <2>1 DEF Tracks, Polled, Value
    <2>3. Prompt(s)'
      BY <1>0, <2>1 DEF Prompt
    <2> QED BY <1>0, <2>1, <2>2, <2>3
  <1>6. Clean' /\ Routed'
    BY <1>5 DEF Clean, Routed, IInv
  <1>7. Twins'
    <2> SUFFICES ASSUME \A s \in Rangers : mode[s] = "clean", pcFdi' = "compare"
                 PROVE  /\ Distance(latest'[1], truth) <= MaxMove
                        /\ Distance(latest'[1], Value(RedundantPair[cur])) <= MaxMove
                        /\ pcSensor = "sleep" => latest'[1] = truth
      BY <1>0 DEF Twins, Value, IInv
    <2>1. PICK r \in Rangers : r = RedundantPair[cur] /\ r # cur
      BY <1>0, PairIs
    <2>2. latest'[1] = Value(cur)
      BY DEF GoneOn, Value
    <2>3. /\ Tracks(cur) /\ window[cur] # <<>>
          /\ Tracks(r) /\ window[r] # <<>>
      BY <1>0, <2>1 DEF IInv, Clean, Prompt
    <2>4. /\ truth \in Nat /\ Value(cur) \in Nat /\ Value(r) \in Nat
      <3>1. window[cur] \in Seq(Sample) /\ window[r] \in Seq(Sample) /\ truth \in Nat
        BY <1>0, <2>1, Numbers DEF Types, Sample
      <3>2. window[cur][Len(window[cur])] \in Sample /\ window[r][Len(window[r])] \in Sample
        BY <2>3, <3>1
      <3> QED BY <3>1, <3>2, Numbers DEF Value, Sample
    <2>5. /\ Distance(truth, truth) = 0
          /\ Distance(truth, Value(cur)) = Distance(Value(cur), truth)
          /\ Distance(truth, Value(r)) = Distance(Value(r), truth)
          /\ Distance(Value(cur), Value(cur)) = 0
          /\ Distance(truth, Value(cur)) \in Nat /\ Distance(truth, Value(r)) \in Nat
      BY <2>4, DistanceIs
    <2>6. /\ Polled(cur) => Value(cur) = truth
          /\ Polled(r) => Value(r) = truth
          /\ ~Polled(cur) => Distance(truth, Value(cur)) <= MaxMove
          /\ ~Polled(r) => Distance(truth, Value(r)) <= MaxMove
      BY <2>3, <2>5, Numbers DEF Tracks
    <2>7. ~Polled(cur) /\ ~Polled(r) => Value(cur) = Value(r)
      <3>1. ~Polled(cur) /\ ~Polled(r) => pcSensor = "poll_first"
        BY <1>0, <2>1, PairIs DEF Polled, Types
      <3>2. window[First] # <<>> /\ window[Second] # <<>>
        BY <1>0, <2>1, <2>3, PairIs
      <3>3. pcSensor = "poll_first" => Value(First) = Value(Second)
        BY <3>2 DEF IInv, Twins
      <3> QED BY <1>0, <2>1, <3>1, <3>3, PairIs
    <2>8. Distance(Value(cur), truth) <= MaxMove
      BY <2>5, <2>6, Numbers
    <2>9. Distance(Value(cur), Value(r)) <= MaxMove
      BY <2>5, <2>6, <2>7, Numbers
    <2>10. pcSensor = "sleep" => Value(cur) = truth
      BY <2>6 DEF Polled
    <2> QED BY <2>1, <2>2, <2>8, <2>9, <2>10
  <1> QED BY <1>2, <1>3, <1>4, <1>6, <1>7 DEF IInv

LEMMA CheckHolds == IInv /\ FdiCheck => IInv'
  <1> SUFFICES ASSUME IInv, FdiCheck PROVE IInv'
    OBVIOUS
  <1>1. /\ UNCHANGED <<mode, truth, route, crept, glitched, window, age, pcSensor, lag>>
        /\ \/ \E d : Sound(d) /\ Conclude(d) /\ Dropped
           \/ GoneOn
    BY CheckEnds
  <1>2. pcFdi # "receive"
    BY DEF FdiCheck, FdiCount, FdiTimestamp, FdiStuck, FdiNoisy, FdiLatest, FdiCompare
  <1> QED BY <1>1, <1>2, ConcludeHolds, GoneOnHolds

LEMMA StutterHolds == IInv /\ UNCHANGED vars => IInv'
  BY DEF IInv, Types, Pace, Passed, Counted, Clean, Twins, Tracks, Prompt, Polled, Value,
         Routed, Creeps, InTime, vars, sensorVars

LEMMA NextHolds == IInv /\ [Next]_vars => IInv'
  BY WakeHolds, PollHolds, ReceiveHolds, CheckHolds, StutterHolds DEF Next, FdiCheck

-------------------------------------------------------------------------------
(* The theorems.                                                             *)

\* The inductive invariant of polling and evaluation, lock by lock.
THEOREM CycleInvariant == Spec => []IInv
  BY InitHolds, NextHolds, PTL DEF Spec

\* Every variable keeps its type: no history outgrows its buffer, and the time since the
\* stamp never exceeds one period.
THEOREM CycleTypeCorrect == Spec => []TypeOK
  <1>1. ASSUME NEW w \in Seq([{1} -> Distances]), Len(w) <= BufferLen
        PROVE  w \in BoundedSeq([{1} -> Distances], BufferLen)
    <2>1. w \in [1..Len(w) -> [{1} -> Distances]] /\ Len(w) \in 0..BufferLen
      BY <1>1, Numbers
    <2> QED BY <2>1 DEF BoundedSeq, SeqOf
  <1>2. Types /\ Routed => TypeOK
    BY <1>1 DEF Types, Routed, TypeOK
  <1> QED BY <1>2, CycleInvariant, PTL DEF IInv

\* Two clean sensors are never suspected, wherever between the locks of an evaluation the
\* next poll falls, unless the vehicle crept, and then of nothing but being stuck.
THEOREM CleanPairIsHealthy == Spec => []NoFalseAlarm
  <1>1. IInv => NoFalseAlarm
    BY DEF IInv, Twins, NoFalseAlarm
  <1> QED BY <1>1, CycleInvariant, PTL

\* A clean sensor stays in use, whatever its twin reports or fails to, unless the vehicle
\* crept.
THEOREM CleanStaysInUse == Spec => []TwinCannotExclude
  <1>1. IInv => TwinCannotExclude
    BY DEF IInv, Clean, TwinCannotExclude
  <1> QED BY <1>1, CycleInvariant, PTL

\* A sensor that has fallen silent is out of use after as many evaluations as confirm a fault.
THEOREM SilenceIsNoticed == Spec => []SilentSensorLeaves
  <1>1. IInv => SilentSensorLeaves
    <2> SUFFICES ASSUME IInv, NEW s \in Rangers, overdue[s] >= 2,
                        overdue[s] >= FaultConfirmLimit, ctx[s].state \in Usable
                 PROVE  FALSE
      BY DEF SilentSensorLeaves
    <2>1. PICK k, l, f \in Nat : k = overdue[s] /\ l = FaultConfirmLimit
                                 /\ f = ctx[s].fault_streak
      <3>1. ctx[s] \in Context /\ overdue[s] \in Nat /\ FaultConfirmLimit \in Nat
        BY Numbers DEF IInv, Types
      <3>2. ctx[s].fault_streak \in Nat
        BY <3>1 DEF Context
      <3> QED BY <3>1, <3>2
    <2>2. ctx[s].state = "SUSPECT" => (f <= 1 \/ f < l) /\ f >= k
      BY <2>1 DEF IInv, Counted
    <2>3. ctx[s].state = "HEALTHY" => k = 0
      BY <2>1 DEF IInv, Counted
    <2> QED BY <2>1, <2>2, <2>3 DEF Usable
  <1> QED BY <1>1, CycleInvariant, PTL

===============================================================================
