---------------------------- MODULE DetectionCycle ----------------------------
(***************************************************************************)
(* fdi_detect() at work: the sensor thread polls a redundant pair of       *)
(* rangers into their buffers while the fault detector, which has already  *)
(* replied, still reads them.  A check locks a buffer once or twice and    *)
(* the sensor thread may write between any two locks, so every lock is a   *)
(* step here.  A buffer is the window SensorBuffer implements.  Exclusion  *)
(* is final: bringing a sensor back is FdiThreads.                         *)
(*                                                                         *)
(* The world: the obstacle's distance `truth` changes by one of Moves in   *)
(* each cycle, a clean sensor reports it, a faulty one anything or         *)
(* nothing, and one with a glitch is clean but for a single reading.       *)
(***************************************************************************)
EXTENDS FaultDetector, FaultChecks

CONSTANTS
    Rangers, First, Second,  \* the pair, in the order both threads visit it
    MaxDistance,             \* the distances there are
    Moves, MaxMove,          \* the vehicle's steps from one cycle to the next
    Wild,                    \* the values a failed sensor reports
    LongestPeriod,           \* the longest time between two polls
    Behaviours               \* the ways the two sensors may behave

ASSUME PairAssumption ==
    /\ Rangers = {First, Second} /\ Rangers \subseteq SensorId
    /\ RedundantPair[First] = Second
    /\ Behaviours \subseteq [Rangers -> {"clean", "glitch", "faulty"}]

\* The obstacle moves no faster than check_noisy() lets a clean sensor's readings, and
\* readings one poll apart are no contradiction.
ASSUME MotionAssumption ==
    /\ MaxDistance \in Nat /\ Wild \subseteq 0..MaxDistance
    /\ MaxMove \in Nat /\ Moves \subseteq 0..MaxMove
    /\ MaxMove <= NoiseThreshold /\ MaxMove <= ContradictionThreshold
    /\ LongestPeriod \in Nat \ {0}

VARIABLES
    truth,      \* the distance of the obstacle
    route,      \* history: its distances in the last cycles, as many as a buffer holds
    crept,      \* history: the vehicle once stood still, or nearly, for a whole route
    mode,       \* how each sensor behaves
    glitched,   \* the sensors whose one glitch is over
    window,     \* the values of the samples in each buffer, oldest first
    age,        \* clock - timestamp_us of the newest sample
    pcSensor,   \* sensor_fusion_thread: next step
    pcFdi,      \* fault_detector_thread: next step
    cur,        \*   the sensor being evaluated
    lag,        \*   clock - msg.now_us
    latest,     \*   a: the sensor's own newest sample
    ctx,        \* the contexts of the pair
    overdue     \* history: evaluations in a row for which no sample was in time

sensorVars  == <<truth, route, crept, glitched, window, age, pcSensor>>
vars == <<mode, sensorVars, pcFdi, cur, lag, latest, ctx, overdue>>

\* No check tells longer times apart.
AgeCap == DelayTimeout + LongestPeriod + 1
AtMostCap(n) == IF n > AgeCap THEN AgeCap ELSE n
Distances == 0..MaxDistance

\* Verdicts are taken as of msg.now_us; the clock itself is not kept.
InTime(a, l) == ~Delayed(0 - l, 0 - a)

Init ==
    /\ truth \in Distances /\ mode \in Behaviours /\ glitched = {}
    /\ route = <<>> /\ crept = FALSE
    /\ window = [s \in Rangers |-> <<>>]
    /\ age = [s \in Rangers |-> 0]
    /\ pcSensor = "sleep" /\ pcFdi = "receive" /\ cur = First /\ lag = 0
    /\ latest = <<0>>
    /\ ctx = [s \in Rangers |-> ContextInit]
    /\ overdue = [s \in Rangers |-> 0]

-------------------------------------------------------------------------------
(* sensor_fusion_thread(): usleep(), sensor_manager_poll(), MsgSend().       *)

\* Bug: the oldest sample is kept.
WriteGrows(w, value) == Append(w, <<value>>)

\* sensor_buffer_write(): the newest sample takes the place of the oldest.
Write(w, value) ==
    Append(IF Len(w) < BufferLen THEN w ELSE Tail(w), <<value>>)

\* Over a full route the distance changed no more than check_stuck() wants to see.
Creeps(path) ==
    /\ Len(path) = BufferLen
    /\ \A i, j \in DOMAIN path : Distance(path[i][1], path[j][1]) <= StuckThreshold

Wake ==
    /\ pcSensor = "sleep" /\ pcSensor' = "poll_first"
    /\ \E p \in 1..LongestPeriod :
          /\ age' = [s \in Rangers |-> AtMostCap(age[s] + p)]
          /\ lag' = IF pcFdi = "receive" THEN 0 ELSE lag + p
    /\ truth' \in {d \in Distances : Distance(d, truth) \in Moves}
    /\ route' = Write(route, truth') /\ crept' = (crept \/ Creeps(route'))
    /\ UNCHANGED <<mode, glitched, window, pcFdi, cur, latest, ctx, overdue>>

Deliver(s, value) ==
    /\ window' = [window EXCEPT ![s] = Write(@, value)]
    /\ age' = [age EXCEPT ![s] = 0]

\* A read that fails writes nothing.
PollSensor(s) ==
    \/ mode[s] # "faulty" /\ Deliver(s, truth) /\ UNCHANGED glitched
    \/ /\ mode[s] = "glitch" /\ s \notin glitched
       /\ glitched' = glitched \cup {s}
       /\ \E value \in Wild : Deliver(s, value)
    \/ /\ mode[s] = "faulty" /\ UNCHANGED glitched
       /\ \/ \E value \in Wild : Deliver(s, value)
          \/ UNCHANGED <<window, age>>

Poll ==
    /\ \/ pcSensor = "poll_first" /\ pcSensor' = "poll_second" /\ PollSensor(First)
       \/ pcSensor = "poll_second" /\ pcSensor' = "send" /\ PollSensor(Second)
    /\ UNCHANGED <<mode, truth, route, crept, pcFdi, cur, lag, latest, ctx, overdue>>

-------------------------------------------------------------------------------
(* fault_detector_thread(), evaluate_sensor() and fdi_detect().              *)

Evaluate(s) == pcFdi' = "count" /\ cur' = s

FdiReceive ==
    /\ pcSensor = "send" /\ pcFdi = "receive"
    /\ pcSensor' = "sleep"
    /\ lag' = 0 /\ Evaluate(First)
    /\ UNCHANGED <<mode, truth, route, crept, glitched, window, age, latest, ctx, overdue>>

\* Returns `detected` from fdi_detect(): evaluate_sensor() acts on it, and the
\* detector goes on to the twin or waits for the next cycle.
Conclude(detected) ==
    /\ ctx' = [ctx EXCEPT ![cur] =
           LET c == IF @.state \in {"HEALTHY", "SUSPECT"}
                    THEN Isolate(UpdateState(@, detected)) ELSE @
           IN  [c EXCEPT !.last_fault = detected]]
    /\ overdue' = [overdue EXCEPT ![cur] =
           IF window[cur] # <<>> /\ InTime(age[cur], lag) THEN 0
           ELSE IF @ < FaultConfirmLimit + 1 THEN @ + 1 ELSE @]
    /\ IF cur = First THEN Evaluate(Second)
       ELSE pcFdi' = "receive" /\ UNCHANGED cur

GoOn(step) == pcFdi' = step /\ UNCHANGED <<ctx, cur, overdue>>

\* Bug: a sensor that never delivered has nothing to be late with.
FdiCountForgives ==
    /\ pcFdi = "count"
    /\ IF window[cur] = <<>> THEN Conclude("NONE") ELSE GoOn("timestamp")
    /\ UNCHANGED <<mode, sensorVars, lag, latest>>

FdiCount ==
    /\ pcFdi = "count"
    /\ IF window[cur] = <<>> THEN Conclude("DELAYED") ELSE GoOn("timestamp")
    /\ UNCHANGED <<mode, sensorVars, lag, latest>>

FdiTimestamp ==
    /\ pcFdi = "timestamp"
    /\ IF InTime(age[cur], lag) THEN GoOn("stuck") ELSE Conclude("DELAYED")
    /\ UNCHANGED <<mode, sensorVars, lag, latest>>

FdiStuck ==
    /\ pcFdi = "stuck"
    /\ IF Stuck(window[cur]) THEN Conclude("STUCK") ELSE GoOn("noisy")
    /\ UNCHANGED <<mode, sensorVars, lag, latest>>

FdiNoisy ==
    /\ pcFdi = "noisy"
    /\ IF Noisy(window[cur]) THEN Conclude("NOISY") ELSE GoOn("latest")
    /\ UNCHANGED <<mode, sensorVars, lag, latest>>

\* check_contradictory() reads the two newest samples under two locks.
FdiLatest ==
    /\ pcFdi = "latest"
    /\ latest' = Last(window[cur])
    /\ GoOn("compare")
    /\ UNCHANGED <<mode, sensorVars, lag>>

FdiCompare ==
    /\ pcFdi = "compare"
    /\ LET twin == window[RedundantPair[cur]]
       IN  IF twin # <<>> /\ Contradictory(latest, Last(twin))
           THEN Conclude("CONTRADICTORY") ELSE Conclude("NONE")
    /\ latest' = <<0>>
    /\ UNCHANGED <<mode, sensorVars, lag>>

Next == \/ Wake \/ Poll \/ FdiReceive
        \/ FdiCount \/ FdiTimestamp \/ FdiStuck \/ FdiNoisy \/ FdiLatest \/ FdiCompare

Spec == Init /\ [][Next]_vars

-------------------------------------------------------------------------------
TypeOK ==
    /\ truth \in Distances /\ mode \in Behaviours /\ glitched \subseteq Rangers
    /\ route \in BoundedSeq([{1} -> Distances], BufferLen) /\ crept \in BOOLEAN
    /\ window \in [Rangers -> BoundedSeq([{1} -> Distances], BufferLen)]
    /\ age \in [Rangers -> 0..AgeCap]
    /\ pcSensor \in {"sleep", "poll_first", "poll_second", "send"}
    /\ pcFdi \in {"receive", "count", "timestamp", "stuck", "noisy", "latest", "compare"}
    /\ cur \in Rangers /\ lag \in 0..LongestPeriod
    /\ latest \in [{1} -> Distances]
    /\ ctx \in [Rangers -> Context]
    /\ overdue \in [Rangers -> 0..(FaultConfirmLimit + 1)]

\* Two clean sensors are never suspected unless the vehicle crept, and then of nothing
\* but being stuck, although FDI may judge samples that are newer than its time stamp and
\* compare readings of different polls (check_delayed()'s guard, check_contradictory()).
NoFalseAlarm ==
    (\A s \in Rangers : mode[s] = "clean") =>
       \A s \in Rangers : /\ ctx[s].last_fault \in {"NONE", "STUCK"}
                          /\ ~crept => ctx[s].state = "HEALTHY"

\* Whatever its twin reports, a clean sensor stays in use unless the vehicle crept: a
\* contradiction alone condemns nobody (fdi_update_state()), and what the sensor held
\* in the buffer before moves on with the vehicle (check_stuck()).
TwinCannotExclude ==
    \A s \in Rangers : mode[s] = "clean" /\ ~crept => ctx[s].state \in Usable

\* A sensor that has not delivered in time for as many evaluations as confirm a
\* fault is out of use, whatever it reported before it fell silent and from the
\* first cycle on (check_delayed() and fdi_update_state()).
SilentSensorLeaves ==
    \A s \in Rangers :
       overdue[s] >= 2 /\ overdue[s] >= FaultConfirmLimit => ctx[s].state \notin Usable

-------------------------------------------------------------------------------
\* README.md:103: a single glitch does not exclude a healthy sensor (of a vehicle that
\* has not crept, which would exclude it anyway).
GlitchIsTolerated ==
    \A s \in Rangers : mode[s] = "glitch" /\ ~crept => ctx[s].state # "EXCLUDED"
===============================================================================
