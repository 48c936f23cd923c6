-------------------------------- MODULE Ranging --------------------------------
(***************************************************************************)
(* The two ultrasonic rangers in the cycle of the sensor thread: their     *)
(* start-up in sensor_manager_init(), then, poll after poll, what          *)
(* ultrasonic_read() does to each of them in turn (drain, trigger and two  *)
(* timed receptions), the rest of the poll, the message to the fault       *)
(* detector and the sleep until the next cycle.                            *)
(*                                                                         *)
(* Time passes only while the thread waits, and up to what is due first.   *)
(* The world is the echo lines: an HC-SR04 that is triggered raises its    *)
(* line after a delay, for a width that stands for the distance, and is    *)
(* deaf meanwhile.  Each edge is a pulse in the ranger's channel.  A pulse *)
(* does not say which edge, or whose, it is: the fields of Edge are        *)
(* history.                                                                *)
(***************************************************************************)
EXTENDS Integers, Sequences

CONSTANTS
    First, Second, \* the rangers in the order they are read
    EchoTimeout,   \* ECHO_TIMEOUT_MS
    LoopPeriod,    \* LOOP_PERIOD_US
    StaleSample,   \* STALE_SAMPLE_US
    MaxWidth,      \* the width MAX_DISTANCE_CM corresponds to
    Delays,        \* from the trigger to the rising edge
    Widths,        \* from the rising to the falling edge, without a target too
    Rests,         \* what the rest of a poll, the IMUs, may take
    LongestRest,   \*   at most
    Holds,         \* how long FDI, still at the cycle before, may hold up the message
    LongestHold,   \*   at most
    Latency        \* how long a pulse may lie before the thread runs

ASSUME TickAssumption ==
    /\ First # Second
    /\ EchoTimeout \in Nat \ {0} /\ LoopPeriod \in Nat \ {0}
    /\ StaleSample \in Nat /\ MaxWidth \in Nat /\ Latency \in Nat
    /\ Delays \subseteq Nat /\ Widths \subseteq Nat
    /\ LongestRest \in Nat /\ Rests \subseteq 0..LongestRest
    /\ LongestHold \in Nat /\ Holds \subseteq 0..LongestHold

\* An echo is over before the ranger is triggered again.
ASSUME EchoAssumption == \A delay \in Delays, width \in Widths : delay + width < LoopPeriod

\* The time a cycle may take in which a ranger misses its echo.
ASSUME BudgetAssumption ==
    6 * (EchoTimeout + Latency) + 2 * LongestRest + LongestHold + LoopPeriod <= StaleSample

Rangers == {First, Second}

VARIABLES
    pc,       \* the thread's next step
    cur,      \* the ranger being set up or read
    handles,  \* which of chid and coid each ranger has
    left,     \* time until the rest of the poll, FDI's reply or the end of the sleep
    waited,   \* time since TimerTimeout()
    late,     \* time since the pulse that ends the reception arrived
    elapsed,  \* clock - start
    spent,    \* clock - entry of ultrasonic_read()
    taken,    \* history: the edges this measurement is made of
    age,      \* clock - timestamp_us of each ranger's newest sample
    misses,   \* history: failed reads since the newest sample, counted up to 2
    pulses,   \* the pulses queued in each channel
    echo      \* each line, the time to its next edge, and the width of its echo

readVars == <<waited, late, elapsed, spent, taken>>
bufferVars == <<age, misses>>
worldVars == <<pulses, echo>>
vars == <<pc, cur, handles, left, readVars, bufferVars, worldVars>>

InitSteps == {"pins", "channel", "connect", "detect", "settle"}
Receiving == {"rise", "fall"}
Pausing == {"rest", "reply", "sleep"}
Computing == {"drain", "trigger", "deliver", "send"}

\* The call of ultrasonic_read() whose trigger an echo answers: this one or another.
Calls == {"this", "other"}
Edge == [edge : {"rise", "fall"}, call : Calls, width : Widths \cup {0}]
EchoLine == [line : {"quiet", "flying", "high"}, left : Nat, width : Widths \cup {0}, call : Calls]
Quiet == [line |-> "quiet", left |-> 0, width |-> 0, call |-> "other"]

\* No comparison tells longer times apart.
ReadBound == 2 * (EchoTimeout + Latency)
Capped(n, bound) == IF n > bound THEN bound ELSE n

Init ==
    /\ pc = "pins" /\ cur = First /\ left = 0
    /\ handles = [r \in Rangers |-> {}]
    /\ waited = 0 /\ late = 0 /\ elapsed = 0 /\ spent = 0 /\ taken = <<>>
    /\ age = [r \in Rangers |-> StaleSample + 1] /\ misses = [r \in Rangers |-> 2]
    /\ pulses = [r \in Rangers |-> <<>>] /\ echo = [r \in Rangers |-> Quiet]

-------------------------------------------------------------------------------
(* ultrasonic_init(), for one ranger after the other: each step may fail. *)

SetUpPins ==
    /\ pc = "pins" /\ pc' = "channel"
    /\ UNCHANGED <<cur, handles, left, readVars, bufferVars, worldVars>>

CreateChannel ==
    /\ pc = "channel" /\ pc' = "connect"
    /\ handles' = [handles EXCEPT ![cur] = @ \cup {"chid"}]
    /\ UNCHANGED <<cur, left, readVars, bufferVars, worldVars>>

AttachConnection ==
    /\ pc = "connect" /\ pc' = "detect"
    /\ handles' = [handles EXCEPT ![cur] = @ \cup {"coid"}]
    /\ UNCHANGED <<cur, left, readVars, bufferVars, worldVars>>

\* TRIG may have been high up to now: the edges of an echo nobody asked for.
AddEventDetect ==
    /\ pc = "detect" /\ pc' = "settle"
    /\ \E unasked \in {<<>>, <<"fall">>, <<"rise", "fall">>} :
          pulses' = [pulses EXCEPT ![cur] =
                        [i \in DOMAIN unasked |-> [edge |-> unasked[i], call |-> "other", width |-> 0]]]
    /\ UNCHANGED <<cur, handles, left, readVars, bufferVars, echo>>

\* After the second ranger the IMUs are calibrated, which takes seconds.
SettleTrigger ==
    /\ pc = "settle"
    /\ \/ cur = First /\ pc' = "pins" /\ cur' = Second
       \/ cur = Second /\ pc' = "drain" /\ cur' = First
    /\ UNCHANGED <<handles, left, readVars, bufferVars, worldVars>>

\* Bug: the step that was added last has no error path.
ReleasedEarly(step) ==
    CASE step = "connect" -> {"chid"}
      [] step = "detect"  -> {"chid", "coid"}
      [] OTHER            -> {}

\* What the error path of a step gives back.
Released(step) ==
    CASE step = "connect"              -> {"chid"}
      [] step \in {"detect", "settle"} -> {"chid", "coid"}
      [] OTHER                         -> {}

\* sensor_manager_init() returns at once, and main() with it.
InitFails ==
    /\ pc \in InitSteps /\ pc' = "exit"
    /\ handles' = [handles EXCEPT ![cur] = @ \ Released(pc)]
    /\ UNCHANGED <<cur, left, readVars, bufferVars, worldVars>>

-------------------------------------------------------------------------------
(* ultrasonic_read() *)

\* Bug: what is left over stays.
LeftOver(queue) == queue

\* The receptions with no time to wait, until one finds nothing.
Drained(queue) == <<>>

Drain ==
    /\ pc = "drain" /\ pc' = "trigger"
    /\ pulses' = [pulses EXCEPT ![cur] = Drained(@)]
    /\ UNCHANGED <<cur, handles, left, readVars, bufferVars, echo>>

\* An echo whose line, time to the next edge or trigger is another.
Turned(e, line, next, call) == [line |-> line, left |-> next, width |-> e.width, call |-> call]

\* A pulse that was queued before the trigger.
Stale(pulse) == [edge |-> pulse.edge, call |-> "other", width |-> pulse.width]

\* The ranger answers, or is deaf or dead.  Edges under way are not this trigger's.
Ping ==
    /\ pulses' = [pulses EXCEPT ![cur] = [i \in DOMAIN @ |-> Stale(@[i])]]
    /\ \/ /\ echo[cur].line = "quiet"
          /\ \E delay \in Delays, width \in Widths :
                echo' = [echo EXCEPT ![cur] =
                            [line |-> "flying", left |-> delay, width |-> width, call |-> "this"]]
       \/ echo' = [echo EXCEPT ![cur] = Turned(@, @.line, @.left, "other")]

SendTrigger ==
    /\ pc = "trigger" /\ pc' = "rise"
    /\ Ping
    /\ UNCHANGED <<cur, handles, left, readVars, bufferVars>>

\* ultrasonic_read() returns to sensor_manager_poll(), which goes on.
Return ==
    /\ waited' = 0 /\ late' = 0 /\ elapsed' = 0 /\ spent' = 0 /\ taken' = <<>>
    /\ \/ cur = First /\ cur' = Second /\ pc' = "drain" /\ left' = 0
       \/ cur = Second /\ cur' = First /\ pc' = "rest" /\ left' \in Rests

\* return -1: there is no sample.
GiveUp ==
    /\ Return
    /\ misses' = [misses EXCEPT ![cur] = Capped(@ + 1, 2)]
    /\ UNCHANGED <<handles, age>>

\* TRIG cannot be set, or not be reset: the ranger may fire all the same.
SendTriggerFails == pc = "trigger" /\ GiveUp /\ Ping

Received ==
    /\ pulses[cur] # <<>>
    /\ taken' = Append(taken, Head(pulses[cur]))
    /\ pulses' = [pulses EXCEPT ![cur] = Tail(@)]
    /\ waited' = 0 /\ late' = 0

ReceiveRise ==
    /\ pc = "rise" /\ pc' = "fall"
    /\ Received
    /\ UNCHANGED <<cur, handles, left, elapsed, spent, bufferVars, echo>>

\* A width below the unit of time may be any width, and none.
InRange(width) == width \in 0..MaxWidth
OutOfRange(width) == width = 0 \/ width > MaxWidth

ReceiveFall ==
    /\ pc = "fall" /\ InRange(elapsed) /\ pc' = "deliver"
    /\ Received
    /\ UNCHANGED <<cur, handles, left, elapsed, spent, bufferVars, echo>>

ReceiveFallOutOfRange ==
    /\ pc = "fall" /\ pulses[cur] # <<>> /\ OutOfRange(elapsed)
    /\ GiveUp
    /\ pulses' = [pulses EXCEPT ![cur] = Tail(@)]
    /\ UNCHANGED echo

\* Bug: TimerTimeout() is for one kernel call, and the second has none.
ArmedOnce == pc = "rise"

\* receive_echo_event() arms the timer for each reception.
Armed == pc \in Receiving

\* A pulse of this very moment may come too late.
Expire ==
    /\ Armed /\ waited = EchoTimeout /\ late = 0
    /\ GiveUp
    /\ UNCHANGED worldVars

\* TimerTimeout() or MsgReceivePulse() fails, the pulse is not an EVENT_ECHO, or the clock
\* cannot be read: return -1, with or without a pulse taken from the channel.
ReadFails ==
    /\ pc \in Receiving
    /\ GiveUp
    /\ \/ UNCHANGED pulses
       \/ pulses[cur] # <<>> /\ pulses' = [pulses EXCEPT ![cur] = Tail(@)]
    /\ UNCHANGED echo

-------------------------------------------------------------------------------
(* sensor_manager_poll() and the loop around it *)

\* Bug: the sample is stamped with the time at which the read began.
StampedAtEntry == spent

\* now_us() is called when the read is over.
StampedNow == 0

Deliver ==
    /\ pc = "deliver"
    /\ age' = [age EXCEPT ![cur] = StampedNow]
    /\ misses' = [misses EXCEPT ![cur] = 0]
    /\ Return
    /\ UNCHANGED <<handles, worldVars>>

EndPoll ==
    /\ pc = "rest" /\ left = 0 /\ pc' = "send"
    /\ UNCHANGED <<cur, handles, left, readVars, bufferVars, worldVars>>

\* msg.now_us is taken and MsgSend() called, which blocks while FDI still evaluates.
Send ==
    /\ pc = "send" /\ pc' = "reply" /\ left' \in Holds
    /\ UNCHANGED <<cur, handles, readVars, bufferVars, worldVars>>

\* The fault detector replies before it evaluates.
Replied ==
    /\ pc = "reply" /\ left = 0 /\ pc' = "sleep" /\ left' = LoopPeriod
    /\ UNCHANGED <<cur, handles, readVars, bufferVars, worldVars>>

Wake ==
    /\ pc = "sleep" /\ left = 0 /\ pc' = "drain"
    /\ UNCHANGED <<cur, handles, left, readVars, bufferVars, worldVars>>

-------------------------------------------------------------------------------
(* The echo lines, and time *)

\* The GPIO server sends a pulse for an edge, or misses it.
Notify(r, edge) ==
    \/ pulses' = [pulses EXCEPT ![r] =
                     Append(@, [edge |-> edge, call |-> echo[r].call, width |-> echo[r].width])]
    \/ UNCHANGED pulses

EchoRises(r) ==
    /\ echo[r].line = "flying" /\ echo[r].left = 0
    /\ echo' = [echo EXCEPT ![r] = Turned(@, "high", @.width, @.call)]
    /\ Notify(r, "rise")
    /\ UNCHANGED <<pc, cur, handles, left, readVars, bufferVars>>

EchoFalls(r) ==
    /\ echo[r].line = "high" /\ echo[r].left = 0
    /\ echo' = [echo EXCEPT ![r] = Quiet]
    /\ Notify(r, "fall")
    /\ UNCHANGED <<pc, cur, handles, left, readVars, bufferVars>>

\* How long each of the parties lets time pass.  A thread that can run does so
\* at once, but for the latency of a reception.
ThreadDue ==
    CASE pc \in Pausing                                -> left
      [] pc \in Receiving /\ pulses[cur] # <<>>        -> Latency - late
      [] pc \in Receiving /\ pulses[cur] = <<>> /\ Armed -> EchoTimeout - waited
      [] pc \in Receiving /\ pulses[cur] = <<>> /\ ~Armed -> ReadBound + 1
      [] OTHER                                         -> 0
Due == {ThreadDue} \cup {echo[r].left : r \in {q \in Rangers : echo[q].line # "quiet"}}

\* Bug: the clock is read before the rising edge has come.
StampedAtTrigger == pc \in Receiving

\* clock_gettime(&start) follows the reception of the rising edge.
Stamped == pc = "fall"

Pass(n) ==
    /\ left' = IF pc \in Pausing THEN left - n ELSE left
    /\ waited' = IF pc \in Receiving /\ pulses[cur] = <<>> THEN Capped(waited + n, EchoTimeout) ELSE waited
    /\ late' = IF pc \in Receiving /\ pulses[cur] # <<>> THEN late + n ELSE late
    /\ elapsed' = IF Stamped THEN Capped(elapsed + n, ReadBound + 1) ELSE elapsed
    /\ spent' = IF pc \in Receiving THEN Capped(spent + n, ReadBound + 1) ELSE spent
    /\ age' = [r \in Rangers |-> Capped(age[r] + n, StaleSample + 1)]
    /\ echo' = [r \in Rangers |->
                  IF echo[r].line = "quiet" THEN echo[r] ELSE Turned(echo[r], echo[r].line, echo[r].left - n, echo[r].call)]
    /\ UNCHANGED <<pc, cur, handles, taken, misses, pulses>>

Tick == \E n \in Due \ {0} : (\A due \in Due : n <= due) /\ Pass(n)

\* The process is gone.
Exited == pc = "exit" /\ UNCHANGED vars

Next ==
    \/ SetUpPins \/ CreateChannel \/ AttachConnection \/ AddEventDetect \/ SettleTrigger \/ InitFails
    \/ Drain \/ SendTrigger \/ SendTriggerFails \/ ReceiveRise \/ ReceiveFall \/ ReceiveFallOutOfRange
    \/ Expire \/ ReadFails \/ Deliver \/ EndPoll \/ Send \/ Replied \/ Wake
    \/ (\E r \in Rangers : EchoRises(r) \/ EchoFalls(r)) \/ Tick \/ Exited

Spec == Init /\ [][Next]_vars

-------------------------------------------------------------------------------
TypeOK ==
    /\ pc \in InitSteps \cup Receiving \cup Pausing \cup Computing \cup {"exit"}
    /\ cur \in Rangers
    /\ handles \in [Rangers -> SUBSET {"chid", "coid"}]
    /\ left \in Nat
    /\ waited \in 0..EchoTimeout /\ late \in 0..Latency
    /\ elapsed \in 0..(ReadBound + 1) /\ spent \in 0..(ReadBound + 1)
    /\ taken \in Seq(Edge) /\ pulses \in [Rangers -> Seq(Edge)]
    /\ \A r \in Rangers : Len(pulses[r]) <= 2
    /\ echo \in [Rangers -> EchoLine]
    /\ age \in [Rangers -> 0..(StaleSample + 1)] /\ misses \in [Rangers -> 0..2]

\* A measurement that reaches the buffer is made of the rising and the falling
\* edge of its own trigger: no leftover of a late, lost or unasked-for echo
\* passes for either, although a pulse does not say what it is (ultrasonic_read()).
OwnEdges ==
    pc = "deliver" => /\ Len(taken) = 2
                      /\ taken[1].call = "this" /\ taken[1].edge = "rise"
                      /\ taken[2].call = "this" /\ taken[2].edge = "fall"

\* Both stamps are taken after a reception, and still the distance is off by no
\* more than the time one reception may come late (clock_gettime() after
\* receive_echo_event()).
MeasuresWidth ==
    pc = "deliver" => elapsed \in (taken[2].width - Latency)..(taken[2].width + Latency)

\* "nor can block detection indefinitely" (README.md:191): whatever edges are
\* lost, late or extra, ultrasonic_read() ends within two time-outs.
ReadIsBounded == spent <= ReadBound

\* A single missed echo takes no ranger out of the fusion: even when its twin
\* runs into its time-outs as well and the IMUs are slow, the sample before it
\* is not stale when msg.now_us is taken (STALE_SAMPLE_US against the cycle).
OneMissIsHarmless ==
    pc = "send" => \A r \in Rangers : misses[r] <= 1 => age[r] <= StaleSample

\* A ranger whose start-up fails keeps neither its channel nor its connection,
\* and one that is polled has both (ultrasonic_init()).
HandlesMatch ==
    /\ pc = "exit" => handles[cur] = {}
    /\ pc \notin InitSteps \cup {"exit"} => \A r \in Rangers : handles[r] = {"chid", "coid"}
===============================================================================
