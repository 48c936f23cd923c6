----------------------------- MODULE RangingProofs -----------------------------
(***************************************************************************)
(* Proofs about Ranging, for any delays, widths, time-outs and latencies   *)
(* that the assumptions allow.                                             *)
(***************************************************************************)
EXTENDS Ranging, TLAPS

Reading == {"drain", "trigger", "rise", "fall", "deliver"}
Steps == InitSteps \cup Receiving \cup Pausing \cup Computing \cup {"exit"}
Polling == Reading \cup Pausing \cup {"send"}

(***************************************************************************)
(* Types, without the length of the queues.                                *)
(***************************************************************************)
Types ==
    /\ pc \in Steps
    /\ cur \in Rangers
    /\ handles \in [Rangers -> SUBSET {"chid", "coid"}]
    /\ left \in Nat
    /\ waited \in 0..EchoTimeout /\ late \in 0..Latency
    /\ elapsed \in 0..(ReadBound + 1) /\ spent \in 0..(ReadBound + 1)
    /\ taken \in Seq(Edge) /\ pulses \in [Rangers -> Seq(Edge)]
    /\ echo \in [Rangers -> EchoLine]
    /\ age \in [Rangers -> 0..(StaleSample + 1)] /\ misses \in [Rangers -> 0..2]

(***************************************************************************)
(* Each reception takes its time-out and the latency at most.              *)
(***************************************************************************)
Budget ==
    /\ pc = "rise" => spent <= waited + late
    /\ pc = "fall" => spent <= (EchoTimeout + Latency) + waited + late
    /\ pc = "deliver" => spent <= ReadBound
    /\ pc \notin {"rise", "fall", "deliver"} => spent = 0
    /\ elapsed <= spent

(***************************************************************************)
(* How far the cycle has come at most, and since when the newest sample of *)
(* a ranger can be there: its read ended in this cycle or in the one       *)
(* before.                                                                 *)
(***************************************************************************)
CycleBound == 2 * ReadBound + LongestRest + LongestHold + LoopPeriod

Progress ==
    IF pc \in Reading THEN (IF cur = Second THEN ReadBound ELSE 0) + spent
    ELSE IF pc = "sleep" THEN CycleBound - left
    ELSE IF pc = "reply" THEN 2 * ReadBound + LongestRest + LongestHold - left
    ELSE 2 * ReadBound + LongestRest - (IF pc = "rest" THEN left ELSE 0)

ReadBy(r) == IF r = First THEN ReadBound ELSE 2 * ReadBound
Done(r) == pc \notin Reading \/ (r = First /\ cur = Second)

Freshness ==
    /\ pc \in InitSteps \cup {"exit"} => \A r \in Rangers : misses[r] = 2
    /\ pc = "rest" => left <= LongestRest
    /\ pc = "reply" => left <= LongestHold
    /\ pc = "sleep" => left <= LoopPeriod
    /\ pc \in Pausing \cup {"send"} => cur = First
    /\ pc \in Polling => \A r \in Rangers :
         /\ misses[r] = 0 /\ Done(r) => age[r] <= Progress - ReadBy(r)
         /\ misses[r] = 0 /\ ~Done(r) => age[r] <= CycleBound - ReadBy(r) + Progress
         /\ misses[r] = 1 /\ Done(r) => age[r] <= CycleBound - ReadBy(r) + Progress

(***************************************************************************)
(* What the start-up has acquired so far.                                  *)
(***************************************************************************)
Acquired ==
    {h \in {"chid", "coid"} : pc \in {"detect", "settle"} \/ (h = "chid" /\ pc = "connect")}

Handles ==
    /\ pc \in InitSteps => /\ handles[cur] = Acquired
                           /\ cur = Second => handles[First] = {"chid", "coid"}
                           /\ cur = First => handles[Second] = {}
    /\ HandlesMatch

(***************************************************************************)
(* An echo ends before its ranger is triggered again, so that the queue    *)
(* has room for no more than its two edges.                                *)
(***************************************************************************)
Remaining(e) ==
    IF e.line = "flying" THEN e.left + e.width ELSE IF e.line = "high" THEN e.left ELSE 0

EdgesLeft(e) ==
    IF e.line = "flying" THEN 2 ELSE IF e.line = "high" THEN 1 ELSE 0

Settled(e, queue) == Remaining(e) < LoopPeriod /\ Len(queue) + EdgesLeft(e) <= 2

Quietness ==
    /\ \A r \in Rangers : Settled(echo[r], pulses[r])
    /\ pc = "sleep" => \A r \in Rangers : echo[r].line # "quiet" => Remaining(echo[r]) < left
    /\ pc \in InitSteps => \A r \in Rangers : echo[r].line = "quiet"
    /\ pc \in {"drain", "trigger"} => echo[cur].line = "quiet"
    /\ pc \in Reading /\ cur = First => echo[Second].line = "quiet"
    /\ pc = "trigger" => pulses[cur] = <<>>

(***************************************************************************)
(* What is left of the echo of this trigger while the read waits for the   *)
(* rising edge e of it, with a queue whose first pulse is l old, and while *)
(* it waits for the falling edge, t after a stamp of the rising one.       *)
(***************************************************************************)
AwaitsRise(e, queue, l) ==
    /\ e.line # "quiet" => e.call = "this"
    /\ \A i \in 1..Len(queue) : queue[i].call = "this"
    /\ queue = <<>> => l = 0
    /\ e.line = "high" /\ Len(queue) = 1 =>
         queue[1].edge = "rise" /\ queue[1].width = e.width /\ e.width = e.left + l
    /\ Len(queue) = 2 =>
         /\ queue[1].edge = "rise" /\ queue[2].edge = "fall"
         /\ queue[1].width = queue[2].width /\ queue[2].width <= l

AwaitsFall(rise, e, queue, l, t) ==
    /\ Len(queue) + EdgesLeft(e) <= 1
    /\ queue = <<>> => l = 0
    /\ e.line = "high" =>
         /\ e.call = "this" /\ rise.call = "this" /\ rise.edge = "rise" /\ rise.width = e.width
         /\ t + e.left <= e.width /\ e.width <= t + e.left + Latency
    /\ Len(queue) = 1 =>
         /\ rise.call = "this" /\ rise.edge = "rise"
         /\ queue[1].call = "this" /\ queue[1].edge = "fall" /\ queue[1].width = rise.width
         /\ t <= rise.width + l /\ rise.width + l <= t + Latency

Tracking ==
    /\ pc \notin Receiving => late = 0
    /\ pc \notin {"fall", "deliver"} => elapsed = 0 /\ taken = <<>>
    /\ pc = "rise" => AwaitsRise(echo[cur], pulses[cur], late)
    /\ pc = "fall" => Len(taken) = 1 /\ AwaitsFall(taken[1], echo[cur], pulses[cur], late, elapsed)
    /\ OwnEdges /\ MeasuresWidth

-------------------------------------------------------------------------------
\* What the assumptions say of the constants.
LEMMA ConstantTypes ==
    /\ First # Second
    /\ EchoTimeout \in Nat /\ EchoTimeout > 0 /\ LoopPeriod \in Nat /\ LoopPeriod > 0
    /\ StaleSample \in Nat /\ MaxWidth \in Nat /\ Latency \in Nat
    /\ Delays \subseteq Nat /\ Widths \subseteq Nat
    /\ LongestRest \in Nat /\ Rests \subseteq 0..LongestRest
    /\ LongestHold \in Nat /\ Holds \subseteq 0..LongestHold
    /\ ReadBound \in Nat
    /\ First \in Rangers /\ Second \in Rangers
  BY TickAssumption DEF ReadBound, Rangers

\* How long the thread lets time pass.
LEMMA DueCases ==
    /\ pc \in Pausing => ThreadDue = left
    /\ pc \in Receiving /\ pulses[cur] # <<>> => ThreadDue = Latency - late
    /\ pc \in Receiving /\ pulses[cur] = <<>> => ThreadDue = EchoTimeout - waited
    /\ pc \notin Receiving \cup Pausing => ThreadDue = 0
  BY DEF ThreadDue, Armed, Receiving, Pausing

\* What Pass does to the time of one echo.
LEMMA TickStep ==
    ASSUME Types, NEW n, n \in Due \ {0}, \A due \in Due : n <= due
    PROVE  /\ n \in Nat /\ n > 0
           /\ n <= ThreadDue
           /\ \A r \in Rangers : echo[r].line # "quiet" => n <= echo[r].left
           /\ pc \in Receiving \cup Pausing
  <1>1. ThreadDue \in Nat
    BY ConstantTypes, DueCases DEF Types
  <1>2. \A r \in Rangers : echo[r].left \in Nat
    BY DEF Types, EchoLine
  <1>3. n \in Nat /\ n > 0
    BY <1>1, <1>2 DEF Due
  <1>4. n <= ThreadDue
    BY DEF Due
  <1>5. \A r \in Rangers : echo[r].line # "quiet" => n <= echo[r].left
    BY DEF Due
  <1>6. pc \in Receiving \cup Pausing
    BY <1>3, <1>4, DueCases
  <1> QED BY <1>3, <1>4, <1>5, <1>6

\* Time passes while the thread waits only, up to what is due first.
LEMMA TickPasses ==
    ASSUME Types, Tick
    PROVE  \E n \in Nat :
              /\ n > 0 /\ n <= ThreadDue /\ Pass(n)
              /\ \A r \in Rangers : echo[r].line # "quiet" => n <= echo[r].left
              /\ pc \in Receiving \cup Pausing
  BY TickStep DEF Tick

\* A capped time stays within its cap.
LEMMA CappedInRange ==
    ASSUME NEW n \in Nat, NEW bound \in Nat
    PROVE  Capped(n, bound) \in 0..bound /\ Capped(n, bound) <= n
  BY DEF Capped

\* The first pulse of a queue, and what is left behind it.
LEMMA QueueTypes ==
    ASSUME NEW queue \in Seq(Edge), queue # <<>>
    PROVE  Head(queue) \in Edge /\ Tail(queue) \in Seq(Edge) /\ Len(Tail(queue)) = Len(queue) - 1
  OBVIOUS

\* A queue may be replaced by any other.
LEMMA PulseTypes ==
    ASSUME Types
    PROVE  /\ pulses[cur] \in Seq(Edge) /\ <<>> \in Seq(Edge)
           /\ \A queue \in Seq(Edge) :
                 [pulses EXCEPT ![cur] = queue] \in [Rangers -> Seq(Edge)]
  BY DEF Types

-------------------------------------------------------------------------------
\* The types hold at first.
LEMMA InitTypes == Init => Types
  <1> SUFFICES ASSUME Init PROVE Types
    OBVIOUS
  <1> USE ConstantTypes DEF Init
  <1>1. echo \in [Rangers -> EchoLine]
    BY DEF EchoLine, Quiet, Calls
  <1>2. taken \in Seq(Edge) /\ pulses \in [Rangers -> Seq(Edge)]
    OBVIOUS
  <1>3. age \in [Rangers -> 0..(StaleSample + 1)] /\ misses \in [Rangers -> 0..2]
    OBVIOUS
  <1>4. pc \in Steps /\ cur \in Rangers /\ handles \in [Rangers -> SUBSET {"chid", "coid"}]
    BY DEF Steps, InitSteps
  <1> QED BY <1>1, <1>2, <1>3, <1>4 DEF Types

\* What ends a read, too.
LEMMA ReturnTypes ==
    ASSUME Types, Return
    PROVE  /\ pc' \in {"drain", "rest"} /\ cur' \in Rangers
           /\ waited' = 0 /\ late' = 0 /\ elapsed' = 0 /\ spent' = 0 /\ taken' = <<>>
           /\ left' \in 0..LongestRest
           /\ pc' \in Steps /\ left' \in Nat /\ taken' \in Seq(Edge)
           /\ waited' \in 0..EchoTimeout /\ late' \in 0..Latency
           /\ elapsed' \in 0..(ReadBound + 1) /\ spent' \in 0..(ReadBound + 1)
  <1>1. left' \in 0..LongestRest
    <2>1. Rests \subseteq 0..LongestRest /\ 0 \in 0..LongestRest
      BY ConstantTypes
    <2> QED BY <2>1 DEF Return
  <1>2. pc' \in {"drain", "rest"} /\ cur' \in Rangers
    BY ConstantTypes DEF Return
  <1>3. left' \in Nat /\ pc' \in Steps
    BY <1>1, <1>2, ConstantTypes DEF Steps, Pausing, Computing
  <1> QED BY <1>1, <1>2, <1>3, ConstantTypes DEF Return

\* What a failed read leaves behind.
LEMMA GiveUpTypes ==
    ASSUME Types, GiveUp
    PROVE  misses' \in [Rangers -> 0..2] /\ age' = age /\ handles' = handles /\ Return
  <1>1. misses \in [Rangers -> 0..2] /\ cur \in Rangers
    BY DEF Types
  <1>2. Capped(misses[cur] + 1, 2) \in 0..2
    BY <1>1 DEF Capped
  <1> QED BY <1>1, <1>2 DEF GiveUp

\* A turned echo is an echo.
LEMMA TurnedType ==
    ASSUME NEW e \in EchoLine, NEW line \in {"quiet", "flying", "high"}, NEW next \in Nat,
           NEW call \in Calls
    PROVE  Turned(e, line, next, call) \in EchoLine
  BY DEF Turned, EchoLine

\* A trigger keeps the types of lines and queues.
LEMMA PingTypes ==
    ASSUME Types, Ping
    PROVE  echo' \in [Rangers -> EchoLine] /\ pulses' \in [Rangers -> Seq(Edge)]
  <1>1. [i \in DOMAIN pulses[cur] |-> Stale(pulses[cur][i])] \in Seq(Edge)
    <2>1. pulses[cur] \in Seq(Edge)
      BY PulseTypes
    <2>2. \A pulse \in Edge : Stale(pulse) \in Edge
      BY DEF Edge, Calls, Stale
    <2>3. \A i \in DOMAIN pulses[cur] : Stale(pulses[cur][i]) \in Edge
      BY <2>1, <2>2
    <2> HIDE DEF Edge
    <2> QED BY <2>1, <2>3
  <1>2. pulses' \in [Rangers -> Seq(Edge)]
    BY <1>1, PulseTypes DEF Ping
  <1>3. ASSUME NEW delay \in Delays, NEW width \in Widths
        PROVE  [line |-> "flying", left |-> delay, width |-> width, call |-> "this"] \in EchoLine
    BY ConstantTypes DEF EchoLine, Calls
  <1>4. echo[cur] \in EchoLine
    BY DEF Types
  <1>5. Turned(echo[cur], echo[cur].line, echo[cur].left, "other") \in EchoLine
    <2>1. echo[cur].line \in {"quiet", "flying", "high"} /\ echo[cur].left \in Nat /\ "other" \in Calls
      BY <1>4 DEF EchoLine, Calls
    <2> QED BY <1>4, <2>1, TurnedType
  <1>6. echo \in [Rangers -> EchoLine] /\ cur \in Rangers
    BY DEF Types
  <1>7. CASE echo[cur].line = "quiet" /\ \E delay \in Delays, width \in Widths :
                echo' = [echo EXCEPT ![cur] =
                            [line |-> "flying", left |-> delay, width |-> width, call |-> "this"]]
    BY <1>2, <1>3, <1>6, <1>7
  <1>8. CASE echo' = [echo EXCEPT ![cur] = Turned(echo[cur], echo[cur].line, echo[cur].left, "other")]
    BY <1>2, <1>5, <1>6, <1>8
  <1> QED BY <1>7, <1>8 DEF Ping

\* A pulse that is queued, or lost, keeps the types of the queues.
LEMMA NotifyTypes ==
    ASSUME Types, NEW r \in Rangers, NEW edge \in {"rise", "fall"}, Notify(r, edge)
    PROVE  pulses' \in [Rangers -> Seq(Edge)]
  <1>1. [edge |-> edge, call |-> echo[r].call, width |-> echo[r].width] \in Edge
    BY DEF Types, EchoLine, Edge
  <1>2. pulses[r] \in Seq(Edge)
    BY DEF Types
  <1>3. Append(pulses[r], [edge |-> edge, call |-> echo[r].call, width |-> echo[r].width]) \in Seq(Edge)
    BY <1>1, <1>2
  <1> QED BY <1>3 DEF Notify, Types

\* A reception keeps the types of the queue and of what is taken.
LEMMA ReceivedTypes ==
    ASSUME Types, Received
    PROVE  /\ taken' \in Seq(Edge) /\ pulses' \in [Rangers -> Seq(Edge)]
           /\ waited' = 0 /\ late' = 0
  <1>1. Head(pulses[cur]) \in Edge /\ Tail(pulses[cur]) \in Seq(Edge)
    BY PulseTypes, QueueTypes DEF Received
  <1>2. Append(taken, Head(pulses[cur])) \in Seq(Edge)
    BY <1>1 DEF Types
  <1> QED BY <1>1, <1>2, PulseTypes DEF Received

\* The passing of time keeps the types.
LEMMA PassTypes ==
    ASSUME Types, Budget, Tick
    PROVE  Types'
  <1>1. PICK n \in Due \ {0} : (\A due \in Due : n <= due) /\ Pass(n)
    BY DEF Tick
  <1>2. /\ n \in Nat /\ n > 0 /\ n <= ThreadDue
        /\ \A r \in Rangers : echo[r].line # "quiet" => n <= echo[r].left
        /\ pc \in Receiving \cup Pausing
    BY <1>1, TickStep
  <1>3. left' \in Nat
    BY <1>1, <1>2, DueCases DEF Pass, Types
  <1>4. waited' \in 0..EchoTimeout
    BY <1>1, <1>2, ConstantTypes DEF Pass, Types, Capped
  <1>5. late' \in 0..Latency
    BY <1>1, <1>2, DueCases, ConstantTypes DEF Pass, Types
  <1>6. elapsed' \in 0..(ReadBound + 1) /\ spent' \in 0..(ReadBound + 1)
    BY <1>1, <1>2, ConstantTypes DEF Pass, Types, Capped
  <1>7. age' \in [Rangers -> 0..(StaleSample + 1)]
    BY <1>1, <1>2, ConstantTypes DEF Pass, Types, Capped
  <1>8. ASSUME NEW r \in Rangers, echo[r].line # "quiet"
        PROVE  Turned(echo[r], echo[r].line, echo[r].left - n, echo[r].call) \in EchoLine
    <2>1. echo[r] \in EchoLine
      BY DEF Types
    <2>2. echo[r].line \in {"quiet", "flying", "high"} /\ echo[r].left \in Nat /\ echo[r].call \in Calls
      BY <2>1 DEF EchoLine
    <2>3. echo[r].left - n \in Nat
      BY <1>2, <1>8, <2>2
    <2> QED BY <2>1, <2>2, <2>3, TurnedType
  <1>9. echo' \in [Rangers -> EchoLine]
    <2>1. echo' = [r \in Rangers |->
                     IF echo[r].line = "quiet" THEN echo[r]
                     ELSE Turned(echo[r], echo[r].line, echo[r].left - n, echo[r].call)]
      BY <1>1 DEF Pass
    <2>2. \A r \in Rangers : echo[r] \in EchoLine
      BY DEF Types
    <2> QED BY <2>1, <2>2, <1>8
  <1>10. UNCHANGED <<pc, cur, handles, taken, misses, pulses>>
    BY <1>1 DEF Pass
  <1> QED BY <1>3, <1>4, <1>5, <1>6, <1>7, <1>9, <1>10 DEF Types

\* Every step keeps the types.
LEMMA TypesStep == Types /\ Budget /\ [Next]_vars => Types'
  <1> SUFFICES ASSUME Types, Budget, [Next]_vars PROVE Types'
    OBVIOUS
  <1> USE ConstantTypes
  <1>1. CASE SetUpPins
    BY <1>1 DEF SetUpPins, Types, Steps, InitSteps, readVars, bufferVars, worldVars
  <1>2. CASE CreateChannel
    <2>1. handles' \in [Rangers -> SUBSET {"chid", "coid"}]
      BY <1>2 DEF CreateChannel, Types
    <2> QED BY <1>2, <2>1 DEF CreateChannel, Types, Steps, InitSteps, readVars, bufferVars, worldVars
  <1>3. CASE AttachConnection
    <2>1. handles' \in [Rangers -> SUBSET {"chid", "coid"}]
      BY <1>3 DEF AttachConnection, Types
    <2> QED BY <1>3, <2>1 DEF AttachConnection, Types, Steps, InitSteps, readVars, bufferVars, worldVars
  <1>4. CASE AddEventDetect
    <2>1. PICK unasked \in {<<>>, <<"fall">>, <<"rise", "fall">>} :
             pulses' = [pulses EXCEPT ![cur] =
                          [i \in DOMAIN unasked |-> [edge |-> unasked[i], call |-> "other", width |-> 0]]]
      BY <1>4 DEF AddEventDetect
    <2>2. [i \in DOMAIN unasked |-> [edge |-> unasked[i], call |-> "other", width |-> 0]] \in Seq(Edge)
      <3>1. \A i \in DOMAIN unasked : [edge |-> unasked[i], call |-> "other", width |-> 0] \in Edge
        BY <2>1 DEF Edge, Calls
      <3>2. \E n \in Nat : DOMAIN unasked = 1..n
        BY <2>1
      <3> HIDE DEF Edge
      <3> QED BY <3>1, <3>2
    <2>3. pulses' \in [Rangers -> Seq(Edge)]
      BY <2>1, <2>2, PulseTypes
    <2> QED BY <1>4, <2>3 DEF AddEventDetect, Types, Steps, InitSteps, readVars, bufferVars
  <1>5. CASE SettleTrigger
    BY <1>5 DEF SettleTrigger, Types, Steps, InitSteps, Computing, readVars, bufferVars, worldVars
  <1>6. CASE InitFails
    <2>1. handles' \in [Rangers -> SUBSET {"chid", "coid"}]
      BY <1>6 DEF InitFails, Types
    <2> QED BY <1>6, <2>1 DEF InitFails, Types, Steps, readVars, bufferVars, worldVars
  <1>7. CASE Drain
    <2>1. pulses' \in [Rangers -> Seq(Edge)]
      BY <1>7, PulseTypes DEF Drain, Drained
    <2> QED BY <1>7, <2>1 DEF Drain, Types, Steps, Computing, readVars, bufferVars
  <1>8. CASE SendTrigger
    BY <1>8, PingTypes DEF SendTrigger, Types, Steps, Receiving, readVars, bufferVars
  <1>9. CASE SendTriggerFails
    BY <1>9, PingTypes, GiveUpTypes, ReturnTypes DEF SendTriggerFails, Types
  <1>10. CASE ReceiveRise
    BY <1>10, ReceivedTypes DEF ReceiveRise, Types, Steps, Receiving, bufferVars
  <1>11. CASE ReceiveFall
    BY <1>11, ReceivedTypes DEF ReceiveFall, Types, Steps, Computing, bufferVars
  <1>12. CASE ReceiveFallOutOfRange \/ ReadFails
    <2>1. pulses' \in [Rangers -> Seq(Edge)]
      <3>1. \/ pulses' = pulses
            \/ pulses[cur] # <<>> /\ pulses' = [pulses EXCEPT ![cur] = Tail(@)]
        BY <1>12 DEF ReceiveFallOutOfRange, ReadFails
      <3>2. pulses \in [Rangers -> Seq(Edge)]
        BY DEF Types
      <3>3. CASE pulses[cur] # <<>> /\ pulses' = [pulses EXCEPT ![cur] = Tail(@)]
        <4>1. pulses[cur] \in Seq(Edge)
          <5>1. cur \in Rangers
            BY DEF Types
          <5> QED BY <3>2, <5>1
        <4>2. Tail(pulses[cur]) \in Seq(Edge)
          <5> HIDE DEF Edge
          <5> QED BY <4>1, <3>3
        <4> QED BY <3>2, <3>3, <4>2
      <3> QED BY <3>1, <3>2, <3>3
    <2> QED BY <1>12, <2>1, GiveUpTypes, ReturnTypes DEF ReceiveFallOutOfRange, ReadFails, Types
  <1>13. CASE Expire
    BY <1>13, GiveUpTypes, ReturnTypes DEF Expire, Types, worldVars
  <1>14. CASE Deliver
    <2>1. age' \in [Rangers -> 0..(StaleSample + 1)] /\ misses' \in [Rangers -> 0..2]
      BY <1>14 DEF Deliver, Types, StampedNow
    <2> QED BY <1>14, <2>1, ReturnTypes DEF Deliver, Types, worldVars
  <1>15. CASE EndPoll
    BY <1>15 DEF EndPoll, Types, Steps, Computing, readVars, bufferVars, worldVars
  <1>16. CASE Send \/ Replied
    <2>1. left' \in Nat
      <3>1. CASE Send
        BY <3>1, ConstantTypes DEF Send
      <3>2. CASE Replied
        <4>1. left' = LoopPeriod
          BY <3>2 DEF Replied
        <4> QED BY <4>1, ConstantTypes
      <3> QED BY <1>16, <3>1, <3>2
    <2> QED BY <1>16, <2>1 DEF Send, Replied, Types, Steps, Pausing, readVars, bufferVars, worldVars
  <1>17. CASE Wake
    BY <1>17 DEF Wake, Types, Steps, Computing, readVars, bufferVars, worldVars
  <1>18. ASSUME NEW r \in Rangers, EchoRises(r)
         PROVE  Types'
    <2>1. echo[r] \in EchoLine
      BY DEF Types
    <2>2. echo[r].width \in Nat /\ echo[r].call \in Calls
      <3>1. echo[r].width \in Widths \cup {0} /\ echo[r].call \in Calls
        BY <2>1 DEF EchoLine
      <3>2. Widths \cup {0} \subseteq Nat
        BY ConstantTypes
      <3> QED BY <3>1, <3>2
    <2>3. Turned(echo[r], "high", echo[r].width, echo[r].call) \in EchoLine
      BY <2>1, <2>2, TurnedType
    <2>4. echo' \in [Rangers -> EchoLine]
      BY <1>18, <2>3 DEF EchoRises, Types
    <2>5. pulses' \in [Rangers -> Seq(Edge)]
      BY <1>18, NotifyTypes DEF EchoRises
    <2> QED BY <1>18, <2>4, <2>5 DEF EchoRises, Types, readVars, bufferVars
  <1>19. ASSUME NEW r \in Rangers, EchoFalls(r)
         PROVE  Types'
    <2>1. Quiet \in EchoLine
      BY DEF Quiet, EchoLine, Calls
    <2>2. echo' \in [Rangers -> EchoLine]
      BY <1>19, <2>1 DEF EchoFalls, Types
    <2>3. pulses' \in [Rangers -> Seq(Edge)]
      BY <1>19, NotifyTypes DEF EchoFalls
    <2> QED BY <1>19, <2>2, <2>3 DEF EchoFalls, Types, readVars, bufferVars
  <1>20. CASE Tick
    BY <1>20, PassTypes
  <1>21. CASE Exited \/ UNCHANGED vars
    BY <1>21 DEF Exited, vars, Types, readVars, bufferVars, worldVars
  <1> QED BY <1>1, <1>2, <1>3, <1>4, <1>5, <1>6, <1>7, <1>8, <1>9, <1>10, <1>11, <1>12, <1>13, <1>14,
             <1>15, <1>16, <1>17, <1>18, <1>19, <1>20, <1>21 DEF Next

-------------------------------------------------------------------------------
\* No time is spent at first.
LEMMA InitBudget == Init => Budget
  BY DEF Init, Budget

\* Every step keeps each reception within its time-out and latency.
LEMMA BudgetStep == Types /\ Budget /\ [Next]_vars => Budget'
  <1> SUFFICES ASSUME Types, Budget, [Next]_vars PROVE Budget'
    OBVIOUS
  <1>1. /\ waited \in 0..EchoTimeout /\ late \in 0..Latency
        /\ elapsed \in 0..(ReadBound + 1) /\ spent \in 0..(ReadBound + 1)
        /\ ReadBound = 2 * (EchoTimeout + Latency)
    BY DEF Types, ReadBound
  <1> USE ConstantTypes, <1>1
  <1>2. CASE \/ SetUpPins \/ CreateChannel \/ AttachConnection \/ AddEventDetect \/ SettleTrigger
             \/ InitFails \/ Drain \/ SendTrigger \/ EndPoll \/ Send \/ Replied \/ Wake
    BY <1>2 DEF SetUpPins, CreateChannel, AttachConnection, AddEventDetect, SettleTrigger, InitFails,
       Drain, SendTrigger, EndPoll, Send, Replied, Wake, InitSteps, readVars, bufferVars, worldVars, Budget
  <1>3. ASSUME Return
        PROVE  Budget'
    BY <1>3, ReturnTypes DEF Budget
  <1>4. CASE SendTriggerFails \/ ReceiveFallOutOfRange \/ Expire \/ ReadFails \/ Deliver
    BY <1>3, <1>4 DEF SendTriggerFails, ReceiveFallOutOfRange, Expire, ReadFails, Deliver, GiveUp
  <1>5. CASE ReceiveRise
    BY <1>5 DEF ReceiveRise, Received, Budget
  <1>6. CASE ReceiveFall
    BY <1>6 DEF ReceiveFall, Received, Budget
  <1>7. CASE \E r \in Rangers : EchoRises(r) \/ EchoFalls(r)
    BY <1>7 DEF EchoRises, EchoFalls, readVars, bufferVars, Budget
  <1>8. CASE Tick
    <2>1. PICK n \in Nat : n <= ThreadDue /\ Pass(n)
      BY <1>8, TickPasses
    <2>2. pc \in Receiving \cup Pausing
      BY <1>8, TickPasses
    <2>3. pc' = pc
      BY <2>1 DEF Pass
    <2>4. CASE pc \in Receiving
      <3>1. \/ waited' = waited + n /\ late' = late
            \/ waited' = waited /\ late' = late + n
        <4>1. CASE pulses[cur] = <<>>
          <5>1. n <= EchoTimeout - waited
            BY <2>1, <2>4, <4>1, DueCases
          <5> QED BY <2>1, <2>2, <2>4, <4>1, <5>1 DEF Pass, Capped
        <4>2. CASE pulses[cur] # <<>>
          BY <2>1, <2>2, <2>4, <4>2 DEF Pass
        <4> QED BY <4>1, <4>2
      <3>2. \/ spent' = spent + n
            \/ spent' = ReadBound + 1 /\ ReadBound + 1 < spent + n
        BY <2>1, <2>2, <2>4 DEF Pass, Capped
      <3>3. elapsed' <= spent'
        BY <2>1, <2>2, <2>4 DEF Pass, Capped, Stamped, Budget
      <3>5. CASE pc = "rise"
        BY <2>3, <3>1, <3>2, <3>3, <3>5 DEF Budget
      <3>6. CASE pc = "fall"
        BY <2>3, <3>1, <3>2, <3>3, <3>6 DEF Budget
      <3> QED BY <2>4, <3>5, <3>6 DEF Receiving
    <2>5. CASE pc \in Pausing
      BY <2>1, <2>2, <2>3, <2>5 DEF Pass, Budget, Pausing, Receiving, Stamped
    <2> QED BY <2>2, <2>4, <2>5
  <1>9. CASE Exited \/ UNCHANGED vars
    BY <1>9 DEF Exited, vars, readVars, Budget
  <1> QED BY <1>2, <1>4, <1>5, <1>6, <1>7, <1>8, <1>9 DEF Next

\* No read takes longer than two receptions.
LEMMA ReadWithin ==
    ASSUME Types, Budget
    PROVE  spent <= ReadBound /\ spent \in Nat
  BY ConstantTypes DEF Types, Budget, ReadBound

\* Time never passes beyond it.
LEMMA WithinTheRead ==
    ASSUME Types, Budget, pc \in Receiving, NEW n \in Nat, n <= ThreadDue
    PROVE  spent + n <= ReadBound
  <1>1. waited \in 0..EchoTimeout /\ late \in 0..Latency /\ spent \in Nat
    BY ConstantTypes DEF Types
  <1>2. n + waited + late <= EchoTimeout + Latency
    BY <1>1, DueCases, ConstantTypes
  <1>3. CASE pc = "rise"
    BY <1>1, <1>2, <1>3, ConstantTypes DEF Budget, ReadBound
  <1>4. CASE pc = "fall"
    BY <1>1, <1>2, <1>4, ConstantTypes DEF Budget, ReadBound
  <1> QED BY <1>3, <1>4 DEF Receiving

-------------------------------------------------------------------------------
\* Nothing is acquired at first.
LEMMA InitHandles == Init => Handles
  BY ConstantTypes DEF Init, Handles, HandlesMatch, Acquired, InitSteps

\* Every step of the start-up, failing or not, keeps the books of the handles.
LEMMA HandlesStep == Types /\ Handles /\ [Next]_vars => Handles'
  <1> SUFFICES ASSUME Types, Handles, [Next]_vars PROVE Handles'
    OBVIOUS
  <1>0. /\ handles \in [Rangers -> SUBSET {"chid", "coid"}] /\ pc \in Steps /\ cur \in Rangers
    BY DEF Types
  <1> USE ConstantTypes, <1>0 DEF Handles, HandlesMatch, InitSteps
  <1>1. CASE SetUpPins
    BY <1>1 DEF SetUpPins, Acquired
  <1>2. CASE CreateChannel
    BY <1>2 DEF CreateChannel, Acquired
  <1>3. CASE AttachConnection
    BY <1>3 DEF AttachConnection, Acquired
  <1>4. CASE AddEventDetect
    BY <1>4 DEF AddEventDetect, Acquired
  <1>5. CASE SettleTrigger
    BY <1>5 DEF SettleTrigger, Acquired, Rangers
  <1>6. CASE InitFails
    <2>1. Released(pc) = Acquired
      BY <1>6 DEF InitFails, Released, Acquired
    <2> QED BY <1>6, <2>1 DEF InitFails
  <1>7. ASSUME pc \notin InitSteps, pc # "exit", handles' = handles, pc' \notin InitSteps, pc' # "exit"
        PROVE  Handles'
    BY <1>7
  <1>8. ASSUME Return, handles' = handles, pc \notin InitSteps, pc # "exit"
        PROVE  Handles'
    BY <1>7, <1>8 DEF Return
  <1>9. CASE Drain \/ SendTrigger \/ ReceiveRise \/ ReceiveFall \/ EndPoll \/ Send \/ Replied \/ Wake
    BY <1>7, <1>9 DEF Drain, SendTrigger, ReceiveRise, ReceiveFall, EndPoll, Send, Replied, Wake
  <1>10. CASE SendTriggerFails \/ ReceiveFallOutOfRange \/ Expire \/ ReadFails \/ Deliver
    BY <1>8, <1>10 DEF SendTriggerFails, ReceiveFallOutOfRange, Expire, ReadFails, Deliver, GiveUp, Armed, Receiving
  <1>11. CASE (\E r \in Rangers : EchoRises(r) \/ EchoFalls(r)) \/ Tick \/ Exited \/ UNCHANGED vars
    <2>1. UNCHANGED <<pc, cur, handles>>
      BY <1>11 DEF EchoRises, EchoFalls, Tick, Pass, Exited, vars
    <2> QED BY <2>1 DEF Acquired
  <1> QED BY <1>1, <1>2, <1>3, <1>4, <1>5, <1>6, <1>9, <1>10, <1>11 DEF Next

-------------------------------------------------------------------------------
\* Where a cycle is at most, at each of its steps.
LEMMA ProgressBounds ==
    ASSUME Types, Budget, Freshness, pc \in Polling
    PROVE  /\ Progress \in Nat
           /\ pc \in Reading /\ cur = First => Progress = spent
           /\ pc \in Reading /\ cur = Second => Progress = ReadBound + spent
           /\ pc = "rest" => Progress = 2 * ReadBound + LongestRest - left
           /\ pc = "send" => Progress = 2 * ReadBound + LongestRest
           /\ pc = "reply" => Progress = 2 * ReadBound + LongestRest + LongestHold - left
           /\ pc = "sleep" => Progress = CycleBound - left
  BY ConstantTypes, ReadWithin
     DEF Progress, CycleBound, Reading, Polling, Pausing, Types, Freshness, Rangers

\* There is no sample at first.
LEMMA InitFreshness == Init => Freshness
  BY DEF Init, Freshness, InitSteps, Polling, Reading, Pausing

\* Every step keeps the samples as fresh as the cycle has come far.
LEMMA FreshnessStep == Types /\ Budget /\ Freshness /\ [Next]_vars => Freshness'
  <1> SUFFICES ASSUME Types, Budget, Freshness, [Next]_vars PROVE Freshness'
    OBVIOUS
  <1>0. /\ age \in [Rangers -> 0..(StaleSample + 1)] /\ misses \in [Rangers -> 0..2]
        /\ left \in Nat /\ cur \in Rangers /\ pc \in Steps
    BY DEF Types
  <1> USE ConstantTypes, <1>0
  <1>1. CASE SetUpPins \/ CreateChannel \/ AttachConnection \/ AddEventDetect \/ SettleTrigger \/ InitFails
    BY <1>1 DEF SetUpPins, CreateChannel, AttachConnection, AddEventDetect, SettleTrigger, InitFails,
       InitSteps, Polling, Reading, Pausing, bufferVars, Freshness
  <1>2. CASE Drain \/ SendTrigger \/ ReceiveRise \/ ReceiveFall
    BY <1>2 DEF Drain, SendTrigger, ReceiveRise, ReceiveFall, readVars, bufferVars, Received, Freshness,
       Progress, Done, Reading, Polling, Pausing, InitSteps
  <1>3. CASE EndPoll
    BY <1>3 DEF EndPoll, readVars, bufferVars, Freshness, Progress, Done, Reading, Polling, Pausing, InitSteps
  <1>4. CASE Send \/ Replied
    <2>1. pc \in {"send", "reply"} /\ pc' \in {"reply", "sleep"}
      BY <1>4 DEF Send, Replied
    <2>2. cur' = cur /\ age' = age /\ misses' = misses /\ spent' = spent
      BY <1>4 DEF Send, Replied, readVars, bufferVars
    <2>3. left' \in Nat
      <3>1. CASE Send
        BY <3>1 DEF Send
      <3>2. CASE Replied
        BY <3>2 DEF Replied
      <3> QED BY <1>4, <3>1, <3>2
    <2>4. Progress' >= Progress /\ Progress' \in Nat /\ Progress \in Nat
      <3>1. CASE Send
        <4>1. pc = "send" /\ pc' = "reply" /\ left' \in 0..LongestHold
          BY <3>1 DEF Send
        <4>2. Progress = 2 * ReadBound + LongestRest
          BY <4>1, ProgressBounds DEF Polling, Pausing
        <4>3. Progress' = 2 * ReadBound + LongestRest + LongestHold - left'
          BY <4>1 DEF Progress, Reading
        <4>4. 2 * ReadBound + LongestRest \in Nat
          BY <4>1, <4>2, ProgressBounds DEF Polling, Pausing
        <4>5. LongestHold - left' \in Nat
          <5>1. \A h \in 0..LongestHold : LongestHold - h \in Nat
            OBVIOUS
          <5> QED BY <4>1, <5>1
        <4> HIDE DEF ReadBound
        <4> QED BY <4>2, <4>3, <4>4, <4>5
      <3>2. CASE Replied
        <4>1. pc = "reply" /\ left = 0 /\ pc' = "sleep" /\ left' = LoopPeriod
          BY <3>2 DEF Replied
        <4>2. Progress = 2 * ReadBound + LongestRest + LongestHold
          BY <4>1, ProgressBounds DEF Polling, Pausing
        <4>3. Progress' = CycleBound - LoopPeriod
          BY <4>1 DEF Progress, Reading
        <4>4. CycleBound - LoopPeriod = 2 * ReadBound + LongestRest + LongestHold
          BY ReadWithin DEF CycleBound
        <4> QED BY <4>2, <4>3, <4>4, ReadWithin
      <3> QED BY <1>4, <3>1, <3>2
    <2>5. \A r \in Rangers : Done(r) /\ Done(r)'
      BY <2>1 DEF Done, Reading
    <2>6. \A r \in Rangers : /\ misses[r] = 0 => age[r] <= Progress - ReadBy(r)
                             /\ misses[r] = 1 => age[r] <= CycleBound - ReadBy(r) + Progress
      BY <2>1, <2>5 DEF Freshness, Polling, Pausing
    <2>7. CycleBound \in Int /\ \A r \in Rangers : ReadBy(r) \in Int /\ age[r] \in Int
      BY DEF CycleBound, ReadBy, Types
    <2>8. \A r \in Rangers : /\ misses'[r] = 0 => age'[r] <= Progress' - ReadBy(r)
                             /\ misses'[r] = 1 => age'[r] <= CycleBound - ReadBy(r) + Progress'
      BY <2>2, <2>4, <2>6, <2>7
    <2>9. /\ pc' = "reply" => left' <= LongestHold
          /\ pc' = "sleep" => left' <= LoopPeriod
      <3>1. CASE Send
        BY <3>1 DEF Send
      <3>2. CASE Replied
        BY <3>2 DEF Replied
      <3> QED BY <1>4, <3>1, <3>2
    <2>10. cur = First
      BY <2>1 DEF Freshness, Pausing
    <2>11. /\ pc' \in InitSteps \cup {"exit"} => \A r \in Rangers : misses'[r] = 2
           /\ pc' = "rest" => left' <= LongestRest
           /\ pc' \in Pausing \cup {"send"} => cur' = First
      BY <2>1, <2>2, <2>10 DEF InitSteps
    <2>12. \A r \in Rangers :
             /\ misses'[r] = 0 /\ Done(r)' => age'[r] <= Progress' - ReadBy(r)
             /\ misses'[r] = 0 /\ ~Done(r)' => age'[r] <= CycleBound - ReadBy(r) + Progress'
             /\ misses'[r] = 1 /\ Done(r)' => age'[r] <= CycleBound - ReadBy(r) + Progress'
      <3> SUFFICES ASSUME NEW r \in Rangers
                   PROVE  /\ misses'[r] = 0 => age'[r] <= Progress' - ReadBy(r)
                          /\ misses'[r] = 1 => age'[r] <= CycleBound - ReadBy(r) + Progress'
        BY <2>5, Zenon
      <3> QED BY <2>8
    <2> QED BY <2>9, <2>11, <2>12 DEF Freshness
  <1>5. CASE Wake
    <2>1. pc = "sleep" /\ left = 0 /\ cur = First /\ spent = 0
      BY <1>5 DEF Wake, Freshness, Budget, Pausing
    <2>2. Progress = CycleBound
      BY <2>1, ProgressBounds DEF CycleBound, Polling, Pausing
    <2>3. pc' = "drain" /\ cur' = First /\ age' = age /\ misses' = misses /\ spent' = 0
      BY <1>5, <2>1 DEF Wake, readVars, bufferVars
    <2>4. Progress' = 0
      BY <2>3 DEF Progress, Reading
    <2>5. \A r \in Rangers : Done(r) /\ ~Done(r)'
      BY <2>1, <2>3 DEF Done, Reading
    <2>6. \A r \in Rangers : misses[r] = 0 => age[r] <= CycleBound - ReadBy(r)
      BY <2>1, <2>2, <2>5 DEF Freshness, Polling, Pausing
    <2>7. \A r \in Rangers : CycleBound - ReadBy(r) \in Int
      BY DEF CycleBound, ReadBy
    <2> QED BY <2>3, <2>4, <2>5, <2>6, <2>7 DEF Freshness, InitSteps, Pausing
  <1>6. CASE (\E r \in Rangers : EchoRises(r) \/ EchoFalls(r)) \/ Exited \/ UNCHANGED vars
    BY <1>6 DEF EchoRises, EchoFalls, Exited, vars, readVars, bufferVars, Freshness, Progress, Done
  <1>7. ASSUME pc \in Reading, Return, NEW m \in [Rangers -> 0..2], misses' = m,
               age' \in [Rangers -> 0..(StaleSample + 1)],
               \A r \in Rangers : \/ r # cur /\ m[r] = misses[r] /\ age'[r] = age[r]
                                  \/ r = cur /\ m[r] = 0 /\ age'[r] = 0
                                  \/ r = cur /\ m[r] = 1 /\ misses[r] = 0 /\ age'[r] = age[r]
                                  \/ r = cur /\ m[r] = 2
        PROVE  Freshness'
    <2>1. spent \in Nat /\ spent <= ReadBound /\ pc \in Polling
      BY <1>7, ReadWithin DEF Polling
    <2>2. spent' = 0 /\ left' \in 0..LongestRest
      BY <1>7, ReturnTypes
    <2>3. CASE cur = First
      <3>1. cur' = Second /\ pc' = "drain"
        BY <1>7, <2>3 DEF Return
      <3>2. Progress = spent /\ Progress' = ReadBound
        BY <1>7, <2>1, <2>2, <2>3, <3>1, ProgressBounds DEF Progress, Reading
      <3>3. ~Done(First) /\ ~Done(Second) /\ Done(First)' /\ ~Done(Second)'
        BY <1>7, <2>3, <3>1 DEF Done, Reading
      <3>4. /\ misses[First] = 0 => age[First] <= CycleBound - ReadBound + spent
            /\ misses[Second] = 0 => age[Second] <= CycleBound - 2 * ReadBound + spent
        BY <2>1, <3>2, <3>3 DEF Freshness, ReadBy
      <3>5. /\ misses'[First] = 0 => age'[First] <= 0
            /\ misses'[First] = 1 => age'[First] <= CycleBound - ReadBound + ReadBound
            /\ misses'[Second] = 0 => age'[Second] <= CycleBound - 2 * ReadBound + ReadBound
        BY <1>7, <2>1, <2>3, <3>4 DEF CycleBound
      <3> QED BY <3>1, <3>2, <3>3, <3>5 DEF Freshness, ReadBy, Rangers, InitSteps, Pausing
    <2>4. CASE cur = Second
      <3>1. cur' = First /\ pc' = "rest"
        BY <1>7, <2>4 DEF Return
      <3>2. Progress = ReadBound + spent /\ Progress' = 2 * ReadBound + LongestRest - left'
        BY <1>7, <2>1, <2>2, <2>4, <3>1, ProgressBounds DEF Progress, Reading
      <3>3. Done(First) /\ ~Done(Second) /\ Done(First)' /\ Done(Second)'
        BY <1>7, <2>4, <3>1 DEF Done, Reading
      <3>4. /\ misses[First] = 0 => age[First] <= spent
            /\ misses[First] = 1 => age[First] <= CycleBound + spent
            /\ misses[Second] = 0 => age[Second] <= CycleBound - ReadBound + spent
        BY <2>1, <3>2, <3>3 DEF Freshness, ReadBy, CycleBound
      <3>5. /\ misses'[First] = 0 => age'[First] <= ReadBound
            /\ misses'[First] = 1 => age'[First] <= CycleBound + ReadBound
            /\ misses'[Second] = 0 => age'[Second] <= 0
            /\ misses'[Second] = 1 => age'[Second] <= CycleBound
        BY <1>7, <2>1, <2>4, <3>4 DEF CycleBound
      <3>6. PICK rest \in 0..LongestRest : left' = rest
        BY <2>2
      <3>7. PICK progress \in Nat : Progress' = progress /\ progress >= 2 * ReadBound
        BY <3>2, <3>6
      <3>8. PICK a \in [Rangers -> 0..(StaleSample + 1)] : age' = a
        BY <1>7
      <3>9. \A r \in Rangers : /\ m[r] = 0 => a[r] <= progress - ReadBy(r)
                               /\ m[r] = 1 => a[r] <= CycleBound - ReadBy(r) + progress
        BY <1>7, <3>5, <3>7, <3>8 DEF ReadBy, Rangers, CycleBound
      <3>10. left' <= LongestRest
        BY <2>2
      <3> QED BY <1>7, <3>1, <3>3, <3>7, <3>8, <3>9, <3>10 DEF Freshness, Rangers, InitSteps, Pausing
    <2> QED BY <2>3, <2>4 DEF Rangers
  <1>8. CASE SendTriggerFails \/ ReceiveFallOutOfRange \/ Expire \/ ReadFails
    <2>1. GiveUp /\ pc \in Reading
      BY <1>8 DEF SendTriggerFails, ReceiveFallOutOfRange, Expire, ReadFails, Armed, Receiving, Reading
    <2>2. misses' \in [Rangers -> 0..2] /\ age' = age /\ Return
      BY <2>1, GiveUpTypes
    <2>3. \A r \in Rangers : \/ r # cur /\ misses'[r] = misses[r]
                             \/ r = cur /\ misses'[r] = 1 /\ misses[r] = 0
                             \/ r = cur /\ misses'[r] = 2
      BY <2>1 DEF GiveUp, Capped
    <2> QED BY <1>7, <2>1, <2>2, <2>3
  <1>9. CASE Deliver
    <2>1. /\ misses' \in [Rangers -> 0..2] /\ age' \in [Rangers -> 0..(StaleSample + 1)]
          /\ Return /\ pc \in Reading
      BY <1>9 DEF Deliver, Reading, StampedNow
    <2>2. \A r \in Rangers : \/ r # cur /\ misses'[r] = misses[r] /\ age'[r] = age[r]
                             \/ r = cur /\ misses'[r] = 0 /\ age'[r] = 0
      BY <1>9 DEF Deliver, StampedNow
    <2> QED BY <1>7, <2>1, <2>2
  <1>10. CASE Tick
    <2>1. PICK n \in Nat : n <= ThreadDue /\ Pass(n)
      BY <1>10, TickPasses
    <2>2. pc \in Receiving \cup Pausing
      BY <1>10, TickPasses
    <2>3. pc' = pc /\ cur' = cur /\ misses' = misses
      BY <2>1 DEF Pass
    <2>4. PICK a \in [Rangers -> Nat] : age' = a /\ \A r \in Rangers : a[r] <= age[r] + n
      <3>1. DEFINE a == [r \in Rangers |-> Capped(age[r] + n, StaleSample + 1)]
      <3>2. \A r \in Rangers : age[r] + n \in Nat
        OBVIOUS
      <3>3. \A r \in Rangers : Capped(age[r] + n, StaleSample + 1) \in Nat
                              /\ Capped(age[r] + n, StaleSample + 1) <= age[r] + n
        BY <3>2 DEF Capped
      <3>4. a \in [Rangers -> Nat] /\ \A r \in Rangers : a[r] <= age[r] + n
        BY <3>3
      <3>5. age' = a
        BY <2>1 DEF Pass
      <3> QED BY <3>4, <3>5
    <2>7. CASE pc \in Receiving
      <3>1. spent' = spent + n
        BY <2>1, <2>7, WithinTheRead, ConstantTypes DEF Pass, Capped, Types
      <3>2. Progress' = Progress + n
        BY <2>3, <2>7, <3>1, ReadWithin DEF Progress, Reading, Receiving
      <3>3. \A r \in Rangers : Done(r)' = Done(r)
        BY <2>3 DEF Done
      <3>4. Progress \in Nat /\ pc \in Polling
        BY <2>7, ProgressBounds DEF Polling, Reading, Receiving
      <3> QED BY <2>3, <2>4, <2>7, <3>2, <3>3, <3>4 DEF Freshness, Receiving, InitSteps, Pausing, Reading, CycleBound, ReadBy
    <2>8. CASE pc \in Pausing
      <3>1. left' = left - n /\ n <= left
        BY <2>1, <2>8, DueCases DEF Pass
      <3>2. Progress' = Progress + n
        BY <2>3, <2>8, <3>1, ProgressBounds DEF Progress, Reading, Pausing, CycleBound, Polling
      <3>3. \A r \in Rangers : Done(r)' = Done(r)
        BY <2>3 DEF Done
      <3>4. Progress \in Nat /\ pc \in Polling
        BY <2>8, ProgressBounds DEF Polling
      <3> QED BY <2>3, <2>4, <2>8, <3>1, <3>2, <3>3, <3>4 DEF Freshness, Receiving, InitSteps, Pausing, Reading, CycleBound, ReadBy
    <2> QED BY <2>2, <2>7, <2>8
  <1> QED BY <1>1, <1>2, <1>3, <1>4, <1>5, <1>6, <1>8, <1>9, <1>10 DEF Next

-------------------------------------------------------------------------------
\* The fields of an echo have their types.
LEMMA EchoFields ==
    ASSUME NEW e \in EchoLine
    PROVE  /\ e.line \in {"quiet", "flying", "high"}
           /\ e.left \in Nat /\ e.width \in Nat /\ e.call \in Calls
           /\ Remaining(e) \in Nat
  <1>1. e.line \in {"quiet", "flying", "high"}
    BY DEF EchoLine
  <1>2. e.left \in Nat
    BY DEF EchoLine
  <1>3. e.width \in Nat
    <2>1. e.width \in Widths \cup {0}
      BY DEF EchoLine
    <2>2. Widths \cup {0} \subseteq Nat
      BY ConstantTypes
    <2> QED BY <2>1, <2>2
  <1>4. e.call \in Calls
    BY DEF EchoLine
  <1> QED BY <1>1, <1>2, <1>3, <1>4 DEF Remaining

\* How each kind of step keeps a line and its queue settled.
LEMMA FewerSettled ==
    ASSUME NEW e \in EchoLine, NEW queue \in Seq(Edge), Settled(e, queue)
    PROVE  /\ Settled(e, <<>>)
           /\ queue # <<>> => Settled(e, Tail(queue))
  <1>1. Len(<<>>) = 0 /\ Len(queue) \in Nat
    OBVIOUS
  <1>2. queue # <<>> => Len(Tail(queue)) = Len(queue) - 1
    BY QueueTypes
  <1>3. EdgesLeft(e) \in 0..2
    BY DEF EdgesLeft
  <1> QED BY <1>1, <1>2, <1>3 DEF Settled

\* A quiet line with up to two pulses is settled.
LEMMA QuietSettled ==
    ASSUME NEW e, NEW queue, Len(queue) \in 0..2, EdgesLeft(e) = 0, Remaining(e) < LoopPeriod
    PROVE  Settled(e, queue)
  BY DEF Settled

\* So is a line that was just triggered.
LEMMA FlyingSettled ==
    ASSUME NEW delay \in Delays, NEW width \in Widths, NEW call
    PROVE  Settled([line |-> "flying", left |-> delay, width |-> width, call |-> call], <<>>)
  <1>1. Len(<<>>) = 0
    OBVIOUS
  <1>2. delay + width < LoopPeriod
    BY EchoAssumption
  <1> QED BY <1>1, <1>2 DEF Settled, Remaining, EdgesLeft

\* So is one that rises,
LEMMA RisingSettled ==
    ASSUME NEW e \in EchoLine, NEW queue \in Seq(Edge), Settled(e, queue),
           e.line = "flying", e.left = 0
    PROVE  LET turned == Turned(e, "high", e.width, e.call) IN
           /\ Settled(turned, queue)
           /\ \A pulse \in Edge : Settled(turned, Append(queue, pulse))
           /\ Remaining(turned) = Remaining(e)
  <1> DEFINE turned == Turned(e, "high", e.width, e.call)
  <1>1. turned.line = "high" /\ turned.left = e.width /\ e.width \in Nat
    BY EchoFields DEF Turned
  <1>2. Remaining(turned) = e.width /\ EdgesLeft(turned) = 1
    BY <1>1 DEF Remaining, EdgesLeft
  <1>3. Remaining(e) = e.width /\ EdgesLeft(e) = 2
    BY <1>1 DEF Remaining, EdgesLeft
  <1>4. \A pulse \in Edge : Len(Append(queue, pulse)) = Len(queue) + 1
    OBVIOUS
  <1> HIDE DEF turned
  <1>5. Len(queue) \in Nat
    OBVIOUS
  <1> QED BY <1>2, <1>3, <1>4, <1>5 DEF Settled, turned

\* one that falls,
LEMMA FallingSettled ==
    ASSUME NEW e \in EchoLine, NEW queue \in Seq(Edge), Settled(e, queue),
           e.line = "high", e.left = 0
    PROVE  Settled(Quiet, queue) /\ \A pulse \in Edge : Settled(Quiet, Append(queue, pulse))
  <1>1. Remaining(Quiet) = 0 /\ EdgesLeft(Quiet) = 0 /\ EdgesLeft(e) = 1
    BY DEF Remaining, EdgesLeft, Quiet
  <1>2. \A pulse \in Edge : Len(Append(queue, pulse)) = Len(queue) + 1
    OBVIOUS
  <1>3. Len(queue) \in Nat
    OBVIOUS
  <1> QED BY <1>1, <1>2, <1>3, ConstantTypes DEF Settled

\* and one that waits for its next edge.
LEMMA AgingSettled ==
    ASSUME NEW e \in EchoLine, NEW queue \in Seq(Edge), Settled(e, queue), NEW n \in Nat, n <= e.left
    PROVE  LET turned == Turned(e, e.line, e.left - n, e.call) IN
           /\ Settled(turned, queue)
           /\ turned.line = e.line
           /\ e.line # "quiet" => Remaining(turned) = Remaining(e) - n
  <1> DEFINE turned == Turned(e, e.line, e.left - n, e.call)
  <1>1. turned.line = e.line /\ turned.left = e.left - n /\ turned.width = e.width
    BY DEF Turned
  <1>2. EdgesLeft(turned) = EdgesLeft(e)
    BY <1>1 DEF EdgesLeft
  <1>3. e.line # "quiet" => Remaining(turned) = Remaining(e) - n
    BY <1>1, EchoFields DEF Remaining
  <1>4. e.line = "quiet" => Remaining(turned) = 0
    BY <1>1 DEF Remaining
  <1> HIDE DEF turned
  <1>5. Remaining(turned) < LoopPeriod
    BY <1>3, <1>4, EchoFields, ConstantTypes DEF Settled
  <1> QED BY <1>1, <1>2, <1>3, <1>5 DEF Settled, turned

\* When a ranger is triggered its line is quiet and its queue is empty.
LEMMA PingQuiet ==
    ASSUME Types, Quietness, pc = "trigger", Ping
    PROVE  /\ pulses' = pulses /\ pulses[cur] = <<>>
           /\ \A r \in Rangers : r # cur => echo'[r] = echo[r]
           /\ \/ \E delay \in Delays, width \in Widths :
                    echo'[cur] = [line |-> "flying", left |-> delay, width |-> width, call |-> "this"]
              \/ echo'[cur].line = "quiet"
           /\ \A r \in Rangers : Settled(echo'[r], pulses'[r])
  <1>1. cur \in Rangers /\ pulses \in [Rangers -> Seq(Edge)] /\ echo \in [Rangers -> EchoLine]
    BY DEF Types
  <1>2. pulses[cur] = <<>> /\ echo[cur].line = "quiet"
    BY DEF Quietness
  <1>3. [i \in DOMAIN pulses[cur] |-> Stale(pulses[cur][i])] = <<>>
    BY <1>2
  <1>4. pulses' = pulses
    BY <1>1, <1>2, <1>3 DEF Ping
  <1>5. \A r \in Rangers : r # cur => echo'[r] = echo[r]
    BY <1>1 DEF Ping
  <1>6. \/ \E delay \in Delays, width \in Widths :
              echo'[cur] = [line |-> "flying", left |-> delay, width |-> width, call |-> "this"]
        \/ echo'[cur] = Turned(echo[cur], "quiet", echo[cur].left, "other")
    BY <1>1, <1>2 DEF Ping
  <1>7. Turned(echo[cur], "quiet", echo[cur].left, "other").line = "quiet"
    BY DEF Turned
  <1>8. ASSUME NEW e, e.line = "quiet"
        PROVE  Settled(e, <<>>)
    <2>1. Len(<<>>) = 0
      OBVIOUS
    <2> QED BY <2>1, <1>8, ConstantTypes DEF Settled, Remaining, EdgesLeft
  <1>9. Settled(echo'[cur], <<>>)
    BY <1>6, <1>7, <1>8, FlyingSettled
  <1>10. \A r \in Rangers : Settled(echo'[r], pulses'[r])
    BY <1>2, <1>4, <1>5, <1>9 DEF Quietness
  <1> QED BY <1>2, <1>4, <1>5, <1>6, <1>7, <1>10

\* All lines are quiet at first.
LEMMA InitQuietness == Init => Quietness
  <1>1. Settled(Quiet, <<>>) /\ Quiet.line = "quiet"
    <2>1. Len(<<>>) = 0
      OBVIOUS
    <2> QED BY <2>1, ConstantTypes DEF Quiet, Settled, Remaining, EdgesLeft
  <1> QED BY <1>1, ConstantTypes DEF Init, Quietness, InitSteps, Reading

\* Every step keeps the echoes within their cycle.
LEMMA QuietnessStep == Types /\ Budget /\ Freshness /\ Quietness /\ [Next]_vars => Quietness'
  <1> SUFFICES ASSUME Types, Budget, Freshness, Quietness, [Next]_vars PROVE Quietness'
    OBVIOUS
  <1>0. /\ cur \in Rangers /\ pulses \in [Rangers -> Seq(Edge)] /\ echo \in [Rangers -> EchoLine]
        /\ left \in Nat
    BY DEF Types
  <1> USE ConstantTypes, <1>0
  <1> USE DEF InitSteps, Reading, Receiving, Pausing
  <1>1. CASE SetUpPins \/ CreateChannel \/ AttachConnection \/ SettleTrigger \/ InitFails
    BY <1>1 DEF SetUpPins, CreateChannel, AttachConnection, SettleTrigger, InitFails, worldVars, Quietness
  <1>2. CASE AddEventDetect
    <2>1. PICK unasked \in {<<>>, <<"fall">>, <<"rise", "fall">>} :
             pulses' = [pulses EXCEPT ![cur] =
                          [i \in DOMAIN unasked |-> [edge |-> unasked[i], call |-> "other", width |-> 0]]]
      BY <1>2 DEF AddEventDetect
    <2> DEFINE queue == [i \in DOMAIN unasked |-> [edge |-> unasked[i], call |-> "other", width |-> 0]]
    <2>2. Len(queue) \in 0..2
      <3>1. DOMAIN unasked = 1..0 \/ DOMAIN unasked = 1..1 \/ DOMAIN unasked = 1..2
        BY <2>1
      <3> QED BY <3>1
    <2> HIDE DEF queue
    <2>3. echo' = echo /\ pc' = "settle" /\ pc = "detect"
      BY <1>2 DEF AddEventDetect
    <2>4. Settled(echo[cur], queue)
      <3>1. EdgesLeft(echo[cur]) = 0
        BY <2>3 DEF Quietness, EdgesLeft
      <3>2. Remaining(echo[cur]) < LoopPeriod
        BY DEF Quietness, Settled
      <3> QED BY <2>2, <3>1, <3>2, QuietSettled
    <2>5. pulses' = [pulses EXCEPT ![cur] = queue]
      BY <2>1 DEF queue
    <2> QED BY <2>3, <2>4, <2>5 DEF Quietness
  <1>3. CASE Drain
    <2>1. pc' = "trigger" /\ cur' = cur /\ echo' = echo /\ pulses' = [pulses EXCEPT ![cur] = <<>>] /\ pc = "drain"
      BY <1>3 DEF Drain, Drained
    <2>2. Settled(echo[cur], <<>>)
      BY FewerSettled DEF Quietness
    <2> QED BY <2>1, <2>2 DEF Quietness
  <1>4. CASE SendTrigger
    BY <1>4, PingQuiet DEF SendTrigger, Quietness
  <1>5. CASE ReceiveRise \/ ReceiveFall
    <2>1. Settled(echo[cur], Tail(pulses[cur]))
      BY <1>5, FewerSettled DEF ReceiveRise, ReceiveFall, Received, Quietness
    <2> QED BY <1>5, <2>1 DEF ReceiveRise, ReceiveFall, Received, Quietness
  <1>6. ASSUME Return, pc \in Reading, \A r \in Rangers : Settled(echo'[r], pulses'[r]),
               \A r \in Rangers : r # cur => echo'[r] = echo[r]
        PROVE  Quietness'
    BY <1>6 DEF Return, Quietness
  <1>7. CASE SendTriggerFails
    BY <1>6, <1>7, PingQuiet DEF SendTriggerFails, GiveUp
  <1>8. CASE ReceiveFallOutOfRange \/ ReadFails
    <2>0. /\ GiveUp /\ pc \in Reading /\ echo' = echo
          /\ \/ pulses' = pulses
             \/ pulses[cur] # <<>> /\ pulses' = [pulses EXCEPT ![cur] = Tail(@)]
      BY <1>8 DEF ReceiveFallOutOfRange, ReadFails
    <2>1. pulses[cur] # <<>> => Settled(echo[cur], Tail(pulses[cur]))
      BY FewerSettled DEF Quietness
    <2>2. \A r \in Rangers : Settled(echo'[r], pulses'[r])
      BY <2>0, <2>1 DEF Quietness
    <2> QED BY <1>6, <2>0, <2>2 DEF GiveUp
  <1>9. CASE Expire \/ Deliver
    BY <1>6, <1>9 DEF Expire, Deliver, GiveUp, worldVars, Armed, Quietness
  <1>10. CASE EndPoll
    BY <1>10 DEF EndPoll, worldVars, Quietness
  <1>11. CASE Send \/ Replied
    BY <1>11 DEF Send, Replied, worldVars, Quietness, Settled
  <1>12. CASE Wake
    <2>1. \A r \in Rangers : echo[r].line = "quiet"
      BY <1>12, EchoFields DEF Wake, Quietness
    <2> QED BY <1>12, <2>1 DEF Wake, worldVars, Quietness
  <1>13. ASSUME NEW r \in Rangers, EchoRises(r)
         PROVE  Quietness'
    <2> DEFINE turned == Turned(echo[r], "high", echo[r].width, echo[r].call)
    <2>1. [edge |-> "rise", call |-> echo[r].call, width |-> echo[r].width] \in Edge
      BY DEF Edge, EchoLine
    <2>2. Settled(turned, pulses'[r]) /\ Remaining(turned) = Remaining(echo[r])
      BY <1>13, <2>1, RisingSettled DEF EchoRises, Notify, Quietness
    <2> HIDE DEF turned
    <2>3. echo' = [echo EXCEPT ![r] = turned] /\ echo[r].line = "flying"
      BY <1>13 DEF EchoRises, turned
    <2>4. \A q \in Rangers : q # r => pulses'[q] = pulses[q]
      BY <1>13 DEF EchoRises, Notify
    <2>5. UNCHANGED <<pc, cur, left>>
      BY <1>13 DEF EchoRises
    <2>6. \A q \in Rangers : Settled(echo'[q], pulses'[q])
      BY <2>2, <2>3, <2>4 DEF Quietness
    <2> QED BY <2>2, <2>3, <2>4, <2>5, <2>6 DEF Quietness
  <1>14. ASSUME NEW r \in Rangers, EchoFalls(r)
         PROVE  Quietness'
    <2>1. [edge |-> "fall", call |-> echo[r].call, width |-> echo[r].width] \in Edge
      BY DEF Edge, EchoLine
    <2>2. Settled(Quiet, pulses'[r]) /\ Quiet.line = "quiet"
      <3>1. Settled(echo[r], pulses[r]) /\ echo[r].line = "high" /\ echo[r].left = 0
        BY <1>14 DEF EchoFalls, Quietness
      <3>2. /\ Settled(Quiet, pulses[r])
            /\ Settled(Quiet, Append(pulses[r], [edge |-> "fall", call |-> echo[r].call, width |-> echo[r].width]))
        BY <2>1, <3>1, FallingSettled
      <3>3. Quiet.line = "quiet"
        BY DEF Quiet
      <3> HIDE DEF Quiet
      <3> QED BY <1>14, <3>2, <3>3 DEF EchoFalls, Notify
    <2>3. echo' = [echo EXCEPT ![r] = Quiet] /\ echo[r].line = "high"
      BY <1>14 DEF EchoFalls
    <2>4. \A q \in Rangers : q # r => pulses'[q] = pulses[q]
      BY <1>14 DEF EchoFalls, Notify
    <2>5. UNCHANGED <<pc, cur, left>>
      BY <1>14 DEF EchoFalls
    <2>6. \A q \in Rangers : Settled(echo'[q], pulses'[q])
      BY <2>2, <2>3, <2>4 DEF Quietness
    <2> QED BY <2>2, <2>3, <2>4, <2>5, <2>6 DEF Quietness
  <1>15. CASE Tick
    <2>1. PICK n \in Nat : /\ n <= ThreadDue /\ Pass(n)
                          /\ \A r \in Rangers : echo[r].line # "quiet" => n <= echo[r].left
      BY <1>15, TickPasses
    <2>2. UNCHANGED <<pc, cur, pulses>> /\ pc \in Receiving \cup Pausing
      BY <1>15, <2>1, TickPasses DEF Pass
    <2>3. \A r \in Rangers : /\ Settled(echo'[r], pulses[r])
                             /\ echo'[r].line = echo[r].line
                             /\ echo[r].line # "quiet" => Remaining(echo'[r]) = Remaining(echo[r]) - n
      BY <2>1, AgingSettled DEF Pass, Quietness
    <2>4. pc = "sleep" => left' = left - n
      BY <2>1 DEF Pass
    <2>5. pc = "sleep" => \A r \in Rangers : echo'[r].line # "quiet" => Remaining(echo'[r]) < left'
      <3> SUFFICES ASSUME pc = "sleep", NEW r \in Rangers, echo'[r].line # "quiet"
                   PROVE  Remaining(echo'[r]) < left'
        OBVIOUS
      <3>1. Remaining(echo[r]) < left /\ Remaining(echo[r]) \in Nat
        BY <2>3, EchoFields DEF Quietness
      <3>2. Remaining(echo'[r]) = Remaining(echo[r]) - n
        BY <2>3
      <3>3. left' = left - n
        BY <2>4
      <3> QED BY <3>1, <3>2, <3>3
    <2> QED BY <2>2, <2>3, <2>5 DEF Quietness
  <1>16. CASE Exited \/ UNCHANGED vars
    BY <1>16 DEF Exited, vars, worldVars, Quietness
  <1> QED BY <1>1, <1>2, <1>3, <1>4, <1>5, <1>7, <1>8, <1>9, <1>10, <1>11, <1>12, <1>13, <1>14,
             <1>15, <1>16 DEF Next

-------------------------------------------------------------------------------
\* The width of a pulse is a number.
LEMMA EdgeFields ==
    ASSUME NEW pulse \in Edge
    PROVE  pulse.width \in Nat
  <1>1. pulse.width \in Widths \cup {0}
    BY DEF Edge
  <1>2. Widths \cup {0} \subseteq Nat
    BY ConstantTypes
  <1> QED BY <1>1, <1>2

\* What the sum of the queued and the coming edges says of each.
LEMMA SumFacts ==
    ASSUME NEW m \in Nat, NEW k \in 0..2, m + k <= 2
    PROVE  /\ m <= 2
           /\ k = 1 => m = 0 \/ m = 1
           /\ k = 2 => m = 0
           /\ m = 2 => k = 0
           /\ m # 0 => (m = 1 \/ m = 2) /\ k # 2 /\ (m - 1) + k <= 1
  OBVIOUS

\* How many edges a line may still have.
LEMMA EdgesLeftCases ==
    ASSUME NEW e
    PROVE  /\ EdgesLeft(e) \in 0..2
           /\ e.line = "flying" => EdgesLeft(e) = 2
           /\ e.line = "high" => EdgesLeft(e) = 1
           /\ e.line \notin {"flying", "high"} => EdgesLeft(e) = 0
  BY DEF EdgesLeft

\* What a queue of none or one becomes with one more pulse.
LEMMA AppendFacts ==
    ASSUME NEW queue \in Seq(Edge), NEW pulse \in Edge
    PROVE  /\ Append(queue, pulse) # <<>>
           /\ Len(queue) = 0 => Len(Append(queue, pulse)) = 1 /\ Append(queue, pulse)[1] = pulse
           /\ Len(queue) = 1 => /\ Len(Append(queue, pulse)) = 2
                                /\ Append(queue, pulse)[1] = queue[1] /\ Append(queue, pulse)[2] = pulse
  <1>1. /\ Len(Append(queue, pulse)) = Len(queue) + 1 /\ Append(queue, pulse) # <<>>
        /\ Append(queue, pulse)[Len(queue) + 1] = pulse
        /\ \A i \in 1..Len(queue) : Append(queue, pulse)[i] = queue[i]
    OBVIOUS
  <1>2. 0 + 1 = 1 /\ 1 + 1 = 2 /\ 1 \in 1..1
    OBVIOUS
  <1> QED BY <1>1, <1>2, Zenon

\* What is behind the first pulse of a queue.
LEMMA TailFacts ==
    ASSUME NEW queue \in Seq(Edge), queue # <<>>
    PROVE  /\ Len(queue) \in Nat \ {0} /\ Len(Tail(queue)) = Len(queue) - 1
           /\ Head(queue) = queue[1] /\ queue[1] \in Edge
           /\ \A i \in 1..Len(queue) - 1 : Tail(queue)[i] = queue[i + 1] /\ queue[i + 1] \in Edge
  OBVIOUS

\* What a settled line says in numbers.
LEMMA SettledFacts ==
    ASSUME NEW e, NEW queue \in Seq(Edge), Settled(e, queue)
    PROVE  Len(queue) \in Nat /\ EdgesLeft(e) \in 0..2 /\ Len(queue) + EdgesLeft(e) <= 2
  <1>1. Len(queue) \in Nat
    OBVIOUS
  <1> QED BY <1>1, EdgesLeftCases, Zenon DEF Settled

\* The line falls before its rising edge is received.
LEMMA FallingTracked ==
    ASSUME NEW e \in EchoLine, NEW queue \in Seq(Edge), NEW l \in 0..Latency,
           Settled(e, queue), e.line = "high", e.left = 0, AwaitsRise(e, queue, l)
    PROVE  /\ AwaitsRise(Quiet, queue, l)
           /\ AwaitsRise(Quiet, Append(queue, [edge |-> "fall", call |-> e.call, width |-> e.width]), l)
  <1> DEFINE pulse == [edge |-> "fall", call |-> e.call, width |-> e.width]
  <1>1. pulse.edge = "fall" /\ pulse.call = "this" /\ pulse.width = e.width /\ e.width \in Nat
    BY EchoFields DEF AwaitsRise
  <1>2. Len(queue) \in 0..1
    <2>1. Len(queue) \in Nat /\ Len(queue) + EdgesLeft(e) <= 2 /\ EdgesLeft(e) \in 0..2 /\ EdgesLeft(e) = 1
      BY SettledFacts, EdgesLeftCases, Zenon
    <2>2. Len(queue) = 0 \/ Len(queue) = 1
      BY <2>1, SumFacts, Zenon
    <2> QED BY <2>2
  <1>7. pulse \in Edge
    BY DEF Edge, EchoLine
  <1>3. Quiet.line = "quiet"
    BY DEF Quiet
  <1>4. AwaitsRise(Quiet, queue, l)
    BY <1>2, <1>3 DEF AwaitsRise
  <1> HIDE DEF pulse
  <1>5. CASE Len(queue) = 0
    <2>1. Len(Append(queue, pulse)) = 1 /\ Append(queue, pulse)[1] = pulse /\ Append(queue, pulse) # <<>>
      BY <1>5, <1>7, AppendFacts, Zenon
    <2> QED BY <1>1, <1>3, <1>4, <2>1 DEF AwaitsRise, pulse
  <1>6. CASE Len(queue) = 1
    <2>1. Len(Append(queue, pulse)) = 2 /\ Append(queue, pulse)[1] = queue[1] /\ Append(queue, pulse)[2] = pulse
          /\ Append(queue, pulse) # <<>>
      BY <1>6, <1>7, AppendFacts, Zenon
    <2>2. queue[1].call = "this" /\ queue[1].edge = "rise" /\ queue[1].width = e.width /\ e.width = 0 + l
      BY <1>6 DEF AwaitsRise
    <2> HIDE DEF Quiet
    <2> QED BY <1>1, <1>3, <2>1, <2>2 DEF AwaitsRise, pulse
  <1> QED BY <1>2, <1>4, <1>5, <1>6 DEF pulse

\* The line rises.
LEMMA RisingTracked ==
    ASSUME NEW e \in EchoLine, NEW queue \in Seq(Edge), NEW l \in 0..Latency,
           Settled(e, queue), e.line = "flying", e.left = 0, AwaitsRise(e, queue, l)
    PROVE  LET turned == Turned(e, "high", e.width, e.call) IN
           /\ AwaitsRise(turned, queue, l)
           /\ AwaitsRise(turned, Append(queue, [edge |-> "rise", call |-> e.call, width |-> e.width]), l)
  <1> DEFINE pulse == [edge |-> "rise", call |-> e.call, width |-> e.width]
             turned == Turned(e, "high", e.width, e.call)
  <1>1. pulse.edge = "rise" /\ pulse.call = "this" /\ pulse.width = e.width /\ e.width \in Nat /\ e.call = "this"
    BY EchoFields DEF AwaitsRise
  <1>2. Len(queue) = 0 /\ queue = <<>>
    BY DEF Settled, EdgesLeft
  <1>3. turned.line = "high" /\ turned.call = "this" /\ turned.width = e.width /\ turned.left = e.width
    BY <1>1 DEF Turned
  <1>4. l = 0
    BY <1>2 DEF AwaitsRise
  <1>5. Len(Append(queue, pulse)) = 1 /\ Append(queue, pulse)[1] = pulse /\ Append(queue, pulse) # <<>>
    BY <1>2
  <1> HIDE DEF pulse, turned
  <1>6. AwaitsRise(turned, queue, l)
    BY <1>2, <1>3, <1>4 DEF AwaitsRise
  <1>7. AwaitsRise(turned, Append(queue, pulse), l)
    BY <1>1, <1>3, <1>4, <1>5 DEF AwaitsRise
  <1> QED BY <1>6, <1>7 DEF pulse, turned

\* The line falls while the read waits for it.
LEMMA FallingAwaited ==
    ASSUME NEW rise \in Edge, NEW e \in EchoLine, NEW queue \in Seq(Edge), NEW l \in 0..Latency, NEW t \in Nat,
           e.line = "high", e.left = 0, AwaitsFall(rise, e, queue, l, t)
    PROVE  /\ AwaitsFall(rise, Quiet, queue, l, t)
           /\ AwaitsFall(rise, Quiet, Append(queue, [edge |-> "fall", call |-> e.call, width |-> e.width]), l, t)
  <1> DEFINE pulse == [edge |-> "fall", call |-> e.call, width |-> e.width]
  <1>1. pulse.edge = "fall" /\ pulse.call = "this" /\ pulse.width = e.width /\ e.width \in Nat
    BY EchoFields DEF AwaitsFall
  <1>2. Len(queue) = 0 /\ queue = <<>>
    BY DEF AwaitsFall, EdgesLeft
  <1>3. Quiet.line = "quiet" /\ EdgesLeft(Quiet) = 0
    BY DEF Quiet, EdgesLeft
  <1>4. /\ l = 0 /\ rise.call = "this" /\ rise.edge = "rise" /\ rise.width = e.width
        /\ t <= e.width /\ e.width <= t + Latency
    BY <1>1, <1>2, ConstantTypes DEF AwaitsFall
  <1>5. Len(Append(queue, pulse)) = 1 /\ Append(queue, pulse)[1] = pulse /\ Append(queue, pulse) # <<>>
    BY <1>2
  <1> HIDE DEF pulse, Quiet
  <1>6. AwaitsFall(rise, Quiet, queue, l, t)
    BY <1>2, <1>3, <1>4 DEF AwaitsFall
  <1>7. AwaitsFall(rise, Quiet, Append(queue, pulse), l, t)
    BY <1>1, <1>3, <1>4, <1>5, ConstantTypes DEF AwaitsFall
  <1> QED BY <1>6, <1>7 DEF pulse

\* The rising edge, or what passes for it, is received.
LEMMA RiseTaken ==
    ASSUME NEW e \in EchoLine, NEW queue \in Seq(Edge), NEW l \in 0..Latency,
           Settled(e, queue), AwaitsRise(e, queue, l), queue # <<>>
    PROVE  AwaitsFall(Head(queue), e, Tail(queue), 0, 0)
  <1>2. Head(queue) = queue[1] /\ Len(Tail(queue)) = Len(queue) - 1 /\ Len(queue) \in Nat \ {0}
    BY TailFacts
  <1>1. /\ Len(queue) = 1 \/ Len(queue) = 2
        /\ EdgesLeft(e) # 2 /\ (Len(queue) - 1) + EdgesLeft(e) <= 1
        /\ Len(queue) = 2 => EdgesLeft(e) = 0
    <2>1. Len(queue) \in Nat /\ Len(queue) # 0
      BY <1>2
    <2> QED BY <2>1, SettledFacts, SumFacts, Zenon
  <1>6. Len(Tail(queue)) + EdgesLeft(e) <= 1
    BY <1>1, <1>2, Zenon
  <1>7. 1 \in 1..Len(queue)
    BY <1>2
  <1>3. queue[1].call = "this" /\ queue[1] \in Edge /\ queue[1].width \in Nat
    BY <1>2, <1>7, TailFacts, EdgeFields, Zenon DEF AwaitsRise
  <1>4. CASE Len(queue) = 1
    <2>1. Len(Tail(queue)) = 0
      BY <1>2, <1>4
    <2>2. e.line = "high" => /\ e.call = "this" /\ queue[1].edge = "rise" /\ queue[1].width = e.width
                             /\ e.left <= e.width /\ e.width <= e.left + Latency
      BY <1>4, EchoFields, ConstantTypes DEF AwaitsRise
    <2>3. 0 + e.left = e.left
      BY EchoFields
    <2>4. Head(queue).call = "this"
      BY <1>2, <1>3
    <2>5. e.line = "high" => 0 + e.left <= e.width /\ e.width <= 0 + e.left + Latency
      BY <2>2, <2>3
    <2>6. Len(Tail(queue)) # 1
      BY <2>1
    <2> QED BY <1>2, <1>6, <2>2, <2>4, <2>5, <2>6, Zenon DEF AwaitsFall
  <1>5. CASE Len(queue) = 2
    <2>1. Len(Tail(queue)) = 1 /\ Tail(queue)[1] = queue[2] /\ queue[2] \in Edge /\ Tail(queue) # <<>>
      <3>1. 1 \in 1..Len(queue) - 1
        BY <1>5
      <3>2. Tail(queue)[1] = queue[1 + 1] /\ queue[1 + 1] \in Edge
        BY <3>1, TailFacts
      <3>3. Len(Tail(queue)) = 1
        BY <1>2, <1>5
      <3>4. 1 + 1 = 2 /\ Len(<<>>) = 0 /\ 0 # 1
        OBVIOUS
      <3>5. Tail(queue) # <<>>
        BY <3>3, <3>4, Zenon
      <3> QED BY <3>2, <3>3, <3>4, <3>5, Zenon
    <2>2. /\ queue[1].edge = "rise" /\ queue[2].edge = "fall" /\ queue[2].call = "this"
          /\ queue[1].width = queue[2].width /\ queue[2].width <= l
      BY <1>5 DEF AwaitsRise
    <2>3. e.line # "high"
      <3>1. EdgesLeft(e) = 0 /\ (e.line = "high" => EdgesLeft(e) = 1)
        BY <1>1, <1>5, EdgesLeftCases, Zenon
      <3>2. 0 # 1
        OBVIOUS
      <3> QED BY <3>1, <3>2, Zenon
    <2>5. 0 <= queue[1].width + 0 /\ queue[1].width + 0 <= 0 + Latency
      BY <1>3, <2>2, ConstantTypes
    <2> QED BY <1>2, <1>3, <2>1, <2>2, <2>3, <1>6, <2>5, Zenon DEF AwaitsFall
  <1> QED BY <1>1, <1>4, <1>5

\* The falling edge, or what passes for it, is received.
LEMMA FallTaken ==
    ASSUME NEW rise \in Edge, NEW e \in EchoLine, NEW queue \in Seq(Edge), NEW l \in 0..Latency, NEW t \in Nat,
           AwaitsFall(rise, e, queue, l, t), queue # <<>>
    PROVE  /\ rise.call = "this" /\ rise.edge = "rise"
           /\ Head(queue).call = "this" /\ Head(queue).edge = "fall"
           /\ t \in (Head(queue).width - Latency)..(Head(queue).width + Latency)
  <1>1. Head(queue) = queue[1] /\ Len(queue) \in Nat /\ Len(queue) # 0
    BY TailFacts
  <1>2. Len(queue) = 1
    <2>1. \A m \in Nat, k \in 0..2 : m # 0 /\ m + k <= 1 => m = 1
      OBVIOUS
    <2> QED BY <1>1, <2>1, EdgesLeftCases, Zenon DEF AwaitsFall
  <1>3. /\ rise.call = "this" /\ rise.edge = "rise"
        /\ queue[1].call = "this" /\ queue[1].edge = "fall" /\ queue[1].width = rise.width
        /\ t <= rise.width + l /\ rise.width + l <= t + Latency
    BY <1>2, Zenon DEF AwaitsFall
  <1>4. rise.width \in Nat
    BY EdgeFields
  <1>5. t \in (rise.width - Latency)..(rise.width + Latency)
    BY <1>3, <1>4, ConstantTypes
  <1> QED BY <1>1, <1>3, <1>5, Zenon

\* Time passes.
LEMMA AgingTracked ==
    ASSUME NEW e \in EchoLine, NEW queue \in Seq(Edge), NEW l \in 0..Latency,
           Settled(e, queue), AwaitsRise(e, queue, l), NEW n \in Nat, e.line # "quiet" => n <= e.left
    PROVE  LET aged == IF e.line = "quiet" THEN e ELSE Turned(e, e.line, e.left - n, e.call) IN
           /\ queue = <<>> => AwaitsRise(aged, queue, l)
           /\ queue # <<>> => AwaitsRise(aged, queue, l + n)
  <1> DEFINE aged == IF e.line = "quiet" THEN e ELSE Turned(e, e.line, e.left - n, e.call)
  <1>1. /\ aged.line = e.line /\ aged.call = e.call /\ aged.width = e.width
        /\ e.line # "quiet" => aged.left = e.left - n
    BY DEF Turned
  <1> HIDE DEF aged
  <1>2. e.left \in Nat /\ e.width \in Nat /\ l \in Nat
    BY EchoFields, ConstantTypes
  <1>3. Len(<<>>) = 0
    OBVIOUS
  <1>4. CASE queue = <<>>
    BY <1>1, <1>3, <1>4 DEF AwaitsRise, aged
  <1>5. CASE queue # <<>>
    <2>1. e.line = "high" /\ Len(queue) = 1 => aged.line = "high" /\ aged.width = aged.left + (l + n)
      BY <1>1, <1>2 DEF AwaitsRise
    <2>2. Len(queue) = 2 => queue[2].width <= l + n
      <3> SUFFICES ASSUME Len(queue) = 2
                   PROVE  queue[2].width <= l + n
        OBVIOUS
      <3>1. queue[2] \in Edge
        OBVIOUS
      <3>2. queue[2].width \in Nat /\ queue[2].width <= l
        BY <3>1, EdgeFields DEF AwaitsRise
      <3> QED BY <1>2, <3>2
    <2> QED BY <1>1, <1>5, <2>1, <2>2, Zenon DEF AwaitsRise, aged
  <1> QED BY <1>4, <1>5

\* Time passes between the edges.
LEMMA AgingAwaited ==
    ASSUME NEW rise \in Edge, NEW e \in EchoLine, NEW queue \in Seq(Edge), NEW l \in 0..Latency, NEW t \in Nat,
           AwaitsFall(rise, e, queue, l, t), NEW n \in Nat, e.line # "quiet" => n <= e.left
    PROVE  LET aged == IF e.line = "quiet" THEN e ELSE Turned(e, e.line, e.left - n, e.call) IN
           /\ queue = <<>> => AwaitsFall(rise, aged, queue, l, t + n)
           /\ queue # <<>> => AwaitsFall(rise, aged, queue, l + n, t + n)
  <1> DEFINE aged == IF e.line = "quiet" THEN e ELSE Turned(e, e.line, e.left - n, e.call)
  <1>1. /\ aged.line = e.line /\ aged.call = e.call /\ aged.width = e.width
        /\ e.line # "quiet" => aged.left = e.left - n
    BY DEF Turned
  <1>2. EdgesLeft(aged) = EdgesLeft(e)
    BY <1>1 DEF EdgesLeft
  <1> HIDE DEF aged
  <1>3. e.left \in Nat /\ e.width \in Nat /\ l \in Nat /\ rise.width \in Nat
    BY EchoFields, EdgeFields, ConstantTypes
  <1>4. e.line = "high" => (t + n) + aged.left <= aged.width /\ aged.width <= (t + n) + aged.left + Latency
    BY <1>1, <1>3, ConstantTypes DEF AwaitsFall
  <1>5. Len(<<>>) # 1
    OBVIOUS
  <1>6. CASE queue = <<>>
    BY <1>1, <1>2, <1>4, <1>5, <1>6, Zenon DEF AwaitsFall, aged
  <1>7. CASE queue # <<>>
    <2>1. Len(queue) = 1 => t + n <= rise.width + (l + n) /\ rise.width + (l + n) <= (t + n) + Latency
      BY <1>3, ConstantTypes DEF AwaitsFall
    <2> QED BY <1>1, <1>2, <1>4, <1>7, <2>1, Zenon DEF AwaitsFall, aged
  <1> QED BY <1>6, <1>7

\* Nothing is measured at first.
LEMMA InitTracking == Init => Tracking
  BY DEF Init, Tracking, Receiving, OwnEdges, MeasuresWidth

\* Every step keeps the measurement in step with its echo.
LEMMA TrackingStep == Types /\ Budget /\ Quietness /\ Tracking /\ [Next]_vars => Tracking'
  <1> SUFFICES ASSUME Types, Budget, Quietness, Tracking, [Next]_vars PROVE Tracking'
    OBVIOUS
  <1>0. /\ cur \in Rangers /\ pulses \in [Rangers -> Seq(Edge)] /\ echo \in [Rangers -> EchoLine]
        /\ late \in 0..Latency /\ taken \in Seq(Edge) /\ elapsed \in Nat
    BY ConstantTypes DEF Types
  <1>r. echo[cur] \in EchoLine /\ pulses[cur] \in Seq(Edge) /\ Settled(echo[cur], pulses[cur])
    BY <1>0 DEF Quietness
  <1>s. pc = "fall" => taken[1] \in Edge
    <2>1. ASSUME NEW queue \in Seq(Edge), Len(queue) = 1
          PROVE  queue[1] \in Edge
      BY <2>1
    <2> QED BY <1>0, <2>1, Zenon DEF Tracking
  <1>1. ASSUME pc \notin {"rise", "fall", "deliver"}, UNCHANGED readVars, pc' \notin {"rise", "fall", "deliver"}
        PROVE  Tracking'
    BY <1>1 DEF readVars, Tracking, Receiving, OwnEdges, MeasuresWidth
  <1>2. CASE \/ SetUpPins \/ CreateChannel \/ AttachConnection \/ AddEventDetect \/ SettleTrigger
             \/ InitFails \/ Drain \/ EndPoll \/ Send \/ Replied \/ Wake
    BY <1>1, <1>2 DEF SetUpPins, CreateChannel, AttachConnection, AddEventDetect, SettleTrigger, InitFails,
       InitSteps, Drain, EndPoll, Send, Replied, Wake
  <1>3. ASSUME Return
        PROVE  Tracking'
    BY <1>3, ReturnTypes DEF Tracking, Receiving, OwnEdges, MeasuresWidth
  <1>4. CASE SendTriggerFails \/ ReceiveFallOutOfRange \/ Expire \/ ReadFails \/ Deliver
    BY <1>3, <1>4 DEF SendTriggerFails, ReceiveFallOutOfRange, Expire, ReadFails, Deliver, GiveUp
  <1>5. CASE SendTrigger
    <2>1. /\ pc = "trigger" /\ pc' = "rise" /\ cur' = cur /\ UNCHANGED readVars
      BY <1>5 DEF SendTrigger
    <2>2. /\ pulses'[cur] = <<>>
          /\ \/ \E delay \in Delays, width \in Widths :
                   echo'[cur] = [line |-> "flying", left |-> delay, width |-> width, call |-> "this"]
             \/ echo'[cur].line = "quiet"
      BY <1>5, PingQuiet DEF SendTrigger
    <2>3. echo'[cur].line # "high" /\ (echo'[cur].line # "quiet" => echo'[cur].call = "this")
      <3>1. ASSUME NEW delay, NEW width,
                   echo'[cur] = [line |-> "flying", left |-> delay, width |-> width, call |-> "this"]
            PROVE  echo'[cur].line = "flying" /\ echo'[cur].call = "this"
        BY <3>1
      <3>2. "flying" # "high" /\ "quiet" # "high"
        OBVIOUS
      <3> QED BY <2>2, <3>1, <3>2, Zenon
    <2>4. Len(<<>>) = 0
      OBVIOUS
    <2>5. AwaitsRise(echo'[cur], <<>>, 0)
      BY <2>3, <2>4 DEF AwaitsRise
    <2> QED BY <2>1, <2>2, <2>5 DEF readVars, Tracking, Receiving, OwnEdges, MeasuresWidth
  <1>6. CASE ReceiveRise
    <2>1. /\ pc = "rise" /\ pc' = "fall" /\ cur' = cur /\ echo' = echo /\ elapsed' = 0 /\ late' = 0
          /\ pulses[cur] # <<>> /\ pulses' = [pulses EXCEPT ![cur] = Tail(pulses[cur])]
          /\ taken' = Append(<<>>, Head(pulses[cur]))
      BY <1>6 DEF ReceiveRise, Received, Tracking
    <2>2. AwaitsFall(Head(pulses[cur]), echo[cur], Tail(pulses[cur]), 0, 0)
      BY <1>0, <1>r, <2>1, RiseTaken DEF Tracking
    <2>3. Len(taken') = 1 /\ taken'[1] = Head(pulses[cur])
      BY <2>1
    <2>4. pulses'[cur] = Tail(pulses[cur])
      BY <1>0, <2>1
    <2> QED BY <2>1, <2>2, <2>3, <2>4 DEF Tracking, Receiving, OwnEdges, MeasuresWidth
  <1>7. CASE ReceiveFall
    <2>1. /\ pc = "fall" /\ pc' = "deliver" /\ elapsed' = elapsed /\ late' = 0
          /\ pulses[cur] # <<>>
          /\ taken' = Append(taken, Head(pulses[cur]))
      BY <1>7 DEF ReceiveFall, Received
    <2>2. /\ taken[1].call = "this" /\ taken[1].edge = "rise"
          /\ Head(pulses[cur]).call = "this" /\ Head(pulses[cur]).edge = "fall"
          /\ elapsed \in (Head(pulses[cur]).width - Latency)..(Head(pulses[cur]).width + Latency)
      BY <1>0, <1>r, <1>s, <2>1, FallTaken DEF Tracking
    <2>3. Len(taken) = 1 /\ Head(pulses[cur]) \in Edge
      BY <1>r, <2>1, QueueTypes DEF Tracking
    <2>4. Len(taken') = 2 /\ taken'[1] = taken[1] /\ taken'[2] = Head(pulses[cur])
      BY <1>0, <2>1, <2>3, AppendFacts
    <2> QED BY <2>1, <2>2, <2>4 DEF Tracking, Receiving, OwnEdges, MeasuresWidth
  <1>8. ASSUME UNCHANGED <<pc, cur, readVars>>,
               pc = "rise" => AwaitsRise(echo'[cur], pulses'[cur], late),
               pc = "fall" => AwaitsFall(taken[1], echo'[cur], pulses'[cur], late, elapsed)
        PROVE  Tracking'
    BY <1>8 DEF readVars, Tracking, OwnEdges, MeasuresWidth
  <1>9. ASSUME NEW r \in Rangers, EchoRises(r)
        PROVE  Tracking'
    <2>1. UNCHANGED <<pc, cur, readVars>> /\ echo[r].line = "flying" /\ echo[r].left = 0
      BY <1>9 DEF EchoRises
    <2>2. CASE r # cur
      <3>1. echo'[cur] = echo[cur] /\ pulses'[cur] = pulses[cur]
        BY <1>0, <1>9, <2>2 DEF EchoRises, Notify
      <3> QED BY <1>8, <2>1, <3>1 DEF Tracking
    <2>3. CASE r = cur
      <3>1. echo'[cur] = Turned(echo[cur], "high", echo[cur].width, echo[cur].call)
        BY <1>0, <1>9, <2>3 DEF EchoRises
      <3>2. \/ pulses'[cur] = pulses[cur]
            \/ pulses'[cur] = Append(pulses[cur], [edge |-> "rise", call |-> echo[cur].call, width |-> echo[cur].width])
        BY <1>0, <1>9, <2>3 DEF EchoRises, Notify
      <3>3. pc = "rise" => AwaitsRise(echo'[cur], pulses'[cur], late)
        BY <1>0, <1>r, <2>1, <2>3, <3>1, <3>2, RisingTracked, Zenon DEF Tracking
      <3>4. pc # "fall"
        <4>1. \A m \in Nat : ~(m + 2 <= 1)
          OBVIOUS
        <4>2. EdgesLeft(echo[cur]) = 2
          BY <2>1, <2>3, EdgesLeftCases, Zenon
        <4>3. Len(pulses[cur]) \in Nat
          BY <1>r, SettledFacts, Zenon
        <4> QED BY <4>1, <4>2, <4>3, Zenon DEF Tracking, AwaitsFall
      <3> QED BY <1>8, <2>1, <3>3, <3>4
    <2> QED BY <2>2, <2>3
  <1>10. ASSUME NEW r \in Rangers, EchoFalls(r)
         PROVE  Tracking'
    <2>1. UNCHANGED <<pc, cur, readVars>> /\ echo[r].line = "high" /\ echo[r].left = 0
      BY <1>10 DEF EchoFalls
    <2>2. CASE r # cur
      <3>1. echo'[cur] = echo[cur] /\ pulses'[cur] = pulses[cur]
        BY <1>0, <1>10, <2>2 DEF EchoFalls, Notify
      <3> QED BY <1>8, <2>1, <3>1 DEF Tracking
    <2>3. CASE r = cur
      <3>1. echo'[cur] = Quiet
        BY <1>0, <1>10, <2>3 DEF EchoFalls
      <3>2. \/ pulses'[cur] = pulses[cur]
            \/ pulses'[cur] = Append(pulses[cur], [edge |-> "fall", call |-> echo[cur].call, width |-> echo[cur].width])
        BY <1>0, <1>10, <2>3 DEF EchoFalls, Notify
      <3>3. pc = "rise" => AwaitsRise(echo'[cur], pulses'[cur], late)
        BY <1>0, <1>r, <2>1, <2>3, <3>1, <3>2, FallingTracked, Zenon DEF Tracking
      <3>4. pc = "fall" => AwaitsFall(taken[1], echo'[cur], pulses'[cur], late, elapsed)
        <4> SUFFICES ASSUME pc = "fall"
                     PROVE  AwaitsFall(taken[1], Quiet, pulses'[cur], late, elapsed)
          BY <3>1, Zenon
        <4>1. AwaitsFall(taken[1], echo[cur], pulses[cur], late, elapsed)
          BY DEF Tracking
        <4>2. taken[1] \in Edge /\ echo[cur].line = "high" /\ echo[cur].left = 0
          BY <1>s, <2>1, <2>3, Zenon
        <4> QED BY <1>0, <1>r, <3>2, <4>1, <4>2, FallingAwaited, Zenon
      <3> QED BY <1>8, <2>1, <3>3, <3>4
    <2> QED BY <2>2, <2>3
  <1>11. CASE Tick
    <2>1. PICK n \in Nat : /\ n <= ThreadDue /\ Pass(n)
                          /\ \A r \in Rangers : echo[r].line # "quiet" => n <= echo[r].left
      BY <1>11, TickPasses
    <2>2. UNCHANGED <<pc, cur, pulses, taken>>
      BY <2>1 DEF Pass
    <2> DEFINE aged == IF echo[cur].line = "quiet" THEN echo[cur]
                       ELSE Turned(echo[cur], echo[cur].line, echo[cur].left - n, echo[cur].call)
    <2>3. echo'[cur] = aged
      BY <1>0, <2>1 DEF Pass
    <2> HIDE DEF aged
    <2>4. echo[cur].line # "quiet" => n <= echo[cur].left
      BY <1>0, <2>1
    <2>5. late' = IF pc \in Receiving /\ pulses[cur] # <<>> THEN late + n ELSE late
      BY <2>1 DEF Pass
    <2>6. CASE pc \notin Receiving
      BY <2>1, <2>2, <2>5, <2>6 DEF Pass, Stamped, Tracking, Receiving, OwnEdges, MeasuresWidth
    <2>7. CASE pc = "rise"
      <3>1. AwaitsRise(aged, pulses[cur], late')
        <4>1. AwaitsRise(echo[cur], pulses[cur], late) /\ pc \in Receiving
          BY <2>7 DEF Tracking, Receiving
        <4> QED BY <1>0, <1>r, <2>4, <2>5, <4>1, AgingTracked, Zenon DEF aged
      <3>2. elapsed' = elapsed
        BY <2>1, <2>7 DEF Pass, Stamped
      <3> QED BY <2>2, <2>3, <2>7, <3>1, <3>2 DEF Tracking, Receiving, OwnEdges, MeasuresWidth
    <2>8. CASE pc = "fall"
      <3>1. elapsed' = elapsed + n
        <4>1. elapsed <= spent /\ spent \in Nat /\ spent + n <= ReadBound
          BY <2>1, <2>8, WithinTheRead, ReadWithin DEF Budget, Receiving
        <4> QED BY <1>0, <2>1, <2>8, <4>1, ConstantTypes DEF Pass, Stamped, Capped
      <3>2. AwaitsFall(taken[1], aged, pulses[cur], late', elapsed + n)
        <4>1. AwaitsFall(taken[1], echo[cur], pulses[cur], late, elapsed) /\ pc \in Receiving /\ taken[1] \in Edge
          BY <1>s, <2>8 DEF Tracking, Receiving
        <4> QED BY <1>0, <1>r, <2>4, <2>5, <4>1, AgingAwaited, Zenon DEF aged
      <3> QED BY <2>2, <2>3, <2>8, <3>1, <3>2 DEF Tracking, Receiving, OwnEdges, MeasuresWidth
    <2> QED BY <2>6, <2>7, <2>8 DEF Receiving
  <1>12. CASE Exited \/ UNCHANGED vars
    BY <1>8, <1>12 DEF Exited, vars, readVars, worldVars, Tracking
  <1> QED BY <1>2, <1>4, <1>5, <1>6, <1>7, <1>9, <1>10, <1>11, <1>12 DEF Next

-------------------------------------------------------------------------------
(***************************************************************************)
(* The inductive invariant, and the properties it has as consequences.     *)
(***************************************************************************)
IInv == Types /\ Budget /\ Freshness /\ Handles /\ Quietness /\ Tracking

\* The state of the read, the echoes and the clock fit together in every
\* reachable state, start-up included (ultrasonic_init(), ultrasonic_read()).
THEOREM RangingInvariant == Spec => []IInv
  <1>1. Init => IInv
    BY InitTypes, InitBudget, InitFreshness, InitHandles, InitQuietness, InitTracking DEF IInv
  <1>2. IInv /\ [Next]_vars => IInv'
    BY TypesStep, BudgetStep, FreshnessStep, HandlesStep, QuietnessStep, TrackingStep DEF IInv
  <1> QED BY <1>1, <1>2, PTL DEF Spec

\* Every variable has its type, and no channel ever holds more than the two
\* edges of one echo (the draining of ultrasonic_read()).
THEOREM RangingTypeCorrect == Spec => []TypeOK
  <1>1. IInv => TypeOK
    <2> SUFFICES ASSUME IInv PROVE TypeOK
      OBVIOUS
    <2>1. ASSUME NEW r \in Rangers
          PROVE  Len(pulses[r]) <= 2
      <3>1. pulses[r] \in Seq(Edge) /\ Settled(echo[r], pulses[r])
        BY DEF IInv, Types, Quietness
      <3>2. Len(pulses[r]) \in Nat /\ EdgesLeft(echo[r]) \in 0..2 /\ Len(pulses[r]) + EdgesLeft(echo[r]) <= 2
        BY <3>1, SettledFacts, Zenon
      <3> QED BY <3>2, SumFacts, Zenon
    <2> QED BY <2>1 DEF IInv, Types, TypeOK, Steps
  <1> QED BY <1>1, RangingInvariant, PTL

\* A measurement is made of the two edges of its own trigger, whatever edges are
\* lost or late (ultrasonic_read()).
THEOREM EdgesAreOwn == Spec => []OwnEdges
  <1>1. IInv => OwnEdges
    BY DEF IInv, Tracking
  <1> QED BY <1>1, RangingInvariant, PTL

\* A distance is off by the latency of one reception at most, for any latency.
THEOREM WidthIsMeasured == Spec => []MeasuresWidth
  <1>1. IInv => MeasuresWidth
    BY DEF IInv, Tracking
  <1> QED BY <1>1, RangingInvariant, PTL

\* ultrasonic_read() never takes longer than two receptions.
THEOREM ReadIsAlwaysBounded == Spec => []ReadIsBounded
  <1>1. IInv => ReadIsBounded
    BY ReadWithin DEF IInv, ReadIsBounded
  <1> QED BY <1>1, RangingInvariant, PTL

\* If the cycle keeps to its budget, a ranger that misses one echo is still
\* fresh when the cycle is over (STALE_SAMPLE_US).
THEOREM MissIsHarmless == Spec => []OneMissIsHarmless
  <1>1. IInv => OneMissIsHarmless
    <2> SUFFICES ASSUME IInv, pc = "send", NEW r \in Rangers, misses[r] <= 1
                 PROVE  age[r] <= StaleSample
      BY DEF OneMissIsHarmless
    <2>1. /\ Types /\ Budget /\ Freshness
          /\ age[r] \in Nat /\ misses[r] \in 0..2
      BY ConstantTypes DEF IInv, Types
    <2>2. Progress = 2 * ReadBound + LongestRest /\ Done(r)
      BY <2>1, ProgressBounds DEF Polling, Done, Reading
    <2>3. misses[r] = 0 \/ misses[r] = 1
      BY <2>1
    <2>4. \/ age[r] <= Progress - ReadBy(r)
          \/ age[r] <= CycleBound - ReadBy(r) + Progress
      BY <2>1, <2>2, <2>3 DEF Freshness, Polling
    <2>5. ReadBy(r) \in Nat /\ ReadBy(r) >= ReadBound
      BY ConstantTypes DEF ReadBy
    <2>6. age[r] <= 3 * ReadBound + 2 * LongestRest + LongestHold + LoopPeriod
      BY <2>1, <2>2, <2>4, <2>5, ConstantTypes DEF CycleBound
    <2>7. 3 * ReadBound + 2 * LongestRest + LongestHold + LoopPeriod <= StaleSample
      BY BudgetAssumption, ConstantTypes DEF ReadBound
    <2> QED BY <2>1, <2>6, <2>7, ConstantTypes
  <1> QED BY <1>1, RangingInvariant, PTL

\* A failing start-up of a ranger keeps nothing, a finished one everything.
THEOREM HandlesAreMatched == Spec => []HandlesMatch
  <1>1. IInv => HandlesMatch
    BY DEF IInv, Handles
  <1> QED BY <1>1, RangingInvariant, PTL
===============================================================================
