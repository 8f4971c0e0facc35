------------------------- MODULE AgentDeliveryProofs -------------------------
(***************************************************************************)
(* NoLoss and SpoolIsHonest hold for every source log, every size, batch   *)
(* and queue limit and any number of faults.                               *)
(*                                                                         *)
(* The strengthening of NoLoss says what the agent may rely on at each point of its  *)
(* loop: before CommitEvent the event is on disk; while a request is       *)
(* awaited its items are the first files of the queue and those before its *)
(* next item are in the topic; while a batch is acknowledged the files     *)
(* still to be removed are in the topic.  Abandoned requests only add      *)
(* copies.                                                                 *)
(*                                                                         *)
(* For the occupancy the sum of the file sizes is shown to follow Append   *)
(* and Tail, by induction over the positions of the queue.  For the copies *)
(* of an event all that may ever publish it is counted: the copies in the  *)
(* topic, the items abandoned requests have left, its places in the queue  *)
(* beyond the settled ones and the event while it is still to be read.  No *)
(* step adds to that count but a fault, which doubles it at most.          *)
(***************************************************************************)
EXTENDS AgentDelivery, SequenceTheorems, FiniteSetTheorems, WellFoundedInduction,
        TLAPS

InTopic(e) == topic[e] > 0

AgentType ==
    /\ cursor \in 0..NEvents /\ readTo \in 0..NEvents
    /\ files \in Seq(Events)
    /\ pc \in {"drain", "await", "ack", "read", "poll", "commit"}
    /\ unacked \in Nat
    /\ topic \in [Events -> Nat]
    /\ faults \in Nat

AwaitedRequests == [id : Nat, items : Seq(Events), next : Nat, stage : Stages]

BeforeCommit == pc = "commit" => (cursor < NEvents /\ OnDisk(cursor + 1))

Awaiting ==
    pc = "await" =>
        /\ request \in AwaitedRequests /\ Len(request.items) <= Len(files)
        /\ \A i \in 1..Len(request.items) : request.items[i] = files[i]
        /\ \A i \in 1..Len(request.items) :
              i < request.next => InTopic(request.items[i])
        /\ request.stage = "accepted" => request.next > Len(request.items)

Acknowledging ==
    pc = "ack" => /\ unacked <= Len(files)
                  /\ \A i \in 1..unacked : InTopic(files[i])

DeliveryInv ==
    AgentType /\ BeforeCommit /\ Awaiting /\ Acknowledging /\ NoLoss

\* Nothing leaves the topic.
TopicGrows ==
    topic' \in [Events -> Nat] /\ \A e \in Events : InTopic(e) => InTopic(e)'

\* An agent that starts with an empty spool loses nothing.
LEMMA DeliveryInit == AgentInit => DeliveryInv
<1> SUFFICES ASSUME AgentInit PROVE DeliveryInv
  OBVIOUS
<1>1. AgentType
  BY DeliveryAssumption DEF AgentInit, AgentType
<1>2. BeforeCommit /\ Awaiting /\ Acknowledging /\ NoLoss
  BY DEF AgentInit, BeforeCommit, Awaiting, Acknowledging, NoLoss
<1> QED
  BY <1>1, <1>2 DEF DeliveryInv

\* A step of the loop that touches neither the queue, the checkpoint nor the
\* topic, and goes to a point of the loop nothing is claimed of.
LEMMA PlainSteps ==
  ASSUME DeliveryInv,
         FlushNothing \/ SendRefused \/ SendTimesOut \/ AckFails \/ FlushDone
           \/ SourceRead \/ SourceReadFails \/ EnqueueFull \/ PollDone \/ Crash
  PROVE  DeliveryInv'
<1> USE DeliveryAssumption
<1>1. AgentType'
  <2>1. CASE FlushNothing \/ SendRefused \/ SendTimesOut
    BY <2>1 DEF DeliveryInv, AgentType, FlushNothing, SendRefused, SendTimesOut
  <2>2. CASE AckFails \/ FlushDone
    BY <2>2 DEF DeliveryInv, AgentType, AckFails, FlushDone
  <2>3. CASE SourceRead \/ SourceReadFails
    BY <2>3 DEF DeliveryInv, AgentType, SourceRead, SourceReadFails
  <2>4. CASE EnqueueFull \/ PollDone \/ Crash
    BY <2>4 DEF DeliveryInv, AgentType, EnqueueFull, PollDone, Crash
  <2> QED
    BY <2>1, <2>2, <2>3, <2>4
<1>2. pc' \in {"drain", "read", "poll"}
  BY DEF FlushNothing, SendRefused, SendTimesOut, AckFails,
     FlushDone, SourceRead, SourceReadFails, EnqueueFull, PollDone, Crash
<1>3. UNCHANGED <<cursor, files, topic>>
  BY DEF FlushNothing, SendRefused, SendTimesOut, AckFails,
     FlushDone, SourceRead, SourceReadFails, EnqueueFull, PollDone, Crash
<1>4. NoLoss'
  BY <1>3 DEF DeliveryInv, NoLoss, OnDisk
<1> QED
  BY <1>1, <1>2, <1>4 DEF DeliveryInv, BeforeCommit, Awaiting, Acknowledging

\* Sending a batch and its answer change what the agent waits for, not what
\* is on disk (flush).
LEMMA SendSteps ==
  ASSUME DeliveryInv, FlushSend \/ SendAccepted
  PROVE  DeliveryInv'
<1> USE DeliveryAssumption
<1>1. UNCHANGED <<cursor, readTo, files, topic, faults>>
  BY DEF FlushSend, SendAccepted
<1>2. NoLoss'
  BY <1>1 DEF DeliveryInv, NoLoss, OnDisk
<1>3. CASE FlushSend
  <2>1. PICK k \in 1..Len(Peeked) :
           request' = [id |-> faults, items |-> SubSeq(files, 1, k),
                       next |-> 1, stage |-> "received"]
    BY <1>3 DEF FlushSend
  <2>2. files \in Seq(Events) /\ Len(files) \in Nat
    BY DEF DeliveryInv, AgentType
  <2>3. Len(Peeked) <= Len(files) /\ Len(Peeked) \in Nat
    BY <2>2, SubSeqProperties DEF Peeked
  <2>4. k \in 1..Len(files)
    BY <2>2, <2>3
  <2>5. SubSeq(files, 1, k) \in Seq(Events) /\ Len(SubSeq(files, 1, k)) = k
        /\ \A i \in 1..k : SubSeq(files, 1, k)[i] = files[i]
    BY <2>2, <2>4, SubSeqProperties
  <2>6. Awaiting'
    <3>1. request' \in AwaitedRequests
      BY <2>1, <2>5 DEF DeliveryInv, AgentType, AwaitedRequests, Stages
    <3> QED
      BY <3>1, <2>1, <2>2, <2>4, <2>5, <1>1 DEF Awaiting
  <2> QED
    BY <1>1, <1>2, <1>3, <2>6 DEF DeliveryInv, AgentType, FlushSend, BeforeCommit,
       Acknowledging
<1>4. CASE SendAccepted
  <2>1. pc = "await" /\ request.stage = "accepted" /\ pc' = "ack"
        /\ unacked' = Len(request.items)
    BY <1>4 DEF SendAccepted
  <2>2. \A i \in 1..Len(request.items) : InTopic(files[i])
    BY <2>1 DEF DeliveryInv, Awaiting, AwaitedRequests
  <2>3. Len(request.items) \in Nat /\ Len(request.items) <= Len(files)
    BY <2>1 DEF DeliveryInv, Awaiting, AwaitedRequests
  <2>4. Acknowledging'
    BY <2>1, <2>2, <2>3, <1>1 DEF Acknowledging, InTopic
  <2> QED
    BY <1>1, <1>2, <2>1, <2>3, <2>4 DEF DeliveryInv, AgentType, BeforeCommit, Awaiting
<1> QED
  BY <1>3, <1>4

\* Ack removes the oldest file, whose event is in the topic (DiskQueue.Ack).
LEMMA AckStep ==
  ASSUME DeliveryInv, Ack PROVE DeliveryInv'
<1>1. pc = "ack" /\ pc' = "ack" /\ files' = Tail(files) /\ unacked' = unacked - 1
      /\ unacked > 0 /\ UNCHANGED <<cursor, readTo, topic, faults>>
  BY DEF Ack
<1>2. files \in Seq(Events) /\ unacked \in Nat /\ unacked <= Len(files)
      /\ \A i \in 1..unacked : InTopic(files[i])
  BY <1>1 DEF DeliveryInv, AgentType, Acknowledging
<1>3. files # <<>>
  BY <1>1, <1>2, EmptySeq
<1>4. Tail(files) \in Seq(Events) /\ Len(Tail(files)) = Len(files) - 1
      /\ \A i \in 1..Len(Tail(files)) : Tail(files)[i] = files[i + 1]
  BY <1>2, <1>3, HeadTailProperties
<1>5. Acknowledging'
  <2>1. \A i \in 1..(unacked - 1) : InTopic(Tail(files)[i])
    <3> TAKE i \in 1..(unacked - 1)
    <3>1. i \in 1..Len(Tail(files)) /\ i + 1 \in 1..unacked
      BY <1>2, <1>4
    <3> QED
      BY <3>1, <1>2, <1>4
  <2>2. unacked - 1 <= Len(Tail(files))
    BY <1>2, <1>4
  <2> QED
    BY <1>1, <2>1, <2>2 DEF Acknowledging, InTopic
<1>6. NoLoss'
  <2> SUFFICES ASSUME NEW e \in 1..cursor
               PROVE  (\E i \in 1..Len(Tail(files)) : Tail(files)[i] = e) \/ InTopic(e)
    BY <1>1 DEF NoLoss, OnDisk, InTopic
  <2>1. OnDisk(e) \/ InTopic(e)
    BY DEF DeliveryInv, NoLoss, InTopic
  <2>2. ASSUME NEW i \in 1..Len(files), files[i] = e, i # 1
        PROVE  \E j \in 1..Len(Tail(files)) : Tail(files)[j] = e
    <3>1. i - 1 \in 1..Len(Tail(files)) /\ (i - 1) + 1 = i
      BY <2>2, <1>2, <1>4
    <3>2. Tail(files)[i - 1] = files[i]
      BY <3>1, <1>4
    <3> QED
      BY <3>1, <3>2, <2>2
  <2>3. InTopic(files[1])
    BY <1>1, <1>2
  <2> QED
    BY <2>1, <2>2, <2>3 DEF OnDisk
<1>7. AgentType'
  BY <1>1, <1>2, <1>4 DEF DeliveryInv, AgentType
<1> QED
  BY <1>1, <1>5, <1>6, <1>7 DEF DeliveryInv, BeforeCommit, Awaiting

\* An event is on disk before the source's checkpoint passes it (poll,
\* Enqueue, commit).
LEMMA PollSteps ==
  ASSUME DeliveryInv, Enqueue \/ CommitEvent
  PROVE  DeliveryInv'
<1> USE DeliveryAssumption
<1>0. AgentType /\ NoLoss /\ BeforeCommit
  BY DEF DeliveryInv
<1>1. CASE Enqueue
  <2>1. cursor + 1 \in Events /\ cursor < NEvents
    BY <1>0, <1>1 DEF Enqueue, AgentType, Events
  <2>2. files' = Append(files, cursor + 1) /\ pc' = "commit"
        /\ UNCHANGED <<cursor, readTo, topic, unacked, faults>>
    BY <1>1 DEF Enqueue
  <2>3. files' \in Seq(Events) /\ Len(files') = Len(files) + 1
        /\ files'[Len(files) + 1] = cursor + 1
        /\ \A i \in 1..Len(files) : files'[i] = files[i]
    BY <2>1, <2>2, <1>0, AppendProperties DEF AgentType
  <2>4. Len(files) \in Nat /\ Len(files') \in Nat
    BY <2>3, <1>0, LenProperties DEF AgentType
  <2>5. \A e : OnDisk(e) => \E i \in 1..Len(files') : files'[i] = e
    BY <2>3, <2>4 DEF OnDisk
  <2>6. NoLoss'
    BY <2>2, <2>5, <1>0 DEF NoLoss, OnDisk
  <2>7. BeforeCommit'
    <3>1. \E i \in 1..Len(files') : files'[i] = cursor + 1
      BY <2>3, <2>4
    <3> QED
      BY <3>1, <2>1, <2>2 DEF BeforeCommit, OnDisk
  <2> QED
    BY <2>2, <2>3, <2>6, <2>7, <1>0 DEF DeliveryInv, AgentType, Awaiting, Acknowledging
<1>2. CASE CommitEvent
  <2>1. pc = "commit" /\ pc' = "poll" /\ cursor' = cursor + 1
        /\ UNCHANGED <<readTo, files, topic, unacked, faults>>
    BY <1>2 DEF CommitEvent
  <2>2. cursor < NEvents /\ OnDisk(cursor + 1)
    BY <2>1, <1>0 DEF BeforeCommit
  <2>3. \A e \in 1..(cursor + 1) : OnDisk(e) \/ topic[e] > 0
    BY <2>2, <1>0 DEF NoLoss, AgentType
  <2>4. NoLoss'
    BY <2>1, <2>3 DEF NoLoss, OnDisk
  <2>5. cursor + 1 \in 0..NEvents
    BY <2>2, <1>0 DEF AgentType
  <2> QED
    BY <2>1, <2>4, <2>5, <1>0 DEF DeliveryInv, AgentType, BeforeCommit, Awaiting,
       Acknowledging
<1> QED
  BY <1>1, <1>2

\* What the gateway does to a request keeps the agent's claims, whether the
\* agent waits for that request or has given it up.
LEMMA GatewaySteps ==
  ASSUME DeliveryInv, NEW r \in InService,
         ReserveBatch(r) \/ Publish(r) \/ Respond(r) \/ PublishFails(r)
  PROVE  DeliveryInv'
<1> USE DeliveryAssumption
<1>0. AgentType /\ NoLoss /\ BeforeCommit /\ Awaiting /\ Acknowledging
  BY DEF DeliveryInv
<1>1. UNCHANGED <<cursor, readTo, files, pc, unacked>>
  BY DEF ReserveBatch, Publish, Respond, PublishFails
<1>f. faults' \in Nat
  BY <1>0 DEF ReserveBatch, Publish, Respond, PublishFails, AgentType
<1>2. TopicGrows
  <2>1. CASE UNCHANGED topic
    BY <2>1, <1>0 DEF TopicGrows, AgentType, InTopic
  <2>2. ASSUME NEW x, NEW n \in Nat, topic' = [topic EXCEPT ![x] = @ + n]
        PROVE TopicGrows
    <3>1. topic \in [Events -> Nat]
      BY <1>0 DEF AgentType
    <3>2. \A e \in Events : topic[e] \in Nat /\ topic[e] + n \in Nat
      BY <3>1
    <3>3. \A e \in Events : topic'[e] = IF e = x THEN topic[e] + n ELSE topic[e]
      BY <2>2, <3>1
    <3>4. topic' \in [Events -> Nat]
      BY <2>2, <3>1, <3>2
    <3>5. \A e \in Events : topic[e] > 0 => topic[e] + n > 0
      BY <3>2
    <3>6. \A e \in Events : topic[e] > 0 => topic'[e] > 0
      BY <3>3, <3>5
    <3> QED
      BY <3>4, <3>6 DEF TopicGrows, InTopic
  <2>3. UNCHANGED topic \/ \E x, n : n \in {0, 1} /\ topic' = [topic EXCEPT ![x] = @ + n]
    BY DEF ReserveBatch, Publish, Respond, PublishFails
  <2> QED
    BY <2>1, <2>2, <2>3
<1>3. NoLoss'
  <2> SUFFICES ASSUME NEW e \in 1..cursor PROVE OnDisk(e) \/ InTopic(e)'
    BY <1>1 DEF NoLoss, OnDisk, InTopic
  <2>1. e \in Events
    BY <1>0 DEF AgentType, Events
  <2> QED
    BY <2>1, <1>0, <1>2 DEF NoLoss, TopicGrows, InTopic
<1>4. Acknowledging'
  <2> SUFFICES ASSUME pc = "ack"
               PROVE unacked <= Len(files) /\ \A i \in 1..unacked : InTopic(files[i])'
    BY <1>1 DEF Acknowledging, InTopic
  <2>1. \A i \in 1..unacked : files[i] \in Events
    BY <1>0 DEF AgentType, Acknowledging
  <2> QED
    BY <2>1, <1>0, <1>1, <1>2 DEF Acknowledging, TopicGrows, InTopic
<1>5. Awaiting'
  <2> SUFFICES ASSUME pc = "await" PROVE Awaiting'
    BY <1>1 DEF Awaiting
  <2>0. /\ request \in AwaitedRequests /\ Len(request.items) <= Len(files)
        /\ request.items \in Seq(Events) /\ request.next \in Nat
        /\ \A i \in 1..Len(request.items) : request.items[i] = files[i]
        /\ \A i \in 1..Len(request.items) : i < request.next => InTopic(request.items[i])
        /\ request.stage = "accepted" => request.next > Len(request.items)
    BY <1>0 DEF Awaiting, AwaitedRequests
  <2>1. \A i \in 1..Len(request.items) : request.items[i] \in Events
    BY <2>0
  <2>2. CASE request' = request
    BY <2>0, <2>1, <2>2, <1>1, <1>2 DEF Awaiting, TopicGrows
  <2>3. CASE r = request /\ request' # request
    <3>1. CASE ReserveBatch(r)
      <4>1. request'.items = request.items /\ request'.next = request.next
            /\ request'.stage # "accepted" /\ request' \in AwaitedRequests
        BY <2>0, <2>3, <3>1 DEF ReserveBatch, Serve, AwaitedRequests, Stages
      <4> QED
        BY <4>1, <2>0, <2>1, <1>1, <1>2 DEF Awaiting, TopicGrows, InTopic
    <3>2. CASE PublishFails(r)
      <4>1. request'.items = request.items /\ request'.next = request.next
            /\ request'.stage # "accepted" /\ request' \in AwaitedRequests
        BY <2>0, <2>3, <3>2 DEF PublishFails, Serve, AwaitedRequests, Stages
      <4> QED
        BY <4>1, <2>0, <2>1, <1>1, <1>2 DEF Awaiting, TopicGrows, InTopic
    <3>3. CASE Respond(r)
      <4>1. request'.items = request.items /\ request'.next = request.next
            /\ request.next > Len(request.items) /\ request' \in AwaitedRequests
        BY <2>0, <2>3, <3>3 DEF Respond, Serve, AwaitedRequests, Stages
      <4> QED
        BY <4>1, <2>0, <2>1, <1>1, <1>2 DEF Awaiting, TopicGrows, InTopic
    <3>4. CASE Publish(r)
      <4>1. request' = [request EXCEPT !.next = @ + 1] /\ request.next <= Len(request.items)
            /\ request.stage = "admitted"
            /\ topic' = [topic EXCEPT ![request.items[request.next]] = @ + 1]
        BY <2>3, <3>4 DEF Publish, Serve
      <4>2. request'.items = request.items /\ request'.next = request.next + 1
            /\ request'.stage = request.stage /\ request' \in AwaitedRequests
        <5>1. request.next + 1 \in Nat
          BY <2>0
        <5>2. request' \in AwaitedRequests
          BY <5>1, <4>1, <2>0 DEF AwaitedRequests
        <5>3. request'.items = request.items
          BY <4>1, <2>0 DEF AwaitedRequests
        <5>4. request'.next = request.next + 1
          BY <4>1, <2>0 DEF AwaitedRequests
        <5>5. request'.stage = request.stage
          BY <4>1, <2>0 DEF AwaitedRequests
        <5> QED
          BY <5>2, <5>3, <5>4, <5>5
      <4>3. ASSUME NEW i \in 1..Len(request.items), i < request.next + 1
            PROVE InTopic(request.items[i])'
        <5>1. CASE i < request.next
          BY <5>1, <2>0, <2>1, <1>2, <4>2 DEF TopicGrows, InTopic
        <5>2. CASE i = request.next
          <6>1. PICK n \in Nat : topic[request.items[i]] = n
            BY <2>1, <1>0 DEF AgentType
          <6>2. topic'[request.items[i]] = n + 1
            BY <6>1, <5>2, <4>1, <2>1, <1>0 DEF AgentType
          <6> QED
            BY <6>1, <6>2, <4>2 DEF InTopic
        <5> QED
          BY <5>1, <5>2, <4>3, <2>0
      <4> QED
        BY <4>1, <4>2, <4>3, <2>0, <1>1 DEF Awaiting, InTopic
    <3> QED
      BY <3>1, <3>2, <3>3, <3>4
  <2> QED
    BY <2>2, <2>3 DEF ReserveBatch, Publish, Respond, PublishFails, Serve
<1> QED
  BY <1>0, <1>1, <1>f, <1>2, <1>3, <1>4, <1>5 DEF DeliveryInv, AgentType, BeforeCommit,
     OnDisk, TopicGrows

\* Every step of agent, gateway and faults keeps the invariant.
LEMMA DeliveryStep == DeliveryInv /\ [AgentNext]_agentVars => DeliveryInv'
<1> SUFFICES ASSUME DeliveryInv, [AgentNext]_agentVars PROVE DeliveryInv'
  OBVIOUS
<1>1. CASE UNCHANGED agentVars
  BY <1>1 DEF agentVars, DeliveryInv, AgentType, BeforeCommit, Awaiting, Acknowledging,
     NoLoss, OnDisk, InTopic
<1>2. CASE Agent
  BY <1>2, PlainSteps, SendSteps, AckStep, PollSteps DEF Agent
<1>3. CASE Gateway
  BY <1>3, GatewaySteps DEF Gateway
<1>4. CASE Faulty
  BY <1>4, PlainSteps, GatewaySteps DEF Faulty
<1>5. CASE NextWindow
  BY <1>5 DEF NextWindow, DeliveryInv, AgentType, BeforeCommit, Awaiting, Acknowledging,
     NoLoss, OnDisk, InTopic
<1> QED
  BY <1>1, <1>2, <1>3, <1>4, <1>5 DEF AgentNext

\* The inductive invariant of delivery holds in every reachable state.
THEOREM DeliveryInvHolds == AgentSpec => []DeliveryInv
BY DeliveryInit, DeliveryStep, PTL DEF AgentSpec

\* No event the source's checkpoint has passed is lost, whatever the sizes and
\* limits and however often the agent stops, a call fails or an answer is lost
\* (the poll loop's durability order and flush's order of send and acknowledge).
THEOREM CheckpointedEventsSurvive == AgentSpec => []NoLoss
<1>1. DeliveryInv => NoLoss
  BY DEF DeliveryInv
<1> QED
  BY <1>1, DeliveryInvHolds, PTL

-----------------------------------------------------------------------------
(* Sums over the queue.                                                    *)

\* Every set of numbers that is not empty has a least one: the form in which
\* the lemmas below argue by induction.
LEMMA LeastNumber ==
  ASSUME NEW T, T \subseteq Nat, T # {}
  PROVE  \E n \in T : \A m \in T : n <= m
<1> DEFINE R == OpToRel(<, Nat)
<1>1. \E x \in T : \A y \in T : ~(<<y, x>> \in R)
  <2>1. IsWellFoundedOn(R, Nat)
    BY NatLessThanWellFounded
  <2> HIDE DEF R
  <2> QED
    BY <2>1, WFMin
<1>2. \A x, y \in Nat : x < y => <<x, y>> \in R
  BY DEF OpToRel
<1> HIDE DEF R
<1>3. PICK x \in T : \A y \in T : ~(<<y, x>> \in R)
  BY <1>1
<1>4. \A y \in T : x <= y
  <2> TAKE y \in T
  <2>1. x \in Nat /\ y \in Nat /\ ~(<<y, x>> \in R)
    BY <1>3
  <2>2. ~(y < x)
    BY <2>1, <1>2
  <2> QED
    BY <2>1, <2>2
<1> QED
  BY <1>4

\* f adds up the weights of the first events of q.
Sums(f, weight, q) ==
    f = [n \in 0..Len(q) |-> IF n = 0 THEN 0 ELSE f[n - 1] + weight[q[n]]]

\* Such sums exist, and are natural numbers.
LEMMA SumsExist ==
  ASSUME NEW weight \in [Events -> Nat], NEW q \in Seq(Events)
  PROVE  \E f \in [0..Len(q) -> Nat] : Sums(f, weight, q)
<1> DEFINE Upto(n, f) == /\ f[0] = 0
                         /\ \A k \in 1..n : f[k] = f[k - 1] + weight[q[k]]
           T == {n \in 0..Len(q) : ~ \E f \in [0..n -> Nat] : Upto(n, f)}
<1>0. Len(q) \in Nat /\ \A n \in 1..Len(q) : weight[q[n]] \in Nat
  OBVIOUS
<1>a. /\ T \subseteq Nat /\ T \subseteq 0..Len(q)
      /\ \A n \in 0..Len(q) : n \in T <=> ~ \E f \in [0..n -> Nat] : Upto(n, f)
  <2> HIDE DEF Upto
  <2>1. T \subseteq Nat /\ T \subseteq 0..Len(q)
    BY <1>0
  <2> QED
    BY <2>1, Zenon
<1> HIDE DEF T
<1>1. T = {}
  <2> SUFFICES ASSUME T # {} PROVE FALSE
    OBVIOUS
  <2>1. PICK n \in T : \A m \in T : n <= m
    BY <1>a, LeastNumber
  <2>2. CASE n = 0
    <3>1. [i \in 0..0 |-> 0] \in [0..0 -> Nat] /\ Upto(0, [i \in 0..0 |-> 0])
      OBVIOUS
    <3> QED
      BY <3>1, <2>2, <1>a
  <2>3. CASE n # 0
    <3>1. n \in 1..Len(q) /\ n - 1 \in 0..Len(q) /\ n - 1 \notin T
      <4> HIDE DEF Upto
      <4>1. n \in 0..Len(q)
        BY <1>a
      <4>2. n - 1 \notin T
        BY <2>1, <4>1, <1>0
      <4> QED
        BY <4>1, <4>2, <2>3, <1>0
    <3>2. PICK f \in [0..(n - 1) -> Nat] : Upto(n - 1, f)
      BY <3>1, <1>a
    <3> DEFINE g == [i \in 0..n |-> IF i = n THEN f[n - 1] + weight[q[n]] ELSE f[i]]
    <3>3. g \in [0..n -> Nat]
      BY <3>1, <1>0
    <3>4. Upto(n, g)
      <4>1. g[0] = 0
        BY <3>1, <3>2
      <4>2. ASSUME NEW k \in 1..n PROVE g[k] = g[k - 1] + weight[q[k]]
        <5>1. CASE k = n
          BY <5>1, <3>1
        <5>2. CASE k # n
          BY <5>2, <3>1, <3>2
        <5> QED
          BY <5>1, <5>2
      <4> QED
        BY <4>1, <4>2
    <3> QED
      BY <3>1, <3>3, <3>4, <1>a
  <2> QED
    BY <2>2, <2>3
<1>2. PICK f \in [0..Len(q) -> Nat] : Upto(Len(q), f)
  <2>1. Len(q) \in 0..Len(q)
    BY <1>0
  <2> HIDE DEF Upto
  <2> QED
    BY <2>1, <1>1, <1>a
<1>3. f = [n \in 0..Len(q) |-> IF n = 0 THEN 0 ELSE f[n - 1] + weight[q[n]]]
  BY <1>0, <1>2
<1> QED
  BY <1>3 DEF Sums

\* Sums of the same sequence agree, so Total is the last one.
LEMMA TotalIs ==
  ASSUME NEW weight \in [Events -> Nat], NEW q \in Seq(Events),
         NEW f, Sums(f, weight, q)
  PROVE  Total(weight, q) = f[Len(q)]
<1> DEFINE g == CHOOSE h : Sums(h, weight, q)
<1>1. Total(weight, q) = g[Len(q)]
  BY DEF Total, Sums
<1>2. Sums(g, weight, q)
  OBVIOUS
<1> HIDE DEF g
<1> DEFINE T == {n \in 0..Len(q) : g[n] # f[n]}
<1>0. Len(q) \in Nat /\ T \subseteq Nat
  OBVIOUS
<1>3. T = {}
  <2> SUFFICES ASSUME T # {} PROVE FALSE
    OBVIOUS
  <2>1. PICK n \in T : \A m \in T : n <= m
    <3> HIDE DEF T
    <3> QED
      BY <1>0, LeastNumber
  <2>2. /\ g[n] = IF n = 0 THEN 0 ELSE g[n - 1] + weight[q[n]]
        /\ f[n] = IF n = 0 THEN 0 ELSE f[n - 1] + weight[q[n]]
    <3> HIDE DEF T
    <3>1. n \in 0..Len(q)
      BY DEF T
    <3>2. g[n] = [i \in 0..Len(q) |-> IF i = 0 THEN 0 ELSE g[i - 1] + weight[q[i]]][n]
      BY <1>2 DEF Sums
    <3>3. f[n] = [i \in 0..Len(q) |-> IF i = 0 THEN 0 ELSE f[i - 1] + weight[q[i]]][n]
      BY DEF Sums
    <3> QED
      BY <3>1, <3>2, <3>3
  <2>3. n # 0
    BY <2>2
  <2>4. n - 1 \in 0..Len(q) /\ n - 1 \notin T
    BY <2>1, <2>3, <1>0
  <2> QED
    BY <2>2, <2>3, <2>4
<1> QED
  BY <1>0, <1>1, <1>3

\* The sizes of files add up to a natural number.
LEMMA TotalType ==
  ASSUME NEW weight \in [Events -> Nat], NEW q \in Seq(Events)
  PROVE  Total(weight, q) \in Nat
<1>1. PICK f \in [0..Len(q) -> Nat] : Sums(f, weight, q)
  BY SumsExist
<1>2. Len(q) \in 0..Len(q)
  OBVIOUS
<1> QED
  BY <1>1, <1>2, TotalIs

\* An empty directory takes no bytes.
LEMMA TotalEmpty ==
  ASSUME NEW weight \in [Events -> Nat] PROVE Total(weight, <<>>) = 0
<1> DEFINE f == [n \in 0..0 |-> 0]
<1>1. <<>> \in Seq(Events) /\ Len(<<>>) = 0
  OBVIOUS
<1>2. Sums(f, weight, <<>>)
  BY <1>1 DEF Sums
<1>3. f[0] = 0
  OBVIOUS
<1> QED
  BY <1>1, <1>2, <1>3, TotalIs

\* A file more adds its size (Enqueue).
LEMMA TotalAppend ==
  ASSUME NEW weight \in [Events -> Nat], NEW q \in Seq(Events), NEW e \in Events
  PROVE  Total(weight, Append(q, e)) = Total(weight, q) + weight[e]
<1> DEFINE p == Append(q, e)
<1>1. PICK f \in [0..Len(q) -> Nat] : Sums(f, weight, q)
  BY SumsExist
<1>2. /\ p \in Seq(Events) /\ Len(p) = Len(q) + 1 /\ p[Len(q) + 1] = e
      /\ \A i \in 1..Len(q) : p[i] = q[i]
  BY AppendProperties
<1>3. Len(q) \in Nat
  OBVIOUS
<1>4. \A n \in 0..Len(q) : f[n] = IF n = 0 THEN 0 ELSE f[n - 1] + weight[q[n]]
  BY <1>1 DEF Sums
<1> HIDE DEF p
<1> DEFINE g == [n \in 0..Len(p) |-> IF n = Len(p) THEN f[Len(q)] + weight[e] ELSE f[n]]
<1>5. ASSUME NEW n \in 0..Len(p)
      PROVE  g[n] = IF n = 0 THEN 0 ELSE g[n - 1] + weight[p[n]]
  <2>1. CASE n = Len(p)
    <3>1. n # 0 /\ n - 1 \in 0..Len(p) /\ n - 1 # Len(p) /\ n - 1 = Len(q) /\ p[n] = e
      BY <2>1, <1>2, <1>3
    <3>2. g[n] = f[Len(q)] + weight[e] /\ g[n - 1] = f[n - 1]
      BY <2>1, <3>1
    <3>3. g[n] = g[n - 1] + weight[p[n]]
      <4> HIDE DEF g
      <4> QED
        BY <3>1, <3>2, Zenon
    <3>4. n # 0
      BY <3>1
    <3> HIDE DEF g
    <3> QED
      BY <3>3, <3>4, Zenon
  <2>2. CASE n # Len(p)
    <3>1. n \in 0..Len(q) /\ g[n] = f[n] /\ (n # 0 => g[n - 1] = f[n - 1])
      BY <2>2, <1>2, <1>3
    <3>2. n # 0 => p[n] = q[n]
      BY <3>1, <1>2, <1>3
    <3>3. f[n] = IF n = 0 THEN 0 ELSE f[n - 1] + weight[q[n]]
      BY <3>1, <1>4
    <3> HIDE DEF g
    <3> QED
      BY <3>1, <3>2, <3>3, Zenon
  <2> QED
    BY <2>1, <2>2
<1>6. Sums(g, weight, p)
  <2>1. g = [n \in 0..Len(p) |-> g[n]]
    OBVIOUS
  <2>2. [n \in 0..Len(p) |-> g[n]] =
        [n \in 0..Len(p) |-> IF n = 0 THEN 0 ELSE g[n - 1] + weight[p[n]]]
    <3> HIDE DEF g
    <3> QED
      BY <1>5
  <2> HIDE DEF g
  <2> QED
    BY <2>1, <2>2 DEF Sums
<1>7. g[Len(p)] = f[Len(q)] + weight[e]
  BY <1>2, <1>3
<1> HIDE DEF g
<1>8. Total(weight, p) = g[Len(p)]
  BY <1>2, <1>6, TotalIs
<1>9. Total(weight, q) = f[Len(q)]
  BY <1>1, TotalIs
<1> QED
  BY <1>7, <1>8, <1>9 DEF p

\* The first file, when it goes, takes its size with it (Ack).
LEMMA TotalTail ==
  ASSUME NEW weight \in [Events -> Nat], NEW q \in Seq(Events), q # <<>>
  PROVE  Total(weight, Tail(q)) = Total(weight, q) - weight[Head(q)]
<1> DEFINE p == Tail(q)
<1>1. PICK f \in [0..Len(q) -> Nat] : Sums(f, weight, q)
  BY SumsExist
<1>2. /\ p \in Seq(Events) /\ Len(p) = Len(q) - 1 /\ Len(q) >= 1
      /\ \A i \in 1..Len(p) : p[i] = q[i + 1]
  <2>1. Len(q) \in Nat /\ Len(q) # 0
    BY EmptySeq
  <2> QED
    BY <2>1, HeadTailProperties
<1>3. Len(q) \in Nat /\ Head(q) = q[1] /\ \A i \in 1..Len(q) : weight[q[i]] \in Nat
  OBVIOUS
<1>4. \A n \in 0..Len(q) : f[n] = IF n = 0 THEN 0 ELSE f[n - 1] + weight[q[n]]
  BY <1>1 DEF Sums
<1>a. f[1] = weight[q[1]] /\ \A n \in 0..Len(q) : f[n] \in Nat
  BY <1>2, <1>3, <1>4
<1> HIDE DEF p
<1> DEFINE g == [n \in 0..Len(p) |-> f[n + 1] - f[1]]
<1>5. ASSUME NEW n \in 0..Len(p)
      PROVE  g[n] = IF n = 0 THEN 0 ELSE g[n - 1] + weight[p[n]]
  <2>1. CASE n = 0
    BY <2>1, <1>2, <1>3, <1>a
  <2>2. CASE n # 0
    <3>1. n + 1 \in 0..Len(q) /\ n \in 0..Len(q) /\ n + 1 # 0 /\ (n + 1) - 1 = n
          /\ n - 1 \in 0..Len(p) /\ (n - 1) + 1 = n /\ n \in 1..Len(p) /\ n + 1 \in 1..Len(q)
      BY <2>2, <1>2, <1>3
    <3>2. f[n + 1] = f[n] + weight[q[n + 1]] /\ p[n] = q[n + 1]
      BY <3>1, <1>2, <1>4
    <3>3. g[n] = f[n + 1] - f[1] /\ g[n - 1] = f[n] - f[1]
      BY <3>1
    <3>4. f[n + 1] \in Nat /\ f[n] \in Nat /\ f[1] \in Nat /\ weight[q[n + 1]] \in Nat
      BY <3>1, <1>2, <1>3, <1>a
    <3>5. f[n + 1] - f[1] = (f[n] - f[1]) + weight[q[n + 1]]
      <4> DEFINE x == f[n + 1]
                 y == f[n]
                 z == f[1]
                 w == weight[q[n + 1]]
      <4>1. x \in Nat /\ y \in Nat /\ z \in Nat /\ w \in Nat /\ x = y + w
        BY <3>2, <3>4
      <4>2. x - z = (y - z) + w
        <5> HIDE DEF x, y, z, w
        <5> QED
          BY <4>1
      <4> QED
        BY <4>2
    <3>6. g[n] = g[n - 1] + weight[p[n]]
      <4> HIDE DEF g
      <4> QED
        BY <3>2, <3>3, <3>5, Zenon
    <3> HIDE DEF g
    <3> QED
      BY <3>6, <2>2, Zenon
  <2> QED
    BY <2>1, <2>2
<1>6. Sums(g, weight, p)
  <2>1. g = [n \in 0..Len(p) |-> g[n]]
    OBVIOUS
  <2>2. [n \in 0..Len(p) |-> g[n]] =
        [n \in 0..Len(p) |-> IF n = 0 THEN 0 ELSE g[n - 1] + weight[p[n]]]
    <3> HIDE DEF g
    <3> QED
      BY <1>5
  <2> HIDE DEF g
  <2> QED
    BY <2>1, <2>2 DEF Sums
<1>7. g[Len(p)] = f[Len(q)] - f[1]
  BY <1>2, <1>3
<1> HIDE DEF g
<1>8. Total(weight, p) = g[Len(p)]
  BY <1>2, <1>6, TotalIs
<1>9. Total(weight, q) = f[Len(q)]
  BY <1>1, TotalIs
<1> QED
  BY <1>3, <1>a, <1>7, <1>8, <1>9 DEF p

-----------------------------------------------------------------------------
(* The occupancy of the queue.                                             *)

\* The occupancy kept in memory is a record of numbers, and honest.
OccupancyInv ==
    /\ cache \in [count : Nat, bytes : Int, measured : BOOLEAN]
    /\ OccupancyHonest

\* Enqueueing, acknowledging and reopening keep the occupancy honest: a file that
\* cannot be removed makes it untrusted, and the next Enqueue scans again.
LEMMA OccupancyStep ==
  ASSUME DeliveryInv, OccupancyInv, [AgentNext]_agentVars PROVE OccupancyInv'
<1> USE DeliveryAssumption
<1>0. AgentType /\ Acknowledging /\ cache \in [count : Nat, bytes : Int, measured : BOOLEAN]
      /\ (cache.measured => cache = Measured(files)) /\ DiskBytes(files) <= MaxBytes
  BY DEF DeliveryInv, OccupancyInv, OccupancyHonest
<1>1. files \in Seq(Events) /\ Len(files) \in Nat
  BY <1>0 DEF AgentType
<1>2. DiskBytes(files) \in Nat
  BY <1>1, TotalType DEF DiskBytes
<1>3. Measured(files) \in [count : Nat, bytes : Int, measured : BOOLEAN] /\ Occupancy = Measured(files)
      /\ Measured(files).count = Len(files) /\ Measured(files).bytes = DiskBytes(files)
      /\ Measured(files).measured = TRUE
  <2>1. Measured(files) \in [count : Nat, bytes : Int, measured : BOOLEAN]
        /\ Measured(files).count = Len(files) /\ Measured(files).bytes = DiskBytes(files)
        /\ Measured(files).measured = TRUE
    BY <1>1, <1>2 DEF Measured
  <2>2. Occupancy = Measured(files)
    BY <1>0, Zenon DEF Occupancy
  <2> QED
    BY <2>1, <2>2
<1>4. CASE UNCHANGED <<files, cache>>
  BY <1>0, <1>4 DEF OccupancyInv, OccupancyHonest
<1>5. CASE AckFails
  <2>1. UNCHANGED files /\ cache' = [cache EXCEPT !.measured = FALSE]
    BY <1>5 DEF AckFails
  <2>2. cache' \in [count : Nat, bytes : Int, measured : BOOLEAN] /\ cache'.measured = FALSE
    BY <2>1, <1>0
  <2> QED
    BY <2>1, <2>2, <1>0 DEF OccupancyInv, OccupancyHonest
<1>6. CASE EnqueueFull \/ Crash
  <2>1. UNCHANGED files /\ cache' = Measured(files)
    BY <1>3, <1>6 DEF EnqueueFull, Crash
  <2> QED
    BY <2>1, <1>0, <1>3 DEF OccupancyInv, OccupancyHonest
<1>7. CASE Enqueue
  <2>1. /\ cursor < readTo /\ files' = Append(files, cursor + 1)
        /\ DiskBytes(files) + Size[cursor + 1] <= MaxBytes
        /\ cache' = [Measured(files) EXCEPT !.count = @ + 1, !.bytes = @ + Size[cursor + 1]]
    <3>1. /\ cursor < readTo /\ files' = Append(files, cursor + 1)
          /\ Occupancy.bytes + Size[cursor + 1] <= MaxBytes
          /\ cache' = [Occupancy EXCEPT !.count = @ + 1, !.bytes = @ + Size[cursor + 1]]
      BY <1>7, Zenon DEF Enqueue
    <3>2. Occupancy = Measured(files) /\ Measured(files).bytes = DiskBytes(files)
      BY <1>3
    <3> QED
      BY <3>1, <3>2, Zenon
  <2>2. cursor + 1 \in Events /\ Size[cursor + 1] \in Nat
    <3>1. cursor \in 0..NEvents /\ readTo \in 0..NEvents /\ NEvents \in Nat
      BY <1>0 DEF AgentType
    <3>2. cursor + 1 \in Events
      BY <2>1, <3>1 DEF Events
    <3> QED
      BY <1>0, <3>2
  <2>3. DiskBytes(files') = DiskBytes(files) + Size[cursor + 1] /\ Len(files') = Len(files) + 1
    BY <2>1, <2>2, <1>1, TotalAppend, AppendProperties DEF DiskBytes
  <2>4. cache' = [count |-> Len(files) + 1, bytes |-> DiskBytes(files) + Size[cursor + 1],
                  measured |-> TRUE]
    BY <2>1 DEF Measured
  <2>5. cache' = Measured(files')
    BY <2>3, <2>4, Zenon DEF Measured
  <2>6. cache' \in [count : Nat, bytes : Int, measured : BOOLEAN]
    BY <2>2, <2>4, <1>1, <1>2
  <2>7. DiskBytes(files') <= MaxBytes
    BY <2>1, <2>3
  <2> QED
    BY <2>5, <2>6, <2>7 DEF OccupancyInv, OccupancyHonest, DiskBytes, Measured
<1>8. CASE Ack
  <2>1. pc = "ack" /\ unacked > 0 /\ files' = Tail(files) /\ cache' = Acked
    BY <1>8 DEF Ack
  <2>2. files # <<>> /\ Len(files) >= 1
    BY <2>1, <1>0, <1>1, EmptySeq DEF Acknowledging, AgentType
  <2>3. Tail(files) \in Seq(Events) /\ Len(Tail(files)) = Len(files) - 1 /\ Head(files) \in Events
    BY <2>2, <1>1, HeadTailProperties
  <2>4. DiskBytes(Tail(files)) = DiskBytes(files) - Size[Head(files)] /\ DiskBytes(Tail(files)) \in Nat
        /\ Size[Head(files)] \in Nat
    BY <2>2, <2>3, <1>1, TotalTail, TotalType DEF DiskBytes
  <2>5. DiskBytes(Tail(files)) <= MaxBytes
    BY <2>4, <1>0, <1>2
  <2>6. cache' \in [count : Nat, bytes : Int, measured : BOOLEAN]
        /\ (cache'.measured => cache.measured)
    BY <2>1, <2>4, <1>0 DEF Acked
  <2>7. ASSUME cache.measured PROVE cache' = Measured(Tail(files))
    <3>1. cache.count = Len(files) /\ cache.bytes = DiskBytes(files) /\ cache.measured = TRUE
      BY <2>7, <1>0, <1>3
    <3>2. cache.count > 0 /\ cache.count - 1 = Len(Tail(files))
      BY <3>1, <2>2, <2>3, <1>1
    <3>3. cache.bytes - Size[Head(files)] = DiskBytes(Tail(files))
          /\ ~(DiskBytes(Tail(files)) < 0)
      BY <3>1, <2>4
    <3>4. Len(Tail(files)) = 0 => DiskBytes(Tail(files)) = 0
      BY <2>3, EmptySeq, TotalEmpty DEF DiskBytes
    <3>5. cache' = [count |-> Len(Tail(files)), bytes |-> DiskBytes(Tail(files)), measured |-> TRUE]
      BY <2>1, <3>1, <3>2, <3>3, <3>4 DEF Acked
    <3> QED
      BY <3>5 DEF Measured
  <2> QED
    BY <2>1, <2>5, <2>6, <2>7 DEF OccupancyInv, OccupancyHonest
<1>9. UNCHANGED <<files, cache>> \/ AckFails \/ EnqueueFull \/ Crash \/ Enqueue \/ Ack
  <2>1. CASE UNCHANGED agentVars
    BY <2>1 DEF agentVars
  <2>2. CASE Agent
    BY <2>2 DEF Agent, FlushSend, FlushNothing, SendAccepted, SendRefused, FlushDone,
       SourceRead, CommitEvent, PollDone
  <2>3. CASE Gateway \/ NextWindow
    BY <2>3 DEF Gateway, ReserveBatch, Publish, Respond, NextWindow
  <2>4. CASE Faulty
    BY <2>4 DEF Faulty, SendTimesOut, SourceReadFails, PublishFails
  <2> QED
    BY <2>1, <2>2, <2>3, <2>4 DEF AgentNext
<1> QED
  BY <1>4, <1>5, <1>6, <1>7, <1>8, <1>9

\* The scan of an empty directory is honest.
LEMMA OccupancyInit == AgentInit => OccupancyInv
<1> SUFFICES ASSUME AgentInit PROVE OccupancyInv
  OBVIOUS
<1>1. files = <<>> /\ cache = Measured(<<>>) /\ DiskBytes(<<>>) = 0
  BY DeliveryAssumption, TotalEmpty DEF AgentInit, DiskBytes
<1>2. Measured(<<>>) \in [count : Nat, bytes : Int, measured : BOOLEAN]
  BY <1>1 DEF Measured
<1> QED
  BY <1>1, <1>2, DeliveryAssumption DEF OccupancyInv, OccupancyHonest

-----------------------------------------------------------------------------
(* The copies of an event.                                                 *)

\* Each fault doubles the bound on an event's copies.
LEMMA PowerDoubles ==
  ASSUME NEW n \in Nat
  PROVE  2 ^ n \in Nat /\ 2 * 2 ^ n <= 2 ^ (n + 1)
<1> DEFINE S == 1..n
           T == 1..(n + 1)
           D == (SUBSET S) \X {0, 1}
           f == [x \in D |-> IF x[2] = 0 THEN x[1] ELSE x[1] \union {n + 1}]
<1>1. IsFiniteSet(S) /\ Cardinality(S) = n /\ IsFiniteSet(T) /\ Cardinality(T) = n + 1
  BY FS_Interval
<1>2. /\ IsFiniteSet(SUBSET S) /\ Cardinality(SUBSET S) = 2 ^ n
      /\ IsFiniteSet(SUBSET T) /\ Cardinality(SUBSET T) = 2 ^ (n + 1)
  <2> HIDE DEF S, T
  <2> QED
    BY <1>1, FS_SUBSET
<1>3. IsFiniteSet({0, 1}) /\ Cardinality({0, 1}) = 2
  <2>1. {0, 1} = 0..1
    OBVIOUS
  <2> QED
    <3>1. IsFiniteSet(0..1) /\ Cardinality(0..1) = IF 0 > 1 THEN 0 ELSE 1 - 0 + 1
      <4>1. 0 \in Int /\ 1 \in Int
        OBVIOUS
      <4> QED
        BY <4>1, FS_Interval, Zenon
    <3>2. (IF 0 > 1 THEN 0 ELSE 1 - 0 + 1) = 2
      OBVIOUS
    <3> QED
      BY <2>1, <3>1, <3>2, Zenon
<1>4. IsFiniteSet(D) /\ Cardinality(D) = 2 ^ n * 2
  <2> DEFINE A == SUBSET S
             B == {0, 1}
  <2>1. IsFiniteSet(A) /\ IsFiniteSet(B) /\ Cardinality(A) = 2 ^ n /\ Cardinality(B) = 2
    BY <1>2, <1>3
  <2>2. D = A \X B
    OBVIOUS
  <2> HIDE DEF A, B, D
  <2> QED
    BY <2>1, <2>2, FS_Product
<1>5. f \in Injection(D, SUBSET T)
  <2>1. \A x \in D : f[x] \in SUBSET T
    OBVIOUS
  <2>2. ASSUME NEW x \in D, NEW y \in D, f[x] = f[y] PROVE x = y
    <3>1. n + 1 \notin x[1] /\ n + 1 \notin y[1]
      OBVIOUS
    <3>2. x[2] = y[2]
      BY <2>2, <3>1
    <3>3. x[1] = y[1]
      BY <2>2, <3>1, <3>2
    <3> QED
      BY <3>2, <3>3
  <2> HIDE DEF T
  <2>3. f \in [D -> SUBSET T]
    BY <2>1
  <2> HIDE DEF f, D
  <2> QED
    BY <2>2, <2>3 DEF Injection, IsInjective
<1>6. Cardinality(D) <= Cardinality(SUBSET T)
  <2> HIDE DEF D, f, T
  <2> QED
    BY <1>2, <1>5, FS_Injection
<1>7. 2 ^ n \in Nat
  <2> HIDE DEF S
  <2> QED
    BY <1>2, FS_CardinalityType
<1> HIDE DEF D, T
<1> QED
  BY <1>2, <1>4, <1>6, <1>7

\* What is still to be published of an abandoned request.
Pending == {"received", "admitted"}

\* The places of an event in a queue up to a position, and those after it.
Before(q, e, b) == {i \in 1..Len(q) : q[i] = e /\ i <= b}
After(q, e, b) == {i \in 1..Len(q) : q[i] = e /\ i > b}

\* The copies of an event that requests nobody waits for may still publish.
Leftover(R, e) ==
    {t \in R \X Nat : /\ t[1].stage \in Pending
                      /\ t[2] \in 1..Len(t[1].items) /\ t[2] >= t[1].next
                      /\ t[1].items[t[2]] = e}

\* An event has finitely many places in a queue.
LEMMA PlacesFinite ==
  ASSUME NEW q \in Seq(Events), NEW e, NEW b
  PROVE  /\ IsFiniteSet(Before(q, e, b)) /\ Cardinality(Before(q, e, b)) \in Nat
         /\ IsFiniteSet(After(q, e, b)) /\ Cardinality(After(q, e, b)) \in Nat
<1>1. Before(q, e, b) \in SUBSET (1..Len(q)) /\ After(q, e, b) \in SUBSET (1..Len(q))
  BY DEF Before, After
<1>2. IsFiniteSet(1..Len(q))
  <2>1. 1 \in Int /\ Len(q) \in Int
    OBVIOUS
  <2> QED
    BY <2>1, FS_Interval
<1> QED
  BY <1>1, <1>2, FS_Subset, FS_CardinalityType

\* A queue's places of an event are those up to a position and those after it.
LEMMA PlacesSplit ==
  ASSUME NEW q \in Seq(Events), NEW e, NEW b \in Nat
  PROVE  Cardinality(After(q, e, 0)) = Cardinality(Before(q, e, b)) + Cardinality(After(q, e, b))
<1>1. After(q, e, 0) = Before(q, e, b) \union After(q, e, b)
  BY DEF Before, After
<1>2. Before(q, e, b) \intersect After(q, e, b) = {}
  BY DEF Before, After
<1>3. /\ IsFiniteSet(Before(q, e, b)) /\ IsFiniteSet(After(q, e, b))
      /\ Cardinality(Before(q, e, b)) \in Nat /\ Cardinality(After(q, e, b)) \in Nat
  BY PlacesFinite
<1>4. Cardinality(Before(q, e, b) \union After(q, e, b)) =
        Cardinality(Before(q, e, b)) + Cardinality(After(q, e, b))
          - Cardinality(Before(q, e, b) \intersect After(q, e, b))
  BY <1>3, FS_Union
<1>5. Cardinality(Before(q, e, b) \intersect After(q, e, b)) = 0
  BY <1>2, FS_EmptySet
<1>6. Cardinality(After(q, e, 0)) = Cardinality(Before(q, e, b) \union After(q, e, b))
  BY <1>1, Zenon
<1>7. Cardinality(Before(q, e, b) \union After(q, e, b)) =
        Cardinality(Before(q, e, b)) + Cardinality(After(q, e, b))
  BY <1>3, <1>4, <1>5
<1> QED
  BY <1>6, <1>7, Zenon

\* When the position moves on by one, the place it passes changes sides.
LEMMA PlacesAdvance ==
  ASSUME NEW q \in Seq(Events), NEW e, NEW b \in Nat, b + 1 \in 1..Len(q)
  PROVE  /\ q[b + 1] = e =>
              /\ Cardinality(Before(q, e, b + 1)) = Cardinality(Before(q, e, b)) + 1
              /\ Cardinality(After(q, e, b)) = Cardinality(After(q, e, b + 1)) + 1
         /\ q[b + 1] # e =>
              /\ Before(q, e, b + 1) = Before(q, e, b)
              /\ After(q, e, b + 1) = After(q, e, b)
<1>1. ASSUME q[b + 1] = e
      PROVE  /\ Cardinality(Before(q, e, b + 1)) = Cardinality(Before(q, e, b)) + 1
             /\ Cardinality(After(q, e, b)) = Cardinality(After(q, e, b + 1)) + 1
  <2>1. /\ Before(q, e, b + 1) = Before(q, e, b) \union {b + 1} /\ b + 1 \notin Before(q, e, b)
        /\ After(q, e, b) = After(q, e, b + 1) \union {b + 1} /\ b + 1 \notin After(q, e, b + 1)
    BY <1>1 DEF Before, After
  <2>2. IsFiniteSet(Before(q, e, b)) /\ IsFiniteSet(After(q, e, b + 1))
    BY PlacesFinite
  <2> QED
    BY <2>1, <2>2, FS_AddElement
<1>2. ASSUME q[b + 1] # e
      PROVE Before(q, e, b + 1) = Before(q, e, b) /\ After(q, e, b + 1) = After(q, e, b)
  BY <1>2 DEF Before, After
<1> QED
  BY <1>1, <1>2

\* Removing the first file moves the others up by one.
LEMMA PlacesTail ==
  ASSUME NEW q \in Seq(Events), q # <<>>, NEW e, NEW b \in Nat
  PROVE  /\ Cardinality(Before(Tail(q), e, b)) <= Cardinality(Before(q, e, b + 1))
         /\ Cardinality(After(Tail(q), e, b)) <= Cardinality(After(q, e, b + 1))
<1> DEFINE p == Tail(q)
<1>1. /\ p \in Seq(Events) /\ Len(p) = Len(q) - 1 /\ Len(q) \in Nat
      /\ \A i \in 1..Len(p) : p[i] = q[i + 1]
  BY HeadTailProperties
<1> HIDE DEF p
<1>2. ASSUME NEW S, NEW T, IsFiniteSet(T), S \subseteq 1..Len(p), \A i \in S : i + 1 \in T
      PROVE  Cardinality(S) <= Cardinality(T)
  <2> DEFINE f == [i \in S |-> i + 1]
  <2>1. f \in [S -> T]
    BY <1>2
  <2>2. \A x, y \in S : x + 1 = y + 1 => x = y
    BY <1>2
  <2>3. f \in Injection(S, T)
    BY <2>1, <2>2 DEF Injection, IsInjective
  <2> HIDE DEF f
  <2> QED
    BY <2>3, <1>2, FS_Injection
<1>3. \A i \in Before(p, e, b) : i + 1 \in Before(q, e, b + 1)
  BY <1>1 DEF Before
<1>4. \A i \in After(p, e, b) : i + 1 \in After(q, e, b + 1)
  BY <1>1 DEF After
<1>5. Before(p, e, b) \subseteq 1..Len(p) /\ After(p, e, b) \subseteq 1..Len(p)
  BY DEF Before, After
<1>6. IsFiniteSet(Before(q, e, b + 1)) /\ IsFiniteSet(After(q, e, b + 1))
  BY PlacesFinite
<1>7. Cardinality(Before(p, e, b)) <= Cardinality(Before(q, e, b + 1))
  BY <1>2, <1>3, <1>5, <1>6
<1>8. Cardinality(After(p, e, b)) <= Cardinality(After(q, e, b + 1))
  BY <1>2, <1>4, <1>5, <1>6
<1> QED
  BY <1>7, <1>8 DEF p

\* A new file is one place more of its event.
LEMMA PlacesAppend ==
  ASSUME NEW q \in Seq(Events), NEW x \in Events, NEW e
  PROVE  Cardinality(After(Append(q, x), e, 0)) =
           IF x = e THEN Cardinality(After(q, e, 0)) + 1 ELSE Cardinality(After(q, e, 0))
<1> DEFINE p == Append(q, x)
<1>1. /\ p \in Seq(Events) /\ Len(p) = Len(q) + 1 /\ p[Len(q) + 1] = x /\ Len(q) \in Nat
      /\ \A i \in 1..Len(q) : p[i] = q[i]
  BY AppendProperties
<1> HIDE DEF p
<1>2. CASE x = e
  <2>1. After(p, e, 0) = After(q, e, 0) \union {Len(q) + 1} /\ Len(q) + 1 \notin After(q, e, 0)
    BY <1>1, <1>2 DEF After
  <2>2. IsFiniteSet(After(q, e, 0))
    BY PlacesFinite
  <2> QED
    BY <2>1, <2>2, <1>2, FS_AddElement DEF p
<1>3. CASE x # e
  <2>1. After(p, e, 0) = After(q, e, 0)
    BY <1>1, <1>3 DEF After
  <2> QED
    BY <2>1, <1>3 DEF p
<1> QED
  BY <1>2, <1>3

\* A request that is given up may still publish what it holds from its next
\* item on.
LEMMA LeftoverAdd ==
  ASSUME NEW R, NEW e, IsFiniteSet(Leftover(R, e)), NEW q \in Seq(Events),
         NEW r \in AwaitedRequests, Len(r.items) <= Len(q),
         \A i \in 1..Len(r.items) : r.items[i] = q[i]
  PROVE  /\ IsFiniteSet(Leftover(R \union {r}, e))
         /\ Cardinality(Leftover(R \union {r}, e)) <=
              Cardinality(Leftover(R, e)) + Cardinality(After(q, e, r.next - 1))
         /\ r.stage \notin Pending => Leftover(R \union {r}, e) = Leftover(R, e)
<1> DEFINE N == Leftover({r}, e)
           A == After(q, e, r.next - 1)
           f == [t \in N |-> t[2]]
<1>0. r.items \in Seq(Events) /\ r.next \in Nat /\ Len(r.items) \in Nat
  BY DEF AwaitedRequests
<1>1. Leftover(R \union {r}, e) = Leftover(R, e) \union N
  BY DEF Leftover
<1>2. IsFiniteSet(A) /\ Cardinality(A) \in Nat
  BY PlacesFinite
<1>3. f \in Injection(N, A)
  <2>1. \A t \in N : t[2] \in A
    BY <1>0 DEF Leftover, After
  <2>2. \A s, t \in N : s[2] = t[2] => s = t
    BY DEF Leftover
  <2> HIDE DEF N, A
  <2> QED
    BY <2>1, <2>2 DEF Injection, IsInjective
<1>4. IsFiniteSet(N) /\ Cardinality(N) <= Cardinality(A)
  <2> HIDE DEF N, A, f
  <2> QED
    BY <1>2, <1>3, FS_Injection
<1>5. r.stage \notin Pending => N = {}
  BY DEF Leftover
<1>6. /\ IsFiniteSet(Leftover(R, e) \union N)
      /\ Cardinality(Leftover(R, e) \union N) <= Cardinality(Leftover(R, e)) + Cardinality(N)
  <2> HIDE DEF N
  <2>1. /\ Cardinality(Leftover(R, e) \union N) =
             Cardinality(Leftover(R, e)) + Cardinality(N)
               - Cardinality(Leftover(R, e) \intersect N)
        /\ IsFiniteSet(Leftover(R, e) \union N)
    BY <1>4, FS_Union
  <2>2. IsFiniteSet(Leftover(R, e) \intersect N)
    BY <1>4, FS_Intersection
  <2>3. /\ Cardinality(Leftover(R, e)) \in Nat /\ Cardinality(N) \in Nat
        /\ Cardinality(Leftover(R, e) \intersect N) \in Nat
    BY <1>4, <2>2, FS_CardinalityType
  <2> QED
    BY <2>1, <2>3
<1>7. Cardinality(N) \in Nat /\ Cardinality(Leftover(R, e)) \in Nat
  <2> HIDE DEF N
  <2> QED
    BY <1>4, FS_CardinalityType
<1>8. r.stage \notin Pending => Leftover(R \union {r}, e) = Leftover(R, e)
  BY <1>1, <1>5
<1> HIDE DEF N, A
<1>9. Cardinality(Leftover(R \union {r}, e)) <= Cardinality(Leftover(R, e)) + Cardinality(A)
  <2>1. Cardinality(Leftover(R, e) \union N) \in Nat
    BY <1>6, FS_CardinalityType
  <2>2. Cardinality(Leftover(R, e) \union N) <= Cardinality(Leftover(R, e)) + Cardinality(A)
    BY <2>1, <1>2, <1>4, <1>6, <1>7
  <2> QED
    BY <2>2, <1>1
<1> QED
  BY <1>1, <1>6, <1>8, <1>9 DEF A

\* What the gateway does to an abandoned request adds no copy to come, and
\* takes off the item it has dealt with.
LEMMA LeftoverServe ==
  ASSUME NEW R, NEW e, IsFiniteSet(Leftover(R, e)), NEW r \in R, NEW a,
         a.items = r.items, a.next \in Nat, r.next \in Nat, a.next >= r.next,
         a.stage \in Pending => r.stage \in Pending
  PROVE  /\ IsFiniteSet(Leftover((R \ {r}) \union {a}, e))
         /\ Cardinality(Leftover((R \ {r}) \union {a}, e)) <= Cardinality(Leftover(R, e))
         /\ \A k : (<<r, k>> \in Leftover(R, e) /\ ~(a.stage \in Pending /\ k >= a.next)) =>
              Cardinality(Leftover((R \ {r}) \union {a}, e)) + 1 <= Cardinality(Leftover(R, e))
<1> DEFINE N == Leftover((R \ {r}) \union {a}, e)
           L == Leftover(R, e)
           f == [t \in N |-> IF t[1] = a THEN <<r, t[2]>> ELSE t]
<1>1. ASSUME NEW t \in N
      PROVE  /\ f[t] \in L /\ (t[1] # a => t[1] # r)
             /\ t[1] = a => a.stage \in Pending /\ t[2] >= a.next
             /\ t[1] \in (R \ {r}) \union {a} /\ t[2] \in Nat /\ t = <<t[1], t[2]>>
  <2>1. /\ t[1] \in (R \ {r}) \union {a} /\ t[2] \in Nat /\ t = <<t[1], t[2]>>
        /\ t[1].stage \in Pending /\ t[2] \in 1..Len(t[1].items) /\ t[2] >= t[1].next
        /\ t[1].items[t[2]] = e
    BY DEF Leftover
  <2>2. f[t] = IF t[1] = a THEN <<r, t[2]>> ELSE t
    OBVIOUS
  <2> HIDE DEF N, f
  <2>3. CASE t[1] = a
    <3>1. t[2] >= r.next
      BY <2>1, <2>3
    <3>2. <<r, t[2]>> \in R \X Nat
      BY <2>1
    <3>3. <<r, t[2]>> \in L
      BY <2>1, <2>3, <3>1, <3>2 DEF Leftover
    <3> QED
      BY <2>1, <2>2, <2>3, <3>3
  <2>4. CASE t[1] # a
    <3>1. t[1] \in R /\ t[1] # r
      BY <2>1, <2>4
    <3>2. t \in L
      BY <2>1, <3>1 DEF Leftover
    <3> QED
      BY <2>1, <2>2, <2>4, <3>1, <3>2
  <2> QED
    BY <2>3, <2>4
<1>2. ASSUME NEW s \in N, NEW t \in N, f[s] = f[t] PROVE s = t
  <2>1. f[s] = (IF s[1] = a THEN <<r, s[2]>> ELSE s) /\ f[t] = (IF t[1] = a THEN <<r, t[2]>> ELSE t)
    OBVIOUS
  <2>2. s = <<s[1], s[2]>> /\ t = <<t[1], t[2]>> /\ (s[1] # a => s[1] # r) /\ (t[1] # a => t[1] # r)
    BY <1>1
  <2> HIDE DEF N, f
  <2> QED
    BY <2>1, <2>2, <1>2
<1> HIDE DEF N, L
<1>3. f \in Injection(N, L)
  BY <1>1, <1>2 DEF Injection, IsInjective
<1>4. IsFiniteSet(N) /\ Cardinality(N) <= Cardinality(L)
  <2> HIDE DEF f
  <2> QED
    BY <1>3, FS_Injection DEF L
<1>5. ASSUME NEW k, <<r, k>> \in L, ~(a.stage \in Pending /\ k >= a.next)
      PROVE  Cardinality(N) + 1 <= Cardinality(L)
  <2> DEFINE M == L \ {<<r, k>>}
  <2>1. IsFiniteSet(M) /\ Cardinality(M) = Cardinality(L) - 1
    BY <1>5, FS_RemoveElement DEF L
  <2>2. ASSUME NEW t \in N PROVE f[t] # <<r, k>>
    <3>1. f[t] = IF t[1] = a THEN <<r, t[2]>> ELSE t
      OBVIOUS
    <3> HIDE DEF f
    <3> QED
      BY <3>1, <1>1, <1>5
  <2>3. f \in Injection(N, M)
    <3>1. f \in [N -> M]
      BY <1>1, <2>2
    <3> HIDE DEF M, f
    <3> QED
      BY <3>1, <1>3 DEF Injection
  <2>4. Cardinality(N) <= Cardinality(M)
    <3> HIDE DEF M, f
    <3> QED
      BY <2>1, <2>3, FS_Injection
  <2>5. Cardinality(N) \in Nat /\ Cardinality(L) \in Nat
    BY <1>4, FS_CardinalityType DEF L
  <2> HIDE DEF M
  <2> QED
    BY <2>1, <2>4, <2>5
<1> QED
  BY <1>4, <1>5 DEF N, L

\* Requests as flush makes them and the gateway serves them.
ServedRequests ==
    {r \in AwaitedRequests : /\ r.next \in 1..(Len(r.items) + 1)
                             /\ r.stage = "received" => r.next = 1}

\* The files at the front of the queue that are in the topic because of the
\* batch the agent waits for or acknowledges.
Settled ==
    IF pc = "await" /\ request.stage # "refused" THEN request.next - 1
    ELSE IF pc = "ack" THEN unacked ELSE 0

Sent(e) == Cardinality(Before(files, e, Settled))
ToSend(e) == Cardinality(After(files, e, Settled))
Late(e) == Cardinality(Leftover(abandoned, e))
Unread(e) == IF e > (IF pc = "commit" THEN cursor + 1 ELSE cursor) THEN 1 ELSE 0

RequestsServed ==
    abandoned \subseteq ServedRequests /\ (pc = "await" => request \in ServedRequests)

\* An event's copies: those in the topic, those abandoned requests may still
\* publish, those queued and not yet sent, and the one still to be read.
CopiesOf(e) ==
    /\ IsFiniteSet(Leftover(abandoned, e))
    /\ Sent(e) <= topic[e]
    /\ topic[e] + Late(e) + ToSend(e) + Unread(e) <= 2 ^ faults

CopiesInv == RequestsServed /\ \A e \in Events : CopiesOf(e)

\* The counts are natural numbers, and an event's places in the queue are the ones
\* settled and the ones to be sent.
LEMMA CopiesFacts ==
  ASSUME DeliveryInv, CopiesInv, NEW e \in Events
  PROVE  /\ topic[e] \in Nat /\ Late(e) \in Nat /\ Sent(e) \in Nat
         /\ ToSend(e) \in Nat /\ Unread(e) \in {0, 1} /\ Settled \in Nat
         /\ Cardinality(After(files, e, 0)) = Sent(e) + ToSend(e)
         /\ 2 ^ faults \in Nat /\ 2 ^ (faults + 1) \in Nat
         /\ 2 * 2 ^ faults <= 2 ^ (faults + 1)
<1>0. AgentType /\ RequestsServed /\ CopiesOf(e)
  BY DEF DeliveryInv, CopiesInv
<1>1. topic[e] \in Nat /\ files \in Seq(Events) /\ faults \in Nat
  BY <1>0 DEF AgentType
<1>2. Settled \in Nat
  BY <1>0 DEF Settled, RequestsServed, ServedRequests, AgentType
<1>3. Late(e) \in Nat
  BY <1>0, FS_CardinalityType DEF CopiesOf, Late
<1>4. Sent(e) \in Nat /\ ToSend(e) \in Nat
  BY <1>1, PlacesFinite DEF Sent, ToSend
<1>5. Cardinality(After(files, e, 0)) = Sent(e) + ToSend(e)
  BY <1>1, <1>2, PlacesSplit DEF Sent, ToSend
<1>6. Unread(e) \in {0, 1}
  BY DEF Unread
<1>7. 2 ^ faults \in Nat /\ 2 ^ (faults + 1) \in Nat /\ 2 * 2 ^ faults <= 2 ^ (faults + 1)
  <2>1. faults + 1 \in Nat
    BY <1>1
  <2> QED
    BY <1>1, <2>1, PowerDoubles
<1> QED
  BY <1>1, <1>2, <1>3, <1>4, <1>5, <1>6, <1>7

\* At the start every event is still to be read, once.
LEMMA CopiesInit == AgentInit => CopiesInv
<1> SUFFICES ASSUME AgentInit PROVE CopiesInv
  OBVIOUS
<1>1. RequestsServed
  BY DEF AgentInit, RequestsServed
<1>2. ASSUME NEW e \in Events PROVE CopiesOf(e)
  <2>1. Leftover(abandoned, e) = {} /\ Before(files, e, Settled) = {} /\ After(files, e, Settled) = {}
    BY DEF AgentInit, Leftover, Before, After
  <2>2. IsFiniteSet(Leftover(abandoned, e)) /\ Late(e) = 0 /\ Sent(e) = 0 /\ ToSend(e) = 0
    BY <2>1, FS_EmptySet DEF Late, Sent, ToSend
  <2>3. topic[e] = 0 /\ 2 ^ faults = 1 /\ Unread(e) \in {0, 1}
    BY DEF AgentInit, Unread
  <2> QED
    BY <2>2, <2>3 DEF CopiesOf
<1> QED
  BY <1>1, <1>2 DEF CopiesInv

\* A step that moves no event changes no count.
LEMMA CopiesQuiet ==
  ASSUME DeliveryInv, CopiesInv, UNCHANGED <<files, topic, abandoned>>,
         Settled' = Settled, \A e \in Events : Unread(e)' = Unread(e),
         faults' = faults \/ faults' = faults + 1, RequestsServed'
  PROVE  CopiesInv'
<1> SUFFICES ASSUME NEW e \in Events PROVE CopiesOf(e)'
  BY DEF CopiesInv
<1>1. CopiesOf(e)
  BY DEF CopiesInv
<1>2. Late(e)' = Late(e) /\ Sent(e)' = Sent(e) /\ ToSend(e)' = ToSend(e)
      /\ topic'[e] = topic[e] /\ Leftover(abandoned, e)' = Leftover(abandoned, e)
  BY DEF Late, Sent, ToSend
<1>3. Unread(e)' = Unread(e)
  OBVIOUS
<1>4. 2 ^ faults <= 2 ^ faults' /\ 2 ^ faults' \in Nat
  BY CopiesFacts
<1>5. topic[e] + Late(e) + ToSend(e) + Unread(e) <= 2 ^ faults'
  BY <1>1, <1>4, CopiesFacts DEF CopiesOf
<1> QED
  BY <1>1, <1>2, <1>3, <1>5 DEF CopiesOf

\* The steps of the agent's loop that succeed and move no event.
LEMMA CopiesPlain ==
  ASSUME DeliveryInv, CopiesInv,
         FlushNothing \/ SendRefused \/ FlushDone \/ SourceRead \/ SourceReadFails
           \/ EnqueueFull \/ PollDone \/ CommitEvent \/ NextWindow
  PROVE  CopiesInv'
<1>0. AgentType /\ RequestsServed /\ cursor \in Int
  BY DEF DeliveryInv, CopiesInv, AgentType
<1>1. UNCHANGED <<files, topic, abandoned>>
  BY DEF FlushNothing, SendRefused, FlushDone, SourceRead, SourceReadFails, EnqueueFull,
     PollDone, CommitEvent, NextWindow
<1>2. faults' = faults \/ faults' = faults + 1
  BY DEF FlushNothing, SendRefused, FlushDone, SourceRead, SourceReadFails, EnqueueFull,
     PollDone, CommitEvent, NextWindow
<1>3. Settled' = Settled
  BY DEF FlushNothing, SendRefused, FlushDone, SourceRead, SourceReadFails, EnqueueFull,
     PollDone, CommitEvent, NextWindow, Settled
<1>4. \A e \in Events : Unread(e)' = Unread(e)
  BY DEF FlushNothing, SendRefused, FlushDone, SourceRead, SourceReadFails, EnqueueFull,
     PollDone, CommitEvent, NextWindow, Unread
<1>5. RequestsServed'
  BY <1>0 DEF FlushNothing, SendRefused, FlushDone, SourceRead, SourceReadFails, EnqueueFull,
     PollDone, CommitEvent, NextWindow, RequestsServed
<1> QED
  BY <1>1, <1>2, <1>3, <1>4, <1>5, CopiesQuiet

\* flush sends the files from the first one on; its answer comes when all of
\* them are published.
LEMMA CopiesSend ==
  ASSUME DeliveryInv, CopiesInv, DeliveryInv', FlushSend \/ SendAccepted
  PROVE  CopiesInv'
<1>0. AgentType /\ RequestsServed
  BY DEF DeliveryInv, CopiesInv, AgentType
<1>1. UNCHANGED <<files, topic, abandoned, faults, cursor>> /\ pc # "commit" /\ pc' # "commit"
  BY DEF FlushSend, SendAccepted
<1>2. \A e \in Events : Unread(e)' = Unread(e)
  BY <1>1 DEF Unread
<1>3. CASE FlushSend
  <2>1. /\ request' \in AwaitedRequests /\ request'.next = 1 /\ request'.stage = "received"
        /\ pc = "drain" /\ pc' = "await"
    BY <1>3 DEF FlushSend, DeliveryInv, Awaiting
  <2>2. Len(request'.items) \in Nat
    BY <2>1 DEF AwaitedRequests
  <2>3. RequestsServed'
    BY <1>0, <1>1, <2>1, <2>2 DEF RequestsServed, ServedRequests
  <2>4. Settled = 0 /\ Settled' = 0
    BY <2>1 DEF Settled
  <2> QED
    BY <1>1, <1>2, <2>3, <2>4, CopiesQuiet
<1>4. CASE SendAccepted
  <2>1. /\ pc = "await" /\ pc' = "ack" /\ unacked' = Len(request.items)
        /\ request.stage = "accepted"
    BY <1>4 DEF SendAccepted
  <2>2. request.next > Len(request.items) /\ request \in ServedRequests
    BY <2>1, <1>0 DEF DeliveryInv, Awaiting, RequestsServed
  <2>3. request.next = Len(request.items) + 1 /\ Len(request.items) \in Nat
    BY <2>2 DEF ServedRequests, AwaitedRequests
  <2>4. Settled' = Settled
    BY <2>1, <2>3 DEF Settled
  <2>5. RequestsServed'
    BY <1>0, <1>1, <2>1 DEF RequestsServed
  <2> QED
    BY <1>1, <1>2, <2>4, <2>5, CopiesQuiet
<1> QED
  BY <1>3, <1>4

\* What a fault may repeat was sent or is to be sent: it doubles an event's
\* copies at most.
LEMMA CopiesGiveUp ==
  ASSUME DeliveryInv, CopiesInv, SendTimesOut \/ AckFails \/ Crash
  PROVE  CopiesInv'
<1>0. AgentType /\ RequestsServed /\ Awaiting /\ BeforeCommit
  BY DEF DeliveryInv, CopiesInv
<1>1. UNCHANGED <<files, topic, cursor>> /\ faults' = faults + 1 /\ pc' \in {"read", "drain"}
  BY DEF SendTimesOut, AckFails, Crash
<1>2. abandoned' = abandoned \/ (pc = "await" /\ abandoned' = abandoned \union {request})
  BY DEF SendTimesOut, AckFails, Crash
<1>3. Settled' = 0
  BY <1>1 DEF Settled
<1>4. RequestsServed'
  BY <1>0, <1>1, <1>2 DEF RequestsServed
<1> SUFFICES ASSUME NEW e \in Events PROVE CopiesOf(e)'
  BY <1>4 DEF CopiesInv
<1>5. CopiesOf(e)
  BY DEF CopiesInv
<1>6. files \in Seq(Events) /\ cursor \in Int /\ faults \in Nat
  BY <1>0 DEF AgentType
<1>7. ToSend(e)' = Sent(e) + ToSend(e)
  <2>1. ToSend(e)' = Cardinality(After(files, e, 0))
    BY <1>1, <1>3 DEF ToSend
  <2> QED
    BY <2>1, CopiesFacts
<1>8. Sent(e)' = 0
  <2>1. Before(files, e, 0) = {}
    BY DEF Before
  <2> QED
    BY <2>1, <1>1, <1>3, FS_EmptySet DEF Sent
<1>9. topic'[e] = topic[e] /\ 2 ^ faults' = 2 ^ (faults + 1)
  BY <1>1
<1>10. Unread(e)' = Unread(e) \/ (pc = "commit" /\ Unread(e)' = 1 /\ ToSend(e) >= 1)
  <2>1. CASE pc # "commit"
    BY <2>1, <1>1 DEF Unread
  <2>2. CASE pc = "commit" /\ e # cursor + 1
    BY <2>2, <1>1, <1>6 DEF Unread, Events
  <2>3. CASE pc = "commit" /\ e = cursor + 1
    <3>1. PICK i \in 1..Len(files) : files[i] = e
      BY <2>3, <1>0 DEF BeforeCommit, OnDisk
    <3>2. Settled = 0
      BY <2>3 DEF Settled
    <3>3. i \in After(files, e, Settled)
      BY <3>1, <3>2 DEF After
    <3>4. ToSend(e) # 0
      BY <3>3, <1>6, PlacesFinite, FS_EmptySet DEF ToSend
    <3>5. Unread(e)' = 1
      BY <2>3, <1>1, <1>6 DEF Unread
    <3> QED
      BY <2>3, <3>4, <3>5, CopiesFacts
  <2> QED
    BY <2>1, <2>2, <2>3
<1>11. /\ IsFiniteSet(Leftover(abandoned, e))' /\ Late(e)' \in Nat
       /\ Late(e)' <= Late(e) + ToSend(e) /\ (pc = "commit" => Late(e)' = Late(e))
  <2>1. CASE abandoned' = abandoned
    BY <2>1, <1>5, CopiesFacts DEF CopiesOf, Late
  <2>2. CASE pc = "await" /\ abandoned' = abandoned \union {request}
    <3>1. /\ request \in AwaitedRequests /\ Len(request.items) <= Len(files)
          /\ \A i \in 1..Len(request.items) : request.items[i] = files[i]
      BY <2>2, <1>0 DEF Awaiting
    <3> DEFINE N == Leftover(abandoned \union {request}, e)
    <3>2. /\ IsFiniteSet(N)
          /\ Cardinality(N) <= Late(e) + Cardinality(After(files, e, request.next - 1))
          /\ request.stage \notin Pending => N = Leftover(abandoned, e)
      BY <3>1, <1>5, <1>6, LeftoverAdd DEF CopiesOf, Late
    <3>3. Late(e)' = Cardinality(N) /\ Leftover(abandoned, e)' = N
      BY <2>2 DEF Late
    <3> HIDE DEF N
    <3>4. Cardinality(N) \in Nat
      BY <3>2, FS_CardinalityType
    <3>5. CASE request.stage \in Pending
      <4>1. ToSend(e) = Cardinality(After(files, e, request.next - 1))
        BY <3>5, <2>2 DEF ToSend, Settled, Pending
      <4> QED
        BY <4>1, <3>2, <3>3, <3>4, <2>2
    <3>6. CASE request.stage \notin Pending
      <4>1. Late(e)' = Late(e)
        BY <3>6, <3>2, <3>3 DEF Late
      <4> QED
        BY <4>1, <3>2, <3>3, <3>4, CopiesFacts
    <3> QED
      BY <3>5, <3>6
  <2> QED
    BY <1>2, <2>1, <2>2
<1>12. topic[e] + Late(e)' + (Sent(e) + ToSend(e)) + Unread(e)' <= 2 ^ (faults + 1)
  <2> DEFINE P == topic[e]
             A == Late(e)
             S == Sent(e)
             L == ToSend(e)
             F == 2 ^ faults
             G == 2 ^ (faults + 1)
             B == Late(e)'
             u == Unread(e)
             v == Unread(e)'
  <2>1. P \in Nat /\ A \in Nat /\ S \in Nat /\ L \in Nat /\ F \in Nat /\ G \in Nat /\ u \in {0, 1}
        /\ 2 * F <= G
    BY CopiesFacts
  <2>2. S <= P /\ P + A + L + u <= F
    BY <1>5 DEF CopiesOf
  <2>3. B \in Nat /\ B <= A + L
    BY <1>11
  <2>4. ASSUME v = u PROVE P + B + (S + L) + v <= G
    <3> HIDE DEF P, A, S, L, F, G, B, u, v
    <3> QED
      BY <2>1, <2>2, <2>3, <2>4
  <2>5. ASSUME v = 1, L >= 1, pc = "commit" PROVE P + B + (S + L) + v <= G
    <3>1. B = A
      BY <2>5, <1>11
    <3> HIDE DEF P, A, S, L, F, G, B, u, v
    <3> QED
      BY <2>1, <2>2, <2>3, <2>5, <3>1
  <2> QED
    BY <1>10, <2>4, <2>5
<1>13. topic[e] >= 0
  BY CopiesFacts
<1> QED
  BY <1>7, <1>8, <1>9, <1>11, <1>12, <1>13 DEF CopiesOf

\* Ack removes a file that is in the topic; the others move up.
LEMMA CopiesAck ==
  ASSUME DeliveryInv, CopiesInv, Ack PROVE CopiesInv'
<1>0. AgentType /\ RequestsServed /\ Acknowledging
  BY DEF DeliveryInv, CopiesInv
<1>1. pc = "ack" /\ pc' = "ack" /\ files' = Tail(files) /\ unacked' = unacked - 1
      /\ unacked > 0 /\ UNCHANGED <<cursor, abandoned, topic, faults>>
  BY DEF Ack
<1>2. files \in Seq(Events) /\ unacked - 1 \in Nat /\ unacked = (unacked - 1) + 1 /\ files # <<>>
  BY <1>0, <1>1, EmptySeq DEF AgentType, Acknowledging
<1>3. RequestsServed'
  BY <1>0, <1>1 DEF RequestsServed
<1> SUFFICES ASSUME NEW e \in Events PROVE CopiesOf(e)'
  BY <1>3 DEF CopiesInv
<1>4. CopiesOf(e)
  BY DEF CopiesInv
<1>5. Settled = (unacked - 1) + 1 /\ Settled' = unacked - 1
  BY <1>1, <1>2 DEF Settled
<1>6. Sent(e)' <= Sent(e) /\ ToSend(e)' <= ToSend(e)
  BY <1>1, <1>2, <1>5, PlacesTail DEF Sent, ToSend
<1>7. Sent(e)' \in Nat /\ ToSend(e)' \in Nat
  <2>1. files' \in Seq(Events)
    BY <1>1, <1>2, HeadTailProperties
  <2> QED
    BY <2>1, PlacesFinite DEF Sent, ToSend
<1>8. Unread(e)' = Unread(e) /\ Late(e)' = Late(e) /\ topic'[e] = topic[e]
      /\ Leftover(abandoned, e)' = Leftover(abandoned, e) /\ 2 ^ faults' = 2 ^ faults
  BY <1>1 DEF Unread, Late
<1>9. Sent(e)' <= topic[e]
  BY <1>4, <1>6, <1>7, CopiesFacts DEF CopiesOf
<1>10. topic[e] + Late(e) + ToSend(e)' + Unread(e) <= 2 ^ faults
  BY <1>4, <1>6, <1>7, CopiesFacts DEF CopiesOf
<1> QED
  BY <1>4, <1>8, <1>9, <1>10 DEF CopiesOf

\* An event read from the source takes one place in the queue.
LEMMA CopiesEnqueue ==
  ASSUME DeliveryInv, CopiesInv, Enqueue PROVE CopiesInv'
<1> USE DeliveryAssumption
<1>0. AgentType /\ RequestsServed
  BY DEF DeliveryInv, CopiesInv
<1>1. pc = "poll" /\ pc' = "commit" /\ files' = Append(files, cursor + 1) /\ cursor < readTo
      /\ UNCHANGED <<cursor, abandoned, topic, faults>>
  BY DEF Enqueue
<1>2. files \in Seq(Events) /\ cursor + 1 \in Events /\ cursor \in Nat
  BY <1>0, <1>1 DEF AgentType, Events
<1>3. RequestsServed'
  BY <1>0, <1>1 DEF RequestsServed
<1> SUFFICES ASSUME NEW e \in Events PROVE CopiesOf(e)'
  BY <1>3 DEF CopiesInv
<1>4. CopiesOf(e) /\ e \in Nat
  BY DEF CopiesInv, Events
<1>5. Settled = 0 /\ Settled' = 0
  BY <1>1 DEF Settled
<1>6. ToSend(e)' = IF cursor + 1 = e THEN ToSend(e) + 1 ELSE ToSend(e)
  BY <1>1, <1>2, <1>5, PlacesAppend DEF ToSend
<1>7. Unread(e) = IF cursor + 1 = e THEN Unread(e)' + 1 ELSE Unread(e)'
  BY <1>1, <1>2, <1>4 DEF Unread
<1>8. Late(e)' = Late(e) /\ topic'[e] = topic[e] /\ 2 ^ faults' = 2 ^ faults
      /\ Leftover(abandoned, e)' = Leftover(abandoned, e)
  BY <1>1 DEF Late
<1>9. Sent(e)' = 0
  <2>1. Before(files, e, Settled)' = {}
    BY <1>5 DEF Before
  <2> QED
    BY <2>1, FS_EmptySet DEF Sent
<1>10. Unread(e)' \in {0, 1}
  BY DEF Unread
<1>11. topic[e] + Late(e) + ToSend(e)' + Unread(e)' <= 2 ^ faults
  BY <1>4, <1>6, <1>7, <1>10, CopiesFacts DEF CopiesOf
<1> QED
  BY <1>4, <1>8, <1>9, <1>11, CopiesFacts DEF CopiesOf

\* The gateway takes request r one step on, to after: what becomes of the
\* topic and of the faults.
ServedAs(r, after, written) ==
    \/ /\ r.stage = "received" /\ UNCHANGED <<topic, faults>>
       /\ \/ after = [r EXCEPT !.stage = "admitted"]
          \/ after = [r EXCEPT !.stage = "refused"]
    \/ /\ r.stage = "admitted" /\ r.next <= Len(r.items)
       /\ topic' = [topic EXCEPT ![r.items[r.next]] = @ + 1]
       /\ after = [r EXCEPT !.next = @ + 1] /\ UNCHANGED faults
    \/ /\ r.stage = "admitted" /\ r.next <= Len(r.items)
       /\ topic' = [topic EXCEPT ![r.items[r.next]] = @ + written]
       /\ after = [r EXCEPT !.stage = "refused"] /\ faults' = faults + 1
    \/ /\ r.stage = "admitted" /\ r.next > Len(r.items)
       /\ after = [r EXCEPT !.stage = "accepted"] /\ UNCHANGED <<topic, faults>>

\* What serving a request leaves of it.
LEMMA ServedShape ==
  ASSUME NEW r \in ServedRequests, NEW a, NEW written, ServedAs(r, a, written)
  PROVE  a \in ServedRequests /\ a.items = r.items /\ a.next \in {r.next, r.next + 1}
         /\ (a.stage \in Pending => r.stage \in Pending)
         /\ r.next \in Nat \ {0} /\ Len(r.items) \in Nat /\ r.items \in Seq(Events)
<1>1. r \in AwaitedRequests /\ r.next \in 1..(Len(r.items) + 1)
  BY DEF ServedRequests
<1>2. r.items \in Seq(Events) /\ Len(r.items) \in Nat /\ r.next \in Nat /\ r.next + 1 \in Nat
      /\ r.next # 0 /\ r.next <= Len(r.items) + 1
  BY <1>1 DEF AwaitedRequests
<1>3. CASE a = [r EXCEPT !.next = @ + 1] /\ r.stage = "admitted" /\ r.next <= Len(r.items)
  <2>1. a \in AwaitedRequests /\ a.items = r.items /\ a.next = r.next + 1 /\ a.stage = r.stage
    BY <1>1, <1>2, <1>3 DEF AwaitedRequests
  <2>2. a.next \in 1..(Len(a.items) + 1)
    BY <2>1, <1>2, <1>3
  <2> QED
    BY <2>1, <2>2, <1>2, <1>3 DEF ServedRequests
<1>4. ASSUME NEW s \in {"admitted", "refused", "accepted"}, a = [r EXCEPT !.stage = s],
             s = "admitted" => r.stage = "received"
      PROVE  a \in ServedRequests /\ a.items = r.items /\ a.next = r.next
             /\ (a.stage \in Pending => r.stage \in Pending)
  <2>1. a \in AwaitedRequests /\ a.items = r.items /\ a.next = r.next /\ a.stage = s
    BY <1>1, <1>4 DEF AwaitedRequests, Stages
  <2> QED
    BY <2>1, <1>1, <1>4 DEF ServedRequests, Pending
<1> QED
  BY <1>2, <1>3, <1>4 DEF ServedAs

\* A request the agent waits for is served: what is published leaves the
\* queue's places that are to be sent.
LEMMA CopiesAwaited ==
  ASSUME DeliveryInv, CopiesInv, pc = "await", NEW after,
         request' = after, UNCHANGED <<abandoned, files, pc, cursor, unacked>>,
         NEW written \in {0, 1},
         ServedAs(request, after, written)
  PROVE  CopiesInv'
<1>0. AgentType /\ RequestsServed /\ Awaiting
  BY DEF DeliveryInv, CopiesInv
<1>1. request \in ServedRequests /\ request \in AwaitedRequests
  BY <1>0 DEF RequestsServed, ServedRequests
<1>2. after \in ServedRequests /\ after.items = request.items
      /\ request.next \in Nat \ {0} /\ Len(request.items) \in Nat
  BY <1>1, ServedShape
<1>3. RequestsServed'
  BY <1>0, <1>2 DEF RequestsServed
<1>4. Len(request.items) <= Len(files) /\ files \in Seq(Events)
      /\ \A i \in 1..Len(request.items) : request.items[i] = files[i]
  BY <1>0 DEF Awaiting, AgentType
<1>5. \A e \in Events : Unread(e)' = Unread(e)
  BY DEF Unread
<1>6. CASE request.stage = "received" /\ UNCHANGED <<topic, faults>>
           /\ (after = [request EXCEPT !.stage = "admitted"]
                 \/ after = [request EXCEPT !.stage = "refused"])
  <2>1. request.next = 1
    BY <1>1, <1>6 DEF ServedRequests
  <2>2. after.next = request.next /\ after.stage \in {"admitted", "refused"}
    BY <1>1, <1>6 DEF AwaitedRequests
  <2>3. Settled = 0 /\ Settled' = 0
    BY <2>1, <2>2, <1>6 DEF Settled
  <2> QED
    BY <2>3, <1>3, <1>5, <1>6, CopiesQuiet
<1>7. CASE request.stage = "admitted" /\ after = [request EXCEPT !.stage = "accepted"]
           /\ UNCHANGED <<topic, faults>>
  <2>1. after.next = request.next /\ after.stage = "accepted"
    BY <1>1, <1>7 DEF AwaitedRequests
  <2>2. Settled' = Settled
    BY <2>1, <1>7 DEF Settled
  <2> QED
    BY <2>2, <1>3, <1>5, <1>7, CopiesQuiet
<1>8. ASSUME request.stage = "admitted", request.next <= Len(request.items),
             NEW n \in {0, 1},
             topic' = [topic EXCEPT ![request.items[request.next]] = @ + n],
             \/ n = 1 /\ after = [request EXCEPT !.next = @ + 1] /\ faults' = faults
             \/ after = [request EXCEPT !.stage = "refused"] /\ faults' = faults + 1
      PROVE  CopiesInv'
  <2> DEFINE b == request.next - 1
  <2>1. b \in Nat /\ b + 1 = request.next /\ b + 1 \in 1..Len(files) /\ b + 1 \in 1..Len(request.items)
        /\ request.items[request.next] = files[b + 1] /\ Settled = b
    BY <1>2, <1>4, <1>8 DEF Settled
  <2> HIDE DEF b
  <2> SUFFICES ASSUME NEW e \in Events PROVE CopiesOf(e)'
    BY <1>3 DEF CopiesInv
  <2>2. CopiesOf(e) /\ topic \in [Events -> Nat]
    BY <1>0 DEF CopiesInv, AgentType
  <2>3. topic'[e] = IF files[b + 1] = e THEN topic[e] + n ELSE topic[e]
    BY <2>1, <2>2, <1>8
  <2>4. /\ files[b + 1] = e => /\ Cardinality(Before(files, e, b + 1)) = Sent(e) + 1
                               /\ ToSend(e) = Cardinality(After(files, e, b + 1)) + 1
        /\ files[b + 1] # e => /\ Cardinality(Before(files, e, b + 1)) = Sent(e)
                               /\ Cardinality(After(files, e, b + 1)) = ToSend(e)
    BY <2>1, <1>4, PlacesAdvance DEF Sent, ToSend
  <2>5. Late(e)' = Late(e) /\ Leftover(abandoned, e)' = Leftover(abandoned, e)
        /\ Unread(e)' = Unread(e)
    BY <1>5 DEF Late
  <2>a. /\ topic[e] \in Nat /\ Late(e) \in Nat /\ Sent(e) \in Nat
        /\ ToSend(e) \in Nat /\ Unread(e) \in {0, 1}
        /\ 2 ^ faults \in Nat /\ 2 ^ (faults + 1) \in Nat /\ 2 * 2 ^ faults <= 2 ^ (faults + 1)
    BY CopiesFacts
  <2>b. Sent(e) <= topic[e] /\ topic[e] + Late(e) + ToSend(e) + Unread(e) <= 2 ^ faults
    BY <2>2 DEF CopiesOf
  <2>6. CASE n = 1 /\ after = [request EXCEPT !.next = @ + 1] /\ faults' = faults
    <3>1. after.next = request.next + 1 /\ after.stage = "admitted"
      BY <1>1, <1>8, <2>6 DEF AwaitedRequests
    <3>2. Settled' = b + 1
      BY <3>1, <2>1, <1>2 DEF Settled
    <3>3. Sent(e)' = Cardinality(Before(files, e, b + 1))
          /\ ToSend(e)' = Cardinality(After(files, e, b + 1))
      BY <3>2 DEF Sent, ToSend
    <3>4. Sent(e)' \in Nat /\ ToSend(e)' \in Nat
      BY <3>3, <1>4, PlacesFinite
    <3>5. Sent(e)' <= topic'[e]
          /\ topic'[e] + Late(e) + ToSend(e)' + Unread(e) <= 2 ^ faults
      <4>1. CASE files[b + 1] = e
        <5>1. topic'[e] = topic[e] + 1 /\ Sent(e)' = Sent(e) + 1 /\ ToSend(e) = ToSend(e)' + 1
          BY <4>1, <2>3, <2>4, <2>6, <3>3
        <5>2. Sent(e) + 1 <= topic[e] + 1
          BY <2>a, <2>b
        <5>3. (topic[e] + 1) + Late(e) + ToSend(e)' + Unread(e) =
                topic[e] + Late(e) + (ToSend(e)' + 1) + Unread(e)
          <6> DEFINE P == topic[e]
                     A == Late(e)
                     M == ToSend(e)'
                     u == Unread(e)
          <6>1. P \in Nat /\ A \in Nat /\ M \in Nat /\ u \in {0, 1}
            BY <3>4, <2>a
          <6>2. (P + 1) + A + M + u = P + A + (M + 1) + u
            <7> HIDE DEF P, A, M, u
            <7> QED
              BY <6>1
          <6> QED
            BY <6>2
        <5> QED
          BY <5>1, <5>2, <5>3, <2>b, Zenon
      <4>2. CASE files[b + 1] # e
        <5>1. topic'[e] = topic[e] /\ Sent(e)' = Sent(e) /\ ToSend(e)' = ToSend(e)
          BY <4>2, <2>3, <2>4, <3>3
        <5> QED
          BY <5>1, <2>a, <2>b
      <4> QED
        BY <4>1, <4>2
    <3> QED
      BY <3>5, <2>2, <2>5, <2>6 DEF CopiesOf
  <2>7. CASE after = [request EXCEPT !.stage = "refused"] /\ faults' = faults + 1
    <3>1. after.stage = "refused"
      BY <1>1, <2>7 DEF AwaitedRequests
    <3>2. Settled' = 0
      BY <3>1 DEF Settled
    <3>3. Sent(e)' = 0 /\ ToSend(e)' = Sent(e) + ToSend(e)
      <4>1. Before(files, e, 0) = {}
        BY DEF Before
      <4> QED
        BY <4>1, <3>2, CopiesFacts, FS_EmptySet DEF Sent, ToSend
    <3>4. Cardinality(After(files, e, b + 1)) \in Nat
      BY <1>4, PlacesFinite
    <3>5. topic[e] \in Nat /\ topic'[e] \in Nat /\ topic'[e] <= topic[e] + ToSend(e)
      <4>1. CASE files[b + 1] = e
        <5>1. topic'[e] = topic[e] + n /\ ToSend(e) = Cardinality(After(files, e, b + 1)) + 1
          BY <4>1, <2>3, <2>4
        <5> QED
          BY <5>1, <3>4, <2>a
      <4>2. CASE files[b + 1] # e
        BY <4>2, <2>3, <2>a
      <4> QED
        BY <4>1, <4>2
    <3>6. topic'[e] + Late(e) + (Sent(e) + ToSend(e)) + Unread(e) <= 2 ^ (faults + 1)
      <4> DEFINE P == topic[e]
                 Q == topic'[e]
                 A == Late(e)
                 S == Sent(e)
                 L == ToSend(e)
                 u == Unread(e)
                 F == 2 ^ faults
                 G == 2 ^ (faults + 1)
      <4>1. P \in Nat /\ Q \in Nat /\ A \in Nat /\ S \in Nat /\ L \in Nat /\ u \in {0, 1}
            /\ F \in Nat /\ G \in Nat /\ 2 * F <= G
        BY <3>5, <2>a
      <4>2. Q <= P + L /\ S <= P /\ P + A + L + u <= F
        BY <3>5, <2>b
      <4>3. Q + A + (S + L) + u <= G
        <5> HIDE DEF P, Q, A, S, L, u, F, G
        <5> QED
          BY <4>1, <4>2
      <4> QED
        BY <4>3
    <3> QED
      BY <3>3, <3>5, <3>6, <2>2, <2>5, <2>7 DEF CopiesOf
  <2> QED
    BY <1>8, <2>6, <2>7
<1> QED
  BY <1>6, <1>7, <1>8 DEF ServedAs

\* A request nobody waits for is served: what it publishes it had left.
LEMMA CopiesAbandoned ==
  ASSUME DeliveryInv, CopiesInv, NEW r \in abandoned, NEW after,
         abandoned' = (abandoned \ {r}) \union {after},
         UNCHANGED <<request, files, pc, cursor, unacked>>,
         NEW written \in {0, 1},
         ServedAs(r, after, written)
  PROVE  CopiesInv'
<1>0. AgentType /\ RequestsServed
  BY DEF DeliveryInv, CopiesInv
<1>1. r \in ServedRequests /\ r \in AwaitedRequests
  BY <1>0 DEF RequestsServed, ServedRequests
<1>2. after \in ServedRequests /\ after.items = r.items /\ after.next \in {r.next, r.next + 1}
      /\ (after.stage \in Pending => r.stage \in Pending)
      /\ r.next \in Nat \ {0} /\ Len(r.items) \in Nat /\ r.items \in Seq(Events)
  BY <1>1, ServedShape
<1>3. RequestsServed'
  BY <1>0, <1>2 DEF RequestsServed
<1> SUFFICES ASSUME NEW e \in Events PROVE CopiesOf(e)'
  BY <1>3 DEF CopiesInv
<1>4. CopiesOf(e) /\ topic \in [Events -> Nat]
  BY <1>0 DEF CopiesInv, AgentType
<1>5. Sent(e)' = Sent(e) /\ ToSend(e)' = ToSend(e) /\ Unread(e)' = Unread(e)
  BY DEF Sent, ToSend, Settled, Unread
<1>6. /\ IsFiniteSet(Leftover(abandoned, e))' /\ Late(e)' <= Late(e)
      /\ \A k : (<<r, k>> \in Leftover(abandoned, e)
                   /\ ~(after.stage \in Pending /\ k >= after.next)) => Late(e)' + 1 <= Late(e)
  <2>1. after.next \in Nat /\ r.next \in Nat /\ after.next >= r.next
    BY <1>2
  <2> DEFINE N == Leftover((abandoned \ {r}) \union {after}, e)
             L == Leftover(abandoned, e)
  <2>2. IsFiniteSet(L)
    BY <1>4 DEF CopiesOf
  <2>3. /\ IsFiniteSet(N) /\ Cardinality(N) <= Cardinality(L)
        /\ \A k : (<<r, k>> \in L /\ ~(after.stage \in Pending /\ k >= after.next))
              => Cardinality(N) + 1 <= Cardinality(L)
    BY <1>2, <2>1, <2>2, LeftoverServe
  <2>4. Leftover(abandoned, e)' = N
    OBVIOUS
  <2> HIDE DEF N
  <2> QED
    BY <2>3, <2>4 DEF Late
<1>7. Late(e)' \in Nat
  BY <1>6, FS_CardinalityType DEF Late
<1>8. topic'[e] \in Nat /\ topic'[e] >= topic[e]
      /\ topic'[e] + Late(e)' <= topic[e] + Late(e)
  <2>1. CASE UNCHANGED topic
    BY <2>1, <1>6, <1>7, CopiesFacts
  <2>2. ASSUME r.stage = "admitted", r.next <= Len(r.items), NEW n \in {0, 1},
               topic' = [topic EXCEPT ![r.items[r.next]] = @ + n],
               ~(after.stage \in Pending /\ r.next >= after.next)
        PROVE  topic'[e] \in Nat /\ topic'[e] >= topic[e]
               /\ topic'[e] + Late(e)' <= topic[e] + Late(e)
    <3>1. topic'[e] = IF r.items[r.next] = e THEN topic[e] + n ELSE topic[e]
      BY <2>2, <1>4
    <3>2. CASE r.items[r.next] = e
      <4>1. <<r, r.next>> \in Leftover(abandoned, e)
        BY <2>2, <3>2, <1>2 DEF Leftover, Pending
      <4>2. Late(e)' + 1 <= Late(e)
        BY <4>1, <2>2, <1>6
      <4> DEFINE P == topic[e]
                 A == Late(e)
                 B == Late(e)'
      <4>3. P \in Nat /\ A \in Nat /\ B \in Nat /\ B + 1 <= A
        BY <4>2, <1>7, CopiesFacts
      <4>4. P + n \in Nat /\ P + n >= P /\ (P + n) + B <= P + A
        <5> HIDE DEF P, A, B
        <5> QED
          BY <4>3
      <4> QED
        BY <4>4, <3>1, <3>2
    <3>3. CASE r.items[r.next] # e
      BY <3>1, <3>3, <1>6, <1>7, CopiesFacts
    <3> QED
      BY <3>2, <3>3
  <2>3. CASE r.stage = "admitted" /\ r.next <= Len(r.items) /\ after = [r EXCEPT !.next = @ + 1]
             /\ topic' = [topic EXCEPT ![r.items[r.next]] = @ + 1]
    <3>1. after.next = r.next + 1
      BY <2>3, <1>1 DEF AwaitedRequests
    <3>2. ~(r.next >= after.next)
      BY <3>1, <1>2
    <3> QED
      BY <2>2, <2>3, <3>2
  <2>4. CASE r.stage = "admitted" /\ r.next <= Len(r.items) /\ after = [r EXCEPT !.stage = "refused"]
             /\ topic' = [topic EXCEPT ![r.items[r.next]] = @ + written]
    <3>1. after.stage \notin Pending
      BY <2>4, <1>1 DEF AwaitedRequests, Pending
    <3> QED
      BY <2>2, <2>4, <3>1
  <2> QED
    BY <2>1, <2>3, <2>4 DEF ServedAs
<1>9. 2 ^ faults <= 2 ^ faults' /\ 2 ^ faults' \in Nat
  <2>1. faults' = faults \/ faults' = faults + 1
    BY DEF ServedAs
  <2> QED
    BY <2>1, CopiesFacts
<1>10. Sent(e) <= topic'[e] /\ topic'[e] + Late(e)' + ToSend(e) + Unread(e) <= 2 ^ faults'
  <2> DEFINE P == topic[e]
             Q == topic'[e]
             A == Late(e)
             B == Late(e)'
             S == Sent(e)
             L == ToSend(e)
             u == Unread(e)
             F == 2 ^ faults
             G == 2 ^ faults'
  <2>1. P \in Nat /\ Q \in Nat /\ A \in Nat /\ B \in Nat /\ S \in Nat /\ L \in Nat /\ u \in {0, 1}
        /\ F \in Nat /\ G \in Nat /\ F <= G
    BY <1>7, <1>8, <1>9, CopiesFacts
  <2>2. Q >= P /\ Q + B <= P + A /\ S <= P /\ P + A + L + u <= F
    BY <1>4, <1>8 DEF CopiesOf
  <2>3. S <= Q /\ Q + B + L + u <= G
    <3> HIDE DEF P, Q, A, B, S, L, u, F, G
    <3> QED
      BY <2>1, <2>2
  <2> QED
    BY <2>3
<1> QED
  BY <1>5, <1>6, <1>10 DEF CopiesOf

\* The gateway's steps, for either kind of request.
LEMMA CopiesGateway ==
  ASSUME DeliveryInv, CopiesInv, NEW r \in InService,
         ReserveBatch(r) \/ Publish(r) \/ Respond(r) \/ PublishFails(r)
  PROVE  CopiesInv'
<1>0. UNCHANGED <<files, pc, cursor, unacked>>
  BY DEF ReserveBatch, Publish, Respond, PublishFails
<1>1. \E after, written : written \in {0, 1} /\ Serve(r, after) /\ ServedAs(r, after, written)
  <2>1. CASE ReserveBatch(r)
    <3>1. \E after : Serve(r, after) /\ ServedAs(r, after, 0)
      BY <2>1, Zenon DEF ReserveBatch, ServedAs
    <3> QED
      BY <3>1
  <2>2. CASE Publish(r)
    <3>1. Serve(r, [r EXCEPT !.next = @ + 1]) /\ ServedAs(r, [r EXCEPT !.next = @ + 1], 0)
      BY <2>2 DEF Publish, ServedAs
    <3> QED
      BY <3>1
  <2>3. CASE Respond(r)
    <3>1. Serve(r, [r EXCEPT !.stage = "accepted"])
          /\ ServedAs(r, [r EXCEPT !.stage = "accepted"], 0)
      BY <2>3 DEF Respond, ServedAs
    <3> QED
      BY <3>1
  <2>4. CASE PublishFails(r)
    <3>1. PICK written \in {0, 1} :
            topic' = [topic EXCEPT ![r.items[r.next]] = @ + written]
      BY <2>4 DEF PublishFails
    <3>2. Serve(r, [r EXCEPT !.stage = "refused"])
          /\ ServedAs(r, [r EXCEPT !.stage = "refused"], written)
      BY <2>4, <3>1 DEF PublishFails, ServedAs
    <3> QED
      BY <3>2
  <2> QED
    BY <2>1, <2>2, <2>3, <2>4
<1>2. PICK after, written : written \in {0, 1} /\ Serve(r, after) /\ ServedAs(r, after, written)
  BY <1>1
<1>3. CASE r = request /\ pc = "await" /\ request' = after /\ UNCHANGED abandoned
  BY <1>0, <1>2, <1>3, CopiesAwaited
<1>4. CASE r \in abandoned /\ abandoned' = (abandoned \ {r}) \union {after} /\ UNCHANGED request
  BY <1>0, <1>2, <1>4, CopiesAbandoned
<1> QED
  BY <1>2, <1>3, <1>4 DEF Serve

\* No step of agent, gateway and faults breaks the count of copies.
LEMMA CopiesStep ==
  ASSUME DeliveryInv, DeliveryInv', CopiesInv, [AgentNext]_agentVars
  PROVE  CopiesInv'
<1>1. CASE UNCHANGED agentVars
  BY <1>1 DEF agentVars, CopiesInv, RequestsServed, CopiesOf, Late, Sent, ToSend, Settled, Unread
<1>2. CASE Agent
  BY <1>2, CopiesPlain, CopiesSend, CopiesAck, CopiesEnqueue DEF Agent
<1>3. CASE Gateway
  BY <1>3, CopiesGateway DEF Gateway
<1>4. CASE Faulty
  BY <1>4, CopiesPlain, CopiesGiveUp, CopiesGateway DEF Faulty
<1>5. CASE NextWindow
  BY <1>5, CopiesPlain
<1> QED
  BY <1>1, <1>2, <1>3, <1>4, <1>5 DEF AgentNext

\* What the agent believes of its queue is what is on its disk, its queue never
\* exceeds the limit, and each fault at most doubles the copies of an event,
\* for every log, every size and limit and any number of faults (enqueueLocked,
\* Ack, OpenDiskQueue, flush and the batch handler).
THEOREM SpoolStaysHonest == AgentSpec => []SpoolIsHonest
<1> DEFINE I == DeliveryInv /\ CopiesInv /\ OccupancyInv
<1>1. AgentInit => I
  BY DeliveryInit, CopiesInit, OccupancyInit
<1>2. I /\ [AgentNext]_agentVars => I'
  BY DeliveryStep, CopiesStep, OccupancyStep
<1>3. I => SpoolIsHonest
  <2> SUFFICES ASSUME I, NEW e \in Events PROVE topic[e] <= 2 ^ faults
    BY DEF SpoolIsHonest, FewDuplicates, OccupancyInv
  <2>1. topic[e] + Late(e) + ToSend(e) + Unread(e) <= 2 ^ faults
    BY DEF CopiesInv, CopiesOf
  <2> QED
    BY <2>1, CopiesFacts
<1> QED
  BY <1>1, <1>2, <1>3, PTL DEF AgentSpec
=============================================================================
