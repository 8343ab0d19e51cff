------------------------- MODULE WorkerQueue_proofs -------------------------
(***************************************************************************)
(* The worker queue, for any events, permits and failures: what is         *)
(* acknowledged has been handed on, what leaves the queue leaves it for a  *)
(* reason, a cached fee outlives retries, and each step is one that the    *)
(* abstract TaskQueue allows.                                              *)
(***************************************************************************)
EXTENDS WorkerQueue, SequenceTheorems, FiniteSetTheorems, TLAPS

Decided == {"remove", "drop", "retry"}

(* The consumer knows of stored messages only, and of none before it is    *)
(* created; what the server remembers is stored.                           *)
ServerInv ==
    /\ \A s \in Seqs : consumer[s] # "none" => created /\ s <= Len(stream)
    /\ recent \subseteq Stored

(* What the process has in hand is stored, and the consumer knows of it.   *)
Delivered(s) == s \in 1..Len(stream) /\ consumer[s] # "none"

DeliveredInv ==
    /\ \A i \in 1..Len(buffer) : Delivered(buffer[i])
    /\ held # 0 => Delivered(held)
    /\ \A w \in Workers : work[w].step # "idle" => Delivered(work[w].seq)

(* A task past its worker has a verdict on record, unless it is to retry. *)
VerdictInv ==
    \A w \in Workers : work[w].step \in {"publish", "cleanup"} =>
        /\ work[w].action \in Decided
        /\ work[w].action # "retry" => work[w].action \in verdicts[work[w].seq]

(* What a relaying task no longer has to publish is stored, or its         *)
(* publication failed.                                                     *)
HandingOnInv ==
    \A w \in Workers : work[w].step = "publish" /\ work[w].action = "remove" =>
        Produces[EventOf(w)] \subseteq Stored \cup lost \cup work[w].todo

(* A task cleans up for a message that has left the queue. *)
CleanUpInv == \A w \in Workers : work[w].step = "cleanup" => Retired(work[w].seq)

QueueInv ==
    /\ TypeOK
    /\ ServerInv /\ DeliveredInv /\ VerdictInv /\ HandingOnInv /\ CleanUpInv
    /\ HandedOn /\ LeavesForAReason
-----------------------------------------------------------------------------
(* The permits are finite, so half of them are a number. *)
LEMMA BatchIsNat == BatchSize \in Nat
<1>1. Cardinality(Workers) \in Nat
  BY WorkersOK, FS_CardinalityType
<1> QED
  BY <1>1 DEF BatchSize

(* What is stored depends on the stream alone. *)
LEMMA StoredSame == stream' = stream => Stored' = Stored
BY DEF Stored

(* Appending an event stores it and nothing else. *)
LEMMA StoredAppended ==
    ASSUME NEW S, NEW q \in Seq(S), NEW e \in S
    PROVE  Range(Append(q, e)) = Range(q) \cup {e}
<1>1. /\ DOMAIN q = 1..Len(q) /\ Len(q) \in Nat
      /\ DOMAIN Append(q, e) = 1..(Len(q) + 1)
      /\ \A i \in 1..Len(q) : Append(q, e)[i] = q[i]
      /\ Append(q, e)[Len(q) + 1] = e
  OBVIOUS
<1>2. ASSUME NEW x \in Range(Append(q, e)) PROVE x \in Range(q) \cup {e}
  <2>1. PICK i \in 1..(Len(q) + 1) : x = Append(q, e)[i]
    BY <1>1 DEF Range
  <2>2. CASE i = Len(q) + 1
    BY <1>1, <2>1, <2>2
  <2>3. CASE i \in 1..Len(q)
    BY <1>1, <2>1, <2>3 DEF Range
  <2> QED
    BY <1>1, <2>2, <2>3
<1>3. ASSUME NEW x \in Range(q) PROVE x \in Range(Append(q, e))
  <2>1. PICK i \in 1..Len(q) : x = q[i]
    BY <1>1 DEF Range
  <2>2. i \in DOMAIN Append(q, e) /\ x = Append(q, e)[i]
    BY <1>1, <2>1
  <2> QED
    BY <2>2 DEF Range
<1>4. e \in Range(Append(q, e))
  <2>1. Len(q) + 1 \in DOMAIN Append(q, e)
    BY <1>1
  <2> QED
    BY <1>1, <2>1 DEF Range
<1> QED
  BY <1>2, <1>3, <1>4

(* The tasks that hold the permits. *)
Tasks == [seq: 0..MaxSeq, step: Steps, action: Actions, todo: SUBSET Events]

(* What a publication does, whether it succeeds or fails: the event is     *)
(* stored, once more or already, or counted as lost, and nothing stored    *)
(* before changes.                                                         *)
Publishes(e) ==
    \/ Published(e) /\ UNCHANGED <<lost, faults>>
    \/ PublishFails(e)

Extended ==
    /\ stream' \in Seq(Events) /\ Len(stream') <= MaxSeq /\ Len(stream) <= Len(stream')
    /\ Stored \subseteq Stored' /\ lost \subseteq lost' /\ lost' \subseteq Events
    /\ \A s \in 1..Len(stream) : stream'[s] = stream[s] /\ consumer'[s] = consumer[s]
    /\ recent' \subseteq Events /\ recent' \subseteq Stored'
    /\ consumer' \in [Seqs -> ConsumerStates]
    /\ \A s \in Seqs : s > Len(stream) =>
          \/ consumer'[s] = "none"
          \/ consumer'[s] = "ready" /\ created /\ s <= Len(stream')
    /\ faults' \in 0..MaxFaults

(* A publication that lands: stored once, at the end or as a duplicate. *)
LEMMA PublishedEffect ==
    ASSUME QueueInv, NEW e \in Events, Published(e)
    PROVE  /\ stream' \in Seq(Events) /\ Len(stream') <= MaxSeq
           /\ Len(stream) <= Len(stream') /\ Stored' = Stored \cup {e}
           /\ \A s \in 1..Len(stream) : stream'[s] = stream[s] /\ consumer'[s] = consumer[s]
           /\ recent' \subseteq Events /\ recent' \subseteq Stored'
           /\ consumer' \in [Seqs -> ConsumerStates]
           /\ \A s \in Seqs : s > Len(stream) =>
                 \/ consumer'[s] = "none"
                 \/ consumer'[s] = "ready" /\ created /\ s <= Len(stream')
<1> USE EventsOK DEF Published, TypeOK, ServerInv, Seqs, ConsumerStates
<1>0. TypeOK /\ ServerInv
  BY DEF QueueInv
<1>1. CASE e \in recent
  <2>1. UNCHANGED <<stream, recent, consumer>> /\ Stored' = Stored
    BY <1>1, StoredSame
  <2>2. e \in Stored
    BY <1>0, <1>1
  <2>3. Stored' = Stored \cup {e}
    BY <2>1, <2>2
  <2>4. ASSUME NEW s \in Seqs, s > Len(stream) PROVE consumer'[s] = "none"
    <3>1. Len(stream) \in Nat /\ s \in Nat /\ ~(s <= Len(stream))
      BY <1>0, <2>4
    <3> QED
      BY <1>0, <2>1, <3>1
  <2>5. Len(stream) \in Nat /\ Len(stream) <= MaxSeq
    BY <1>0
  <2> HIDE DEF Published, Stored, Seqs, ConsumerStates
  <2> QED
    BY <1>0, <2>1, <2>2, <2>3, <2>4, <2>5
<1>2. CASE e \notin recent
  <2>1. /\ stream' = Append(stream, e) /\ Len(stream) < MaxSeq
        /\ recent' = recent \cup {e}
        /\ consumer' = [consumer EXCEPT ![Len(stream) + 1] = IF created THEN "ready" ELSE "none"]
    BY <1>2
  <2>2. /\ stream' \in Seq(Events) /\ Len(stream') = Len(stream) + 1
        /\ \A s \in 1..Len(stream) : stream'[s] = stream[s]
    BY <1>0, <2>1
  <2>3. Stored' = Stored \cup {e}
    BY <1>0, <2>1, StoredAppended DEF Stored
  <2>4. Len(stream) + 1 \in Seqs
    BY <1>0, <2>1
  <2>5. /\ consumer' \in [Seqs -> ConsumerStates]
        /\ \A s \in Seqs : s # Len(stream) + 1 => consumer'[s] = consumer[s]
        /\ consumer'[Len(stream) + 1] = IF created THEN "ready" ELSE "none"
    BY <1>0, <2>1, <2>4
  <2>6. recent' \subseteq Events /\ recent' \subseteq Stored'
    BY <1>0, <2>1, <2>3
  <2>7. ASSUME NEW s \in Seqs, s > Len(stream)
        PROVE  \/ consumer'[s] = "none"
               \/ consumer'[s] = "ready" /\ created /\ s <= Len(stream')
    <3>1. CASE s = Len(stream) + 1
      <4>1. s <= Len(stream')
        BY <1>0, <2>2, <3>1
      <4>2. consumer'[s] = IF created THEN "ready" ELSE "none"
        BY <2>5, <3>1
      <4>3. created \/ ~created
        OBVIOUS
      <4> QED
        BY <4>1, <4>2, <4>3
    <3>2. CASE s # Len(stream) + 1
      <4>1. Len(stream) \in Nat /\ ~(s <= Len(stream))
        BY <1>0, <2>7
      <4>2. consumer[s] = "none"
        BY <1>0, <4>1
      <4>3. consumer'[s] = consumer[s]
        BY <2>5, <3>2
      <4> QED
        BY <4>2, <4>3
    <3> QED
      BY <3>1, <3>2
  <2>8. \A s \in 1..Len(stream) : consumer'[s] = consumer[s]
    BY <1>0, <2>1, <2>5
  <2> QED
    BY <1>0, <2>1, <2>2, <2>3, <2>5, <2>6, <2>7, <2>8
<1> QED
  BY <1>1, <1>2

(* A publication, landed or failed: the event is stored or counted as lost. *)
LEMMA PublishesEffect ==
    ASSUME QueueInv, NEW e \in Events, Publishes(e)
    PROVE  Extended /\ e \in Stored' \cup lost'
<1>0. TypeOK /\ ServerInv
  BY DEF QueueInv
<1>1. CASE Published(e) /\ UNCHANGED <<lost, faults>>
  BY <1>0, <1>1, PublishedEffect DEF Extended, TypeOK
<1>2. CASE PublishFails(e)
  BY <1>0, <1>2, StoredSame, EventsOK DEF PublishFails, Extended, Fault, TypeOK, ServerInv, Seqs
<1> QED
  BY <1>1, <1>2 DEF Publishes

(* A task's publication takes the event off its list. *)
Hands(w) ==
    /\ Extended
    /\ work[w].step = "publish"
    /\ work' \in [Workers -> Tasks]
    /\ \A v \in Workers : v # w => work'[v] = work[v]
    /\ work'[w].seq = work[w].seq /\ work'[w].step = "publish"
    /\ work'[w].action = work[w].action
    /\ work[w].todo \subseteq work'[w].todo \cup Stored' \cup lost'
    /\ UNCHANGED <<created, aged, buffer, held, fees, verdicts>>

(* A worker publishes one of the follow-ups it has yet to publish. *)
LEMMA ProducedEffect ==
    ASSUME QueueInv, NEW w \in Workers, PublishProduced(w) PROVE Hands(w)
<1>1. PICK e \in work[w].todo :
         Publishes(e) /\ work' = [work EXCEPT ![w].todo = @ \ {e}]
  BY DEF PublishProduced, Publishes
<1>2. work \in [Workers -> Tasks] /\ work[w].step = "publish"
  BY DEF PublishProduced, QueueInv, TypeOK, Tasks
<1>3. e \in Events
  BY <1>1, <1>2 DEF Tasks
<1>4. Extended /\ e \in Stored' \cup lost'
  BY <1>1, <1>3, PublishesEffect
<1>5. /\ work' \in [Workers -> Tasks]
      /\ \A v \in Workers : v # w => work'[v] = work[v]
      /\ work'[w].seq = work[w].seq /\ work'[w].step = work[w].step
      /\ work'[w].action = work[w].action /\ work'[w].todo = work[w].todo \ {e}
  BY <1>1, <1>2 DEF Tasks
<1> QED
  BY <1>2, <1>4, <1>5 DEF Hands, PublishProduced

(* Ingestion publishes an event and touches neither consumer nor tasks. *)
LEMMA IngestEffect ==
    ASSUME QueueInv, NEW e \in Events, Ingest(e)
    PROVE  /\ Extended
           /\ e \in Indexed
           /\ UNCHANGED <<created, aged, buffer, held, work, fees, verdicts>>
<1>1. Publishes(e)
  BY DEF Ingest, Publishes
<1> QED
  BY <1>1, PublishesEffect DEF Ingest, process

(* A publication leaves what was delivered as it was. *)
LEMMA DeliveredStays ==
    ASSUME QueueInv, Extended, NEW s, Delivered(s)
    PROVE  Delivered(s)' /\ stream'[s] = stream[s] /\ consumer'[s] = consumer[s]
<1>1. Len(stream) \in Nat /\ Len(stream') \in Nat /\ Len(stream) <= Len(stream')
  BY DEF QueueInv, TypeOK, Extended
<1>2. stream'[s] = stream[s] /\ consumer'[s] = consumer[s]
  BY DEF Extended, Delivered
<1> QED
  BY <1>1, <1>2 DEF Delivered

(* compute_ack_decision: relayed is acknowledged; terminated is what was   *)
(* given up and what is to be retried and too old.                         *)
LEMMA DecisionFacts ==
    ASSUME NEW s, NEW a \in Decided
    PROVE  /\ Decision(s, a) \in {"acked", "termed", "ready"}
           /\ Decision(s, a) = "acked" <=> a = "remove"
           /\ Decision(s, a) = "termed" => a = "drop" \/ s \in aged
BY DEF Decided, Decision

(* What an acknowledgement does: the permit is free, or the message is     *)
(* settled as the task decided and cleaned up for.                         *)
Settles(w, s, a) ==
    /\ s = work[w].seq /\ a = work[w].action
    /\ s \in 1..Len(stream) /\ s \in Seqs /\ a \in Decided
    /\ a # "retry" => a \in verdicts[s]
    /\ work[w].step = "publish" /\ work[w].todo = {}
    /\ \A r \in Seqs : r # s => consumer'[r] = consumer[r]
    /\ consumer' \in [Seqs -> ConsumerStates]
    /\ \/ consumer'[s] = consumer[s]
       \/ ~Retired(s) /\ consumer'[s] = "acked" /\ a = "remove"
       \/ ~Retired(s) /\ consumer'[s] = "termed" /\ (a = "drop" \/ s \in aged)
       \/ ~Retired(s) /\ consumer'[s] = "ready"
    /\ work' \in [Workers -> Tasks]
    /\ \A v \in Workers : v # w => work'[v] = work[v]
    /\ \/ work'[w] = Idle
       \/ /\ work'[w] = Task(s, "cleanup", a, {})
          /\ consumer'[s] \in {"acked", "termed"}
    /\ UNCHANGED <<stream, recent, created, aged, lost, buffer, held, fees, verdicts>>
    /\ faults' \in 0..MaxFaults

(* An acknowledgement settles the one message of the task. *)
LEMMA AcknowledgeEffect ==
    ASSUME QueueInv, NEW w \in Workers, Acknowledge(w)
    PROVE  \E s, a : Settles(w, s, a)
<1> DEFINE s == work[w].seq  a == work[w].action
<1> USE EventsOK
<1>0. TypeOK /\ DeliveredInv /\ VerdictInv
  BY DEF QueueInv
<1>1. /\ work[w].step = "publish" /\ work[w].todo = {}
      /\ s \in 1..Len(stream) /\ s \in Seqs /\ a \in Decided
      /\ a # "retry" => a \in verdicts[s]
  BY <1>0 DEF Acknowledge, DeliveredInv, Delivered, VerdictInv, TypeOK, Seqs
<1>2. /\ Decision(s, a) \in {"acked", "termed", "ready"}
      /\ Decision(s, a) = "acked" <=> a = "remove"
      /\ Decision(s, a) = "termed" => a = "drop" \/ s \in aged
  BY <1>1, DecisionFacts
<1>3. /\ \/ consumer' = [consumer EXCEPT ![s] = IF Retired(s) THEN @ ELSE Decision(s, a)]
         \/ consumer' = consumer
      /\ faults' \in 0..MaxFaults
      /\ UNCHANGED <<stream, recent, created, aged, lost, buffer, held, fees, verdicts>>
  BY <1>0 DEF Acknowledge, Fault, TypeOK
<1>4. \/ work' = [work EXCEPT ![w] = Idle]
      \/ /\ work' = [work EXCEPT ![w] = [@ EXCEPT !.step = "cleanup"]]
         /\ consumer' = [consumer EXCEPT ![s] = IF Retired(s) THEN @ ELSE Decision(s, a)]
         /\ Decision(s, a) # "ready"
  BY DEF Acknowledge
<1>5. /\ \A r \in Seqs : r # s => consumer'[r] = consumer[r]
      /\ consumer' \in [Seqs -> ConsumerStates]
      /\ \/ consumer'[s] = consumer[s]
         \/ ~Retired(s) /\ consumer'[s] = "acked" /\ a = "remove"
         \/ ~Retired(s) /\ consumer'[s] = "termed" /\ (a = "drop" \/ s \in aged)
         \/ ~Retired(s) /\ consumer'[s] = "ready"
  BY <1>0, <1>1, <1>2, <1>3 DEF TypeOK, ConsumerStates, Retired
<1>6. work \in [Workers -> Tasks]
  BY <1>0 DEF TypeOK, Tasks
<1>7. Task(s, "cleanup", a, {}) = [work[w] EXCEPT !.step = "cleanup"]
  <2>1. /\ work[w] \in Tasks
        /\ [work[w] EXCEPT !.step = "cleanup"] =
              [seq |-> s, step |-> "cleanup", action |-> a, todo |-> work[w].todo]
    BY <1>6 DEF Tasks
  <2> QED
    BY <1>1, <2>1 DEF Task
<1>8. /\ \/ work'[w] = Idle
         \/ /\ work'[w] = Task(s, "cleanup", a, {})
            /\ consumer'[s] \in {"acked", "termed"}
      /\ \A v \in Workers : v # w => work'[v] = work[v]
      /\ work' = [work EXCEPT ![w] = work'[w]]
  <2>1. CASE work' = [work EXCEPT ![w] = Idle]
    BY <1>6, <2>1
  <2>2. CASE /\ work' = [work EXCEPT ![w] = [@ EXCEPT !.step = "cleanup"]]
             /\ consumer' = [consumer EXCEPT ![s] = IF Retired(s) THEN @ ELSE Decision(s, a)]
             /\ Decision(s, a) # "ready"
    <3>1. consumer'[s] \in {"acked", "termed"}
      BY <1>0, <1>1, <1>2, <2>2 DEF TypeOK, Retired
    <3>2. /\ work'[w] = [work[w] EXCEPT !.step = "cleanup"]
          /\ \A v \in Workers : v # w => work'[v] = work[v]
          /\ work' = [work EXCEPT ![w] = work'[w]]
      BY <1>6, <2>2
    <3> QED
      BY <1>7, <3>1, <3>2
  <2> QED
    BY <1>4, <2>1, <2>2
<1>9. work' \in [Workers -> Tasks]
  <2>1. Idle \in Tasks
    BY <1>0 DEF Idle, Task, Tasks, Steps, Actions, TypeOK
  <2>2. Task(s, "cleanup", a, {}) \in Tasks
    BY <1>1 DEF Task, Tasks, Steps, Actions, Decided, Seqs
  <2>3. work'[w] \in Tasks
    BY <1>8, <2>1, <2>2
  <2> QED
    BY <1>6, <1>8, <2>3
<1>10. Settles(w, s, a)
  BY <1>1, <1>3, <1>5, <1>8, <1>9 DEF Settles
<1> QED
  BY <1>10

(* Every step keeps the types. *)
LEMMA TypeStep ==
    ASSUME QueueInv, [Next]_vars PROVE TypeOK'
<1> USE EventsOK DEF vars, server, process, Fault, Seqs, ConsumerStates, Actions,
       Steps, Task, Idle
<1>0. TypeOK /\ ServerInv /\ DeliveredInv /\ VerdictInv
  BY DEF QueueInv
<1>1. ASSUME NEW e \in Events, Ingest(e) PROVE TypeOK'
  <2>1. /\ Extended
        /\ e \in Indexed
        /\ UNCHANGED <<created, aged, buffer, held, work, fees, verdicts>>
    BY <1>1, IngestEffect
  <2> QED
    BY <1>0, <2>1, BatchIsNat DEF Extended, TypeOK, ServerInv, DeliveredInv,
       VerdictInv, Tasks, Delivered
<1>2. ASSUME NEW e \in Events, Forget(e) PROVE TypeOK'
  BY <1>0, <1>2, BatchIsNat DEF Forget, TypeOK, ServerInv, DeliveredInv, VerdictInv, Tasks, Delivered
<1>3. CASE CreateConsumer
  BY <1>0, <1>3, BatchIsNat DEF CreateConsumer, TypeOK, ServerInv, DeliveredInv, VerdictInv, Tasks, Delivered
<1>4. ASSUME NEW s \in Seqs, Deliver(s) PROVE TypeOK'
  BY <1>0, <1>4, BatchIsNat DEF Deliver, TypeOK, ServerInv, DeliveredInv, VerdictInv, Tasks, Delivered
<1>5. ASSUME NEW s \in Seqs, AckWaitExpires(s) PROVE TypeOK'
  BY <1>0, <1>5, BatchIsNat DEF AckWaitExpires, TypeOK, ServerInv, DeliveredInv, VerdictInv, Tasks, Delivered
<1>6. ASSUME NEW s \in Seqs, Age(s) PROVE TypeOK'
  BY <1>0, <1>6, BatchIsNat DEF Age, TypeOK, ServerInv, DeliveredInv, VerdictInv, Tasks, Delivered
<1>7. CASE TakeNext
  <2>1. buffer' \in Seq(Seqs) /\ Len(buffer') <= BatchSize /\ Head(buffer) \in Seqs
    BY <1>0, <1>7, BatchIsNat DEF TakeNext, TypeOK
  <2>2. held' \in {0, Head(buffer)}
    BY <1>7 DEF TakeNext
  <2>3. held' \in 0..MaxSeq
    BY <2>1, <2>2
  <2>4. faults' \in 0..MaxFaults
    BY <1>0, <1>7 DEF TakeNext, TypeOK
  <2> QED
    BY <1>0, <1>7, <2>1, <2>3, <2>4 DEF TakeNext, TypeOK
<1>8. CASE TermUndecodable
  <2>1. consumer' \in [Seqs -> ConsumerStates]
    <3>1. \/ consumer' = consumer
          \/ consumer' = [consumer EXCEPT ![held] = IF Retired(held) THEN @ ELSE "termed"]
      BY <1>8 DEF TermUndecodable
    <3> QED
      BY <1>0, <3>1 DEF TypeOK
  <2>2. faults' \in 0..MaxFaults
    BY <1>0, <1>8 DEF TermUndecodable, TypeOK
  <2>3. held' \in 0..MaxSeq
    BY <1>8, EventsOK DEF TermUndecodable
  <2> QED
    BY <1>0, <1>8, <2>1, <2>2, <2>3 DEF TermUndecodable, TypeOK
<1>9. ASSUME NEW w \in Workers, Spawn(w) PROVE TypeOK'
  BY <1>0, <1>9, BatchIsNat DEF Spawn, TypeOK, ServerInv, DeliveredInv, VerdictInv, Tasks, Delivered
<1>10. ASSUME NEW w \in Workers, PublishProduced(w) PROVE TypeOK'
  <2>1. Hands(w)
    BY <1>10, ProducedEffect
  <2> QED
    BY <1>0, <2>1, BatchIsNat DEF Hands, Extended, TypeOK, ServerInv, DeliveredInv,
       VerdictInv, Tasks, Delivered
<1>11. ASSUME NEW w \in Workers, Acknowledge(w) PROVE TypeOK'
  <2>1. PICK s, a : Settles(w, s, a)
    BY <1>11, AcknowledgeEffect
  <2> QED
    BY <1>0, <2>1, BatchIsNat DEF Settles, TypeOK, ServerInv, DeliveredInv,
       VerdictInv, Tasks, Delivered, Retired
<1>12. ASSUME NEW w \in Workers, CleanUp(w) PROVE TypeOK'
  BY <1>0, <1>12, BatchIsNat DEF CleanUp, TypeOK, ServerInv, DeliveredInv, VerdictInv, Tasks, Delivered
<1>13. ASSUME NEW w \in Workers, NEW a \in Decided, Work(w, a) PROVE TypeOK'
  <2> DEFINE s == work[w].seq
  <2>1. /\ s \in Seqs /\ s \in 1..Len(stream)
        /\ work \in [Workers -> Tasks] /\ w \in Workers
    BY <1>0, <1>13 DEF Work, TypeOK, DeliveredInv, Delivered, Tasks
  <2>2. (IF a = "remove" THEN Produces[stream[s]] ELSE {}) \subseteq Events
    BY <1>0, <2>1 DEF TypeOK
  <2>3. Task(s, "publish", a, IF a = "remove" THEN Produces[stream[s]] ELSE {}) \in Tasks
    BY <2>1, <2>2 DEF Tasks, Decided
  <2>4. work' \in [Workers -> Tasks]
    BY <1>13, <2>1, <2>3 DEF Work
  <2>5. verdicts' \in [Seqs -> SUBSET {"remove", "drop"}]
    BY <1>0, <1>13, <2>1 DEF Work, TypeOK, Decided
  <2>6. fees' \subseteq Range(Transfer)
    BY <1>0, <1>13, <2>1 DEF Work, TypeOK, EventOf, Range
  <2> QED
    BY <1>0, <1>13, <2>4, <2>5, <2>6 DEF Work, TypeOK, Tasks
<1>14. CASE Crash
  BY <1>0, <1>14, BatchIsNat DEF Crash, TypeOK, ServerInv, DeliveredInv, VerdictInv, Tasks, Delivered
<1>15. CASE UNCHANGED vars
  BY <1>0, <1>15, BatchIsNat DEF TypeOK, ServerInv, DeliveredInv, VerdictInv, Tasks, Delivered
<1> QED
  BY <1>1, <1>2, <1>3, <1>4, <1>5, <1>6, <1>7, <1>8, <1>9, <1>10, <1>11, <1>12,
     <1>13, <1>14, <1>15 DEF Next, Decided

(* The consumer learns of stored messages only. *)
LEMMA ServerStep ==
    ASSUME QueueInv, [Next]_vars PROVE ServerInv'
<1> USE EventsOK DEF vars, server, process, Fault, Seqs, ConsumerStates, Actions,
       Steps, Task, Idle
<1>0. TypeOK /\ ServerInv /\ DeliveredInv
  BY DEF QueueInv
<1>1. ASSUME NEW e \in Events, Ingest(e) PROVE ServerInv'
  <2>1. /\ Extended
        /\ e \in Indexed
        /\ UNCHANGED <<created, aged, buffer, held, work, fees, verdicts>>
    BY <1>1, IngestEffect
  <2> QED
    BY <1>0, <2>1, StoredSame DEF Extended, TypeOK, ServerInv, DeliveredInv,
       Delivered
<1>2. ASSUME NEW e \in Events, Forget(e) PROVE ServerInv'
  BY <1>0, <1>2, StoredSame DEF Forget, TypeOK, ServerInv, DeliveredInv, Delivered
<1>3. CASE CreateConsumer
  BY <1>0, <1>3, StoredSame DEF CreateConsumer, TypeOK, ServerInv, DeliveredInv, Delivered
<1>4. ASSUME NEW s \in Seqs, Deliver(s) PROVE ServerInv'
  BY <1>0, <1>4, StoredSame DEF Deliver, TypeOK, ServerInv, DeliveredInv, Delivered
<1>5. ASSUME NEW s \in Seqs, AckWaitExpires(s) PROVE ServerInv'
  BY <1>0, <1>5, StoredSame DEF AckWaitExpires, TypeOK, ServerInv, DeliveredInv, Delivered
<1>6. ASSUME NEW s \in Seqs, Age(s) PROVE ServerInv'
  BY <1>0, <1>6, StoredSame DEF Age, TypeOK, ServerInv, DeliveredInv, Delivered
<1>7. CASE TakeNext
  BY <1>0, <1>7, StoredSame DEF TakeNext, TypeOK, ServerInv, DeliveredInv, Delivered
<1>8. CASE TermUndecodable
  BY <1>0, <1>8, StoredSame DEF TermUndecodable, TypeOK, ServerInv, DeliveredInv, Delivered
<1>9. ASSUME NEW w \in Workers, Spawn(w) PROVE ServerInv'
  BY <1>0, <1>9, StoredSame DEF Spawn, TypeOK, ServerInv, DeliveredInv, Delivered
<1>10. ASSUME NEW w \in Workers, PublishProduced(w) PROVE ServerInv'
  <2>1. Hands(w)
    BY <1>10, ProducedEffect
  <2> QED
    BY <1>0, <2>1, StoredSame DEF Hands, Extended, TypeOK, ServerInv, DeliveredInv,
       Delivered
<1>11. ASSUME NEW w \in Workers, Acknowledge(w) PROVE ServerInv'
  <2>1. PICK s, a : Settles(w, s, a)
    BY <1>11, AcknowledgeEffect
  <2> QED
    BY <1>0, <2>1, StoredSame DEF Settles, TypeOK, ServerInv, DeliveredInv,
       Delivered, Retired
<1>12. ASSUME NEW w \in Workers, CleanUp(w) PROVE ServerInv'
  BY <1>0, <1>12, StoredSame DEF CleanUp, TypeOK, ServerInv, DeliveredInv, Delivered
<1>13. ASSUME NEW w \in Workers, NEW a \in Decided, Work(w, a) PROVE ServerInv'
  BY <1>0, <1>13, StoredSame DEF Work, TypeOK, ServerInv, DeliveredInv, Delivered
<1>14. CASE Crash
  BY <1>0, <1>14, StoredSame DEF Crash, TypeOK, ServerInv, DeliveredInv, Delivered
<1>15. CASE UNCHANGED vars
  BY <1>0, <1>15, StoredSame DEF TypeOK, ServerInv, DeliveredInv, Delivered
<1> QED
  BY <1>1, <1>2, <1>3, <1>4, <1>5, <1>6, <1>7, <1>8, <1>9, <1>10, <1>11, <1>12,
     <1>13, <1>14, <1>15 DEF Next, Decided

(* Only what is stored gets delivered. *)
LEMMA DeliveredStep ==
    ASSUME QueueInv, [Next]_vars PROVE DeliveredInv'
<1> USE EventsOK DEF vars, server, process, Fault, Seqs, ConsumerStates, Actions,
       Steps, Task, Idle
<1>0. TypeOK /\ ServerInv /\ DeliveredInv
  BY DEF QueueInv
<1>1. ASSUME NEW e \in Events, Ingest(e) PROVE DeliveredInv'
  <2>1. /\ Extended
        /\ e \in Indexed
        /\ UNCHANGED <<created, aged, buffer, held, work, fees, verdicts>>
    BY <1>1, IngestEffect
  <2> QED
    BY <1>0, <2>1 DEF Extended, TypeOK, ServerInv, DeliveredInv, Delivered
<1>2. ASSUME NEW e \in Events, Forget(e) PROVE DeliveredInv'
  BY <1>0, <1>2 DEF Forget, TypeOK, ServerInv, DeliveredInv, Delivered
<1>3. CASE CreateConsumer
  BY <1>0, <1>3 DEF CreateConsumer, TypeOK, ServerInv, DeliveredInv, Delivered
<1>4. ASSUME NEW s \in Seqs, Deliver(s) PROVE DeliveredInv'
  BY <1>0, <1>4 DEF Deliver, TypeOK, ServerInv, DeliveredInv, Delivered
<1>5. ASSUME NEW s \in Seqs, AckWaitExpires(s) PROVE DeliveredInv'
  BY <1>0, <1>5 DEF AckWaitExpires, TypeOK, ServerInv, DeliveredInv, Delivered
<1>6. ASSUME NEW s \in Seqs, Age(s) PROVE DeliveredInv'
  BY <1>0, <1>6 DEF Age, TypeOK, ServerInv, DeliveredInv, Delivered
<1>7. CASE TakeNext
  BY <1>0, <1>7 DEF TakeNext, TypeOK, ServerInv, DeliveredInv, Delivered
<1>8. CASE TermUndecodable
  <2>1. \A s \in Seqs : consumer[s] # "none" => consumer'[s] # "none"
    BY <1>0, <1>8 DEF TermUndecodable, TypeOK
  <2>2. held' = 0 /\ UNCHANGED <<stream, buffer, work>>
    BY <1>8 DEF TermUndecodable
  <2>3. \A s : Delivered(s) => Delivered(s)'
    BY <1>0, <2>1, <2>2 DEF Delivered, TypeOK
  <2> QED
    BY <1>0, <2>2, <2>3 DEF DeliveredInv
<1>9. ASSUME NEW w \in Workers, Spawn(w) PROVE DeliveredInv'
  BY <1>0, <1>9 DEF Spawn, TypeOK, ServerInv, DeliveredInv, Delivered
<1>10. ASSUME NEW w \in Workers, PublishProduced(w) PROVE DeliveredInv'
  <2>1. Hands(w) /\ Extended
    BY <1>10, ProducedEffect DEF Hands
  <2>2. \A s : Delivered(s) => Delivered(s)'
    BY <2>1, DeliveredStays
  <2>3. \A v \in Workers : work'[v].seq = work[v].seq /\ (work'[v].step # "idle" => work[v].step # "idle")
    BY <2>1 DEF Hands
  <2> QED
    BY <1>0, <2>1, <2>2, <2>3 DEF Hands, DeliveredInv
<1>11. ASSUME NEW w \in Workers, Acknowledge(w) PROVE DeliveredInv'
  <2>1. PICK s, a : Settles(w, s, a)
    BY <1>11, AcknowledgeEffect
  <2>2. \A r \in Seqs : Delivered(r) => Delivered(r)'
    BY <1>0, <2>1 DEF Settles, Delivered, TypeOK
  <2>3. \A v \in Workers : work'[v].step # "idle" =>
            work[v].step # "idle" /\ work'[v].seq = work[v].seq
    BY <2>1 DEF Settles
  <2>4. (\A i \in 1..Len(buffer) : buffer[i] \in Seqs) /\ (held # 0 => held \in Seqs)
    BY <1>0 DEF TypeOK
  <2>5. \A v \in Workers : work[v].step # "idle" => work[v].seq \in Seqs
    BY <1>0 DEF TypeOK, DeliveredInv, Delivered
  <2> QED
    BY <1>0, <2>1, <2>2, <2>3, <2>4, <2>5 DEF Settles, DeliveredInv
<1>12. ASSUME NEW w \in Workers, CleanUp(w) PROVE DeliveredInv'
  BY <1>0, <1>12 DEF CleanUp, TypeOK, ServerInv, DeliveredInv, Delivered
<1>13. ASSUME NEW w \in Workers, NEW a \in Decided, Work(w, a) PROVE DeliveredInv'
  BY <1>0, <1>13 DEF Work, TypeOK, ServerInv, DeliveredInv, Delivered
<1>14. CASE Crash
  BY <1>0, <1>14 DEF Crash, TypeOK, ServerInv, DeliveredInv, Delivered
<1>15. CASE UNCHANGED vars
  BY <1>0, <1>15 DEF TypeOK, ServerInv, DeliveredInv, Delivered
<1> QED
  BY <1>1, <1>2, <1>3, <1>4, <1>5, <1>6, <1>7, <1>8, <1>9, <1>10, <1>11, <1>12,
     <1>13, <1>14, <1>15 DEF Next, Decided

(* A task's verdict is recorded with it. *)
LEMMA VerdictStep ==
    ASSUME QueueInv, [Next]_vars PROVE VerdictInv'
<1> USE EventsOK DEF vars, server, process, Fault, Seqs, ConsumerStates, Actions,
       Steps, Task, Idle
<1>0. TypeOK /\ DeliveredInv /\ VerdictInv
  BY DEF QueueInv
<1>1. ASSUME NEW e \in Events, Ingest(e) PROVE VerdictInv'
  <2>1. /\ Extended
        /\ e \in Indexed
        /\ UNCHANGED <<created, aged, buffer, held, work, fees, verdicts>>
    BY <1>1, IngestEffect
  <2> QED
    BY <1>0, <2>1 DEF Extended, TypeOK, DeliveredInv, VerdictInv, Decided, Delivered
<1>2. ASSUME NEW e \in Events, Forget(e) PROVE VerdictInv'
  BY <1>0, <1>2 DEF Forget, TypeOK, DeliveredInv, VerdictInv, Decided, Delivered
<1>3. CASE CreateConsumer
  BY <1>0, <1>3 DEF CreateConsumer, TypeOK, DeliveredInv, VerdictInv, Decided, Delivered
<1>4. ASSUME NEW s \in Seqs, Deliver(s) PROVE VerdictInv'
  BY <1>0, <1>4 DEF Deliver, TypeOK, DeliveredInv, VerdictInv, Decided, Delivered
<1>5. ASSUME NEW s \in Seqs, AckWaitExpires(s) PROVE VerdictInv'
  BY <1>0, <1>5 DEF AckWaitExpires, TypeOK, DeliveredInv, VerdictInv, Decided, Delivered
<1>6. ASSUME NEW s \in Seqs, Age(s) PROVE VerdictInv'
  BY <1>0, <1>6 DEF Age, TypeOK, DeliveredInv, VerdictInv, Decided, Delivered
<1>7. CASE TakeNext
  BY <1>0, <1>7 DEF TakeNext, TypeOK, DeliveredInv, VerdictInv, Decided, Delivered
<1>8. CASE TermUndecodable
  BY <1>0, <1>8 DEF TermUndecodable, TypeOK, DeliveredInv, VerdictInv, Decided, Delivered
<1>9. ASSUME NEW w \in Workers, Spawn(w) PROVE VerdictInv'
  BY <1>0, <1>9 DEF Spawn, TypeOK, DeliveredInv, VerdictInv, Decided, Delivered
<1>10. ASSUME NEW w \in Workers, PublishProduced(w) PROVE VerdictInv'
  <2>1. Hands(w)
    BY <1>10, ProducedEffect
  <2>2. \A v \in Workers : /\ work'[v].step = work[v].step /\ work'[v].seq = work[v].seq
                            /\ work'[v].action = work[v].action
    BY <2>1 DEF Hands
  <2>3. verdicts' = verdicts
    BY <2>1 DEF Hands
  <2> QED
    BY <1>0, <2>2, <2>3 DEF VerdictInv
<1>11. ASSUME NEW w \in Workers, Acknowledge(w) PROVE VerdictInv'
  <2>1. PICK s, a : Settles(w, s, a)
    BY <1>11, AcknowledgeEffect
  <2>2. SUFFICES ASSUME NEW v \in Workers, work'[v].step \in {"publish", "cleanup"}
                 PROVE  /\ work'[v].action \in Decided
                        /\ work'[v].action # "retry" =>
                              work'[v].action \in verdicts[work'[v].seq]
    BY <2>1 DEF VerdictInv, Settles
  <2>3. CASE v # w
    BY <1>0, <2>1, <2>2, <2>3 DEF Settles, VerdictInv
  <2>4. CASE v = w
    <3>1. work'[w] = Task(s, "cleanup", a, {})
      BY <2>1, <2>2, <2>4 DEF Settles
    <3> QED
      BY <2>1, <2>4, <3>1 DEF Settles
  <2> QED
    BY <2>3, <2>4
<1>12. ASSUME NEW w \in Workers, CleanUp(w) PROVE VerdictInv'
  BY <1>0, <1>12 DEF CleanUp, TypeOK, DeliveredInv, VerdictInv, Decided, Delivered
<1>13. ASSUME NEW w \in Workers, NEW a \in Decided, Work(w, a) PROVE VerdictInv'
  BY <1>0, <1>13 DEF Work, TypeOK, DeliveredInv, VerdictInv, Decided, Delivered
<1>14. CASE Crash
  BY <1>0, <1>14 DEF Crash, TypeOK, DeliveredInv, VerdictInv, Decided, Delivered
<1>15. CASE UNCHANGED vars
  BY <1>0, <1>15 DEF TypeOK, DeliveredInv, VerdictInv, Decided, Delivered
<1> QED
  BY <1>1, <1>2, <1>3, <1>4, <1>5, <1>6, <1>7, <1>8, <1>9, <1>10, <1>11, <1>12,
     <1>13, <1>14, <1>15 DEF Next, Decided

(* A task cleans up only behind a message that left. *)
LEMMA CleanUpStep ==
    ASSUME QueueInv, [Next]_vars PROVE CleanUpInv'
<1> USE EventsOK DEF vars, server, process, Fault, Seqs, ConsumerStates, Actions,
       Steps, Task, Idle
<1>0. TypeOK /\ ServerInv /\ DeliveredInv /\ VerdictInv /\ CleanUpInv
  BY DEF QueueInv
<1>1. ASSUME NEW e \in Events, Ingest(e) PROVE CleanUpInv'
  <2>1. /\ Extended
        /\ e \in Indexed
        /\ UNCHANGED <<created, aged, buffer, held, work, fees, verdicts>>
    BY <1>1, IngestEffect
  <2> QED
    BY <1>0, <2>1 DEF Extended, TypeOK, ServerInv, DeliveredInv, VerdictInv,
       CleanUpInv, Retired, Delivered
<1>2. ASSUME NEW e \in Events, Forget(e) PROVE CleanUpInv'
  BY <1>0, <1>2 DEF Forget, TypeOK, ServerInv, DeliveredInv, VerdictInv, CleanUpInv, Retired,
       Delivered
<1>3. CASE CreateConsumer
  <2>1. \A s \in Seqs : consumer[s] = "none"
    BY <1>0, <1>3 DEF CreateConsumer, ServerInv
  <2>2. \A v \in Workers : work[v].step = "idle"
    BY <1>0, <2>1 DEF DeliveredInv, Delivered, TypeOK
  <2> QED
    BY <1>3, <2>2 DEF CreateConsumer, CleanUpInv
<1>4. ASSUME NEW s \in Seqs, Deliver(s) PROVE CleanUpInv'
  BY <1>0, <1>4 DEF Deliver, TypeOK, ServerInv, DeliveredInv, VerdictInv, CleanUpInv, Retired,
       Delivered
<1>5. ASSUME NEW s \in Seqs, AckWaitExpires(s) PROVE CleanUpInv'
  BY <1>0, <1>5 DEF AckWaitExpires, TypeOK, ServerInv, DeliveredInv, VerdictInv, CleanUpInv,
       Retired, Delivered
<1>6. ASSUME NEW s \in Seqs, Age(s) PROVE CleanUpInv'
  BY <1>0, <1>6 DEF Age, TypeOK, ServerInv, DeliveredInv, VerdictInv, CleanUpInv, Retired,
       Delivered
<1>7. CASE TakeNext
  BY <1>0, <1>7 DEF TakeNext, TypeOK, ServerInv, DeliveredInv, VerdictInv, CleanUpInv, Retired,
       Delivered
<1>8. CASE TermUndecodable
  <2>1. \A s \in Seqs : Retired(s) => consumer'[s] = consumer[s]
    BY <1>0, <1>8 DEF TermUndecodable, TypeOK, Retired
  <2>2. \A v \in Workers : work[v].step = "cleanup" => work[v].seq \in Seqs
    BY <1>0 DEF DeliveredInv, Delivered, TypeOK
  <2> QED
    BY <1>0, <1>8, <2>1, <2>2 DEF TermUndecodable, CleanUpInv, Retired
<1>9. ASSUME NEW w \in Workers, Spawn(w) PROVE CleanUpInv'
  BY <1>0, <1>9 DEF Spawn, TypeOK, ServerInv, DeliveredInv, VerdictInv, CleanUpInv, Retired,
       Delivered
<1>10. ASSUME NEW w \in Workers, PublishProduced(w) PROVE CleanUpInv'
  <2>1. Hands(w) /\ Extended
    BY <1>10, ProducedEffect DEF Hands
  <2>2. SUFFICES ASSUME NEW v \in Workers, work'[v].step = "cleanup"
                 PROVE  consumer'[work'[v].seq] \in {"acked", "termed"}
    BY DEF CleanUpInv, Retired
  <2>3. work'[v] = work[v]
    BY <2>1, <2>2 DEF Hands
  <2>4. Delivered(work[v].seq) /\ Retired(work[v].seq)
    BY <1>0, <2>2, <2>3 DEF DeliveredInv, CleanUpInv
  <2>5. consumer'[work[v].seq] = consumer[work[v].seq]
    BY <2>1, <2>4, DeliveredStays
  <2> QED
    BY <2>3, <2>4, <2>5 DEF Retired
<1>11. ASSUME NEW w \in Workers, Acknowledge(w) PROVE CleanUpInv'
  <2>1. PICK s, a : Settles(w, s, a)
    BY <1>11, AcknowledgeEffect
  <2>2. SUFFICES ASSUME NEW v \in Workers, work'[v].step = "cleanup"
                 PROVE  consumer'[work'[v].seq] \in {"acked", "termed"}
    BY DEF CleanUpInv, Retired
  <2>3. CASE v # w
    <3>1. work'[v] = work[v] /\ work[v].seq \in Seqs /\ Retired(work[v].seq)
      BY <1>0, <2>1, <2>2, <2>3 DEF Settles, CleanUpInv, DeliveredInv, Delivered, TypeOK
    <3>2. Retired(work[v].seq) => consumer'[work[v].seq] = consumer[work[v].seq]
      BY <2>1, <3>1 DEF Settles
    <3> QED
      BY <3>1, <3>2 DEF Retired
  <2>4. CASE v = w
    BY <2>1, <2>2, <2>4 DEF Settles
  <2> QED
    BY <2>3, <2>4
<1>12. ASSUME NEW w \in Workers, CleanUp(w) PROVE CleanUpInv'
  BY <1>0, <1>12 DEF CleanUp, TypeOK, ServerInv, DeliveredInv, VerdictInv, CleanUpInv, Retired,
       Delivered
<1>13. ASSUME NEW w \in Workers, NEW a \in Decided, Work(w, a) PROVE CleanUpInv'
  BY <1>0, <1>13 DEF Work, TypeOK, ServerInv, DeliveredInv, VerdictInv, CleanUpInv, Retired,
       Delivered
<1>14. CASE Crash
  BY <1>0, <1>14 DEF Crash, TypeOK, ServerInv, DeliveredInv, VerdictInv, CleanUpInv, Retired,
       Delivered
<1>15. CASE UNCHANGED vars
  BY <1>0, <1>15 DEF TypeOK, ServerInv, DeliveredInv, VerdictInv, CleanUpInv, Retired, Delivered
<1> QED
  BY <1>1, <1>2, <1>3, <1>4, <1>5, <1>6, <1>7, <1>8, <1>9, <1>10, <1>11, <1>12,
     <1>13, <1>14, <1>15 DEF Next, Decided

(* A relaying task publishes before it acknowledges. *)
LEMMA HandingOnStep ==
    ASSUME QueueInv, [Next]_vars PROVE HandingOnInv'
<1> USE EventsOK DEF vars, server, process, Fault, Seqs, ConsumerStates, Actions,
       Steps, Task, Idle
<1>0. TypeOK /\ ServerInv /\ DeliveredInv /\ HandingOnInv
  BY DEF QueueInv
<1>1. ASSUME NEW e \in Events, Ingest(e) PROVE HandingOnInv'
  <2>1. /\ Extended
        /\ e \in Indexed
        /\ UNCHANGED <<created, aged, buffer, held, work, fees, verdicts>>
    BY <1>1, IngestEffect
  <2> QED
    BY <1>0, <2>1, StoredSame DEF Extended, TypeOK, ServerInv, DeliveredInv,
       HandingOnInv, EventOf, Delivered
<1>2. ASSUME NEW e \in Events, Forget(e) PROVE HandingOnInv'
  BY <1>0, <1>2, StoredSame DEF Forget, TypeOK, ServerInv, DeliveredInv, HandingOnInv, EventOf, Delivered
<1>3. CASE CreateConsumer
  BY <1>0, <1>3, StoredSame DEF CreateConsumer, TypeOK, ServerInv, DeliveredInv, HandingOnInv, EventOf,
       Delivered
<1>4. ASSUME NEW s \in Seqs, Deliver(s) PROVE HandingOnInv'
  BY <1>0, <1>4, StoredSame DEF Deliver, TypeOK, ServerInv, DeliveredInv, HandingOnInv, EventOf, Delivered
<1>5. ASSUME NEW s \in Seqs, AckWaitExpires(s) PROVE HandingOnInv'
  BY <1>0, <1>5, StoredSame DEF AckWaitExpires, TypeOK, ServerInv, DeliveredInv, HandingOnInv, EventOf,
       Delivered
<1>6. ASSUME NEW s \in Seqs, Age(s) PROVE HandingOnInv'
  BY <1>0, <1>6, StoredSame DEF Age, TypeOK, ServerInv, DeliveredInv, HandingOnInv, EventOf, Delivered
<1>7. CASE TakeNext
  BY <1>0, <1>7, StoredSame DEF TakeNext, TypeOK, ServerInv, DeliveredInv, HandingOnInv, EventOf, Delivered
<1>8. CASE TermUndecodable
  BY <1>0, <1>8, StoredSame DEF TermUndecodable, TypeOK, ServerInv, DeliveredInv, HandingOnInv, EventOf,
       Delivered
<1>9. ASSUME NEW w \in Workers, Spawn(w) PROVE HandingOnInv'
  BY <1>0, <1>9, StoredSame DEF Spawn, TypeOK, ServerInv, DeliveredInv, HandingOnInv, EventOf, Delivered
<1>10. ASSUME NEW w \in Workers, PublishProduced(w) PROVE HandingOnInv'
  <2>1. Hands(w) /\ Extended
    BY <1>10, ProducedEffect DEF Hands
  <2>2. SUFFICES ASSUME NEW v \in Workers, work'[v].step = "publish", work'[v].action = "remove"
                 PROVE  Produces[stream'[work'[v].seq]] \subseteq Stored' \cup lost' \cup work'[v].todo
    BY DEF HandingOnInv, EventOf
  <2>3. /\ work[v].step = "publish" /\ work[v].action = "remove"
        /\ work'[v].seq = work[v].seq
        /\ work[v].todo \subseteq work'[v].todo \cup Stored' \cup lost'
    BY <2>1, <2>2 DEF Hands
  <2>4. Produces[stream[work[v].seq]] \subseteq Stored \cup lost \cup work[v].todo
    BY <1>0, <2>3 DEF HandingOnInv, EventOf
  <2>5. stream'[work[v].seq] = stream[work[v].seq]
    BY <1>0, <2>1, <2>3, DeliveredStays DEF DeliveredInv
  <2> QED
    BY <2>1, <2>3, <2>4, <2>5 DEF Extended
<1>11. ASSUME NEW w \in Workers, Acknowledge(w) PROVE HandingOnInv'
  <2>1. PICK s, a : Settles(w, s, a)
    BY <1>11, AcknowledgeEffect
  <2>2. \A v \in Workers : work'[v].step = "publish" => work'[v] = work[v]
    BY <2>1 DEF Settles
  <2> QED
    BY <1>0, <2>1, <2>2, StoredSame DEF Settles, HandingOnInv, EventOf
<1>12. ASSUME NEW w \in Workers, CleanUp(w) PROVE HandingOnInv'
  BY <1>0, <1>12, StoredSame DEF CleanUp, TypeOK, ServerInv, DeliveredInv, HandingOnInv, EventOf, Delivered
<1>13. ASSUME NEW w \in Workers, NEW a \in Decided, Work(w, a) PROVE HandingOnInv'
  BY <1>0, <1>13, StoredSame DEF Work, TypeOK, ServerInv, DeliveredInv, HandingOnInv, EventOf, Delivered
<1>14. CASE Crash
  BY <1>0, <1>14, StoredSame DEF Crash, TypeOK, ServerInv, DeliveredInv, HandingOnInv, EventOf, Delivered
<1>15. CASE UNCHANGED vars
  BY <1>0, <1>15, StoredSame DEF TypeOK, ServerInv, DeliveredInv, HandingOnInv, EventOf, Delivered
<1> QED
  BY <1>1, <1>2, <1>3, <1>4, <1>5, <1>6, <1>7, <1>8, <1>9, <1>10, <1>11, <1>12,
     <1>13, <1>14, <1>15 DEF Next, Decided

(* A publication settles nothing, and takes back nothing handed on. *)
LEMMA HandedOnGrows == ASSUME QueueInv, Extended PROVE HandedOn'
<1>1. SUFFICES ASSUME NEW s \in 1..Len(stream'), consumer'[s] = "acked"
               PROVE  Produces[stream'[s]] \subseteq Stored' \cup lost'
  BY DEF HandedOn
<1>2. /\ Len(stream) \in Nat /\ Len(stream') \in Nat /\ Len(stream') <= MaxSeq
      /\ s \in Seqs /\ MaxSeq \in Nat
  BY EventsOK DEF QueueInv, TypeOK, Extended, Seqs
<1>3. s \in 1..Len(stream)
  <2>1. CASE s <= Len(stream)
    BY <1>2, <2>1
  <2>2. CASE s > Len(stream)
    BY <1>1, <1>2, <2>2 DEF Extended
  <2> QED
    BY <1>2, <2>1, <2>2
<1>4. stream'[s] = stream[s] /\ consumer[s] = "acked"
  BY <1>1, <1>3 DEF Extended
<1> QED
  BY <1>3, <1>4 DEF QueueInv, HandedOn, Extended

(* An acknowledgement comes after the events that were handed on. *)
LEMMA HandedOnStep ==
    ASSUME QueueInv, [Next]_vars PROVE HandedOn'
<1> USE EventsOK DEF vars, server, process, Fault, Seqs, ConsumerStates, Actions,
       Steps, Task, Idle
<1>0. TypeOK /\ ServerInv /\ DeliveredInv /\ VerdictInv /\ HandingOnInv /\ HandedOn
  BY DEF QueueInv
<1>1. ASSUME NEW e \in Events, Ingest(e) PROVE HandedOn'
  <2>1. /\ Extended
        /\ e \in Indexed
        /\ UNCHANGED <<created, aged, buffer, held, work, fees, verdicts>>
    BY <1>1, IngestEffect
  <2> QED
    BY <1>0, <2>1, HandedOnGrows
<1>2. ASSUME NEW e \in Events, Forget(e) PROVE HandedOn'
  BY <1>0, <1>2, StoredSame DEF Forget, TypeOK, ServerInv, DeliveredInv, VerdictInv, HandingOnInv, HandedOn,
       EventOf, Retired, Delivered
<1>3. CASE CreateConsumer
  BY <1>0, <1>3, StoredSame DEF CreateConsumer, TypeOK, ServerInv, DeliveredInv, VerdictInv, HandingOnInv,
       HandedOn, EventOf, Retired, Delivered
<1>4. ASSUME NEW s \in Seqs, Deliver(s) PROVE HandedOn'
  BY <1>0, <1>4, StoredSame DEF Deliver, TypeOK, ServerInv, DeliveredInv, VerdictInv, HandingOnInv, HandedOn,
       EventOf, Retired, Delivered
<1>5. ASSUME NEW s \in Seqs, AckWaitExpires(s) PROVE HandedOn'
  BY <1>0, <1>5, StoredSame DEF AckWaitExpires, TypeOK, ServerInv, DeliveredInv, VerdictInv, HandingOnInv,
       HandedOn, EventOf, Retired, Delivered
<1>6. ASSUME NEW s \in Seqs, Age(s) PROVE HandedOn'
  BY <1>0, <1>6, StoredSame DEF Age, TypeOK, ServerInv, DeliveredInv, VerdictInv, HandingOnInv, HandedOn,
       EventOf, Retired, Delivered
<1>7. CASE TakeNext
  BY <1>0, <1>7, StoredSame DEF TakeNext, TypeOK, ServerInv, DeliveredInv, VerdictInv, HandingOnInv, HandedOn,
       EventOf, Retired, Delivered
<1>8. CASE TermUndecodable
  BY <1>0, <1>8, StoredSame DEF TermUndecodable, TypeOK, ServerInv, DeliveredInv, VerdictInv, HandingOnInv,
       HandedOn, EventOf, Retired, Delivered
<1>9. ASSUME NEW w \in Workers, Spawn(w) PROVE HandedOn'
  BY <1>0, <1>9, StoredSame DEF Spawn, TypeOK, ServerInv, DeliveredInv, VerdictInv, HandingOnInv, HandedOn,
       EventOf, Retired, Delivered
<1>10. ASSUME NEW w \in Workers, PublishProduced(w) PROVE HandedOn'
  <2>1. Hands(w) /\ Extended
    BY <1>10, ProducedEffect DEF Hands
  <2>2. SUFFICES ASSUME NEW s \in 1..Len(stream'), consumer'[s] = "acked"
                 PROVE  Produces[stream'[s]] \subseteq Stored' \cup lost'
    BY DEF HandedOn
  <2>3. s \in 1..Len(stream)
    <3>1. s \in Seqs /\ Len(stream) \in Nat /\ s \in Nat
      BY <1>0, <2>1, <2>2 DEF Extended, TypeOK
    <3>2. s > Len(stream) => consumer'[s] \in {"none", "ready"}
      BY <2>1, <3>1 DEF Extended
    <3> QED
      BY <2>2, <3>1, <3>2
  <2>4. Produces[stream[s]] \subseteq Stored \cup lost /\ stream'[s] = stream[s]
    BY <1>0, <2>1, <2>2, <2>3 DEF Extended, HandedOn
  <2> QED
    BY <2>1, <2>4 DEF Extended
<1>11. ASSUME NEW w \in Workers, Acknowledge(w) PROVE HandedOn'
  <2>1. PICK s, a : Settles(w, s, a)
    BY <1>11, AcknowledgeEffect
  <2>2. SUFFICES ASSUME NEW r \in 1..Len(stream), consumer'[r] = "acked"
                 PROVE  Produces[stream[r]] \subseteq Stored \cup lost
    BY <2>1, StoredSame DEF HandedOn, Settles
  <2>3. CASE consumer[r] = "acked"
    BY <1>0, <2>3 DEF HandedOn
  <2>4. CASE consumer[r] # "acked"
    <3>1. r = s /\ a = "remove"
      BY <1>0, <2>1, <2>2, <2>4 DEF Settles, TypeOK
    <3>2. Produces[EventOf(w)] \subseteq Stored \cup lost \cup work[w].todo
      BY <1>0, <2>1, <3>1 DEF Settles, HandingOnInv
    <3> QED
      BY <2>1, <3>1, <3>2 DEF Settles, EventOf
  <2> QED
    BY <2>3, <2>4
<1>12. ASSUME NEW w \in Workers, CleanUp(w) PROVE HandedOn'
  BY <1>0, <1>12, StoredSame DEF CleanUp, TypeOK, ServerInv, DeliveredInv, VerdictInv, HandingOnInv, HandedOn,
       EventOf, Retired, Delivered
<1>13. ASSUME NEW w \in Workers, NEW a \in Decided, Work(w, a) PROVE HandedOn'
  BY <1>0, <1>13, StoredSame DEF Work, TypeOK, ServerInv, DeliveredInv, VerdictInv, HandingOnInv, HandedOn,
       EventOf, Retired, Delivered
<1>14. CASE Crash
  BY <1>0, <1>14, StoredSame DEF Crash, TypeOK, ServerInv, DeliveredInv, VerdictInv, HandingOnInv, HandedOn,
       EventOf, Retired, Delivered
<1>15. CASE UNCHANGED vars
  BY <1>0, <1>15, StoredSame DEF TypeOK, ServerInv, DeliveredInv, VerdictInv, HandingOnInv, HandedOn, EventOf,
       Retired, Delivered
<1> QED
  BY <1>1, <1>2, <1>3, <1>4, <1>5, <1>6, <1>7, <1>8, <1>9, <1>10, <1>11, <1>12,
     <1>13, <1>14, <1>15 DEF Next, Decided

(* A message leaves for a reason. *)
LEMMA ReasonStep ==
    ASSUME QueueInv, [Next]_vars PROVE LeavesForAReason'
<1> USE EventsOK DEF vars, server, process, Fault, Seqs, ConsumerStates, Actions,
       Steps, Task, Idle
<1>0. TypeOK /\ ServerInv /\ DeliveredInv /\ VerdictInv /\ LeavesForAReason
  BY DEF QueueInv
<1>1. ASSUME NEW e \in Events, Ingest(e) PROVE LeavesForAReason'
  <2>1. /\ Extended
        /\ e \in Indexed
        /\ UNCHANGED <<created, aged, buffer, held, work, fees, verdicts>>
    BY <1>1, IngestEffect
  <2>2. SUFFICES ASSUME NEW s \in 1..Len(stream')
                 PROVE  /\ consumer'[s] = "acked" => "remove" \in verdicts[s]
                        /\ consumer'[s] = "termed" =>
                              \/ "drop" \in verdicts[s]
                              \/ s \in aged
                              \/ stream'[s] \in Undecodable
    BY <2>1 DEF LeavesForAReason
  <2>3. CASE s \in 1..Len(stream)
    BY <1>0, <2>1, <2>3 DEF Extended, LeavesForAReason
  <2>4. CASE s \notin 1..Len(stream)
    <3>1. s \in Seqs /\ s > Len(stream)
      BY <1>0, <2>1, <2>2, <2>4 DEF Extended, TypeOK
    <3>2. consumer'[s] \in {"none", "ready"}
      BY <2>1, <3>1 DEF Extended
    <3> QED
      BY <3>2
  <2> QED
    BY <2>3, <2>4
<1>2. ASSUME NEW e \in Events, Forget(e) PROVE LeavesForAReason'
  BY <1>0, <1>2 DEF Forget, TypeOK, ServerInv, DeliveredInv, VerdictInv, LeavesForAReason, Retired,
       Delivered
<1>3. CASE CreateConsumer
  BY <1>0, <1>3 DEF CreateConsumer, TypeOK, ServerInv, DeliveredInv, VerdictInv, LeavesForAReason,
       Retired, Delivered
<1>4. ASSUME NEW s \in Seqs, Deliver(s) PROVE LeavesForAReason'
  <2>1. \A r \in 1..Len(stream) : r # s => consumer'[r] = consumer[r]
    BY <1>0, <1>4 DEF Deliver, TypeOK
  <2>2. consumer'[s] = "pending"
    BY <1>0, <1>4 DEF Deliver, TypeOK
  <2>3. UNCHANGED <<stream, aged, verdicts>>
    BY <1>4 DEF Deliver
  <2> QED
    BY <1>0, <2>1, <2>2, <2>3 DEF LeavesForAReason
<1>5. ASSUME NEW s \in Seqs, AckWaitExpires(s) PROVE LeavesForAReason'
  BY <1>0, <1>5 DEF AckWaitExpires, TypeOK, ServerInv, DeliveredInv, VerdictInv, LeavesForAReason,
       Retired, Delivered
<1>6. ASSUME NEW s \in Seqs, Age(s) PROVE LeavesForAReason'
  BY <1>0, <1>6 DEF Age, TypeOK, ServerInv, DeliveredInv, VerdictInv, LeavesForAReason, Retired,
       Delivered
<1>7. CASE TakeNext
  BY <1>0, <1>7 DEF TakeNext, TypeOK, ServerInv, DeliveredInv, VerdictInv, LeavesForAReason,
       Retired, Delivered
<1>8. CASE TermUndecodable
  BY <1>0, <1>8 DEF TermUndecodable, TypeOK, ServerInv, DeliveredInv, VerdictInv, LeavesForAReason,
       Retired, Delivered
<1>9. ASSUME NEW w \in Workers, Spawn(w) PROVE LeavesForAReason'
  BY <1>0, <1>9 DEF Spawn, TypeOK, ServerInv, DeliveredInv, VerdictInv, LeavesForAReason, Retired,
       Delivered
<1>10. ASSUME NEW w \in Workers, PublishProduced(w) PROVE LeavesForAReason'
  <2>1. Hands(w) /\ Extended
    BY <1>10, ProducedEffect DEF Hands
  <2>2. SUFFICES ASSUME NEW s \in 1..Len(stream')
                 PROVE  /\ consumer'[s] = "acked" => "remove" \in verdicts[s]
                        /\ consumer'[s] = "termed" =>
                              \/ "drop" \in verdicts[s]
                              \/ s \in aged
                              \/ stream'[s] \in Undecodable
    BY <2>1 DEF LeavesForAReason, Hands
  <2>3. CASE s \in 1..Len(stream)
    BY <1>0, <2>1, <2>3 DEF Extended, LeavesForAReason
  <2>4. CASE s \notin 1..Len(stream)
    <3>1. s \in Seqs /\ s > Len(stream)
      BY <1>0, <2>1, <2>2, <2>4 DEF Extended, TypeOK
    <3>2. consumer'[s] \in {"none", "ready"}
      BY <2>1, <3>1 DEF Extended
    <3> QED
      BY <3>2
  <2> QED
    BY <2>3, <2>4
<1>11. ASSUME NEW w \in Workers, Acknowledge(w) PROVE LeavesForAReason'
  <2>1. PICK s, a : Settles(w, s, a)
    BY <1>11, AcknowledgeEffect
  <2> QED
    BY <1>0, <2>1 DEF Settles, TypeOK, ServerInv, DeliveredInv, VerdictInv,
       LeavesForAReason, Retired, Delivered
<1>12. ASSUME NEW w \in Workers, CleanUp(w) PROVE LeavesForAReason'
  BY <1>0, <1>12 DEF CleanUp, TypeOK, ServerInv, DeliveredInv, VerdictInv, LeavesForAReason,
       Retired, Delivered
<1>13. ASSUME NEW w \in Workers, NEW a \in Decided, Work(w, a) PROVE LeavesForAReason'
  BY <1>0, <1>13 DEF Work, TypeOK, ServerInv, DeliveredInv, VerdictInv, LeavesForAReason, Retired,
       Delivered
<1>14. CASE Crash
  BY <1>0, <1>14 DEF Crash, TypeOK, ServerInv, DeliveredInv, VerdictInv, LeavesForAReason, Retired,
       Delivered
<1>15. CASE UNCHANGED vars
  BY <1>0, <1>15 DEF TypeOK, ServerInv, DeliveredInv, VerdictInv, LeavesForAReason, Retired,
       Delivered
<1> QED
  BY <1>1, <1>2, <1>3, <1>4, <1>5, <1>6, <1>7, <1>8, <1>9, <1>10, <1>11, <1>12,
     <1>13, <1>14, <1>15 DEF Next, Decided

(* The inductive invariant, from which the properties follow. *)
LEMMA QueueInvariant == Spec => []QueueInv
<1>1. Init => QueueInv
  <2> SUFFICES ASSUME Init PROVE QueueInv
    OBVIOUS
  <2>1. TypeOK
    <3>1. BatchSize \in Nat /\ BatchSize >= 0
      BY BatchIsNat
    <3>2. Idle \in [seq: 0..MaxSeq, step: Steps, action: Actions, todo: SUBSET Events]
      BY EventsOK DEF Idle, Task, Steps, Actions
    <3> QED
      BY <3>1, <3>2, EventsOK DEF Init, TypeOK, Seqs, ConsumerStates
  <2> QED
    BY <2>1 DEF Init, QueueInv, ServerInv, DeliveredInv, Delivered, VerdictInv, HandingOnInv,
       CleanUpInv, HandedOn, LeavesForAReason, Idle, Task, Seqs
<1>2. QueueInv /\ [Next]_vars => QueueInv'
  BY TypeStep, ServerStep, DeliveredStep, VerdictStep, CleanUpStep, HandingOnStep,
     HandedOnStep, ReasonStep DEF QueueInv
<1> QED
  BY <1>1, <1>2, PTL DEF Spec

(* Every reachable state is well typed: the stream holds events, the       *)
(* buffer and the permits refer to messages.                               *)
THEOREM QueueTypeCorrect == Spec => []TypeOK
BY QueueInvariant, PTL DEF QueueInv

(* Every event acknowledged as relayed has handed on what it produced,     *)
(* however often it was delivered and wherever the process died.           *)
THEOREM RelayedIsHandedOn == Spec => []HandedOn
BY QueueInvariant, PTL DEF QueueInv

(* Every message that left the queue was relayed or given up by a task of  *)
(* its own, was too old to retry, or was garbage.                          *)
THEOREM NothingLeavesUnsettled == Spec => []LeavesForAReason
BY QueueInvariant, PTL DEF QueueInv
-----------------------------------------------------------------------------
(* Only a clean-up deletes a cached fee, and only of a message that left.  *)
LEMMA FeeStep ==
    ASSUME QueueInv, [Next]_vars
    PROVE  \A t \in fees \ fees' :
               \E s \in 1..Len(stream) : Transfer[stream[s]] = t /\ Retired(s)
<1>1. ASSUME NEW w \in Workers, CleanUp(w)
      PROVE  \A t \in fees \ fees' :
                 \E s \in 1..Len(stream) : Transfer[stream[s]] = t /\ Retired(s)
  <2>1. /\ work[w].seq \in 1..Len(stream) /\ Retired(work[w].seq)
    BY <1>1 DEF CleanUp, QueueInv, DeliveredInv, Delivered, CleanUpInv
  <2>2. \A t \in fees \ fees' : Transfer[stream[work[w].seq]] = t
    BY <1>1 DEF CleanUp, EventOf
  <2> QED
    BY <2>1, <2>2
<1>2. (\E w \in Workers : CleanUp(w)) \/ fees \subseteq fees'
  BY DEF Next, vars, server, process, Ingest, Forget, CreateConsumer, Deliver, AckWaitExpires,
     Age, TakeNext, TermUndecodable, Spawn, PublishProduced, Acknowledge, Work, Crash
<1> QED
  BY <1>1, <1>2

(* A cached fee is deleted only when an event of its transfer has left the *)
(* queue: as long as all of them are to be retried, the sender's quote     *)
(* stays.                                                                  *)
THEOREM QuotesOutliveRetries == Spec => FeeOutlivesRetries
BY QueueInvariant, FeeStep, PTL DEF Spec, FeeOutlivesRetries
-----------------------------------------------------------------------------
(* What the abstract queue sees of a step that settles no message, settles *)
(* one, or publishes an event.                                             *)
LEMMA NothingSettled ==
    ASSUME NEW state, UNCHANGED stream,
           \A s \in 1..Len(stream) : consumer'[s] = state <=> consumer[s] = state
    PROVE  SettledAs(state)' = SettledAs(state)
BY DEF SettledAs

(* When one message reaches a state, the events in that state gain its event. *)
LEMMA OneSettled ==
    ASSUME NEW state, NEW s \in 1..Len(stream), UNCHANGED stream, consumer'[s] = state,
           \A r \in 1..Len(stream) : r # s => consumer'[r] = consumer[r]
    PROVE  SettledAs(state)' = SettledAs(state) \cup {stream[s]}
<1>1. SettledAs(state)' \subseteq SettledAs(state) \cup {stream[s]}
  BY DEF SettledAs
<1>2. stream[s] \in SettledAs(state)'
  BY DEF SettledAs
<1>3. ASSUME NEW e \in SettledAs(state) PROVE e \in SettledAs(state)'
  <2>1. PICK r \in 1..Len(stream) : consumer[r] = state /\ e = stream[r]
    BY <1>3 DEF SettledAs
  <2>2. consumer'[r] = state
    BY <2>1
  <2> QED
    BY <2>1, <2>2 DEF SettledAs
<1> QED
  BY <1>1, <1>2, <1>3

(* No message enters or leaves the states acked and termed. *)
Quiet ==
    /\ UNCHANGED <<stream, lost>>
    /\ \A s \in 1..Len(stream) :
          \/ consumer'[s] = consumer[s]
          \/ ~Retired(s) /\ consumer'[s] \notin {"acked", "termed"}

(* A step that settles and stores nothing is a stutter of the promise. *)
LEMMA QuietStutters == ASSUME Quiet PROVE UNCHANGED Promise!vars
<1>1. SettledAs("acked")' = SettledAs("acked") /\ SettledAs("termed")' = SettledAs("termed")
  BY NothingSettled DEF Quiet, Retired
<1>2. Stored' = Stored
  BY StoredSame DEF Quiet
<1> QED
  BY <1>1, <1>2 DEF Quiet, Promise!vars

(* A publication is an acceptance or a loss of the promise, or a stutter. *)
LEMMA PublicationsMap ==
    ASSUME QueueInv, NEW e \in Events, Publishes(e) PROVE [Promise!Next]_(Promise!vars)
<1>1. CASE Published(e) /\ UNCHANGED <<lost, faults>>
  <2>1. /\ Stored' = Stored \cup {e} /\ Len(stream) \in Nat /\ Len(stream') \in Nat
        /\ Len(stream) <= Len(stream') /\ Len(stream') <= MaxSeq
        /\ \A s \in 1..Len(stream) : stream'[s] = stream[s] /\ consumer'[s] = consumer[s]
        /\ \A s \in Seqs : s > Len(stream) => consumer'[s] \in {"none", "ready"}
    BY <1>1, PublishedEffect DEF QueueInv, TypeOK
  <2>2. ASSUME NEW state \in {"acked", "termed"}
        PROVE  SettledAs(state)' = SettledAs(state)
    <3>1. \A s \in 1..Len(stream') : consumer'[s] = state => s \in 1..Len(stream)
      BY <2>1, EventsOK DEF Seqs
    <3>2. \A s \in 1..Len(stream) : s \in 1..Len(stream')
      BY <2>1
    <3> QED
      BY <2>1, <3>1, <3>2 DEF SettledAs
  <2>3. CASE e \in Stored
    BY <1>1, <2>1, <2>2, <2>3 DEF Promise!vars
  <2>4. CASE e \notin Stored
    <3>1. Promise!Accept(e)
      BY <1>1, <2>1, <2>2, <2>4 DEF Promise!Accept
    <3> QED
      BY <3>1 DEF Promise!Next
  <2> QED
    BY <2>3, <2>4
<1>2. CASE PublishFails(e)
  <2>1. SettledAs("acked")' = SettledAs("acked") /\ SettledAs("termed")' = SettledAs("termed")
    BY <1>2, NothingSettled DEF PublishFails
  <2>2. Promise!Lose(e)
    BY <1>2, <2>1, StoredSame DEF PublishFails, Promise!Lose
  <2> QED
    BY <2>2 DEF Promise!Next
<1> QED
  BY <1>1, <1>2 DEF Publishes

(* Terminating a message is giving up its event. *)
LEMMA GivingUpMaps ==
    ASSUME QueueInv, NEW s \in 1..Len(stream), consumer'[s] = "termed", ~Retired(s),
           \A r \in 1..Len(stream) : r # s => consumer'[r] = consumer[r],
           UNCHANGED <<stream, lost>>
    PROVE  [Promise!Next]_(Promise!vars)
<1>1. stream[s] \in Events /\ stream[s] \in Stored
  BY DEF QueueInv, TypeOK, Stored, Range
<1>2. SettledAs("acked")' = SettledAs("acked")
  BY NothingSettled DEF Retired
<1>3. SettledAs("termed")' = SettledAs("termed") \cup {stream[s]}
  BY OneSettled
<1>4. Promise!GiveUp(stream[s])
  BY <1>1, <1>2, <1>3, StoredSame DEF Promise!GiveUp
<1> QED
  BY <1>1, <1>4 DEF Promise!Next

(* Acknowledging a message whose follow-ups are stored is relaying its event. *)
LEMMA RelayingMaps ==
    ASSUME QueueInv, NEW s \in 1..Len(stream), consumer'[s] = "acked", ~Retired(s),
           \A r \in 1..Len(stream) : r # s => consumer'[r] = consumer[r],
           UNCHANGED <<stream, lost>>, Produces[stream[s]] \subseteq Stored \cup lost
    PROVE  [Promise!Next]_(Promise!vars)
<1>1. stream[s] \in Events /\ stream[s] \in Stored
  BY DEF QueueInv, TypeOK, Stored, Range
<1>2. SettledAs("termed")' = SettledAs("termed")
  BY NothingSettled DEF Retired
<1>3. SettledAs("acked")' = SettledAs("acked") \cup {stream[s]}
  BY OneSettled
<1>4. Promise!Relay(stream[s])
  BY <1>1, <1>2, <1>3, StoredSame DEF Promise!Relay
<1> QED
  BY <1>1, <1>4 DEF Promise!Next

(* Every step of the queue is one of the abstract queue, or a stutter. *)
LEMMA PromiseStep ==
    ASSUME QueueInv, [Next]_vars PROVE [Promise!Next]_(Promise!vars)
<1>0. TypeOK /\ ServerInv /\ DeliveredInv /\ HandingOnInv
  BY DEF QueueInv
<1>0a. \A s \in 1..Len(stream) : s \in Seqs
  BY <1>0, EventsOK DEF TypeOK, Seqs
<1>1. ASSUME NEW e \in Events, Ingest(e) PROVE [Promise!Next]_(Promise!vars)
  BY <1>1, PublicationsMap DEF Ingest, Publishes
<1>2. CASE CreateConsumer
  <2>1. \A s \in 1..Len(stream) :
            consumer[s] = "none" /\ consumer'[s] \notin {"acked", "termed"}
    BY <1>0, <1>2, EventsOK DEF CreateConsumer, TypeOK, ServerInv, Seqs
  <2>2. Quiet
    BY <1>2, <2>1 DEF Quiet, CreateConsumer, Retired
  <2> QED
    BY <2>2, QuietStutters
<1>3. ASSUME NEW s \in Seqs, Deliver(s) \/ AckWaitExpires(s)
      PROVE  [Promise!Next]_(Promise!vars)
  <2>1. Quiet
    BY <1>0, <1>0a, <1>3 DEF Quiet, Deliver, AckWaitExpires, TypeOK, Retired
  <2> QED
    BY <2>1, QuietStutters
<1>4. CASE TermUndecodable
  <2>1. held \in 1..Len(stream) /\ UNCHANGED <<stream, lost>>
    BY <1>0, <1>4 DEF TermUndecodable, DeliveredInv, Delivered
  <2>2. CASE consumer' = [consumer EXCEPT ![held] = "termed"] /\ ~Retired(held)
    <3>1. /\ consumer'[held] = "termed"
          /\ \A r \in 1..Len(stream) : r # held => consumer'[r] = consumer[r]
      BY <1>0, <1>0a, <2>1, <2>2 DEF TypeOK
    <3> QED
      BY <2>1, <2>2, <3>1, GivingUpMaps
  <2>3. CASE consumer' = consumer
    BY <2>1, <2>3, QuietStutters DEF Quiet
  <2>4. \/ consumer' = [consumer EXCEPT ![held] = IF Retired(held) THEN @ ELSE "termed"]
        \/ consumer' = consumer
    BY <1>4 DEF TermUndecodable
  <2>5. Retired(held) /\ consumer' = [consumer EXCEPT ![held] = IF Retired(held) THEN @ ELSE "termed"]
           => consumer' = consumer
    BY <1>0, <2>1 DEF TypeOK
  <2> QED
    BY <2>2, <2>3, <2>4, <2>5
<1>5. ASSUME NEW w \in Workers, PublishProduced(w) PROVE [Promise!Next]_(Promise!vars)
  <2>1. PICK e \in work[w].todo : Publishes(e)
    BY <1>5 DEF PublishProduced, Publishes
  <2>2. e \in Events
    BY <1>0, <2>1 DEF TypeOK
  <2> QED
    BY <2>1, <2>2, PublicationsMap
<1>6. ASSUME NEW w \in Workers, Acknowledge(w) PROVE [Promise!Next]_(Promise!vars)
  <2>1. PICK s, a : Settles(w, s, a)
    BY <1>6, AcknowledgeEffect
  <2>2. /\ s \in 1..Len(stream) /\ UNCHANGED <<stream, lost>>
        /\ \A r \in 1..Len(stream) : r # s => consumer'[r] = consumer[r]
    BY <1>0, <2>1, EventsOK DEF Settles, TypeOK, Seqs
  <2>3. CASE ~Retired(s) /\ consumer'[s] = "acked" /\ a = "remove"
    <3>1. Produces[stream[s]] \subseteq Stored \cup lost
      BY <1>0, <2>1, <2>3 DEF Settles, HandingOnInv, EventOf
    <3> QED
      BY <2>2, <2>3, <3>1, RelayingMaps
  <2>4. CASE ~Retired(s) /\ consumer'[s] = "termed"
    BY <2>2, <2>4, GivingUpMaps
  <2>5. CASE \/ consumer'[s] = consumer[s]
             \/ ~Retired(s) /\ consumer'[s] = "ready"
    BY <2>2, <2>5, QuietStutters DEF Quiet
  <2> QED
    BY <2>1, <2>3, <2>4, <2>5 DEF Settles
<1>7. CASE UNCHANGED <<stream, consumer, lost>>
  BY <1>7, QuietStutters DEF Quiet
<1>8. \/ UNCHANGED <<stream, consumer, lost>>
      \/ \E e \in Events : Ingest(e)
      \/ CreateConsumer \/ TermUndecodable
      \/ \E s \in Seqs : Deliver(s) \/ AckWaitExpires(s)
      \/ \E w \in Workers : PublishProduced(w) \/ Acknowledge(w)
  BY DEF Next, vars, server, process, Forget, Age, TakeNext, Spawn, CleanUp, Work, Crash
<1> QED
  BY <1>1, <1>2, <1>3, <1>4, <1>5, <1>6, <1>7, <1>8

(* The safety part of KeepsPromise: whatever happens to the deliveries,    *)
(* the queue behaves like the abstract one, in which an event is settled   *)
(* as relayed only after what it produces was handed to the queue.         *)
THEOREM QueueKeepsPromise == Spec => Promise!Init /\ [][Promise!Next]_(Promise!vars)
<1>1. Init => Promise!Init
  BY DEF Init, Promise!Init, Stored, SettledAs, Range
<1> QED
  BY <1>1, PromiseStep, QueueInvariant, PTL DEF Spec
=============================================================================
