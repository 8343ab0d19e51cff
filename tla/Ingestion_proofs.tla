------------------------- MODULE Ingestion_proofs -------------------------
(***************************************************************************)
(* Ingestion, for any stream of events, number of inputs, buffer and       *)
(* number of failures: an acknowledged event has skipped none of its work  *)
(* items, and none is queued twice while the server remembers its id.      *)
(***************************************************************************)
EXTENDS Ingestion, SequenceTheorems, TLAPS

Sent(i) == Key(i) \in Keys(Stored) \/ i \in lost

(* What is not published of the event at hand is still to be published. *)
HandlingInv ==
    /\ handling = NoEvent => todo = <<>>
    /\ handling \in OmniEvents \ Undecodable =>
          \A i \in Range(Items(handling)) : i \in Range(todo) \/ Sent(i)

(* The server remembers the id of each stored message until it forgets it. *)
MemoryInv == recent \subseteq Keys(Stored) /\ Keys(Stored) \subseteq recent \cup forgotten

IngestInv == TypeOK /\ HandlingInv /\ MemoryInv /\ NothingSkipped /\ QueuedOnce
-----------------------------------------------------------------------------
(* The empty sequence has no element. *)
LEMMA RangeEmpty == Range(<<>>) = {}
<1>1. <<>> \in Seq({}) /\ Len(<<>>) = 0
  BY EmptySeq
<1> QED
  BY <1>1, LenProperties DEF Range

(* The elements of a sequence over a set are in the set. *)
LEMMA RangeIn == ASSUME NEW S, NEW q \in Seq(S) PROVE Range(q) \subseteq S
BY LenProperties, ElementOfSeq DEF Range

(* Taking the head off a sequence, and putting an element at its end. *)
LEMMA RangeTail ==
    ASSUME NEW S, NEW q \in Seq(S), q # <<>>
    PROVE  /\ Head(q) \in S /\ Tail(q) \in Seq(S)
           /\ Len(q) \in Nat /\ Len(Tail(q)) = Len(q) - 1
           /\ Range(q) = {Head(q)} \cup Range(Tail(q))
<1>1. /\ Len(q) \in Nat /\ Len(q) >= 1 /\ DOMAIN q = 1..Len(q)
      /\ Head(q) \in S /\ Tail(q) \in Seq(S) /\ Head(q) = q[1] /\ Len(Tail(q)) = Len(q) - 1
      /\ DOMAIN Tail(q) = 1..Len(q) - 1 /\ \A i \in 1..Len(q) - 1 : Tail(q)[i] = q[i + 1]
  BY EmptySeq, HeadTailProperties, LenProperties
<1>2. ASSUME NEW i \in 1..Len(q), i # 1 PROVE q[i] \in Range(Tail(q))
  <2>1. i - 1 \in DOMAIN Tail(q) /\ q[i] = Tail(q)[i - 1]
    BY <1>1, <1>2
  <2> QED
    BY <2>1 DEF Range
<1>3. ASSUME NEW i \in DOMAIN Tail(q) PROVE Tail(q)[i] \in Range(q)
  <2>1. i + 1 \in DOMAIN q /\ Tail(q)[i] = q[i + 1]
    BY <1>1
  <2> QED
    BY <2>1 DEF Range
<1>4. 1 \in DOMAIN q
  BY <1>1
<1> QED
  BY <1>1, <1>2, <1>3, <1>4 DEF Range

(* What appending an element does to the length, the places and the range. *)
LEMMA RangeAppend ==
    ASSUME NEW S, NEW q \in Seq(S), NEW e \in S
    PROVE  /\ Append(q, e) \in Seq(S)
           /\ Len(q) \in Nat /\ Len(Append(q, e)) = Len(q) + 1
           /\ \A i \in 1..Len(q) : Append(q, e)[i] = q[i]
           /\ Append(q, e)[Len(q) + 1] = e
           /\ Range(Append(q, e)) = Range(q) \cup {e}
<1>1. /\ Append(q, e) \in Seq(S) /\ Len(q) \in Nat /\ DOMAIN q = 1..Len(q)
      /\ Len(Append(q, e)) = Len(q) + 1
      /\ DOMAIN Append(q, e) = 1..Len(q) + 1 /\ Append(q, e)[Len(q) + 1] = e
      /\ \A i \in 1..Len(q) : Append(q, e)[i] = q[i]
  BY AppendProperties, LenProperties
<1>2. ASSUME NEW i \in DOMAIN Append(q, e) PROVE Append(q, e)[i] \in Range(q) \cup {e}
  <2>1. CASE i \in DOMAIN q
    BY <1>1, <2>1 DEF Range
  <2>2. CASE i \notin DOMAIN q
    BY <1>1, <1>2, <2>2
  <2> QED
    BY <2>1, <2>2
<1>3. ASSUME NEW i \in DOMAIN q PROVE q[i] \in Range(Append(q, e))
  <2>1. i \in DOMAIN Append(q, e) /\ Append(q, e)[i] = q[i]
    BY <1>1
  <2> QED
    BY <2>1 DEF Range
<1>4. e \in Range(Append(q, e))
  <2>1. Len(q) + 1 \in DOMAIN Append(q, e)
    BY <1>1
  <2> QED
    BY <1>1, <2>1 DEF Range
<1> QED
  BY <1>1, <1>2, <1>3, <1>4 DEF Range

(* An event stands for a sequence of work items. *)
LEMMA ItemsTyped == ASSUME NEW e \in OmniEvents PROVE Items(e) \in Seq(AllItems)
<1> DEFINE n == CASE e.kind = "evm" -> 2 [] e.kind = "toUtxo" -> UtxoCount [] OTHER -> 1
<1>1. n \in Nat
  BY IngestionOK
<1>2. Items(e) = [k \in 1..n |-> Item(e, k)]
  BY DEF Items
<1>3. DOMAIN Items(e) = 1..n
  BY <1>2
<1>4. \A k \in 1..n : Items(e)[k] \in AllItems
  <2>1. \A k \in 1..n : Items(e)[k] \in Range(Items(e))
    BY <1>3 DEF Range
  <2> QED
    BY <2>1 DEF AllItems
<1> HIDE DEF n
<1> QED
  BY <1>1, <1>2, <1>4
-----------------------------------------------------------------------------
(* What is stored is known to be one of the events' work items. *)
LEMMA StoreEffect ==
    ASSUME TypeOK, NEW i \in AllItems, Store(i)
    PROVE  /\ stream' \in Seq(AllItems) /\ Len(stream') <= MaxStream
           /\ recent' \subseteq AllKeys
           /\ Stored' = Stored \cup {i} /\ recent' = recent \cup {Key(i)}
<1>1. /\ stream' \in Seq(AllItems) /\ Len(stream) \in Nat /\ Len(stream') = Len(stream) + 1
      /\ Stored' = Stored \cup {i}
  BY RangeAppend DEF TypeOK, Store, Stored
<1>2. Key(i) \in AllKeys
  BY DEF AllKeys
<1> QED
  BY <1>1, <1>2, IngestionOK DEF TypeOK, Store

(* And no message under a remembered id was in the stream before. *)
LEMMA StoredOnce ==
    ASSUME TypeOK, MemoryInv, QueuedOnce, NEW i \in AllItems, Store(i), UNCHANGED forgotten
    PROVE  QueuedOnce'
<1>1. /\ Len(stream) \in Nat /\ Len(stream') = Len(stream) + 1
      /\ \A n \in 1..Len(stream) : stream'[n] = stream[n]
      /\ stream'[Len(stream) + 1] = i
  BY RangeAppend DEF TypeOK, Store
<1>2. ASSUME NEW n \in 1..Len(stream), Key(stream[n]) = Key(i)
      PROVE  Key(stream[n]) \in forgotten
  <2>1. Key(stream[n]) \in Keys(Stored)
    BY <1>1, LenProperties DEF TypeOK, Keys, Stored, Range
  <2> QED
    BY <1>2, <2>1 DEF MemoryInv, Store
<1>3. \A n \in 1..Len(stream') : n \in 1..Len(stream) \/ n = Len(stream) + 1
  BY <1>1
<1> QED
  BY <1>1, <1>2, <1>3 DEF QueuedOnce

(* Every step keeps the types. *)
LEMMA TypeStep ==
    ASSUME IngestInv, [Next]_vars PROVE TypeOK'
<1> USE IngestionOK DEF vars, consumer, handler, relayer, Done, Store
<1>0. TypeOK
  BY DEF IngestInv
<1>1. ASSUME NEW e \in OmniEvents, Deliver(e) PROVE TypeOK'
  <2>1. /\ Append(buffer, e) \in Seq(OmniEvents)
        /\ Len(Append(buffer, e)) = Len(buffer) + 1 /\ Len(buffer) \in Nat
    BY <1>0, RangeAppend DEF TypeOK
  <2>2. Len(buffer') <= MaxBuffer /\ tries[e] + 1 \in 0..MaxDeliver
    <3>1. tries[e] \in 0..MaxDeliver /\ tries[e] < MaxDeliver
      BY <1>0, <1>1 DEF Deliver, TypeOK
    <3>2. Len(buffer) < MaxBuffer /\ buffer' = Append(buffer, e)
      BY <1>1 DEF Deliver
    <3> QED
      BY <2>1, <3>1, <3>2
  <2>3. /\ state' \in [OmniEvents -> {"ready", "pending", "acked", "termed"}]
        /\ tries' \in [OmniEvents -> 0..MaxDeliver]
    BY <1>0, <1>1, <2>2 DEF Deliver, TypeOK
  <2> QED
    BY <1>0, <1>1, <2>1, <2>2, <2>3 DEF Deliver, TypeOK
<1>2. ASSUME NEW e \in OmniEvents, BackoffExpires(e) PROVE TypeOK'
  BY <1>0, <1>2 DEF BackoffExpires, TypeOK
<1>3. CASE TakeNext
  <2>1. /\ Head(buffer) \in OmniEvents /\ Tail(buffer) \in Seq(OmniEvents)
        /\ Len(buffer) \in Nat /\ Len(Tail(buffer)) = Len(buffer) - 1
    BY <1>0, <1>3, RangeTail DEF TakeNext, TypeOK
  <2>2. todo' \in Seq(AllItems)
    BY <1>3, <2>1, ItemsTyped DEF TakeNext
  <2>3. buffer' \in Seq(OmniEvents) /\ Len(buffer') <= MaxBuffer
    <3>1. buffer' = Tail(buffer)
      BY <1>3 DEF TakeNext
    <3>2. Len(buffer) <= MaxBuffer
      BY <1>0 DEF TypeOK
    <3>3. Len(Tail(buffer)) <= MaxBuffer
      <4> DEFINE n == Len(buffer)
                 k == Len(Tail(buffer))
      <4>1. n \in Nat /\ k = n - 1 /\ n <= MaxBuffer /\ MaxBuffer \in Nat
        BY <2>1, <3>2
      <4> HIDE DEF n, k
      <4>2. k <= MaxBuffer
        BY <4>1
      <4> QED
        BY <4>2 DEF k
    <3> QED
      BY <2>1, <3>1, <3>3
  <2>4. handling' \in OmniEvents
    BY <1>3, <2>1 DEF TakeNext
  <2> QED
    BY <1>0, <1>3, <2>2, <2>3, <2>4 DEF TakeNext, TypeOK
<1>4. CASE TermUndecodable
  <2>1. faults' \in 0..MaxFaults
    BY <1>0, <1>4 DEF TermUndecodable, Fault, TypeOK
  <2> QED
    BY <1>0, <1>4, <2>1, EmptySeq DEF TermUndecodable, Retired, TypeOK
<1>5. CASE HandlerFails
  <2>1. faults' \in 0..MaxFaults
    BY <1>0, <1>5 DEF HandlerFails, Fault, TypeOK
  <2> QED
    BY <1>0, <1>5, <2>1, EmptySeq DEF HandlerFails, TypeOK
<1>6. CASE Publish
  <2>1. Head(todo) \in AllItems /\ Tail(todo) \in Seq(AllItems)
    BY <1>0, <1>6, RangeTail DEF Publish, TypeOK
  <2>2. Key(Head(todo)) \in AllKeys
    BY <2>1 DEF AllKeys
  <2>3. faults' \in 0..MaxFaults
    <3>1. Fault \/ UNCHANGED faults
      BY <1>6 DEF Publish
    <3>2. faults \in 0..MaxFaults /\ MaxFaults \in Nat
      BY <1>0, IngestionOK DEF TypeOK
    <3> QED
      BY <3>1, <3>2 DEF Fault
  <2>4. stream' \in Seq(AllItems) /\ Len(stream') <= MaxStream
    <3>1. CASE stream' = stream
      BY <1>0, <3>1 DEF TypeOK
    <3>2. CASE stream' = Append(stream, Head(todo)) /\ Len(stream) < MaxStream
      BY <1>0, <2>1, <3>2, RangeAppend DEF TypeOK
    <3> QED
      BY <1>6, <3>1, <3>2 DEF Publish
  <2>5. recent' \subseteq AllKeys /\ lost' \subseteq AllItems
    BY <1>0, <1>6, <2>1, <2>2 DEF Publish, TypeOK
  <2> QED
    BY <1>0, <1>6, <2>1, <2>3, <2>4, <2>5 DEF Publish, TypeOK
<1>7. CASE Ack
  <2>1. faults' \in 0..MaxFaults
    BY <1>0, <1>7 DEF Ack, Fault, TypeOK
  <2> QED
    BY <1>0, <1>7, <2>1, EmptySeq DEF Ack, Retired, TypeOK
<1>8. ASSUME NEW k \in AllKeys, Forget(k) PROVE TypeOK'
  BY <1>0, <1>8 DEF Forget, TypeOK
<1>9. CASE Restart
  <2>1. faults' \in 0..MaxFaults
    BY <1>0, <1>9 DEF Restart, Fault, TypeOK
  <2>2. <<>> \in Seq(OmniEvents) /\ <<>> \in Seq(AllItems) /\ Len(<<>>) = 0
    BY EmptySeq
  <2>3. buffer' \in Seq(OmniEvents) /\ Len(buffer') <= MaxBuffer
    BY <1>9, <2>2 DEF Restart
  <2>4. handling' = NoEvent /\ todo' \in Seq(AllItems)
    BY <1>9, <2>2 DEF Restart
  <2> QED
    BY <1>0, <1>9, <2>1, <2>3, <2>4 DEF Restart, TypeOK
<1>10. CASE UNCHANGED vars
  BY <1>0, <1>10 DEF TypeOK
<1>11. ASSUME NEW i \in AllItems, WorkerPublishes(i) PROVE TypeOK'
  BY <1>0, <1>11, StoreEffect DEF WorkerPublishes, TypeOK
<1> QED
  BY <1>1, <1>2, <1>3, <1>4, <1>5, <1>6, <1>7, <1>8, <1>9, <1>10, <1>11 DEF Next

(* A publication stores its item, under its id, unless the server knows the *)
(* id or the item is lost.                                                   *)
LEMMA StoredEffect ==
    ASSUME TypeOK, Publish
    PROVE  /\ Range(todo) = {Head(todo)} \cup Range(todo')
           /\ \/ /\ Stored' = Stored /\ UNCHANGED recent
                 /\ Key(Head(todo)) \in recent \/ Head(todo) \in lost'
              \/ /\ Stored' = Stored \cup {Head(todo)}
                 /\ recent' = recent \cup {Key(Head(todo))}
           /\ lost \subseteq lost'
<1> USE DEF Store
<1>1. /\ Head(todo) \in AllItems /\ Range(todo) = {Head(todo)} \cup Range(Tail(todo))
      /\ todo' = Tail(todo)
  BY RangeTail DEF Publish, TypeOK
<1>2. stream' = Append(stream, Head(todo)) => Stored' = Stored \cup {Head(todo)}
  BY <1>1, RangeAppend DEF Stored, TypeOK
<1>3. CASE UNCHANGED relayer
  <2>1. Stored' = Stored /\ UNCHANGED recent
    BY <1>3 DEF Stored, relayer
  <2>2. lost \subseteq lost'
    BY DEF Publish
  <2>3. \/ Key(Head(todo)) \in recent \/ Head(todo) \in lost'
        \/ stream' = Append(stream, Head(todo)) /\ recent' = recent \cup {Key(Head(todo))}
    BY DEF Publish
  <2> QED
    BY <1>1, <1>2, <2>1, <2>2, <2>3
<1>4. CASE stream' = Append(stream, Head(todo)) /\ recent' = recent \cup {Key(Head(todo))}
           /\ UNCHANGED lost
  BY <1>1, <1>2, <1>4
<1> QED
  BY <1>3, <1>4 DEF Publish

(* So it sends its item, and what was sent stays sent. *)
LEMMA PublishEffect ==
    ASSUME TypeOK, MemoryInv, Publish
    PROVE  /\ \A i : Sent(i) => Sent(i)'
           /\ \A i \in {Head(todo)} : Sent(i)'
           /\ Range(todo) = {Head(todo)} \cup Range(todo')
<1>1. /\ Stored \subseteq Stored' /\ lost \subseteq lost'
      /\ Range(todo) = {Head(todo)} \cup Range(todo')
  BY StoredEffect
<1>2. \A i : Sent(i) => Sent(i)'
  BY <1>1 DEF Sent, Keys
<1>3. Key(Head(todo)) \in recent => Sent(Head(todo))
  BY DEF MemoryInv, Sent
<1>4. Key(Head(todo)) \in recent \/ Head(todo) \in lost' \/ Head(todo) \in Stored'
  BY StoredEffect
<1>5. \A i : i \in lost' \/ i \in Stored' => Sent(i)'
  BY DEF Sent, Keys
<1> QED
  BY <1>1, <1>2, <1>3, <1>4, <1>5

(* Every step keeps the items of the event at hand in hand, or sent. *)
LEMMA HandlingStep ==
    ASSUME IngestInv, [Next]_vars PROVE HandlingInv'
<1> USE IngestionOK DEF vars, consumer, handler, relayer, Done, Store
<1>0. TypeOK /\ HandlingInv /\ MemoryInv
  BY DEF IngestInv
<1>1. ASSUME NEW e \in OmniEvents, Deliver(e) PROVE HandlingInv'
  BY <1>0, <1>1 DEF Deliver, HandlingInv, Sent, Stored, Keys
<1>2. ASSUME NEW e \in OmniEvents, BackoffExpires(e) PROVE HandlingInv'
  BY <1>0, <1>2 DEF BackoffExpires, HandlingInv, Sent, Stored, Keys
<1>3. CASE TakeNext
  <2>1. handling' \in OmniEvents /\ todo' = Items(handling')
    BY <1>0, <1>3, RangeTail DEF TakeNext, TypeOK
  <2> QED
    BY <2>1 DEF HandlingInv
<1>4. CASE TermUndecodable
  BY <1>4 DEF TermUndecodable, HandlingInv
<1>5. CASE HandlerFails
  BY <1>5 DEF HandlerFails, HandlingInv
<1>6. CASE Publish
  <2>1. handling' = handling /\ handling \in OmniEvents
    BY <1>6 DEF Publish, Handled
  <2> QED
    BY <1>0, <1>6, <2>1, PublishEffect DEF HandlingInv
<1>7. CASE Ack
  BY <1>7 DEF Ack, HandlingInv
<1>8. ASSUME NEW k \in AllKeys, Forget(k) PROVE HandlingInv'
  BY <1>0, <1>8 DEF Forget, HandlingInv, Sent, Stored, Keys
<1>9. CASE Restart
  BY <1>9 DEF Restart, HandlingInv
<1>10. CASE UNCHANGED vars
  BY <1>0, <1>10 DEF TypeOK, HandlingInv, MemoryInv, Sent, Stored, Keys
<1>11. ASSUME NEW i \in AllItems, WorkerPublishes(i) PROVE HandlingInv'
  <2>1. \A j : Sent(j) => Sent(j)'
    BY <1>0, <1>11, StoreEffect DEF WorkerPublishes, Sent, Keys
  <2> QED
    BY <1>0, <1>11, <2>1 DEF WorkerPublishes, HandlingInv
<1> QED
  BY <1>1, <1>2, <1>3, <1>4, <1>5, <1>6, <1>7, <1>8, <1>9, <1>10, <1>11 DEF Next

(* Every step keeps the ids of stored messages remembered, or counted as *)
(* forgotten.                                                            *)
LEMMA MemoryStep ==
    ASSUME IngestInv, [Next]_vars PROVE MemoryInv'
<1> USE IngestionOK DEF vars, consumer, handler, relayer, Done, Store
<1>0. TypeOK /\ MemoryInv
  BY DEF IngestInv
<1>1. ASSUME NEW e \in OmniEvents, Deliver(e) PROVE MemoryInv'
  BY <1>0, <1>1 DEF Deliver, TypeOK, MemoryInv, Keys, Stored
<1>2. ASSUME NEW e \in OmniEvents, BackoffExpires(e) PROVE MemoryInv'
  BY <1>0, <1>2 DEF BackoffExpires, TypeOK, MemoryInv, Keys, Stored
<1>3. CASE TakeNext
  BY <1>0, <1>3 DEF TakeNext, TypeOK, MemoryInv, Keys, Stored
<1>4. CASE TermUndecodable
  BY <1>0, <1>4 DEF TermUndecodable, TypeOK, MemoryInv, Keys, Stored
<1>5. CASE HandlerFails
  BY <1>0, <1>5 DEF HandlerFails, TypeOK, MemoryInv, Keys, Stored
<1>6. CASE Publish
  <2>1. \/ Stored' = Stored /\ UNCHANGED recent
        \/ Stored' = Stored \cup {Head(todo)} /\ recent' = recent \cup {Key(Head(todo))}
    BY <1>0, <1>6, StoredEffect
  <2>2. UNCHANGED forgotten
    BY <1>6 DEF Publish
  <2> QED
    BY <1>0, <2>1, <2>2 DEF MemoryInv, Keys
<1>7. CASE Ack
  BY <1>0, <1>7 DEF Ack, TypeOK, MemoryInv, Keys, Stored
<1>8. ASSUME NEW k \in AllKeys, Forget(k) PROVE MemoryInv'
  BY <1>0, <1>8 DEF Forget, TypeOK, MemoryInv, Keys, Stored
<1>9. CASE Restart
  BY <1>0, <1>9 DEF Restart, TypeOK, MemoryInv, Keys, Stored
<1>10. CASE UNCHANGED vars
  BY <1>0, <1>10 DEF TypeOK, MemoryInv, Keys, Stored
<1>11. ASSUME NEW i \in AllItems, WorkerPublishes(i) PROVE MemoryInv'
  <2>1. Stored' = Stored \cup {i} /\ recent' = recent \cup {Key(i)}
    BY <1>0, <1>11, StoreEffect DEF WorkerPublishes
  <2> QED
    BY <1>0, <1>11, <2>1 DEF WorkerPublishes, MemoryInv, Keys
<1> QED
  BY <1>1, <1>2, <1>3, <1>4, <1>5, <1>6, <1>7, <1>8, <1>9, <1>10, <1>11 DEF Next

(* Every step keeps what is acknowledged sent. *)
LEMMA SkipStep ==
    ASSUME IngestInv, [Next]_vars PROVE NothingSkipped'
<1> USE IngestionOK DEF vars, consumer, handler, relayer, Done, Store
<1>0. TypeOK /\ HandlingInv /\ MemoryInv /\ NothingSkipped
  BY DEF IngestInv
<1>1. ASSUME NEW e \in OmniEvents, Deliver(e) PROVE NothingSkipped'
  BY <1>0, <1>1 DEF Deliver, TypeOK, HandlingInv, MemoryInv, NothingSkipped, Stored, Keys
<1>2. ASSUME NEW e \in OmniEvents, BackoffExpires(e) PROVE NothingSkipped'
  BY <1>0, <1>2 DEF BackoffExpires, TypeOK, HandlingInv, MemoryInv, NothingSkipped, Stored, Keys
<1>3. CASE TakeNext
  BY <1>0, <1>3 DEF TakeNext, TypeOK, HandlingInv, MemoryInv, NothingSkipped, Stored, Keys
<1>4. CASE TermUndecodable
  BY <1>0, <1>4 DEF TermUndecodable, TypeOK, HandlingInv, MemoryInv, NothingSkipped, Stored, Keys
<1>5. CASE HandlerFails
  BY <1>0, <1>5 DEF HandlerFails, TypeOK, HandlingInv, MemoryInv, NothingSkipped, Stored, Keys
<1>6. CASE Publish
  <2>1. \A i : Sent(i) => Sent(i)'
    BY <1>0, <1>6, PublishEffect
  <2>2. UNCHANGED state
    BY <1>6 DEF Publish
  <2> QED
    BY <1>0, <2>1, <2>2 DEF NothingSkipped, Sent
<1>7. CASE Ack
  <2>1. \A i : Sent(i) => Sent(i)'
    BY <1>7 DEF Ack, Sent, Stored, Keys
  <2>2. \A i \in Range(Items(handling)) : Sent(i)
    BY <1>0, <1>7, RangeEmpty DEF Ack, Handled, HandlingInv
  <2>3. \A e \in OmniEvents : state'[e] = "acked" => state[e] = "acked" \/ e = handling
    BY <1>0, <1>7 DEF Ack, TypeOK
  <2> QED
    BY <1>0, <2>1, <2>2, <2>3 DEF NothingSkipped, Sent
<1>8. ASSUME NEW k \in AllKeys, Forget(k) PROVE NothingSkipped'
  BY <1>0, <1>8 DEF Forget, TypeOK, HandlingInv, MemoryInv, NothingSkipped, Stored, Keys
<1>9. CASE Restart
  BY <1>0, <1>9 DEF Restart, TypeOK, HandlingInv, MemoryInv, NothingSkipped, Stored, Keys
<1>10. CASE UNCHANGED vars
  BY <1>0, <1>10 DEF TypeOK, HandlingInv, MemoryInv, NothingSkipped, Stored, Keys
<1>11. ASSUME NEW i \in AllItems, WorkerPublishes(i) PROVE NothingSkipped'
  <2>1. \A j : Sent(j) => Sent(j)'
    BY <1>0, <1>11, StoreEffect DEF WorkerPublishes, Sent, Keys
  <2> QED
    BY <1>0, <1>11, <2>1 DEF WorkerPublishes, NothingSkipped, Sent
<1> QED
  BY <1>1, <1>2, <1>3, <1>4, <1>5, <1>6, <1>7, <1>8, <1>9, <1>10, <1>11 DEF Next

(* Every step keeps a remembered item queued once. *)
LEMMA OnceStep ==
    ASSUME IngestInv, [Next]_vars PROVE QueuedOnce'
<1> USE IngestionOK DEF vars, consumer, handler, relayer, Done, Store
<1>0. TypeOK /\ MemoryInv /\ QueuedOnce
  BY DEF IngestInv
<1>1. ASSUME NEW e \in OmniEvents, Deliver(e) PROVE QueuedOnce'
  BY <1>0, <1>1 DEF Deliver, TypeOK, MemoryInv, QueuedOnce
<1>2. ASSUME NEW e \in OmniEvents, BackoffExpires(e) PROVE QueuedOnce'
  BY <1>0, <1>2 DEF BackoffExpires, TypeOK, MemoryInv, QueuedOnce
<1>3. CASE TakeNext
  BY <1>0, <1>3 DEF TakeNext, TypeOK, MemoryInv, QueuedOnce
<1>4. CASE TermUndecodable
  BY <1>0, <1>4 DEF TermUndecodable, TypeOK, MemoryInv, QueuedOnce
<1>5. CASE HandlerFails
  BY <1>0, <1>5 DEF HandlerFails, TypeOK, MemoryInv, QueuedOnce
<1>6. CASE Publish
  <2>1. UNCHANGED forgotten
    BY <1>6 DEF Publish
  <2>2. CASE stream' = stream
    BY <1>0, <2>1, <2>2 DEF QueuedOnce
  <2>3. CASE Store(Head(todo))
    BY <1>0, <1>6, <2>1, <2>3, RangeTail, StoredOnce DEF Publish, TypeOK
  <2> QED
    BY <1>6, <2>2, <2>3 DEF Publish
<1>7. CASE Ack
  BY <1>0, <1>7 DEF Ack, TypeOK, MemoryInv, QueuedOnce
<1>8. ASSUME NEW k \in AllKeys, Forget(k) PROVE QueuedOnce'
  BY <1>0, <1>8 DEF Forget, TypeOK, MemoryInv, QueuedOnce
<1>9. CASE Restart
  BY <1>0, <1>9 DEF Restart, TypeOK, MemoryInv, QueuedOnce
<1>10. CASE UNCHANGED vars
  BY <1>0, <1>10 DEF TypeOK, MemoryInv, QueuedOnce
<1>11. ASSUME NEW i \in AllItems, WorkerPublishes(i) PROVE QueuedOnce'
  BY <1>0, <1>11, StoredOnce DEF WorkerPublishes
<1> QED
  BY <1>1, <1>2, <1>3, <1>4, <1>5, <1>6, <1>7, <1>8, <1>9, <1>10, <1>11 DEF Next

(* The inductive invariant, from which the properties follow. *)
LEMMA IngestInvariant == Spec => []IngestInv
<1>1. Init => IngestInv
  <2> SUFFICES ASSUME Init PROVE IngestInv
    OBVIOUS
  <2>1. <<>> \in Seq(OmniEvents) /\ <<>> \in Seq(AllItems) /\ Len(<<>>) = 0
    BY EmptySeq
  <2>2. TypeOK
    BY <2>1, IngestionOK DEF Init, TypeOK
  <2>3. Stored = {} /\ handling \notin OmniEvents
    BY RangeEmpty, IngestionOK DEF Init, Stored
  <2>4. HandlingInv /\ MemoryInv
    BY <2>3 DEF Init, HandlingInv, MemoryInv, Keys
  <2>5. NothingSkipped /\ QueuedOnce
    BY <2>1 DEF Init, NothingSkipped, QueuedOnce
  <2> QED
    BY <2>2, <2>4, <2>5 DEF IngestInv
<1>2. IngestInv /\ [Next]_vars => IngestInv'
  BY TypeStep, HandlingStep, MemoryStep, SkipStep, OnceStep DEF IngestInv
<1> QED
  BY <1>1, <1>2, PTL DEF Spec

(* Every reachable state is well typed: what is buffered, handled and      *)
(* stored are events and their work items.                                 *)
THEOREM IngestTypeCorrect == Spec => []TypeOK
BY IngestInvariant, PTL DEF IngestInv

(* An acknowledged event has skipped no work item: each has a message      *)
(* under its id, or a publication of it failed, whatever was delivered     *)
(* again and wherever the process ended.                                   *)
THEOREM AcknowledgedIsPublished == Spec => []NothingSkipped
BY IngestInvariant, PTL DEF IngestInv

(* No redelivery, restart or worker queues a work item twice under an id   *)
(* that the server still remembers.                                        *)
THEOREM RedeliveryIsDiscarded == Spec => []QueuedOnce
BY IngestInvariant, PTL DEF IngestInv
-----------------------------------------------------------------------------
(* Where the id says less than the event, the transaction tells the events *)
(* apart: it has one Starknet event, and one withdrawal to a UTXO chain.   *)
OneEventPerTransaction ==
    \A d, e \in OmniEvents :
        d.kind = e.kind /\ d.kind \in {"starknet", "toUtxo"} /\ d.tx = e.tx => d = e

(* A work item is the item of one event, with a number. *)
LEMMA ItemShape ==
    ASSUME NEW i \in AllItems
    PROVE  /\ i.event \in OmniEvents /\ i = Item(i.event, i.n)
           /\ i.event.kind \in {"near", "starknet"} => i.n = 1
           /\ i.event.kind = "evm" => i.n \in {1, 2}
<1>1. PICK e \in OmniEvents : i \in Range(Items(e))
  BY DEF AllItems
<1> DEFINE count == CASE e.kind = "evm" -> 2 [] e.kind = "toUtxo" -> UtxoCount [] OTHER -> 1
<1>2. PICK n \in 1..count : i = Item(e, n)
  BY <1>1 DEF Items, Range
<1>3. i.event = e /\ i.n = n
  BY <1>2 DEF Item
<1>4. /\ e.kind \in {"near", "starknet"} => count = 1
      /\ e.kind = "evm" => count = 2
  OBVIOUS
<1> HIDE DEF count
<1> QED
  BY <1>2, <1>3, <1>4

(* Then no two work items share an id. *)
LEMMA KeysDiffer ==
    ASSUME OneEventPerTransaction, NEW i \in AllItems, NEW j \in AllItems, Key(i) = Key(j)
    PROVE  i = j
<1> DEFINE d == i.event
           e == j.event
<1>1. /\ d \in [kind : Kinds, tx : Nat, index : Nat]
      /\ e \in [kind : Kinds, tx : Nat, index : Nat]
      /\ i = Item(d, i.n) /\ j = Item(e, j.n) /\ d \in OmniEvents /\ e \in OmniEvents
  BY ItemShape, IngestionOK
<1>2. /\ d.kind \in {"near", "starknet"} => i.n = 1
      /\ d.kind = "evm" => i.n \in {1, 2}
      /\ e.kind \in {"near", "starknet"} => j.n = 1
      /\ e.kind = "evm" => j.n \in {1, 2}
  BY ItemShape
<1>3. d.kind \in Kinds /\ e.kind \in Kinds
  BY <1>1
<1>4. /\ Key(i).kind = CASE d.kind = "starknet" -> "strk" [] d.kind = "toUtxo" -> "utxo"
                          [] OTHER -> IF i.n = 2 THEN "fast" ELSE d.kind
      /\ Key(j).kind = CASE e.kind = "starknet" -> "strk" [] e.kind = "toUtxo" -> "utxo"
                          [] OTHER -> IF j.n = 2 THEN "fast" ELSE e.kind
      /\ Key(i).tx = d.tx /\ Key(j).tx = e.tx
      /\ d.kind = "toUtxo" => Key(i).index = i.n
      /\ e.kind = "toUtxo" => Key(j).index = j.n
      /\ d.kind \in {"near", "evm"} => Key(i).index = d.index
      /\ e.kind \in {"near", "evm"} => Key(j).index = e.index
  BY DEF Key
<1>5. d.kind = e.kind /\ i.n = j.n /\ d.tx = e.tx
  BY <1>2, <1>3, <1>4 DEF Kinds
<1>6. CASE d.kind \in {"starknet", "toUtxo"}
  BY <1>1, <1>5, <1>6 DEF OneEventPerTransaction
<1>7. CASE d.kind \in {"near", "evm"}
  <2>1. d.index = e.index
    BY <1>4, <1>5, <1>7
  <2>2. d = e
    BY <1>1, <1>5, <2>1
  <2> QED
    BY <1>1, <1>5, <2>2
<1> QED
  BY <1>3, <1>6, <1>7 DEF Kinds

(* The shared id is all that is wrong with EveryItemQueued: with one event *)
(* per transaction where the id names no more, each work item of an        *)
(* acknowledged event is itself in the RELAYER stream, unless the failure  *)
(* of its publication was logged.                                          *)
THEOREM AcknowledgedItemsAreQueued ==
    ASSUME OneEventPerTransaction
    PROVE  Spec => [](\A e \in OmniEvents :
                         state[e] = "acked" => Range(Items(e)) \subseteq Stored \cup lost)
<1>1. ASSUME TypeOK, NothingSkipped
      PROVE  \A e \in OmniEvents :
                state[e] = "acked" => Range(Items(e)) \subseteq Stored \cup lost
  <2> SUFFICES ASSUME NEW e \in OmniEvents, state[e] = "acked",
                      NEW i \in Range(Items(e)), i \notin lost
               PROVE  i \in Stored
    OBVIOUS
  <2>1. i \in AllItems /\ Stored \subseteq AllItems
    BY <1>1, RangeIn DEF AllItems, Stored, TypeOK
  <2>2. PICK j \in Stored : Key(j) = Key(i)
    BY <1>1 DEF NothingSkipped, Keys
  <2> QED
    BY <2>1, <2>2, KeysDiffer
<1> QED
  BY <1>1, IngestTypeCorrect, AcknowledgedIsPublished, PTL
-----------------------------------------------------------------------------
(***************************************************************************)
(* The other way into the RELAYER stream: transfers that wait for the      *)
(* light client (LcDeferral), for any number of transfers, deferrals and   *)
(* failures.  None is stranded between the sorted set and the stream, and  *)
(* the two together behave like the abstract queue.  The names that both   *)
(* modules use, MaxFaults, lost and faults, are LcDeferral's from here on. *)
(***************************************************************************)
CONSTANTS Events, Deposits, Target, MaxTip, MaxStamp
VARIABLES tip, omni, message, pending, stamp, tasks, replaying, published,
          verified, dropped

Lc == INSTANCE LcDeferral

(* Every stamp in use was given by a deferral, but 0, which ingestion uses; *)
(* what a worker or the poller holds is in the store it was taken from.     *)
StampInv ==
    /\ \A e \in Events, s \in Lc!Stamps : message[e][s] # "none" => s <= stamp[e]
    /\ \A z \in pending : 1 <= z.stamp /\ z.stamp <= stamp[z.event]
    /\ replaying \subseteq pending
    /\ \A z \in published : message[z.event][z.stamp] # "none"
    /\ \A t \in tasks : message[t.event][t.stamp] # "none"

Queued(e, s) == message[e][s] \in {"ready", "pending"}
Waits(e, s) == \E z \in pending : z.event = e /\ z.stamp = s

(* The copy with the last stamp is the one that keeps a transfer in reach: *)
(* an earlier one may end because the transfer was deferred once more, the *)
(* last one only when the transfer is verified or given up.                *)
LastCopyInv ==
    \A e \in Events \ (verified \cup dropped) :
        /\ message[e][stamp[e]] # "gone"
        /\ stamp[e] > 0 => Queued(e, stamp[e]) \/ Waits(e, stamp[e])
        /\ \A t \in tasks : t.event = e /\ t.step = "remove" => t.stamp < stamp[e]

LcInv == Lc!TypeOK /\ StampInv /\ LastCopyInv
-----------------------------------------------------------------------------
(* What writing the state of one message changes. *)
LEMMA MessageSet ==
    ASSUME Lc!LcOK, Lc!TypeOK, NEW e \in Events, NEW s \in Lc!Stamps,
           NEW v \in {"none", "ready", "pending", "gone"},
           message' = [message EXCEPT ![e][s] = v]
    PROVE  /\ message' \in [Events -> [Lc!Stamps -> {"none", "ready", "pending", "gone"}]]
           /\ message'[e][s] = v
           /\ \A f \in Events, r \in Lc!Stamps : f # e \/ r # s => message'[f][r] = message[f][r]
BY DEF Lc!TypeOK

(* A publication stores the message, or leaves it as it is. *)
LEMMA PublishedEffect ==
    ASSUME Lc!LcOK, Lc!TypeOK, NEW e \in Events, NEW s \in Lc!Stamps, Lc!Published(e, s)
    PROVE  /\ message' \in [Events -> [Lc!Stamps -> {"none", "ready", "pending", "gone"}]]
           /\ message'[e][s] # "none"
           /\ message'[e][s] = "gone" => message[e][s] = "gone"
           /\ \A f \in Events, r \in Lc!Stamps : f # e \/ r # s => message'[f][r] = message[f][r]
<1>1. PICK now \in {"ready", message[e][s]} :
         /\ message[e][s] = "none" => now = "ready"
         /\ message[e][s] \in {"ready", "pending"} => now = message[e][s]
         /\ message' = [message EXCEPT ![e][s] = now]
  BY DEF Lc!Published
<1>2. message[e][s] \in {"none", "ready", "pending", "gone"}
  BY DEF Lc!TypeOK
<1>3. now \in {"none", "ready", "pending", "gone"}
  BY <1>1, <1>2
<1>4. /\ message' \in [Events -> [Lc!Stamps -> {"none", "ready", "pending", "gone"}]]
      /\ message'[e][s] = now
      /\ \A f \in Events, r \in Lc!Stamps : f # e \/ r # s => message'[f][r] = message[f][r]
  BY <1>1, <1>3 DEF Lc!TypeOK
<1> QED
  BY <1>1, <1>2, <1>4

(* A deferral gives the transfer its next stamp, and the set an entry. *)
LEMMA DeferralEffect ==
    ASSUME Lc!LcOK, Lc!TypeOK, NEW e \in Events, NEW target \in 1..MaxTip, Lc!Stored(e, target)
    PROVE  /\ stamp' \in [Events -> Lc!Stamps] /\ stamp'[e] = stamp[e] + 1
           /\ \A f \in Events : f # e => stamp'[f] = stamp[f]
           /\ stamp[e] + 1 \in Lc!Stamps
           /\ \E z \in Lc!Entry : /\ pending' = pending \cup {z}
                               /\ z.event = e /\ z.stamp = stamp[e] + 1
<1>1. stamp[e] \in Nat /\ stamp[e] + 1 \in Lc!Stamps
  BY DEF Lc!LcOK, Lc!TypeOK, Lc!Stamps, Lc!Stored
<1>2. stamp' \in [Events -> Lc!Stamps] /\ stamp'[e] = stamp[e] + 1
      /\ \A f \in Events : f # e => stamp'[f] = stamp[f]
  BY <1>1 DEF Lc!TypeOK, Lc!Stored
<1>3. [event |-> e, stamp |-> stamp[e] + 1, target |-> target] \in Lc!Entry
  BY <1>1 DEF Lc!Entry
<1> QED
  BY <1>1, <1>2, <1>3 DEF Lc!Stored

(* A worker's task moves to its next step. *)
LEMMA GotoEffect ==
    ASSUME Lc!LcOK, Lc!TypeOK, NEW e \in Events, NEW s \in Lc!Stamps,
           NEW from \in Lc!Steps, NEW to \in Lc!Steps,
           Lc!Goto(e, s, from, to)
    PROVE  /\ \E t \in tasks : t.event = e /\ t.stamp = s
           /\ \A t \in tasks' : t \in [event: Events, stamp: Lc!Stamps, step: Lc!Steps]
           /\ \A t \in tasks' : t \in tasks \/ (t.event = e /\ t.stamp = s /\ t.step = to)
BY DEF Lc!Goto, Lc!TaskOf, Lc!TypeOK

(* Settling a task ends it, and its message may become ready or gone. *)
LEMMA SettleEffect ==
    ASSUME Lc!LcOK, Lc!TypeOK, NEW e \in Events, NEW s \in Lc!Stamps,
           NEW step \in Lc!Steps, Lc!Settle(e, s, step)
    PROVE  /\ tasks' \subseteq tasks
           /\ \E t \in tasks : t.event = e /\ t.stamp = s /\ t.step = step
           /\ message' \in [Events -> [Lc!Stamps -> {"none", "ready", "pending", "gone"}]]
           /\ \A f \in Events, r \in Lc!Stamps : f # e \/ r # s => message'[f][r] = message[f][r]
           /\ message'[e][s] \in {message[e][s], "ready", "gone"}
           /\ message'[e][s] = "ready" => message[e][s] # "gone"
           /\ message'[e][s] = "gone" => message[e][s] = "gone" \/ step = "remove" \/ e \in dropped'
           /\ dropped' = dropped \/ dropped' = dropped \cup {e}
           /\ faults' \in {faults, faults + 1} /\ faults' \in 0..MaxFaults
           /\ UNCHANGED <<tip, omni, pending, stamp, Lc!poller, verified, lost>>
<1>1. /\ Lc!TaskOf(e, s, step) \in tasks /\ tasks' = tasks \ {Lc!TaskOf(e, s, step)}
      /\ UNCHANGED <<tip, omni, pending, stamp, Lc!poller, verified, lost>>
  BY DEF Lc!Settle
<1>2. \E t \in tasks : t.event = e /\ t.stamp = s /\ t.step = step
  BY <1>1 DEF Lc!TaskOf
<1>3. faults' \in {faults, faults + 1} /\ faults' \in 0..MaxFaults
  BY DEF Lc!LcOK, Lc!Settle, Lc!Fault, Lc!TypeOK
<1>4. message[e][s] \in {"none", "ready", "pending", "gone"}
  BY DEF Lc!TypeOK
<1>5. CASE step # "retry" /\ Lc!Ends(e, s)
           /\ dropped' = IF step = "drop" THEN dropped \cup {e} ELSE dropped
  <2>1. step \in {"remove", "drop"}
    BY <1>5 DEF Lc!Settle
  <2>2. message'[e][s] = "gone"
        /\ message' \in [Events -> [Lc!Stamps -> {"none", "ready", "pending", "gone"}]]
        /\ \A f \in Events, r \in Lc!Stamps : f # e \/ r # s => message'[f][r] = message[f][r]
    BY <1>5 DEF Lc!Ends, Lc!TypeOK
  <2> QED
    BY <1>1, <1>2, <1>3, <1>5, <2>1, <2>2
<1>6. CASE message' = [message EXCEPT ![e][s] = IF @ = "gone" THEN @ ELSE "ready"]
           /\ UNCHANGED dropped
  <2>1. PICK v \in {"ready", "gone"} :
           /\ message' = [message EXCEPT ![e][s] = v]
           /\ v = IF message[e][s] = "gone" THEN "gone" ELSE "ready"
    BY <1>6
  <2>2. message'[e][s] = v
        /\ message' \in [Events -> [Lc!Stamps -> {"none", "ready", "pending", "gone"}]]
        /\ \A f \in Events, r \in Lc!Stamps : f # e \/ r # s => message'[f][r] = message[f][r]
    BY <2>1 DEF Lc!TypeOK
  <2> QED
    BY <1>1, <1>2, <1>3, <1>6, <2>1, <2>2
<1>7. CASE Lc!Ends(e, s) /\ dropped' = dropped \cup {e}
  <2>1. message'[e][s] = "gone"
        /\ message' \in [Events -> [Lc!Stamps -> {"none", "ready", "pending", "gone"}]]
        /\ \A f \in Events, r \in Lc!Stamps : f # e \/ r # s => message'[f][r] = message[f][r]
    BY <1>7 DEF Lc!Ends, Lc!TypeOK
  <2> QED
    BY <1>1, <1>2, <1>3, <1>7, <2>1
<1>8. CASE UNCHANGED <<message, dropped>>
  BY <1>1, <1>2, <1>3, <1>4, <1>8 DEF Lc!TypeOK
<1> QED
  BY <1>5, <1>6, <1>7, <1>8 DEF Lc!Settle
-----------------------------------------------------------------------------
(* Every step keeps the types. *)
LEMMA LcTypeStep ==
    ASSUME Lc!LcOK, LcInv, [Lc!Next]_(Lc!vars) PROVE Lc!TypeOK'
<1> USE DEF Lc!vars, Lc!poller, Lc!outcome
<1>0. Lc!TypeOK
  BY DEF LcInv
<1>1. ASSUME NEW e \in Events, Lc!IngestDefers(e) PROVE Lc!TypeOK'
  <2>1. stamp' \in [Events -> Lc!Stamps] /\ pending' \subseteq Lc!Entry
    BY <1>0, <1>1, DeferralEffect DEF Lc!IngestDefers, Lc!Estimates, Lc!TypeOK
  <2> QED
    BY <1>0, <1>1, <2>1 DEF Lc!IngestDefers, Lc!TypeOK
<1>2. ASSUME NEW e \in Events, Lc!IngestPublishes(e) PROVE Lc!TypeOK'
  <2>1. 0 \in Lc!Stamps
    BY DEF Lc!LcOK, Lc!Stamps
  <2>2. message' \in [Events -> [Lc!Stamps -> {"none", "ready", "pending", "gone"}]]
    BY <1>0, <1>2, <2>1, PublishedEffect DEF Lc!IngestPublishes, Lc!TypeOK
  <2>3. faults' \in 0..MaxFaults
    BY <1>0, <1>2 DEF Lc!LcOK, Lc!IngestPublishes, Lc!Fault, Lc!TypeOK
  <2> QED
    BY <1>0, <1>2, <2>2, <2>3 DEF Lc!IngestPublishes, Lc!TypeOK
<1>3. ASSUME NEW e \in Events, Lc!IngestedAgain(e) PROVE Lc!TypeOK'
  <2>1. faults' \in 0..MaxFaults
    BY <1>0, <1>3 DEF Lc!LcOK, Lc!IngestedAgain, Lc!Fault, Lc!TypeOK
  <2> QED
    BY <1>0, <1>3, <2>1 DEF Lc!IngestedAgain, Lc!TypeOK
<1>4. ASSUME NEW e \in Events, NEW s \in Lc!Stamps, Lc!Deliver(e,s) PROVE Lc!TypeOK'
  <2>1. Lc!TaskOf(e, s, "work") \in [event: Events, stamp: Lc!Stamps, step: Lc!Steps]
    BY DEF Lc!TaskOf, Lc!Steps
  <2> QED
    BY <1>0, <1>4, <2>1, MessageSet DEF Lc!Deliver, Lc!TypeOK
<1>5. ASSUME NEW e \in Events, NEW s \in Lc!Stamps, Lc!Screen(e,s) PROVE Lc!TypeOK'
  <2>1. /\ \A t \in tasks' : t \in [event: Events, stamp: Lc!Stamps, step: Lc!Steps]
        /\ faults' \in 0..MaxFaults
    BY <1>0, <1>5, GotoEffect DEF Lc!LcOK, Lc!Screen, Lc!Fault, Lc!TypeOK, Lc!Steps
  <2> QED
    BY <1>0, <1>5, <2>1 DEF Lc!Screen, Lc!TypeOK
<1>6. ASSUME NEW e \in Events, NEW s \in Lc!Stamps, Lc!NotSynced(e,s) PROVE Lc!TypeOK'
  <2>1. /\ \A t \in tasks' : t \in [event: Events, stamp: Lc!Stamps, step: Lc!Steps]
        /\ faults' \in 0..MaxFaults
    BY <1>0, <1>6, GotoEffect DEF Lc!LcOK, Lc!NotSynced, Lc!Fault, Lc!TypeOK, Lc!Steps
  <2> QED
    BY <1>0, <1>6, <2>1 DEF Lc!NotSynced, Lc!TypeOK
<1>7. ASSUME NEW e \in Events, NEW s \in Lc!Stamps, Lc!Verify(e,s) PROVE Lc!TypeOK'
  <2>1. /\ \A t \in tasks' : t \in [event: Events, stamp: Lc!Stamps, step: Lc!Steps]
        /\ faults' \in 0..MaxFaults
    BY <1>0, <1>7, GotoEffect DEF Lc!LcOK, Lc!Verify, Lc!Fault, Lc!TypeOK, Lc!Steps
  <2> QED
    BY <1>0, <1>7, <2>1 DEF Lc!Verify, Lc!TypeOK
<1>8. ASSUME NEW e \in Events, NEW s \in Lc!Stamps, Lc!ReceiptsFail(e,s) PROVE Lc!TypeOK'
  <2>1. /\ \A t \in tasks' : t \in [event: Events, stamp: Lc!Stamps, step: Lc!Steps]
        /\ faults' \in 0..MaxFaults
    BY <1>0, <1>8, GotoEffect DEF Lc!LcOK, Lc!ReceiptsFail, Lc!Fault, Lc!TypeOK, Lc!Steps
  <2> QED
    BY <1>0, <1>8, <2>1 DEF Lc!ReceiptsFail, Lc!TypeOK
<1>9. ASSUME NEW e \in Events, NEW s \in Lc!Stamps, Lc!Defer(e,s) PROVE Lc!TypeOK'
  <2>1. /\ \A t \in tasks' : t \in [event: Events, stamp: Lc!Stamps, step: Lc!Steps]
        /\ faults' \in 0..MaxFaults
    BY <1>0, <1>9, GotoEffect DEF Lc!LcOK, Lc!Defer, Lc!Fault, Lc!TypeOK, Lc!Steps
  <2>2. stamp' \in [Events -> Lc!Stamps] /\ pending' \subseteq Lc!Entry
    BY <1>0, <1>9, DeferralEffect DEF Lc!LcOK, Lc!Defer, Lc!TypeOK
  <2> QED
    BY <1>0, <1>9, <2>1, <2>2 DEF Lc!Defer, Lc!TypeOK
<1>10. ASSUME NEW e \in Events, NEW s \in Lc!Stamps, Lc!AckWaitExpires(e,s)
       PROVE  Lc!TypeOK'
  <2>1. faults' \in 0..MaxFaults
    BY <1>0, <1>10 DEF Lc!LcOK, Lc!AckWaitExpires, Lc!Fault, Lc!TypeOK
  <2> QED
    BY <1>0, <1>10, <2>1, MessageSet DEF Lc!AckWaitExpires, Lc!TypeOK
<1>11. ASSUME NEW e \in Events, NEW s \in Lc!Stamps, NEW step \in Lc!Steps, Lc!Settle(e,s,step)
       PROVE  Lc!TypeOK'
  BY <1>0, <1>11, SettleEffect DEF Lc!TypeOK
<1>12. CASE Lc!Poll
  BY <1>0, <1>12 DEF Lc!Poll, Lc!TypeOK
<1>13. ASSUME NEW z \in replaying, Lc!Replay(z) PROVE Lc!TypeOK'
  <2>1. z.event \in Events /\ z.stamp \in Lc!Stamps
    BY <1>0 DEF Lc!TypeOK, Lc!Entry
  <2>2. message' \in [Events -> [Lc!Stamps -> {"none", "ready", "pending", "gone"}]]
    BY <1>0, <1>13, <2>1, PublishedEffect DEF Lc!Replay, Lc!TypeOK
  <2>3. faults' \in 0..MaxFaults
    BY <1>0, <1>13 DEF Lc!LcOK, Lc!Replay, Lc!Fault, Lc!TypeOK
  <2>4. published' \subseteq replaying' /\ \A y, x \in published' : y = x
    BY <1>0, <1>13 DEF Lc!Replay, Lc!TypeOK
  <2>5. replaying' \subseteq replaying
    BY <1>13 DEF Lc!Replay
  <2> QED
    BY <1>0, <1>13, <2>2, <2>3, <2>4, <2>5 DEF Lc!Replay, Lc!TypeOK
<1>14. ASSUME NEW z \in replaying, Lc!RemoveReplayed(z) PROVE Lc!TypeOK'
  <2>1. faults' \in 0..MaxFaults
    BY <1>0, <1>14 DEF Lc!LcOK, Lc!RemoveReplayed, Lc!Fault, Lc!TypeOK
  <2> QED
    BY <1>0, <1>14, <2>1 DEF Lc!RemoveReplayed, Lc!TypeOK
<1>15. CASE Lc!TipAdvances
  <2>1. tip' \in 0..MaxTip
    BY <1>0, <1>15 DEF Lc!LcOK, Lc!TipAdvances, Lc!TypeOK
  <2> QED
    BY <1>0, <1>15, <2>1 DEF Lc!TipAdvances, Lc!TypeOK
<1>16. CASE Lc!Crash
  <2>1. faults' \in 0..MaxFaults
    BY <1>0, <1>16 DEF Lc!LcOK, Lc!Crash, Lc!Fault, Lc!TypeOK
  <2> QED
    BY <1>0, <1>16, <2>1 DEF Lc!Crash, Lc!TypeOK
<1>17. CASE UNCHANGED Lc!vars
  BY <1>0, <1>17 DEF Lc!TypeOK
<1> QED
  BY <1>1, <1>2, <1>3, <1>4, <1>5, <1>6, <1>7, <1>8, <1>9, <1>10, <1>11, <1>12,
     <1>13, <1>14, <1>15, <1>16, <1>17 DEF Lc!Next

(* A deferral raises the stamps, and its entry has the last one. *)
LEMMA DeferralStamps ==
    ASSUME Lc!LcOK, Lc!TypeOK, StampInv,
           NEW e \in Events, NEW target \in 1..MaxTip, Lc!Stored(e, target)
    PROVE  /\ \A f \in Events, s \in Lc!Stamps : message[f][s] # "none" => s <= stamp'[f]
           /\ \A z \in pending' : 1 <= z.stamp /\ z.stamp <= stamp'[z.event]
           /\ pending \subseteq pending'
<1>1. PICK z \in Lc!Entry : pending' = pending \cup {z} /\ z.event = e /\ z.stamp = stamp[e] + 1
  BY DeferralEffect
<1>2. stamp'[e] = stamp[e] + 1 /\ \A f \in Events : f # e => stamp'[f] = stamp[f]
  BY DeferralEffect
<1>3. \A f \in Events : stamp[f] \in Nat /\ stamp'[f] \in Nat /\ stamp[f] <= stamp'[f]
  <2>1. stamp \in [Events -> Nat]
    BY DEF Lc!LcOK, Lc!TypeOK, Lc!Stamps
  <2> QED
    BY <1>2, <2>1
<1>4. ASSUME NEW f \in Events, NEW s \in Lc!Stamps, message[f][s] # "none"
      PROVE  s <= stamp'[f]
  BY <1>3, <1>4 DEF Lc!LcOK, StampInv, Lc!Stamps
<1>5. ASSUME NEW y \in pending PROVE 1 <= y.stamp /\ y.stamp <= stamp'[y.event]
  <2>1. y.event \in Events /\ y.stamp \in Nat
    BY DEF Lc!LcOK, Lc!TypeOK, Lc!Entry, Lc!Stamps
  <2> QED
    BY <1>3, <2>1 DEF StampInv
<1> QED
  BY <1>1, <1>2, <1>3, <1>4, <1>5

(* Every step keeps the stamps, and each copy where it was taken from. *)
LEMMA StampStep ==
    ASSUME Lc!LcOK, LcInv, [Lc!Next]_(Lc!vars) PROVE StampInv'
<1> USE DEF Lc!vars, Lc!poller, Lc!outcome
<1>0. Lc!TypeOK /\ StampInv
  BY DEF LcInv
<1>1. ASSUME NEW e \in Events, Lc!IngestDefers(e) PROVE StampInv'
  <2>1. PICK target \in 1..MaxTip : Lc!Stored(e, target)
    BY <1>1 DEF Lc!IngestDefers, Lc!Estimates
  <2>2. UNCHANGED <<message, replaying, published, tasks>>
    BY <1>1 DEF Lc!IngestDefers
  <2> QED
    BY <1>0, <2>1, <2>2, DeferralStamps DEF StampInv
<1>2. ASSUME NEW e \in Events, Lc!IngestPublishes(e) PROVE StampInv'
  <2>1. 0 \in Lc!Stamps /\ stamp[e] \in Nat
    BY <1>0 DEF Lc!LcOK, Lc!Stamps, Lc!TypeOK
  <2>2. CASE Lc!Published(e, 0)
    <3>1. \A f \in Events, r \in Lc!Stamps :
             /\ message'[f][r] # "none" => message[f][r] # "none" \/ (f = e /\ r = 0)
             /\ message[f][r] # "none" => message'[f][r] # "none"
      BY <1>0, <2>1, <2>2, PublishedEffect
    <3> QED
      BY <1>0, <1>2, <2>1, <3>1 DEF Lc!IngestPublishes, StampInv, Lc!TypeOK, Lc!Entry
  <2>3. CASE UNCHANGED message
    BY <1>0, <1>2, <2>3 DEF Lc!IngestPublishes, StampInv
  <2> QED
    BY <1>2, <2>2, <2>3 DEF Lc!IngestPublishes
<1>3. ASSUME NEW e \in Events, Lc!IngestedAgain(e) PROVE StampInv'
  BY <1>0, <1>3 DEF Lc!IngestedAgain, Lc!TypeOK, StampInv
<1>4. ASSUME NEW e \in Events, NEW s \in Lc!Stamps, Lc!Deliver(e,s) PROVE StampInv'
  <2>1. \A f \in Events, r \in Lc!Stamps : message'[f][r] # "none" <=> message[f][r] # "none"
    BY <1>0, <1>4, MessageSet DEF Lc!Deliver
  <2>2. \A t \in tasks' : t \in tasks \/ (t.event = e /\ t.stamp = s)
    BY <1>4 DEF Lc!Deliver, Lc!TaskOf
  <2> QED
    BY <1>0, <1>4, <2>1, <2>2 DEF Lc!Deliver, StampInv, Lc!TypeOK, Lc!Entry
<1>5. ASSUME NEW e \in Events, NEW s \in Lc!Stamps, Lc!Screen(e,s) PROVE StampInv'
  <2>1. \A t \in tasks' : \E u \in tasks : t.event = u.event /\ t.stamp = u.stamp
    BY <1>0, <1>5, GotoEffect DEF Lc!Screen, Lc!Steps
  <2> QED
    BY <1>0, <1>5, <2>1 DEF Lc!Screen, StampInv
<1>6. ASSUME NEW e \in Events, NEW s \in Lc!Stamps, Lc!NotSynced(e,s) PROVE StampInv'
  <2>1. \A t \in tasks' : \E u \in tasks : t.event = u.event /\ t.stamp = u.stamp
    BY <1>0, <1>6, GotoEffect DEF Lc!NotSynced, Lc!Steps
  <2> QED
    BY <1>0, <1>6, <2>1 DEF Lc!NotSynced, StampInv
<1>7. ASSUME NEW e \in Events, NEW s \in Lc!Stamps, Lc!Verify(e,s) PROVE StampInv'
  <2>1. \A t \in tasks' : \E u \in tasks : t.event = u.event /\ t.stamp = u.stamp
    BY <1>0, <1>7, GotoEffect DEF Lc!Verify, Lc!Steps
  <2> QED
    BY <1>0, <1>7, <2>1 DEF Lc!Verify, StampInv
<1>8. ASSUME NEW e \in Events, NEW s \in Lc!Stamps, Lc!ReceiptsFail(e,s) PROVE StampInv'
  <2>1. \A t \in tasks' : \E u \in tasks : t.event = u.event /\ t.stamp = u.stamp
    BY <1>0, <1>8, GotoEffect DEF Lc!ReceiptsFail, Lc!Steps
  <2> QED
    BY <1>0, <1>8, <2>1 DEF Lc!ReceiptsFail, StampInv
<1>9. ASSUME NEW e \in Events, NEW s \in Lc!Stamps, Lc!Defer(e,s) PROVE StampInv'
  <2>1. \A t \in tasks' : \E u \in tasks : t.event = u.event /\ t.stamp = u.stamp
    BY <1>0, <1>9, GotoEffect DEF Lc!Defer, Lc!Steps
  <2>2. CASE Lc!Stored(e, Target[e])
    <3>1. UNCHANGED <<message, replaying, published>>
      BY <1>9 DEF Lc!Defer
    <3>2. Target[e] \in 1..MaxTip
      BY DEF Lc!LcOK
    <3> QED
      BY <1>0, <2>1, <2>2, <3>1, <3>2, DeferralStamps DEF StampInv
  <2>3. CASE UNCHANGED <<pending, stamp>>
    BY <1>0, <1>9, <2>1, <2>3 DEF Lc!Defer, StampInv
  <2> QED
    BY <1>9, <2>2, <2>3 DEF Lc!Defer
<1>10. ASSUME NEW e \in Events, NEW s \in Lc!Stamps, Lc!AckWaitExpires(e,s)
       PROVE  StampInv'
  <2>1. \A f \in Events, r \in Lc!Stamps : message'[f][r] # "none" <=> message[f][r] # "none"
    BY <1>0, <1>10, MessageSet DEF Lc!AckWaitExpires
  <2> QED
    BY <1>0, <1>10, <2>1 DEF Lc!AckWaitExpires, StampInv, Lc!TypeOK, Lc!Entry
<1>11. ASSUME NEW e \in Events, NEW s \in Lc!Stamps, NEW step \in Lc!Steps, Lc!Settle(e,s,step)
       PROVE  StampInv'
  <2>1. \A f \in Events, r \in Lc!Stamps : message'[f][r] # "none" <=> message[f][r] # "none"
    BY <1>0, <1>11, SettleEffect DEF StampInv
  <2>2. tasks' \subseteq tasks /\ UNCHANGED <<pending, stamp, replaying, published>>
    BY <1>0, <1>11, SettleEffect
  <2> QED
    BY <1>0, <2>1, <2>2 DEF StampInv, Lc!TypeOK, Lc!Entry
<1>12. CASE Lc!Poll
  BY <1>0, <1>12 DEF Lc!Poll, Lc!TypeOK, StampInv
<1>13. ASSUME NEW z \in replaying, Lc!Replay(z) PROVE StampInv'
  <2>1. z.event \in Events /\ z.stamp \in Lc!Stamps /\ z \in pending
    BY <1>0 DEF Lc!TypeOK, Lc!Entry, StampInv
  <2>2. CASE Lc!Published(z.event, z.stamp) /\ published' = {z} /\ UNCHANGED <<replaying, faults>>
    <3>1. \A f \in Events, r \in Lc!Stamps :
             /\ message'[f][r] # "none" => message[f][r] # "none" \/ (f = z.event /\ r = z.stamp)
             /\ message[f][r] # "none" => message'[f][r] # "none"
      BY <1>0, <2>1, <2>2, PublishedEffect
    <3>2. message'[z.event][z.stamp] # "none"
      BY <1>0, <2>1, <2>2, PublishedEffect
    <3> QED
      BY <1>0, <1>13, <2>1, <2>2, <3>1, <3>2 DEF Lc!Replay, StampInv, Lc!TypeOK, Lc!Entry
  <2>3. CASE replaying' = replaying \ {z} /\ UNCHANGED <<message, published>>
    BY <1>0, <1>13, <2>3 DEF Lc!Replay, StampInv
  <2> QED
    BY <1>13, <2>2, <2>3 DEF Lc!Replay
<1>14. ASSUME NEW z \in replaying, Lc!RemoveReplayed(z) PROVE StampInv'
  BY <1>0, <1>14 DEF Lc!RemoveReplayed, Lc!TypeOK, StampInv
<1>15. CASE Lc!TipAdvances
  BY <1>0, <1>15 DEF Lc!TipAdvances, Lc!TypeOK, StampInv
<1>16. CASE Lc!Crash
  BY <1>0, <1>16 DEF Lc!Crash, Lc!TypeOK, StampInv
<1>17. CASE UNCHANGED Lc!vars
  BY <1>0, <1>17 DEF Lc!TypeOK, StampInv
<1> QED
  BY <1>1, <1>2, <1>3, <1>4, <1>5, <1>6, <1>7, <1>8, <1>9, <1>10, <1>11, <1>12,
     <1>13, <1>14, <1>15, <1>16, <1>17 DEF Lc!Next

(* A publication takes no message out of the stream. *)
LEMMA PublicationKeeps ==
    ASSUME Lc!LcOK, Lc!TypeOK, StampInv, LastCopyInv,
           NEW e \in Events, NEW s \in Lc!Stamps, Lc!Published(e, s),
           UNCHANGED <<pending, stamp, tasks, verified, dropped>>
    PROVE  LastCopyInv'
<1>1. /\ message' \in [Events -> [Lc!Stamps -> {"none", "ready", "pending", "gone"}]]
      /\ message'[e][s] # "none" /\ (message'[e][s] = "gone" => message[e][s] = "gone")
      /\ \A f \in Events, r \in Lc!Stamps : f # e \/ r # s => message'[f][r] = message[f][r]
  BY PublishedEffect
<1>2. \A f \in Events, r \in Lc!Stamps : message'[f][r] = "gone" => message[f][r] = "gone"
  BY <1>1
<1>3. message'[e][s] \in {"none", "ready", "pending", "gone"}
  BY <1>1
<1>4. \A f \in Events, r \in Lc!Stamps : Queued(f, r) => Queued(f, r)'
  BY <1>1, <1>3 DEF Queued
<1>5. \A f \in Events : stamp[f] \in Lc!Stamps
  BY DEF Lc!TypeOK
<1> QED
  BY <1>2, <1>4, <1>5 DEF LastCopyInv, Waits

(* A deferral makes a later copy the last one. *)
LEMMA DeferralKeeps ==
    ASSUME Lc!LcOK, Lc!TypeOK, StampInv, LastCopyInv, NEW e \in Events, NEW target \in 1..MaxTip,
           Lc!Stored(e, target), UNCHANGED <<message, verified, dropped>>,
           \A t \in tasks' : t \in tasks \/ (t.event = e /\ t.stamp <= stamp[e]),
           \A t \in tasks' : t.stamp \in Lc!Stamps
    PROVE  LastCopyInv'
<1>1. /\ stamp'[e] = stamp[e] + 1 /\ stamp[e] + 1 \in Lc!Stamps
      /\ \A f \in Events : f # e => stamp'[f] = stamp[f]
      /\ pending \subseteq pending'
      /\ \E z \in pending' : z.event = e /\ z.stamp = stamp[e] + 1
  BY DeferralEffect
<1>2. stamp[e] \in Nat
  BY DEF Lc!LcOK, Lc!TypeOK, Lc!Stamps
<1>3. message[e][stamp[e] + 1] = "none"
  BY <1>1, <1>2 DEF StampInv
<1>4. \A t \in tasks' : t.event = e => t.stamp < stamp[e] + 1
  <2>1. ASSUME NEW t \in tasks, t.event = e PROVE t.stamp <= stamp[e]
    <3>1. t.stamp \in Lc!Stamps /\ message[e][t.stamp] # "none"
      BY <2>1 DEF StampInv, Lc!TypeOK
    <3> QED
      BY <3>1 DEF StampInv
  <2>2. \A t \in tasks' : t.event = e => t.stamp <= stamp[e] /\ t.stamp \in Nat
    BY <2>1 DEF Lc!LcOK, Lc!Stamps
  <2> QED
    BY <1>2, <2>2
<1>5. ASSUME NEW f \in Events \ (verified \cup dropped), f # e
      PROVE  /\ message'[f][stamp'[f]] # "gone"
             /\ stamp'[f] > 0 => \/ message'[f][stamp'[f]] \in {"ready", "pending"}
                                 \/ \E z \in pending' : z.event = f /\ z.stamp = stamp'[f]
             /\ \A t \in tasks' : t.event = f /\ t.step = "remove" => t.stamp < stamp'[f]
  <2>1. ASSUME NEW t \in tasks', t.event = f, t.step = "remove" PROVE t.stamp < stamp'[f]
    BY <1>1, <1>5, <2>1 DEF LastCopyInv
  <2>2. message'[f][stamp'[f]] = message[f][stamp[f]] /\ stamp'[f] = stamp[f]
    BY <1>1, <1>5
  <2> QED
    BY <1>1, <1>5, <2>1, <2>2 DEF LastCopyInv, Queued, Waits
<1>6. message'[e][stamp'[e]] # "gone"
  BY <1>1, <1>3
<1> QED
  BY <1>1, <1>4, <1>5, <1>6 DEF LastCopyInv, Queued, Waits

(* Every step keeps the last copy of each transfer in reach. *)
LEMMA LastCopyStep ==
    ASSUME Lc!LcOK, LcInv, [Lc!Next]_(Lc!vars) PROVE LastCopyInv'
<1> USE DEF Lc!vars, Lc!poller, Lc!outcome
<1>0. Lc!TypeOK /\ StampInv /\ LastCopyInv
  BY DEF LcInv
<1>1. ASSUME NEW e \in Events, Lc!IngestDefers(e) PROVE LastCopyInv'
  <2>1. PICK target \in 1..MaxTip : Lc!Stored(e, target)
    BY <1>1 DEF Lc!IngestDefers, Lc!Estimates
  <2> QED
    BY <1>0, <1>1, <2>1, DeferralKeeps DEF Lc!IngestDefers, Lc!TypeOK
<1>2. ASSUME NEW e \in Events, Lc!IngestPublishes(e) PROVE LastCopyInv'
  <2>1. 0 \in Lc!Stamps
    BY DEF Lc!LcOK, Lc!Stamps
  <2>2. UNCHANGED <<pending, stamp, tasks, verified, dropped>>
    BY <1>2 DEF Lc!IngestPublishes
  <2>3. Lc!Published(e, 0) \/ UNCHANGED message
    BY <1>2 DEF Lc!IngestPublishes
  <2> QED
    BY <1>0, <2>1, <2>2, <2>3, PublicationKeeps DEF LastCopyInv, Queued, Waits
<1>3. ASSUME NEW e \in Events, Lc!IngestedAgain(e) PROVE LastCopyInv'
  BY <1>0, <1>3 DEF Lc!IngestedAgain, Lc!TypeOK, StampInv, LastCopyInv, Queued, Waits
<1>4. ASSUME NEW e \in Events, NEW s \in Lc!Stamps, Lc!Deliver(e,s) PROVE LastCopyInv'
  <2>1. \A f \in Events, r \in Lc!Stamps :
           /\ message'[f][r] = "gone" => message[f][r] = "gone"
           /\ Queued(f, r) => Queued(f, r)'
    BY <1>0, <1>4, MessageSet DEF Lc!Deliver, Queued
  <2>2. \A t \in tasks' : t.step = "remove" => t \in tasks
    BY <1>4 DEF Lc!Deliver, Lc!TaskOf
  <2> QED
    BY <1>0, <1>4, <2>1, <2>2 DEF Lc!Deliver, LastCopyInv, Waits, Lc!TypeOK
<1>5. ASSUME NEW e \in Events, NEW s \in Lc!Stamps, Lc!Screen(e,s) PROVE LastCopyInv'
  <2>1. \A t \in tasks' : t.step = "remove" => t \in tasks
    BY <1>0, <1>5, GotoEffect DEF Lc!Screen, Lc!Steps
  <2> QED
    BY <1>0, <1>5, <2>1 DEF Lc!Screen, LastCopyInv, Queued, Waits
<1>6. ASSUME NEW e \in Events, NEW s \in Lc!Stamps, Lc!NotSynced(e,s) PROVE LastCopyInv'
  <2>1. \A t \in tasks' : t.step = "remove" => t \in tasks
    BY <1>0, <1>6, GotoEffect DEF Lc!NotSynced, Lc!Steps
  <2> QED
    BY <1>0, <1>6, <2>1 DEF Lc!NotSynced, LastCopyInv, Queued, Waits
<1>7. ASSUME NEW e \in Events, NEW s \in Lc!Stamps, Lc!Verify(e,s) PROVE LastCopyInv'
  <2>1. \A t \in tasks' :
           t.step = "remove" => t \in tasks \/ t.event \in verified' \cup dropped'
    BY <1>0, <1>7, GotoEffect DEF Lc!Verify, Lc!Steps
  <2> QED
    BY <1>0, <1>7, <2>1 DEF Lc!Verify, LastCopyInv, Queued, Waits
<1>8. ASSUME NEW e \in Events, NEW s \in Lc!Stamps, Lc!ReceiptsFail(e,s)
      PROVE  LastCopyInv'
  <2>1. \A t \in tasks' :
           t.step = "remove" => t \in tasks \/ t.event \in verified' \cup dropped'
    BY <1>0, <1>8, GotoEffect DEF Lc!ReceiptsFail, Lc!Steps
  <2> QED
    BY <1>0, <1>8, <2>1 DEF Lc!ReceiptsFail, LastCopyInv, Queued, Waits
<1>9. ASSUME NEW e \in Events, NEW s \in Lc!Stamps, Lc!Defer(e,s) PROVE LastCopyInv'
  <2>1. CASE Lc!Goto(e, s, "defer", "remove") /\ Lc!Stored(e, Target[e])
    <3>1. \A t \in tasks' : t \in tasks \/ (t.event = e /\ t.stamp = s)
      BY <1>0, <2>1, GotoEffect DEF Lc!Steps
    <3>2. s <= stamp[e]
      BY <1>0, <2>1, GotoEffect DEF Lc!Steps, StampInv
    <3>3. \A t \in tasks' : t.stamp \in Lc!Stamps
      BY <1>0, <2>1, GotoEffect DEF Lc!Steps
    <3>4. Target[e] \in 1..MaxTip
      BY DEF Lc!LcOK
    <3> QED
      BY <1>0, <1>9, <2>1, <3>1, <3>2, <3>3, <3>4, DeferralKeeps DEF Lc!Defer
  <2>2. CASE Lc!Goto(e, s, "defer", "retry") /\ UNCHANGED <<pending, stamp>>
    <3>1. \A t \in tasks' : t.step = "remove" => t \in tasks
      BY <1>0, <2>2, GotoEffect DEF Lc!Steps
    <3> QED
      BY <1>0, <1>9, <2>2, <3>1 DEF Lc!Defer, LastCopyInv, Queued, Waits
  <2> QED
    BY <1>9, <2>1, <2>2 DEF Lc!Defer
<1>10. ASSUME NEW e \in Events, NEW s \in Lc!Stamps, Lc!AckWaitExpires(e,s)
       PROVE  LastCopyInv'
  <2>1. \A f \in Events, r \in Lc!Stamps :
           /\ message'[f][r] = "gone" => message[f][r] = "gone"
           /\ Queued(f, r) => Queued(f, r)'
    BY <1>0, <1>10, MessageSet DEF Lc!AckWaitExpires, Queued
  <2> QED
    BY <1>0, <1>10, <2>1 DEF Lc!AckWaitExpires, LastCopyInv, Waits, Lc!TypeOK
<1>11. ASSUME NEW e \in Events, NEW s \in Lc!Stamps, NEW step \in Lc!Steps, Lc!Settle(e,s,step)
       PROVE  LastCopyInv'
  <2>1. /\ \A f \in Events, r \in Lc!Stamps : f # e \/ r # s => message'[f][r] = message[f][r]
        /\ message'[e][s] = "gone" =>
              message[e][s] = "gone" \/ step = "remove" \/ e \in dropped'
        /\ message'[e][s] \in {message[e][s], "ready", "gone"}
        /\ \E t \in tasks : t.event = e /\ t.stamp = s /\ t.step = step
        /\ tasks' \subseteq tasks /\ dropped \subseteq dropped'
        /\ UNCHANGED <<pending, stamp, verified>>
    BY <1>0, <1>11, SettleEffect
  <2>2. ASSUME NEW f \in Events \ (verified' \cup dropped')
        PROVE  message'[f][stamp[f]] # "gone"
    <3>1. stamp[f] \in Lc!Stamps
      BY <1>0 DEF Lc!TypeOK
    <3>2. CASE f = e /\ stamp[f] = s
      BY <1>0, <2>1, <2>2, <3>2 DEF Lc!LcOK, LastCopyInv, Lc!Stamps
    <3>3. CASE f # e \/ stamp[f] # s
      BY <1>0, <2>1, <2>2, <3>1, <3>3 DEF LastCopyInv
    <3> QED
      BY <3>2, <3>3
  <2>3. ASSUME NEW f \in Events \ (verified' \cup dropped'), stamp[f] > 0, Queued(f, stamp[f])
        PROVE  Queued(f, stamp[f])'
    <3>1. stamp[f] \in Lc!Stamps
      BY <1>0 DEF Lc!TypeOK
    <3> QED
      BY <2>1, <2>2, <2>3, <3>1 DEF Queued
  <2> QED
    BY <1>0, <2>1, <2>2, <2>3 DEF LastCopyInv, Waits
<1>12. CASE Lc!Poll
  BY <1>0, <1>12 DEF Lc!Poll, Lc!TypeOK, StampInv, LastCopyInv, Queued, Waits
<1>13. ASSUME NEW z \in replaying, Lc!Replay(z) PROVE LastCopyInv'
  <2>1. z.event \in Events /\ z.stamp \in Lc!Stamps
    BY <1>0 DEF Lc!TypeOK, Lc!Entry
  <2>2. UNCHANGED <<pending, stamp, tasks, verified, dropped>>
    BY <1>13 DEF Lc!Replay
  <2>3. Lc!Published(z.event, z.stamp) \/ UNCHANGED message
    BY <1>13 DEF Lc!Replay
  <2> QED
    BY <1>0, <2>1, <2>2, <2>3, PublicationKeeps DEF LastCopyInv, Queued, Waits
<1>14. ASSUME NEW z \in replaying, Lc!RemoveReplayed(z) PROVE LastCopyInv'
  <2>1. z.event \in Events /\ z.stamp \in Lc!Stamps /\ message[z.event][z.stamp] # "none"
    BY <1>0, <1>14 DEF Lc!RemoveReplayed, Lc!TypeOK, Lc!Entry, StampInv
  <2>2. message[z.event][z.stamp] \in {"ready", "pending", "gone"}
    BY <1>0, <2>1 DEF Lc!TypeOK
  <2>3. ASSUME NEW e \in Events \ (verified \cup dropped), Waits(e, stamp[e])
        PROVE  Queued(e, stamp[e]) \/ Waits(e, stamp[e])'
    <3>1. pending \subseteq pending' \cup {z}
      BY <1>14 DEF Lc!RemoveReplayed
    <3>2. z.event = e /\ z.stamp = stamp[e] => Queued(e, stamp[e])
      BY <1>0, <2>2 DEF LastCopyInv, Queued
    <3>3. UNCHANGED stamp
      BY <1>14 DEF Lc!RemoveReplayed
    <3> QED
      BY <2>3, <3>1, <3>2, <3>3 DEF Waits
  <2> QED
    BY <1>0, <1>14, <2>3 DEF Lc!RemoveReplayed, LastCopyInv, Queued
<1>15. CASE Lc!TipAdvances
  BY <1>0, <1>15 DEF Lc!TipAdvances, Lc!TypeOK, StampInv, LastCopyInv, Queued, Waits
<1>16. CASE Lc!Crash
  BY <1>0, <1>16 DEF Lc!Crash, Lc!TypeOK, StampInv, LastCopyInv, Queued, Waits
<1>17. CASE UNCHANGED Lc!vars
  BY <1>0, <1>17 DEF Lc!TypeOK, StampInv, LastCopyInv, Queued, Waits
<1> QED
  BY <1>1, <1>2, <1>3, <1>4, <1>5, <1>6, <1>7, <1>8, <1>9, <1>10, <1>11, <1>12,
     <1>13, <1>14, <1>15, <1>16, <1>17 DEF Lc!Next

(* The inductive invariant, from which the results follow. *)
LEMMA LcInvariant ==
    ASSUME Lc!LcOK
    PROVE  Lc!Spec => []LcInv
<1>1. Lc!Init => LcInv
  <2> SUFFICES ASSUME Lc!Init PROVE LcInv
    OBVIOUS
  <2>1. Lc!TypeOK
    BY DEF Lc!LcOK, Lc!Init, Lc!TypeOK, Lc!Stamps
  <2> QED
    BY <2>1 DEF Lc!LcOK, Lc!Init, LcInv, StampInv, LastCopyInv, Lc!Stamps
<1>2. LcInv /\ [Lc!Next]_(Lc!vars) => LcInv'
  BY LcTypeStep, StampStep, LastCopyStep DEF LcInv
<1> QED
  BY <1>1, <1>2, PTL DEF Lc!Spec

(* Every reachable state is well typed, and the poller removes one entry   *)
(* at a time.                                                              *)
THEOREM LcTypeCorrect ==
    ASSUME Lc!LcOK
    PROVE  Lc!Spec => []Lc!TypeOK
BY LcInvariant, PTL DEF LcInv

(* A transfer that waits for the light client is never stranded: however   *)
(* often it moves between the stream and the sorted set, and whatever      *)
(* fails or crashes on the way, one of the two holds it until it is        *)
(* verified or given up.                                                   *)
THEOREM DeferredStayStored ==
    ASSUME Lc!LcOK
    PROVE  Lc!Spec => []Lc!NoTransferStranded
<1>1. ASSUME LcInv PROVE Lc!NoTransferStranded
  <2> SUFFICES ASSUME NEW e \in Lc!Accepted, e \notin verified \cup dropped
              
              PROVE  (\E s \in Lc!Stamps : Queued(e, s)) \/ \E z \in pending : z.event = e
    BY DEF Lc!NoTransferStranded, Queued
  <2>1. e \in Events /\ stamp[e] \in Lc!Stamps /\ stamp[e] \in Nat
    BY <1>1 DEF Lc!LcOK, LcInv, Lc!TypeOK, Lc!Accepted, Lc!Stamps
  <2>2. CASE stamp[e] > 0
    BY <1>1, <2>1, <2>2 DEF LcInv, LastCopyInv, Waits
  <2>3. CASE stamp[e] = 0
    <3>1. CASE \E z \in pending : z.event = e
      BY <3>1
    <3>2. CASE \E s \in Lc!Stamps : message[e][s] # "none"
      <4>1. PICK s \in Lc!Stamps : message[e][s] # "none"
        BY <3>2
      <4>2. s = 0
        BY <1>1, <2>1, <2>3, <4>1 DEF Lc!LcOK, LcInv, StampInv, Lc!Stamps
      <4>3. message[e][0] \in {"ready", "pending", "gone"} /\ message[e][0] # "gone"
        BY <1>1, <2>1, <2>3, <4>1, <4>2 DEF LcInv, Lc!TypeOK, LastCopyInv
      <4> QED
        BY <4>1, <4>2, <4>3 DEF Queued
    <3> QED
      BY <3>1, <3>2 DEF Lc!Accepted
  <2> QED
    BY <2>1, <2>2, <2>3
<1> QED
  BY <1>1, LcInvariant, PTL
-----------------------------------------------------------------------------
(* The abstract queue accepts a transfer when it first reaches a store;    *)
(* no step takes it out of both.                                           *)
LEMMA AcceptedGrows ==
    ASSUME NEW e \in Events, NEW A, A = Lc!Accepted, Lc!Accepted' = A \/ Lc!Accepted' = A \cup {e},
           UNCHANGED <<lost, verified, dropped>>
    PROVE  [Lc!Promise!Next]_(Lc!Promise!vars)
<1>1. CASE Lc!Accepted' = Lc!Accepted
  BY <1>1 DEF Lc!Promise!vars
<1>2. CASE e \notin Lc!Accepted /\ Lc!Accepted' = Lc!Accepted \cup {e}
  <2>1. Lc!Promise!Accept(e)
    BY <1>2 DEF Lc!Promise!Accept
  <2> QED
    BY <2>1 DEF Lc!Promise!Next
<1> QED
  BY <1>1, <1>2

(* Every step is one of the abstract queue, or a stutter. *)
LEMMA PromiseStep ==
    ASSUME Lc!LcOK, LcInv, [Lc!Next]_(Lc!vars) PROVE [Lc!Promise!Next]_(Lc!Promise!vars)
<1> USE DEF Lc!vars, Lc!poller, Lc!outcome
<1>0. Lc!TypeOK /\ StampInv /\ 0 \in Lc!Stamps
  BY DEF Lc!LcOK, LcInv, Lc!Stamps
<1>1. ASSUME \A f \in Events, r \in Lc!Stamps : message'[f][r] # "none" <=> message[f][r] # "none",
             UNCHANGED pending
      PROVE  Lc!Accepted' = Lc!Accepted
  BY <1>1 DEF Lc!Accepted
<1>2. ASSUME NEW e \in Events, NEW target \in 1..MaxTip, Lc!Stored(e, target), UNCHANGED message
      PROVE  Lc!Accepted' = Lc!Accepted \cup {e}
  <2>1. PICK z \in Lc!Entry : pending' = pending \cup {z} /\ z.event = e
    BY <1>0, <1>2, DeferralEffect
  <2> QED
    BY <1>2, <2>1 DEF Lc!Accepted
<1>3. ASSUME NEW e \in Events, NEW s \in Lc!Stamps, Lc!Published(e, s), UNCHANGED pending
      PROVE  Lc!Accepted' = Lc!Accepted \cup {e}
  <2>1. /\ message'[e][s] # "none"
        /\ \A f \in Events, r \in Lc!Stamps : f # e \/ r # s => message'[f][r] = message[f][r]
    BY <1>0, <1>3, PublishedEffect
  <2> QED
    BY <1>3, <2>1 DEF Lc!Accepted
<1>4. ASSUME NEW e \in Events, \E t \in tasks : t.event = e PROVE e \in Lc!Accepted
  BY <1>0, <1>4 DEF StampInv, Lc!TypeOK, Lc!Accepted
<1>5. ASSUME NEW e \in Events, e \in Lc!Accepted, Lc!Accepted' = Lc!Accepted,
             UNCHANGED <<lost, verified>>,
             dropped' = dropped \/ dropped' = dropped \cup {e}
      PROVE  [Lc!Promise!Next]_(Lc!Promise!vars)
  <2>1. CASE dropped' = dropped
    BY <1>5, <2>1 DEF Lc!Promise!vars
  <2>2. CASE dropped' = dropped \cup {e}
    <3>1. Lc!Promise!GiveUp(e)
      BY <1>5, <2>2 DEF Lc!Promise!GiveUp
    <3> QED
      BY <3>1 DEF Lc!Promise!Next
  <2> QED
    BY <1>5, <2>1, <2>2
<1>6. ASSUME NEW e \in Events, Lc!IngestDefers(e)
      PROVE  [Lc!Promise!Next]_(Lc!Promise!vars)
  <2>1. PICK target \in 1..MaxTip : Lc!Stored(e, target)
    BY <1>6 DEF Lc!IngestDefers, Lc!Estimates
  <2>2. Lc!Accepted' = Lc!Accepted \cup {e}
    BY <1>2, <1>6, <2>1 DEF Lc!IngestDefers
  <2> QED
    BY <1>6, <2>2, AcceptedGrows DEF Lc!IngestDefers
<1>7. ASSUME NEW e \in Events, Lc!IngestPublishes(e)
      PROVE  [Lc!Promise!Next]_(Lc!Promise!vars)
  <2>1. CASE Lc!Published(e, 0) /\ UNCHANGED lost
    <3>1. Lc!Accepted' = Lc!Accepted \cup {e}
      BY <1>0, <1>3, <1>7, <2>1 DEF Lc!IngestPublishes
    <3> QED
      BY <1>7, <2>1, <3>1, AcceptedGrows DEF Lc!IngestPublishes
  <2>2. CASE lost' = lost \cup {e} /\ UNCHANGED message
    <3>1. Lc!Accepted' = Lc!Accepted
      BY <1>1, <1>7, <2>2 DEF Lc!IngestPublishes
    <3>2. Lc!Promise!Lose(e)
      BY <1>7, <2>2, <3>1 DEF Lc!IngestPublishes, Lc!Promise!Lose
    <3> QED
      BY <3>2 DEF Lc!Promise!Next
  <2> QED
    BY <1>7, <2>1, <2>2 DEF Lc!IngestPublishes
<1>8. ASSUME NEW e \in Events, NEW s \in Lc!Stamps, Lc!Deliver(e, s) \/ Lc!AckWaitExpires(e, s)
      PROVE  [Lc!Promise!Next]_(Lc!Promise!vars)
  <2>1. \A f \in Events, r \in Lc!Stamps : message'[f][r] # "none" <=> message[f][r] # "none"
    BY <1>0, <1>8, MessageSet DEF Lc!Deliver, Lc!AckWaitExpires
  <2>2. Lc!Accepted' = Lc!Accepted
    BY <1>1, <1>8, <2>1 DEF Lc!Deliver, Lc!AckWaitExpires
  <2> QED
    BY <1>8, <2>2 DEF Lc!Deliver, Lc!AckWaitExpires, Lc!Promise!vars
<1>9. ASSUME NEW e \in Events, NEW s \in Lc!Stamps, Lc!Verify(e, s)
      PROVE  [Lc!Promise!Next]_(Lc!Promise!vars)
  <2>1. e \in Lc!Accepted
    BY <1>0, <1>4, <1>9, GotoEffect DEF Lc!Verify, Lc!Steps
  <2>2. Lc!Accepted' = Lc!Accepted
    BY <1>1, <1>9 DEF Lc!Verify
  <2>3. Lc!Promise!Relay(e)
    BY <1>9, <2>1, <2>2 DEF Lc!Verify, Lc!Promise!Relay
  <2> QED
    BY <2>3 DEF Lc!Promise!Next
<1>10. ASSUME NEW e \in Events, NEW s \in Lc!Stamps, Lc!ReceiptsFail(e, s)
       PROVE  [Lc!Promise!Next]_(Lc!Promise!vars)
  <2>1. e \in Lc!Accepted
    BY <1>0, <1>4, <1>10, GotoEffect DEF Lc!ReceiptsFail, Lc!Steps
  <2>2. Lc!Accepted' = Lc!Accepted
    BY <1>1, <1>10 DEF Lc!ReceiptsFail
  <2> QED
    BY <1>5, <1>10, <2>1, <2>2 DEF Lc!ReceiptsFail
<1>11. ASSUME NEW e \in Events, NEW s \in Lc!Stamps, Lc!Defer(e, s)
       PROVE  [Lc!Promise!Next]_(Lc!Promise!vars)
  <2>1. e \in Lc!Accepted
    BY <1>0, <1>4, <1>11, GotoEffect DEF Lc!Defer, Lc!Steps
  <2>2. CASE Lc!Stored(e, Target[e])
    <3>1. Lc!Accepted' = Lc!Accepted
      BY <1>2, <1>11, <2>1, <2>2 DEF Lc!LcOK, Lc!Defer
    <3> QED
      BY <1>11, <3>1 DEF Lc!Defer, Lc!Promise!vars
  <2>3. CASE UNCHANGED <<pending, stamp>>
    <3>1. Lc!Accepted' = Lc!Accepted
      BY <1>1, <1>11, <2>3 DEF Lc!Defer
    <3> QED
      BY <1>11, <3>1 DEF Lc!Defer, Lc!Promise!vars
  <2> QED
    BY <1>11, <2>2, <2>3 DEF Lc!Defer
<1>12. ASSUME NEW e \in Events, NEW s \in Lc!Stamps, NEW step \in Lc!Steps, Lc!Settle(e, s, step)
       PROVE  [Lc!Promise!Next]_(Lc!Promise!vars)
  <2>1. e \in Lc!Accepted
    BY <1>0, <1>4, <1>12, SettleEffect
  <2>2. \A f \in Events, r \in Lc!Stamps : message'[f][r] # "none" <=> message[f][r] # "none"
    BY <1>0, <1>12, SettleEffect DEF StampInv
  <2>3. Lc!Accepted' = Lc!Accepted
    BY <1>0, <1>1, <1>12, <2>2, SettleEffect
  <2> QED
    BY <1>0, <1>5, <1>12, <2>1, <2>3, SettleEffect
<1>13. ASSUME NEW z \in replaying, Lc!Replay(z) PROVE [Lc!Promise!Next]_(Lc!Promise!vars)
  <2>1. z.event \in Events /\ z.stamp \in Lc!Stamps
    BY <1>0 DEF Lc!TypeOK, Lc!Entry
  <2>2. CASE Lc!Published(z.event, z.stamp)
    <3>1. Lc!Accepted' = Lc!Accepted \cup {z.event}
      BY <1>3, <1>13, <2>1, <2>2 DEF Lc!Replay
    <3> QED
      BY <1>13, <2>1, <3>1, AcceptedGrows DEF Lc!Replay
  <2>3. CASE UNCHANGED message
    <3>1. Lc!Accepted' = Lc!Accepted
      BY <1>1, <1>13, <2>3 DEF Lc!Replay
    <3> QED
      BY <1>13, <3>1 DEF Lc!Replay, Lc!Promise!vars
  <2> QED
    BY <1>13, <2>2, <2>3 DEF Lc!Replay
<1>14. ASSUME NEW z \in replaying, Lc!RemoveReplayed(z)
       PROVE  [Lc!Promise!Next]_(Lc!Promise!vars)
  <2>1. /\ z.event \in Events /\ z.stamp \in Lc!Stamps /\ message[z.event][z.stamp] # "none"
        /\ pending' = pending \/ pending' = pending \ {z}
    BY <1>0, <1>14 DEF Lc!RemoveReplayed, Lc!TypeOK, Lc!Entry, StampInv
  <2>2. UNCHANGED <<message, lost, verified, dropped>>
    BY <1>14 DEF Lc!RemoveReplayed
  <2>3. Lc!Accepted' = Lc!Accepted
    BY <2>1, <2>2 DEF Lc!Accepted
  <2> QED
    BY <2>2, <2>3 DEF Lc!Promise!vars
<1>15. CASE UNCHANGED <<message, pending, lost, verified, dropped>>
  <2>1. Lc!Accepted' = Lc!Accepted
    BY <1>1, <1>15
  <2> QED
    BY <1>15, <2>1 DEF Lc!Promise!vars
<1> QED
  BY <1>6, <1>7, <1>8, <1>9, <1>10, <1>11, <1>12, <1>13, <1>14, <1>15
     DEF Lc!Next, Lc!IngestedAgain, Lc!Screen, Lc!NotSynced, Lc!Poll, Lc!TipAdvances, Lc!Crash

(* The safety part of KeepsPromise: the stream and the sorted set together *)
(* behave like the abstract queue, whatever moves between them.            *)
THEOREM DeferralKeepsPromise ==
    ASSUME Lc!LcOK
    PROVE  Lc!Spec => Lc!Promise!Init /\ [][Lc!Promise!Next]_(Lc!Promise!vars)
<1>1. Lc!Init => Lc!Promise!Init
  BY DEF Lc!Init, Lc!Promise!Init, Lc!Accepted
<1> QED
  BY <1>1, PromiseStep, LcInvariant, PTL DEF Lc!Spec
=============================================================================
