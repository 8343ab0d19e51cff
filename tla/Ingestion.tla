----------------------------- MODULE Ingestion -----------------------------
(***************************************************************************)
(* From the OMNI_EVENTS stream to the RELAYER stream                       *)
(* (startup/nats_ingestion.rs, startup/event_handlers.rs, utils/nats.rs).  *)
(*                                                                         *)
(* subscribe_to_omni_events takes one OmniEvent at a time, publishes the   *)
(* work items it stands for, each under a Nats-Msg-Id derived from its     *)
(* origin, and acknowledges it.  The OMNI_EVENTS consumer delivers an      *)
(* unacknowledged event again, at most max_deliver times.  The workers     *)
(* publish to the RELAYER stream too, under the same ids (workers/mod.rs). *)
(* Both streams are external and modelled from how src/ uses them.         *)
(***************************************************************************)
EXTENDS Integers, Sequences, FiniteSets, Functions

CONSTANTS OmniEvents, \* records: the kind of the event, its transaction, its index there
          NoEvent,    \* the loop handles no event
          Malformed,  \* events whose handler always fails
          Undecodable,\* payloads that are no OmniEvent
          UtxoCount,  \* inputs of a NEAR to UTXO transfer
          MaxDeliver, \* omni_consumer.max_deliver
          MaxBuffer,  \* bound: deliveries fetched ahead
          MaxStream,  \* bound: messages the RELAYER stream ever stores
          MaxFaults   \* bound: failures the environment injects

Kinds == {"near", "evm", "starknet", "toUtxo"}

ASSUME IngestionOK ==
    /\ OmniEvents \subseteq [kind: Kinds, tx: Nat, index: Nat]
    /\ NoEvent \notin OmniEvents
    /\ Malformed \subseteq OmniEvents /\ Undecodable \subseteq OmniEvents
    /\ UtxoCount \in Nat \ {0} /\ MaxDeliver \in Nat \ {0} /\ MaxBuffer \in Nat \ {0}
    /\ MaxStream \in Nat /\ MaxFaults \in Nat

VARIABLES
    state,     \* state[e]: the consumer's state for e
    tries,     \* tries[e]: deliveries of e so far
    buffer,    \* deliveries fetched, not yet handled
    handling,  \* the event in the handler's hands
    todo,      \* its work items still to be published
    stream,    \* the work items the RELAYER stream stores, in order
    recent,    \* message ids inside the deduplication window
    lost,      \* history: work items whose publication failed
    forgotten, \* history: message ids that left the window
    faults     \* failures injected so far

consumer == <<state, tries>>
handler  == <<buffer, handling, todo>>
relayer  == <<stream, recent>>
vars == <<consumer, handler, relayer, lost, forgotten, faults>>

(* A work item is named by its event and its number among the event's.     *)
Item(e, n) == [event |-> e, n |-> n]

(* handle_transaction_event: the work items of an event, in the order they *)
(* are published.  An EVM transfer also goes to the fast relayer, a NEAR   *)
(* to UTXO transfer is signed input by input.                              *)
Items(e) ==
    [n \in 1..(CASE e.kind = "evm" -> 2 [] e.kind = "toUtxo" -> UtxoCount [] OTHER -> 1)
        |-> Item(e, n)]

(* The Nats-Msg-Id of a work item: its transaction and its log index or    *)
(* nonce, with a prefix for the fast relayer; for Starknet and Aptos the   *)
(* transaction alone; for an input to sign the pending id and its number.  *)
Key(i) ==
    LET e == i.event IN
    CASE e.kind = "starknet" -> [kind |-> "strk", tx |-> e.tx, index |-> 0]
      [] e.kind = "toUtxo"   -> [kind |-> "utxo", tx |-> e.tx, index |-> i.n]
      [] OTHER -> [kind |-> IF i.n = 2 THEN "fast" ELSE e.kind, tx |-> e.tx, index |-> e.index]

AllItems == UNION {Range(Items(e)) : e \in OmniEvents}
AllKeys  == {Key(i) : i \in AllItems}

(* The type of every variable. *)
TypeOK ==
    /\ state \in [OmniEvents -> {"ready", "pending", "acked", "termed"}]
    /\ tries \in [OmniEvents -> 0..MaxDeliver]
    /\ buffer \in Seq(OmniEvents) /\ Len(buffer) <= MaxBuffer
    /\ handling \in OmniEvents \cup {NoEvent}
    /\ todo \in Seq(AllItems)
    /\ stream \in Seq(AllItems) /\ Len(stream) <= MaxStream
    /\ recent \subseteq AllKeys /\ forgotten \subseteq AllKeys
    /\ lost \subseteq AllItems
    /\ faults \in 0..MaxFaults

Stored == Range(stream)
Keys(items) == {Key(i) : i \in items}
Retired(e) == state[e] \in {"acked", "termed"}
Fault == faults < MaxFaults /\ faults' = faults + 1

(* NatsClient::publish: the server stores a message whose id it does not   *)
(* remember.                                                               *)
Store(i) ==
    /\ Key(i) \notin recent /\ Len(stream) < MaxStream
    /\ stream' = Append(stream, i) /\ recent' = recent \cup {Key(i)}
-----------------------------------------------------------------------------
Init ==
    /\ state = [e \in OmniEvents |-> "ready"]
    /\ tries = [e \in OmniEvents |-> 0]
    /\ buffer = <<>> /\ handling = NoEvent /\ todo = <<>>
    /\ stream = <<>> /\ recent = {}
    /\ lost = {} /\ forgotten = {} /\ faults = 0
-----------------------------------------------------------------------------
(* The consumer sends an event; it does so max_deliver times at most. *)
DeliverForever(e) ==
    /\ state[e] = "ready" /\ Len(buffer) < MaxBuffer
    /\ state' = [state EXCEPT ![e] = "pending"]
    /\ tries' = [tries EXCEPT ![e] = @ + 1]
    /\ buffer' = Append(buffer, e)
    /\ UNCHANGED <<handling, todo, relayer, lost, forgotten, faults>>

Deliver(e) ==
    /\ state[e] = "ready" /\ tries[e] < MaxDeliver /\ Len(buffer) < MaxBuffer
    /\ state' = [state EXCEPT ![e] = "pending"]
    /\ tries' = [tries EXCEPT ![e] = @ + 1]
    /\ buffer' = Append(buffer, e)
    /\ UNCHANGED <<handling, todo, relayer, lost, forgotten, faults>>

(* The next backoff_secs interval is over, the event is not acknowledged:  *)
(* its handler failed, or it still waits in the buffer.                    *)
BackoffExpires(e) ==
    /\ state[e] = "pending"
    /\ state' = [state EXCEPT ![e] = "ready"]
    /\ UNCHANGED <<tries, handler, relayer, lost, forgotten, faults>>

TakeNext ==
    /\ handling = NoEvent /\ buffer # <<>>
    /\ handling' = Head(buffer) /\ todo' = Items(Head(buffer))
    /\ buffer' = Tail(buffer)
    /\ UNCHANGED <<consumer, relayer, lost, forgotten, faults>>

Done == handling' = NoEvent /\ todo' = <<>>

(* A payload that is no OmniEvent is terminated; an error is ignored. *)
TermUndecodable ==
    /\ handling \in Undecodable
    /\ \/ state' = [state EXCEPT ![handling] = IF Retired(handling) THEN @ ELSE "termed"]
          /\ UNCHANGED faults
       \/ UNCHANGED state /\ Fault
    /\ Done
    /\ UNCHANGED <<tries, buffer, relayer, lost, forgotten>>

(* The handler fails before it publishes anything: no acknowledgement. *)
HandlerFailsAndStops ==
    /\ handling \in OmniEvents \ Undecodable
    /\ todo = Items(handling)
    /\ handling \in Malformed
    /\ todo' = <<>>
    /\ UNCHANGED <<consumer, buffer, handling, relayer, lost, forgotten, faults>>

HandlerFails ==
    /\ handling \in OmniEvents \ Undecodable
    /\ todo = Items(handling)
    /\ (handling \in Malformed /\ UNCHANGED faults) \/ Fault
    /\ Done
    /\ UNCHANGED <<consumer, buffer, relayer, lost, forgotten>>

Handled == handling \in OmniEvents \ (Undecodable \cup Malformed)

(* add_event: the item is stored, or discarded as a duplicate; a failure   *)
(* is logged, and the handler goes on.                                     *)
PublishBlindly ==
    /\ Handled /\ todo # <<>>
    /\ Len(stream) < MaxStream
    /\ stream' = Append(stream, Head(todo))
    /\ recent' = recent \cup {Key(Head(todo))}
    /\ todo' = Tail(todo)
    /\ UNCHANGED <<consumer, buffer, handling, lost, forgotten, faults>>

Publish ==
    /\ Handled /\ todo # <<>>
    /\ LET i == Head(todo) IN
       \/ /\ Key(i) \in recent
          /\ UNCHANGED <<relayer, lost, faults>>
       \/ Store(i) /\ UNCHANGED <<lost, faults>>
       \/ /\ Fault
          /\ lost' = lost \cup {i}
          /\ UNCHANGED relayer
    /\ todo' = Tail(todo)
    /\ UNCHANGED <<consumer, buffer, handling, forgotten>>

(* The acknowledgement of any delivery retires the event; one that does    *)
(* not reach the server is logged.                                         *)
AckEarly ==
    /\ Handled
    /\ state' = [state EXCEPT ![handling] = IF Retired(handling) THEN @ ELSE "acked"]
    /\ Done
    /\ UNCHANGED <<tries, buffer, relayer, lost, forgotten, faults>>

Ack ==
    /\ Handled /\ todo = <<>>
    /\ \/ state' = [state EXCEPT ![handling] = IF Retired(handling) THEN @ ELSE "acked"]
          /\ UNCHANGED faults
       \/ UNCHANGED state /\ Fault
    /\ Done
    /\ UNCHANGED <<tries, buffer, relayer, lost, forgotten>>
-----------------------------------------------------------------------------
(* publish_event: a worker publishes what its NEAR transaction emitted, a  *)
(* signed transfer or an input to sign, before or after the indexer's copy *)
(* of the same event is handled.                                           *)
WorkerPublishes(i) ==
    /\ i.event.kind \in {"near", "toUtxo"}
    /\ Store(i)
    /\ UNCHANGED <<consumer, handler, lost, forgotten, faults>>

(* The deduplication window of an id closes. *)
Forget(k) ==
    /\ k \in recent /\ Len(stream) + Cardinality(AllKeys \ recent) < MaxStream
    /\ recent' = recent \ {k} /\ forgotten' = forgotten \cup {k}
    /\ UNCHANGED <<consumer, handler, stream, lost, faults>>

(* The process dies, or the subscription ends and start_indexer_nats opens *)
(* another: what was fetched and not acknowledged is delivered again.      *)
Restart ==
    /\ Fault
    /\ buffer' = <<>> /\ Done
    /\ UNCHANGED <<consumer, relayer, lost, forgotten>>

Handle == TakeNext \/ TermUndecodable \/ HandlerFails \/ Publish \/ Ack

Next ==
    \/ \E e \in OmniEvents : Deliver(e) \/ BackoffExpires(e)
    \/ TakeNext \/ TermUndecodable \/ HandlerFails \/ Publish \/ Ack
    \/ \E i \in AllItems : WorkerPublishes(i)
    \/ \E k \in AllKeys : Forget(k)
    \/ Restart

Spec == Init /\ [][Next]_vars

(* tokio polls the loop, the server delivers and its clock runs. *)
FairSpec ==
    /\ Spec
    /\ WF_vars(Handle)
    /\ \A e \in OmniEvents : SF_vars(Deliver(e)) /\ WF_vars(BackoffExpires(e))
-----------------------------------------------------------------------------
(* An acknowledged event has a message in the RELAYER stream under the id  *)
(* of each of its work items, unless a publication of that item failed:    *)
(* no crash, failure or redelivery skips one of several items.             *)
NothingSkipped ==
    \A e \in OmniEvents : state[e] = "acked" =>
        \A i \in Range(Items(e)) : Key(i) \in Keys(Stored) \/ i \in lost

(* However often an event is handled, and whether the worker publishes it  *)
(* first, each of its work items is queued once, as long as the server     *)
(* remembers its id.                                                       *)
QueuedOnce ==
    \A m, n \in 1..Len(stream) :
        m # n /\ Key(stream[m]) = Key(stream[n]) => Key(stream[m]) \in forgotten

(* No event holds up the others: each one is acknowledged or terminated in *)
(* the end, or has had its max_deliver deliveries.                         *)
NoEventBlocks ==
    \A e \in OmniEvents : <>(Retired(e) \/ tries[e] = MaxDeliver)

(* README: events flow through JetStream with at-least-once delivery; a    *)
(* unique key per event.  Every work item of an acknowledged event is in   *)
(* the RELAYER stream itself.                                              *)
EveryItemQueued ==
    \A e \in OmniEvents : state[e] = "acked" => Range(Items(e)) \subseteq Stored
=============================================================================
