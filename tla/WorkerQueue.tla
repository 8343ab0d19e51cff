---------------------------- MODULE WorkerQueue ----------------------------
(***************************************************************************)
(* The RELAYER stream and the worker pool that consumes it.                *)
(*                                                                         *)
(* Ingestion and the workers publish events to a JetStream stream, each    *)
(* under a Nats-Msg-Id the server remembers for a while (utils/nats.rs).   *)
(* One durable pull consumer delivers them; process_events buffers a       *)
(* batch, takes one delivery at a time, waits for a semaphore permit and   *)
(* spawns a task (workers/mod.rs).  The task runs a worker, publishes the  *)
(* events the worker produced, acknowledges the delivery, and deletes the  *)
(* transfer's cached fee if the event left the queue.                      *)
(*                                                                         *)
(* A delivery not acknowledged within ack_wait comes again, also while its *)
(* first task is still at work.  A retry is nak'd, and terminated once the *)
(* message is past max_message_age.  max_deliver is -1, unlimited, as in   *)
(* every shipped configuration.  The server's part is modelled from how    *)
(* src/ uses it.                                                           *)
(***************************************************************************)
EXTENDS Integers, Sequences, FiniteSets, Functions

CONSTANTS Events,     \* events that may be published
          Produces,   \* Produces[e]: what the worker publishes when it relays e
          Indexed,    \* events that ingestion publishes
          Undecodable,\* events whose payload is not JSON
          Transfer,   \* Transfer[e]: the FEE_MAPPING key e's worker uses
          Workers,    \* semaphore permits, one name each
          FirstStart, \* the durable consumer does not exist yet
          MaxSeq,     \* bound: messages the stream ever stores
          MaxCopies,  \* bound: messages with an event that ingestion adds to
          MaxFaults   \* bound: failures the environment injects

Seqs == 1..MaxSeq
BatchSize == (Cardinality(Workers) + 1) \div 2

ASSUME WorkersOK == Workers # {} /\ IsFiniteSet(Workers)
ASSUME EventsOK ==
    /\ Produces \in [Events -> SUBSET Events]
    /\ Indexed \subseteq Events /\ Undecodable \subseteq Events
    /\ DOMAIN Transfer = Events
    /\ FirstStart \in BOOLEAN
    /\ MaxFaults \in Nat
    /\ MaxSeq \in Nat /\ MaxSeq >= Cardinality(Events)

VARIABLES
    stream,   \* the events stored, in order of publication
    recent,   \* message ids inside the deduplication window
    created,  \* the durable consumer exists
    consumer, \* consumer[s]: the consumer's state for the message at s
    aged,     \* messages past max_message_age
    lost,     \* events whose publication failed
    buffer,   \* deliveries fetched, not yet taken
    held,     \* the delivery the dispatcher holds, 0 for none
    work,     \* work[w]: the task that holds permit w
    fees,     \* FEE_MAPPING: transfers with a cached fee
    verdicts, \* history: how tasks settled the message at s
    faults    \* failures injected so far

server  == <<stream, recent, created, consumer, aged>>
process == <<buffer, held, work>>
vars == <<server, process, lost, fees, verdicts, faults>>

ConsumerStates == {"none", "skipped", "ready", "pending", "acked", "termed"}
Actions == {"none", "remove", "drop", "retry"}
Steps == {"idle", "work", "publish", "cleanup"}

Task(s, step, action, todo) == [seq |-> s, step |-> step, action |-> action, todo |-> todo]
Idle == Task(0, "idle", "none", {})

(* The type of every variable. *)
TypeOK ==
    /\ stream \in Seq(Events) /\ Len(stream) <= MaxSeq
    /\ recent \subseteq Events
    /\ created \in BOOLEAN
    /\ consumer \in [Seqs -> ConsumerStates]
    /\ aged \subseteq Seqs
    /\ lost \subseteq Events
    /\ buffer \in Seq(Seqs) /\ Len(buffer) <= BatchSize
    /\ held \in 0..MaxSeq
    /\ work \in [Workers -> [seq: 0..MaxSeq, step: Steps, action: Actions,
                             todo: SUBSET Events]]
    /\ fees \subseteq Range(Transfer)
    /\ verdicts \in [Seqs -> SUBSET {"remove", "drop"}]
    /\ faults \in 0..MaxFaults

Stored == Range(stream)
EventOf(w) == stream[work[w].seq]
Retired(s) == consumer[s] \in {"acked", "termed"}

Fault == faults < MaxFaults /\ faults' = faults + 1

(* publish: the server stores the event unless it remembers its id. *)
Published(e) ==
    IF e \in recent
    THEN UNCHANGED <<stream, recent, consumer>>
    ELSE /\ Len(stream) < MaxSeq
         /\ stream' = Append(stream, e)
         /\ recent' = recent \cup {e}
         /\ consumer' = [consumer EXCEPT ![Len(stream) + 1] =
                            IF created THEN "ready" ELSE "none"]

PublishFails(e) ==
    /\ Fault
    /\ lost' = lost \cup {e}
    /\ UNCHANGED <<stream, recent, consumer>>
-----------------------------------------------------------------------------
Init ==
    /\ stream = <<>> /\ recent = {} /\ created = ~FirstStart
    /\ consumer = [s \in Seqs |-> "none"]
    /\ aged = {} /\ lost = {}
    /\ buffer = <<>> /\ held = 0
    /\ work = [w \in Workers |-> Idle]
    /\ fees = {}
    /\ verdicts = [s \in Seqs |-> {}]
    /\ faults = 0
-----------------------------------------------------------------------------
(* add_event: an event may come several times, from the indexers' stream   *)
(* or when that is read again; a publication that fails is logged.         *)
Ingest(e) ==
    /\ e \in Indexed
    /\ Cardinality({s \in DOMAIN stream : stream[s] = e}) < MaxCopies
    /\ \/ Published(e) /\ UNCHANGED <<lost, faults>>
       \/ PublishFails(e)
    /\ UNCHANGED <<created, aged, process, fees, verdicts>>

(* relayer_consumer: a new durable consumer starts at the last message of  *)
(* the stream, DeliverPolicy::Last.                                        *)
CreateConsumer ==
    /\ ~created
    /\ created' = TRUE
    /\ consumer' = [s \in Seqs |-> IF s < Len(stream) THEN "skipped"
                                   ELSE IF s = Len(stream) THEN "ready" ELSE "none"]
    /\ UNCHANGED <<stream, recent, aged, lost, process, fees, verdicts, faults>>

(* The pull consumer fetches a batch of half the permits ahead. *)
DeliverUnbounded(s) ==
    /\ consumer[s] = "ready"
    /\ consumer' = [consumer EXCEPT ![s] = "pending"]
    /\ buffer' = Append(buffer, s)
    /\ UNCHANGED <<stream, recent, created, aged, lost, held, work, fees,
                   verdicts, faults>>

Deliver(s) ==
    /\ consumer[s] = "ready" /\ Len(buffer) < BatchSize
    /\ consumer' = [consumer EXCEPT ![s] = "pending"]
    /\ buffer' = Append(buffer, s)
    /\ UNCHANGED <<stream, recent, created, aged, lost, held, work, fees,
                   verdicts, faults>>

(* The dispatcher takes the next delivery; when the EVM nonce resync that  *)
(* comes first fails, it drops it without an acknowledgement.              *)
TakeNext ==
    /\ held = 0 /\ buffer # <<>>
    /\ \/ held' = Head(buffer) /\ UNCHANGED faults
       \/ held' = 0 /\ Fault
    /\ buffer' = Tail(buffer)
    /\ UNCHANGED <<server, lost, work, fees, verdicts>>

(* With a permit: an undecodable payload is terminated on the spot, any    *)
(* other gets a task.                                                      *)
TermUndecodable ==
    /\ held # 0 /\ \E w \in Workers : work[w] = Idle
    /\ stream[held] \in Undecodable
    /\ \/ /\ consumer' = [consumer EXCEPT ![held] =
                             IF Retired(held) THEN @ ELSE "termed"]
          /\ UNCHANGED faults
       \/ Fault /\ UNCHANGED consumer
    /\ held' = 0
    /\ UNCHANGED <<stream, recent, created, aged, lost, buffer, work, fees, verdicts>>

Spawn(w) ==
    /\ held # 0 /\ work[w] = Idle
    /\ stream[held] \notin Undecodable
    /\ work' = [work EXCEPT ![w] = Task(held, "work", "none", {})]
    /\ held' = 0
    /\ UNCHANGED <<server, lost, buffer, fees, verdicts, faults>>
-----------------------------------------------------------------------------
(* process_message: relayed, given up, or to be retried.  A retry may have *)
(* cached the required fee.  Only a relayed event has produced events.     *)
Work(w, a) ==
    /\ work[w].step = "work"
    /\ LET s == work[w].seq IN
       /\ work' = [work EXCEPT ![w] =
                     Task(s, "publish", a, IF a = "remove" THEN Produces[stream[s]] ELSE {})]
       /\ verdicts' = [verdicts EXCEPT ![s] = @ \cup ({a} \ {"retry"})]
    /\ \/ UNCHANGED fees
       \/ a = "retry" /\ fees' = fees \cup {Transfer[EventOf(w)]}
    /\ UNCHANGED <<server, lost, buffer, held, faults>>

(* publish_event, for each produced event, before the acknowledgement. *)
PublishProduced(w) ==
    /\ work[w].step = "publish"
    /\ \E e \in work[w].todo :
          /\ \/ Published(e) /\ UNCHANGED <<lost, faults>>
             \/ PublishFails(e)
          /\ work' = [work EXCEPT ![w].todo = @ \ {e}]
    /\ UNCHANGED <<created, aged, buffer, held, fees, verdicts>>

(* compute_ack_decision: the consumer state that the ack asks for. *)
DecisionTermsEarly(s, a) ==
    CASE a = "remove" -> "acked" [] OTHER -> "termed"

Decision(s, a) ==
    CASE a = "remove" -> "acked"
      [] a = "drop"   -> "termed"
      [] a = "retry"  -> IF s \in aged THEN "termed" ELSE "ready"

(* handle_nats_ack.  The ack of any delivery of a message retires it; an   *)
(* ack that does not reach the server, or message info that cannot be      *)
(* read, leaves the message pending.  Only an ack that landed and retired  *)
(* the message leads on to the clean-up; otherwise the permit is free.     *)
AckWithoutPublishing(w) ==
    LET s == work[w].seq  a == work[w].action IN
    /\ work[w].step = "publish"
    /\ consumer' = [consumer EXCEPT ![s] = IF Retired(s) THEN @ ELSE Decision(s, a)]
    /\ work' = [work EXCEPT ![w] = Idle]
    /\ UNCHANGED <<stream, recent, created, aged, lost, buffer, held, fees,
                   verdicts, faults>>

AckKeepsPermit(w) ==
    LET s == work[w].seq  a == work[w].action IN
    /\ work[w].step = "publish" /\ work[w].todo = {}
    /\ a # "retry"
    /\ consumer' = [consumer EXCEPT ![s] = IF Retired(s) THEN @ ELSE Decision(s, a)]
    /\ work' = [work EXCEPT ![w].step = "cleanup"]
    /\ UNCHANGED <<stream, recent, created, aged, lost, buffer, held, fees,
                   verdicts, faults>>

AckAssumedLanded(w) ==
    LET s == work[w].seq  a == work[w].action IN
    /\ work[w].step = "publish" /\ work[w].todo = {}
    /\ \/ /\ consumer' = [consumer EXCEPT ![s] = IF Retired(s) THEN @ ELSE Decision(s, a)]
          /\ UNCHANGED faults
       \/ Fault /\ UNCHANGED consumer
    /\ work' = [work EXCEPT ![w] = IF Decision(s, a) = "ready" THEN Idle
                                   ELSE [@ EXCEPT !.step = "cleanup"]]
    /\ UNCHANGED <<stream, recent, created, aged, lost, buffer, held, fees, verdicts>>

Acknowledge(w) ==
    LET s == work[w].seq  a == work[w].action IN
    /\ work[w].step = "publish" /\ work[w].todo = {}
    /\ \/ /\ consumer' = [consumer EXCEPT ![s] = IF Retired(s) THEN @ ELSE Decision(s, a)]
          /\ work' = [work EXCEPT ![w] = IF Decision(s, a) = "ready" THEN Idle
                                         ELSE [@ EXCEPT !.step = "cleanup"]]
          /\ UNCHANGED faults
       \/ /\ work' = [work EXCEPT ![w] = Idle]
          /\ Fault /\ UNCHANGED consumer
    /\ UNCHANGED <<stream, recent, created, aged, lost, buffer, held, fees, verdicts>>

(* The event left the queue: its cached fee goes, unless a relayed event   *)
(* handed the transfer on to a later stage that owns the key.  The permit  *)
(* is free again.                                                          *)
CleanUp(w) ==
    /\ work[w].step = "cleanup"
    /\ fees' = IF work[w].action = "remove" /\ Produces[EventOf(w)] # {}
               THEN fees ELSE fees \ {Transfer[EventOf(w)]}
    /\ work' = [work EXCEPT ![w] = Idle]
    /\ UNCHANGED <<server, lost, buffer, held, verdicts, faults>>
-----------------------------------------------------------------------------
(* The server delivers again what was not acknowledged within ack_wait. *)
AckWaitExpires(s) ==
    /\ consumer[s] = "pending"
    /\ consumer' = [consumer EXCEPT ![s] = "ready"]
    /\ UNCHANGED <<stream, recent, created, aged, lost, process, fees, verdicts, faults>>

Age(s) ==
    /\ s \in 1..Len(stream) /\ s \notin aged
    /\ aged' = aged \cup {s}
    /\ UNCHANGED <<stream, recent, created, consumer, lost, process, fees,
                   verdicts, faults>>

(* The deduplication window of an id closes; the bound leaves room for     *)
(* every event the server does not remember.                               *)
Forget(e) ==
    /\ e \in recent
    /\ Len(stream) + Cardinality(Events \ recent) < MaxSeq
    /\ recent' = recent \ {e}
    /\ UNCHANGED <<stream, created, consumer, aged, lost, process, fees,
                   verdicts, faults>>

(* The process dies: the stream, the consumer and redis survive it. *)
Crash ==
    /\ Fault
    /\ buffer' = <<>> /\ held' = 0 /\ work' = [w \in Workers |-> Idle]
    /\ UNCHANGED <<server, lost, fees, verdicts>>

Run(w) ==
    \/ \E a \in {"remove", "drop", "retry"} : Work(w, a)
    \/ PublishProduced(w) \/ Acknowledge(w) \/ CleanUp(w)

Dispatch == TakeNext \/ TermUndecodable \/ \E w \in Workers : Spawn(w)

Next ==
    \/ \E e \in Events : Ingest(e) \/ Forget(e)
    \/ CreateConsumer
    \/ \E s \in Seqs : Deliver(s) \/ AckWaitExpires(s) \/ Age(s)
    \/ TakeNext \/ TermUndecodable
    \/ \E w \in Workers : Spawn(w) \/ PublishProduced(w) \/ Acknowledge(w) \/ CleanUp(w)
    \/ \E w \in Workers, a \in {"remove", "drop", "retry"} : Work(w, a)
    \/ Crash

Spec == Init /\ [][Next]_vars

(* tokio polls the dispatcher and each task; the server keeps delivering,  *)
(* in an order that starves no message, and its clock runs.                *)
FairSpec ==
    /\ Spec
    /\ WF_vars(Dispatch) /\ WF_vars(CreateConsumer)
    /\ \A w \in Workers : WF_vars(Run(w))
    /\ \A s \in Seqs : SF_vars(Deliver(s)) /\ WF_vars(AckWaitExpires(s)) /\ WF_vars(Age(s))
-----------------------------------------------------------------------------
(* An event acknowledged as relayed has handed every event it produced to  *)
(* the stream before, in spite of crashes and duplicate deliveries; only a *)
(* publication that failed is missing.                                     *)
HandedOn ==
    \A s \in 1..Len(stream) :
        consumer[s] = "acked" => Produces[stream[s]] \subseteq Stored \cup lost

(* No message leaves the queue by itself: some task of it relayed it or    *)
(* gave it up, it outlived max_message_age in retries, or it was garbage.  *)
LeavesForAReason ==
    \A s \in 1..Len(stream) :
        /\ consumer[s] = "acked" => "remove" \in verdicts[s]
        /\ consumer[s] = "termed" =>
              \/ "drop" \in verdicts[s]
              \/ s \in aged
              \/ stream[s] \in Undecodable

(* A transfer's cached fee is deleted only when an event of the transfer   *)
(* has left the queue: as long as every event of it is to be retried, the  *)
(* fee the sender was quoted stays.                                        *)
FeeOutlivesRetries ==
    [][\A t \in fees \ fees' :
          \E s \in 1..Len(stream) : Transfer[stream[s]] = t /\ Retired(s)]_vars

(* The queue's promise: every accepted event is settled, and a relayed one *)
(* only after what it produces was handed to the queue.                    *)
SettledAs(state) == {stream[s] : s \in {r \in 1..Len(stream) : consumer[r] = state}}

Promise == INSTANCE TaskQueue
    WITH accepted <- Stored, relayed <- SettledAs("acked"), givenUp <- SettledAs("termed")
KeepsPromise == Promise!Spec
=============================================================================
