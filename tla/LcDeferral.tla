---------------------------- MODULE LcDeferral ----------------------------
(***************************************************************************)
(* UTXO deposits and withdrawals that wait for the light client            *)
(* (startup/event_handlers.rs, workers/utxo.rs, utils/utxo.rs,             *)
(* startup/utxo_lc_poller.rs).                                             *)
(*                                                                         *)
(* A transfer may be verified on NEAR once the light client's tip reaches  *)
(* its target block.  Until then it moves between two stores: ingestion    *)
(* or a worker puts it in a redis sorted set scored by the target, the     *)
(* poller publishes what the tip has reached to the RELAYER stream and     *)
(* removes it from the set, a worker takes it from the stream.  Each step  *)
(* writes to the next store before it clears the last; a crash between     *)
(* the two leaves a copy in each.                                          *)
(*                                                                         *)
(* A message is named by its transfer and the stamp of its id: 0 for the   *)
(* id ingestion gives it, "<key>@lc-<target>-<now>" for the others.        *)
(***************************************************************************)
EXTENDS Integers

CONSTANTS Events,     \* transfers to be verified
          Deposits,   \* UTXO to NEAR transfers; the others are withdrawals
          Target,     \* Target[e]: the tip that e needs
          MaxTip,     \* bound: the tip stops there
          MaxStamp,   \* bound: deferrals of one transfer
          MaxFaults   \* bound: failures the environment injects

ASSUME LcOK ==
    /\ Deposits \subseteq Events
    /\ MaxTip \in Nat /\ MaxStamp \in Nat /\ MaxFaults \in Nat
    /\ Target \in [Events -> 1..MaxTip]

Stamps == 0..MaxStamp
Steps == {"work", "defer", "remove", "drop", "retry"}

VARIABLES
    tip,       \* last block of the light client
    omni,      \* omni[e]: what ingestion has done with e
    message,   \* message[e][s]: the stream's message with stamp s
    pending,   \* the sorted set: transfers, stamps and target blocks
    stamp,     \* stamp[e]: the last stamp given to a deferral of e
    tasks,     \* workers at work
    replaying, \* the poller's snapshot: entries it has yet to replay
    published, \* the entry it published and has yet to remove
    verified,  \* transfers NEAR has verified
    dropped,   \* transfers given up
    lost,      \* transfers whose first publication failed
    faults     \* failures injected so far

poller  == <<replaying, published>>
outcome == <<verified, dropped, lost>>
vars == <<tip, omni, message, pending, stamp, tasks, poller, outcome, faults>>

Entry == [event: Events, stamp: Stamps, target: 1..MaxTip]

(* The type of every variable. *)
TypeOK ==
    /\ tip \in 0..MaxTip
    /\ omni \in [Events -> {"ready", "handled"}]
    /\ message \in [Events -> [Stamps -> {"none", "ready", "pending", "gone"}]]
    /\ pending \subseteq Entry
    /\ stamp \in [Events -> Stamps]
    /\ \A t \in tasks : t \in [event: Events, stamp: Stamps, step: Steps]
    /\ replaying \subseteq Entry
    /\ published \subseteq replaying /\ \A y, z \in published : y = z
    /\ verified \subseteq Events /\ dropped \subseteq Events /\ lost \subseteq Events
    /\ faults \in 0..MaxFaults

Fault == faults < MaxFaults /\ faults' = faults + 1

(* publish: an id the server remembers changes nothing.  Once the window   *)
(* of the id is closed the message is stored again.                        *)
Published(e, s) ==
    \E state \in {"ready", message[e][s]} :
        /\ message[e][s] = "none" => state = "ready"
        /\ message[e][s] \in {"ready", "pending"} => state = message[e][s]
        /\ message' = [message EXCEPT ![e][s] = state]

(* store_pending_lc_event: a fresh id, scored by the target block. *)
Stored(e, target) ==
    /\ stamp[e] < MaxStamp
    /\ stamp' = [stamp EXCEPT ![e] = @ + 1]
    /\ pending' = pending \cup {[event |-> e, stamp |-> stamp[e] + 1, target |-> target]}

(* lc_defer_target estimates the confirmations the contract asks for. *)
Estimates(e) == {Target[e] - 1, Target[e], Target[e] + 1} \cap 1..MaxTip
-----------------------------------------------------------------------------
Init ==
    /\ tip = 0
    /\ omni = [e \in Events |-> "ready"]
    /\ message = [e \in Events |-> [s \in Stamps |-> "none"]]
    /\ pending = {} /\ stamp = [e \in Events |-> 0]
    /\ tasks = {} /\ replaying = {} /\ published = {}
    /\ verified = {} /\ dropped = {} /\ lost = {} /\ faults = 0
-----------------------------------------------------------------------------
(* Ingestion defers a transfer whose target is ahead of the tip it read... *)
IngestDefers(e) ==
    /\ omni[e] = "ready"
    /\ \E seen \in 0..tip, target \in Estimates(e) : seen < target /\ Stored(e, target)
    /\ omni' = [omni EXCEPT ![e] = "handled"]
    /\ UNCHANGED <<tip, message, tasks, poller, outcome, faults>>

(* ... and publishes any other, or one whose target it could not compute.  *)
(* A publication that fails is logged only.                                *)
IngestPublishes(e) ==
    /\ omni[e] = "ready"
    /\ \/ /\ (\E target \in Estimates(e) : tip >= target) /\ UNCHANGED faults
          /\ Published(e, 0) /\ UNCHANGED lost
       \/ Fault /\ Published(e, 0) /\ UNCHANGED lost
       \/ Fault /\ lost' = lost \cup {e} /\ UNCHANGED message
    /\ omni' = [omni EXCEPT ![e] = "handled"]
    /\ UNCHANGED <<tip, pending, stamp, tasks, poller, verified, dropped>>

(* The OmniEvent is delivered again: its acknowledgement did not land. *)
IngestedAgain(e) ==
    /\ omni[e] = "handled" /\ Fault
    /\ omni' = [omni EXCEPT ![e] = "ready"]
    /\ UNCHANGED <<tip, message, pending, stamp, tasks, poller, outcome>>
-----------------------------------------------------------------------------
TaskOf(e, s, step) == [event |-> e, stamp |-> s, step |-> step]
Goto(e, s, from, to) ==
    /\ TaskOf(e, s, from) \in tasks
    /\ tasks' = (tasks \ {TaskOf(e, s, from)}) \cup {TaskOf(e, s, to)}

Deliver(e, s) ==
    /\ message[e][s] = "ready"
    /\ message' = [message EXCEPT ![e][s] = "pending"]
    /\ tasks' = tasks \cup {TaskOf(e, s, "work")}
    /\ UNCHANGED <<tip, omni, pending, stamp, poller, outcome, faults>>

(* The sender fails the KYT check, the pending info does not exist: drop.  *)
(* A lookup or the submission fails: retry.                                *)
Screen(e, s) ==
    /\ \/ Goto(e, s, "work", "drop") /\ UNCHANGED faults
       \/ Goto(e, s, "work", "retry") /\ Fault
    /\ UNCHANGED <<tip, omni, message, pending, stamp, poller, outcome>>

(* The light client has not reached the target. *)
NotSynced(e, s) ==
    /\ tip < Target[e]
    /\ Goto(e, s, "work", "defer")
    /\ UNCHANGED <<tip, omni, message, pending, stamp, poller, outcome, faults>>

(* The transaction executes; its receipts may not be readable. *)
Verify(e, s) ==
    /\ tip >= Target[e]
    /\ \/ Goto(e, s, "work", "remove") /\ UNCHANGED faults
       \/ Goto(e, s, "work", "retry") /\ Fault
    /\ verified' = verified \cup {e}
    /\ UNCHANGED <<tip, omni, message, pending, stamp, poller, dropped, lost>>

(* Its receipts fail.  A listed failure (a fork, missing confirmations, a  *)
(* pause) defers a deposit and retries a withdrawal; any other ends a      *)
(* deposit as if it were done and drops a withdrawal.                      *)
ReceiptsFail(e, s) ==
    /\ Fault
    /\ \/ /\ Goto(e, s, "work", IF e \in Deposits THEN "defer" ELSE "retry")
          /\ UNCHANGED dropped
       \/ /\ Goto(e, s, "work", IF e \in Deposits THEN "remove" ELSE "drop")
          /\ dropped' = dropped \cup {e}
    /\ UNCHANGED <<tip, omni, message, pending, stamp, poller, verified, lost>>

(* defer_to_lc_poller: relayed once the set has it, else to be retried. *)
DeferUnstored(e, s) ==
    /\ \/ Goto(e, s, "defer", "remove") /\ Stored(e, Target[e]) /\ UNCHANGED faults
       \/ Goto(e, s, "defer", "remove") /\ Fault /\ UNCHANGED <<pending, stamp>>
    /\ UNCHANGED <<tip, omni, message, poller, outcome>>

Defer(e, s) ==
    /\ \/ Goto(e, s, "defer", "remove") /\ Stored(e, Target[e]) /\ UNCHANGED faults
       \/ Goto(e, s, "defer", "retry") /\ Fault /\ UNCHANGED <<pending, stamp>>
    /\ UNCHANGED <<tip, omni, message, poller, outcome>>

(* handle_nats_ack.  An acknowledgement that does not land leaves the      *)
(* message pending; a retry past max_message_age ends it.                  *)
Ends(e, s) == message' = [message EXCEPT ![e][s] = "gone"]

Settle(e, s, step) ==
    /\ step \in {"remove", "drop", "retry"} /\ TaskOf(e, s, step) \in tasks
    /\ tasks' = tasks \ {TaskOf(e, s, step)}
    /\ \/ /\ step # "retry" /\ Ends(e, s)
          /\ dropped' = IF step = "drop" THEN dropped \cup {e} ELSE dropped
          /\ UNCHANGED faults
       \/ /\ step = "retry"
          /\ \/ /\ message' = [message EXCEPT ![e][s] = IF @ = "gone" THEN @ ELSE "ready"]
                /\ UNCHANGED dropped
             \/ Ends(e, s) /\ dropped' = dropped \cup {e}
          /\ UNCHANGED faults
       \/ Fault /\ UNCHANGED <<message, dropped>>
    /\ UNCHANGED <<tip, omni, pending, stamp, poller, verified, lost>>

(* ack_wait is over: for a task that still runs, a fault. *)
AckWaitExpires(e, s) ==
    /\ message[e][s] = "pending"
    /\ \/ (\E t \in tasks : t.event = e /\ t.stamp = s) /\ Fault
       \/ (\A t \in tasks : ~(t.event = e /\ t.stamp = s)) /\ UNCHANGED faults
    /\ message' = [message EXCEPT ![e][s] = "ready"]
    /\ UNCHANGED <<tip, omni, pending, stamp, tasks, poller, outcome>>
-----------------------------------------------------------------------------
(* zrangebyscore up to the tip. *)
PollExactTip ==
    /\ replaying = {}
    /\ replaying' = {z \in pending : z.target = tip} /\ replaying' # {}
    /\ UNCHANGED <<tip, omni, message, pending, stamp, tasks, published, outcome, faults>>

Poll ==
    /\ replaying = {}
    /\ replaying' = {z \in pending : z.target <= tip} /\ replaying' # {}
    /\ UNCHANGED <<tip, omni, message, pending, stamp, tasks, published, outcome, faults>>

(* Each entry is published; after a failure it stays for the next poll. *)
Replay(z) ==
    /\ published = {} /\ z \in replaying
    /\ \/ Published(z.event, z.stamp) /\ published' = {z} /\ UNCHANGED <<replaying, faults>>
       \/ replaying' = replaying \ {z} /\ Fault /\ UNCHANGED <<message, published>>
    /\ UNCHANGED <<tip, omni, pending, stamp, tasks, outcome>>

(* zrem, whose failure is only logged. *)
RemoveReplayed(z) ==
    /\ z \in published
    /\ published' = {} /\ replaying' = replaying \ {z}
    /\ \/ pending' = pending \ {z} /\ UNCHANGED faults
       \/ Fault /\ UNCHANGED pending
    /\ UNCHANGED <<tip, omni, message, stamp, tasks, outcome>>

TipAdvances ==
    /\ tip < MaxTip /\ tip' = tip + 1
    /\ UNCHANGED <<omni, message, pending, stamp, tasks, poller, outcome, faults>>

(* The process dies: redis and the streams survive it. *)
Crash ==
    /\ Fault
    /\ tasks' = {} /\ replaying' = {} /\ published' = {}
    /\ UNCHANGED <<tip, omni, message, pending, stamp, outcome>>

Work(e, s) ==
    \/ NotSynced(e, s) \/ Verify(e, s) \/ Defer(e, s)
    \/ \E step \in Steps : Settle(e, s, step)

Next ==
    \/ \E e \in Events : IngestDefers(e) \/ IngestPublishes(e) \/ IngestedAgain(e)
    \/ \E e \in Events, s \in Stamps :
          \/ Deliver(e, s) \/ Screen(e, s) \/ NotSynced(e, s) \/ Verify(e, s)
          \/ ReceiptsFail(e, s) \/ Defer(e, s) \/ AckWaitExpires(e, s)
          \/ \E step \in Steps : Settle(e, s, step)
    \/ Poll \/ \E z \in replaying : Replay(z) \/ RemoveReplayed(z)
    \/ TipAdvances \/ Crash

Spec == Init /\ [][Next]_vars

(* tokio polls the workers and the poller, the stream delivers and its     *)
(* clock runs, the chain grows.                                            *)
FairSpec ==
    /\ Spec
    /\ WF_vars(Poll) /\ WF_vars(\E z \in replaying : Replay(z) \/ RemoveReplayed(z))
    /\ WF_vars(TipAdvances)
    /\ \A e \in Events :
          /\ WF_vars(\E s \in Stamps : Deliver(e, s) \/ AckWaitExpires(e, s))
          /\ WF_vars(\E s \in Stamps : Work(e, s))
-----------------------------------------------------------------------------
(* Transfers that reached one of the two stores. *)
Accepted == {e \in Events : \/ \E s \in Stamps : message[e][s] # "none"
                            \/ \E z \in pending : z.event = e}

(* A transfer that is neither verified nor given up is in a store: queued  *)
(* or with a worker, or waiting in the sorted set.  No crash, failed write *)
(* or duplicate on the way between the stores strands it.                  *)
NoTransferStranded ==
    \A e \in Accepted \ (verified \cup dropped) :
        \/ \E s \in Stamps : message[e][s] \in {"ready", "pending"}
        \/ \E z \in pending : z.event = e

(* The queue's promise, with the sorted set as a part of the queue: every  *)
(* transfer that reached a store is verified or given up in the end.       *)
Promise == INSTANCE TaskQueue
    WITH Produces <- [e \in Events |-> {}], accepted <- Accepted,
         relayed <- verified, givenUp <- dropped
KeepsPromise == Promise!Spec
=============================================================================
