------------------------------ MODULE EvmNonce ------------------------------
(***************************************************************************)
(* How the worker pool hands out EVM transaction nonces.                   *)
(*                                                                         *)
(* One NonceManager per EVM chain keeps the next nonce in memory           *)
(* (utils/nonce.rs).  The dispatcher loop of workers/mod.rs takes one      *)
(* queue message at a time; when is_evm_nonce_resync_needed is set it      *)
(* first re-reads every chain's transaction count, one chain after the     *)
(* other, and clears the flag.  Then it spawns a worker task.  A task      *)
(* reserves a nonce and submits a transaction with it; a task that ends    *)
(* in a retry sets the flag.  Tasks run while the dispatcher resyncs.      *)
(*                                                                         *)
(* Chains are numbered in the order resync_nonces visits them.  A chain    *)
(* is what the node's transaction pool shows of it: how many transactions  *)
(* of the relayer are mined and which nonces wait in the pool.             *)
(***************************************************************************)
EXTENDS Integers, FiniteSets

CONSTANTS Msgs,       \* queue messages that end in an EVM transaction
          NoMsg,      \* the dispatcher holds no message
          NumChains,  \* number of configured EVM chains
          ChainOf,    \* the destination chain of each message
          AlreadySent,\* transactions the account sent on each chain before
          WorkerCount,\* relayer_consumer.worker_count, the semaphore's permits
          MaxNonce,   \* bound: no nonce above it is handed out
          MaxFaults   \* bound: failures the environment injects

Chains == 1..NumChains

ASSUME ConstantsOK ==
    /\ NoMsg \notin Msgs
    /\ NumChains \in Nat \ {0}
    /\ ChainOf \in [Msgs -> Chains]
    /\ AlreadySent \in [Chains -> Nat]
    /\ WorkerCount \in Nat \ {0}
    /\ MaxNonce \in Nat
    /\ MaxFaults \in Nat

NoNonce == -1

VARIABLES
    nonce,         \* nonce[c]: the counter of c's NonceManager
    resyncNeeded,  \* is_evm_nonce_resync_needed
    pc,            \* where the dispatcher loop stands
    held,          \* the message the dispatcher holds
    at,            \* the chain resync_nonces is working on
    got,           \* the transaction count it read for that chain
    task,          \* task[m]: progress of message m
    mine,          \* mine[m]: the nonce m's task reserved in this delivery
    mined,         \* mined[c]: transactions of the relayer mined on c
    pool,          \* pool[c]: nonces waiting in c's transaction pool
    faults,        \* failures injected so far
    synced,        \* history: chains whose counter was read since the start
    fresh,         \* history: tasks whose nonce postdates the last resync write
    excused        \* history: excused[c]: nonces burned without a resync to follow

dispatcher == <<pc, held, at, got>>
chain      == <<mined, pool>>
history    == <<synced, fresh, excused>>
vars == <<nonce, resyncNeeded, dispatcher, task, mine, chain, faults, history>>

DispatcherStates == {"next", "read", "write", "clear", "permit"}
TaskStates == {"queued", "held", "started", "reserved", "retry", "nak",
               "remove", "drop", "gone"}

CounterTypeOK ==
    /\ nonce \in [Chains -> Nat]
    /\ resyncNeeded \in BOOLEAN

DispatcherTypeOK ==
    /\ pc \in DispatcherStates
    /\ held \in Msgs \cup {NoMsg}
    /\ at \in Chains
    /\ got \in Nat

TaskTypeOK ==
    /\ task \in [Msgs -> TaskStates]
    /\ mine \in [Msgs -> Nat \cup {NoNonce}]
    /\ \A m \in Msgs : task[m] = "reserved" => mine[m] # NoNonce
    /\ faults \in 0..MaxFaults

ChainTypeOK ==
    /\ mined \in [Chains -> Nat]
    /\ pool \in [Chains -> SUBSET Nat]

HistoryTypeOK ==
    /\ synced \in SUBSET Chains
    /\ fresh \in SUBSET Msgs
    /\ excused \in [Chains -> SUBSET Nat]

(* The type of every variable. *)
TypeOK ==
    CounterTypeOK /\ DispatcherTypeOK /\ TaskTypeOK /\ ChainTypeOK /\ HistoryTypeOK

(* A worker holds its semaphore permit from the spawn to its last ack. *)
Busy == {m \in Msgs : task[m] \in {"started", "reserved", "retry", "nak",
                                   "remove", "drop"}}

(* Nonces of c handed out, neither on the chain nor with a task that may   *)
(* still submit them: every later transaction of c queues behind one.      *)
Holes(c) == {k \in mined[c]..(nonce[c] - 1) :
                /\ k \notin pool[c]
                /\ \A m \in Msgs : task[m] = "reserved" /\ ChainOf[m] = c => mine[m] # k}

(* eth_getTransactionCount at "pending": the first nonce the pool lacks. *)
IsTransactionCount(c, k) ==
    /\ k >= mined[c]
    /\ k \notin pool[c]
    /\ \A j \in mined[c]..(k - 1) : j \in pool[c]

Fault == faults < MaxFaults /\ faults' = faults + 1
-----------------------------------------------------------------------------
(* process_events creates the managers at 0 and the flag at true.  The     *)
(* relayer's account may have sent transactions before.                    *)
Init ==
    /\ nonce = [c \in Chains |-> 0]
    /\ resyncNeeded = TRUE
    /\ pc = "next" /\ held = NoMsg /\ at = 1 /\ got = 0
    /\ task = [m \in Msgs |-> "queued"]
    /\ mine = [m \in Msgs |-> NoNonce]
    /\ mined = AlreadySent
    /\ pool = [c \in Chains |-> {}]
    /\ faults = 0
    /\ synced = {} /\ fresh = {}
    /\ excused = [c \in Chains |-> {}]
-----------------------------------------------------------------------------
(* The dispatcher takes the next message and looks at the flag. *)
NextMessage(m) ==
    /\ pc = "next" /\ task[m] = "queued"
    /\ held' = m
    /\ task' = [task EXCEPT ![m] = "held"]
    /\ pc' = IF resyncNeeded THEN "read" ELSE "permit"
    /\ at' = 1
    /\ UNCHANGED <<nonce, resyncNeeded, got, mine, chain, faults, history>>

(* resync_nonce, first half: the awaited RPC. *)
ReadCountStale ==
    /\ pc = "read"
    /\ got' = mined[at] - 1
    /\ pc' = "write"
    /\ UNCHANGED <<nonce, resyncNeeded, held, at, task, mine, chain, faults, history>>

ReadCount ==
    /\ pc = "read"
    /\ \E k \in 0..MaxNonce : IsTransactionCount(at, k) /\ got' = k
    /\ pc' = "write"
    /\ UNCHANGED <<nonce, resyncNeeded, held, at, task, mine, chain, faults, history>>

(* The RPC fails: the chains before this one keep their new counters, the  *)
(* flag stays set, the message is left unacknowledged and comes back.      *)
ReadFailsAndProceeds ==
    /\ pc = "read" /\ Fault
    /\ pc' = "clear"
    /\ UNCHANGED <<nonce, resyncNeeded, held, at, got, task, mine, chain, history>>

ReadFailsAndForgets ==
    /\ pc = "read" /\ Fault
    /\ pc' = "next" /\ held' = NoMsg
    /\ UNCHANGED <<nonce, resyncNeeded, at, got, task, mine, chain, history>>

ReadFails ==
    /\ pc = "read" /\ Fault
    /\ pc' = "next" /\ held' = NoMsg
    /\ task' = [task EXCEPT ![held] = "queued"]
    /\ UNCHANGED <<nonce, resyncNeeded, at, got, mine, chain, history>>

(* resync_nonce, second half: the counter becomes what was read, whatever  *)
(* the tasks reserved in between.                                          *)
WriteCount ==
    /\ pc = "write"
    /\ nonce' = [nonce EXCEPT ![at] = got]
    /\ IF at < NumChains THEN at' = at + 1 /\ pc' = "read"
                         ELSE at' = at /\ pc' = "clear"
    /\ got' = 0
    /\ synced' = synced \cup {at}
    /\ fresh' = {m \in fresh : ChainOf[m] # at}
    /\ excused' = [excused EXCEPT ![at] = {k \in @ : k < got}]
    /\ UNCHANGED <<resyncNeeded, held, task, mine, chain, faults>>

ClearFlag ==
    /\ pc = "clear"
    /\ resyncNeeded' = FALSE
    /\ pc' = "permit"
    /\ UNCHANGED <<nonce, held, at, got, task, mine, chain, faults, history>>

(* A free permit: the message goes to a task of its own. *)
Spawn ==
    /\ pc = "permit"
    /\ Cardinality(Busy) < WorkerCount
    /\ task' = [task EXCEPT ![held] = "started"]
    /\ pc' = "next" /\ held' = NoMsg
    /\ UNCHANGED <<nonce, resyncNeeded, at, got, mine, chain, faults, history>>
-----------------------------------------------------------------------------
(* The checks ahead of the reservation (finalised, allowlist, fee) give    *)
(* up, find nothing left to do or, on a failed lookup, ask for a retry.    *)
Screen(m) ==
    /\ task[m] = "started"
    /\ \/ /\ \E end \in {"drop", "remove"} : task' = [task EXCEPT ![m] = end]
          /\ UNCHANGED faults
       \/ task' = [task EXCEPT ![m] = "retry"] /\ Fault
    /\ UNCHANGED <<nonce, resyncNeeded, dispatcher, mine, chain, history>>

(* reserve_nonce, under the counter's mutex. *)
ReserveNoAdvance(m) ==
    LET c == ChainOf[m] IN
    /\ task[m] = "started"
    /\ nonce[c] < MaxNonce
    /\ mine' = [mine EXCEPT ![m] = nonce[c]]
    /\ fresh' = fresh \cup {m}
    /\ task' = [task EXCEPT ![m] = "reserved"]
    /\ UNCHANGED <<nonce, resyncNeeded, dispatcher, chain, faults, synced, excused>>

Reserve(m) ==
    LET c == ChainOf[m] IN
    /\ task[m] = "started"
    /\ nonce[c] < MaxNonce
    /\ mine' = [mine EXCEPT ![m] = nonce[c]]
    /\ nonce' = [nonce EXCEPT ![c] = @ + 1]
    /\ fresh' = fresh \cup {m}
    /\ task' = [task EXCEPT ![m] = "reserved"]
    /\ UNCHANGED <<resyncNeeded, dispatcher, chain, faults, synced, excused>>

Usable(m) == mine[m] >= mined[ChainOf[m]] /\ mine[m] \notin pool[ChainOf[m]]

(* The node takes the transaction; its answer may be lost on the way back. *)
SubmitAccepted(m) ==
    LET c == ChainOf[m] IN
    /\ task[m] = "reserved" /\ Usable(m)
    /\ pool' = [pool EXCEPT ![c] = @ \cup {mine[m]}]
    /\ \/ task' = [task EXCEPT ![m] = "remove"] /\ UNCHANGED faults
       \/ task' = [task EXCEPT ![m] = "retry"] /\ Fault
    /\ UNCHANGED <<nonce, resyncNeeded, dispatcher, mine, mined, history>>

(* Nothing is sent: the node refuses a used nonce, or the call fails.      *)
(* Both are errors the worker retries.                                     *)
SubmitFails(m) ==
    /\ task[m] = "reserved"
    /\ \/ ~Usable(m) /\ UNCHANGED faults
       \/ Usable(m) /\ Fault
    /\ task' = [task EXCEPT ![m] = "retry"]
    /\ UNCHANGED <<nonce, resyncNeeded, dispatcher, mine, chain, history>>

(* Gas estimation or the submission reports a permanent revert: the event  *)
(* is dropped, and the reserved nonce with it.                             *)
SubmitReverts(m) ==
    LET c == ChainOf[m] IN
    /\ task[m] = "reserved"
    /\ task' = [task EXCEPT ![m] = "drop"]
    /\ excused' = [excused EXCEPT ![c] = @ \cup {mine[m]}]
    /\ UNCHANGED <<nonce, resyncNeeded, dispatcher, mine, chain, faults, synced, fresh>>

(* The pass of resync_nonces under way has rewritten the counter of c, and *)
(* will clear the flag at its end.                                         *)
AlreadyRewritten(c) ==
    \/ pc = "clear"
    \/ pc \in {"read", "write"} /\ c < at

(* A task that ends in a retry asks for a resync, whether or not it        *)
(* reserved a nonce.  The request is lost when a resync already past this  *)
(* chain clears the flag afterwards.                                       *)
RequestForgotten(m) ==
    /\ task[m] = "retry"
    /\ task' = [task EXCEPT ![m] = "nak"]
    /\ UNCHANGED <<nonce, resyncNeeded, dispatcher, mine, chain, faults, history>>

RequestResync(m) ==
    LET c == ChainOf[m] IN
    /\ task[m] = "retry"
    /\ resyncNeeded' = TRUE
    /\ task' = [task EXCEPT ![m] = "nak"]
    /\ excused' = IF AlreadyRewritten(c) /\ mine[m] # NoNonce
                  THEN [excused EXCEPT ![c] = @ \cup {mine[m]}]
                  ELSE excused
    /\ UNCHANGED <<nonce, dispatcher, mine, chain, faults, synced, fresh>>

(* The acknowledgement: a nak brings the message back, or ends it when it  *)
(* is past its maximum age; an ack ends it, unless it does not reach the   *)
(* server.                                                                 *)
Settle(m) ==
    /\ \/ /\ task[m] = "nak"
          /\ \E t \in {"queued", "gone"} : task' = [task EXCEPT ![m] = t]
          /\ UNCHANGED faults
       \/ /\ task[m] \in {"remove", "drop"}
          /\ \/ task' = [task EXCEPT ![m] = "gone"] /\ UNCHANGED faults
             \/ task' = [task EXCEPT ![m] = "queued"] /\ Fault
    /\ mine' = [mine EXCEPT ![m] = NoNonce]
    /\ fresh' = fresh \ {m}
    /\ UNCHANGED <<nonce, resyncNeeded, dispatcher, chain, synced, excused>>
-----------------------------------------------------------------------------
(* The chain: the next nonce in the pool is mined, a pooled transaction is *)
(* evicted.                                                                *)
Mine(c) ==
    /\ mined[c] \in pool[c]
    /\ mined' = [mined EXCEPT ![c] = @ + 1]
    /\ pool' = [pool EXCEPT ![c] = @ \ {mined[c]}]
    /\ UNCHANGED <<nonce, resyncNeeded, dispatcher, task, mine, faults, history>>

Evict(c) ==
    /\ Fault
    /\ \E k \in pool[c] :
          /\ pool' = [pool EXCEPT ![c] = @ \ {k}]
          /\ excused' = [excused EXCEPT ![c] = @ \cup {k}]
    /\ UNCHANGED <<nonce, resyncNeeded, dispatcher, task, mine, mined, synced, fresh>>

(* The process dies and restarts: everything in memory starts over, every  *)
(* message not yet acknowledged is delivered again.                        *)
Crash ==
    /\ Fault
    /\ nonce' = [c \in Chains |-> 0]
    /\ resyncNeeded' = TRUE
    /\ pc' = "next" /\ held' = NoMsg /\ at' = 1 /\ got' = 0
    /\ task' = [m \in Msgs |-> IF task[m] = "gone" THEN "gone" ELSE "queued"]
    /\ mine' = [m \in Msgs |-> NoNonce]
    /\ synced' = {} /\ fresh' = {}
    /\ excused' = [c \in Chains |-> {}]
    /\ UNCHANGED chain

Dispatch == ReadCount \/ WriteCount \/ ClearFlag \/ Spawn \/ \E m \in Msgs : NextMessage(m)
Work(m) ==
    \/ Reserve(m) \/ SubmitAccepted(m) \/ SubmitFails(m)
    \/ RequestResync(m) \/ Settle(m)

Next ==
    \/ \E m \in Msgs : NextMessage(m)
    \/ ReadCount \/ ReadFails \/ WriteCount \/ ClearFlag \/ Spawn
    \/ \E m \in Msgs : Screen(m) \/ Reserve(m)
    \/ \E m \in Msgs : SubmitAccepted(m) \/ SubmitFails(m) \/ SubmitReverts(m)
    \/ \E m \in Msgs : RequestResync(m) \/ Settle(m)
    \/ \E c \in Chains : Mine(c) \/ Evict(c)
    \/ Crash

Spec == Init /\ [][Next]_vars

(* tokio keeps polling the dispatcher and every spawned task, and a nak'd  *)
(* or unacknowledged message is delivered again.                           *)
FairSpec ==
    /\ Spec
    /\ WF_vars(Dispatch)
    /\ \A m \in Msgs : WF_vars(Work(m))
-----------------------------------------------------------------------------
(* No two tasks that reserved on one chain since its last resync hold the  *)
(* same nonce: a duplicate can come from a resync only, never from the     *)
(* mutex-guarded counter.                                                  *)
UniqueSinceResync ==
    \A m, n \in fresh : m # n /\ ChainOf[m] = ChainOf[n] => mine[m] # mine[n]

(* No task reserves a nonce from a counter that was not read from its      *)
(* chain since the process started: the first message waits for a resync   *)
(* of every chain, and a pass that failed half way does not count.         *)
ReservedFromSyncedCounter ==
    \A m \in Msgs : task[m] \in {"started", "reserved"} => synced = Chains

(* A nonce that was handed out and will never be submitted is closed by a  *)
(* resync still to come, except after a drop past the reservation, an      *)
(* eviction, or a request that a resync already past the chain wiped out:  *)
(* those are the only ways the relayer leaves a lasting gap.               *)
HolesAccounted ==
    \A c \in Chains : \A k \in Holes(c) :
        \/ k \in excused[c]
        \/ resyncNeeded
        \/ \E m \in Msgs : ChainOf[m] = c /\ task[m] = "retry" /\ mine[m] = k

(* Once failures stop, every message leaves the queue: a resync that fails *)
(* keeps the message it was called for, a counter behind the chain costs   *)
(* retries only, and no task keeps its permit.                             *)
EveryMessageLeaves == \A m \in Msgs : <>(task[m] = "gone")
-----------------------------------------------------------------------------
(* The inductive invariants behind the three safety properties. *)
UniqueInv ==
    /\ UniqueSinceResync
    /\ \A m \in fresh : mine[m] # NoNonce /\ mine[m] < nonce[ChainOf[m]]

SyncInv ==
    /\ ~resyncNeeded => synced = Chains
    /\ pc \in {"clear", "permit"} => synced = Chains
    /\ pc \in {"read", "write"} => 1..(at - 1) \subseteq synced
    /\ ReservedFromSyncedCounter

(* What resync_nonce read is still no further than the chain has got,      *)
(* evictions apart.                                                        *)
CountReadInv ==
    pc = "write" => \A j \in mined[at]..(got - 1) : j \in pool[at] \cup excused[at]

(* The dispatcher's message is not yet a task. *)
HeldInv == pc # "next" => held \in Msgs /\ task[held] = "held"

AwaitsResync(c, k) ==
    \/ k \in excused[c]
    \/ resyncNeeded /\ ~AlreadyRewritten(c)
    \/ \E m \in Msgs : ChainOf[m] = c /\ task[m] = "retry" /\ mine[m] = k

HolesInv == \A c \in Chains : \A k \in Holes(c) : AwaitsResync(c, k)

HolesIInv == HeldInv /\ CountReadInv /\ HolesInv
=============================================================================
