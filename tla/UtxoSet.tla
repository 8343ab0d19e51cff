------------------------------ MODULE UtxoSet ------------------------------
(***************************************************************************)
(* The in-memory cache of the outpoints a NEAR contract holds on a UTXO    *)
(* chain, and the workers that spend them (utils/utxo.rs, workers/near.rs).*)
(*                                                                         *)
(* A worker locks the set, which first reloads it from the contract when   *)
(* the dirty flag is set, selects outpoints from it, takes them out, drops *)
(* the lock and submits.  If the submission returns an error it puts them  *)
(* back.  The light-client poller marks the set dirty when the tip moves.  *)
(* The contract is external: it spends the outpoints of a transfer once,   *)
(* if it still holds all of them.  One chain's slot is modelled; BTC and   *)
(* Zcash have one each.                                                    *)
(***************************************************************************)
EXTENDS Integers, FiniteSets

CONSTANTS Outpoints,  \* outpoints that may ever exist
          Initial,    \* those the contract holds at the start
          Transfers,  \* NEAR to UTXO transfers, one queue message each
          NoTransfer, \* nobody holds the lock
          Need,       \* outpoints a transfer spends
          MaxFaults   \* bound: failures the environment injects

ASSUME UtxoOK ==
    /\ Initial \subseteq Outpoints /\ IsFiniteSet(Outpoints)
    /\ NoTransfer \notin Transfers
    /\ Need \in Nat \ {0} /\ MaxFaults \in Nat

VARIABLES
    available, \* what the contract holds
    minted,    \* outpoints that exist
    landed,    \* transfers the contract has executed
    cache,     \* the cached set
    dirty,     \* the dirty flag
    lock,      \* who holds the mutex
    fetched,   \* the contract's answer to the lock holder's reload
    pc,        \* where each transfer's worker stands
    draft,     \* draft[t]: the outpoints t's submission spends
    taken,     \* taken[t]: those it took out of the cache
    tipMoved,  \* the tip differs from the poller's last_refreshed_tip
    contested, \* history: outpoints in flight or spent across a reload
    news,      \* history: outpoints the contract gained or kept since the reload
    faults     \* failures injected so far

contract == <<available, minted, landed>>
slot     == <<cache, dirty, lock, fetched>>
vars == <<contract, slot, pc, draft, taken, tipMoved, contested, news, faults>>

States == {"queued", "fetching", "installing", "selecting", "submitting", "receipts",
           "restoring", "restoringRpc", "marking", "gone"}

(* The type of every variable. *)
TypeOK ==
    /\ available \subseteq minted /\ minted \subseteq Outpoints
    /\ landed \subseteq Transfers
    /\ cache \subseteq minted /\ fetched \subseteq minted
    /\ dirty \in BOOLEAN /\ tipMoved \in BOOLEAN
    /\ lock \in Transfers \cup {NoTransfer}
    /\ pc \in [Transfers -> States]
    /\ draft \in [Transfers -> SUBSET minted]
    /\ taken \in [Transfers -> SUBSET minted]
    /\ \A t \in Transfers : taken[t] \subseteq draft[t]
    /\ contested \subseteq minted /\ news \subseteq minted
    /\ faults \in 0..MaxFaults

Held == UNION {draft[t] : t \in Transfers}
Refreshing == \E t \in Transfers : pc[t] \in {"fetching", "installing"}

Fault == faults < MaxFaults /\ faults' = faults + 1
Goto(t, state) == pc' = [pc EXCEPT ![t] = state]
-----------------------------------------------------------------------------
Init ==
    /\ available = Initial /\ minted = Initial /\ landed = {}
    /\ cache = {} /\ dirty = TRUE /\ lock = NoTransfer /\ fetched = {}
    /\ pc = [t \in Transfers |-> "queued"]
    /\ draft = [t \in Transfers |-> {}] /\ taken = [t \in Transfers |-> {}]
    /\ tipMoved = TRUE
    /\ contested = {} /\ news = {} /\ faults = 0
-----------------------------------------------------------------------------
(* lock: the mutex, then dirty.swap(false). *)
Lock(t) ==
    /\ pc[t] = "queued" /\ lock = NoTransfer
    /\ lock' = t /\ dirty' = FALSE
    /\ Goto(t, IF dirty THEN "fetching" ELSE "selecting")
    /\ UNCHANGED <<contract, cache, fetched, draft, taken, tipMoved, contested, news, faults>>

(* fetch: the contract answers with what it holds. *)
FetchReads(t) ==
    /\ pc[t] = "fetching"
    /\ fetched' = available /\ news' = {}
    /\ Goto(t, "installing")
    /\ UNCHANGED <<contract, cache, dirty, lock, draft, taken, tipMoved, contested, faults>>

FetchFails(t) ==
    /\ pc[t] = "fetching" /\ Fault
    /\ dirty' = TRUE
    /\ Goto(t, "selecting")
    /\ UNCHANGED <<contract, cache, lock, fetched, draft, taken, tipMoved, contested, news>>

(* The answer replaces the cache, outpoints in flight included. *)
Install(t) ==
    /\ pc[t] = "installing"
    /\ cache' = fetched /\ fetched' = {}
    /\ contested' = Held \cup (fetched \ available)
    /\ Goto(t, "selecting")
    /\ UNCHANGED <<contract, dirty, lock, draft, taken, tipMoved, news, faults>>

(* near_select_btc_utxos_draft, take_outpoints, and the lock is dropped.   *)
(* An empty snapshot makes the SDK ask the contract instead.               *)
SelectWithoutTaking(t) ==
    /\ pc[t] = "selecting"
    /\ \E d \in SUBSET cache :
          /\ Cardinality(d) = Need
          /\ draft' = [draft EXCEPT ![t] = d] /\ taken' = [taken EXCEPT ![t] = d]
    /\ lock' = NoTransfer
    /\ Goto(t, "submitting")
    /\ UNCHANGED <<contract, cache, dirty, fetched, tipMoved, contested, news, faults>>

SelectTakesAll(t) ==
    /\ pc[t] = "selecting"
    /\ \E d \in SUBSET cache :
          /\ Cardinality(d) = Need
          /\ draft' = [draft EXCEPT ![t] = d] /\ taken' = [taken EXCEPT ![t] = cache]
    /\ cache' = {} /\ lock' = NoTransfer
    /\ Goto(t, "submitting")
    /\ UNCHANGED <<contract, dirty, fetched, tipMoved, contested, news, faults>>

Select(t) ==
    /\ pc[t] = "selecting"
    /\ \E d \in SUBSET (IF cache = {} THEN available ELSE cache) :
          /\ Cardinality(d) = Need
          /\ draft' = [draft EXCEPT ![t] = d]
          /\ taken' = [taken EXCEPT ![t] = d \cap cache]
          /\ cache' = cache \ d
          /\ contested' = IF cache = {} THEN contested \cup (d \cap Held) ELSE contested
    /\ lock' = NoTransfer
    /\ Goto(t, "submitting")
    /\ UNCHANGED <<contract, dirty, fetched, tipMoved, news, faults>>

(* Too few outpoints, or the selection's own queries fail: to be retried;  *)
(* an amount below the withdrawal fee is dropped.                          *)
SelectFails(t) ==
    /\ pc[t] = "selecting"
    /\ \/ /\ Cardinality(IF cache = {} THEN available ELSE cache) < Need
          /\ Goto(t, "queued") /\ UNCHANGED <<dirty, faults>>
       \/ /\ Fault
          /\ \/ Goto(t, "queued") /\ dirty' \in {dirty, TRUE}
             \/ Goto(t, "gone") /\ UNCHANGED dirty
    /\ lock' = NoTransfer
    /\ UNCHANGED <<contract, cache, fetched, draft, taken, tipMoved, contested, news>>
-----------------------------------------------------------------------------
(* The contract executes the transfer; the caller may see an RPC error     *)
(* instead of the transaction's hash.                                      *)
Lands(t) ==
    /\ pc[t] = "submitting" /\ t \notin landed /\ draft[t] \subseteq available
    /\ available' = available \ draft[t]
    /\ landed' = landed \cup {t}
    /\ \/ Goto(t, "receipts") /\ UNCHANGED faults
       \/ Goto(t, "restoringRpc") /\ Fault
    /\ UNCHANGED <<minted, slot, draft, taken, tipMoved, contested, news>>

(* The transaction executes with a failed receipt.  A listed failure, a    *)
(* missing outpoint among them, is retried, any other dropped.  The        *)
(* outpoints are not put back: the submission returned a hash.             *)
Rejected(t) ==
    /\ pc[t] = "submitting"
    /\ \/ ~(draft[t] \subseteq available) /\ Goto(t, "queued") /\ UNCHANGED faults
       \/ t \in landed /\ (Goto(t, "queued") \/ Goto(t, "gone")) /\ UNCHANGED faults
       \/ Fault /\ (Goto(t, "queued") \/ Goto(t, "gone"))
    /\ draft' = [draft EXCEPT ![t] = {}] /\ taken' = [taken EXCEPT ![t] = {}]
    /\ news' = news \cup (draft[t] \cap available)
    /\ UNCHANGED <<contract, slot, tipMoved, contested>>

(* Building or sending fails and nothing reaches the contract. *)
SubmitErrors(t) ==
    /\ pc[t] = "submitting" /\ Fault
    /\ Goto(t, "restoring") \/ Goto(t, "restoringRpc")
    /\ UNCHANGED <<contract, slot, draft, taken, tipMoved, contested, news>>

(* resolve_tx_receipts: done, or the outcome cannot be fetched and the     *)
(* message comes again.                                                    *)
Receipts(t) ==
    /\ pc[t] = "receipts"
    /\ \/ Goto(t, "gone") /\ UNCHANGED faults
       \/ Goto(t, "queued") /\ Fault
    /\ draft' = [draft EXCEPT ![t] = {}] /\ taken' = [taken EXCEPT ![t] = {}]
    /\ UNCHANGED <<contract, slot, tipMoved, contested, news>>

(* restore_outpoints, and after an RPC error mark_dirty.  The message      *)
(* comes again.                                                            *)
RestoreNothing(t) ==
    /\ pc[t] \in {"restoring", "restoringRpc"}
    /\ draft' = [draft EXCEPT ![t] = {}] /\ taken' = [taken EXCEPT ![t] = {}]
    /\ Goto(t, IF pc[t] = "restoring" THEN "queued" ELSE "marking")
    /\ UNCHANGED <<contract, slot, tipMoved, contested, news, faults>>

RestoreUnmarked(t) ==
    /\ pc[t] \in {"restoring", "restoringRpc"}
    /\ lock = NoTransfer \/ taken[t] = {}
    /\ cache' = cache \cup taken[t]
    /\ draft' = [draft EXCEPT ![t] = {}] /\ taken' = [taken EXCEPT ![t] = {}]
    /\ Goto(t, "queued")
    /\ UNCHANGED <<contract, dirty, lock, fetched, tipMoved, contested, news, faults>>

Restore(t) ==
    /\ pc[t] \in {"restoring", "restoringRpc"}
    /\ lock = NoTransfer \/ taken[t] = {}
    /\ cache' = cache \cup taken[t]
    /\ draft' = [draft EXCEPT ![t] = {}] /\ taken' = [taken EXCEPT ![t] = {}]
    /\ Goto(t, IF pc[t] = "restoring" THEN "queued" ELSE "marking")
    /\ UNCHANGED <<contract, dirty, lock, fetched, tipMoved, contested, news, faults>>

MarkDirty(t) ==
    /\ pc[t] = "marking"
    /\ dirty' = TRUE
    /\ Goto(t, "queued")
    /\ UNCHANGED <<contract, cache, lock, fetched, draft, taken, tipMoved, contested, news, faults>>
-----------------------------------------------------------------------------
(* The light client's tip moves; the poller sees it and marks the set.     *)
TipAdvances ==
    /\ tipMoved' = TRUE
    /\ UNCHANGED <<contract, slot, pc, draft, taken, contested, news, faults>>

PollIgnoresTip ==
    /\ tipMoved
    /\ tipMoved' = FALSE
    /\ UNCHANGED <<contract, slot, pc, draft, taken, contested, news, faults>>

Poll ==
    /\ tipMoved
    /\ tipMoved' = FALSE /\ dirty' = TRUE
    /\ UNCHANGED <<contract, cache, lock, fetched, pc, draft, taken, contested, news, faults>>

(* A deposit or a change output is verified and becomes the contract's. *)
Deposit(o) ==
    /\ o \in Outpoints \ minted
    /\ minted' = minted \cup {o} /\ available' = available \cup {o}
    /\ news' = news \cup {o}
    /\ UNCHANGED <<landed, slot, pc, draft, taken, tipMoved, contested, faults>>

(* active_utxo_management merges outpoints chosen from the contract's own  *)
(* list; the set is neither locked nor marked.                             *)
Merge ==
    /\ Fault
    /\ \E d \in SUBSET available :
          /\ Cardinality(d) = 2
          /\ available' = available \ d
          /\ contested' = contested \cup (d \cap (cache \cup fetched \cup Held))
    /\ UNCHANGED <<minted, landed, slot, pc, draft, taken, tipMoved, news>>

Proceed(t) ==
    \/ FetchReads(t) \/ Install(t) \/ Select(t) \/ SelectFails(t)
    \/ Lands(t) \/ Rejected(t) \/ Receipts(t) \/ MarkDirty(t)

Next ==
    \/ \E t \in Transfers : Lock(t) \/ FetchReads(t) \/ FetchFails(t) \/ Install(t)
    \/ \E t \in Transfers : Select(t) \/ SelectFails(t)
    \/ \E t \in Transfers : Lands(t) \/ Rejected(t) \/ SubmitErrors(t) \/ Receipts(t)
    \/ \E t \in Transfers : Restore(t) \/ MarkDirty(t)
    \/ TipAdvances \/ Poll
    \/ \E o \in Outpoints : Deposit(o)
    \/ Merge

Spec == Init /\ [][Next]_vars

(* tokio runs every task, its mutex is served in order of arrival, the     *)
(* chain grows and the poller polls.                                       *)
FairSpec ==
    /\ Spec
    /\ \A t \in Transfers :
          WF_vars(Proceed(t)) /\ SF_vars(Lock(t)) /\ SF_vars(Restore(t))
    /\ WF_vars(TipAdvances) /\ WF_vars(Poll)
-----------------------------------------------------------------------------
(* Two submissions never spend the same outpoint, unless the contract was  *)
(* asked for its outpoints while the first was in flight (by a reload, or  *)
(* by a selection on an empty cache), or the active manager spent it.      *)
NoDoubleSelection ==
    \A t, u \in Transfers : t # u => draft[t] \cap draft[u] \subseteq contested

(* A cached outpoint that the contract does not hold is contested, or the  *)
(* set is about to be reloaded: a submission that landed in spite of its   *)
(* error does not leave its outpoints behind for good.  An outpoint in     *)
(* flight across a reload is not covered: its holder puts it back blindly. *)
PhantomsAreFlagged ==
    \A o \in cache \ available :
        \/ o \in contested
        \/ dirty \/ Refreshing
        \/ \E t \in Transfers : pc[t] = "marking"

(* No outpoint of the contract falls out of the cache: it is cached, in    *)
(* flight, about to be reloaded, or it came or came free after the reload  *)
(* and waits for the next tip.                                             *)
NoOutpointForgotten ==
    available \ cache \subseteq Held \cup news \/ dirty \/ Refreshing

(* Every transfer gets executed or is dropped, unless the contract runs    *)
(* short of outpoints again and again: a stale cache delays a transfer     *)
(* until the next tip, no longer.                                          *)
EveryTransferLands ==
    \A t \in Transfers :
        \/ <>(t \in landed \/ pc[t] = "gone")
        \/ []<>(Cardinality(available) < Need)
=============================================================================
