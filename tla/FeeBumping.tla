---------------------------- MODULE FeeBumping ----------------------------
(***************************************************************************)
(* Pending EVM transactions: tracked, replaced at a higher fee, replayed   *)
(* (startup/evm_fee_bumping.rs, utils/pending_transactions.rs, the end of  *)
(* workers/near.rs process_sign_transfer_event).                           *)
(*                                                                         *)
(* A worker that submitted a transaction stores it in a redis sorted set   *)
(* scored by its nonce.  The fee bumper looks at the first entry only: an  *)
(* included transaction is removed, a missing one has its source event     *)
(* published again, a pending one is replaced under the same nonce at a    *)
(* higher fee; then the set's entry is swapped in two steps, zrem and      *)
(* zadd.  One chain is modelled.  Fees are compared only, so one number    *)
(* stands for both fee fields; a transaction's hash is its attempt number, *)
(* as the fees of each attempt come from the current block.                *)
(***************************************************************************)
EXTENDS Integers, FiniteSets

CONSTANTS Transfers, \* transfers to this chain
          Nobody,    \* the bumper looks at no entry
          FeeCap,    \* fee_bumping.max_fee_in_wei
          MinRaise,  \* fee_bumping.min_fee_increase_percent, as a difference
          MaxNonce,  \* bound: no nonce above it is used
          MaxSends,  \* bound: transactions sent for one transfer
          MaxMoves,  \* bound: changes of the market fee
          MaxFaults  \* bound: failures the environment injects

ASSUME FeeBumpingOK ==
    /\ FeeCap \in Nat \ {0} /\ MinRaise \in Nat \ {0}
    /\ MaxNonce \in Nat /\ MaxSends \in Nat \ {0} /\ MaxMoves \in Nat /\ MaxFaults \in Nat
    /\ Nobody \notin [of: Transfers, n: 1..MaxSends, nonce: 0..MaxNonce, fee: 1..FeeCap]

Tx == [of: Transfers, n: 1..MaxSends, nonce: 0..MaxNonce, fee: 1..FeeCap]
Message == [of: Transfers, origin: 0..MaxSends]

VARIABLES
    queue,     \* source events in the RELAYER stream
    published, \* message ids the stream has stored before
    active,    \* tasks between a submission and its zadd: message, transaction
    next,      \* the NonceManager's counter
    sends,     \* sends[t]: transactions sent for t so far
    tracked,   \* the sorted set of pending transactions
    step,      \* where the bumper stands
    entry,     \* the entry it holds
    sent,      \* the replacement it sent
    pool,      \* transactions in the node's pool
    mined,     \* transactions included in a block
    market,    \* the fee a block asks for, and the node suggests
    moves,     \* changes of the market so far
    untracked, \* history: transfers whose entry a crash or a failed write lost
    faults     \* failures injected so far

workers == <<queue, published, active, next>>
bumper  == <<step, entry, sent>>
chain   == <<pool, mined>>
env     == <<market, moves>>
vars == <<workers, sends, tracked, bumper, chain, env, untracked, faults>>

Steps == {"look", "pending", "missing", "remove", "swap", "track"}
OneOf(txs) == \A x, y \in txs : x.nonce = y.nonce => x = y

(* The type of every variable; a nonce is in the pool or in a block once.  *)
TypeOK ==
    /\ queue \subseteq Message /\ published \subseteq Message
    /\ \A a \in active : a.msg \in Message /\ a.tx \in Tx
    /\ next \in 0..(MaxNonce + 1)
    /\ sends \in [Transfers -> 0..MaxSends]
    /\ tracked \subseteq Tx
    /\ step \in Steps
    /\ entry \in Tx \cup {Nobody} /\ sent \in Tx \cup {Nobody}
    /\ pool \subseteq Tx /\ mined \subseteq Tx /\ OneOf(pool \cup mined)
    /\ market \in 1..FeeCap /\ moves \in 0..MaxMoves
    /\ untracked \subseteq Transfers
    /\ faults \in 0..MaxFaults

Height == Cardinality(mined)
Nonces(txs) == {x.nonce : x \in txs}
Taken == Nonces(pool \cup mined)
TransactionCount(txs) ==
    CHOOSE k \in 0..(MaxNonce + 1) : k \notin Nonces(txs) /\ 0..(k - 1) \subseteq Nonces(txs)
Finalised(t) == \E x \in mined : x.of = t
Fault == faults < MaxFaults /\ faults' = faults + 1
-----------------------------------------------------------------------------
Init ==
    /\ queue = [of: Transfers, origin: {0}] /\ published = queue
    /\ active = {} /\ next = 0 /\ sends = [t \in Transfers |-> 0]
    /\ tracked = {} /\ step = "look" /\ entry = Nobody /\ sent = Nobody
    /\ pool = {} /\ mined = {} /\ market \in 1..FeeCap /\ moves = 0
    /\ untracked = {} /\ faults = 0
-----------------------------------------------------------------------------
(* The worker finds the transfer finalised on the destination chain. *)
Screen(m) ==
    /\ m \in queue /\ Finalised(m.of)
    /\ queue' = queue \ {m}
    /\ UNCHANGED <<published, active, next, sends, tracked, bumper, chain, env, untracked, faults>>

NewTx(t, nonce, fee) == [of |-> t, n |-> sends[t] + 1, nonce |-> nonce, fee |-> fee]
Counted(t) == sends[t] < MaxSends /\ sends' = [sends EXCEPT ![t] = @ + 1]

(* It reserves a nonce and submits at the market fee.  An answer that is   *)
(* lost is a retry: the counter is read again before the next message.     *)
Submit(m) ==
    LET x == NewTx(m.of, next, market) IN
    /\ m \in queue /\ ~Finalised(m.of)
    /\ next <= MaxNonce /\ next \notin Taken
    /\ Counted(m.of)
    /\ pool' = pool \cup {x}
    /\ \/ /\ queue' = queue \ {m} /\ active' = active \cup {[msg |-> m, tx |-> x]}
          /\ next' = next + 1 /\ UNCHANGED faults
       \/ /\ Fault /\ next' = TransactionCount(mined \cup pool \cup {x}) /\ UNCHANGED <<queue, active>>
    /\ UNCHANGED <<published, tracked, bumper, mined, env, untracked>>

(* The node refuses a used nonce or the call fails: a retry as well. *)
SubmitFails(m) ==
    /\ m \in queue /\ ~Finalised(m.of)
    /\ \/ next \in Taken /\ UNCHANGED faults
       \/ Fault
    /\ next' = TransactionCount(pool \cup mined)
    /\ UNCHANGED <<queue, published, active, sends, tracked, bumper, chain, env, untracked>>

(* store_pending_transaction ignores a failed zadd.  The acknowledgement   *)
(* follows; one that does not land brings the event back.                  *)
Store(a) ==
    /\ a \in active
    /\ active' = active \ {a}
    /\ \/ /\ tracked' = tracked \cup {a.tx}
          /\ \/ UNCHANGED <<queue, faults>>
             \/ Fault /\ queue' = queue \cup {a.msg}
          /\ UNCHANGED untracked
       \/ /\ Fault /\ untracked' = untracked \cup {a.tx.of}
          /\ UNCHANGED <<queue, tracked>>
    /\ UNCHANGED <<published, next, sends, bumper, chain, env>>
-----------------------------------------------------------------------------
(* zrange 0 0: the entry with the lowest nonce; then the node is asked for *)
(* its transaction.                                                        *)
LookLast ==
    /\ step = "look"
    /\ \E x \in tracked :
          /\ \A y \in tracked : y.nonce <= x.nonce
          /\ entry' = x
          /\ step' = CASE x \in mined -> "remove" [] x \in pool -> "pending"
                       [] OTHER -> "missing"
    /\ UNCHANGED <<workers, sends, tracked, sent, chain, env, untracked, faults>>

Look ==
    /\ step = "look"
    /\ \E x \in tracked :
          /\ \A y \in tracked : x.nonce <= y.nonce
          /\ entry' = x
          /\ step' = CASE x \in mined -> "remove" [] x \in pool -> "pending"
                       [] OTHER -> "missing"
    /\ UNCHANGED <<workers, sends, tracked, sent, chain, env, untracked, faults>>

BackToLook == step' = "look" /\ entry' = Nobody /\ sent' = Nobody

(* zrem of an included or a replayed transaction; a failure is logged. *)
Remove ==
    /\ step = "remove"
    /\ \/ tracked' = tracked \ {entry} /\ UNCHANGED faults
       \/ Fault /\ UNCHANGED tracked
    /\ BackToLook
    /\ UNCHANGED <<workers, sends, chain, env, untracked>>

(* Missing: the source event is published under the hash.  The server      *)
(* discards it if it remembers the id.  A failed publication ends the      *)
(* process (Crash).                                                        *)
ReplayNothing ==
    /\ step = "missing" /\ step' = "remove"
    /\ UNCHANGED <<workers, sends, tracked, entry, sent, chain, env, untracked, faults>>

Replay ==
    /\ step = "missing"
    /\ LET m == [of |-> entry.of, origin |-> entry.n] IN
       /\ \/ queue' = queue \cup {m}
          \/ m \in published /\ UNCHANGED queue
       /\ published' = published \cup {m}
    /\ step' = "remove"
    /\ UNCHANGED <<active, next, sends, tracked, entry, sent, chain, env, untracked, faults>>

(* should_bump: the suggestion is not below the old fee, and the fee       *)
(* raised by the minimum, or the suggestion, is within the cap.            *)
MaxOf(a, b) == IF a >= b THEN a ELSE b
Bumped == MaxOf(entry.fee + MinRaise, market)
ShouldBumpUncapped == market >= entry.fee
ShouldBump == market >= entry.fee /\ Bumped <= FeeCap

NoBump ==
    /\ step = "pending" /\ ~ShouldBump
    /\ BackToLook
    /\ UNCHANGED <<workers, sends, tracked, chain, env, untracked, faults>>

(* The replacement, with the nonce of the old transaction: the node takes  *)
(* it unless that nonce has been included.  Its answer may be lost.        *)
Replaced(nonce) == {x \in pool : x.nonce = nonce}

BumpWithFreshNonce ==
    LET y == NewTx(entry.of, next, Bumped) IN
    /\ step = "pending" /\ ShouldBump
    /\ Counted(entry.of) /\ next <= MaxNonce /\ next \notin Taken
    /\ pool' = pool \cup {y} /\ next' = next + 1
    /\ sent' = y /\ step' = "swap"
    /\ UNCHANGED <<queue, published, active, tracked, entry, mined, env, untracked, faults>>

Bump ==
    LET y == NewTx(entry.of, entry.nonce, Bumped) IN
    /\ step = "pending" /\ ShouldBump
    /\ Counted(entry.of) /\ \A x \in mined : x.nonce # entry.nonce
    /\ pool' = (pool \ Replaced(entry.nonce)) \cup {y}
    /\ \/ sent' = y /\ step' = "swap" /\ UNCHANGED <<entry, faults>>
       \/ Fault /\ BackToLook
    /\ UNCHANGED <<workers, tracked, mined, env, untracked>>

BumpFails ==
    /\ step = "pending" /\ ShouldBump
    /\ \/ (\E x \in mined : x.nonce = entry.nonce) /\ UNCHANGED faults
       \/ Fault
    /\ BackToLook
    /\ UNCHANGED <<workers, sends, tracked, chain, env, untracked>>

(* zrem of the replaced entry ... *)
Swap ==
    /\ step = "swap" /\ step' = "track"
    /\ \/ tracked' = tracked \ {entry} /\ UNCHANGED faults
       \/ Fault /\ UNCHANGED tracked
    /\ UNCHANGED <<workers, sends, entry, sent, chain, env, untracked>>

(* ... and zadd of the replacement, whose failure is ignored. *)
Track ==
    /\ step = "track"
    /\ \/ tracked' = tracked \cup {sent} /\ UNCHANGED <<untracked, faults>>
       \/ Fault /\ untracked' = untracked \cup {sent.of} /\ UNCHANGED tracked
    /\ BackToLook
    /\ UNCHANGED <<workers, sends, chain, env>>
-----------------------------------------------------------------------------
(* The chain includes the transaction whose turn it is, if it pays enough; *)
(* a transaction is evicted; the fee a block asks for changes.             *)
Mine ==
    /\ \E x \in pool :
          /\ x.nonce = Height /\ x.fee >= market
          /\ pool' = pool \ {x} /\ mined' = mined \cup {x}
    /\ UNCHANGED <<workers, sends, tracked, bumper, env, untracked, faults>>

Evict ==
    /\ Fault
    /\ \E x \in pool : pool' = pool \ {x}
    /\ UNCHANGED <<workers, sends, tracked, bumper, mined, env, untracked>>

MarketMoves ==
    /\ moves < MaxMoves /\ moves' = moves + 1
    /\ market' \in (1..FeeCap) \ {market}
    /\ UNCHANGED <<workers, sends, tracked, bumper, chain, untracked, faults>>

(* The process dies: redis and the stream survive it, unacknowledged       *)
(* events come back, the counter is read again.                            *)
Crash ==
    /\ Fault
    /\ queue' = queue \cup {a.msg : a \in active} /\ active' = {}
    /\ next' = TransactionCount(pool \cup mined)
    /\ BackToLook
    /\ untracked' = IF step = "track" THEN untracked \cup {sent.of} ELSE untracked
    /\ UNCHANGED <<published, sends, tracked, chain, env>>

Bumping == Look \/ Remove \/ Replay \/ NoBump \/ Bump \/ BumpFails \/ Swap \/ Track

Next ==
    \/ \E m \in queue : Screen(m) \/ Submit(m) \/ SubmitFails(m)
    \/ \E a \in active : Store(a)
    \/ Look \/ Remove \/ Replay \/ NoBump \/ Bump \/ BumpFails \/ Swap \/ Track
    \/ Mine \/ Evict \/ MarketMoves \/ Crash

Spec == Init /\ [][Next]_vars

(* tokio runs the bumper and the tasks, the stream delivers, blocks are    *)
(* produced.                                                               *)
FairSpec ==
    /\ Spec
    /\ WF_vars(Bumping) /\ WF_vars(Mine)
    /\ WF_vars(\E a \in active : Store(a))
    /\ \A m \in Message : WF_vars(m \in queue /\ (Screen(m) \/ Submit(m) \/ SubmitFails(m)))
-----------------------------------------------------------------------------
(* The transactions that the relayer can still find: by an event that is   *)
(* queued or in a task's hands, by an entry, or in the bumper's hands.     *)
InReach(t) ==
    \/ \E m \in queue : m.of = t
    \/ \E a \in active : a.tx.of = t
    \/ \E x \in tracked : x.of = t
    \/ step \in {"swap", "track"} /\ sent.of = t

(* A transfer that is not yet included stays in reach, whatever replaces   *)
(* or evicts its transactions; only a write that failed, or a crash        *)
(* between zrem and zadd, loses it.                                        *)
NoTransferLost ==
    \A t \in Transfers : Finalised(t) \/ InReach(t) \/ t \in untracked

(* As long as nothing fails, a transfer has one transaction under way: a   *)
(* worker and the bumper that run side by side never pay for it twice.     *)
PaidOnce ==
    faults = 0 => \A t \in Transfers : Cardinality({x \in pool \cup mined : x.of = t}) <= 1

(* The account stands still: what comes next for the chain is missing, or  *)
(* pays too little and cannot be raised, as no entry tracks it or the      *)
(* raise would exceed the cap.                                             *)
HeldUp ==
    /\ pool # {}
    /\ \A x \in pool : x.nonce = Height =>
          x.fee < market /\ (x \notin tracked \/ x.fee + MinRaise > FeeCap)

(* Once the market and the failures settle, every transfer is included:    *)
(* the bumper raises a fee that is too low, and replays what the node      *)
(* lost.  The exception is an account that is held up.                     *)
EveryTransferIncluded ==
    \A t \in Transfers : <>(Finalised(t) \/ t \in untracked) \/ <>[]HeldUp
=============================================================================
