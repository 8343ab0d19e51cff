------------------------- MODULE FeeBumping_proofs -------------------------
(***************************************************************************)
(* No transfer drops out of the relayer's sight, for any number of         *)
(* transfers, transactions and failures: NoTransferLost, proved from an    *)
(* inductive invariant that follows the identities of the attempts.  From  *)
(* it and from where an attempt can be while nothing has failed: no nonce  *)
(* is used twice (TypeOK) and no transfer is paid for twice (PaidOnce).    *)
(***************************************************************************)
EXTENDS FeeBumping, FiniteSetTheorems, WellFoundedInduction, TLAPS

(* The event under which the server remembers the replay of a transaction. *)
ReplayOf(x) == [of |-> x.of, origin |-> x.n]
Replayed(x) == ReplayOf(x) \in published

(* The part of the type that the argument needs: no nonce and no fee. *)
Attempt(x) == x.of \in Transfers /\ x.n \in 1..MaxSends
Typed ==
    /\ queue \subseteq Message /\ published \subseteq Message
    /\ \A a \in active : a.msg \in Message /\ Attempt(a.tx) /\ a.msg.of = a.tx.of
    /\ sends \in [Transfers -> Nat]
    /\ \A x \in tracked : Attempt(x)

(* Attempts are numbered from what was sent: a number above is fresh.      *)
Counts ==
    /\ \A m \in published : m.origin <= sends[m.of]
    /\ \A a \in active : a.tx.n <= sends[a.tx.of]
    /\ \A x \in tracked : x.n <= sends[x.of]

(* An attempt in a task's hands is in no entry, in no other task's hands,  *)
(* and has not been replayed.                                              *)
ActiveFresh ==
    \A a \in active :
       /\ ~Replayed(a.tx)
       /\ \A x \in tracked : ReplayOf(x) # ReplayOf(a.tx)
       /\ \A b \in active : b # a => ReplayOf(b.tx) # ReplayOf(a.tx)

(* What the bumper holds. *)
BumperInv ==
    /\ step \in Steps
    /\ step \in {"pending", "missing", "remove", "swap"} => entry \in tracked
    /\ step = "remove" => entry \in mined \/ Replayed(entry)
    /\ step \in {"swap", "track"} =>
          /\ Attempt(sent) /\ sent.n <= sends[sent.of]
          /\ ~Replayed(sent)
          /\ \A a \in active : ReplayOf(a.tx) # ReplayOf(sent)
    /\ step = "swap" => sent.of = entry.of

(* In sight through something that has not been replayed: an entry that    *)
(* has been is no help, as it is about to go.                              *)
InSight(t) ==
    \/ \E m \in queue : m.of = t
    \/ \E a \in active : a.tx.of = t
    \/ \E x \in tracked : x.of = t /\ ~Replayed(x)
    \/ step = "track" /\ sent.of = t

SightInv == \A t \in Transfers : Finalised(t) \/ InSight(t) \/ t \in untracked

LossInv == Typed /\ Counts /\ ActiveFresh /\ BumperInv /\ SightInv
-----------------------------------------------------------------------------
(* Every step keeps the types. *)
LEMMA TypedStep ==
    ASSUME LossInv, [Next]_vars PROVE Typed'
<1> USE FeeBumpingOK DEF LossInv, Typed, Attempt, Message, workers, bumper, chain, env, vars,
       Fault, BackToLook, NewTx, Counted, Finalised, Replayed, ReplayOf, BumperInv
<1>1. ASSUME NEW m \in queue, Screen(m) PROVE Typed'
  BY <1>1 DEF Screen
<1>2. ASSUME NEW m \in queue, Submit(m) PROVE Typed'
  BY <1>2 DEF Submit
<1>3. ASSUME NEW m \in queue, SubmitFails(m) PROVE Typed'
  BY <1>3 DEF SubmitFails
<1>4. ASSUME NEW a \in active, Store(a) PROVE Typed'
  BY <1>4 DEF Store
<1>5. CASE Look
  BY <1>5 DEF Look
<1>6. CASE Remove
  BY <1>6 DEF Remove
<1>7. CASE Replay
  BY <1>7 DEF Replay
<1>8. CASE NoBump
  BY <1>8 DEF NoBump
<1>9. CASE Bump
  BY <1>9 DEF Bump, Bumped, ShouldBump, MaxOf
<1>10. CASE BumpFails
  BY <1>10 DEF BumpFails
<1>11. CASE Swap
  BY <1>11 DEF Swap
<1>12. CASE Track
  BY <1>12 DEF Track
<1>13. CASE Mine
  BY <1>13 DEF Mine
<1>14. CASE Evict
  BY <1>14 DEF Evict
<1>15. CASE MarketMoves
  BY <1>15 DEF MarketMoves
<1>16. CASE Crash
  BY <1>16 DEF Crash
<1>17. CASE UNCHANGED vars
  BY <1>17
<1> QED
  BY <1>1, <1>2, <1>3, <1>4, <1>5, <1>6, <1>7, <1>8, <1>9, <1>10, <1>11, <1>12, <1>13, <1>14, <1>15, <1>16, <1>17 DEF Next

(* Every step keeps the numbers of the attempts at most what was sent. *)
LEMMA CountsStep ==
    ASSUME LossInv, [Next]_vars PROVE Counts'
<1> USE FeeBumpingOK DEF LossInv, Typed, Attempt, Message, workers, bumper, chain, env, vars,
       Fault, BackToLook, NewTx, Counted, Finalised, Replayed, ReplayOf, Counts, BumperInv
<1>1. ASSUME NEW m \in queue, Screen(m) PROVE Counts'
  BY <1>1 DEF Screen
<1>2. ASSUME NEW m \in queue, Submit(m) PROVE Counts'
  BY <1>2 DEF Submit
<1>3. ASSUME NEW m \in queue, SubmitFails(m) PROVE Counts'
  BY <1>3 DEF SubmitFails
<1>4. ASSUME NEW a \in active, Store(a) PROVE Counts'
  BY <1>4 DEF Store
<1>5. CASE Look
  BY <1>5 DEF Look
<1>6. CASE Remove
  BY <1>6 DEF Remove
<1>7. CASE Replay
  BY <1>7 DEF Replay
<1>8. CASE NoBump
  BY <1>8 DEF NoBump
<1>9. CASE Bump
  BY <1>9 DEF Bump, Bumped, ShouldBump, MaxOf
<1>10. CASE BumpFails
  BY <1>10 DEF BumpFails
<1>11. CASE Swap
  BY <1>11 DEF Swap
<1>12. CASE Track
  BY <1>12 DEF Track
<1>13. CASE Mine
  BY <1>13 DEF Mine
<1>14. CASE Evict
  BY <1>14 DEF Evict
<1>15. CASE MarketMoves
  BY <1>15 DEF MarketMoves
<1>16. CASE Crash
  BY <1>16 DEF Crash
<1>17. CASE UNCHANGED vars
  BY <1>17
<1> QED
  BY <1>1, <1>2, <1>3, <1>4, <1>5, <1>6, <1>7, <1>8, <1>9, <1>10, <1>11, <1>12, <1>13, <1>14, <1>15, <1>16, <1>17 DEF Next

(* Every step keeps a task's attempt apart from the entries and the replays. *)
LEMMA ActiveFreshStep ==
    ASSUME LossInv, [Next]_vars PROVE ActiveFresh'
<1> USE FeeBumpingOK DEF LossInv, Typed, Attempt, Message, workers, bumper, chain, env, vars,
       Fault, BackToLook, NewTx, Counted, Finalised, Replayed, ReplayOf, Counts, ActiveFresh, BumperInv
<1>1. ASSUME NEW m \in queue, Screen(m) PROVE ActiveFresh'
  BY <1>1 DEF Screen
<1>2. ASSUME NEW m \in queue, Submit(m) PROVE ActiveFresh'
  <2> DEFINE x == NewTx(m.of, next, market)
  <2>1. m.of \in Transfers /\ x.of = m.of /\ x.n = sends[m.of] + 1
    BY <1>2
  <2>2. active' \subseteq active \cup {[msg |-> m, tx |-> x]}
    BY <1>2 DEF Submit
  <2>3. tracked' = tracked /\ published' = published
    BY <1>2 DEF Submit
  <2>4. ReplayOf(x) \notin published
    BY <2>1
  <2> HIDE DEF x
  <2>5. ASSUME NEW y, Attempt(y), y.n <= sends[y.of] PROVE ReplayOf(y) # ReplayOf(x)
    <3>1. y.of # x.of \/ y.n # x.n
      BY <2>1, <2>5
    <3> QED
      BY <3>1
  <2>6. /\ \A y \in tracked : ReplayOf(y) # ReplayOf(x)
        /\ \A b \in active : ReplayOf(b.tx) # ReplayOf(x)
    BY <2>5
  <2> HIDE DEF ReplayOf
  <2> QED
    BY <2>2, <2>3, <2>4, <2>6
<1>3. ASSUME NEW m \in queue, SubmitFails(m) PROVE ActiveFresh'
  BY <1>3 DEF SubmitFails
<1>4. ASSUME NEW a \in active, Store(a) PROVE ActiveFresh'
  BY <1>4 DEF Store
<1>5. CASE Look
  BY <1>5 DEF Look
<1>6. CASE Remove
  BY <1>6 DEF Remove
<1>7. CASE Replay
  BY <1>7 DEF Replay
<1>8. CASE NoBump
  BY <1>8 DEF NoBump
<1>9. CASE Bump
  BY <1>9 DEF Bump, Bumped, ShouldBump, MaxOf
<1>10. CASE BumpFails
  BY <1>10 DEF BumpFails
<1>11. CASE Swap
  BY <1>11 DEF Swap
<1>12. CASE Track
  BY <1>12 DEF Track
<1>13. CASE Mine
  BY <1>13 DEF Mine
<1>14. CASE Evict
  BY <1>14 DEF Evict
<1>15. CASE MarketMoves
  BY <1>15 DEF MarketMoves
<1>16. CASE Crash
  BY <1>16 DEF Crash
<1>17. CASE UNCHANGED vars
  BY <1>17
<1> QED
  BY <1>1, <1>2, <1>3, <1>4, <1>5, <1>6, <1>7, <1>8, <1>9, <1>10, <1>11, <1>12, <1>13, <1>14, <1>15, <1>16, <1>17 DEF Next

(* Every step keeps what is known of the entry and the replacement in the
   bumper's hands. *)
LEMMA BumperInvStep ==
    ASSUME LossInv, [Next]_vars PROVE BumperInv'
<1> USE FeeBumpingOK DEF LossInv, Typed, Attempt, Message, workers, bumper, chain, env, vars,
       Fault, BackToLook, NewTx, Counted, Finalised, Replayed, ReplayOf, Counts, ActiveFresh, BumperInv, Steps
<1>1. ASSUME NEW m \in queue, Screen(m) PROVE BumperInv'
  BY <1>1 DEF Screen
<1>2. ASSUME NEW m \in queue, Submit(m) PROVE BumperInv'
  BY <1>2 DEF Submit
<1>3. ASSUME NEW m \in queue, SubmitFails(m) PROVE BumperInv'
  BY <1>3 DEF SubmitFails
<1>4. ASSUME NEW a \in active, Store(a) PROVE BumperInv'
  BY <1>4 DEF Store
<1>5. CASE Look
  BY <1>5 DEF Look
<1>6. CASE Remove
  BY <1>6 DEF Remove
<1>7. CASE Replay
  BY <1>7 DEF Replay
<1>8. CASE NoBump
  BY <1>8 DEF NoBump
<1>9. CASE Bump
  BY <1>9 DEF Bump, Bumped, ShouldBump, MaxOf
<1>10. CASE BumpFails
  BY <1>10 DEF BumpFails
<1>11. CASE Swap
  BY <1>11 DEF Swap
<1>12. CASE Track
  BY <1>12 DEF Track
<1>13. CASE Mine
  BY <1>13 DEF Mine
<1>14. CASE Evict
  BY <1>14 DEF Evict
<1>15. CASE MarketMoves
  BY <1>15 DEF MarketMoves
<1>16. CASE Crash
  BY <1>16 DEF Crash
<1>17. CASE UNCHANGED vars
  BY <1>17
<1> QED
  BY <1>1, <1>2, <1>3, <1>4, <1>5, <1>6, <1>7, <1>8, <1>9, <1>10, <1>11, <1>12, <1>13, <1>14, <1>15, <1>16, <1>17 DEF Next

(* Every step keeps every transfer in sight. *)
LEMMA SightInvStep ==
    ASSUME LossInv, [Next]_vars PROVE SightInv'
<1> USE FeeBumpingOK DEF LossInv, Typed, Attempt, Message, workers, bumper, chain, env, vars,
       Fault, BackToLook, NewTx, Counted, Finalised, Replayed, ReplayOf, BumperInv, SightInv, InSight
<1>1. ASSUME NEW m \in queue, Screen(m) PROVE SightInv'
  BY <1>1 DEF Screen
<1>2. ASSUME NEW m \in queue, Submit(m) PROVE SightInv'
  <2>1. CASE UNCHANGED <<queue, active>>
    BY <1>2, <2>1 DEF Submit
  <2>2. ASSUME NEW x, x.of = m.of, queue' = queue \ {m},
               active' = active \cup {[msg |-> m, tx |-> x]}
        PROVE SightInv'
    <3>1. \E a \in active' : a.tx.of = m.of
      <4>1. [msg |-> m, tx |-> x] \in active' /\ [msg |-> m, tx |-> x].tx = x
        BY <2>2
      <4> QED
        BY <2>2, <4>1
    <3>2. \A q \in queue : q.of # m.of => q \in queue'
      BY <2>2
    <3>3. active \subseteq active'
      BY <2>2
    <3> QED
      BY <1>2, <3>1, <3>2, <3>3 DEF Submit
  <2>3. NewTx(m.of, next, market).of = m.of
    OBVIOUS
  <2> HIDE DEF NewTx, SightInv
  <2> QED
    BY <1>2, <2>1, <2>2, <2>3 DEF Submit
<1>3. ASSUME NEW m \in queue, SubmitFails(m) PROVE SightInv'
  BY <1>3 DEF SubmitFails
<1>4. ASSUME NEW a \in active, Store(a) PROVE SightInv'
  <2>1. \/ a.tx \in tracked' /\ ~Replayed(a.tx)
        \/ a.tx.of \in untracked'
    BY <1>4 DEF Store, ActiveFresh
  <2>2. queue \subseteq queue' /\ tracked \subseteq tracked' /\ untracked \subseteq untracked'
    BY <1>4 DEF Store
  <2>3. active' = active \ {a} /\ UNCHANGED <<published, mined, step, sent>>
    BY <1>4 DEF Store
  <2> QED
    BY <2>1, <2>2, <2>3
<1>5. CASE Look
  BY <1>5 DEF Look
<1>6. CASE Remove
  BY <1>6 DEF Remove
<1>7. CASE Replay
  <2> DEFINE r == ReplayOf(entry)
  <2>1. UNCHANGED <<active, tracked, mined, untracked>> /\ queue \subseteq queue'
    BY <1>7 DEF Replay
  <2>2. published' = published \cup {r} /\ (r \in published \/ r \in queue')
    BY <1>7 DEF Replay
  <2>3. step = "missing"
    BY <1>7 DEF Replay
  <2>4. \A x \in tracked : Replayed(x)' => Replayed(x) \/ ReplayOf(x) = r
    BY <2>2
  <2>5. \A x \in tracked : ReplayOf(x) = r => x.of = r.of
    OBVIOUS
  <2>6. ASSUME NEW t \in Transfers, InSight(t) PROVE InSight(t)'
    <3>1. CASE \E x \in tracked : x.of = t /\ ~Replayed(x)
      <4>1. PICK x \in tracked : x.of = t /\ ~Replayed(x)
        BY <3>1
      <4>2. CASE ReplayOf(x) = r
        <5>1. r \in queue' /\ r.of = t
          BY <2>2, <2>5, <4>1, <4>2
        <5> QED
          BY <5>1
      <4>3. CASE ReplayOf(x) # r
        BY <2>1, <2>2, <4>1, <4>3
      <4> QED
        BY <4>2, <4>3
    <3> QED
      BY <2>1, <2>3, <2>6, <3>1
  <2> QED
    BY <2>1, <2>6
<1>8. CASE NoBump
  BY <1>8 DEF NoBump
<1>9. CASE Bump
  BY <1>9 DEF Bump, Bumped, ShouldBump, MaxOf
<1>10. CASE BumpFails
  BY <1>10 DEF BumpFails
<1>11. CASE Swap
  BY <1>11 DEF Swap
<1>12. CASE Track
  BY <1>12 DEF Track
<1>13. CASE Mine
  BY <1>13 DEF Mine
<1>14. CASE Evict
  BY <1>14 DEF Evict
<1>15. CASE MarketMoves
  BY <1>15 DEF MarketMoves
<1>16. CASE Crash
  BY <1>16 DEF Crash
<1>17. CASE UNCHANGED vars
  BY <1>17
<1> QED
  BY <1>1, <1>2, <1>3, <1>4, <1>5, <1>6, <1>7, <1>8, <1>9, <1>10, <1>11, <1>12, <1>13, <1>14, <1>15, <1>16, <1>17 DEF Next

(* What the initial states are, and that the invariant is inductive. *)
LEMMA LossInitially ==
    ASSUME Init PROVE LossInv
<1> USE FeeBumpingOK DEF Init, Message
<1>1. Typed
  BY DEF Typed
<1>2. Counts /\ ActiveFresh
  BY DEF Counts, ActiveFresh
<1>3. BumperInv
  BY DEF BumperInv, Steps
<1>4. ASSUME NEW t \in Transfers PROVE InSight(t)
  <2>1. [of |-> t, origin |-> 0] \in queue
    OBVIOUS
  <2> QED
    BY <2>1 DEF InSight
<1> QED
  BY <1>1, <1>2, <1>3, <1>4 DEF LossInv, SightInv

(* Every step keeps all the parts of the loss invariant together. *)
LEMMA LossInductive ==
    ASSUME LossInv, [Next]_vars PROVE LossInv'
BY TypedStep, CountsStep, ActiveFreshStep, BumperInvStep, SightInvStep DEF LossInv

(* FeeBumping: no transfer that is not included drops out of reach but by a *)
(* failed write or a crash between zrem and zadd.                          *)
THEOREM TransfersStayInReach == Spec => []NoTransferLost
<1>1. LossInv => NoTransferLost
  BY DEF LossInv, SightInv, InSight, NoTransferLost, InReach
<1> QED
  BY LossInitially, LossInductive, <1>1, PTL DEF Spec
-----------------------------------------------------------------------------
(* What the bumper sent is a transaction of the type that the node takes.  *)
HoldsTx == step \in {"swap", "track"} => sent \in Tx

(* As long as nothing has failed: every attempt in somebody's hands is with *)
(* the node, but for the entry that was just replaced; what is queued has  *)
(* no transaction yet; and a transfer has one.                             *)
OnePerTransfer == \A x, y \in pool \cup mined : x.of = y.of => x = y
QueuedUnsent ==
    \A m \in queue : m.origin = 0 /\ \A x \in pool \cup mined : x.of # m.of
InHandSent ==
    /\ \A a \in active : a.tx \in pool \cup mined
    /\ \A x \in tracked : x \in pool \cup mined \/ (step = "swap" /\ x = entry)
    /\ step \in {"swap", "track"} => sent \in pool \cup mined
    /\ step # "missing"
PaidInv == faults = 0 => OnePerTransfer /\ QueuedUnsent /\ InHandSent

FeeInv == LossInv /\ TypeOK /\ HoldsTx /\ PaidInv
-----------------------------------------------------------------------------
(* Every set of natural numbers that is not empty has a least element. *)
LEMMA LeastElement ==
    ASSUME NEW S \in SUBSET Nat, S # {}
    PROVE  \E k \in S : \A j \in S : k <= j
<1>1. PICK k \in S : \A j \in S : ~(<<j, k>> \in OpToRel(<, Nat))
  BY NatLessThanWellFounded, WFMin, Zenon
<1>2. \A j \in S : ~(j < k)
  BY <1>1 DEF OpToRel
<1>3. \A j \in S : j \in Nat /\ k \in Nat
  BY <1>1
<1>4. \A j \in S : k <= j
  BY <1>2, <1>3
<1> QED
  BY <1>4

(* The node's transaction count is a nonce, or the one after the last. *)
LEMMA TransactionCountTyped ==
    ASSUME NEW txs \in SUBSET Tx PROVE TransactionCount(txs) \in 0..(MaxNonce + 1)
<1> DEFINE Free == Nat \ Nonces(txs)
<1>1. MaxNonce \in Nat /\ MaxNonce + 1 \in Nat /\ Nonces(txs) \subseteq 0..MaxNonce
  BY FeeBumpingOK DEF Nonces, Tx
<1>2. MaxNonce + 1 \in Free /\ Free \in SUBSET Nat /\ Free # {}
  BY <1>1
<1>3. PICK k \in Free : \A j \in Free : k <= j
  BY <1>2, LeastElement
<1>4. k \in 0..(MaxNonce + 1) /\ k \notin Nonces(txs)
  BY <1>1, <1>2, <1>3
<1>5. 0..(k - 1) \subseteq Nonces(txs)
  <2> SUFFICES ASSUME NEW j \in 0..(k - 1), j \notin Nonces(txs) PROVE FALSE
    OBVIOUS
  <2>1. j \in Nat /\ k \in Nat /\ j < k
    BY <1>3
  <2>2. k <= j
    BY <1>3, <2>1
  <2> QED
    BY <2>1, <2>2
<1> HIDE DEF Free
<1> QED
  BY <1>4, <1>5 DEF TransactionCount

(* The faults stay within their bound. *)
FaultsTyped == faults \in 0..MaxFaults

(* Every step keeps the failures within their bound. *)
LEMMA FaultsStep ==
    ASSUME FeeInv, [Next]_vars PROVE FaultsTyped'
<1> USE FeeBumpingOK DEF vars, workers, bumper, chain, env, BackToLook, Counted,
       Fault
<1>0. TypeOK
  BY DEF FeeInv
<1>1. ASSUME NEW m \in queue, Screen(m) PROVE FaultsTyped'
  BY <1>0, <1>1 DEF Screen, TypeOK, FaultsTyped
<1>2. ASSUME NEW m \in queue, Submit(m) PROVE FaultsTyped'
  BY <1>0, <1>2 DEF Submit, TypeOK, FaultsTyped
<1>3. ASSUME NEW m \in queue, SubmitFails(m) PROVE FaultsTyped'
  BY <1>0, <1>3 DEF SubmitFails, TypeOK, FaultsTyped
<1>4. ASSUME NEW a \in active, Store(a) PROVE FaultsTyped'
  BY <1>0, <1>4 DEF Store, TypeOK, FaultsTyped
<1>5. CASE Look
  BY <1>0, <1>5 DEF Look, TypeOK, FaultsTyped
<1>6. CASE Remove
  BY <1>0, <1>6 DEF Remove, TypeOK, FaultsTyped
<1>7. CASE Replay
  BY <1>0, <1>7 DEF Replay, TypeOK, FaultsTyped
<1>8. CASE NoBump
  BY <1>0, <1>8 DEF NoBump, TypeOK, FaultsTyped
<1>9. CASE Bump
  BY <1>0, <1>9 DEF Bump, Bumped, ShouldBump, MaxOf, TypeOK, FaultsTyped
<1>10. CASE BumpFails
  BY <1>0, <1>10 DEF BumpFails, TypeOK, FaultsTyped
<1>11. CASE Swap
  BY <1>0, <1>11 DEF Swap, TypeOK, FaultsTyped
<1>12. CASE Track
  BY <1>0, <1>12 DEF Track, TypeOK, FaultsTyped
<1>13. CASE Mine
  BY <1>0, <1>13 DEF Mine, TypeOK, FaultsTyped
<1>14. CASE Evict
  BY <1>0, <1>14 DEF Evict, TypeOK, FaultsTyped
<1>15. CASE MarketMoves
  BY <1>0, <1>15 DEF MarketMoves, TypeOK, FaultsTyped
<1>16. CASE Crash
  BY <1>0, <1>16 DEF Crash, TypeOK, FaultsTyped
<1>17. CASE UNCHANGED vars
  BY <1>0, <1>17 DEF TypeOK, FaultsTyped
<1> QED
  BY <1>1, <1>2, <1>3, <1>4, <1>5, <1>6, <1>7, <1>8, <1>9, <1>10, <1>11, <1>12,
     <1>13, <1>14, <1>15, <1>16, <1>17 DEF Next

(* A new transaction has the type that the node takes. *)
LEMMA NewTxTyped ==
    ASSUME NEW t \in Transfers, sends \in [Transfers -> 0..MaxSends], sends[t] < MaxSends,
           NEW nonce \in 0..MaxNonce, NEW fee \in 1..FeeCap
    PROVE  /\ NewTx(t, nonce, fee) \in Tx /\ NewTx(t, nonce, fee).of = t
           /\ NewTx(t, nonce, fee).nonce = nonce
           /\ [sends EXCEPT ![t] = @ + 1] \in [Transfers -> 0..MaxSends]
<1>1. sends[t] + 1 \in 1..MaxSends
  BY FeeBumpingOK
<1> QED
  BY <1>1 DEF NewTx, Tx

(* Every transaction anybody holds, and the counters by which they are made. *)
TxTyped ==
    /\ \A a \in active : a.tx \in Tx
    /\ tracked \subseteq Tx /\ pool \subseteq Tx /\ mined \subseteq Tx
    /\ sends \in [Transfers -> 0..MaxSends]
    /\ entry \in Tx \cup {Nobody} /\ sent \in Tx \cup {Nobody} /\ HoldsTx
    /\ market \in 1..FeeCap

(* The counter of the NonceManager. *)
NextTyped == next \in 0..(MaxNonce + 1)

(* Every step keeps the transactions and their counters typed. *)
LEMMA TxStep ==
    ASSUME FeeInv, [Next]_vars PROVE TxTyped'
<1> USE FeeBumpingOK DEF vars, workers, bumper, chain, env, BackToLook, Counted
<1>0. TxTyped /\ NextTyped /\ BumperInv /\ queue \subseteq Message
  BY DEF FeeInv, TypeOK, TxTyped, NextTyped, LossInv
<1>1. ASSUME NEW m \in queue, Screen(m) PROVE TxTyped'
  BY <1>0, <1>1 DEF Screen, TxTyped, HoldsTx
<1>2. ASSUME NEW m \in queue, Submit(m) PROVE TxTyped'
  <2> DEFINE x == NewTx(m.of, next, market)
  <2>1. m.of \in Transfers /\ sends[m.of] < MaxSends /\ next \in 0..MaxNonce
    BY <1>0, <1>2 DEF Submit, Message, NextTyped
  <2>2. x \in Tx /\ sends' \in [Transfers -> 0..MaxSends]
    BY <1>0, <1>2, <2>1, NewTxTyped DEF Submit, TxTyped
  <2>3. /\ pool' = pool \cup {x} /\ active' \subseteq active \cup {[msg |-> m, tx |-> x]}
        /\ UNCHANGED <<tracked, mined, entry, sent, step, market>>
    BY <1>2 DEF Submit
  <2> HIDE DEF x
  <2> QED
    BY <1>0, <2>2, <2>3 DEF TxTyped, HoldsTx
<1>3. ASSUME NEW m \in queue, SubmitFails(m) PROVE TxTyped'
  BY <1>0, <1>3 DEF SubmitFails, TxTyped, HoldsTx
<1>4. ASSUME NEW a \in active, Store(a) PROVE TxTyped'
  BY <1>0, <1>4 DEF Store, TxTyped, HoldsTx
<1>5. CASE Look
  BY <1>0, <1>5 DEF Look, TxTyped, HoldsTx
<1>6. CASE Remove
  BY <1>0, <1>6 DEF Remove, TxTyped, HoldsTx
<1>7. CASE Replay
  BY <1>0, <1>7 DEF Replay, TxTyped, HoldsTx
<1>8. CASE NoBump
  BY <1>0, <1>8 DEF NoBump, TxTyped, HoldsTx
<1>9. CASE Bump
  <2> DEFINE y == NewTx(entry.of, entry.nonce, Bumped)
  <2>1. entry \in Tx
    BY <1>0, <1>9 DEF Bump, BumperInv, TxTyped
  <2>2. Bumped \in 1..FeeCap
    <3>1. Bumped \in Nat /\ Bumped >= 1
      BY <1>0, <2>1 DEF Bumped, MaxOf, Tx, TxTyped
    <3> QED
      BY <1>9, <3>1 DEF Bump, ShouldBump
  <2>3. entry.of \in Transfers /\ sends[entry.of] < MaxSends /\ entry.nonce \in 0..MaxNonce
    BY <1>9, <2>1 DEF Bump, Tx
  <2>4. y \in Tx /\ sends' \in [Transfers -> 0..MaxSends]
    BY <1>0, <1>9, <2>2, <2>3, NewTxTyped DEF Bump, TxTyped
  <2>5. /\ pool' \subseteq pool \cup {y} /\ UNCHANGED <<active, tracked, mined, market>>
        /\ (sent' = y /\ step' = "swap" /\ entry' = entry)
              \/ (step' = "look" /\ entry' = Nobody /\ sent' = Nobody)
    BY <1>9 DEF Bump
  <2> HIDE DEF y
  <2> QED
    BY <1>0, <2>4, <2>5 DEF TxTyped, HoldsTx
<1>10. CASE BumpFails
  BY <1>0, <1>10 DEF BumpFails, TxTyped, HoldsTx
<1>11. CASE Swap
  BY <1>0, <1>11 DEF Swap, TxTyped, HoldsTx
<1>12. CASE Track
  BY <1>0, <1>12 DEF Track, TxTyped, HoldsTx
<1>13. CASE Mine
  BY <1>0, <1>13 DEF Mine, TxTyped, HoldsTx
<1>14. CASE Evict
  BY <1>0, <1>14 DEF Evict, TxTyped, HoldsTx
<1>15. CASE MarketMoves
  BY <1>0, <1>15 DEF MarketMoves, TxTyped, HoldsTx
<1>16. CASE Crash
  BY <1>0, <1>16 DEF Crash, TxTyped, HoldsTx
<1>17. CASE UNCHANGED vars
  BY <1>0, <1>17 DEF TxTyped, HoldsTx
<1> QED
  BY <1>1, <1>2, <1>3, <1>4, <1>5, <1>6, <1>7, <1>8, <1>9, <1>10, <1>11, <1>12,
     <1>13, <1>14, <1>15, <1>16, <1>17 DEF Next

(* Every step keeps the counter a nonce or the one after the last. *)
LEMMA NextStep ==
    ASSUME FeeInv, [Next]_vars PROVE NextTyped'
<1> USE FeeBumpingOK DEF vars, workers, bumper, chain, env, BackToLook, Counted
<1>0. TxTyped /\ NextTyped /\ queue \subseteq Message
  BY DEF FeeInv, TypeOK, TxTyped, NextTyped
<1>1. ASSUME NEW m \in queue, Screen(m) PROVE NextTyped'
  BY <1>0, <1>1 DEF Screen, NextTyped
<1>2. ASSUME NEW m \in queue, Submit(m) PROVE NextTyped'
  <2>1. m.of \in Transfers /\ sends[m.of] < MaxSends /\ next \in 0..MaxNonce
    BY <1>0, <1>2 DEF Submit, Message, NextTyped
  <2>2. NewTx(m.of, next, market) \in Tx
    BY <1>0, <2>1, NewTxTyped DEF TxTyped
  <2>3. mined \cup pool \cup {NewTx(m.of, next, market)} \in SUBSET Tx
    BY <1>0, <2>2 DEF TxTyped
  <2>4. TransactionCount(mined \cup pool \cup {NewTx(m.of, next, market)}) \in 0..(MaxNonce + 1)
    BY <2>3, TransactionCountTyped
  <2>5. next + 1 \in 0..(MaxNonce + 1)
    BY <2>1
  <2> HIDE DEF NewTx
  <2> QED
    BY <1>2, <2>4, <2>5 DEF Submit, NextTyped
<1>3. ASSUME NEW m \in queue, SubmitFails(m) PROVE NextTyped'
  <2>1. TransactionCount(pool \cup mined) \in 0..(MaxNonce + 1)
    BY <1>0, TransactionCountTyped DEF TxTyped
  <2> QED
    BY <1>3, <2>1 DEF SubmitFails, NextTyped
<1>4. ASSUME NEW a \in active, Store(a) PROVE NextTyped'
  BY <1>0, <1>4 DEF Store, NextTyped
<1>5. CASE Look
  BY <1>0, <1>5 DEF Look, NextTyped
<1>6. CASE Remove
  BY <1>0, <1>6 DEF Remove, NextTyped
<1>7. CASE Replay
  BY <1>0, <1>7 DEF Replay, NextTyped
<1>8. CASE NoBump
  BY <1>0, <1>8 DEF NoBump, NextTyped
<1>9. CASE Bump
  BY <1>0, <1>9 DEF Bump, Bumped, ShouldBump, MaxOf, NextTyped
<1>10. CASE BumpFails
  BY <1>0, <1>10 DEF BumpFails, NextTyped
<1>11. CASE Swap
  BY <1>0, <1>11 DEF Swap, NextTyped
<1>12. CASE Track
  BY <1>0, <1>12 DEF Track, NextTyped
<1>13. CASE Mine
  BY <1>0, <1>13 DEF Mine, NextTyped
<1>14. CASE Evict
  BY <1>0, <1>14 DEF Evict, NextTyped
<1>15. CASE MarketMoves
  BY <1>0, <1>15 DEF MarketMoves, NextTyped
<1>16. CASE Crash
  <2>1. TransactionCount(pool \cup mined) \in 0..(MaxNonce + 1)
    BY <1>0, TransactionCountTyped DEF TxTyped
  <2> QED
    BY <1>16, <2>1 DEF Crash, NextTyped
<1>17. CASE UNCHANGED vars
  BY <1>0, <1>17 DEF NextTyped
<1> QED
  BY <1>1, <1>2, <1>3, <1>4, <1>5, <1>6, <1>7, <1>8, <1>9, <1>10, <1>11, <1>12,
     <1>13, <1>14, <1>15, <1>16, <1>17 DEF Next

(* What is left of the type. *)
RestTyped == moves \in 0..MaxMoves /\ untracked \subseteq Transfers

(* Every step keeps the rest of the state typed. *)
LEMMA RestStep ==
    ASSUME FeeInv, [Next]_vars PROVE RestTyped'
<1> USE FeeBumpingOK DEF vars, workers, bumper, chain, env, BackToLook, Counted
<1>0. RestTyped /\ TxTyped /\ BumperInv /\ Typed
  BY DEF FeeInv, TypeOK, RestTyped, TxTyped, LossInv
<1>1. ASSUME NEW m \in queue, Screen(m) PROVE RestTyped'
  BY <1>0, <1>1 DEF Screen, RestTyped, TxTyped, BumperInv, Typed, Attempt
<1>2. ASSUME NEW m \in queue, Submit(m) PROVE RestTyped'
  BY <1>0, <1>2 DEF Submit, RestTyped, TxTyped, BumperInv, Typed, Attempt
<1>3. ASSUME NEW m \in queue, SubmitFails(m) PROVE RestTyped'
  BY <1>0, <1>3 DEF SubmitFails, RestTyped, TxTyped, BumperInv, Typed, Attempt
<1>4. ASSUME NEW a \in active, Store(a) PROVE RestTyped'
  BY <1>0, <1>4 DEF Store, RestTyped, TxTyped, BumperInv, Typed, Attempt
<1>5. CASE Look
  BY <1>0, <1>5 DEF Look, RestTyped, TxTyped, BumperInv, Typed, Attempt
<1>6. CASE Remove
  BY <1>0, <1>6 DEF Remove, RestTyped, TxTyped, BumperInv, Typed, Attempt
<1>7. CASE Replay
  BY <1>0, <1>7 DEF Replay, RestTyped, TxTyped, BumperInv, Typed, Attempt
<1>8. CASE NoBump
  BY <1>0, <1>8 DEF NoBump, RestTyped, TxTyped, BumperInv, Typed, Attempt
<1>9. CASE Bump
  BY <1>0, <1>9 DEF Bump, Bumped, ShouldBump, MaxOf, RestTyped, TxTyped, BumperInv, Typed, Attempt
<1>10. CASE BumpFails
  BY <1>0, <1>10 DEF BumpFails, RestTyped, TxTyped, BumperInv, Typed, Attempt
<1>11. CASE Swap
  BY <1>0, <1>11 DEF Swap, RestTyped, TxTyped, BumperInv, Typed, Attempt
<1>12. CASE Track
  BY <1>0, <1>12 DEF Track, RestTyped, TxTyped, BumperInv, Typed, Attempt
<1>13. CASE Mine
  BY <1>0, <1>13 DEF Mine, RestTyped, TxTyped, BumperInv, Typed, Attempt
<1>14. CASE Evict
  BY <1>0, <1>14 DEF Evict, RestTyped, TxTyped, BumperInv, Typed, Attempt
<1>15. CASE MarketMoves
  BY <1>0, <1>15 DEF MarketMoves, RestTyped, TxTyped, BumperInv, Typed, Attempt
<1>16. CASE Crash
  BY <1>0, <1>16 DEF Crash, RestTyped, TxTyped, BumperInv, Typed, Attempt
<1>17. CASE UNCHANGED vars
  BY <1>0, <1>17 DEF RestTyped, TxTyped, BumperInv, Typed, Attempt
<1> QED
  BY <1>1, <1>2, <1>3, <1>4, <1>5, <1>6, <1>7, <1>8, <1>9, <1>10, <1>11, <1>12,
     <1>13, <1>14, <1>15, <1>16, <1>17 DEF Next

(* A nonce is with the node once. *)
NoncesOnce == OneOf(pool \cup mined)

(* No step brings a nonce to the node twice: a submission takes a free   *)
(* one, a replacement its own.                                           *)
LEMMA NoncesStep ==
    ASSUME FeeInv, [Next]_vars PROVE NoncesOnce'
<1> USE FeeBumpingOK DEF vars, workers, bumper, chain, env, BackToLook, Counted
<1>0. NoncesOnce
  BY DEF FeeInv, TypeOK, NoncesOnce
<1>1. ASSUME NEW m \in queue, Screen(m) PROVE NoncesOnce'
  BY <1>0, <1>1 DEF Screen, NoncesOnce, OneOf
<1>2. ASSUME NEW m \in queue, Submit(m) PROVE NoncesOnce'
  <2> DEFINE x == NewTx(m.of, next, market)
  <2>1. x.nonce = next
    BY DEF NewTx
  <2>2. pool' = pool \cup {x} /\ mined' = mined /\ next \notin Taken
    BY <1>2 DEF Submit
  <2> HIDE DEF x
  <2>3. \A z \in pool \cup mined : z.nonce # x.nonce
    BY <2>1, <2>2 DEF Taken, Nonces
  <2> QED
    BY <1>0, <2>2, <2>3 DEF NoncesOnce, OneOf
<1>3. ASSUME NEW m \in queue, SubmitFails(m) PROVE NoncesOnce'
  BY <1>0, <1>3 DEF SubmitFails, NoncesOnce, OneOf
<1>4. ASSUME NEW a \in active, Store(a) PROVE NoncesOnce'
  BY <1>0, <1>4 DEF Store, NoncesOnce, OneOf
<1>5. CASE Look
  BY <1>0, <1>5 DEF Look, NoncesOnce, OneOf
<1>6. CASE Remove
  BY <1>0, <1>6 DEF Remove, NoncesOnce, OneOf
<1>7. CASE Replay
  BY <1>0, <1>7 DEF Replay, NoncesOnce, OneOf
<1>8. CASE NoBump
  BY <1>0, <1>8 DEF NoBump, NoncesOnce, OneOf
<1>9. CASE Bump
  <2> DEFINE y == NewTx(entry.of, entry.nonce, Bumped)
  <2>1. y.nonce = entry.nonce
    BY DEF NewTx
  <2>2. /\ pool' = (pool \ Replaced(entry.nonce)) \cup {y} /\ mined' = mined
        /\ \A x \in mined : x.nonce # entry.nonce
    BY <1>9 DEF Bump
  <2> HIDE DEF y
  <2>3. \A z \in (pool \ Replaced(entry.nonce)) \cup mined : z.nonce # y.nonce
    BY <2>1, <2>2 DEF Replaced
  <2> QED
    BY <1>0, <2>2, <2>3 DEF NoncesOnce, OneOf
<1>10. CASE BumpFails
  BY <1>0, <1>10 DEF BumpFails, NoncesOnce, OneOf
<1>11. CASE Swap
  BY <1>0, <1>11 DEF Swap, NoncesOnce, OneOf
<1>12. CASE Track
  BY <1>0, <1>12 DEF Track, NoncesOnce, OneOf
<1>13. CASE Mine
  BY <1>0, <1>13 DEF Mine, NoncesOnce, OneOf
<1>14. CASE Evict
  BY <1>0, <1>14 DEF Evict, NoncesOnce, OneOf
<1>15. CASE MarketMoves
  BY <1>0, <1>15 DEF MarketMoves, NoncesOnce, OneOf
<1>16. CASE Crash
  BY <1>0, <1>16 DEF Crash, NoncesOnce, OneOf
<1>17. CASE UNCHANGED vars
  BY <1>0, <1>17 DEF NoncesOnce, OneOf
<1> QED
  BY <1>1, <1>2, <1>3, <1>4, <1>5, <1>6, <1>7, <1>8, <1>9, <1>10, <1>11, <1>12,
     <1>13, <1>14, <1>15, <1>16, <1>17 DEF Next

(* Where an attempt can be while nothing has failed. *)
Sent == pool \cup mined
PaidParts == OnePerTransfer /\ QueuedUnsent /\ InHandSent

(* A step after which nothing has failed is one that did not fail. *)
LEMMA StillNoFault ==
    ASSUME FeeInv, [Next]_vars, faults' = 0 PROVE faults = 0 /\ ~Fault
<1>1. faults \in Nat
  BY FeeBumpingOK DEF FeeInv, TypeOK
<1>2. ~Fault
  BY <1>1 DEF Fault
<1>3. UNCHANGED faults
  BY <1>2 DEF Next, Screen, Submit, SubmitFails, Store, Look, Remove, Replay, NoBump, Bump, BumpFails,
       Swap, Track, Mine, Evict, MarketMoves, Crash, vars
<1> QED
  BY <1>2, <1>3

(* No step that does not fail sends a second transaction for a transfer. *)
LEMMA PaidStep ==
    ASSUME FeeInv, [Next]_vars, faults' = 0 PROVE PaidParts'
<1> USE FeeBumpingOK DEF vars, workers, bumper, chain, env, BackToLook, Counted
<1>0. PaidParts /\ BumperInv /\ ActiveFresh /\ NoncesOnce /\ ~Fault /\ queue \subseteq Message
  BY StillNoFault DEF FeeInv, PaidInv, PaidParts, LossInv, TypeOK, NoncesOnce
<1>1. ASSUME NEW m \in queue, Screen(m) PROVE PaidParts'
  BY <1>0, <1>1 DEF Screen, PaidParts, OnePerTransfer, QueuedUnsent, InHandSent
<1>2. ASSUME NEW m \in queue, Submit(m) PROVE PaidParts'
  <2> DEFINE x == NewTx(m.of, next, market)
             a == [msg |-> m, tx |-> x]
  <2>1. /\ pool' = pool \cup {x} /\ queue' = queue \ {m} /\ active' = active \cup {a}
        /\ UNCHANGED <<mined, tracked, step, entry, sent>>
    BY <1>0, <1>2 DEF Submit
  <2>2. x.of = m.of /\ a.tx = x
    BY DEF NewTx
  <2> HIDE DEF x, a
  <2>3. \A z \in pool \cup mined : z.of # x.of
    BY <1>0, <2>2 DEF PaidParts, QueuedUnsent
  <2>4. \A q \in queue : q.of = m.of => q = m
    BY <1>0, <1>2 DEF PaidParts, QueuedUnsent, Message
  <2>5. OnePerTransfer'
    BY <1>0, <2>1, <2>3 DEF PaidParts, OnePerTransfer
  <2>6. QueuedUnsent'
    BY <1>0, <2>1, <2>2, <2>4 DEF PaidParts, QueuedUnsent
  <2>7. InHandSent'
    BY <1>0, <2>1, <2>2 DEF PaidParts, InHandSent
  <2> QED
    BY <2>5, <2>6, <2>7 DEF PaidParts
<1>3. ASSUME NEW m \in queue, SubmitFails(m) PROVE PaidParts'
  BY <1>0, <1>3 DEF SubmitFails, PaidParts, OnePerTransfer, QueuedUnsent, InHandSent
<1>4. ASSUME NEW a \in active, Store(a) PROVE PaidParts'
  BY <1>0, <1>4 DEF Store, PaidParts, OnePerTransfer, QueuedUnsent, InHandSent
<1>5. CASE Look
  BY <1>0, <1>5 DEF Look, PaidParts, OnePerTransfer, QueuedUnsent, InHandSent
<1>6. CASE Remove
  BY <1>0, <1>6 DEF Remove, PaidParts, OnePerTransfer, QueuedUnsent, InHandSent
<1>7. CASE Replay
  BY <1>0, <1>7 DEF Replay, PaidParts, OnePerTransfer, QueuedUnsent, InHandSent
<1>8. CASE NoBump
  BY <1>0, <1>8 DEF NoBump, PaidParts, OnePerTransfer, QueuedUnsent, InHandSent
<1>9. CASE Bump
  <2> DEFINE y == NewTx(entry.of, entry.nonce, Bumped)
  <2>1. /\ step = "pending" /\ step' = "swap" /\ sent' = y /\ entry' = entry
        /\ pool' = (pool \ Replaced(entry.nonce)) \cup {y}
        /\ \A x \in mined : x.nonce # entry.nonce
        /\ UNCHANGED <<queue, active, tracked, mined>>
    BY <1>0, <1>9 DEF Bump
  <2>2. y.of = entry.of
    BY DEF NewTx
  <2> HIDE DEF y
  <2>3. entry \in tracked /\ entry \in pool
    <3>1. entry \in tracked
      BY <1>0, <2>1 DEF BumperInv
    <3> QED
      BY <1>0, <2>1, <3>1 DEF PaidParts, InHandSent
  <2>4. Replaced(entry.nonce) = {entry}
    BY <1>0, <2>3 DEF Replaced, NoncesOnce, OneOf
  <2>5. \A z \in (pool \cup mined) \ {entry} : z.of # y.of
    BY <1>0, <2>2, <2>3 DEF PaidParts, OnePerTransfer
  <2>6. (pool \cup mined)' = ((pool \cup mined) \ {entry}) \cup {y}
    BY <2>1, <2>3, <2>4
  <2>7. OnePerTransfer'
    BY <1>0, <2>5, <2>6 DEF PaidParts, OnePerTransfer
  <2>8. QueuedUnsent'
    BY <1>0, <2>1, <2>2, <2>3, <2>6 DEF PaidParts, QueuedUnsent
  <2>9. \A a \in active : a.tx # entry
    BY <1>0, <2>3 DEF ActiveFresh
  <2>10. InHandSent'
    BY <1>0, <2>1, <2>6, <2>9 DEF PaidParts, InHandSent
  <2> QED
    BY <2>7, <2>8, <2>10 DEF PaidParts
<1>10. CASE BumpFails
  BY <1>0, <1>10 DEF BumpFails, PaidParts, OnePerTransfer, QueuedUnsent, InHandSent
<1>11. CASE Swap
  BY <1>0, <1>11 DEF Swap, PaidParts, OnePerTransfer, QueuedUnsent, InHandSent
<1>12. CASE Track
  BY <1>0, <1>12 DEF Track, PaidParts, OnePerTransfer, QueuedUnsent, InHandSent
<1>13. CASE Mine
  BY <1>0, <1>13 DEF Mine, PaidParts, OnePerTransfer, QueuedUnsent, InHandSent
<1>14. CASE Evict
  BY <1>0, <1>14 DEF Evict, PaidParts, OnePerTransfer, QueuedUnsent, InHandSent
<1>15. CASE MarketMoves
  BY <1>0, <1>15 DEF MarketMoves, PaidParts, OnePerTransfer, QueuedUnsent, InHandSent
<1>16. CASE Crash
  BY <1>0, <1>16 DEF Crash, PaidParts, OnePerTransfer, QueuedUnsent, InHandSent
<1>17. CASE UNCHANGED vars
  BY <1>0, <1>17 DEF PaidParts, OnePerTransfer, QueuedUnsent, InHandSent
<1> QED
  BY <1>1, <1>2, <1>3, <1>4, <1>5, <1>6, <1>7, <1>8, <1>9, <1>10, <1>11, <1>12,
     <1>13, <1>14, <1>15, <1>16, <1>17 DEF Next

(* What the initial states are. *)
LEMMA FeeInitially ==
    ASSUME Init PROVE FeeInv
<1>1. TypeOK
  <2>1. /\ 0 \in 0..MaxNonce + 1 /\ 0 \in 0..MaxMoves /\ 0 \in 0..MaxFaults /\ 0 \in 0..MaxSends
        /\ sends \in [Transfers -> 0..MaxSends]
    BY FeeBumpingOK DEF Init
  <2>2. queue \subseteq Message
    BY FeeBumpingOK DEF Init, Message
  <2> QED
    BY <2>1, <2>2 DEF Init, TypeOK, Steps, OneOf
<1>2. HoldsTx /\ PaidInv
  BY DEF Init, HoldsTx, PaidInv, OnePerTransfer, QueuedUnsent, InHandSent
<1> QED
  BY <1>1, <1>2, LossInitially DEF FeeInv

(* The invariant is inductive. *)
LEMMA FeeInductive ==
    ASSUME FeeInv, [Next]_vars PROVE FeeInv'
<1>1. LossInv'
  BY LossInductive DEF FeeInv
<1>2. FaultsTyped' /\ TxTyped' /\ NextTyped' /\ RestTyped' /\ NoncesOnce'
  BY FaultsStep, TxStep, NextStep, RestStep, NoncesStep
<1>3. TypeOK'
  BY <1>1, <1>2 DEF FaultsTyped, TxTyped, NextTyped, RestTyped, NoncesOnce, TypeOK, LossInv, Typed, BumperInv
<1>4. PaidInv'
  BY PaidStep DEF PaidInv, PaidParts
<1> QED
  BY <1>1, <1>2, <1>3, <1>4 DEF FeeInv, TxTyped

(* FeeBumping: every state has its type; above all, the node never has two *)
(* transactions with one nonce.                                            *)
THEOREM FeeTypeCorrect == Spec => []TypeOK
<1>1. FeeInv => TypeOK
  BY DEF FeeInv
<1> QED
  BY FeeInitially, FeeInductive, <1>1, PTL DEF Spec

(* FeeBumping: while nothing fails the workers and the bumper, side by     *)
(* side, never have two transactions for one transfer under way.           *)
THEOREM TransfersPaidOnce == Spec => []PaidOnce
<1>1. FeeInv => PaidOnce
  <2> SUFFICES ASSUME FeeInv, faults = 0, NEW t \in Transfers
               PROVE  Cardinality({x \in pool \cup mined : x.of = t}) <= 1
    BY DEF PaidOnce
  <2>1. \A x, y \in {z \in pool \cup mined : z.of = t} : x = y
    BY DEF FeeInv, PaidInv, OnePerTransfer
  <2>2. CASE {z \in pool \cup mined : z.of = t} = {}
    BY <2>2, FS_EmptySet
  <2>3. CASE {z \in pool \cup mined : z.of = t} # {}
    <3>1. PICK x : {z \in pool \cup mined : z.of = t} = {x}
      BY <2>1, <2>3
    <3>2. Cardinality({x}) = 1
      BY FS_Singleton
    <3> QED
      BY <3>1, <3>2
  <2> QED
    BY <2>2, <2>3
<1> QED
  BY FeeInitially, FeeInductive, <1>1, PTL DEF Spec
=============================================================================
