--------------------------- MODULE UtxoSet_proofs ---------------------------
(***************************************************************************)
(* The UTXO cache, for any number of outpoints, transfers and failures: no *)
(* outpoint is selected twice, no phantom stays unflagged, no outpoint is  *)
(* forgotten, except across the reloads that the properties name.          *)
(***************************************************************************)
EXTENDS UtxoSet, TLAPS

InFlight == {"submitting", "receipts", "restoring", "restoringRpc"}

(* The set is about to be reloaded, or its holder is about to mark it. *)
Flagged == dirty \/ Refreshing \/ \E t \in Transfers : pc[t] = "marking"

(* Whoever reloads or selects holds the mutex. *)
MutexInv ==
    \A t \in Transfers : pc[t] \in {"fetching", "installing", "selecting"} => lock = t

(* Outpoints are held while a submission is under way, no longer. *)
DraftInv == \A t \in Transfers : pc[t] \notin InFlight => draft[t] = {}

(* What is held is out of the cache, unless it is contested. *)
ApartInv == \A t \in Transfers : draft[t] \cap cache \subseteq contested

(* A draft that may come back without the set being marked holds no        *)
(* phantom: the contract had its outpoints when it was selected, and who   *)
(* spent them since contests them.                                         *)
StaleInv ==
    \A t \in Transfers : pc[t] \in {"submitting", "restoring"} =>
        \A o \in draft[t] \ available : o \in contested \/ Flagged

(* While an answer is being installed, the contract's outpoints that it    *)
(* misses are news.                                                        *)
ReloadInv == \A t \in Transfers : pc[t] = "installing" => available \ fetched \subseteq news

(* The outpoints of a transaction that landed are spent. *)
SpentInv == \A t \in Transfers : pc[t] = "receipts" => draft[t] \cap available = {}

(* What the cache misses is held by a transfer that took it out of the     *)
(* cache, and will put it back; a transfer that selected it on an empty    *)
(* cache will not.                                                         *)
MissingInv ==
    \A o \in available \ cache :
        (\E t \in Transfers : o \in taken[t]) \/ o \in news \/ dirty \/ Refreshing

UtxoInv ==
    /\ TypeOK
    /\ MutexInv /\ DraftInv /\ ReloadInv /\ SpentInv
    /\ NoDoubleSelection /\ ApartInv
    /\ PhantomsAreFlagged /\ StaleInv
    /\ MissingInv
-----------------------------------------------------------------------------
(* Every step keeps the types. *)
LEMMA TypeStep ==
    ASSUME TypeOK, [Next]_vars PROVE TypeOK'
<1> USE UtxoOK DEF vars, contract, slot, Goto, Fault, TypeOK, States
<1>1. ASSUME NEW t \in Transfers, Lock(t) PROVE TypeOK'
  BY <1>1 DEF Lock
<1>2. ASSUME NEW t \in Transfers, FetchReads(t) PROVE TypeOK'
  BY <1>2 DEF FetchReads
<1>3. ASSUME NEW t \in Transfers, FetchFails(t) PROVE TypeOK'
  BY <1>3 DEF FetchFails
<1>4. ASSUME NEW t \in Transfers, Install(t) PROVE TypeOK'
  <2>1. Held \subseteq minted
    BY DEF Held
  <2> QED
    BY <1>4, <2>1 DEF Install
<1>5. ASSUME NEW t \in Transfers, Select(t) PROVE TypeOK'
  <2>1. PICK d \in SUBSET (IF cache = {} THEN available ELSE cache) :
           /\ draft' = [draft EXCEPT ![t] = d] /\ taken' = [taken EXCEPT ![t] = d \cap cache]
           /\ cache' = cache \ d
           /\ contested' = IF cache = {} THEN contested \cup (d \cap Held) ELSE contested
    BY <1>5 DEF Select
  <2>2. d \subseteq minted /\ contested' \subseteq minted
    BY <2>1
  <2>3. draft' \in [Transfers -> SUBSET minted] /\ taken' \in [Transfers -> SUBSET minted]
        /\ \A u \in Transfers : taken'[u] \subseteq draft'[u]
    BY <2>1, <2>2
  <2>4. /\ cache' \subseteq minted /\ pc' \in [Transfers -> States] /\ lock' = NoTransfer
        /\ UNCHANGED <<contract, dirty, fetched, tipMoved, news, faults>>
    BY <1>5, <2>1 DEF Select
  <2> QED
    BY <2>2, <2>3, <2>4
<1>6. ASSUME NEW t \in Transfers, SelectFails(t) PROVE TypeOK'
  <2>1. dirty' \in {dirty, TRUE}
    BY <1>6, Zenon DEF SelectFails
  <2>2. dirty' \in BOOLEAN
    BY <2>1, Zenon
  <2>3. /\ Goto(t, "queued") \/ Goto(t, "gone")
        /\ Fault \/ UNCHANGED faults
        /\ lock' = NoTransfer
        /\ UNCHANGED <<contract, cache, fetched, draft, taken, tipMoved, contested, news>>
    BY <1>6, Zenon DEF SelectFails
  <2>4. pc' \in [Transfers -> States] /\ faults' \in 0..MaxFaults
    BY <2>3
  <2> QED
    BY <2>2, <2>3, <2>4
<1>7. ASSUME NEW t \in Transfers, Lands(t) PROVE TypeOK'
  BY <1>7 DEF Lands
<1>8. ASSUME NEW t \in Transfers, Rejected(t) PROVE TypeOK'
  BY <1>8 DEF Rejected
<1>9. ASSUME NEW t \in Transfers, SubmitErrors(t) PROVE TypeOK'
  BY <1>9 DEF SubmitErrors
<1>10. ASSUME NEW t \in Transfers, Receipts(t) PROVE TypeOK'
  BY <1>10 DEF Receipts
<1>11. ASSUME NEW t \in Transfers, Restore(t) PROVE TypeOK'
  BY <1>11 DEF Restore
<1>12. ASSUME NEW t \in Transfers, MarkDirty(t) PROVE TypeOK'
  BY <1>12 DEF MarkDirty
<1>13. CASE TipAdvances
  BY <1>13 DEF TipAdvances
<1>14. CASE Poll
  BY <1>14 DEF Poll
<1>15. ASSUME NEW o \in Outpoints, Deposit(o) PROVE TypeOK'
  BY <1>15 DEF Deposit
<1>16. CASE Merge
  BY <1>16 DEF Merge
<1>17. CASE UNCHANGED vars
  BY <1>17
<1> QED
  BY <1>1, <1>2, <1>3, <1>4, <1>5, <1>6, <1>7, <1>8, <1>9, <1>10, <1>11, <1>12, <1>13, <1>14, <1>15, <1>16, <1>17 DEF Next

(* The mutex: what reloads or selects holds it. *)
LEMMA MutexStep ==
    ASSUME TypeOK, MutexInv, [Next]_vars PROVE MutexInv'
<1> USE UtxoOK DEF vars, contract, slot, Goto, Fault, TypeOK, States, MutexInv
<1>1. ASSUME NEW t \in Transfers, Lock(t) PROVE MutexInv'
  BY <1>1 DEF Lock
<1>2. ASSUME NEW t \in Transfers, FetchReads(t) PROVE MutexInv'
  BY <1>2 DEF FetchReads
<1>3. ASSUME NEW t \in Transfers, FetchFails(t) PROVE MutexInv'
  BY <1>3 DEF FetchFails
<1>4. ASSUME NEW t \in Transfers, Install(t) PROVE MutexInv'
  BY <1>4 DEF Install
<1>5. ASSUME NEW t \in Transfers, Select(t) PROVE MutexInv'
  BY <1>5 DEF Select
<1>6. ASSUME NEW t \in Transfers, SelectFails(t) PROVE MutexInv'
  BY <1>6 DEF SelectFails
<1>7. ASSUME NEW t \in Transfers, Lands(t) PROVE MutexInv'
  BY <1>7 DEF Lands
<1>8. ASSUME NEW t \in Transfers, Rejected(t) PROVE MutexInv'
  BY <1>8 DEF Rejected
<1>9. ASSUME NEW t \in Transfers, SubmitErrors(t) PROVE MutexInv'
  BY <1>9 DEF SubmitErrors
<1>10. ASSUME NEW t \in Transfers, Receipts(t) PROVE MutexInv'
  BY <1>10 DEF Receipts
<1>11. ASSUME NEW t \in Transfers, Restore(t) PROVE MutexInv'
  BY <1>11 DEF Restore
<1>12. ASSUME NEW t \in Transfers, MarkDirty(t) PROVE MutexInv'
  BY <1>12 DEF MarkDirty
<1>13. CASE TipAdvances
  BY <1>13 DEF TipAdvances
<1>14. CASE Poll
  BY <1>14 DEF Poll
<1>15. ASSUME NEW o \in Outpoints, Deposit(o) PROVE MutexInv'
  BY <1>15 DEF Deposit
<1>16. CASE Merge
  BY <1>16 DEF Merge
<1>17. CASE UNCHANGED vars
  BY <1>17
<1> QED
  BY <1>1, <1>2, <1>3, <1>4, <1>5, <1>6, <1>7, <1>8, <1>9, <1>10, <1>11, <1>12, <1>13, <1>14, <1>15, <1>16, <1>17 DEF Next

(* A worker's outpoints are its own while it submits. *)
LEMMA DraftStep ==
    ASSUME TypeOK, DraftInv, [Next]_vars PROVE DraftInv'
<1> USE UtxoOK DEF vars, contract, slot, Goto, Fault, TypeOK, States, DraftInv, InFlight
<1>1. ASSUME NEW t \in Transfers, Lock(t) PROVE DraftInv'
  BY <1>1 DEF Lock
<1>2. ASSUME NEW t \in Transfers, FetchReads(t) PROVE DraftInv'
  BY <1>2 DEF FetchReads
<1>3. ASSUME NEW t \in Transfers, FetchFails(t) PROVE DraftInv'
  BY <1>3 DEF FetchFails
<1>4. ASSUME NEW t \in Transfers, Install(t) PROVE DraftInv'
  BY <1>4 DEF Install
<1>5. ASSUME NEW t \in Transfers, Select(t) PROVE DraftInv'
  BY <1>5 DEF Select
<1>6. ASSUME NEW t \in Transfers, SelectFails(t) PROVE DraftInv'
  BY <1>6 DEF SelectFails
<1>7. ASSUME NEW t \in Transfers, Lands(t) PROVE DraftInv'
  BY <1>7 DEF Lands
<1>8. ASSUME NEW t \in Transfers, Rejected(t) PROVE DraftInv'
  BY <1>8 DEF Rejected
<1>9. ASSUME NEW t \in Transfers, SubmitErrors(t) PROVE DraftInv'
  BY <1>9 DEF SubmitErrors
<1>10. ASSUME NEW t \in Transfers, Receipts(t) PROVE DraftInv'
  BY <1>10 DEF Receipts
<1>11. ASSUME NEW t \in Transfers, Restore(t) PROVE DraftInv'
  BY <1>11 DEF Restore
<1>12. ASSUME NEW t \in Transfers, MarkDirty(t) PROVE DraftInv'
  BY <1>12 DEF MarkDirty
<1>13. CASE TipAdvances
  BY <1>13 DEF TipAdvances
<1>14. CASE Poll
  BY <1>14 DEF Poll
<1>15. ASSUME NEW o \in Outpoints, Deposit(o) PROVE DraftInv'
  BY <1>15 DEF Deposit
<1>16. CASE Merge
  BY <1>16 DEF Merge
<1>17. CASE UNCHANGED vars
  BY <1>17
<1> QED
  BY <1>1, <1>2, <1>3, <1>4, <1>5, <1>6, <1>7, <1>8, <1>9, <1>10, <1>11, <1>12, <1>13, <1>14, <1>15, <1>16, <1>17 DEF Next

(* An answer on its way into the cache misses only news. *)
LEMMA ReloadStep ==
    ASSUME TypeOK, MutexInv, ReloadInv, [Next]_vars PROVE ReloadInv'
<1> USE UtxoOK DEF vars, contract, slot, Goto, Fault, TypeOK, States, MutexInv, ReloadInv
<1>1. ASSUME NEW t \in Transfers, Lock(t) PROVE ReloadInv'
  BY <1>1 DEF Lock
<1>2. ASSUME NEW t \in Transfers, FetchReads(t) PROVE ReloadInv'
  BY <1>2 DEF FetchReads
<1>3. ASSUME NEW t \in Transfers, FetchFails(t) PROVE ReloadInv'
  BY <1>3 DEF FetchFails
<1>4. ASSUME NEW t \in Transfers, Install(t) PROVE ReloadInv'
  BY <1>4 DEF Install
<1>5. ASSUME NEW t \in Transfers, Select(t) PROVE ReloadInv'
  BY <1>5 DEF Select
<1>6. ASSUME NEW t \in Transfers, SelectFails(t) PROVE ReloadInv'
  BY <1>6 DEF SelectFails
<1>7. ASSUME NEW t \in Transfers, Lands(t) PROVE ReloadInv'
  BY <1>7 DEF Lands
<1>8. ASSUME NEW t \in Transfers, Rejected(t) PROVE ReloadInv'
  BY <1>8 DEF Rejected
<1>9. ASSUME NEW t \in Transfers, SubmitErrors(t) PROVE ReloadInv'
  BY <1>9 DEF SubmitErrors
<1>10. ASSUME NEW t \in Transfers, Receipts(t) PROVE ReloadInv'
  BY <1>10 DEF Receipts
<1>11. ASSUME NEW t \in Transfers, Restore(t) PROVE ReloadInv'
  BY <1>11 DEF Restore
<1>12. ASSUME NEW t \in Transfers, MarkDirty(t) PROVE ReloadInv'
  BY <1>12 DEF MarkDirty
<1>13. CASE TipAdvances
  BY <1>13 DEF TipAdvances
<1>14. CASE Poll
  BY <1>14 DEF Poll
<1>15. ASSUME NEW o \in Outpoints, Deposit(o) PROVE ReloadInv'
  BY <1>15 DEF Deposit
<1>16. CASE Merge
  BY <1>16 DEF Merge
<1>17. CASE UNCHANGED vars
  BY <1>17
<1> QED
  BY <1>1, <1>2, <1>3, <1>4, <1>5, <1>6, <1>7, <1>8, <1>9, <1>10, <1>11, <1>12, <1>13, <1>14, <1>15, <1>16, <1>17 DEF Next

(* What landed stays spent. *)
LEMMA SpentStep ==
    ASSUME TypeOK, SpentInv, [Next]_vars PROVE SpentInv'
<1> USE UtxoOK DEF vars, contract, slot, Goto, Fault, TypeOK, States, SpentInv
<1>1. ASSUME NEW t \in Transfers, Lock(t) PROVE SpentInv'
  BY <1>1 DEF Lock
<1>2. ASSUME NEW t \in Transfers, FetchReads(t) PROVE SpentInv'
  BY <1>2 DEF FetchReads
<1>3. ASSUME NEW t \in Transfers, FetchFails(t) PROVE SpentInv'
  BY <1>3 DEF FetchFails
<1>4. ASSUME NEW t \in Transfers, Install(t) PROVE SpentInv'
  BY <1>4 DEF Install
<1>5. ASSUME NEW t \in Transfers, Select(t) PROVE SpentInv'
  BY <1>5 DEF Select
<1>6. ASSUME NEW t \in Transfers, SelectFails(t) PROVE SpentInv'
  BY <1>6 DEF SelectFails
<1>7. ASSUME NEW t \in Transfers, Lands(t) PROVE SpentInv'
  BY <1>7 DEF Lands
<1>8. ASSUME NEW t \in Transfers, Rejected(t) PROVE SpentInv'
  BY <1>8 DEF Rejected
<1>9. ASSUME NEW t \in Transfers, SubmitErrors(t) PROVE SpentInv'
  BY <1>9 DEF SubmitErrors
<1>10. ASSUME NEW t \in Transfers, Receipts(t) PROVE SpentInv'
  BY <1>10 DEF Receipts
<1>11. ASSUME NEW t \in Transfers, Restore(t) PROVE SpentInv'
  BY <1>11 DEF Restore
<1>12. ASSUME NEW t \in Transfers, MarkDirty(t) PROVE SpentInv'
  BY <1>12 DEF MarkDirty
<1>13. CASE TipAdvances
  BY <1>13 DEF TipAdvances
<1>14. CASE Poll
  BY <1>14 DEF Poll
<1>15. ASSUME NEW o \in Outpoints, Deposit(o) PROVE SpentInv'
  BY <1>15 DEF Deposit
<1>16. CASE Merge
  BY <1>16 DEF Merge
<1>17. CASE UNCHANGED vars
  BY <1>17
<1> QED
  BY <1>1, <1>2, <1>3, <1>4, <1>5, <1>6, <1>7, <1>8, <1>9, <1>10, <1>11, <1>12, <1>13, <1>14, <1>15, <1>16, <1>17 DEF Next

(* What is held stays out of the cache. *)
LEMMA ApartStep ==
    ASSUME TypeOK, NoDoubleSelection, ApartInv, [Next]_vars PROVE ApartInv'
<1> USE UtxoOK DEF vars, contract, slot, Goto, Fault, TypeOK, Held, NoDoubleSelection, ApartInv
<1>1. ASSUME NEW t \in Transfers, Lock(t) PROVE ApartInv'
  BY <1>1 DEF Lock
<1>2. ASSUME NEW t \in Transfers, FetchReads(t) PROVE ApartInv'
  BY <1>2 DEF FetchReads
<1>3. ASSUME NEW t \in Transfers, FetchFails(t) PROVE ApartInv'
  BY <1>3 DEF FetchFails
<1>4. ASSUME NEW t \in Transfers, Install(t) PROVE ApartInv'
  BY <1>4 DEF Install
<1>5. ASSUME NEW t \in Transfers, Select(t) PROVE ApartInv'
  BY <1>5 DEF Select
<1>6. ASSUME NEW t \in Transfers, SelectFails(t) PROVE ApartInv'
  BY <1>6 DEF SelectFails
<1>7. ASSUME NEW t \in Transfers, Lands(t) PROVE ApartInv'
  BY <1>7 DEF Lands
<1>8. ASSUME NEW t \in Transfers, Rejected(t) PROVE ApartInv'
  BY <1>8 DEF Rejected
<1>9. ASSUME NEW t \in Transfers, SubmitErrors(t) PROVE ApartInv'
  BY <1>9 DEF SubmitErrors
<1>10. ASSUME NEW t \in Transfers, Receipts(t) PROVE ApartInv'
  BY <1>10 DEF Receipts
<1>11. ASSUME NEW t \in Transfers, Restore(t) PROVE ApartInv'
  BY <1>11 DEF Restore
<1>12. ASSUME NEW t \in Transfers, MarkDirty(t) PROVE ApartInv'
  BY <1>12 DEF MarkDirty
<1>13. CASE TipAdvances
  BY <1>13 DEF TipAdvances
<1>14. CASE Poll
  BY <1>14 DEF Poll
<1>15. ASSUME NEW o \in Outpoints, Deposit(o) PROVE ApartInv'
  BY <1>15 DEF Deposit
<1>16. CASE Merge
  BY <1>16 DEF Merge
<1>17. CASE UNCHANGED vars
  BY <1>17
<1> QED
  BY <1>1, <1>2, <1>3, <1>4, <1>5, <1>6, <1>7, <1>8, <1>9, <1>10, <1>11, <1>12, <1>13, <1>14, <1>15, <1>16, <1>17 DEF Next

(* What is selected is held by nobody. *)
LEMMA DoubleStep ==
    ASSUME TypeOK, NoDoubleSelection, ApartInv, [Next]_vars PROVE NoDoubleSelection'
<1> USE UtxoOK DEF vars, contract, slot, Goto, Fault, TypeOK, Held, NoDoubleSelection, ApartInv
<1>1. ASSUME NEW t \in Transfers, Lock(t) PROVE NoDoubleSelection'
  BY <1>1 DEF Lock
<1>2. ASSUME NEW t \in Transfers, FetchReads(t) PROVE NoDoubleSelection'
  BY <1>2 DEF FetchReads
<1>3. ASSUME NEW t \in Transfers, FetchFails(t) PROVE NoDoubleSelection'
  BY <1>3 DEF FetchFails
<1>4. ASSUME NEW t \in Transfers, Install(t) PROVE NoDoubleSelection'
  BY <1>4 DEF Install
<1>5. ASSUME NEW t \in Transfers, Select(t) PROVE NoDoubleSelection'
  BY <1>5 DEF Select
<1>6. ASSUME NEW t \in Transfers, SelectFails(t) PROVE NoDoubleSelection'
  BY <1>6 DEF SelectFails
<1>7. ASSUME NEW t \in Transfers, Lands(t) PROVE NoDoubleSelection'
  BY <1>7 DEF Lands
<1>8. ASSUME NEW t \in Transfers, Rejected(t) PROVE NoDoubleSelection'
  BY <1>8 DEF Rejected
<1>9. ASSUME NEW t \in Transfers, SubmitErrors(t) PROVE NoDoubleSelection'
  BY <1>9 DEF SubmitErrors
<1>10. ASSUME NEW t \in Transfers, Receipts(t) PROVE NoDoubleSelection'
  BY <1>10 DEF Receipts
<1>11. ASSUME NEW t \in Transfers, Restore(t) PROVE NoDoubleSelection'
  BY <1>11 DEF Restore
<1>12. ASSUME NEW t \in Transfers, MarkDirty(t) PROVE NoDoubleSelection'
  BY <1>12 DEF MarkDirty
<1>13. CASE TipAdvances
  BY <1>13 DEF TipAdvances
<1>14. CASE Poll
  BY <1>14 DEF Poll
<1>15. ASSUME NEW o \in Outpoints, Deposit(o) PROVE NoDoubleSelection'
  BY <1>15 DEF Deposit
<1>16. CASE Merge
  BY <1>16 DEF Merge
<1>17. CASE UNCHANGED vars
  BY <1>17
<1> QED
  BY <1>1, <1>2, <1>3, <1>4, <1>5, <1>6, <1>7, <1>8, <1>9, <1>10, <1>11, <1>12, <1>13, <1>14, <1>15, <1>16, <1>17 DEF Next

(* No step leaves an unflagged phantom in the cache. *)
LEMMA PhantomStep ==
    ASSUME TypeOK, NoDoubleSelection, ApartInv, PhantomsAreFlagged, StaleInv, [Next]_vars PROVE PhantomsAreFlagged'
<1> USE UtxoOK DEF vars, contract, slot, Goto, Fault, TypeOK, Held, States, Refreshing, Flagged, NoDoubleSelection, ApartInv, PhantomsAreFlagged, StaleInv
<1>1. ASSUME NEW t \in Transfers, Lock(t) PROVE PhantomsAreFlagged'
  BY <1>1 DEF Lock
<1>2. ASSUME NEW t \in Transfers, FetchReads(t) PROVE PhantomsAreFlagged'
  BY <1>2 DEF FetchReads
<1>3. ASSUME NEW t \in Transfers, FetchFails(t) PROVE PhantomsAreFlagged'
  BY <1>3 DEF FetchFails
<1>4. ASSUME NEW t \in Transfers, Install(t) PROVE PhantomsAreFlagged'
  BY <1>4 DEF Install
<1>5. ASSUME NEW t \in Transfers, Select(t) PROVE PhantomsAreFlagged'
  BY <1>5 DEF Select
<1>6. ASSUME NEW t \in Transfers, SelectFails(t) PROVE PhantomsAreFlagged'
  BY <1>6 DEF SelectFails
<1>7. ASSUME NEW t \in Transfers, Lands(t) PROVE PhantomsAreFlagged'
  BY <1>7 DEF Lands
<1>8. ASSUME NEW t \in Transfers, Rejected(t) PROVE PhantomsAreFlagged'
  BY <1>8 DEF Rejected
<1>9. ASSUME NEW t \in Transfers, SubmitErrors(t) PROVE PhantomsAreFlagged'
  BY <1>9 DEF SubmitErrors
<1>10. ASSUME NEW t \in Transfers, Receipts(t) PROVE PhantomsAreFlagged'
  BY <1>10 DEF Receipts
<1>11. ASSUME NEW t \in Transfers, Restore(t) PROVE PhantomsAreFlagged'
  BY <1>11 DEF Restore
<1>12. ASSUME NEW t \in Transfers, MarkDirty(t) PROVE PhantomsAreFlagged'
  BY <1>12 DEF MarkDirty
<1>13. CASE TipAdvances
  BY <1>13 DEF TipAdvances
<1>14. CASE Poll
  BY <1>14 DEF Poll
<1>15. ASSUME NEW o \in Outpoints, Deposit(o) PROVE PhantomsAreFlagged'
  BY <1>15 DEF Deposit
<1>16. CASE Merge
  BY <1>16 DEF Merge
<1>17. CASE UNCHANGED vars
  BY <1>17
<1> QED
  BY <1>1, <1>2, <1>3, <1>4, <1>5, <1>6, <1>7, <1>8, <1>9, <1>10, <1>11, <1>12, <1>13, <1>14, <1>15, <1>16, <1>17 DEF Next

(* No step leaves one in a draft that comes back unmarked. *)
LEMMA StaleStep ==
    ASSUME TypeOK, NoDoubleSelection, ApartInv, PhantomsAreFlagged, StaleInv, [Next]_vars PROVE StaleInv'
<1> USE UtxoOK DEF vars, contract, slot, Goto, Fault, TypeOK, Held, States, Refreshing, Flagged, NoDoubleSelection, ApartInv, PhantomsAreFlagged, StaleInv
<1>1. ASSUME NEW t \in Transfers, Lock(t) PROVE StaleInv'
  BY <1>1 DEF Lock
<1>2. ASSUME NEW t \in Transfers, FetchReads(t) PROVE StaleInv'
  BY <1>2 DEF FetchReads
<1>3. ASSUME NEW t \in Transfers, FetchFails(t) PROVE StaleInv'
  BY <1>3 DEF FetchFails
<1>4. ASSUME NEW t \in Transfers, Install(t) PROVE StaleInv'
  BY <1>4 DEF Install
<1>5. ASSUME NEW t \in Transfers, Select(t) PROVE StaleInv'
  BY <1>5 DEF Select
<1>6. ASSUME NEW t \in Transfers, SelectFails(t) PROVE StaleInv'
  <2>1. /\ pc[t] = "selecting" /\ (pc' = [pc EXCEPT ![t] = "queued"] \/ pc' = [pc EXCEPT ![t] = "gone"])
        /\ dirty => dirty'
        /\ UNCHANGED <<available, contested, draft>>
    BY <1>6 DEF SelectFails
  <2>2. Flagged => Flagged'
    BY <2>1
  <2>3. \A u \in Transfers : pc'[u] \in {"submitting", "restoring"} => pc'[u] = pc[u]
    BY <2>1
  <2> QED
    BY <2>1, <2>2, <2>3 DEF StaleInv
<1>7. ASSUME NEW t \in Transfers, Lands(t) PROVE StaleInv'
  BY <1>7 DEF Lands
<1>8. ASSUME NEW t \in Transfers, Rejected(t) PROVE StaleInv'
  BY <1>8 DEF Rejected
<1>9. ASSUME NEW t \in Transfers, SubmitErrors(t) PROVE StaleInv'
  BY <1>9 DEF SubmitErrors
<1>10. ASSUME NEW t \in Transfers, Receipts(t) PROVE StaleInv'
  BY <1>10 DEF Receipts
<1>11. ASSUME NEW t \in Transfers, Restore(t) PROVE StaleInv'
  BY <1>11 DEF Restore
<1>12. ASSUME NEW t \in Transfers, MarkDirty(t) PROVE StaleInv'
  BY <1>12 DEF MarkDirty
<1>13. CASE TipAdvances
  BY <1>13 DEF TipAdvances
<1>14. CASE Poll
  BY <1>14 DEF Poll
<1>15. ASSUME NEW o \in Outpoints, Deposit(o) PROVE StaleInv'
  BY <1>15 DEF Deposit
<1>16. CASE Merge
  BY <1>16 DEF Merge
<1>17. CASE UNCHANGED vars
  BY <1>17
<1> QED
  BY <1>1, <1>2, <1>3, <1>4, <1>5, <1>6, <1>7, <1>8, <1>9, <1>10, <1>11, <1>12, <1>13, <1>14, <1>15, <1>16, <1>17 DEF Next

(* No step drops an outpoint of the contract unseen. *)
LEMMA MissingStep ==
    ASSUME TypeOK, MutexInv, DraftInv, ReloadInv, SpentInv, MissingInv, [Next]_vars PROVE MissingInv'
<1> USE UtxoOK DEF vars, contract, slot, Goto, Fault, TypeOK, States, Refreshing, InFlight, MutexInv, DraftInv, ReloadInv, SpentInv, MissingInv
<1>1. ASSUME NEW t \in Transfers, Lock(t) PROVE MissingInv'
  BY <1>1 DEF Lock
<1>2. ASSUME NEW t \in Transfers, FetchReads(t) PROVE MissingInv'
  BY <1>2 DEF FetchReads
<1>3. ASSUME NEW t \in Transfers, FetchFails(t) PROVE MissingInv'
  BY <1>3 DEF FetchFails
<1>4. ASSUME NEW t \in Transfers, Install(t) PROVE MissingInv'
  BY <1>4 DEF Install
<1>5. ASSUME NEW t \in Transfers, Select(t) PROVE MissingInv'
  <2>1. PICK d \in SUBSET (IF cache = {} THEN available ELSE cache) :
           taken' = [taken EXCEPT ![t] = d \cap cache] /\ cache' = cache \ d
    BY <1>5 DEF Select
  <2>2. taken[t] = {} /\ UNCHANGED <<available, news, dirty>> /\ pc' = [pc EXCEPT ![t] = "submitting"]
        /\ pc[t] = "selecting"
    BY <1>5 DEF Select
  <2>3. ASSUME NEW o \in available, o \notin cache' 
        PROVE (\E u \in Transfers : o \in taken'[u]) \/ o \in news \/ dirty \/ Refreshing
    <3>1. CASE o \in cache
      BY <3>1, <2>1, <2>3
    <3>2. CASE o \notin cache
      BY <3>2, <2>1, <2>2
    <3> QED BY <3>1, <3>2
  <2>4. Refreshing => Refreshing'
    BY <2>2
  <2> QED
    BY <2>2, <2>3, <2>4
<1>6. ASSUME NEW t \in Transfers, SelectFails(t) PROVE MissingInv'
  BY <1>6 DEF SelectFails
<1>7. ASSUME NEW t \in Transfers, Lands(t) PROVE MissingInv'
  BY <1>7 DEF Lands
<1>8. ASSUME NEW t \in Transfers, Rejected(t) PROVE MissingInv'
  BY <1>8 DEF Rejected
<1>9. ASSUME NEW t \in Transfers, SubmitErrors(t) PROVE MissingInv'
  BY <1>9 DEF SubmitErrors
<1>10. ASSUME NEW t \in Transfers, Receipts(t) PROVE MissingInv'
  BY <1>10 DEF Receipts
<1>11. ASSUME NEW t \in Transfers, Restore(t) PROVE MissingInv'
  BY <1>11 DEF Restore
<1>12. ASSUME NEW t \in Transfers, MarkDirty(t) PROVE MissingInv'
  BY <1>12 DEF MarkDirty
<1>13. CASE TipAdvances
  BY <1>13 DEF TipAdvances
<1>14. CASE Poll
  BY <1>14 DEF Poll
<1>15. ASSUME NEW o \in Outpoints, Deposit(o) PROVE MissingInv'
  BY <1>15 DEF Deposit
<1>16. CASE Merge
  BY <1>16 DEF Merge
<1>17. CASE UNCHANGED vars
  BY <1>17
<1> QED
  BY <1>1, <1>2, <1>3, <1>4, <1>5, <1>6, <1>7, <1>8, <1>9, <1>10, <1>11, <1>12, <1>13, <1>14, <1>15, <1>16, <1>17 DEF Next

(* The inductive invariant, from which the properties follow. *)
LEMMA UtxoInvariant == Spec => []UtxoInv
<1>1. Init => UtxoInv
  BY UtxoOK DEF Init, UtxoInv, TypeOK, States, MutexInv, DraftInv, ReloadInv, SpentInv,
       NoDoubleSelection, ApartInv, PhantomsAreFlagged, StaleInv, MissingInv
<1>2. UtxoInv /\ [Next]_vars => UtxoInv'
  BY TypeStep, MutexStep, DraftStep, ReloadStep, SpentStep, ApartStep, DoubleStep,
     PhantomStep, StaleStep, MissingStep DEF UtxoInv
<1> QED
  BY <1>1, <1>2, PTL DEF Spec

(* Every reachable state is well typed: what is cached, fetched or held    *)
(* are outpoints that exist.                                               *)
THEOREM UtxoTypeCorrect == Spec => []TypeOK
BY UtxoInvariant, PTL DEF UtxoInv

(* Workers that run side by side never submit the same outpoint, unless a  *)
(* reload, a selection on an empty cache or the active manager came        *)
(* between.                                                                *)
THEOREM OutpointsSelectedOnce == Spec => []NoDoubleSelection
BY UtxoInvariant, PTL DEF UtxoInv

(* An outpoint that the contract spent is not left in the cache: it is     *)
(* contested, or the set is reloaded before the next selection from it.    *)
THEOREM PhantomsGetReloaded == Spec => []PhantomsAreFlagged
BY UtxoInvariant, PTL DEF UtxoInv

(* No outpoint of the contract falls out of sight: what a worker took is   *)
(* spent, put back, or news to the next reload.                            *)
THEOREM OutpointsStayInSight == Spec => []NoOutpointForgotten
<1>1. UtxoInv => NoOutpointForgotten
  BY DEF UtxoInv, TypeOK, MissingInv, NoOutpointForgotten, Held
<1> QED
  BY <1>1, UtxoInvariant, PTL
=============================================================================
