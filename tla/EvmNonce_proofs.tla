-------------------------- MODULE EvmNonce_proofs --------------------------
(* What TLAPS establishes about EvmNonce for every set of messages, number *)
(* of chains, worker count and bound.                                      *)
EXTENDS EvmNonce, TLAPS

(* Every step keeps the types of the counters and the flag. *)
LEMMA CounterTypes ==
    ASSUME TypeOK, Next PROVE CounterTypeOK'
<1> USE ConstantsOK DEF TypeOK, CounterTypeOK, DispatcherTypeOK, TaskTypeOK, ChainTypeOK,
       HistoryTypeOK, DispatcherStates, TaskStates, NoNonce, dispatcher, chain,
       history, Fault
<1>1. CASE ReadCount
  BY <1>1 DEF ReadCount
<1>2. CASE ReadFails
  BY <1>2 DEF ReadFails
<1>3. CASE WriteCount
  BY <1>3 DEF WriteCount, Chains
<1>4. CASE ClearFlag
  BY <1>4 DEF ClearFlag
<1>5. CASE Spawn
  BY <1>5 DEF Spawn
<1>6. CASE Crash
  BY <1>6 DEF Crash, Chains
<1>7. ASSUME NEW m \in Msgs, NextMessage(m) PROVE CounterTypeOK'
  BY <1>7 DEF NextMessage, Chains
<1>8. ASSUME NEW m \in Msgs, Screen(m) PROVE CounterTypeOK'
  BY <1>8 DEF Screen
<1>9. ASSUME NEW m \in Msgs, Reserve(m) PROVE CounterTypeOK'
  BY <1>9 DEF Reserve
<1>10. ASSUME NEW m \in Msgs, SubmitAccepted(m) PROVE CounterTypeOK'
  BY <1>10 DEF SubmitAccepted, Usable
<1>11. ASSUME NEW m \in Msgs, SubmitFails(m) PROVE CounterTypeOK'
  BY <1>11 DEF SubmitFails
<1>12. ASSUME NEW m \in Msgs, SubmitReverts(m) PROVE CounterTypeOK'
  BY <1>12 DEF SubmitReverts
<1>13. ASSUME NEW m \in Msgs, RequestResync(m) PROVE CounterTypeOK'
  BY <1>13 DEF RequestResync
<1>14. ASSUME NEW m \in Msgs, Settle(m) PROVE CounterTypeOK'
  BY <1>14 DEF Settle
<1>15. ASSUME NEW c \in Chains, Mine(c) PROVE CounterTypeOK'
  BY <1>15 DEF Mine
<1>16. ASSUME NEW c \in Chains, Evict(c) PROVE CounterTypeOK'
  BY <1>16 DEF Evict
<1> QED
  BY <1>1, <1>2, <1>3, <1>4, <1>5, <1>6, <1>7, <1>8, <1>9, <1>10, <1>11, <1>12, <1>13, <1>14, <1>15, <1>16 DEF Next

(* Every step keeps the types of the dispatcher's variables. *)
LEMMA DispatcherTypes ==
    ASSUME TypeOK, Next PROVE DispatcherTypeOK'
<1> USE ConstantsOK DEF TypeOK, CounterTypeOK, DispatcherTypeOK, TaskTypeOK, ChainTypeOK,
       HistoryTypeOK, DispatcherStates, TaskStates, NoNonce, dispatcher, chain,
       history, Fault
<1>1. CASE ReadCount
  BY <1>1 DEF ReadCount
<1>2. CASE ReadFails
  BY <1>2 DEF ReadFails
<1>3. CASE WriteCount
  <2>1. at' \in Chains
    <3>1. at' = at \/ (at < NumChains /\ at' = at + 1)
      BY <1>3 DEF WriteCount
    <3>2. at \in 1..NumChains /\ NumChains \in Nat
      BY DEF Chains
    <3>3. at' \in 1..NumChains
      BY ONLY <3>1, <3>2
    <3> QED
      BY ONLY <3>3 DEF Chains
  <2>2. /\ pc' \in DispatcherStates /\ held' = held /\ got' = 0
    BY <1>3 DEF WriteCount
  <2> QED
    BY <2>1, <2>2
<1>4. CASE ClearFlag
  BY <1>4 DEF ClearFlag
<1>5. CASE Spawn
  BY <1>5 DEF Spawn
<1>6. CASE Crash
  BY <1>6 DEF Crash, Chains
<1>7. ASSUME NEW m \in Msgs, NextMessage(m) PROVE DispatcherTypeOK'
  BY <1>7 DEF NextMessage, Chains
<1>8. ASSUME NEW m \in Msgs, Screen(m) PROVE DispatcherTypeOK'
  BY <1>8 DEF Screen
<1>9. ASSUME NEW m \in Msgs, Reserve(m) PROVE DispatcherTypeOK'
  BY <1>9 DEF Reserve
<1>10. ASSUME NEW m \in Msgs, SubmitAccepted(m) PROVE DispatcherTypeOK'
  BY <1>10 DEF SubmitAccepted, Usable
<1>11. ASSUME NEW m \in Msgs, SubmitFails(m) PROVE DispatcherTypeOK'
  BY <1>11 DEF SubmitFails
<1>12. ASSUME NEW m \in Msgs, SubmitReverts(m) PROVE DispatcherTypeOK'
  BY <1>12 DEF SubmitReverts
<1>13. ASSUME NEW m \in Msgs, RequestResync(m) PROVE DispatcherTypeOK'
  BY <1>13 DEF RequestResync
<1>14. ASSUME NEW m \in Msgs, Settle(m) PROVE DispatcherTypeOK'
  BY <1>14 DEF Settle
<1>15. ASSUME NEW c \in Chains, Mine(c) PROVE DispatcherTypeOK'
  BY <1>15 DEF Mine
<1>16. ASSUME NEW c \in Chains, Evict(c) PROVE DispatcherTypeOK'
  BY <1>16 DEF Evict
<1> QED
  BY <1>1, <1>2, <1>3, <1>4, <1>5, <1>6, <1>7, <1>8, <1>9, <1>10, <1>11, <1>12, <1>13, <1>14, <1>15, <1>16 DEF Next

(* Every step keeps the types of the tasks, and a reserved task has a nonce. *)
LEMMA TaskTypes ==
    ASSUME TypeOK, Next PROVE TaskTypeOK'
<1> USE ConstantsOK DEF TypeOK, CounterTypeOK, DispatcherTypeOK, TaskTypeOK, ChainTypeOK,
       HistoryTypeOK, DispatcherStates, TaskStates, NoNonce, dispatcher, chain,
       history, Fault
<1>1. CASE ReadCount
  BY <1>1 DEF ReadCount
<1>2. CASE ReadFails
  <2>1. task' \in [Msgs -> TaskStates]
    BY <1>2 DEF ReadFails
  <2>2. \A m \in Msgs : task'[m] = "reserved" => task[m] = "reserved"
    BY <1>2 DEF ReadFails
  <2>3. mine' = mine /\ faults' \in 0..MaxFaults
    BY <1>2 DEF ReadFails
  <2> QED
    BY <2>1, <2>2, <2>3
<1>3. CASE WriteCount
  BY <1>3 DEF WriteCount, Chains
<1>4. CASE ClearFlag
  BY <1>4 DEF ClearFlag
<1>5. CASE Spawn
  BY <1>5 DEF Spawn
<1>6. CASE Crash
  BY <1>6 DEF Crash, Chains
<1>7. ASSUME NEW m \in Msgs, NextMessage(m) PROVE TaskTypeOK'
  BY <1>7 DEF NextMessage, Chains
<1>8. ASSUME NEW m \in Msgs, Screen(m) PROVE TaskTypeOK'
  BY <1>8 DEF Screen
<1>9. ASSUME NEW m \in Msgs, Reserve(m) PROVE TaskTypeOK'
  BY <1>9 DEF Reserve
<1>10. ASSUME NEW m \in Msgs, SubmitAccepted(m) PROVE TaskTypeOK'
  BY <1>10 DEF SubmitAccepted, Usable
<1>11. ASSUME NEW m \in Msgs, SubmitFails(m) PROVE TaskTypeOK'
  BY <1>11 DEF SubmitFails
<1>12. ASSUME NEW m \in Msgs, SubmitReverts(m) PROVE TaskTypeOK'
  BY <1>12 DEF SubmitReverts
<1>13. ASSUME NEW m \in Msgs, RequestResync(m) PROVE TaskTypeOK'
  BY <1>13 DEF RequestResync
<1>14. ASSUME NEW m \in Msgs, Settle(m) PROVE TaskTypeOK'
  BY <1>14 DEF Settle
<1>15. ASSUME NEW c \in Chains, Mine(c) PROVE TaskTypeOK'
  BY <1>15 DEF Mine
<1>16. ASSUME NEW c \in Chains, Evict(c) PROVE TaskTypeOK'
  BY <1>16 DEF Evict
<1> QED
  BY <1>1, <1>2, <1>3, <1>4, <1>5, <1>6, <1>7, <1>8, <1>9, <1>10, <1>11, <1>12, <1>13, <1>14, <1>15, <1>16 DEF Next

(* Every step keeps the types of the chains' state. *)
LEMMA ChainTypes ==
    ASSUME TypeOK, Next PROVE ChainTypeOK'
<1> USE ConstantsOK DEF TypeOK, CounterTypeOK, DispatcherTypeOK, TaskTypeOK, ChainTypeOK,
       HistoryTypeOK, DispatcherStates, TaskStates, NoNonce, dispatcher, chain,
       history, Fault
<1>1. CASE ReadCount
  BY <1>1 DEF ReadCount
<1>2. CASE ReadFails
  BY <1>2 DEF ReadFails
<1>3. CASE WriteCount
  BY <1>3 DEF WriteCount, Chains
<1>4. CASE ClearFlag
  BY <1>4 DEF ClearFlag
<1>5. CASE Spawn
  BY <1>5 DEF Spawn
<1>6. CASE Crash
  BY <1>6 DEF Crash, Chains
<1>7. ASSUME NEW m \in Msgs, NextMessage(m) PROVE ChainTypeOK'
  BY <1>7 DEF NextMessage, Chains
<1>8. ASSUME NEW m \in Msgs, Screen(m) PROVE ChainTypeOK'
  BY <1>8 DEF Screen
<1>9. ASSUME NEW m \in Msgs, Reserve(m) PROVE ChainTypeOK'
  BY <1>9 DEF Reserve
<1>10. ASSUME NEW m \in Msgs, SubmitAccepted(m) PROVE ChainTypeOK'
  BY <1>10 DEF SubmitAccepted, Usable
<1>11. ASSUME NEW m \in Msgs, SubmitFails(m) PROVE ChainTypeOK'
  BY <1>11 DEF SubmitFails
<1>12. ASSUME NEW m \in Msgs, SubmitReverts(m) PROVE ChainTypeOK'
  BY <1>12 DEF SubmitReverts
<1>13. ASSUME NEW m \in Msgs, RequestResync(m) PROVE ChainTypeOK'
  BY <1>13 DEF RequestResync
<1>14. ASSUME NEW m \in Msgs, Settle(m) PROVE ChainTypeOK'
  BY <1>14 DEF Settle
<1>15. ASSUME NEW c \in Chains, Mine(c) PROVE ChainTypeOK'
  BY <1>15 DEF Mine
<1>16. ASSUME NEW c \in Chains, Evict(c) PROVE ChainTypeOK'
  BY <1>16 DEF Evict
<1> QED
  BY <1>1, <1>2, <1>3, <1>4, <1>5, <1>6, <1>7, <1>8, <1>9, <1>10, <1>11, <1>12, <1>13, <1>14, <1>15, <1>16 DEF Next

(* Every step keeps the types of the history variables. *)
LEMMA HistoryTypes ==
    ASSUME TypeOK, Next PROVE HistoryTypeOK'
<1> USE ConstantsOK DEF TypeOK, CounterTypeOK, DispatcherTypeOK, TaskTypeOK, ChainTypeOK,
       HistoryTypeOK, DispatcherStates, TaskStates, NoNonce, dispatcher, chain,
       history, Fault
<1>1. CASE ReadCount
  BY <1>1 DEF ReadCount
<1>2. CASE ReadFails
  BY <1>2 DEF ReadFails
<1>3. CASE WriteCount
  BY <1>3 DEF WriteCount, Chains
<1>4. CASE ClearFlag
  BY <1>4 DEF ClearFlag
<1>5. CASE Spawn
  BY <1>5 DEF Spawn
<1>6. CASE Crash
  BY <1>6 DEF Crash, Chains
<1>7. ASSUME NEW m \in Msgs, NextMessage(m) PROVE HistoryTypeOK'
  BY <1>7 DEF NextMessage, Chains
<1>8. ASSUME NEW m \in Msgs, Screen(m) PROVE HistoryTypeOK'
  BY <1>8 DEF Screen
<1>9. ASSUME NEW m \in Msgs, Reserve(m) PROVE HistoryTypeOK'
  BY <1>9 DEF Reserve
<1>10. ASSUME NEW m \in Msgs, SubmitAccepted(m) PROVE HistoryTypeOK'
  BY <1>10 DEF SubmitAccepted, Usable
<1>11. ASSUME NEW m \in Msgs, SubmitFails(m) PROVE HistoryTypeOK'
  BY <1>11 DEF SubmitFails
<1>12. ASSUME NEW m \in Msgs, SubmitReverts(m) PROVE HistoryTypeOK'
  BY <1>12 DEF SubmitReverts
<1>13. ASSUME NEW m \in Msgs, RequestResync(m) PROVE HistoryTypeOK'
  BY <1>13 DEF RequestResync
<1>14. ASSUME NEW m \in Msgs, Settle(m) PROVE HistoryTypeOK'
  BY <1>14 DEF Settle
<1>15. ASSUME NEW c \in Chains, Mine(c) PROVE HistoryTypeOK'
  BY <1>15 DEF Mine
<1>16. ASSUME NEW c \in Chains, Evict(c) PROVE HistoryTypeOK'
  BY <1>16 DEF Evict
<1> QED
  BY <1>1, <1>2, <1>3, <1>4, <1>5, <1>6, <1>7, <1>8, <1>9, <1>10, <1>11, <1>12, <1>13, <1>14, <1>15, <1>16 DEF Next

(* Every variable keeps its type in every reachable state. *)
THEOREM TypeCorrect == Spec => []TypeOK
<1>1. Init => TypeOK
  BY ConstantsOK DEF Init, TypeOK, CounterTypeOK, DispatcherTypeOK, TaskTypeOK,
     ChainTypeOK, HistoryTypeOK, DispatcherStates, TaskStates, Chains, NoNonce
<1>2. TypeOK /\ [Next]_vars => TypeOK'
  <2> SUFFICES ASSUME TypeOK, [Next]_vars PROVE TypeOK'
    OBVIOUS
  <2>1. CASE Next
    BY <2>1, CounterTypes, DispatcherTypes, TaskTypes, ChainTypes, HistoryTypes DEF TypeOK
  <2>2. CASE UNCHANGED vars
    BY <2>2 DEF vars, dispatcher, chain, history, TypeOK, CounterTypeOK,
       DispatcherTypeOK, TaskTypeOK, ChainTypeOK, HistoryTypeOK
  <2> QED
    BY <2>1, <2>2
<1>3. QED
  BY <1>1, <1>2, PTL DEF Spec

-----------------------------------------------------------------------------
(* A step keeps the nonces reserved since the last resync distinct and     *)
(* below the counter: Reserve takes the counter and moves it on, a resync  *)
(* or a restart makes every older reservation stale, all else only         *)
(* forgets reservations.                                                   *)
LEMMA UniqueStep ==
    ASSUME TypeOK, UniqueInv, Next PROVE UniqueInv'
<1> DEFINE Quiet == UNCHANGED <<nonce, mine, fresh>>
<1> USE DEF TypeOK, CounterTypeOK, TaskTypeOK, HistoryTypeOK
<1>1. CASE WriteCount
  <2>1. \A m \in fresh' : m \in fresh /\ ChainOf[m] # at /\ mine'[m] = mine[m]
    BY <1>1 DEF WriteCount, dispatcher, chain
  <2>2. \A m \in fresh' : nonce'[ChainOf[m]] = nonce[ChainOf[m]]
    BY <1>1, <2>1, ConstantsOK DEF WriteCount
  <2> QED
    BY <2>1, <2>2 DEF UniqueInv, UniqueSinceResync
<1>2. ASSUME NEW m \in Msgs, Reserve(m) PROVE UniqueInv'
  <2> DEFINE c == ChainOf[m]
  <2>1. c \in Chains /\ nonce[c] \in Nat
    BY ConstantsOK
  <2>2. /\ fresh' = fresh \cup {m}
        /\ mine' = [mine EXCEPT ![m] = nonce[c]]
        /\ nonce' = [nonce EXCEPT ![c] = nonce[c] + 1]
    BY <1>2 DEF Reserve
  <2>3. mine'[m] = nonce[c] /\ nonce'[c] = nonce[c] + 1
    BY <2>1, <2>2
  <2>4. \A n \in fresh : n # m => mine'[n] = mine[n]
    BY <2>2
  <2>5. \A d \in Chains : nonce'[d] >= nonce[d] /\ (d # c => nonce'[d] = nonce[d])
    BY <2>1, <2>2
  <2>6. \A n \in fresh : n # m =>
           mine[n] \in Nat /\ mine[n] < nonce[ChainOf[n]] /\ ChainOf[n] \in Chains
    BY ConstantsOK DEF UniqueInv
  <2>7. \A n \in fresh' : mine'[n] # NoNonce /\ mine'[n] < nonce'[ChainOf[n]]
    BY <2>1, <2>2, <2>3, <2>4, <2>5, <2>6 DEF NoNonce
  <2>8. \A n \in fresh : n # m /\ ChainOf[n] = c => mine'[n] # mine'[m]
    BY <2>1, <2>3, <2>4, <2>6
  <2>9. UniqueSinceResync'
    BY <2>2, <2>4, <2>8 DEF UniqueInv, UniqueSinceResync
  <2> QED
    BY <2>7, <2>9 DEF UniqueInv
<1>3. ASSUME NEW m \in Msgs, Settle(m) PROVE UniqueInv'
  <2>1. nonce' = nonce /\ \A n \in fresh' : n \in fresh /\ mine'[n] = mine[n]
    BY <1>3 DEF Settle
  <2> QED
    BY <2>1 DEF UniqueInv, UniqueSinceResync
<1>4. CASE Crash
  BY <1>4 DEF Crash, UniqueInv, UniqueSinceResync
<1>5. CASE ReadCount \/ ReadFails \/ ClearFlag \/ Spawn
  BY <1>5 DEF ReadCount, ReadFails, ClearFlag, Spawn, history, UniqueInv, UniqueSinceResync
<1>6. ASSUME NEW m \in Msgs, NextMessage(m) \/ Screen(m) \/ SubmitAccepted(m)
                            \/ SubmitFails(m) \/ SubmitReverts(m) \/ RequestResync(m)
      PROVE Quiet
  BY <1>6 DEF NextMessage, Screen, SubmitAccepted, SubmitFails, SubmitReverts,
              RequestResync, history
<1>7. ASSUME NEW c \in Chains, Mine(c) \/ Evict(c) PROVE Quiet
  BY <1>7 DEF Mine, Evict, history
<1>8. Quiet => UniqueInv'
  BY DEF UniqueInv, UniqueSinceResync
<1> QED
  BY <1>1, <1>2, <1>3, <1>4, <1>5, <1>6, <1>7, <1>8 DEF Next

(* Two tasks that reserved since the last resync of a chain never hold the *)
(* same nonce of it.                                                       *)
THEOREM NoncesUnique == Spec => []UniqueSinceResync
<1>1. Init => UniqueInv
  BY DEF Init, UniqueInv, UniqueSinceResync
<1>2. TypeOK /\ UniqueInv /\ [Next]_vars => UniqueInv'
  <2>1. UNCHANGED vars /\ UniqueInv => UniqueInv'
    BY DEF vars, history, UniqueInv, UniqueSinceResync
  <2> QED
    BY <2>1, UniqueStep
<1>3. UniqueInv => UniqueSinceResync
  BY DEF UniqueInv
<1>4. QED
  BY <1>1, <1>2, <1>3, TypeCorrect, PTL DEF Spec
-----------------------------------------------------------------------------
(* A step keeps the account of which chains were read.                     *)
LEMMA SyncStep ==
    ASSUME TypeOK, SyncInv, Next PROVE SyncInv'
<1> DEFINE Quiet == UNCHANGED <<resyncNeeded, pc, at, synced>>
           Started == {m \in Msgs : task[m] \in {"started", "reserved"}}
<1> USE DEF TypeOK, CounterTypeOK, DispatcherTypeOK, TaskTypeOK, HistoryTypeOK
<1>1. Quiet /\ Started' \subseteq Started => SyncInv'
  BY DEF SyncInv, ReservedFromSyncedCounter
<1>2. CASE ReadCount
  BY <1>2 DEF ReadCount, history, SyncInv, ReservedFromSyncedCounter
<1>3. CASE ReadFails
  <2>1. UNCHANGED <<resyncNeeded, at, synced>> /\ pc' = "next" /\ Started' \subseteq Started
    BY <1>3 DEF ReadFails, history
  <2> QED
    BY <2>1 DEF SyncInv, ReservedFromSyncedCounter
<1>4. CASE WriteCount
  <2>1. /\ synced' = synced \cup {at} /\ synced' \in SUBSET Chains
        /\ task' = task /\ resyncNeeded' = resyncNeeded
    BY <1>4 DEF WriteCount, DispatcherStates
  <2>2. 1..(at - 1) \subseteq synced
    BY <1>4 DEF WriteCount, SyncInv
  <2>3. at \in Int /\ NumChains \in Int /\ 1 <= at /\ at <= NumChains
    BY ConstantsOK DEF Chains
  <2>4. 1..at \subseteq synced'
    BY <2>1, <2>2, <2>3
  <2>5. CASE at < NumChains
    BY <1>4, <2>1, <2>3, <2>4, <2>5 DEF WriteCount, SyncInv, ReservedFromSyncedCounter
  <2>6. CASE ~(at < NumChains)
    <3>1. synced' = Chains
      <4>1. at = NumChains
        BY <2>3, <2>6
      <4>2. Chains \subseteq synced'
        BY <2>4, <4>1 DEF Chains
      <4> QED
        BY <2>1, <4>2
    <3>2. pc' = "clear"
      BY <1>4, <2>6 DEF WriteCount
    <3> QED
      BY <3>1, <3>2 DEF SyncInv, ReservedFromSyncedCounter
  <2> QED
    BY <2>5, <2>6
<1>5. CASE ClearFlag
  BY <1>5 DEF ClearFlag, history, SyncInv, ReservedFromSyncedCounter
<1>6. CASE Spawn
  BY <1>6 DEF Spawn, history, SyncInv, ReservedFromSyncedCounter
<1>7. CASE Crash
  BY <1>7 DEF Crash, SyncInv, ReservedFromSyncedCounter
<1>8. ASSUME NEW m \in Msgs, NextMessage(m) PROVE SyncInv'
  <2>1. UNCHANGED <<resyncNeeded, synced>> /\ Started' \subseteq Started /\ at' = 1
    BY <1>8 DEF NextMessage, history
  <2>2. pc' = IF resyncNeeded THEN "read" ELSE "permit"
    BY <1>8 DEF NextMessage
  <2> QED
    BY <2>1, <2>2 DEF SyncInv, ReservedFromSyncedCounter
<1>9. ASSUME NEW m \in Msgs, RequestResync(m) PROVE SyncInv'
  <2>1. UNCHANGED <<pc, at, synced>> /\ resyncNeeded' = TRUE /\ Started' \subseteq Started
    BY <1>9 DEF RequestResync, dispatcher
  <2> QED
    BY <2>1 DEF SyncInv, ReservedFromSyncedCounter
<1>10. ASSUME NEW m \in Msgs, Screen(m) \/ Reserve(m) \/ SubmitAccepted(m)
                             \/ SubmitFails(m) \/ SubmitReverts(m) \/ Settle(m)
       PROVE SyncInv'
  <2>1. Quiet
    BY <1>10 DEF Screen, Reserve, SubmitAccepted, SubmitFails, SubmitReverts, Settle,
                 dispatcher, history
  <2>2. Started' \subseteq Started
    BY <1>10 DEF Screen, Reserve, SubmitAccepted, SubmitFails, SubmitReverts, Settle
  <2> QED
    BY <1>1, <2>1, <2>2
<1>11. ASSUME NEW c \in Chains, Mine(c) \/ Evict(c) PROVE SyncInv'
  <2>1. Quiet /\ task' = task
    BY <1>11 DEF Mine, Evict, dispatcher, history
  <2> QED
    BY <1>1, <2>1
<1> QED
  BY <1>2, <1>3, <1>4, <1>5, <1>6, <1>7, <1>8, <1>9, <1>10, <1>11 DEF Next

(* No task reserves before a resync read every chain.                      *)
THEOREM ReservationsFollowSync == Spec => []ReservedFromSyncedCounter
<1>1. Init => SyncInv
  BY DEF Init, SyncInv, ReservedFromSyncedCounter
<1>2. TypeOK /\ SyncInv /\ [Next]_vars => SyncInv'
  <2>1. UNCHANGED vars /\ SyncInv => SyncInv'
    BY DEF vars, dispatcher, history, SyncInv, ReservedFromSyncedCounter
  <2> QED
    BY <2>1, SyncStep
<1>3. SyncInv => ReservedFromSyncedCounter
  BY DEF SyncInv
<1>4. QED
  BY <1>1, <1>2, <1>3, TypeCorrect, PTL DEF Spec
-----------------------------------------------------------------------------
(* The dispatcher's message stays out of the tasks until its permit.       *)
LEMMA HeldStep ==
    ASSUME TypeOK, HeldInv, Next PROVE HeldInv'
<1> USE ConstantsOK DEF TypeOK, DispatcherTypeOK, TaskTypeOK, HeldInv
<1>1. CASE ReadCount \/ ClearFlag
  BY <1>1 DEF ReadCount, ClearFlag
<1>2. CASE ReadFails \/ Spawn \/ Crash
  BY <1>2 DEF ReadFails, Spawn, Crash
<1>3. CASE WriteCount
  BY <1>3 DEF WriteCount
<1>4. ASSUME NEW m \in Msgs, NextMessage(m) PROVE HeldInv'
  BY <1>4 DEF NextMessage
<1>5. ASSUME NEW m \in Msgs, Screen(m) \/ Reserve(m) \/ SubmitAccepted(m)
                            \/ SubmitFails(m) \/ SubmitReverts(m)
                            \/ RequestResync(m) \/ Settle(m)
      PROVE HeldInv'
  <2>1. UNCHANGED <<pc, held>> /\ task[m] # "held"
    BY <1>5 DEF Screen, Reserve, SubmitAccepted, SubmitFails, SubmitReverts,
                RequestResync, Settle, dispatcher
  <2>2. \A n \in Msgs : n # m => task'[n] = task[n]
    BY <1>5 DEF Screen, Reserve, SubmitAccepted, SubmitFails, SubmitReverts,
                RequestResync, Settle
  <2> QED
    BY <2>1, <2>2
<1>6. ASSUME NEW c \in Chains, Mine(c) \/ Evict(c) PROVE HeldInv'
  BY <1>6 DEF Mine, Evict, dispatcher
<1> QED
  BY <1>1, <1>2, <1>3, <1>4, <1>5, <1>6 DEF Next

(* Below the count resync_nonce is about to write, every nonce not mined   *)
(* stays pooled unless it is evicted.                                      *)
LEMMA CountReadStep ==
    ASSUME TypeOK, CountReadInv, Next PROVE CountReadInv'
<1> USE ConstantsOK DEF TypeOK, DispatcherTypeOK, ChainTypeOK, HistoryTypeOK, CountReadInv
<1>1. CASE ReadCount
  <2>1. PICK k \in 0..MaxNonce : IsTransactionCount(at, k) /\ got' = k
    BY <1>1 DEF ReadCount
  <2>2. UNCHANGED <<at, mined, pool>>
    BY <1>1 DEF ReadCount, chain
  <2> QED
    BY <2>1, <2>2 DEF IsTransactionCount
<1>2. CASE ReadFails \/ WriteCount \/ ClearFlag \/ Spawn \/ Crash
  BY <1>2 DEF ReadFails, WriteCount, ClearFlag, Spawn, Crash
<1>3. ASSUME NEW m \in Msgs, NextMessage(m) PROVE CountReadInv'
  BY <1>3 DEF NextMessage
<1>4. ASSUME NEW m \in Msgs, Screen(m) \/ Reserve(m) \/ SubmitFails(m) \/ Settle(m)
      PROVE CountReadInv'
  BY <1>4 DEF Screen, Reserve, SubmitFails, Settle, dispatcher, chain, history
<1>5. ASSUME NEW m \in Msgs, SubmitAccepted(m) PROVE CountReadInv'
  <2>1. UNCHANGED <<pc, at, got, mined, excused>> /\ pool[at] \subseteq pool'[at]
    BY <1>5 DEF SubmitAccepted, dispatcher, history
  <2> QED
    BY <2>1
<1>6. ASSUME NEW m \in Msgs, SubmitReverts(m) \/ RequestResync(m) PROVE CountReadInv'
  <2>1. UNCHANGED <<pc, at, got, mined, pool>>
    BY <1>6 DEF SubmitReverts, RequestResync, dispatcher, chain
  <2>2. excused[at] \subseteq excused'[at]
    BY <1>6 DEF SubmitReverts, RequestResync
  <2> QED
    BY <2>1, <2>2
<1>7. ASSUME NEW c \in Chains, Mine(c) PROVE CountReadInv'
  <2>1. /\ UNCHANGED <<pc, at, got, excused>>
        /\ mined' = [mined EXCEPT ![c] = mined[c] + 1]
        /\ pool' = [pool EXCEPT ![c] = pool[c] \ {mined[c]}]
    BY <1>7 DEF Mine, dispatcher, history
  <2>2. mined[at] \in Nat /\ mined'[at] \in Nat /\ mined[at] <= mined'[at]
    BY <2>1
  <2>3. \A j \in mined'[at]..(got - 1) : j \in pool[at] => j \in pool'[at]
    BY <2>1
  <2> QED
    BY <2>1, <2>2, <2>3
<1>8. ASSUME NEW c \in Chains, Evict(c) PROVE CountReadInv'
  <2>1. UNCHANGED <<pc, at, got, mined>>
    BY <1>8 DEF Evict, dispatcher
  <2>2. PICK k \in pool[c] : /\ pool' = [pool EXCEPT ![c] = pool[c] \ {k}]
                             /\ excused' = [excused EXCEPT ![c] = excused[c] \cup {k}]
    BY <1>8 DEF Evict
  <2>3. pool[at] \cup excused[at] \subseteq pool'[at] \cup excused'[at]
    BY <2>2
  <2> QED
    BY <2>1, <2>3
<1> QED
  BY <1>1, <1>2, <1>3, <1>4, <1>5, <1>6, <1>7, <1>8 DEF Next

(* A step of a task whose message is neither reserved nor about to ask for *)
(* a resync changes no hole and no reason for one.                         *)
LEMMA TaskFrame ==
    ASSUME NEW c \in Chains, NEW k,
           UNCHANGED <<nonce, chain, excused, resyncNeeded>>,
           AlreadyRewritten(c)' => AlreadyRewritten(c),
           \A n \in Msgs : task[n] \in {"reserved", "retry"} =>
              task'[n] = task[n] /\ mine'[n] = mine[n],
           k \in Holes(c)', k \in Holes(c) => AwaitsResync(c, k)
    PROVE  AwaitsResync(c, k)'
<1>1. k \in Holes(c)
  BY DEF Holes, chain
<1> QED
  BY <1>1 DEF AwaitsResync

(* Every step keeps every hole accounted for.                              *)
LEMMA HolesStep ==
    ASSUME TypeOK, HolesIInv, Next PROVE HolesInv'
<1> USE ConstantsOK DEF TypeOK, CounterTypeOK, DispatcherTypeOK, TaskTypeOK,
       ChainTypeOK, HistoryTypeOK
<1> SUFFICES ASSUME NEW c \in Chains, NEW k \in Holes(c)' PROVE AwaitsResync(c, k)'
  BY DEF HolesInv
<1>0. k \in Holes(c) => AwaitsResync(c, k)
  BY DEF HolesIInv, HolesInv
<1> DEFINE Steady == \A n \in Msgs : task[n] \in {"reserved", "retry"} =>
                        task'[n] = task[n] /\ mine'[n] = mine[n]
<1>1. CASE ReadCount
  <2>1. UNCHANGED <<nonce, chain, excused, resyncNeeded>> /\ Steady
    BY <1>1 DEF ReadCount, history
  <2>2. AlreadyRewritten(c)' => AlreadyRewritten(c)
    BY <1>1 DEF ReadCount, AlreadyRewritten
  <2> QED
    BY <1>0, <2>1, <2>2, TaskFrame
<1>2. CASE ReadFails \/ Spawn
  <2>1. UNCHANGED <<nonce, chain, excused, resyncNeeded>> /\ pc' = "next"
    BY <1>2 DEF ReadFails, Spawn, history
  <2>2. held \in Msgs /\ task[held] = "held"
    BY <1>2 DEF ReadFails, Spawn, HolesIInv, HeldInv
  <2>3. Steady
    BY <1>2, <2>2 DEF ReadFails, Spawn
  <2> QED
    BY <1>0, <2>1, <2>3, TaskFrame DEF AlreadyRewritten
<1>3. CASE WriteCount
  <2>1. UNCHANGED <<task, mine, mined, pool, resyncNeeded>>
    BY <1>3 DEF WriteCount, chain
  <2>2. CASE c = at
    <3>1. nonce'[c] = got /\ excused'[c] = {j \in excused[c] : j < got}
      BY <1>3, <2>2 DEF WriteCount
    <3>2. k \in mined[c]..(got - 1) /\ k \notin pool[c]
      BY <2>1, <3>1 DEF Holes
    <3>3. k \in excused[c] /\ k < got
      BY <1>3, <2>2, <3>2 DEF WriteCount, HolesIInv, CountReadInv
    <3> QED
      BY <3>1, <3>3 DEF AwaitsResync
  <2>3. CASE c # at
    <3>1. nonce'[c] = nonce[c] /\ excused'[c] = excused[c]
      BY <1>3, <2>3 DEF WriteCount
    <3>2. k \in Holes(c)
      BY <2>1, <3>1 DEF Holes
    <3>3. AlreadyRewritten(c)' => AlreadyRewritten(c)
      <4>1. c \in Int /\ at \in Int /\ NumChains \in Int /\ c <= NumChains /\ at <= NumChains
        BY DEF Chains
      <4>2. CASE at < NumChains
        <5>1. pc = "write" /\ pc' = "read" /\ at' = at + 1
          BY <1>3, <4>2 DEF WriteCount
        <5> QED
          BY <2>3, <4>1, <5>1 DEF AlreadyRewritten
      <4>3. CASE ~(at < NumChains)
        <5>1. pc = "write" /\ c < at
          BY <1>3, <2>3, <4>1, <4>3 DEF WriteCount
        <5> QED
          BY <5>1 DEF AlreadyRewritten
      <4> QED
        BY <4>2, <4>3
    <3> QED
      BY <1>0, <2>1, <3>1, <3>2, <3>3 DEF AwaitsResync
  <2> QED
    BY <2>2, <2>3
<1>4. CASE ClearFlag
  <2>1. UNCHANGED <<nonce, task, mine, mined, pool, excused>> /\ AlreadyRewritten(c)
    BY <1>4 DEF ClearFlag, AlreadyRewritten, chain, history
  <2>2. k \in Holes(c)
    BY <2>1 DEF Holes
  <2> QED
    BY <1>0, <2>1, <2>2 DEF AwaitsResync
<1>5. CASE Crash
  <2>1. nonce'[c] = 0 /\ mined'[c] \in Nat
    BY <1>5 DEF Crash, chain
  <2> QED
    BY <2>1 DEF Holes
<1>6. ASSUME NEW m \in Msgs, NextMessage(m) PROVE AwaitsResync(c, k)'
  <2>1. UNCHANGED <<nonce, chain, excused, resyncNeeded>> /\ Steady
    BY <1>6 DEF NextMessage, history
  <2>2. ~AlreadyRewritten(c)'
    BY <1>6 DEF NextMessage, AlreadyRewritten, Chains
  <2> QED
    BY <1>0, <2>1, <2>2, TaskFrame
<1>7. ASSUME NEW m \in Msgs, Screen(m) \/ Settle(m) PROVE AwaitsResync(c, k)'
  <2>1. UNCHANGED <<nonce, chain, excused, resyncNeeded, pc, at>>
    BY <1>7 DEF Screen, Settle, dispatcher, history
  <2>2. Steady
    BY <1>7 DEF Screen, Settle
  <2>3. AlreadyRewritten(c)' => AlreadyRewritten(c)
    BY <2>1 DEF AlreadyRewritten
  <2> QED
    BY <1>0, <2>1, <2>2, <2>3, TaskFrame
<1>8. ASSUME NEW m \in Msgs, Reserve(m) PROVE AwaitsResync(c, k)'
  <2>1. /\ UNCHANGED <<resyncNeeded, pc, at, mined, pool, excused>>
        /\ task[m] = "started" /\ task'[m] = "reserved" /\ mine'[m] = nonce[ChainOf[m]]
        /\ nonce' = [nonce EXCEPT ![ChainOf[m]] = nonce[ChainOf[m]] + 1]
    BY <1>8 DEF Reserve, dispatcher, chain
  <2>2. \A n \in Msgs : n # m => task'[n] = task[n] /\ mine'[n] = mine[n]
    BY <1>8 DEF Reserve
  <2>3. k \in mined[c]..(nonce'[c] - 1) /\ k \notin pool[c]
    BY <2>1 DEF Holes
  <2>4. k < nonce[c]
    BY <2>1, <2>3 DEF Holes
  <2>5. k \in Holes(c)
    BY <2>1, <2>2, <2>3, <2>4 DEF Holes
  <2> QED
    BY <1>0, <2>1, <2>2, <2>5 DEF AwaitsResync, AlreadyRewritten
<1>9. ASSUME NEW m \in Msgs, SubmitAccepted(m) PROVE AwaitsResync(c, k)'
  <2>1. UNCHANGED <<nonce, resyncNeeded, pc, at, mine, mined, excused>> /\ task[m] = "reserved"
    BY <1>9 DEF SubmitAccepted, dispatcher, history
  <2>2. \A n \in Msgs : n # m => task'[n] = task[n]
    BY <1>9 DEF SubmitAccepted
  <2>3. pool' = [pool EXCEPT ![ChainOf[m]] = pool[ChainOf[m]] \cup {mine[m]}]
    BY <1>9 DEF SubmitAccepted
  <2>4. k \in Holes(c)
    BY <2>1, <2>2, <2>3 DEF Holes
  <2> QED
    BY <1>0, <2>1, <2>2, <2>4 DEF AwaitsResync, AlreadyRewritten
<1>10. ASSUME NEW m \in Msgs, SubmitFails(m) PROVE AwaitsResync(c, k)'
  <2>1. /\ UNCHANGED <<nonce, resyncNeeded, pc, at, mine, mined, pool, excused>>
        /\ task[m] = "reserved" /\ task'[m] = "retry"
    BY <1>10 DEF SubmitFails, dispatcher, chain, history
  <2>2. \A n \in Msgs : n # m => task'[n] = task[n]
    BY <1>10 DEF SubmitFails
  <2>3. CASE ChainOf[m] = c /\ mine[m] = k
    BY <2>1, <2>3 DEF AwaitsResync
  <2>4. CASE ~(ChainOf[m] = c /\ mine[m] = k)
    <3>1. k \in Holes(c)
      BY <2>1, <2>2, <2>4 DEF Holes
    <3> QED
      BY <1>0, <2>1, <2>2, <3>1 DEF AwaitsResync, AlreadyRewritten
  <2> QED
    BY <2>3, <2>4
<1>11. ASSUME NEW m \in Msgs, SubmitReverts(m) PROVE AwaitsResync(c, k)'
  <2>1. /\ UNCHANGED <<nonce, resyncNeeded, pc, at, mine, mined, pool>>
        /\ task[m] = "reserved"
        /\ excused' = [excused EXCEPT ![ChainOf[m]] = excused[ChainOf[m]] \cup {mine[m]}]
    BY <1>11 DEF SubmitReverts, dispatcher, chain
  <2>2. \A n \in Msgs : n # m => task'[n] = task[n]
    BY <1>11 DEF SubmitReverts
  <2>3. excused[c] \subseteq excused'[c]
    BY <2>1
  <2>4. CASE ChainOf[m] = c /\ mine[m] = k
    BY <2>1, <2>4 DEF AwaitsResync
  <2>5. CASE ~(ChainOf[m] = c /\ mine[m] = k)
    <3>1. k \in Holes(c)
      BY <2>1, <2>2, <2>5 DEF Holes
    <3> QED
      BY <1>0, <2>1, <2>2, <2>3, <3>1 DEF AwaitsResync, AlreadyRewritten
  <2> QED
    BY <2>4, <2>5
<1>12. ASSUME NEW m \in Msgs, RequestResync(m) PROVE AwaitsResync(c, k)'
  <2>1. /\ UNCHANGED <<nonce, pc, at, mine, mined, pool>>
        /\ resyncNeeded' = TRUE /\ task[m] = "retry" /\ task'[m] = "nak"
    BY <1>12 DEF RequestResync, dispatcher, chain
  <2>2. \A n \in Msgs : n # m => task'[n] = task[n]
    BY <1>12 DEF RequestResync
  <2>3. excused[c] \subseteq excused'[c]
    BY <1>12 DEF RequestResync
  <2>4. k \in Holes(c)
    BY <2>1, <2>2 DEF Holes
  <2>5. CASE ~AlreadyRewritten(c)
    BY <2>1, <2>5 DEF AwaitsResync, AlreadyRewritten
  <2>6. CASE AlreadyRewritten(c)
    <3>1. CASE ChainOf[m] = c /\ mine[m] = k
      <4>1. k # NoNonce
        BY <2>4 DEF Holes, NoNonce
      <4>2. k \in excused'[c]
        BY <1>12, <2>6, <3>1, <4>1 DEF RequestResync
      <4> QED
        BY <4>2 DEF AwaitsResync
    <3>2. CASE ~(ChainOf[m] = c /\ mine[m] = k)
      BY <1>0, <2>1, <2>2, <2>3, <2>4, <2>6, <3>2 DEF AwaitsResync
    <3> QED
      BY <3>1, <3>2
  <2> QED
    BY <2>5, <2>6
<1>13. ASSUME NEW d \in Chains, Mine(d) PROVE AwaitsResync(c, k)'
  <2>1. /\ UNCHANGED <<nonce, resyncNeeded, pc, at, task, mine, excused>>
        /\ mined' = [mined EXCEPT ![d] = mined[d] + 1]
        /\ pool' = [pool EXCEPT ![d] = pool[d] \ {mined[d]}]
    BY <1>13 DEF Mine, dispatcher, history
  <2>2. mined[c] \in Nat /\ nonce[c] \in Nat /\ mined[c] <= mined'[c] /\ mined'[c] \in Nat
    BY <2>1
  <2>3. k \in mined[c]..(nonce[c] - 1) /\ k \notin pool[c]
    BY <2>1, <2>2 DEF Holes
  <2>4. k \in Holes(c)
    BY <2>1, <2>3 DEF Holes
  <2> QED
    BY <1>0, <2>1, <2>4 DEF AwaitsResync, AlreadyRewritten
<1>14. ASSUME NEW d \in Chains, Evict(d) PROVE AwaitsResync(c, k)'
  <2>1. UNCHANGED <<nonce, resyncNeeded, pc, at, task, mine, mined>>
    BY <1>14 DEF Evict, dispatcher
  <2>2. PICK j \in pool[d] : /\ pool' = [pool EXCEPT ![d] = pool[d] \ {j}]
                             /\ excused' = [excused EXCEPT ![d] = excused[d] \cup {j}]
    BY <1>14 DEF Evict
  <2>3. CASE c = d /\ k = j
    BY <2>2, <2>3 DEF AwaitsResync
  <2>4. CASE ~(c = d /\ k = j)
    <3>1. k \in Holes(c)
      BY <2>1, <2>2, <2>4 DEF Holes
    <3>2. excused[c] \subseteq excused'[c]
      BY <2>2
    <3> QED
      BY <1>0, <2>1, <3>1, <3>2 DEF AwaitsResync, AlreadyRewritten
  <2> QED
    BY <2>3, <2>4
<1> QED
  BY <1>1, <1>2, <1>3, <1>4, <1>5, <1>6, <1>7, <1>8, <1>9, <1>10, <1>11, <1>12, <1>13,
     <1>14 DEF Next

(* Every nonce handed out that will never be submitted awaits a resync,    *)
(* but for the named exceptions.                                           *)
THEOREM HolesAreAccounted == Spec => []HolesAccounted
<1>1. Init => HolesIInv
  <2>1. ASSUME Init PROVE HolesInv
    <3>1. \A c \in Chains : Holes(c) = {}
      BY <2>1, ConstantsOK DEF Init, Holes
    <3> QED
      BY <3>1 DEF HolesInv
  <2> QED
    BY <2>1 DEF Init, HolesIInv, HeldInv, CountReadInv
<1>2. TypeOK /\ HolesIInv /\ [Next]_vars => HolesIInv'
  <2> SUFFICES ASSUME TypeOK, HolesIInv, [Next]_vars PROVE HolesIInv'
    OBVIOUS
  <2>1. CASE Next
    BY <2>1, HeldStep, CountReadStep, HolesStep DEF HolesIInv
  <2>2. CASE UNCHANGED vars
    BY <2>2 DEF vars, dispatcher, chain, history, HolesIInv, HeldInv, CountReadInv,
                HolesInv, Holes, AwaitsResync, AlreadyRewritten
  <2> QED
    BY <2>1, <2>2
<1>3. HolesIInv => HolesAccounted
  BY DEF HolesIInv, HolesInv, AwaitsResync, HolesAccounted
<1>4. QED
  BY <1>1, <1>2, <1>3, TypeCorrect, PTL DEF Spec
=============================================================================
