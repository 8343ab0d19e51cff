-------------------------- MODULE Indexers_proofs --------------------------
(***************************************************************************)
(* The indexers, for any chain, window, batch and number of failures: what *)
(* lies behind the point a restart resumes at is stored, in hand, or lost  *)
(* for one of the reasons that the indexers' modules name.                 *)
(***************************************************************************)
EXTENDS Indexers, FiniteSetTheorems, SequenceTheorems, TLAPS

(* What the assumption says of the constants that the indexers share, and  *)
(* a set's cardinality, which the NEAR module takes from its own instance. *)
LEMMA Constants ==
    /\ MaxHeight \in Nat /\ MaxHeight > 0 /\ MaxFaults \in Nat
    /\ Window \in Nat /\ Window > 0 /\ BatchSize \in Nat /\ BatchSize > 0
BY IndexersOK DEF Near!NearIndexerOK, Evm!EvmIndexerOK

(* NearIndexer's own copy of Cardinality is the library's. *)
LEMMA SameCardinality == \A S : Near!Cardinality(S) = Cardinality(S)
BY DEF Near!Cardinality, Cardinality
-----------------------------------------------------------------------------
(* NEAR: without a start block the checkpoint counts also while the stream *)
(* is open, although a task may write one below it.                        *)
NearCovered(n) == \A b \in 1..n : b \in events \cup working \cup lost

NearInv ==
    /\ Near!TypeOK
    /\ ~running => working = {} /\ saving = {}
    /\ \A b \in working \cup saving : b < next
    /\ running => NearCovered(next - 1)
    /\ args = 0 => NearCovered(last)

(* Every step keeps the types, and the window. *)
LEMMA NearTypes == ASSUME NearInv, Near!Next PROVE Near!TypeOK'
<1> USE Constants DEF Near!Blocks
<1>0. Near!TypeOK
  BY DEF NearInv
<1>f. IsFiniteSet(working \cup saving)
  <2>1. IsFiniteSet(1..MaxHeight)
    BY FS_Interval
  <2> QED
    BY <1>0, <2>1, FS_Subset DEF Near!TypeOK
<1>v. faults' \in 0..MaxFaults
  BY <1>0 DEF Near!Next, Near!Loop, Near!Task, Near!Start, Near!StartAt, Near!Pull, Near!Handle,
     Near!Save, Near!Crash, Near!Grow, Near!TypeOK, Near!Fail
<1>1. CASE Near!Start
  <2>1. PICK block \in {height, args, last + 1} : block # 0 /\ Near!StartAt(block)
    BY <1>0, <1>1 DEF Near!Start, Near!Resume, Near!TypeOK
  <2>2. block \in 1..MaxHeight + 1 /\ (last + 1 .. block - 1) \subseteq 1..MaxHeight
    BY <1>0, <2>1 DEF Near!TypeOK
  <2> QED
    BY <1>0, <1>v, <2>1, <2>2 DEF Near!StartAt, Near!TypeOK
<1>2. CASE Near!Pull
  <2>1. Cardinality(working' \cup saving') <= Window
    <3>1. working' \cup saving' = (working \cup saving) \cup {next}
      BY <1>2 DEF Near!Pull
    <3>2. Cardinality(working \cup saving) \in Nat /\ Cardinality(working \cup saving) < Window
      BY <1>2, <1>f, FS_CardinalityType, SameCardinality DEF Near!Pull
    <3>3. \/ Cardinality(working' \cup saving') = Cardinality(working \cup saving)
          \/ Cardinality(working' \cup saving') = Cardinality(working \cup saving) + 1
      BY <1>f, <3>1, FS_AddElement
    <3> QED
      BY <3>2, <3>3
  <2> QED
    BY <1>0, <1>v, <1>2, <2>1, SameCardinality DEF Near!Pull, Near!TypeOK
<1>3. ASSUME NEW b \in 1..MaxHeight, Near!Handle(b) PROVE Near!TypeOK'
  <2>1. working' \cup saving' = working \cup saving
    BY <1>3 DEF Near!Handle
  <2> QED
    BY <1>0, <1>v, <1>3, <2>1 DEF Near!Handle, Near!TypeOK
<1>4. ASSUME NEW b \in 1..MaxHeight, Near!Save(b) PROVE Near!TypeOK'
  <2>1. Cardinality(working' \cup saving') <= Cardinality(working \cup saving)
    <3>1. working' \cup saving' \subseteq working \cup saving
      BY <1>4 DEF Near!Save
    <3> QED
      BY <1>f, <3>1, FS_Subset
  <2>2. Cardinality(working' \cup saving') \in Nat /\ Cardinality(working \cup saving) \in Nat
    <3>1. IsFiniteSet(working' \cup saving')
      BY <1>4, <1>f, FS_Subset DEF Near!Save
    <3> QED
      BY <1>f, <3>1, FS_CardinalityType
  <2>3. Cardinality(working' \cup saving') <= Window
    BY <1>0, <2>1, <2>2, SameCardinality DEF Near!TypeOK
  <2> QED
    BY <1>0, <1>v, <1>4, <2>3, SameCardinality DEF Near!Save, Near!TypeOK
<1>5. CASE Near!Crash
  <2>1. Cardinality(working' \cup saving') = 0
    BY <1>5, FS_EmptySet DEF Near!Crash
  <2> QED
    <3>1. lost' \subseteq 1..MaxHeight
      BY <1>0, <1>5 DEF Near!Crash, Near!TypeOK
    <3>2. Near!Cardinality(working' \cup saving') <= Window
      BY <2>1, SameCardinality
    <3> QED
      BY <1>0, <1>v, <1>5, <3>1, <3>2 DEF Near!Crash, Near!TypeOK
<1>6. CASE Near!Grow
  BY <1>0, <1>6 DEF Near!Grow, Near!TypeOK
<1> QED
  BY <1>1, <1>2, <1>3, <1>4, <1>5, <1>6 DEF Near!Next, Near!Loop, Near!Task

(* NEAR: every step keeps the checkpoint behind what is recorded or in hand. *)
LEMMA NearStep == ASSUME NearInv, Near!Next PROVE NearInv'
<1> USE Constants DEF Near!Blocks
<1>0. /\ Near!TypeOK /\ Near!TypeOK'
      /\ ~running => working = {} /\ saving = {}
      /\ \A b \in working \cup saving : b < next
      /\ running => NearCovered(next - 1)
      /\ args = 0 => NearCovered(last)
  BY NearTypes DEF NearInv
<1>1. CASE Near!Start
  <2>1. PICK block : /\ Near!StartAt(block)
                     /\ \/ args # 0 /\ block = args
                        \/ args = 0 /\ block \in {height, last + 1}
    BY <1>1 DEF Near!Start, Near!Resume
  <2>2. \A b \in 1..block - 1 : b \in events' \cup working' \cup lost'
    BY <1>0, <2>1 DEF Near!StartAt, Near!TypeOK, NearCovered
  <2>3. args = 0 => \A b \in 1..last : b \in events' \cup working' \cup lost'
    BY <1>0, <2>1 DEF Near!StartAt, NearCovered
  <2> QED
    BY <1>0, <2>1, <2>2, <2>3 DEF Near!StartAt, NearInv, NearCovered
<1>2. CASE Near!Pull
  BY <1>0, <1>2 DEF Near!Pull, Near!TypeOK, NearInv, NearCovered
<1>3. ASSUME NEW b \in 1..MaxHeight, Near!Handle(b) PROVE NearInv'
  <2>1. \A c : c \in events \cup working \cup lost => c \in events' \cup working' \cup lost'
    BY <1>3 DEF Near!Handle
  <2> QED
    BY <1>0, <1>3, <2>1 DEF Near!Handle, NearInv, NearCovered
<1>4. ASSUME NEW b \in 1..MaxHeight, Near!Save(b) PROVE NearInv'
  BY <1>0, <1>4 DEF Near!Save, Near!TypeOK, NearInv, NearCovered
<1>5. CASE Near!Crash
  <2>1. args = 0 => \A b \in 1..last : b \in events' \cup lost'
    BY <1>0, <1>5 DEF Near!Crash, Near!Resume, Near!TypeOK, NearCovered
  <2> QED
    BY <1>0, <1>5, <2>1 DEF Near!Crash, NearInv, NearCovered
<1>6. CASE Near!Grow
  BY <1>0, <1>6 DEF Near!Grow, NearInv, NearCovered
<1> QED
  BY <1>1, <1>2, <1>3, <1>4, <1>5, <1>6 DEF Near!Next, Near!Loop, Near!Task

(* NEAR: the first start has nothing in hand. *)
LEMMA NearInit == ASSUME Near!Init PROVE NearInv
<1>1. Near!Cardinality(working \cup saving) = 0
  BY FS_EmptySet, SameCardinality DEF Near!Init
<1>2. Near!TypeOK
  <2>1. /\ height \in 1..MaxHeight /\ next \in 1..MaxHeight + 1
        /\ last \in 0..MaxHeight /\ faults \in 0..MaxFaults
    BY Constants DEF Near!Init
  <2>2. Near!Cardinality(working \cup saving) <= Window
    BY <1>1, Constants
  <2> QED
    BY <2>1, <2>2 DEF Near!Init, Near!TypeOK, Near!Blocks
<1> QED
  BY <1>2 DEF Near!Init, NearInv, NearCovered

(* NEAR: what the invariant covers is not passed by. *)
LEMMA NearProperty == ASSUME NearInv PROVE Near!NothingPassedBy
BY DEF NearInv, NearCovered, Near!NothingPassedBy, Near!Position, Near!Resume, Near!TypeOK
-----------------------------------------------------------------------------
(* Mongo: the token is written behind the stream's position, and only as   *)
(* long as the stream is open.                                             *)
MongoCovered(n) ==
    \A c \in 1..n : Mongo!Handled(c) => c \in events \cup working \cup lost

MongoInv ==
    /\ Mongo!TypeOK
    /\ unsaved # 0 => running /\ unsaved < next
    /\ running => MongoCovered(next - 1)
    /\ args = 0 => MongoCovered(last)

(* Mongo: every step keeps the token behind what is recorded or in hand. *)
LEMMA MongoStep == ASSUME MongoInv, Mongo!Next PROVE MongoInv'
<1> USE Constants DEF Mongo!Changes
<1>0. /\ Mongo!TypeOK
      /\ unsaved # 0 => running /\ unsaved < next
      /\ running => MongoCovered(next - 1)
      /\ args = 0 => MongoCovered(last)
  BY DEF MongoInv
<1>v. faults' \in 0..MaxFaults
  BY <1>0 DEF Mongo!Next, Mongo!Loop, Mongo!Watch, Mongo!WatchFrom, Mongo!Change, Mongo!SaveToken,
     Mongo!Handle, Mongo!Close, Mongo!Crash, Mongo!Grow, Mongo!TypeOK, Mongo!Fail
<1>1. CASE Mongo!Watch
  <2>1. PICK change : /\ Mongo!WatchFrom(change)
                      /\ \/ args # 0 /\ change = args
                         \/ args = 0 /\ change \in {height + 1, last + 1}
    BY <1>1 DEF Mongo!Watch, Mongo!Resume
  <2>2. change \in 1..MaxHeight + 1 /\ (last + 1 .. change - 1) \subseteq 1..MaxHeight
    BY <1>0, <2>1 DEF Mongo!TypeOK
  <2>3. Mongo!TypeOK'
    BY <1>0, <1>v, <2>1, <2>2 DEF Mongo!WatchFrom, Mongo!TypeOK
  <2>4. \A c \in 1..change - 1 : Mongo!Handled(c) => c \in events' \cup working' \cup lost'
    BY <1>0, <2>1 DEF Mongo!WatchFrom, Mongo!TypeOK, MongoCovered
  <2>5. args = 0 => \A c \in 1..last : Mongo!Handled(c) => c \in events' \cup working' \cup lost'
    BY <1>0, <2>1 DEF Mongo!WatchFrom, MongoCovered
  <2> QED
    BY <1>0, <2>1, <2>3, <2>4, <2>5 DEF Mongo!WatchFrom, MongoInv, MongoCovered
<1>2. CASE Mongo!Change
  <2>1. Mongo!TypeOK'
    BY <1>0, <1>2 DEF Mongo!Change, Mongo!TypeOK
  <2> QED
    BY <1>0, <1>2, <2>1 DEF Mongo!Change, Mongo!TypeOK, MongoInv, MongoCovered
<1>3. CASE Mongo!SaveToken
  <2>1. Mongo!TypeOK'
    BY <1>0, <1>v, <1>3 DEF Mongo!SaveToken, Mongo!TypeOK
  <2> QED
    BY <1>0, <1>3, <2>1 DEF Mongo!SaveToken, Mongo!TypeOK, MongoInv, MongoCovered
<1>4. ASSUME NEW c \in 1..MaxHeight, Mongo!Handle(c) PROVE MongoInv'
  <2>1. \A d : d \in events \cup working \cup lost => d \in events' \cup working' \cup lost'
    BY <1>4 DEF Mongo!Handle
  <2>2. Mongo!TypeOK'
    BY <1>0, <1>v, <1>4 DEF Mongo!Handle, Mongo!TypeOK
  <2> QED
    BY <1>0, <1>4, <2>1, <2>2 DEF Mongo!Handle, MongoInv, MongoCovered
<1>5. CASE Mongo!Close
  <2>1. Mongo!TypeOK'
    BY <1>0, <1>v, <1>5 DEF Mongo!Close, Mongo!TypeOK
  <2> QED
    BY <1>0, <1>5, <2>1 DEF Mongo!Close, MongoInv, MongoCovered
<1>6. CASE Mongo!Crash
  <2>1. Mongo!TypeOK'
    <3>1. lost' \subseteq 1..MaxHeight
      BY <1>0, <1>6 DEF Mongo!Crash, Mongo!TypeOK
    <3>2. unsaved' \in 0..MaxHeight
      BY <1>6 DEF Mongo!Crash
    <3> QED
      BY <1>0, <1>v, <1>6, <3>1, <3>2 DEF Mongo!Crash, Mongo!TypeOK
  <2>2. args = 0 => \A c \in 1..last : Mongo!Handled(c) => c \in events' \cup lost'
    BY <1>0, <1>6 DEF Mongo!Crash, Mongo!Resume, Mongo!TypeOK, MongoCovered
  <2> QED
    BY <1>0, <1>6, <2>1, <2>2 DEF Mongo!Crash, MongoInv, MongoCovered
<1>7. CASE Mongo!Grow
  <2>1. Mongo!TypeOK'
    BY <1>0, <1>7 DEF Mongo!Grow, Mongo!TypeOK
  <2> QED
    BY <1>0, <1>7, <2>1 DEF Mongo!Grow, MongoInv, MongoCovered
<1> QED
  BY <1>1, <1>2, <1>3, <1>4, <1>5, <1>6, <1>7 DEF Mongo!Next, Mongo!Loop

(* Mongo: the first start watches from the present. *)
LEMMA MongoInit == ASSUME Mongo!Init PROVE MongoInv
<1>1. Mongo!TypeOK
  <2>1. /\ height \in 1..MaxHeight /\ next \in 1..MaxHeight + 1 /\ unsaved \in 0..MaxHeight
        /\ last \in 0..MaxHeight /\ faults \in 0..MaxFaults
    BY Constants DEF Mongo!Init
  <2> QED
    BY <2>1 DEF Mongo!Init, Mongo!TypeOK, Mongo!Changes
<1> QED
  BY <1>1 DEF Mongo!Init, MongoInv, MongoCovered

(* Mongo: what the invariant covers is not passed by. *)
LEMMA MongoProperty == ASSUME MongoInv PROVE Mongo!NothingPassedBy
BY DEF MongoInv, MongoCovered, Mongo!NothingPassedBy, Mongo!Position, Mongo!Resume, Mongo!TypeOK
-----------------------------------------------------------------------------
(* What sequences hold: the empty one, one without its head, two in a row. *)
LEMMA HeldByEmpty == Evm!ToSet(<<>>) = {}
BY DEF Evm!ToSet

(* A sequence holds its head and what its tail holds. *)
LEMMA HeldByTail ==
    ASSUME NEW S, NEW q \in Seq(S), q # <<>>
    PROVE  /\ Head(q) \in S /\ Tail(q) \in Seq(S)
           /\ Head(q) \in Evm!ToSet(q)
           /\ Evm!ToSet(q) = {Head(q)} \cup Evm!ToSet(Tail(q))
<1>1. /\ Len(q) \in Nat /\ Len(q) >= 1 /\ DOMAIN q = 1..Len(q)
      /\ Head(q) \in S /\ Tail(q) \in Seq(S) /\ Head(q) = q[1]
      /\ DOMAIN Tail(q) = 1..Len(q) - 1 /\ \A i \in 1..Len(q) - 1 : Tail(q)[i] = q[i + 1]
  BY EmptySeq, HeadTailProperties
<1>2. ASSUME NEW i \in DOMAIN q PROVE q[i] \in {Head(q)} \cup Evm!ToSet(Tail(q))
  <2>1. CASE i = 1
    BY <1>1, <2>1
  <2>2. CASE i # 1
    <3>1. i - 1 \in DOMAIN Tail(q) /\ q[i] = Tail(q)[i - 1]
      BY <1>1, <2>2
    <3> QED
      BY <3>1 DEF Evm!ToSet
  <2> QED
    BY <2>1, <2>2
<1>3. ASSUME NEW i \in DOMAIN Tail(q) PROVE Tail(q)[i] \in Evm!ToSet(q)
  <2>1. i + 1 \in DOMAIN q /\ Tail(q)[i] = q[i + 1]
    BY <1>1
  <2> QED
    BY <2>1 DEF Evm!ToSet
<1>4. Head(q) \in Evm!ToSet(q)
  <2>1. 1 \in DOMAIN q
    BY <1>1
  <2> QED
    BY <1>1, <2>1 DEF Evm!ToSet
<1> QED
  BY <1>1, <1>2, <1>3, <1>4 DEF Evm!ToSet

(* Two sequences in a row hold what either holds. *)
LEMMA HeldByBoth ==
    ASSUME NEW S, NEW q \in Seq(S), NEW r \in Seq(S)
    PROVE  q \o r \in Seq(S) /\ Evm!ToSet(q \o r) = Evm!ToSet(q) \cup Evm!ToSet(r)
<1>1. /\ q \o r \in Seq(S) /\ Len(q) \in Nat /\ Len(r) \in Nat
      /\ DOMAIN q = 1..Len(q) /\ DOMAIN r = 1..Len(r)
      /\ DOMAIN (q \o r) = 1..Len(q) + Len(r)
      /\ \A i \in 1..Len(q) + Len(r) :
            (q \o r)[i] = IF i <= Len(q) THEN q[i] ELSE r[i - Len(q)]
  BY ConcatProperties, LenProperties
<1>2. ASSUME NEW i \in DOMAIN (q \o r) PROVE (q \o r)[i] \in Evm!ToSet(q) \cup Evm!ToSet(r)
  <2>1. CASE i \in DOMAIN q
    BY <1>1, <2>1 DEF Evm!ToSet
  <2>2. CASE i \notin DOMAIN q
    <3>1. i - Len(q) \in DOMAIN r /\ (q \o r)[i] = r[i - Len(q)]
      BY <1>1, <2>2
    <3> QED
      BY <3>1 DEF Evm!ToSet
  <2> QED
    BY <2>1, <2>2
<1>3. ASSUME NEW i \in DOMAIN q PROVE q[i] \in Evm!ToSet(q \o r)
  <2>1. i \in DOMAIN (q \o r) /\ (q \o r)[i] = q[i]
    BY <1>1
  <2> QED
    BY <2>1 DEF Evm!ToSet
<1>4. ASSUME NEW i \in DOMAIN r PROVE r[i] \in Evm!ToSet(q \o r)
  <2>1. i + Len(q) \in DOMAIN (q \o r) /\ (q \o r)[i + Len(q)] = r[i]
    BY <1>1
  <2> QED
    BY <2>1 DEF Evm!ToSet
<1> QED
  BY <1>1, <1>2, <1>3, <1>4 DEF Evm!ToSet

(* A sequence over a set holds only elements of the set. *)
LEMMA HeldIn == ASSUME NEW S, NEW q \in Seq(S) PROVE Evm!ToSet(q) \subseteq S
BY LenProperties, ElementOfSeq DEF Evm!ToSet

(* The logs of some blocks are those of all blocks that are in one of them. *)
LEMMA LogsOfSome ==
    ASSUME NEW S, NEW T, S \subseteq T
    PROVE  Evm!LogsOf(S) = {l \in Evm!LogsOf(T) : l[1] \in S}
BY DEF Evm!LogsOf

(* The node returns the logs of a range, each of them and no others. *)
LEMMA LogsListed ==
    ASSUME NEW a \in Nat, NEW b \in Nat, a >= 1, b <= MaxHeight, NEW q \in Evm!GetLogs(a, b)
    PROVE  q \in Seq(Evm!LogsOf(a..b)) /\ Evm!ToSet(q) = Evm!LogsOf(a..b)
<1> DEFINE S == Evm!LogsOf(a..b)
           f == [c \in a..b |-> {c} \X (1..Logs[c])]
           T == {{c} \X (1..Logs[c]) : c \in a..b}
<1>1. IsFiniteSet(S)
  <2>1. ASSUME NEW c \in a..b PROVE IsFiniteSet({c} \X (1..Logs[c]))
    <3>1. Logs[c] \in Nat
      BY Constants, IndexersOK DEF Evm!EvmIndexerOK, Evm!Blocks
    <3>2. IsFiniteSet({c})
      BY FS_Singleton
    <3>3. IsFiniteSet(1..Logs[c])
      BY <3>1, FS_Interval
    <3> QED
      BY <3>2, <3>3, FS_Product
  <2>2. IsFiniteSet(a..b)
    BY FS_Interval
  <2>3. f \in Surjection(a..b, T)
    BY DEF Surjection
  <2>4. IsFiniteSet(T)
    BY <2>2, <2>3, FS_Surjection
  <2> QED
    BY <2>1, <2>4, FS_UNION DEF Evm!LogsOf
<1>2. Evm!Cardinality(S) = Cardinality(S) /\ Cardinality(S) \in Nat
  BY <1>1, FS_CardinalityType DEF Evm!Cardinality, Cardinality
<1> DEFINE n == Cardinality(S)
<1>3. q \in [1..n -> S] /\ \A i, j \in 1..n : i # j => q[i] # q[j]
  BY <1>2 DEF Evm!GetLogs, Evm!SetToSeqs
<1>4. q \in Injection(1..n, S)
  BY <1>3 DEF Injection, IsInjective
<1>5. Cardinality(1..n) = n
  BY <1>2, FS_Interval
<1>6. q \in Surjection(1..n, S)
  BY <1>1, <1>4, <1>5, FS_Injection
<1>7. q \in Seq(S)
  BY <1>2, <1>3
<1> QED
  BY <1>3, <1>6, <1>7 DEF Surjection, Evm!ToSet

(* EVM: up to the last block fetched, or streamed, every log is covered;   *)
(* so is, without a start block, every log up to the checkpoint, even if   *)
(* the checkpoint is a block that has yet to be mined.                     *)
EvmCovered(l) == l \in events \cup lost \cup Evm!ToSet(todo) \cup Evm!ToSet(live)

AllLogs == Evm!LogsOf(1..MaxHeight)

EvmInv ==
    /\ Evm!TypeOK
    /\ pc \in {"fetch", "log", "connect"} =>
          \A l \in AllLogs : l[1] <= fetched => EvmCovered(l)
    /\ pc = "stream" => \A l \in AllLogs : l[1] <= height => EvmCovered(l)
    /\ start = 0 => \A l \in AllLogs : l[1] <= last => EvmCovered(l)
    /\ \A l \in AllLogs : height < l[1] /\ l[1] <= last => l \in events \cup lost
    /\ cur \in Nat
    /\ pc \in {"fetch", "log"} => cur >= 1 /\ (cur <= fetched + 1 \/ latest <= cur)
    /\ \A l \in Evm!ToSet(todo) : l[1] <= fetched /\ l[1] <= height
    /\ \A l \in Evm!ToSet(live) : l[1] <= height

(* What handling a log does to what is covered: nothing gets uncovered, and *)
(* the checkpoint stays or becomes the log's block.                         *)
LEMMA ProcessKeeps ==
    ASSUME NEW log, Evm!Process(log)
    PROVE  /\ events \cup lost \cup {log} = events' \cup lost'
           /\ last' = last \/ last' = log[1]
BY DEF Evm!Process

(* EVM: every step keeps the types. *)
LEMMA EvmTypes == ASSUME EvmInv, Evm!Next PROVE Evm!TypeOK'
<1> USE Constants DEF Evm!Blocks
<1>0. Evm!TypeOK /\ cur \in Nat /\ (pc \in {"fetch", "log"} => cur >= 1)
  BY DEF EvmInv
<1>v. faults' \in 0..MaxFaults
  <2>1. UNCHANGED faults \/ Evm!Fail(1)
    BY DEF Evm!Next, Evm!Loop, Evm!ReadLatest, Evm!BeginAt, Evm!Fetch, Evm!Process,
       Evm!ProcessFetched, Evm!NextBatch, Evm!CaughtUp, Evm!Subscribe, Evm!Receive, Evm!StartOver,
       Evm!Close, Evm!Crash, Evm!Grow
  <2>2. faults \in 0..MaxFaults
    BY <1>0 DEF Evm!TypeOK
  <2> QED
    BY <2>1, <2>2 DEF Evm!Fail
<1>1. CASE Evm!ReadLatest
  <2>1. PICK block \in {start, last + 1, height + 1}, checkpoint \in {last, height + 1} :
            Evm!BeginAt(block, checkpoint) /\ block >= 1
    BY <1>0, <1>1 DEF Evm!ReadLatest, Evm!TypeOK
  <2>2. /\ block - 1 \in 0..MaxHeight + 1 /\ checkpoint \in 0..MaxHeight + 1
        /\ height \in 0..height
    BY <1>0, <2>1 DEF Evm!TypeOK
  <2>3. lost' \subseteq AllLogs
    BY <1>0, <2>1 DEF Evm!BeginAt, Evm!TypeOK, AllLogs
  <2> QED
    BY <1>0, <1>v, <2>1, <2>2, <2>3 DEF Evm!BeginAt, Evm!TypeOK, AllLogs
<1>2. CASE Evm!Fetch
  <2>1. fetched' \in Nat /\ fetched' <= MaxHeight /\ fetched' \in 0..MaxHeight + 1
    BY <1>0, <1>2 DEF Evm!Fetch, Evm!Least, Evm!TypeOK
  <2>2. todo' \in Seq(Evm!LogsOf(cur..fetched'))
    BY <1>0, <1>2, <2>1, LogsListed DEF Evm!Fetch
  <2>3. cur..fetched' \subseteq 1..MaxHeight
    BY <1>0, <1>2, <2>1 DEF Evm!Fetch
  <2>4. todo' \in Seq(AllLogs)
    BY <2>2, <2>3, LogsOfSome, SeqMonotonic DEF AllLogs
  <2> QED
    BY <1>0, <1>v, <1>2, <2>1, <2>4 DEF Evm!Fetch, Evm!TypeOK, AllLogs
<1>3. ASSUME NEW q \in Seq(AllLogs), q # <<>>, Evm!Process(Head(q))
      PROVE  /\ Tail(q) \in Seq(AllLogs) /\ last' \in 0..MaxHeight + 1
             /\ events' \subseteq AllLogs /\ lost' \subseteq AllLogs
  <2>1. Head(q) \in AllLogs /\ Tail(q) \in Seq(AllLogs)
    BY <1>3, HeldByTail
  <2>2. Head(q)[1] \in 1..MaxHeight
    BY <2>1, LogsOfSome DEF AllLogs
  <2> QED
    BY <1>0, <1>3, <2>1, <2>2 DEF Evm!Process, Evm!TypeOK, AllLogs
<1>4. CASE Evm!ProcessFetched
  BY <1>0, <1>v, <1>3, <1>4 DEF Evm!ProcessFetched, Evm!TypeOK, AllLogs
<1>5. CASE Evm!NextBatch \/ Evm!CaughtUp
  BY <1>0, <1>v, <1>5 DEF Evm!NextBatch, Evm!CaughtUp, Evm!TypeOK
<1>6. CASE Evm!Subscribe
  <2>1. fetched + 1 .. height \subseteq 1..MaxHeight
    BY <1>0 DEF Evm!TypeOK
  <2>2. lost' \subseteq AllLogs
    BY <1>0, <1>6, <2>1, LogsOfSome DEF Evm!Subscribe, Evm!TypeOK, AllLogs
  <2> QED
    BY <1>0, <1>v, <1>6, <2>2 DEF Evm!Subscribe, Evm!TypeOK, AllLogs
<1>7. CASE Evm!Receive
  BY <1>0, <1>v, <1>3, <1>7 DEF Evm!Receive, Evm!TypeOK, AllLogs
<1>8. CASE Evm!StartOver
  BY <1>0, <1>v, <1>8 DEF Evm!StartOver, Evm!TypeOK
<1>9. Evm!ToSet(todo) \subseteq AllLogs /\ Evm!ToSet(live) \subseteq AllLogs
  BY <1>0, HeldIn DEF Evm!TypeOK, AllLogs
<1>10. CASE Evm!Close
  <2>1. lost' \subseteq AllLogs
    BY <1>0, <1>9, <1>10 DEF Evm!Close, Evm!CutOff, Evm!TypeOK, AllLogs
  <2> QED
    BY <1>0, <1>v, <1>10, <2>1 DEF Evm!Close, Evm!TypeOK, AllLogs
<1>11. CASE Evm!Crash
  <2>1. lost' \subseteq AllLogs
    BY <1>0, <1>9, <1>11 DEF Evm!Crash, Evm!CutOff, Evm!TypeOK, AllLogs
  <2> QED
    BY <1>0, <1>v, <1>11, <2>1 DEF Evm!Crash, Evm!TypeOK, AllLogs
<1>12. CASE Evm!Grow
  <2>1. height' \in Nat /\ height' >= 1 /\ height' <= MaxHeight /\ latest \in 0..height'
    BY <1>0, <1>12 DEF Evm!Grow, Evm!TypeOK
  <2>2. ASSUME NEW q \in Evm!GetLogs(height', height') PROVE live \o q \in Seq(AllLogs)
    <3>0. height'..height' \subseteq 1..MaxHeight
      BY <2>1
    <3>1. q \in Seq(Evm!LogsOf(height'..height'))
      BY <2>1, LogsListed
    <3>2. q \in Seq(AllLogs)
      BY <3>0, <3>1, LogsOfSome, SeqMonotonic DEF AllLogs
    <3> QED
      BY <1>0, <3>2, HeldByBoth DEF Evm!TypeOK, AllLogs
  <2>3. live' \in Seq(AllLogs) /\ (pc # "stream" => live' = <<>>)
    BY <1>0, <1>12, <2>2 DEF Evm!Grow, Evm!TypeOK, AllLogs
  <2> QED
    BY <1>0, <1>v, <1>12, <2>1, <2>3 DEF Evm!Grow, Evm!TypeOK, AllLogs
<1> QED
  BY <1>1, <1>2, <1>4, <1>5, <1>6, <1>7, <1>8, <1>10, <1>11, <1>12 DEF Evm!Next, Evm!Loop

(* EVM: every step keeps the checkpoint behind what is recorded or in hand. *)
LEMMA EvmStep == ASSUME EvmInv, Evm!Next PROVE EvmInv'
<1> USE Constants DEF Evm!Blocks
<1>0. /\ Evm!TypeOK /\ Evm!TypeOK'
      /\ pc \in {"fetch", "log", "connect"} =>
            \A l \in AllLogs : l[1] <= fetched => EvmCovered(l)
      /\ pc = "stream" => \A l \in AllLogs : l[1] <= height => EvmCovered(l)
      /\ start = 0 => \A l \in AllLogs : l[1] <= last => EvmCovered(l)
      /\ \A l \in AllLogs : height < l[1] /\ l[1] <= last => l \in events \cup lost
      /\ cur \in Nat
      /\ pc \in {"fetch", "log"} => cur >= 1 /\ (cur <= fetched + 1 \/ latest <= cur)
      /\ \A l \in Evm!ToSet(todo) : l[1] <= fetched /\ l[1] <= height
      /\ \A l \in Evm!ToSet(live) : l[1] <= height
  BY EvmTypes DEF EvmInv
<1>a. \A l \in AllLogs : l[1] \in 1..MaxHeight
  BY LogsOfSome DEF AllLogs
<1>n. /\ height \in 1..MaxHeight /\ last \in Nat /\ fetched \in Nat /\ start \in Nat
      /\ \A l \in AllLogs : l[1] \in Nat /\ l[1] >= 1
  BY <1>0, <1>a DEF Evm!TypeOK
<1>e. /\ pc # "log" => Evm!ToSet(todo) = {}
      /\ pc # "stream" => Evm!ToSet(live) = {}
  BY <1>0, HeldByEmpty DEF Evm!TypeOK
<1>1. CASE Evm!ReadLatest
  <2>1. PICK block \in {start, last + 1, height + 1}, checkpoint \in {last, height + 1} :
            /\ Evm!BeginAt(block, checkpoint) /\ block >= 1
            /\ start # 0 => block = 1 /\ checkpoint = last
    BY <1>0, <1>1 DEF Evm!ReadLatest, Evm!TypeOK
  <2>2. ASSUME NEW l \in AllLogs, l[1] <= block - 1 \/ l[1] <= checkpoint,
               start # 0 => l[1] < block
        PROVE  l \in events' \cup lost'
    <3>1. l[1] \in Nat /\ l[1] >= 1 /\ block \in Nat /\ checkpoint \in Nat /\ last \in Nat
      BY <1>n, <2>1
    <3>2. CASE l[1] <= last
      BY <1>0, <1>e, <2>1, <2>2, <3>1, <3>2 DEF Evm!BeginAt, EvmCovered
    <3>3. CASE last < l[1]
      <4>1. l[1] < block \/ l[1] <= checkpoint
        BY <2>2, <3>1
      <4> QED
        BY <2>1, <3>3, <4>1 DEF Evm!BeginAt, AllLogs
    <3> QED
      BY <3>1, <3>2, <3>3
  <2>3. ASSUME NEW l \in AllLogs, height < l[1], l[1] <= checkpoint
        PROVE  l \in events' \cup lost'
    <3>1. CASE start = 0
      BY <2>2, <2>3, <3>1
    <3>2. CASE start # 0
      BY <1>0, <2>1, <2>3, <3>2 DEF Evm!BeginAt
    <3> QED
      BY <3>1, <3>2
  <2>4. /\ pc' = "fetch" /\ fetched' = block - 1 /\ cur' = block /\ last' = checkpoint
        /\ UNCHANGED <<height, start, todo, live>>
    BY <2>1 DEF Evm!BeginAt
  <2>5. \A l \in AllLogs : l[1] <= fetched' => l \in events' \cup lost'
    <3>1. ASSUME NEW l \in AllLogs, l[1] <= block - 1 PROVE l[1] < block
      BY <1>n, <2>1, <3>1
    <3> QED
      BY <2>2, <2>4, <3>1
  <2>6. start' = 0 => \A l \in AllLogs : l[1] <= last' => l \in events' \cup lost'
    BY <2>2, <2>4
  <2>7. cur' \in Nat /\ cur' >= 1 /\ cur' <= fetched' + 1
    BY <1>0, <2>1, <2>4 DEF Evm!TypeOK
  <2>8. Evm!ToSet(todo') = {} /\ Evm!ToSet(live') = {}
    BY <1>e, <2>1, <2>4 DEF Evm!BeginAt
  <2> QED
    BY <1>0, <2>3, <2>4, <2>5, <2>6, <2>7, <2>8 DEF EvmInv, EvmCovered
<1>2. CASE Evm!Fetch
  <2>1. /\ fetched' \in Nat /\ fetched' <= latest /\ fetched' <= height /\ fetched' <= MaxHeight
        /\ cur' <= fetched' + 1 \/ latest <= cur'
        /\ cur' \in Nat /\ cur' >= 1 /\ cur >= 1 /\ cur <= fetched + 1 /\ fetched \in Nat
    BY <1>0, <1>2 DEF Evm!Fetch, Evm!Least, Evm!TypeOK
  <2>2. Evm!ToSet(todo') = Evm!LogsOf(cur..fetched')
    BY <1>0, <1>2, <2>1, LogsListed DEF Evm!Fetch
  <2>3. cur..fetched' \subseteq 1..MaxHeight
    BY <1>0, <2>1
  <2>4. Evm!ToSet(todo') = {l \in AllLogs : l[1] \in cur..fetched'}
    BY <2>2, <2>3, LogsOfSome DEF AllLogs
  <2>5. /\ pc = "fetch" /\ pc' = "log"
        /\ UNCHANGED <<height, start, latest, live, last, events, lost>>
    BY <1>2 DEF Evm!Fetch
  <2>6. \A l \in AllLogs : EvmCovered(l) => EvmCovered(l)'
    BY <1>e, <2>5 DEF EvmCovered
  <2>7. ASSUME NEW l \in AllLogs, l[1] <= fetched' PROVE EvmCovered(l)'
    <3>1. CASE l[1] <= fetched
      BY <1>0, <2>5, <2>6, <3>1
    <3>2. CASE ~(l[1] <= fetched)
      <4>1. l[1] \in cur..fetched'
        BY <1>0, <1>a, <2>1, <2>7, <3>2
      <4> QED
        BY <2>4, <4>1 DEF EvmCovered
    <3> QED
      BY <3>1, <3>2
  <2>8. \A l \in Evm!ToSet(todo') : l[1] <= fetched' /\ l[1] <= height
    BY <1>n, <2>1, <2>4
  <2> QED
    BY <1>0, <2>1, <2>5, <2>6, <2>7, <2>8 DEF EvmInv
<1>3. ASSUME NEW log \in AllLogs, Evm!Process(log), log[1] <= height,
             UNCHANGED height, \A l : EvmCovered(l) => EvmCovered(l)',
             \A l \in AllLogs : l[1] <= log[1] => EvmCovered(l)
      PROVE  /\ start = 0 => \A l \in AllLogs : l[1] <= last' => EvmCovered(l)'
             /\ \A l \in AllLogs : height < l[1] /\ l[1] <= last' => l \in events' \cup lost'
  <2>1. /\ events \cup lost \subseteq events' \cup lost'
        /\ last' = last \/ last' = log[1]
    BY <1>3, ProcessKeeps
  <2>2. \A l \in AllLogs : ~(height < l[1] /\ l[1] <= log[1])
    BY <1>0, <1>a, <1>3 DEF Evm!TypeOK
  <2> QED
    BY <1>0, <1>3, <2>1, <2>2
<1>4. CASE Evm!ProcessFetched
  <2>1. /\ todo \in Seq(AllLogs) /\ todo # <<>> /\ pc = "log" /\ todo' = Tail(todo)
        /\ Evm!Process(Head(todo))
        /\ UNCHANGED <<height, start, pc, latest, cur, fetched, live>>
    BY <1>0, <1>4 DEF Evm!ProcessFetched, Evm!TypeOK, AllLogs
  <2>2. /\ Head(todo) \in AllLogs /\ Head(todo) \in Evm!ToSet(todo)
        /\ Evm!ToSet(todo) = {Head(todo)} \cup Evm!ToSet(todo')
    BY <2>1, HeldByTail
  <2>3. \A l : EvmCovered(l) => EvmCovered(l)'
    BY <2>1, <2>2, ProcessKeeps DEF EvmCovered
  <2>4. \A l \in AllLogs : l[1] <= Head(todo)[1] => EvmCovered(l)
    BY <1>0, <1>a, <2>1, <2>2 DEF Evm!TypeOK
  <2>5. /\ start = 0 => \A l \in AllLogs : l[1] <= last' => EvmCovered(l)'
        /\ \A l \in AllLogs : height < l[1] /\ l[1] <= last' => l \in events' \cup lost'
    BY <1>0, <1>3, <2>1, <2>2, <2>3, <2>4
  <2> QED
    BY <1>0, <2>1, <2>2, <2>3, <2>5 DEF EvmInv
<1>5. CASE Evm!NextBatch \/ Evm!CaughtUp
  BY <1>0, <1>5 DEF Evm!NextBatch, Evm!CaughtUp, EvmInv, EvmCovered
<1>6. CASE Evm!Subscribe
  <2>1. /\ pc = "connect" /\ pc' = "stream" /\ events' = events
        /\ UNCHANGED <<height, start, fetched, todo, live, last, cur>>
        /\ lost' = lost \cup (Evm!LogsOf(fetched + 1 .. height) \ events)
    BY <1>6 DEF Evm!Subscribe
  <2>2. fetched + 1 .. height \subseteq 1..MaxHeight
    BY <1>0 DEF Evm!TypeOK
  <2>3. Evm!LogsOf(fetched + 1 .. height) = {l \in AllLogs : l[1] \in fetched + 1 .. height}
    BY <2>2, LogsOfSome DEF AllLogs
  <2>4. \A l \in AllLogs : EvmCovered(l) => EvmCovered(l)'
    BY <2>1 DEF EvmCovered
  <2>5. ASSUME NEW l \in AllLogs, l[1] <= height PROVE EvmCovered(l)'
    <3>1. CASE l[1] <= fetched
      BY <1>0, <2>1, <2>4, <3>1
    <3>2. CASE ~(l[1] <= fetched)
      <4>1. l[1] \in fetched + 1 .. height
        BY <1>n, <2>5, <3>2
      <4> QED
        BY <2>1, <2>3, <4>1 DEF EvmCovered
    <3> QED
      BY <3>1, <3>2
  <2> QED
    BY <1>0, <2>1, <2>4, <2>5 DEF EvmInv
<1>7. CASE Evm!Receive
  <2>1. /\ live \in Seq(AllLogs) /\ live # <<>> /\ pc = "stream" /\ live' = Tail(live)
        /\ Evm!Process(Head(live))
        /\ UNCHANGED <<height, start, pc, latest, cur, fetched, todo>>
    BY <1>0, <1>7 DEF Evm!Receive, Evm!TypeOK, AllLogs
  <2>2. /\ Head(live) \in AllLogs /\ Head(live) \in Evm!ToSet(live)
        /\ Evm!ToSet(live) = {Head(live)} \cup Evm!ToSet(live')
    BY <2>1, HeldByTail
  <2>3. \A l : EvmCovered(l) => EvmCovered(l)'
    BY <2>1, <2>2, ProcessKeeps DEF EvmCovered
  <2>4. \A l \in AllLogs : l[1] <= Head(live)[1] => EvmCovered(l)
    BY <1>0, <1>a, <2>1, <2>2 DEF Evm!TypeOK
  <2>5. /\ start = 0 => \A l \in AllLogs : l[1] <= last' => EvmCovered(l)'
        /\ \A l \in AllLogs : height < l[1] /\ l[1] <= last' => l \in events' \cup lost'
    BY <1>0, <1>3, <2>1, <2>2, <2>3, <2>4
  <2> QED
    BY <1>0, <2>1, <2>2, <2>3, <2>5 DEF EvmInv
<1>8. CASE Evm!StartOver
  BY <1>0, <1>8 DEF Evm!StartOver, EvmInv, EvmCovered
<1>9. ASSUME NEW l \in AllLogs, EvmCovered(l), l[1] <= last,
             lost' = lost \cup Evm!CutOff(last + 1), events' = events
      PROVE  l \in events' \cup lost'
  <2>1. l[1] < last + 1
    BY <1>n, <1>9
  <2> QED
    BY <1>9, <2>1 DEF Evm!CutOff, EvmCovered
<1>10. CASE Evm!Close
  <2>1. /\ pc = "stream" /\ pc' = "latest" /\ live' = <<>>
        /\ lost' = lost \cup Evm!CutOff(last + 1)
        /\ UNCHANGED <<height, todo, fetched, cur, last, events>>
    BY <1>10 DEF Evm!Close
  <2>2. ASSUME NEW l \in AllLogs, l[1] <= last PROVE l \in events' \cup lost'
    <3>1. CASE l[1] <= height
      BY <1>0, <1>9, <2>1, <2>2, <3>1
    <3>2. CASE ~(l[1] <= height)
      <4>1. height < l[1]
        BY <1>n, <1>a, <3>2
      <4> QED
        BY <1>0, <2>1, <2>2, <4>1
    <3> QED
      BY <3>1, <3>2
  <2> QED
    BY <1>0, <2>1, <2>2, HeldByEmpty DEF EvmInv, EvmCovered
<1>11. CASE Evm!Crash
  <2>1. /\ pc' = "latest" /\ start' = args /\ todo' = <<>> /\ live' = <<>>
        /\ UNCHANGED <<height, fetched, cur, last, events>>
        /\ lost \subseteq lost'
        /\ args = 0 => lost' = lost \cup Evm!CutOff(last + 1)
    BY <1>11 DEF Evm!Crash
  <2>2. args = 0 => start = 0
    BY <1>0 DEF Evm!TypeOK
  <2>3. start' = 0 => \A l \in AllLogs : l[1] <= last => l \in events' \cup lost'
    BY <1>0, <1>9, <2>1, <2>2
  <2> QED
    BY <1>0, <2>1, <2>3, HeldByEmpty DEF EvmInv, EvmCovered
<1>12. CASE Evm!Grow
  <2>1. /\ height' = height + 1 /\ height' \in Nat /\ height' >= 1 /\ height' <= MaxHeight
        /\ height \in Nat
        /\ UNCHANGED <<start, pc, latest, cur, fetched, todo, last, events, lost>>
    BY <1>n, <1>12 DEF Evm!Grow
  <2>2. \A l \in AllLogs : l[1] <= height' => l[1] <= height \/ l[1] = height'
    BY <1>a, <2>1
  <2>3. \A l \in AllLogs : height' < l[1] => height < l[1]
    BY <1>a, <2>1
  <2>4. \A l \in Evm!ToSet(todo) : l[1] <= fetched /\ l[1] <= height'
    <3>1. todo \in Seq(AllLogs)
      BY <1>0 DEF Evm!TypeOK, AllLogs
    <3>2. \A l \in Evm!ToSet(todo) : l[1] \in Nat
      BY <1>a, <3>1, HeldIn
    <3> QED
      BY <1>0, <2>1, <3>2
  <2>5. CASE pc = "stream"
    <3>1. PICK q \in Evm!GetLogs(height', height') : live' = live \o q
      BY <1>12, <2>5 DEF Evm!Grow
    <3>0. height'..height' \subseteq 1..MaxHeight
      BY <2>1
    <3>2. /\ q \in Seq(Evm!LogsOf(height'..height'))
          /\ Evm!ToSet(q) = Evm!LogsOf(height'..height')
      BY <2>1, LogsListed
    <3>3. Evm!ToSet(q) = {l \in AllLogs : l[1] = height'} /\ q \in Seq(AllLogs)
      BY <2>1, <3>0, <3>2, LogsOfSome, SeqMonotonic DEF AllLogs
    <3>4. live \in Seq(AllLogs)
      BY <1>0 DEF Evm!TypeOK, AllLogs
    <3>5. Evm!ToSet(live') = Evm!ToSet(live) \cup {l \in AllLogs : l[1] = height'}
      BY <3>1, <3>3, <3>4, HeldByBoth
    <3>6. \A l \in AllLogs : EvmCovered(l) \/ l[1] = height' => EvmCovered(l)'
      BY <2>1, <3>5 DEF EvmCovered
    <3>7. \A l \in Evm!ToSet(live') : l[1] <= height'
      <4>1. \A l \in Evm!ToSet(live) : l[1] \in Nat
        BY <1>a, <3>4, HeldIn
      <4> QED
        BY <1>0, <2>1, <3>5, <4>1
    <3> QED
      BY <1>0, <2>1, <2>2, <2>3, <2>4, <2>5, <3>6, <3>7 DEF EvmInv
  <2>6. CASE pc # "stream"
    <3>1. live' = live
      BY <1>12, <2>6 DEF Evm!Grow
    <3>2. \A l \in AllLogs : EvmCovered(l) => EvmCovered(l)'
      BY <2>1, <3>1 DEF EvmCovered
    <3> QED
      BY <1>0, <1>e, <2>1, <2>3, <2>4, <2>6, <3>1, <3>2 DEF EvmInv
  <2> QED
    BY <2>5, <2>6
<1> QED
  BY <1>1, <1>2, <1>4, <1>5, <1>6, <1>7, <1>8, <1>10, <1>11, <1>12 DEF Evm!Next, Evm!Loop

(* EVM: the first start has nothing in hand. *)
LEMMA EvmInit == ASSUME Evm!Init PROVE EvmInv
<1> USE Constants DEF Evm!Blocks
<1>1. Evm!TypeOK
  <2>1. /\ height \in 1..MaxHeight /\ latest \in 0..height /\ last \in 0..MaxHeight + 1
        /\ fetched \in 0..MaxHeight + 1 /\ faults \in 0..MaxFaults
    BY DEF Evm!Init
  <2> QED
    BY <2>1 DEF Evm!Init, Evm!TypeOK
<1>2. \A l \in AllLogs : ~(l[1] <= last)
  <2>1. \A l \in AllLogs : l[1] \in 1..MaxHeight
    BY LogsOfSome DEF AllLogs
  <2>2. last = 0
    BY DEF Evm!Init
  <2> QED
    BY <2>1, <2>2
<1> QED
  BY <1>1, <1>2, HeldByEmpty DEF Evm!Init, EvmInv

(* EVM: a covered log is recorded, in hand, lost or fetched again. *)
LEMMA EvmProperty == ASSUME EvmInv PROVE Evm!NothingPassedBy
<1> USE Constants DEF Evm!Blocks
<1>1. Evm!TypeOK
  BY DEF EvmInv
<1>2. SUFFICES ASSUME NEW l \in Evm!LogsOf(1..height), l[1] <= last
               PROVE  EvmCovered(l) \/ Evm!Refetched(l)
  BY DEF Evm!NothingPassedBy, EvmCovered
<1>3. l \in AllLogs /\ l[1] \in 1..height
  <2>1. 1..height \subseteq 1..MaxHeight
    BY <1>1 DEF Evm!TypeOK
  <2>2. Evm!LogsOf(1..height) = {m \in AllLogs : m[1] \in 1..height}
    BY <2>1, LogsOfSome DEF AllLogs
  <2> QED
    BY <1>2, <2>2
<1>4. CASE pc = "latest"
  <2>1. start = 0 \/ (start # 0 /\ start <= l[1])
    BY <1>1, <1>3 DEF Evm!TypeOK
  <2> QED
    BY <1>2, <1>3, <1>4, <2>1 DEF EvmInv, Evm!Refetched
<1>5. CASE pc \in {"fetch", "log", "connect"}
  <2>1. l[1] <= fetched \/ fetched < l[1]
    BY <1>1, <1>3 DEF Evm!TypeOK
  <2> QED
    BY <1>3, <1>5, <2>1 DEF EvmInv, Evm!Refetched
<1>6. CASE pc = "stream"
  <2>1. l[1] <= height
    BY <1>1, <1>3 DEF Evm!TypeOK
  <2> QED
    BY <1>3, <1>6, <2>1 DEF EvmInv
<1> QED
  BY <1>1, <1>4, <1>5, <1>6 DEF Evm!TypeOK
-----------------------------------------------------------------------------
(* Solana: whatever is recorded, being fetched or the checkpoint has no    *)
(* signature below it that is not covered; so has the signature to list    *)
(* from, while the list is recorded the newest signature listed, and then  *)
(* the newest there is.                                                    *)
SolanaCovered(s) ==
    \/ Solana!Stored(s)
    \/ s \in lost \cup pending \cup Solana!ToSet(todo) \cup Solana!ToSet(live) \cup adrift

SolanaInHand ==
    pending \cup DOMAIN hands \cup Solana!ToSet(todo) \cup Solana!ToSet(live) \cup adrift

SolanaInv ==
    /\ Solana!TypeOK
    /\ \A s \in SolanaInHand : s <= height
    /\ last <= height /\ fetched <= height
    /\ \A s \in pending \cup DOMAIN hands \cup {last} : \A r \in 1..s : SolanaCovered(r)
    /\ from <= height /\ \A r \in 1..from : SolanaCovered(r)
    /\ pc = "record" => \A r \in 1..fetched : SolanaCovered(r)
    /\ pc = "record" => \A s \in Solana!ToSet(todo) : s <= fetched
    /\ pc = "stream" => \A r \in 1..height : SolanaCovered(r)
    /\ \A s \in DOMAIN hands :
          hands[s] \in {"remove", "save"} => Solana!Stored(s) \/ s \in lost

(* What a sequence holds, as the Solana module's own instance has it. *)
LEMMA HeldBySame == \A q : Solana!ToSet(q) = Evm!ToSet(q)
BY DEF Solana!ToSet, Evm!ToSet

(* An element put at the end is held too. *)
LEMMA HeldByAppend ==
    ASSUME NEW S, NEW q \in Seq(S), NEW e \in S
    PROVE  Append(q, e) \in Seq(S) /\ Evm!ToSet(Append(q, e)) = Evm!ToSet(q) \cup {e}
<1>1. /\ Append(q, e) \in Seq(S) /\ Len(q) \in Nat /\ DOMAIN q = 1..Len(q)
      /\ DOMAIN Append(q, e) = 1..Len(q) + 1 /\ Append(q, e)[Len(q) + 1] = e
      /\ \A i \in 1..Len(q) : Append(q, e)[i] = q[i]
  BY AppendProperties, LenProperties
<1>2. ASSUME NEW i \in DOMAIN Append(q, e) PROVE Append(q, e)[i] \in Evm!ToSet(q) \cup {e}
  <2>1. CASE i \in DOMAIN q
    BY <1>1, <2>1 DEF Evm!ToSet
  <2>2. CASE i \notin DOMAIN q
    BY <1>1, <1>2, <2>2
  <2> QED
    BY <2>1, <2>2
<1>3. ASSUME NEW i \in DOMAIN q PROVE q[i] \in Evm!ToSet(Append(q, e))
  <2>1. i \in DOMAIN Append(q, e) /\ Append(q, e)[i] = q[i]
    BY <1>1
  <2> QED
    BY <2>1 DEF Evm!ToSet
<1>4. e \in Evm!ToSet(Append(q, e))
  <2>1. Len(q) + 1 \in DOMAIN Append(q, e)
    BY <1>1
  <2> QED
    BY <1>1, <2>1 DEF Evm!ToSet
<1> QED
  BY <1>1, <1>2, <1>3, <1>4 DEF Evm!ToSet

(* The signatures listed are the newest, up to the node's limit, and the    *)
(* rest of those after the one asked for are off the page.                  *)
LEMMA PageListed ==
    ASSUME height \in Nat, from \in Nat, from <= height, NEW limit \in Nat
    PROVE  /\ Solana!Page(limit) \in Seq(from + 1 .. height)
           /\ from + 1 .. height = Evm!ToSet(Solana!Page(limit)) \cup Solana!OffPage(limit)
<1> DEFINE n == height - from
           k == IF n <= limit THEN n ELSE limit
           q == [i \in 1..k |-> height + 1 - i]
<1>1. k \in Nat /\ k <= n /\ k <= limit
  OBVIOUS
<1>2. Solana!Page(limit) = q
  BY DEF Solana!Page
<1>3. q \in Seq(from + 1 .. height) /\ DOMAIN q = 1..k
  BY <1>1
<1>4. \A i \in 1..k : q[i] \in from + 1 .. height
  BY <1>1
<1>5. ASSUME NEW s \in from + 1 .. height PROVE s \in Evm!ToSet(q) \cup Solana!OffPage(limit)
  <2>1. CASE s + limit <= height
    BY <2>1 DEF Solana!OffPage
  <2>2. CASE ~(s + limit <= height)
    <3>1. height + 1 - s \in DOMAIN q /\ q[height + 1 - s] = s
      BY <1>1, <2>2
    <3> QED
      BY <3>1 DEF Evm!ToSet
  <2> QED
    BY <2>1, <2>2
<1>6. Solana!OffPage(limit) \subseteq from + 1 .. height
  BY DEF Solana!OffPage
<1> HIDE DEF q
<1> QED
  BY <1>2, <1>3, <1>4, <1>5, <1>6 DEF Evm!ToSet

(* What add_event is given is recorded, lost, or stored before.             *)
LEMMA Added ==
    ASSUME NEW s, Solana!Add(s)
    PROVE  /\ pending \subseteq pending' /\ pending' \subseteq pending \cup {s}
           /\ lost \subseteq lost' /\ lost' \subseteq lost \cup {s}
           /\ s \in pending' \cup lost' \/ Solana!Stored(s)
<1>1. Solana!Unheard({s}) \subseteq {s}
  BY DEF Solana!Unheard
<1>2. s \in Solana!Unheard({s}) \/ s \in pending \/ Solana!Stored(s)
  BY DEF Solana!Unheard
<1> QED
  BY <1>1, <1>2 DEF Solana!Add

(* The empty function has no task in hand. *)
LEMMA NoHands == DOMAIN <<>> = {}
<1>1. <<>> \in Seq({}) /\ Len(<<>>) = 0
  BY EmptySeq
<1> QED
  BY <1>1, LenProperties

(* Solana: every step keeps the types. *)
LEMMA SolanaTypes ==
    ASSUME Solana!TypeOK, from <= height, Solana!Next PROVE Solana!TypeOK'
<1> USE Constants DEF Solana!Signatures
<1>0. Solana!TypeOK
  OBVIOUS
<1>v. faults' \in 0..MaxFaults
  <2>1. faults' = faults \/ Solana!Fail(1)
    <3> USE DEF Solana!Add
    <3>1. CASE Solana!Loop
      BY <3>1 DEF Solana!Loop, Solana!Begin, Solana!BeginAtStart, Solana!BeginAtCheckpoint,
         Solana!BeginWithNothing, Solana!List, Solana!Record, Solana!Subscribe, Solana!Receive
    <3>2. CASE \E s \in 1..MaxHeight : Solana!Task(s)
      BY <3>2 DEF Solana!Task, Solana!FetchTransaction, Solana!RemoveEvent, Solana!Save
    <3>3. CASE Solana!Scan \/ Solana!ListFails \/ Solana!StartOver \/ Solana!Close
               \/ Solana!Crash \/ Solana!Grow
      BY <3>3 DEF Solana!Scan, Solana!ListFails, Solana!StartOver, Solana!Close, Solana!Crash,
         Solana!Grow
    <3> QED
      BY <3>1, <3>2, <3>3 DEF Solana!Next
  <2> QED
    BY <1>0, <2>1 DEF Solana!TypeOK, Solana!Fail
<1>h. /\ height \in Nat /\ height <= MaxHeight /\ start \in {0, 1} /\ height >= 1
      /\ start # 0 => start \in 1..MaxHeight
  BY <1>0 DEF Solana!TypeOK
<1>3. ASSUME NEW s \in 1..MaxHeight, Solana!Add(s)
      PROVE  pending' \subseteq 1..MaxHeight /\ lost' \subseteq 1..MaxHeight
  <2>1. pending' \subseteq pending \cup {s} /\ lost' \subseteq lost \cup {s}
    BY <1>3, Added
  <2> QED
    BY <1>0, <2>1 DEF Solana!TypeOK
<1>s. ASSUME NEW S \in SUBSET (1..MaxHeight), lost' = lost \cup Solana!Unheard(S)
      PROVE  lost' \subseteq 1..MaxHeight
  BY <1>0, <1>s DEF Solana!TypeOK, Solana!Unheard
<1>a. CASE Solana!BeginAtStart
  <2>1. pending' \subseteq 1..MaxHeight /\ lost' \subseteq 1..MaxHeight
    BY <1>h, <1>3, <1>a DEF Solana!BeginAtStart
  <2> QED
    BY <1>0, <1>v, <1>h, <1>a, <2>1 DEF Solana!BeginAtStart, Solana!TypeOK
<1>b. CASE Solana!BeginAtCheckpoint
  BY <1>0, <1>v, <1>b DEF Solana!BeginAtCheckpoint, Solana!TypeOK
<1>c. CASE Solana!BeginWithNothing
  <2>1. adrift \cup (last + 1 .. height) \in SUBSET (1..MaxHeight) /\ height \in 0..MaxHeight
    BY <1>0, <1>h DEF Solana!TypeOK
  <2>2. lost' \subseteq 1..MaxHeight
    BY <1>s, <1>c, <2>1 DEF Solana!BeginWithNothing
  <2> QED
    BY <1>0, <1>v, <1>c, <2>1, <2>2 DEF Solana!BeginWithNothing, Solana!TypeOK
<1>1. CASE Solana!List
  <2>1. PICK limit \in PageLimits :
           /\ todo' = Solana!Page(limit)
           /\ lost' = lost \cup Solana!Unheard({s \in adrift : s <= from} \cup Solana!OffPage(limit))
    BY <1>1 DEF Solana!List
  <2>2. from \in Nat /\ from + 1 .. height \subseteq 1..MaxHeight /\ limit \in Nat
    BY <1>0, <1>h, IndexersOK DEF Solana!TypeOK, Solana!SolanaIndexerOK
  <2>3. Solana!Page(limit) \in Seq(1..MaxHeight) /\ Solana!OffPage(limit) \subseteq 1..MaxHeight
    BY <1>h, <2>2, PageListed, SeqMonotonic
  <2>4. lost' \subseteq 1..MaxHeight
    <3>1. {s \in adrift : s <= from} \cup Solana!OffPage(limit) \in SUBSET (1..MaxHeight)
      BY <1>0, <2>3 DEF Solana!TypeOK
    <3> QED
      BY <1>s, <2>1, <3>1
  <2>5. /\ pc' = "record" /\ from' = 0 /\ fetched' = height /\ adrift' = {}
        /\ UNCHANGED <<height, args, start, live, pending, hands, last, events>>
    BY <1>1 DEF Solana!List
  <2>6. todo' \in Seq(1..MaxHeight) /\ live = <<>>
    BY <1>0, <1>1, <2>1, <2>3 DEF Solana!List, Solana!TypeOK
  <2> QED
    BY <1>0, <1>v, <1>h, <2>4, <2>5, <2>6 DEF Solana!TypeOK
<1>2. CASE Solana!ListFails
  BY <1>0, <1>v, <1>2 DEF Solana!ListFails, Solana!TypeOK
<1>4. CASE Solana!Record
  <2>1. Head(todo) \in 1..MaxHeight /\ Tail(todo) \in Seq(1..MaxHeight)
    BY <1>0, <1>4, HeldByTail DEF Solana!Record, Solana!TypeOK
  <2>2. pending' \subseteq 1..MaxHeight /\ lost' \subseteq 1..MaxHeight
    BY <1>3, <1>4, <2>1 DEF Solana!Record
  <2> QED
    BY <1>0, <1>v, <1>4, <2>1, <2>2 DEF Solana!Record, Solana!TypeOK
<1>5. CASE Solana!Subscribe
  <2>1. fetched + 1 .. height \subseteq 1..MaxHeight
    BY <1>0, <1>h DEF Solana!TypeOK
  <2> QED
    BY <1>0, <1>v, <1>5, <2>1 DEF Solana!Subscribe, Solana!TypeOK
<1>6. CASE Solana!Receive
  <2>1. Head(live) \in 1..MaxHeight /\ Tail(live) \in Seq(1..MaxHeight)
    BY <1>0, <1>6, HeldByTail DEF Solana!Receive, Solana!TypeOK
  <2>2. pending' \subseteq 1..MaxHeight /\ lost' \subseteq 1..MaxHeight
    BY <1>3, <1>6, <2>1 DEF Solana!Receive
  <2> QED
    BY <1>0, <1>v, <1>6, <2>1, <2>2 DEF Solana!Receive, Solana!TypeOK
<1>7. CASE Solana!StartOver
  BY <1>0, <1>v, <1>7 DEF Solana!StartOver, Solana!TypeOK
<1>8. Solana!ToSet(todo) \subseteq 1..MaxHeight /\ Solana!ToSet(live) \subseteq 1..MaxHeight
  BY <1>0, HeldIn, HeldBySame DEF Solana!TypeOK
<1>9. CASE Solana!Close
  <2>1. adrift' \subseteq 1..MaxHeight
    BY <1>0, <1>8, <1>9 DEF Solana!Close, Solana!TypeOK
  <2> QED
    BY <1>0, <1>v, <1>9, <2>1, EmptySeq DEF Solana!Close, Solana!TypeOK
<1>10. CASE Solana!Scan
  BY <1>0, <1>v, <1>10 DEF Solana!Scan, Solana!TypeOK
<1>11. ASSUME NEW s \in 1..MaxHeight, NEW step \in {"fetch", "remove", "save"},
              Solana!Step(s, step) \/ Solana!Done(s)
       PROVE  /\ DOMAIN hands' \subseteq 1..MaxHeight
              /\ \A t \in DOMAIN hands' : hands'[t] \in {"fetch", "remove", "save"}
  BY <1>0, <1>11 DEF Solana!Step, Solana!Done, Solana!TypeOK
<1>12. ASSUME NEW s \in 1..MaxHeight, Solana!FetchTransaction(s) PROVE Solana!TypeOK'
  <2>1. /\ DOMAIN hands' \subseteq 1..MaxHeight
        /\ \A t \in DOMAIN hands' : hands'[t] \in {"fetch", "remove", "save"}
    BY <1>11, <1>12 DEF Solana!FetchTransaction
  <2>2. \A e \in events' : e[1] \in 1..MaxHeight /\ e[2] \in 1..Messages[e[1]]
    <3>1. Messages[s] \in 1..Messages[s]
      BY IndexersOK DEF Solana!SolanaIndexerOK
    <3>2. \A e \in events : e[1] \in 1..MaxHeight /\ e[2] \in 1..Messages[e[1]]
      BY <1>0 DEF Solana!TypeOK
    <3>3. UNCHANGED events \/ events' = {e \in events : e[1] # s} \cup {<<s, Messages[s]>>}
      BY <1>12 DEF Solana!FetchTransaction, Solana!StoreMessages
    <3> QED
      BY <3>1, <3>2, <3>3
  <2>3. lost' \subseteq 1..MaxHeight
    BY <1>0, <1>12 DEF Solana!FetchTransaction, Solana!TypeOK
  <2> QED
    BY <1>0, <1>v, <1>12, <2>1, <2>2, <2>3 DEF Solana!FetchTransaction, Solana!TypeOK
<1>13. ASSUME NEW s \in 1..MaxHeight, Solana!RemoveEvent(s) PROVE Solana!TypeOK'
  <2>1. /\ DOMAIN hands' \subseteq 1..MaxHeight
        /\ \A t \in DOMAIN hands' : hands'[t] \in {"fetch", "remove", "save"}
    BY <1>11, <1>13 DEF Solana!RemoveEvent
  <2> QED
    BY <1>0, <1>v, <1>13, <2>1 DEF Solana!RemoveEvent, Solana!TypeOK
<1>14. ASSUME NEW s \in 1..MaxHeight, Solana!Save(s) PROVE Solana!TypeOK'
  <2>1. /\ DOMAIN hands' \subseteq 1..MaxHeight
        /\ \A t \in DOMAIN hands' : hands'[t] \in {"fetch", "remove", "save"}
    BY <1>11, <1>14 DEF Solana!Save
  <2>2. last' \in 0..MaxHeight
    BY <1>0, <1>14 DEF Solana!Save, Solana!TypeOK
  <2> QED
    BY <1>0, <1>v, <1>14, <2>1, <2>2 DEF Solana!Save, Solana!TypeOK
<1>15. CASE Solana!Crash
  <2>1. adrift' \subseteq 1..MaxHeight
    BY <1>0, <1>8, <1>15 DEF Solana!Crash, Solana!TypeOK
  <2>2. DOMAIN hands' = {}
    BY <1>15, NoHands DEF Solana!Crash
  <2> QED
    BY <1>0, <1>v, <1>15, <2>1, <2>2, EmptySeq DEF Solana!Crash, Solana!TypeOK
<1>16. CASE Solana!Grow
  <2>1. height' \in 1..MaxHeight
    BY <1>h, <1>16 DEF Solana!Grow
  <2>2. live' \in Seq(1..MaxHeight) /\ (pc # "stream" => live' = <<>>)
    BY <1>0, <1>16, <2>1, AppendProperties DEF Solana!Grow, Solana!TypeOK
  <2> QED
    BY <1>0, <1>v, <1>16, <2>1, <2>2 DEF Solana!Grow, Solana!TypeOK
<1> QED
  BY <1>1, <1>2, <1>4, <1>5, <1>6, <1>7, <1>9, <1>10, <1>12, <1>13, <1>14, <1>15, <1>16,
     <1>a, <1>b, <1>c
     DEF Solana!Next, Solana!Loop, Solana!Begin, Solana!Task
(* What is behind a signature stays covered as long as each signature does. *)
LEMMA SolanaStep == ASSUME SolanaInv, Solana!Next PROVE SolanaInv'
<1> USE Constants DEF Solana!Signatures
<1>0. /\ Solana!TypeOK /\ Solana!TypeOK'
      /\ \A s \in SolanaInHand : s <= height
      /\ last <= height /\ fetched <= height
      /\ from <= height /\ \A r \in 1..from : SolanaCovered(r)
      /\ \A s \in pending \cup DOMAIN hands \cup {last} : \A r \in 1..s : SolanaCovered(r)
      /\ pc = "record" => \A r \in 1..fetched : SolanaCovered(r)
      /\ pc = "record" => \A s \in Solana!ToSet(todo) : s <= fetched
      /\ pc = "stream" => \A r \in 1..height : SolanaCovered(r)
      /\ \A s \in DOMAIN hands :
            hands[s] \in {"remove", "save"} => Solana!Stored(s) \/ s \in lost
  BY SolanaTypes DEF SolanaInv
<1>h. /\ height \in Nat /\ height <= MaxHeight /\ height >= 1 /\ last \in Nat /\ fetched \in Nat
      /\ from \in Nat /\ start \in {0, 1}
  BY <1>0 DEF Solana!TypeOK
<1>e. /\ pc # "record" => Solana!ToSet(todo) = {}
      /\ pc # "stream" => Solana!ToSet(live) = {}
  BY <1>0, HeldByEmpty, HeldBySame DEF Solana!TypeOK
<1>a. CASE Solana!BeginAtStart
  <2>1. /\ start = 1 /\ pc' = "list" /\ from' = 1 /\ Solana!Add(1)
        /\ UNCHANGED <<height, fetched, todo, live, adrift, hands, last, events>>
    BY <1>h, <1>a DEF Solana!BeginAtStart
  <2>2. /\ pending \subseteq pending' /\ pending' \subseteq pending \cup {1}
        /\ lost \subseteq lost'
        /\ 1 \in pending' \cup lost' \/ Solana!Stored(1)
    BY <2>1, Added
  <2>3. \A r : SolanaCovered(r) => SolanaCovered(r)'
    BY <2>1, <2>2 DEF SolanaCovered, Solana!Stored
  <2>4. \A r \in 1..1 : SolanaCovered(r)'
    BY <2>1, <2>2 DEF SolanaCovered, Solana!Stored
  <2>5. \A s \in SolanaInHand' : s <= height'
    BY <1>0, <1>h, <2>1, <2>2 DEF SolanaInHand
  <2>6. \A s \in pending' \cup DOMAIN hands' \cup {last'} : \A r \in 1..s : SolanaCovered(r)'
    BY <1>0, <2>1, <2>2, <2>3, <2>4
  <2>7. \A s \in DOMAIN hands' :
           hands'[s] \in {"remove", "save"} => Solana!Stored(s)' \/ s \in lost'
    BY <1>0, <2>1, <2>2 DEF Solana!Stored
  <2> QED
    BY <1>0, <1>h, <2>1, <2>4, <2>5, <2>6, <2>7 DEF SolanaInv
<1>b. CASE Solana!BeginAtCheckpoint
  <2>1. /\ pc' = "list" /\ from' = last
        /\ UNCHANGED <<height, fetched, todo, live, adrift, pending, hands, last, events, lost>>
    BY <1>b DEF Solana!BeginAtCheckpoint
  <2>2. SolanaInHand' = SolanaInHand /\ \A r : SolanaCovered(r) => SolanaCovered(r)'
    BY <2>1 DEF SolanaInHand, SolanaCovered, Solana!Stored
  <2> QED
    BY <1>0, <2>1, <2>2 DEF SolanaInv, Solana!Stored
<1>c. CASE Solana!BeginWithNothing
  <2>1. /\ pc = "begin" /\ pc' = "record" /\ fetched' = height /\ adrift' = {}
        /\ lost' = lost \cup Solana!Unheard(adrift \cup (last + 1 .. height))
        /\ UNCHANGED <<height, from, todo, live, pending, hands, last, events>>
    BY <1>c DEF Solana!BeginWithNothing
  <2>2. \A r \in adrift \cup (last + 1 .. height) : SolanaCovered(r)'
    BY <2>1 DEF SolanaCovered, Solana!Unheard, Solana!Stored
  <2>3. \A r : SolanaCovered(r) => SolanaCovered(r)'
    BY <2>1, <2>2 DEF SolanaCovered, Solana!Stored
  <2>4. ASSUME NEW r \in 1..height PROVE SolanaCovered(r)'
    <3>1. r \in 1..last \/ r \in last + 1 .. height
      BY <1>h
    <3> QED
      BY <1>0, <2>2, <2>3, <3>1
  <2>5. SolanaInHand' \subseteq SolanaInHand
    BY <2>1 DEF SolanaInHand
  <2>6. \A s \in Solana!ToSet(todo') : s <= fetched'
    BY <1>e, <2>1
  <2> QED
    BY <1>0, <1>h, <2>1, <2>3, <2>4, <2>5, <2>6 DEF SolanaInv, Solana!Stored
<1>1. CASE Solana!List
  <2>1. PICK limit \in PageLimits :
           /\ todo' = Solana!Page(limit)
           /\ lost' = lost \cup Solana!Unheard({s \in adrift : s <= from} \cup Solana!OffPage(limit))
    BY <1>1 DEF Solana!List
  <2>2. /\ pc = "list" /\ pc' = "record" /\ from' = 0 /\ fetched' = height /\ adrift' = {}
        /\ UNCHANGED <<height, start, live, pending, hands, last, events>>
    BY <1>1 DEF Solana!List
  <2>3. from + 1 .. height = Solana!ToSet(todo') \cup Solana!OffPage(limit)
    <3>1. limit \in Nat
      BY IndexersOK DEF Solana!SolanaIndexerOK
    <3> QED
      BY <1>0, <1>h, <2>1, <3>1, PageListed, HeldBySame
  <2>4. \A r \in {s \in adrift : s <= from} \cup Solana!OffPage(limit) : SolanaCovered(r)'
    BY <2>1, <2>2 DEF SolanaCovered, Solana!Unheard, Solana!Stored
  <2>5. \A r \in from + 1 .. height : SolanaCovered(r)'
    BY <2>3, <2>4 DEF SolanaCovered
  <2>6. ASSUME NEW r, SolanaCovered(r) PROVE SolanaCovered(r)'
    <3>1. CASE r \in adrift
      <4>1. r \in Nat /\ r <= height
        BY <1>0, <3>1 DEF SolanaInHand, Solana!TypeOK
      <4>2. r <= from \/ r \in from + 1 .. height
        BY <1>h, <4>1
      <4> QED
        BY <2>4, <2>5, <3>1, <4>2
    <3>2. CASE r \notin adrift
      BY <1>e, <2>1, <2>2, <2>6, <3>2 DEF SolanaCovered, Solana!Stored
    <3> QED
      BY <3>1, <3>2
  <2>7. ASSUME NEW r \in 1..height PROVE SolanaCovered(r)'
    <3>1. r \in 1..from \/ r \in from + 1 .. height
      BY <1>h
    <3> QED
      BY <1>0, <2>5, <2>6, <3>1
  <2>8. \A s \in Solana!ToSet(todo') : s <= height
    BY <1>h, <2>3
  <2>9. \A s \in SolanaInHand' : s <= height'
    BY <1>0, <2>2, <2>8 DEF SolanaInHand
  <2>10. \A s \in pending' \cup DOMAIN hands' \cup {last'} : \A r \in 1..s : SolanaCovered(r)'
    BY <1>0, <2>2, <2>6
  <2>11. \A s \in DOMAIN hands' :
            hands'[s] \in {"remove", "save"} => Solana!Stored(s)' \/ s \in lost'
    BY <1>0, <2>1, <2>2 DEF Solana!Stored
  <2> QED
    BY <1>0, <1>h, <2>2, <2>7, <2>8, <2>9, <2>10, <2>11 DEF SolanaInv
<1>2. CASE Solana!ListFails
  <2>1. /\ pc' = "begin" /\ from' = 0
        /\ UNCHANGED <<height, fetched, todo, live, adrift, pending, hands, last, events, lost>>
    BY <1>2 DEF Solana!ListFails
  <2>2. SolanaInHand' = SolanaInHand /\ \A r : SolanaCovered(r) => SolanaCovered(r)'
    BY <2>1 DEF SolanaInHand, SolanaCovered, Solana!Stored
  <2> QED
    BY <1>0, <1>h, <2>1, <2>2 DEF SolanaInv, Solana!Stored
<1>3. CASE Solana!Record
  <2>1. /\ pc = "record" /\ todo' = Tail(todo)
        /\ pending \subseteq pending' /\ pending' \subseteq pending \cup {Head(todo)}
        /\ lost \subseteq lost'
        /\ Head(todo) \in pending' \cup lost' \/ Solana!Stored(Head(todo))
        /\ UNCHANGED <<height, start, pc, from, fetched, live, adrift, hands, last, events>>
    BY <1>3, Added DEF Solana!Record
  <2>2. /\ Head(todo) \in Solana!ToSet(todo) /\ Head(todo) \in Nat
        /\ Solana!ToSet(todo) = {Head(todo)} \cup Solana!ToSet(todo')
    BY <1>0, <1>3, <2>1, HeldByTail, HeldBySame DEF Solana!Record, Solana!TypeOK
  <2>3. \A r : SolanaCovered(r) => SolanaCovered(r)'
    BY <2>1, <2>2 DEF SolanaCovered, Solana!Stored
  <2>4. \A r \in 1..Head(todo) : SolanaCovered(r)
    <3>1. Head(todo) <= fetched
      BY <1>0, <2>1, <2>2
    <3> QED
      BY <1>0, <1>h, <2>1, <2>2, <3>1
  <2>5. \A s \in SolanaInHand' : s <= height'
    BY <1>0, <2>1, <2>2 DEF SolanaInHand
  <2>6. \A s \in pending' \cup DOMAIN hands' \cup {last'} : \A r \in 1..s : SolanaCovered(r)'
    BY <1>0, <2>1, <2>3, <2>4
  <2> QED
    BY <1>0, <2>1, <2>2, <2>3, <2>5, <2>6 DEF SolanaInv, Solana!Stored
<1>4. CASE Solana!Subscribe
  <2>1. /\ pc = "record" /\ pc' = "stream" /\ lost' = lost \cup (fetched + 1 .. height)
        /\ UNCHANGED <<height, start, from, fetched, todo, live, adrift, pending, hands, last, events>>
    BY <1>4 DEF Solana!Subscribe
  <2>2. \A r : SolanaCovered(r) => SolanaCovered(r)'
    BY <2>1 DEF SolanaCovered, Solana!Stored
  <2>3. ASSUME NEW r \in 1..height PROVE SolanaCovered(r)'
    <3>1. r \in 1..fetched \/ r \in fetched + 1 .. height
      BY <1>h
    <3> QED
      BY <1>0, <2>1, <2>2, <3>1 DEF SolanaCovered
  <2>4. SolanaInHand' = SolanaInHand
    BY <2>1 DEF SolanaInHand
  <2> QED
    BY <1>0, <2>1, <2>2, <2>3, <2>4 DEF SolanaInv, Solana!Stored
<1>5. CASE Solana!Receive
  <2>1. /\ pc = "stream" /\ live' = Tail(live)
        /\ pending \subseteq pending' /\ pending' \subseteq pending \cup {Head(live)}
        /\ lost \subseteq lost'
        /\ Head(live) \in pending' \cup lost' \/ Solana!Stored(Head(live))
        /\ UNCHANGED <<height, start, pc, from, fetched, todo, adrift, hands, last, events>>
    BY <1>5, Added DEF Solana!Receive
  <2>2. /\ Head(live) \in Solana!ToSet(live) /\ Head(live) \in Nat
        /\ Solana!ToSet(live) = {Head(live)} \cup Solana!ToSet(live')
    BY <1>0, <1>5, <2>1, HeldByTail, HeldBySame DEF Solana!Receive, Solana!TypeOK
  <2>3. \A r : SolanaCovered(r) => SolanaCovered(r)'
    BY <2>1, <2>2 DEF SolanaCovered, Solana!Stored
  <2>4. \A r \in 1..Head(live) : SolanaCovered(r)
    <3>1. Head(live) <= height
      BY <1>0, <2>2 DEF SolanaInHand
    <3> QED
      BY <1>0, <1>h, <2>1, <2>2, <3>1
  <2>5. \A s \in SolanaInHand' : s <= height'
    BY <1>0, <2>1, <2>2 DEF SolanaInHand
  <2>6. \A s \in pending' \cup DOMAIN hands' \cup {last'} : \A r \in 1..s : SolanaCovered(r)'
    BY <1>0, <2>1, <2>3, <2>4
  <2> QED
    BY <1>0, <2>1, <2>2, <2>3, <2>5, <2>6 DEF SolanaInv, Solana!Stored
<1>6. CASE Solana!StartOver
  <2>1. /\ pc' = "begin"
        /\ UNCHANGED <<height, from, fetched, todo, live, adrift, pending, hands, last, events, lost>>
    BY <1>6 DEF Solana!StartOver
  <2>2. SolanaInHand' = SolanaInHand /\ \A r : SolanaCovered(r) => SolanaCovered(r)'
    BY <2>1 DEF SolanaInHand, SolanaCovered, Solana!Stored
  <2> QED
    BY <1>0, <2>1, <2>2 DEF SolanaInv, Solana!Stored
<1>7. CASE Solana!Close
  <2>1. /\ pc' = "begin" /\ live' = <<>> /\ adrift' = adrift \cup Solana!ToSet(live)
        /\ UNCHANGED <<height, from, fetched, todo, pending, hands, last, events, lost>>
    BY <1>7 DEF Solana!Close
  <2>2. SolanaInHand' \subseteq SolanaInHand /\ \A r : SolanaCovered(r) => SolanaCovered(r)'
    BY <2>1, HeldByEmpty, HeldBySame DEF SolanaInHand, SolanaCovered, Solana!Stored
  <2> QED
    BY <1>0, <2>1, <2>2 DEF SolanaInv, Solana!Stored
<1>8. CASE Solana!Scan
  <2>1. /\ hands' = [s \in pending |-> "fetch"]
        /\ UNCHANGED <<height, start, pc, from, fetched, todo, live, adrift, pending, last, events, lost>>
    BY <1>8 DEF Solana!Scan
  <2>2. SolanaInHand' \subseteq SolanaInHand /\ \A r : SolanaCovered(r) => SolanaCovered(r)'
    BY <2>1 DEF SolanaInHand, SolanaCovered, Solana!Stored
  <2>3. DOMAIN hands' = pending /\ \A s \in DOMAIN hands' : hands'[s] = "fetch"
    BY <2>1
  <2> QED
    BY <1>0, <2>1, <2>2, <2>3 DEF SolanaInv
<1>9. ASSUME NEW s \in 1..MaxHeight, Solana!FetchTransaction(s) PROVE SolanaInv'
  <2>1. /\ s \in DOMAIN hands /\ DOMAIN hands' \subseteq DOMAIN hands
        /\ \A t \in DOMAIN hands' : t = s \/ hands'[t] = hands[t]
        /\ lost \subseteq lost'
        /\ UNCHANGED <<height, start, pc, from, fetched, todo, live, adrift, pending, last>>
    BY <1>9 DEF Solana!FetchTransaction, Solana!At, Solana!Step, Solana!Done
  <2>2. s \in DOMAIN hands' => Solana!Stored(s)' \/ s \in lost'
    BY <1>9 DEF Solana!FetchTransaction, Solana!StoreMessages, Solana!Stored, Solana!Done
  <2>3. \A r : Solana!Stored(r) => Solana!Stored(r)'
    BY <1>9 DEF Solana!FetchTransaction, Solana!StoreMessages, Solana!Stored
  <2>4. SolanaInHand' \subseteq SolanaInHand /\ \A r : SolanaCovered(r) => SolanaCovered(r)'
    BY <2>1, <2>3 DEF SolanaInHand, SolanaCovered
  <2>5. \A t \in pending' \cup DOMAIN hands' \cup {last'} : \A r \in 1..t : SolanaCovered(r)'
    BY <1>0, <2>1, <2>4
  <2>6. \A t \in DOMAIN hands' :
           hands'[t] \in {"remove", "save"} => Solana!Stored(t)' \/ t \in lost'
    BY <1>0, <2>1, <2>2, <2>3
  <2> QED
    BY <1>0, <2>1, <2>4, <2>5, <2>6 DEF SolanaInv
<1>10. ASSUME NEW s \in 1..MaxHeight, Solana!RemoveEvent(s) PROVE SolanaInv'
  <2>1. /\ s \in DOMAIN hands /\ hands[s] = "remove" /\ DOMAIN hands' = DOMAIN hands
        /\ \A t \in DOMAIN hands' : t = s \/ hands'[t] = hands[t]
        /\ pending' \subseteq pending /\ pending \subseteq pending' \cup {s}
        /\ UNCHANGED <<height, start, pc, from, fetched, todo, live, adrift, last, events, lost>>
    BY <1>10 DEF Solana!RemoveEvent, Solana!At, Solana!Step
  <2>2. Solana!Stored(s) \/ s \in lost
    BY <1>0, <2>1
  <2>3. SolanaInHand' \subseteq SolanaInHand /\ \A r : SolanaCovered(r) => SolanaCovered(r)'
    BY <2>1, <2>2 DEF SolanaInHand, SolanaCovered, Solana!Stored
  <2>4. \A t \in pending' \cup DOMAIN hands' \cup {last'} : \A r \in 1..t : SolanaCovered(r)'
    BY <1>0, <2>1, <2>3
  <2>5. \A t \in DOMAIN hands' :
           hands'[t] \in {"remove", "save"} => Solana!Stored(t)' \/ t \in lost'
    BY <1>0, <2>1, <2>2 DEF Solana!Stored
  <2> QED
    BY <1>0, <2>1, <2>3, <2>4, <2>5 DEF SolanaInv
<1>11. ASSUME NEW s \in 1..MaxHeight, Solana!Save(s) PROVE SolanaInv'
  <2>1. /\ s \in DOMAIN hands /\ DOMAIN hands' \subseteq DOMAIN hands
        /\ \A t \in DOMAIN hands' : hands'[t] = hands[t]
        /\ last' \in {last, s}
        /\ UNCHANGED <<height, start, pc, from, fetched, todo, live, adrift, pending, events, lost>>
    BY <1>11 DEF Solana!Save, Solana!At, Solana!Done
  <2>2. SolanaInHand' \subseteq SolanaInHand /\ \A r : SolanaCovered(r) => SolanaCovered(r)'
    BY <2>1 DEF SolanaInHand, SolanaCovered, Solana!Stored
  <2>3. \A t \in pending' \cup DOMAIN hands' \cup {last'} : \A r \in 1..t : SolanaCovered(r)'
    BY <1>0, <2>1, <2>2
  <2>4. last' <= height
    BY <1>0, <2>1 DEF SolanaInHand
  <2>5. \A t \in DOMAIN hands' :
           hands'[t] \in {"remove", "save"} => Solana!Stored(t)' \/ t \in lost'
    BY <1>0, <2>1 DEF Solana!Stored
  <2> QED
    BY <1>0, <2>1, <2>2, <2>3, <2>4, <2>5 DEF SolanaInv
<1>12. CASE Solana!Crash
  <2>1. /\ pc' = "begin" /\ from' = 0 /\ todo' = <<>> /\ live' = <<>>
        /\ adrift' = adrift \cup Solana!ToSet(todo) \cup Solana!ToSet(live)
        /\ UNCHANGED <<height, fetched, pending, last, events, lost>>
    BY <1>12 DEF Solana!Crash
  <2>2. DOMAIN hands' = {}
    BY <1>12, NoHands DEF Solana!Crash
  <2>3. SolanaInHand' \subseteq SolanaInHand /\ \A r : SolanaCovered(r) => SolanaCovered(r)'
    BY <2>1, <2>2, HeldByEmpty, HeldBySame DEF SolanaInHand, SolanaCovered, Solana!Stored
  <2> QED
    BY <1>0, <1>h, <2>1, <2>2, <2>3 DEF SolanaInv
<1>13. CASE Solana!Grow
  <2>1. /\ height' = height + 1
        /\ UNCHANGED <<start, pc, from, fetched, todo, adrift, pending, hands, last, events, lost>>
    BY <1>13 DEF Solana!Grow
  <2>2. /\ pc = "stream" => Solana!ToSet(live') = Solana!ToSet(live) \cup {height + 1}
        /\ pc # "stream" => live' = live
    <3>1. live \in Seq(Nat) /\ height + 1 \in Nat
      BY <1>0, <1>h, SeqMonotonic DEF Solana!TypeOK
    <3>2. Evm!ToSet(Append(live, height + 1)) = Evm!ToSet(live) \cup {height + 1}
      BY <3>1, HeldByAppend
    <3> QED
      BY <1>13, <2>1, <3>2, HeldBySame DEF Solana!Grow
  <2>3. \A r : SolanaCovered(r) => SolanaCovered(r)'
    BY <2>1, <2>2 DEF SolanaCovered, Solana!Stored
  <2>4. ASSUME pc = "stream", NEW r \in 1..height' PROVE SolanaCovered(r)'
    <3>1. r \in 1..height \/ r = height + 1
      BY <1>h, <2>1
    <3> QED
      BY <1>0, <2>2, <2>3, <2>4, <3>1 DEF SolanaCovered
  <2>5. \A s \in SolanaInHand' : s <= height'
    <3>1. SolanaInHand' \subseteq SolanaInHand \cup {height + 1}
      BY <2>1, <2>2 DEF SolanaInHand
    <3>2. SolanaInHand \subseteq 1..MaxHeight
      BY <1>0, HeldIn, HeldBySame DEF SolanaInHand, Solana!TypeOK
    <3> QED
      BY <1>0, <1>h, <2>1, <3>1, <3>2
  <2>6. last' <= height' /\ fetched' <= height' /\ from' <= height'
    BY <1>0, <1>h, <2>1
  <2>7. \A s \in pending' \cup DOMAIN hands' \cup {last'} : \A r \in 1..s : SolanaCovered(r)'
    BY <1>0, <2>1, <2>3
  <2> QED
    BY <1>0, <2>1, <2>3, <2>4, <2>5, <2>6, <2>7 DEF SolanaInv, Solana!Stored
<1> QED
  BY <1>1, <1>2, <1>3, <1>4, <1>5, <1>6, <1>7, <1>8, <1>9, <1>10, <1>11, <1>12, <1>13,
     <1>a, <1>b, <1>c
     DEF Solana!Next, Solana!Loop, Solana!Begin, Solana!Task

(* Solana: the first start has nothing in hand. *)
LEMMA SolanaInit == ASSUME Solana!Init PROVE SolanaInv
<1> USE Constants DEF Solana!Signatures
<1>1. DOMAIN hands = {} /\ Solana!ToSet(todo) = {} /\ Solana!ToSet(live) = {}
  BY NoHands, HeldByEmpty, HeldBySame DEF Solana!Init
<1>2. Solana!TypeOK
  <2>1. height \in 1..MaxHeight /\ faults \in 0..MaxFaults
    BY DEF Solana!Init
  <2> QED
    BY <1>1, <2>1, EmptySeq DEF Solana!Init, Solana!TypeOK
<1> QED
  BY <1>1, <1>2 DEF Solana!Init, SolanaInv, SolanaInHand

(* Solana: what the invariant covers is not passed by. *)
LEMMA SolanaProperty == ASSUME SolanaInv PROVE Solana!NothingPassedBy
<1>1. last \in Nat /\ height \in Nat
  BY Constants DEF SolanaInv, Solana!TypeOK, Solana!Signatures
<1>2. ASSUME NEW s \in 1..height, s <= last PROVE SolanaCovered(s)
  BY <1>1, <1>2 DEF SolanaInv
<1> QED
  BY <1>2 DEF Solana!NothingPassedBy, SolanaCovered
-----------------------------------------------------------------------------
(* The indexer that the behaviour follows keeps its invariant. *)
IndexersInv ==
    /\ source \in {"near", "mongo", "evm", "solana"}
    /\ source = "near" => NearInv
    /\ source = "mongo" => MongoInv
    /\ source = "evm" => EvmInv
    /\ source = "solana" => SolanaInv

(* Whichever source is chosen, each indexer begins in its invariant. *)
LEMMA IndexersInit == ASSUME Init PROVE IndexersInv
BY NearInit, MongoInit, EvmInit, SolanaInit DEF Init, IndexersInv

(* A step of one indexer leaves the others at rest. *)
LEMMA IndexersStep == ASSUME IndexersInv, [Next]_vars PROVE IndexersInv'
<1>1. CASE source = "near" /\ Near!Next /\ NotNear
  BY <1>1, NearStep DEF IndexersInv, NotNear
<1>2. CASE source = "mongo" /\ Mongo!Next /\ NotMongo
  BY <1>2, MongoStep DEF IndexersInv, NotMongo
<1>3. CASE source = "evm" /\ Evm!Next /\ NotEvm
  BY <1>3, EvmStep DEF IndexersInv, NotEvm
<1>4. CASE source = "solana" /\ Solana!Next /\ NotSolana
  BY <1>4, SolanaStep DEF IndexersInv, NotSolana
<1>5. CASE UNCHANGED vars
  <2>1. UNCHANGED <<source, height, args, last, events, lost, faults, running, next, working,
                    saving, unsaved, start, pc, fetched, todo, live, latest, cur, from,
                    adrift, pending, hands>>
    BY <1>5 DEF vars, streams, catchUp, ofEvm, ofSolana
  <2>2. NearInv => NearInv'
    BY <2>1 DEF NearInv, NearCovered, Near!TypeOK
  <2>3. MongoInv => MongoInv'
    BY <2>1 DEF MongoInv, MongoCovered, Mongo!TypeOK
  <2>4. EvmInv => EvmInv'
    BY <2>1 DEF EvmInv, EvmCovered, Evm!TypeOK
  <2>5. SolanaInv => SolanaInv'
    BY <2>1 DEF SolanaInv, SolanaCovered, SolanaInHand, Solana!TypeOK, Solana!Stored
  <2> QED
    BY <2>1, <2>2, <2>3, <2>4, <2>5 DEF IndexersInv
<1> QED
  BY <1>1, <1>2, <1>3, <1>4, <1>5 DEF Next

(* The invariant holds in every reachable state. *)
THEOREM IndexersInvariant == Spec => []IndexersInv
<1>1. Init => IndexersInv
  BY IndexersInit
<1>2. IndexersInv /\ [Next]_vars => IndexersInv'
  BY IndexersStep
<1> QED
  BY <1>1, <1>2, PTL DEF Spec

(* Whichever indexer runs, its state has its types, and the blocks a stream *)
(* works on at a time stay within the window (native_indexers).             *)
THEOREM IndexersTypeCorrect == Spec => []TypeOK
<1>1. IndexersInv => TypeOK
  BY DEF IndexersInv, TypeOK, NearInv, MongoInv, EvmInv, SolanaInv
<1> QED
  BY <1>1, IndexersInvariant, PTL

(* What lies behind the point a restart resumes at is stored, in hand, or   *)
(* lost for a reason that the code is known to have: no other interleaving  *)
(* of tasks, streams, checkpoints and crashes passes an event by.           *)
THEOREM NoEventPassedBy == Spec => []NothingPassedBy
<1>1. IndexersInv => NothingPassedBy
  BY NearProperty, MongoProperty, EvmProperty, SolanaProperty DEF IndexersInv, NothingPassedBy
<1> QED
  BY <1>1, IndexersInvariant, PTL
=============================================================================
