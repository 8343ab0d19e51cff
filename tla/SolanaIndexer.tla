---------------------------- MODULE SolanaIndexer ----------------------------
(* The native Solana indexer (startup/native_indexers/solana.rs): one task    *)
(* records the signatures of the program's transactions, first those since    *)
(* the checkpoint, newest first, then those the subscription brings; another  *)
(* takes all recorded signatures, fetches their transactions, stores their    *)
(* events and writes the checkpoint, in any order.  As the two are not        *)
(* coordinated, the checkpoint may be at a signature some of whose            *)
(* predecessors are not recorded yet: if the process ends then, or the stream *)
(* breaks, they are passed by.                                                *)
(*                                                                            *)
(* Signatures are numbered from the oldest; 0 is none.                        *)
EXTENDS Naturals, Sequences, SequencesExt

CONSTANTS Messages,  \* [signature -> how many messages its transaction emits]
          PageLimits, \* how many signatures a node may list in one answer
          MaxHeight, \* bound: transactions
          MaxFaults  \* bound: crashes, closed streams, failed calls

Signatures == 1..MaxHeight

(* What the constants are. *)
SolanaIndexerOK ==
  /\ MaxHeight \in Nat \ {0} /\ MaxFaults \in Nat
  /\ PageLimits \subseteq Nat \ {0} /\ PageLimits # {}
  /\ Messages \in [Signatures -> Nat \ {0}]

VARIABLES
  height,  \* the transactions of the program are 1..height
  args,    \* the start signature of the command line
  start,   \* the start signature, until a stream has been closed
  pc,      \* "begin", "list", "record" or "stream"
  from,    \* the signature to list from; 0 unless that call is under way
  fetched, \* the newest signature when the list was fetched
  todo,    \* the signatures listed and not recorded
  live,    \* the signatures that the subscription holds
  adrift,  \* history: what a stream or process that ended had not recorded
  pending, \* redis: SOLANA_EVENTS
  hands,   \* process_signature: [signature -> "fetch", "remove" or "save"]
  last,    \* redis: the last processed signature
  events,  \* redis: <<signature, message>>, one per signature
  lost,    \* history: the signatures the code may pass by
  faults

vars == <<height, args, start, pc, from, fetched, todo, live, adrift, pending, hands, last, events,
          lost, faults>>

Fail(n) == faults + n <= MaxFaults /\ faults' = faults + n

Init ==
  /\ height = 1 /\ args \in {0, 1} /\ start = args
  /\ pc = "begin" /\ from = 0 /\ fetched = 0 /\ todo = <<>> /\ live = <<>> /\ adrift = {}
  /\ pending = {} /\ hands = <<>>
  /\ last = 0 /\ events = {} /\ lost = {} /\ faults = 0

Stored(s) == <<s, Messages[s]>> \in events

(* The signatures of a set that are neither recorded nor stored: passed by if *)
(* nothing will list them again.                                              *)
Unheard(S) == {s \in S : s \notin pending /\ ~Stored(s)}

(* add_event to SOLANA_EVENTS: what redis refuses is only logged.             *)
Add(s) ==
  \/ pending' = pending \cup {s} /\ UNCHANGED <<lost, faults>>
  \/ lost' = lost \cup Unheard({s}) /\ Fail(1) /\ UNCHANGED pending

(* process_recent_signatures up to its call to the node: the start signature  *)
(* is recorded like any other, or the checkpoint read.                        *)
BeginAtStart ==
  /\ pc = "begin" /\ start # 0
  /\ Add(start)
  /\ pc' = "list" /\ from' = start
  /\ UNCHANGED <<height, args, start, fetched, todo, live, adrift, hands, last, events>>

BeginAtCheckpoint ==
  /\ pc = "begin" /\ start = 0 /\ last # 0
  /\ pc' = "list" /\ from' = last
  /\ UNCHANGED <<height, args, start, fetched, todo, live, adrift, pending, hands, last, events,
                 lost, faults>>

(* Without a checkpoint, or when it cannot be read, nothing is listed.        *)
BeginWithNothing ==
  /\ pc = "begin" /\ start = 0
  /\ \/ last = 0 /\ UNCHANGED faults
     \/ last # 0 /\ Fail(1)
  /\ pc' = "record"
  /\ fetched' = height
  /\ adrift' = {}
  /\ lost' = lost \cup Unheard(adrift \cup (last + 1 .. height))
  /\ UNCHANGED <<height, args, start, from, todo, live, pending, hands, last, events>>

(* One call, which sets no limit and is not followed by another: the node     *)
(* answers with the newest signatures of the program, newest first, and no    *)
(* more of them than its own limit.                                           *)
Page(limit) ==
  LET newer == height - from IN
  [i \in 1..(IF newer <= limit THEN newer ELSE limit) |-> height + 1 - i]

OffPage(limit) == {s \in from + 1 .. height : s + limit <= height}

List ==
  /\ pc = "list"
  /\ pc' = "record" /\ from' = 0
  /\ fetched' = height
  /\ \E limit \in PageLimits :
       /\ todo' = Page(limit)
       /\ lost' = lost \cup Unheard({s \in adrift : s <= from} \cup OffPage(limit))
  /\ adrift' = {}
  /\ UNCHANGED <<height, args, start, live, pending, hands, last, events, faults>>

ListFails ==
  /\ pc = "list"
  /\ Fail(1)
  /\ pc' = "begin" /\ from' = 0
  /\ UNCHANGED <<height, args, start, fetched, todo, live, adrift, pending, hands, last, events,
                 lost>>

Record ==
  /\ pc = "record" /\ todo # <<>>
  /\ Add(Head(todo))
  /\ todo' = Tail(todo)
  /\ UNCHANGED <<height, args, start, pc, from, fetched, live, adrift, hands, last, events>>

Subscribe ==
  /\ pc = "record" /\ todo = <<>>
  /\ pc' = "stream"
  /\ lost' = lost \cup (fetched + 1 .. height)
  /\ UNCHANGED <<height, args, start, from, fetched, todo, live, adrift, pending, hands, last,
                 events, faults>>

Receive ==
  /\ pc = "stream" /\ live # <<>>
  /\ Add(Head(live))
  /\ live' = Tail(live)
  /\ UNCHANGED <<height, args, start, pc, from, fetched, todo, adrift, hands, last, events>>

(* A failed subscription starts over; so does the end of the stream, which    *)
(* also forgets the start signature.                                          *)
StartOver ==
  /\ pc = "record" /\ todo = <<>>
  /\ Fail(1)
  /\ pc' = "begin"
  /\ UNCHANGED <<height, args, start, from, fetched, todo, live, adrift, pending, hands, last,
                 events, lost>>

Close ==
  /\ pc = "stream"
  /\ Fail(1)
  /\ pc' = "begin" /\ start' = 0 /\ live' = <<>>
  /\ adrift' = adrift \cup ToSet(live)
  /\ UNCHANGED <<height, args, from, fetched, todo, pending, hands, last, events, lost>>

ScanNewer ==
  /\ DOMAIN hands = {} /\ \E s \in pending : s > last
  /\ hands' = [s \in {p \in pending : p > last} |-> "fetch"]
  /\ UNCHANGED <<height, args, start, pc, from, fetched, todo, live, adrift, pending, last,
                 events, lost, faults>>

(* process_signature: one scan of the hash, a task per signature, and the     *)
(* next scan when all of them have ended.                                     *)
Scan ==
  /\ DOMAIN hands = {} /\ pending # {}
  /\ hands' = [s \in pending |-> "fetch"]
  /\ UNCHANGED <<height, args, start, pc, from, fetched, todo, live, adrift, pending, last,
                 events, lost, faults>>

At(s, step) == s \in DOMAIN hands /\ hands[s] = step

Step(s, step) == hands' = [hands EXCEPT ![s] = step]

Done(s) == hands' = [t \in DOMAIN hands \ {s} |-> hands[t]]

(* process_message, decode_instruction: each message of the transaction is    *)
(* stored under the signature alone, so that the last one replaces the rest.  *)
StoreMessages(s) ==
  events' = {e \in events : e[1] # s} \cup {<<s, Messages[s]>>}

FetchDropsOnError(s) ==
  /\ At(s, "fetch")
  /\ \/ StoreMessages(s) /\ Step(s, "remove") /\ UNCHANGED <<lost, faults>>
     \/ lost' = lost \cup {s} /\ Step(s, "remove") /\ Fail(1) /\ UNCHANGED events
     \/ Step(s, "remove") /\ Fail(1) /\ UNCHANGED <<events, lost>>
  /\ UNCHANGED <<height, args, start, pc, from, fetched, todo, live, adrift, pending, last>>

(* A transaction that cannot be fetched (yet) stays in the hash; an event     *)
(* that redis refuses is only logged.                                         *)
FetchTransaction(s) ==
  /\ At(s, "fetch")
  /\ \/ StoreMessages(s) /\ Step(s, "remove") /\ UNCHANGED <<lost, faults>>
     \/ lost' = lost \cup {s} /\ Step(s, "remove") /\ Fail(1) /\ UNCHANGED events
     \/ Done(s) /\ Fail(1) /\ UNCHANGED <<events, lost>>
  /\ UNCHANGED <<height, args, start, pc, from, fetched, todo, live, adrift, pending, last>>

RemoveEvent(s) ==
  /\ At(s, "remove")
  /\ Step(s, "save")
  /\ \/ pending' = pending \ {s} /\ UNCHANGED faults
     \/ Fail(1) /\ UNCHANGED pending
  /\ UNCHANGED <<height, args, start, pc, from, fetched, todo, live, adrift, last, events, lost>>

Save(s) ==
  /\ At(s, "save")
  /\ Done(s)
  /\ \/ last' = s /\ UNCHANGED faults
     \/ Fail(1) /\ UNCHANGED last
  /\ UNCHANGED <<height, args, start, pc, from, fetched, todo, live, adrift, pending, events, lost>>

Crash ==
  /\ Fail(1)
  /\ pc' = "begin" /\ from' = 0 /\ start' = args /\ todo' = <<>> /\ live' = <<>> /\ hands' = <<>>
  /\ adrift' = adrift \cup ToSet(todo) \cup ToSet(live)
  /\ UNCHANGED <<height, args, fetched, pending, last, events, lost>>

Grow ==
  /\ height < MaxHeight
  /\ height' = height + 1
  /\ live' = IF pc = "stream" THEN Append(live, height') ELSE live
  /\ UNCHANGED <<args, start, pc, from, fetched, todo, adrift, pending, hands, last, events, lost,
                 faults>>

Begin == BeginAtStart \/ BeginAtCheckpoint \/ BeginWithNothing
Loop == Begin \/ List \/ Record \/ Subscribe \/ Receive
Task(s) == FetchTransaction(s) \/ RemoveEvent(s) \/ Save(s)

Next ==
  \/ Loop \/ Scan \/ (\E s \in Signatures : Task(s))
  \/ ListFails \/ StartOver \/ Close \/ Crash \/ Grow

Spec == Init /\ [][Next]_vars

TypeOK ==
  /\ height \in Signatures /\ args \in {0, 1} /\ start \in {0, args}
  /\ pc \in {"begin", "list", "record", "stream"} /\ from \in 0..MaxHeight /\ fetched \in 0..MaxHeight /\ last \in 0..MaxHeight
  /\ todo \in Seq(Signatures) /\ live \in Seq(Signatures)
  /\ pc = "list" <=> from # 0
  /\ pc # "record" => todo = <<>>
  /\ pc # "stream" => live = <<>>
  /\ adrift \subseteq Signatures /\ pending \subseteq Signatures /\ lost \subseteq Signatures
  /\ DOMAIN hands \subseteq Signatures
  /\ \A s \in DOMAIN hands : hands[s] \in {"fetch", "remove", "save"}
  /\ \A e \in events : e[1] \in Signatures /\ e[2] \in 1..Messages[e[1]]
  /\ faults \in 0..MaxFaults

(* Every signature up to the checkpoint is stored, recorded, about to be      *)
(* recorded, or one that the code passes by for a reason given above.         *)
NothingPassedBy ==
  \A s \in 1..height :
    s <= last =>
      \/ Stored(s) \/ s \in lost
      \/ s \in pending \cup ToSet(todo) \cup ToSet(live) \cup adrift

Settled(s) == Stored(s) \/ s \in lost
=============================================================================
