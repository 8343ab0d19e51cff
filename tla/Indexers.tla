------------------------------ MODULE Indexers ------------------------------
(* The indexers that write to redis, under one specification: main.rs runs    *)
(* each of them that the build and the configuration name as a task.  They    *)
(* share the process and the EVENTS hash, whose fields are their own, so a    *)
(* behaviour follows one of them, `source`; the variables the others would    *)
(* use keep their initial values.                                             *)
EXTENDS Naturals, Sequences

CONSTANTS Window, Kind, Whitelist, Logs, BatchSize, Messages, PageLimits, MaxHeight, MaxFaults

VARIABLES source, height, args, last, events, lost, faults,  \* all
          running, next, working,                            \* NEAR, Mongo
          saving,                                            \* NEAR
          unsaved,                                           \* Mongo
          start, pc, fetched, todo, live,                    \* EVM, Solana
          latest, cur,                                       \* EVM
          from, adrift, pending, hands                       \* Solana

Near == INSTANCE NearIndexer
Mongo == INSTANCE MongoIngestion
Evm == INSTANCE EvmIndexer
Solana == INSTANCE SolanaIndexer

ASSUME IndexersOK ==
  /\ Near!NearIndexerOK /\ Mongo!MongoIngestionOK
  /\ Evm!EvmIndexerOK /\ Solana!SolanaIndexerOK

streams == <<running, next, working>>
catchUp == <<start, pc, fetched, todo, live>>
ofEvm == <<latest, cur>>
ofSolana == <<from, adrift, pending, hands>>

vars == <<source, height, args, last, events, lost, faults, streams, saving, unsaved,
          catchUp, ofEvm, ofSolana>>

NoStreams == running = FALSE /\ next = 1 /\ working = {}
NoCatchUp == start = 0 /\ pc = "" /\ fetched = 0 /\ todo = <<>> /\ live = <<>>
NoEvm == latest = 0 /\ cur = 0
NoSolana == from = 0 /\ adrift = {} /\ pending = {} /\ hands = <<>>

Init ==
  \/ source = "near" /\ Near!Init /\ unsaved = 0 /\ NoCatchUp /\ NoEvm /\ NoSolana
  \/ source = "mongo" /\ Mongo!Init /\ saving = {} /\ NoCatchUp /\ NoEvm /\ NoSolana
  \/ source = "evm" /\ Evm!Init /\ NoStreams /\ saving = {} /\ unsaved = 0 /\ NoSolana
  \/ source = "solana" /\ Solana!Init /\ NoStreams /\ saving = {} /\ unsaved = 0 /\ NoEvm

NotNear == UNCHANGED <<source, unsaved, catchUp, ofEvm, ofSolana>>
NotMongo == UNCHANGED <<source, saving, catchUp, ofEvm, ofSolana>>
NotEvm == UNCHANGED <<source, streams, saving, unsaved, ofSolana>>
NotSolana == UNCHANGED <<source, streams, saving, unsaved, ofEvm>>

Next ==
  \/ source = "near" /\ Near!Next /\ NotNear
  \/ source = "mongo" /\ Mongo!Next /\ NotMongo
  \/ source = "evm" /\ Evm!Next /\ NotEvm
  \/ source = "solana" /\ Solana!Next /\ NotSolana

Spec == Init /\ [][Next]_vars

(* Every task is polled; faults are never fair.                               *)
Loop ==
  \/ source = "near" /\ Near!Loop /\ NotNear
  \/ source = "mongo" /\ Mongo!Loop /\ NotMongo
  \/ source = "evm" /\ Evm!Loop /\ NotEvm
  \/ source = "solana" /\ Solana!Loop /\ NotSolana

Task(b) ==
  \/ source = "near" /\ Near!Task(b) /\ NotNear
  \/ source = "mongo" /\ Mongo!Handle(b) /\ NotMongo
  \/ source = "solana" /\ Solana!Task(b) /\ NotSolana

Fairness ==
  /\ WF_vars(Loop /\ UNCHANGED faults)
  /\ WF_vars(source = "solana" /\ Solana!Scan /\ NotSolana)
  /\ \A b \in 1..MaxHeight : WF_vars(Task(b) /\ UNCHANGED faults)

FairSpec == Spec /\ Fairness

TypeOK ==
  /\ source = "near" => Near!TypeOK
  /\ source = "mongo" => Mongo!TypeOK
  /\ source = "evm" => Evm!TypeOK
  /\ source = "solana" => Solana!TypeOK

(* Whatever order tasks end in, and wherever the process or a stream ends:    *)
(* what lies behind the point a restart would resume at is stored, still in   *)
(* hand, or given up for a reason that the indexer's module names.            *)
NothingPassedBy ==
  /\ source = "near" => Near!NothingPassedBy
  /\ source = "mongo" => Mongo!NothingPassedBy
  /\ source = "evm" => Evm!NothingPassedBy
  /\ source = "solana" => Solana!NothingPassedBy

(* Every block, change or transaction that appears is stored in the end, or   *)
(* given up for such a reason: no restart, closed stream or failed call       *)
(* leaves an indexer waiting for what it will not be told again.              *)
Settled(b) ==
  CASE source = "near" -> Near!Settled(b)
    [] source = "mongo" -> Mongo!Settled(b)
    [] source = "evm" -> Evm!Settled(b)
    [] source = "solana" -> Solana!Settled(b)

EventsSettle == \A b \in 1..MaxHeight : height >= b ~> Settled(b)
=============================================================================
