--------------------------- MODULE MongoIngestion ---------------------------
(* The change stream of the bridge indexer's database                         *)
(* (startup/mongo_ingestion.rs).  Each change is given to a task of its own,  *)
(* which nothing waits for and whose failure is only logged; the resume token *)
(* is written as soon as the task is spawned.  So what a task has in hand     *)
(* when the process ends, or fails at, is never seen again.                   *)
(*                                                                            *)
(* Changes are numbered in the order of the oplog; `last` and `args` are 0    *)
(* for no token and no --start-timestamp.                                     *)
EXTENDS Naturals, FiniteSets

CONSTANTS Kind,      \* [change -> "transaction" or "meta"]
          Whitelist, \* whether a token whitelist is configured
          MaxHeight, \* bound: changes
          MaxFaults  \* bound: crashes, closed streams, failed calls

Changes == 1..MaxHeight

(* What the constants are. *)
MongoIngestionOK ==
  /\ MaxHeight \in Nat \ {0} /\ MaxFaults \in Nat /\ Whitelist \in BOOLEAN
  /\ Kind \in [Changes -> {"transaction", "meta"}]

VARIABLES
  height,  \* the changes in the oplog are 1..height
  args,    \* the start timestamp of the command line
  running, \* a change stream is open
  next,    \* the change that the stream yields next
  unsaved, \* the change whose token the loop is about to write, or 0
  working, \* the changes that tasks have in hand
  last,    \* redis: the resume token
  events,  \* redis: the changes whose events are stored
  lost,    \* history: see `Watch`, `Handle`, `Crash`
  faults

vars == <<height, args, running, next, unsaved, working, last, events, lost, faults>>

Init ==
  /\ height = 1 /\ args \in {0, 1}
  /\ running = FALSE /\ next = 1 /\ unsaved = 0 /\ working = {}
  /\ last = 0 /\ events = {} /\ lost = {} /\ faults = 0

Resume == IF args # 0 THEN args ELSE last + 1

Fail(n) == faults + n <= MaxFaults /\ faults' = faults + n

(* The changes that are given to a task.                                      *)
Handled(c) == Kind[c] = "meta" => ~Whitelist

(* The start timestamp counts again at every restart of the stream; without a *)
(* token, or if redis does not return it, the stream begins now.              *)
WatchFrom(change) ==
  /\ ~running
  /\ running' = TRUE
  /\ next' = change
  /\ lost' = lost \cup ((last + 1 .. change - 1) \ events)
  /\ UNCHANGED <<height, args, unsaved, working, last, events>>

Watch ==
  \/ WatchFrom(IF args = 0 /\ last = 0 THEN height + 1 ELSE Resume) /\ UNCHANGED faults
  \/ args = 0 /\ last # 0 /\ WatchFrom(height + 1) /\ Fail(1)

(* The loop spawns a task and goes on to the token, but a meta event behind a *)
(* whitelist `continue`s past both.                                           *)
Change ==
  /\ running /\ unsaved = 0
  /\ next <= height
  /\ next' = next + 1
  /\ working' = working \cup (IF Handled(next) THEN {next} ELSE {})
  /\ unsaved' = IF Handled(next) THEN next ELSE 0
  /\ UNCHANGED <<height, args, running, last, events, lost, faults>>

SaveToken ==
  /\ unsaved # 0
  /\ unsaved' = 0
  /\ \/ last' = unsaved /\ UNCHANGED faults
     \/ Fail(1) /\ UNCHANGED last
  /\ UNCHANGED <<height, args, running, next, working, events, lost>>

(* handle_transaction_event, handle_meta_event.                               *)
Handle(c) ==
  /\ c \in working
  /\ working' = working \ {c}
  /\ \/ events' = events \cup {c} /\ UNCHANGED <<lost, faults>>
     \/ lost' = lost \cup {c} /\ Fail(1) /\ UNCHANGED events
  /\ UNCHANGED <<height, args, running, next, unsaved, last>>

(* The stream ends, the tasks do not; it is opened again a second later.      *)
Close ==
  /\ running /\ unsaved = 0
  /\ Fail(1)
  /\ running' = FALSE
  /\ UNCHANGED <<height, args, next, unsaved, working, last, events, lost>>

Crash ==
  /\ Fail(1)
  /\ running' = FALSE /\ unsaved' = 0 /\ working' = {}
  /\ lost' = lost \cup {c \in working : c < Resume}
  /\ UNCHANGED <<height, args, next, last, events>>

Grow ==
  /\ height < MaxHeight
  /\ height' = height + 1
  /\ UNCHANGED <<args, running, next, unsaved, working, last, events, lost, faults>>

Loop == Watch \/ Change \/ SaveToken

Next == Loop \/ (\E c \in Changes : Handle(c)) \/ Close \/ Crash \/ Grow

Spec == Init /\ [][Next]_vars

TypeOK ==
  /\ height \in Changes /\ args \in {0, 1} /\ running \in BOOLEAN
  /\ next \in 1..MaxHeight + 1 /\ unsaved \in 0..MaxHeight /\ last \in 0..MaxHeight
  /\ working \subseteq Changes /\ events \subseteq Changes /\ lost \subseteq Changes
  /\ faults \in 0..MaxFaults

(* The changes that no stream will yield again are stored, in a task's hands, *)
(* not for a task, or lost for a reason the code names.                       *)
Position == IF running THEN next ELSE Resume

NothingPassedBy ==
  \A c \in 1..Position - 1 : Handled(c) => c \in events \cup working \cup lost

Settled(c) == Handled(c) => c \in events \cup lost
=============================================================================
