----------------------------- MODULE EvmIndexer -----------------------------
(* The native EVM indexer (startup/native_indexers/evm.rs).  It fetches the   *)
(* logs since the checkpoint over HTTP, then subscribes to new ones, and      *)
(* handles one log at a time; each log handled makes its block the            *)
(* checkpoint.  Three things slip through: the logs of blocks mined after the *)
(* fetch and before the subscription, the rest of a block one of whose logs   *)
(* is the checkpoint when the stream or the process ends, and what the first  *)
(* start leaves out.                                                          *)
(*                                                                            *)
(* Log <<b, i>> is the i-th bridge log of block b.  0 is no block.            *)
EXTENDS Naturals, Sequences, SequencesExt

CONSTANTS Logs,      \* [block -> how many bridge logs it has]
          BatchSize, \* block_processing_batch_size
          MaxHeight, \* bound: blocks mined
          MaxFaults  \* bound: crashes, closed streams, failed calls

Blocks == 1..MaxHeight

(* What the constants are. *)
EvmIndexerOK ==
  /\ MaxHeight \in Nat \ {0} /\ MaxFaults \in Nat /\ BatchSize \in Nat \ {0}
  /\ Logs \in [Blocks -> Nat]

VARIABLES
  height,  \* the blocks mined are 1..height
  args,    \* the start block of the command line
  start,   \* the start block, until a stream has been closed
  pc,      \* "latest", "fetch", "log", "connect" or "stream"
  latest,  \* the latest block when the catch-up began
  cur,     \* the block from which it fetches next
  fetched, \* the last block it has fetched
  todo,    \* the logs fetched and not handled
  live,    \* the logs the subscription holds
  last,    \* redis: the last processed block
  events,  \* redis: the logs whose events are stored
  lost,    \* history: the logs the code may pass by
  faults

vars == <<height, args, start, pc, latest, cur, fetched, todo, live, last, events, lost, faults>>

LogsOf(blocks) == UNION {{b} \X (1..Logs[b]) : b \in blocks}

InOrder(l, m) == l[1] < m[1] \/ (l[1] = m[1] /\ l[2] < m[2])

(* The logs of the blocks a to b, as a node returns them: the sequences that  *)
(* have each of them once and in order, which is one sequence.                *)
GetLogs(a, b) ==
  {q \in SetToSeqs(LogsOf(a..b)) : \A i, j \in DOMAIN q : i < j => InOrder(q[i], q[j])}

Least(a, b) == IF a <= b THEN a ELSE b

Fail(n) == faults + n <= MaxFaults /\ faults' = faults + n

Init ==
  /\ height = 1 /\ args \in {0, 1} /\ start = args
  /\ pc = "latest" /\ latest = 0 /\ cur = 0 /\ fetched = 0
  /\ todo = <<>> /\ live = <<>>
  /\ last = 0 /\ events = {} /\ lost = {} /\ faults = 0

(* process_recent_blocks, up to the loop.  Without a start block and a        *)
(* checkpoint it writes one: the block after the latest, which a restart then *)
(* takes for processed although it has yet to be mined.                       *)
BeginAt(block, checkpoint) ==
  /\ pc = "latest"
  /\ pc' = "fetch"
  /\ latest' = height /\ cur' = block /\ fetched' = block - 1
  /\ last' = checkpoint
  /\ lost' = lost \cup {l \in LogsOf(Blocks) :
               last < l[1] /\ (l[1] < block \/ l[1] <= checkpoint) /\ l \notin events}
  /\ UNCHANGED <<height, args, start, todo, live, events>>

ReadLatest ==
  \/ start # 0 /\ BeginAt(start, last) /\ UNCHANGED faults
  \/ start = 0 /\ last # 0 /\ BeginAt(last + 1, last) /\ UNCHANGED faults
  \/ start = 0 /\ last = 0 /\ BeginAt(height + 1, height + 1) /\ UNCHANGED faults
  \/ start = 0 /\ last # 0 /\ BeginAt(height + 1, height + 1) /\ Fail(1)

(* `(from..latest).step_by(batch)`: the range is exclusive and get_logs is    *)
(* not, so neighbouring batches share a block, and a range of the latest      *)
(* block alone is empty.                                                      *)
Fetch ==
  /\ pc = "fetch" /\ cur < latest
  /\ pc' = "log"
  /\ fetched' = Least(cur + BatchSize, latest)
  /\ todo' \in GetLogs(cur, fetched')
  /\ cur' = cur + BatchSize
  /\ UNCHANGED <<height, args, start, latest, live, last, events, lost, faults>>

(* process_log: an event that redis refuses is only logged, and its block     *)
(* becomes the checkpoint all the same.                                       *)
Process(log) ==
  \/ events' = events \cup {log} /\ last' = log[1] /\ UNCHANGED <<lost, faults>>
  \/ lost' = lost \cup {log} /\ last' = log[1] /\ Fail(1) /\ UNCHANGED events
  \/ events' = events \cup {log} /\ Fail(1) /\ UNCHANGED <<last, lost>>

ProcessFetched ==
  /\ pc = "log" /\ todo # <<>>
  /\ Process(Head(todo))
  /\ todo' = Tail(todo)
  /\ UNCHANGED <<height, args, start, pc, latest, cur, fetched, live>>

NextBatch ==
  /\ pc = "log" /\ todo = <<>>
  /\ pc' = "fetch"
  /\ UNCHANGED <<height, args, start, latest, cur, fetched, todo, live, last, events, lost, faults>>

CaughtUp ==
  /\ pc = "fetch" /\ cur >= latest
  /\ pc' = "connect"
  /\ UNCHANGED <<height, args, start, latest, cur, fetched, todo, live, last, events, lost, faults>>

(* The subscription brings what is mined from now on.                         *)
Subscribe ==
  /\ pc = "connect"
  /\ pc' = "stream"
  /\ lost' = lost \cup (LogsOf(fetched + 1 .. height) \ events)
  /\ UNCHANGED <<height, args, start, latest, cur, fetched, todo, live, last, events, faults>>

Receive ==
  /\ pc = "stream" /\ live # <<>>
  /\ Process(Head(live))
  /\ live' = Tail(live)
  /\ UNCHANGED <<height, args, start, pc, latest, cur, fetched, todo>>

(* The logs in hand that a restart from `block` does not fetch again.         *)
CutOff(block) == {l \in ToSet(todo) \cup ToSet(live) : l[1] < block}

(* A failed call starts over (skip_fail!); so does the end of the stream,     *)
(* which also forgets the start block.                                        *)
StartOver ==
  /\ pc \in {"fetch", "connect"}
  /\ pc = "fetch" => cur < latest
  /\ Fail(1)
  /\ pc' = "latest"
  /\ UNCHANGED <<height, args, start, latest, cur, fetched, todo, live, last, events, lost>>

Close ==
  /\ pc = "stream"
  /\ Fail(1)
  /\ pc' = "latest" /\ start' = 0 /\ live' = <<>>
  /\ lost' = lost \cup CutOff(last + 1)
  /\ UNCHANGED <<height, args, latest, cur, fetched, todo, last, events>>

Crash ==
  /\ Fail(1)
  /\ pc' = "latest" /\ start' = args /\ todo' = <<>> /\ live' = <<>>
  /\ lost' = lost \cup CutOff(IF args # 0 THEN args ELSE last + 1)
  /\ UNCHANGED <<height, args, latest, cur, fetched, last, events>>

Grow ==
  /\ height < MaxHeight
  /\ height' = height + 1
  /\ IF pc = "stream" THEN \E q \in GetLogs(height', height') : live' = live \o q
     ELSE UNCHANGED live
  /\ UNCHANGED <<args, start, pc, latest, cur, fetched, todo, last, events, lost, faults>>

Loop ==
  ReadLatest \/ Fetch \/ ProcessFetched \/ NextBatch \/ CaughtUp \/ Subscribe \/ Receive

Next == Loop \/ StartOver \/ Close \/ Crash \/ Grow

Spec == Init /\ [][Next]_vars

TypeOK ==
  /\ height \in Blocks /\ args \in {0, 1} /\ start \in {0, args}
  /\ pc \in {"latest", "fetch", "log", "connect", "stream"}
  /\ latest \in 0..height /\ last \in 0..MaxHeight + 1 /\ fetched \in 0..MaxHeight + 1
  /\ todo \in Seq(LogsOf(Blocks)) /\ live \in Seq(LogsOf(Blocks))
  /\ pc # "log" => todo = <<>>
  /\ pc # "stream" => live = <<>>
  /\ events \subseteq LogsOf(Blocks) /\ lost \subseteq LogsOf(Blocks)
  /\ faults \in 0..MaxFaults

(* Every log up to the checkpoint is stored, in hand, about to be fetched     *)
(* again, or one that the code passes by for a reason given above.            *)
Refetched(l) ==
  \/ pc = "latest" /\ start # 0 /\ start <= l[1]
  \/ pc \in {"fetch", "log", "connect"} /\ fetched < l[1]

NothingPassedBy ==
  \A l \in LogsOf(1..height) :
    l[1] <= last =>
      \/ l \in events \cup lost
      \/ l \in ToSet(todo) \cup ToSet(live)
      \/ Refetched(l)

Settled(b) == LogsOf({b}) \subseteq events \cup lost
=============================================================================
