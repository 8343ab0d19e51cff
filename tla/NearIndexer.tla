---------------------------- MODULE NearIndexer ----------------------------
(* The native NEAR indexer (startup/native_indexers/near.rs).  NEAR Lake      *)
(* yields the final blocks in order; up to Window of them are handled at a    *)
(* time, in tasks that end in any order, and each task writes its own block's *)
(* height as the checkpoint when it is done.  A restart begins behind the     *)
(* checkpoint, so a block whose task was overtaken by a later one when the    *)
(* process ended is skipped.                                                  *)
(*                                                                            *)
(* A block stands for the bridge events in it.  Block 0 is no block: `last`   *)
(* is 0 before the first checkpoint and `args` is 0 without a start block on  *)
(* the command line.                                                          *)
EXTENDS Naturals, FiniteSets

CONSTANTS Window,    \* buffer_unordered(10)
          MaxHeight, \* bound: blocks produced
          MaxFaults  \* bound: crashes and failed redis calls

(* What the constants are. *)
NearIndexerOK ==
  Window \in Nat \ {0} /\ MaxHeight \in Nat \ {0} /\ MaxFaults \in Nat

VARIABLES
  height,  \* the final blocks are 1..height
  args,    \* the start block of the command line
  running, \* the stream is open
  next,    \* the block that the stream yields next
  working, \* the blocks whose events are being stored
  saving,  \* the blocks whose checkpoint is to be written
  last,    \* redis: the last processed block
  events,  \* redis: the blocks whose events are stored
  lost,    \* history: the blocks the code may pass by, see `Start`, `Handle`, `Crash`
  faults

vars == <<height, args, running, next, working, saving, last, events, lost, faults>>

Blocks == 1..MaxHeight

Init ==
  /\ height = 1 /\ args \in {0, 1}
  /\ running = FALSE /\ next = 1 /\ working = {} /\ saving = {}
  /\ last = 0 /\ events = {} /\ lost = {} /\ faults = 0

(* Where a restart begins, when there is a checkpoint to read.                *)
Resume == IF args # 0 THEN args ELSE last + 1

Fail(n) == faults + n <= MaxFaults /\ faults' = faults + n

(* create_lake_config: the start block, else the block behind the checkpoint, *)
(* else the final block.  A checkpoint that redis does not return is taken    *)
(* for one that was never written.                                            *)
StartAt(block) ==
  /\ ~running
  /\ running' = TRUE
  /\ next' = block
  /\ lost' = lost \cup ((last + 1 .. block - 1) \ events)
  /\ UNCHANGED <<height, args, working, saving, last, events>>

Start ==
  \/ StartAt(IF args = 0 /\ last = 0 THEN height ELSE Resume) /\ UNCHANGED faults
  \/ args = 0 /\ last # 0 /\ StartAt(height) /\ Fail(1)

PullUnbounded ==
  /\ running
  /\ next <= height
  /\ working' = working \cup {next}
  /\ next' = next + 1
  /\ UNCHANGED <<height, args, running, saving, last, events, lost, faults>>

(* The next block enters the window.                                          *)
Pull ==
  /\ running
  /\ next <= height
  /\ Cardinality(working \cup saving) < Window
  /\ working' = working \cup {next}
  /\ next' = next + 1
  /\ UNCHANGED <<height, args, running, saving, last, events, lost, faults>>

(* handle_streamer_message: what redis refuses, after the retries, is only    *)
(* logged.                                                                    *)
Handle(b) ==
  /\ b \in working
  /\ working' = working \ {b}
  /\ saving' = saving \cup {b}
  /\ \/ events' = events \cup {b} /\ UNCHANGED <<lost, faults>>
     \/ lost' = lost \cup {b} /\ Fail(1) /\ UNCHANGED events
  /\ UNCHANGED <<height, args, running, next, last>>

(* update_last_processed, in the order in which the tasks end.                *)
Save(b) ==
  /\ b \in saving
  /\ saving' = saving \ {b}
  /\ \/ last' = b /\ UNCHANGED faults
     \/ Fail(1) /\ UNCHANGED last
  /\ UNCHANGED <<height, args, running, next, working, events, lost>>

(* The process ends; what it was storing and will not meet again is lost.     *)
Crash ==
  /\ running
  /\ Fail(1)
  /\ running' = FALSE
  /\ working' = {} /\ saving' = {}
  /\ lost' = lost \cup {b \in working : b < Resume}
  /\ UNCHANGED <<height, args, next, last, events>>

Grow ==
  /\ height < MaxHeight
  /\ height' = height + 1
  /\ UNCHANGED <<args, running, next, working, saving, last, events, lost, faults>>

Loop == Start \/ Pull
Task(b) == Handle(b) \/ Save(b)

Next == Loop \/ (\E b \in Blocks : Task(b)) \/ Crash \/ Grow

Spec == Init /\ [][Next]_vars

(* What stays true of the state's shape: the window is never exceeded.        *)
TypeOK ==
  /\ height \in Blocks /\ args \in {0, 1} /\ running \in BOOLEAN
  /\ next \in 1..MaxHeight + 1 /\ last \in 0..MaxHeight
  /\ working \subseteq Blocks /\ saving \subseteq Blocks
  /\ Cardinality(working \cup saving) <= Window
  /\ events \subseteq Blocks /\ lost \subseteq Blocks
  /\ faults \in 0..MaxFaults

(* The blocks that nothing will bring again are stored, in a task's hands or  *)
(* lost for a reason the code names: not followed yet, refused by redis, or   *)
(* overtaken in the window when the process ended.                            *)
Position == IF running THEN next ELSE Resume

NothingPassedBy == \A b \in 1..Position - 1 : b \in events \cup working \cup lost

Settled(b) == b \in events \cup lost
=============================================================================
