---------------------------- MODULE LogParsers ----------------------------
(***************************************************************************)
(* The parsers of the resolver: which messages of ours a transaction has,  *)
(* by its logs (wormhole-vaa-api/src/resolver/evm.rs, svm.rs).             *)
(*                                                                         *)
(* A receipt of an EVM chain lists events.  Solana's node lists lines of   *)
(* text: the runtime's, `Program <id> invoke`, `Program <id> success` or   *)
(* `Program <id> failed`, and what programs print, `Program log: <text>`.  *)
(* The parser goes by the second and the third word and by the marker      *)
(* `Sequence:`; who wrote the line it cannot see.  Encodings are left out. *)
(***************************************************************************)
EXTENDS Integers, FiniteSets, SequencesExt

CONSTANTS Vaas,      \* messages, by emitter and sequence
          Programs,  \* programs and contracts
          Bridge     \* the program of our bridge, or the core contract

Events == [author: {"contract"}, program: Programs, vaa: Vaas]

(* Lines by their author, the core program or another if it is printed,    *)
(* second word, third word, and the message that a marker names.           *)
Words == {"invoke", "success", "failed", "other"}
Lines == [author: {"runtime"}, program: Programs, word: Words, vaa: {"none"}]
             \cup [author: {"core", "program"}, program: {"log:"}, word: Words, vaa: Vaas \cup {"none"}]
-----------------------------------------------------------------------------
(* parse_receipt: the events of the core contract. *)
ReadLog(state, line) ==
    IF line.program = Bridge THEN [state EXCEPT !.out = Append(@, line.vaa)] ELSE state

(* invoked_program, is_program_end, sequence_from_log, in this order. *)
Kind(line) ==
    IF line.word = "invoke" THEN "invoke"
    ELSE IF line.word \in {"success", "failed"} THEN "end"
    ELSE IF line.vaa # "none" THEN "sequence" ELSE "other"

(* parse_tx: the sequences logged while our program is on the stack of     *)
(* invocations.                                                            *)
ReadLine(state, line) ==
    CASE Kind(line) = "invoke" -> [state EXCEPT !.stack = Append(@, line.program)]
      [] Kind(line) = "end"    -> [state EXCEPT !.stack = IF @ = <<>> THEN @ ELSE Front(@)]
      [] Kind(line) = "sequence" /\ Contains(state.stack, Bridge) ->
            [state EXCEPT !.out = Append(@, line.vaa)]
      [] OTHER -> state

(* Each parser is a loop over the logs that its chain's node returns. *)
Read(state, line) ==
    IF line.author = "contract" THEN ReadLog(state, line) ELSE ReadLine(state, line)
Start == [stack |-> <<>>, out |-> <<>>]
Parse(log) == FoldLeft(Read, Start, log).out
-----------------------------------------------------------------------------
(* What happened, by who wrote the line: the runtime alone tells of calls, *)
(* and the core program alone announces messages.                          *)
Happened(line) ==
    CASE line.author = "contract" -> "message"
      [] line.author = "runtime" /\ line.word = "invoke" -> "invoke"
      [] line.author = "runtime" /\ line.word \in {"success", "failed"} -> "end"
      [] line.author = "core" /\ line.vaa # "none" -> "sequence"
      [] OTHER -> "other"

(* What the parsers should find.  An invocation is open at line j if it    *)
(* never had as many ends as invocations from it on; a sequence is ours if *)
(* one of our program's invocations is open.                               *)
Count(log, what, i, j) == Cardinality({k \in i..j : Happened(log[k]) = what})
StillOpen(log, i, j) ==
    /\ Happened(log[i]) = "invoke"
    /\ \A k \in i..j : Count(log, "end", i, k) < Count(log, "invoke", i, k)
OursAt(log, j) ==
    \/ Happened(log[j]) = "message" /\ log[j].program = Bridge
    \/ /\ Happened(log[j]) = "sequence"
       /\ \E i \in 1..j : StillOpen(log, i, j) /\ log[i].program = Bridge
Own(log) == {j \in DOMAIN log : OursAt(log, j)}

(* No printed line passes for the runtime's, nor for the core program's:   *)
(* its text does not begin with one of the three words, and only the core  *)
(* program prints the marker.                                              *)
Plain(log) ==
    \A j \in DOMAIN log :
        /\ log[j].author \in {"core", "program"} => log[j].word = "other"
        /\ log[j].author = "program" => log[j].vaa = "none"

(* found lists the messages of the given lines, in the order of the log. *)
InLogOrder(found, log, lines) ==
    \E at \in [DOMAIN found -> lines] :
        /\ \A m, n \in DOMAIN found : m < n => at[m] < at[n]
        /\ ToSet(at) = lines
        /\ \A n \in DOMAIN found : found[n] = log[at[n]].vaa
=============================================================================
