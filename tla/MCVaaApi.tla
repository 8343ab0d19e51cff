----------------------------- MODULE MCVaaApi -----------------------------
(* A Solana transaction with two messages of ours, one of them by way of   *)
(* another program, asked for by its hash and by one of the messages; and  *)
(* the parsers against what they should find, on every short log.          *)
EXTENDS VaaApi

CONSTANTS v1, v2, tx

Runtime(p, word) == [author |-> "runtime", program |-> p, word |-> word, vaa |-> "none"]
Invoke(p)   == Runtime(p, "invoke")
End(p)      == Runtime(p, "success")
Sequence(v) == [author |-> "core", program |-> "log:", word |-> "other", vaa |-> v]
Printed(word) == [author |-> "program", program |-> "log:", word |-> word, vaa |-> "none"]
MCLog ==
    [t \in {tx} |-> <<Invoke("other"), End("other"), Invoke("bridge"), Printed("other"),
                      Invoke("other"), Sequence(v1), End("other"), Sequence(v2), End("bridge")>>]
MCTargets == [t \in {tx} |-> {"solana", "fogo"}]
MCHome    == [t \in {tx} |-> "fogo"]
MCAsked   == {v1, tx, "garbage"}

-----------------------------------------------------------------------------
(* Every receipt and every plain trace of at most four lines. *)
UpTo(n, lines) == UNION {[1..m -> lines] : m \in 0..n}
PlainLines == {line \in Lines : Plain(<<line>>)}

(* The parsers list our messages, each once, in the order of the log. *)
ASSUME ParsesTransactions ==
    \A log \in UpTo(4, Events) \cup UpTo(4, PlainLines) : InLogOrder(Parse(log), log, Own(log))

(* What Plain excludes svm.rs misreads: a printed `success` ends our       *)
(* program's call, a printed `invoke` swallows the next end, and a marker  *)
(* that another program prints counts as a message.                        *)
Misread(log) == ~InLogOrder(Parse(log), log, Own(log))
ASSUME PrintedWordsMisread ==
    /\ Misread(<<Invoke("bridge"), Printed("success"), Sequence(v1)>>)
    /\ Misread(<<Invoke("bridge"), Printed("invoke"), End("bridge"), Sequence(v1)>>)
    /\ Misread(<<Invoke("bridge"), [Printed("other") EXCEPT !.vaa = v1]>>)
=============================================================================
