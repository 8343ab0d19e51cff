----------------------------- MODULE MCIndexers -----------------------------
EXTENDS Indexers

\* Two logs in a block, two messages in a transaction; a meta event that the
\* whitelist passes over, and a change that cannot be read.
MCKind == <<"transaction", "meta", "transaction">>
MCLogs == <<1, 2, 1>>
MCMessages == <<1, 2, 1>>
=============================================================================
