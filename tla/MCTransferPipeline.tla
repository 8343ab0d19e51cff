------------------------- MODULE MCTransferPipeline -------------------------
EXTENDS TransferPipeline

\* The first fee meets neither quote; the raised one meets the first, making
\* up for its native part, but not the second.
MCFees == <<[token |-> 10, native |-> 0], [token |-> 20, native |-> 0]>>
MCQuotes == <<[token |-> 20, native |-> 4], [token |-> 40, native |-> 8]>>
=============================================================================
