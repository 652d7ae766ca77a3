---- MODULE MCReceiptPipeline ----
EXTENDS ReceiptPipeline

Bought(q, m) == [action |-> "buy", q |-> q, amount |-> 12 * q, quote |-> m]
Sold(q) == [action |-> "sell", q |-> q, amount |-> 20, quote |-> "SOL"]
MCSwaps == {Bought(2, "SOL"), Bought(2, "USDC"), Sold(1), Sold(2)}

\* A position that is closed in one sale and then one with mixed quotes, and
\* one whose sales never finish it: its receipt changes and keeps its id.
MCLives ==
    {<<Bought(2, "SOL"), Sold(2), Bought(2, "USDC"), Sold(2)>>, <<Bought(2, "SOL"), Sold(1), Bought(2, "SOL"), Sold(1)>>}

\* v1.2 runs that upload the partial receipt by its id and mint it, and that mint
\* it with a limit of no uploads; v1.1 runs with and without a key.
PartialId == <<"realized_partial", 0>>
MCInvocations ==
    {[debug |-> TRUE, given |-> UploadGates \cup MintGates, uploadId |-> {PartialId}, uploadMax |-> {}, mint |-> {PartialId}, key |-> FALSE],
     [debug |-> TRUE, given |-> UploadGates \cup MintGates, uploadId |-> {}, uploadMax |-> {0}, mint |-> {PartialId}, key |-> FALSE],
     [debug |-> FALSE, given |-> {}, uploadId |-> {}, uploadMax |-> {}, mint |-> {}, key |-> TRUE],
     [debug |-> FALSE, given |-> {}, uploadId |-> {}, uploadMax |-> {}, mint |-> {}, key |-> FALSE]}
====
