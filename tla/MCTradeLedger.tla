---- MODULE MCTradeLedger ----
EXTENDS LocalServer

\* Amounts of quote per swap: a buy costs less per unit than a sale returns.
BuyOf(q, m) == [action |-> "buy", q |-> q, amount |-> 12 * q, quote |-> m]
SellOf(q) == [action |-> "sell", q |-> q, amount |-> 20, quote |-> "SOL"]

MCSwaps ==
    {BuyOf(1, "SOL"), BuyOf(3, "SOL"), BuyOf(1, "USDC")} \cup {SellOf(q) : q \in {1, 2, 4}}
        \cup {[action |-> "none", q |-> 1, amount |-> 1, quote |-> "SOL"]}

\* The third and the fourth swap share a second.
MCSeconds == <<1, 2, 3, 3, 5>>

\* A position that closes before the wallet trades on, one of mixed quotes.
MCLives == {<<BuyOf(1, "SOL"), SellOf(1), BuyOf(3, "SOL")>>, <<BuyOf(1, "USDC"), SellOf(1)>>}

\* A window that ends before the position it names has closed.
MCWindows == {[from |-> {1}, to |-> {1}]}
MCRates == {[m \in {"SOL", "USDC"} |-> IF m = "SOL" THEN {1} ELSE u] : u \in {{}, {2}}}

Either == Permutations(Requests)
====
