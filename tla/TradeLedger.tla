---- MODULE TradeLedger ----
(***************************************************************************)
(* From the swaps of a wallet in one token to its trades: the position     *)
(* ledger of v1.2, the trade cycles of v1.1 with their PnL status, and the *)
(* cycles of the single-mint path.  All are pure functions of the          *)
(* normalized events, which only grow (Swap).  Quantities and quote        *)
(* amounts are integers; a cost allocated to a sale is the integer part of *)
(* its share, where the code computes a float.                             *)
(***************************************************************************)
EXTENDS Integers, SequencesExt

CONSTANTS
    Swaps,          \* the normalized events there may be: [action, q, amount, quote]
    MaxSwaps,       \* bound on the wallet's history
    DustUnits,      \* DUST_ABS, in units of the token
    DustDivisor     \* DUST_PCT as 1/DustDivisor of a quantity

ASSUME TradeBounds ==
    /\ {MaxSwaps, DustUnits, DustDivisor} \subseteq Nat \ {0}
    /\ \A e \in Swaps : e.action \in {"buy", "sell", "none"} /\ {e.q, e.amount} \subseteq Nat \ {0}

VARIABLE history    \* the normalized events, in time order

-----------------------------------------------------------------------------
(* The position ledger of v1.2. *)

Dust(quantity) == Max({DustUnits, quantity \div DustDivisor})

NewPosition(segment, flags) ==
    [segment |-> segment, bought |-> 0, boughtQuote |-> 0, sold |-> 0, soldQuote |-> 0,
     allocated |-> 0, remaining |-> 0, cost |-> 0, unaccounted |-> 0, unaccountedQuote |-> 0,
     peak |-> 0, flags |-> flags, events |-> <<>>]

Buy(p, e) ==
    [p EXCEPT !.bought = @ + e.q, !.boughtQuote = @ + e.amount,
              !.remaining = @ + e.q, !.cost = @ + e.amount, !.peak = Max({@, p.remaining + e.q})]

\* A sale beyond what is held: the covered part is accounted, the rest is not.
Uncovered == {"partial_history", "external_transfer_possible", "negative_inventory", "unsupported_inventory"}

SellNoInventory(p, e) ==
    [p EXCEPT !.unaccounted = @ + e.q, !.unaccountedQuote = @ + e.amount, !.flags = @ \cup Uncovered]

SellExceedsRemaining(p, e) ==
    LET proceeds == (e.amount * p.remaining) \div e.q
    IN  [p EXCEPT !.allocated = @ + p.cost, !.sold = @ + p.remaining, !.soldQuote = @ + proceeds,
                  !.unaccounted = @ + (e.q - p.remaining),
                  !.unaccountedQuote = @ + (e.amount - proceeds),
                  !.remaining = 0, !.cost = 0, !.flags = @ \cup Uncovered]

\* The average price times the quantity sold: the share of the remaining cost.
SellNormal(p, e) ==
    LET allocated == (p.cost * e.q) \div p.remaining
    IN  [p EXCEPT !.allocated = @ + allocated, !.cost = @ - allocated,
                  !.sold = @ + e.q, !.soldQuote = @ + e.amount, !.remaining = @ - e.q]

\* Mutant: a sale beyond the inventory is an ordinary one.
SellWhateverIsHeld(p, e) ==
    IF p.remaining = 0 THEN SellNoInventory(p, e) ELSE SellNormal(p, [e EXCEPT !.q = Min({@, p.remaining})])

Sell(p, e) ==
    CASE p.remaining = 0                     -> SellNoInventory(p, e)
      [] p.remaining > 0 /\ e.q > p.remaining  -> SellExceedsRemaining(p, e)
      [] p.remaining > 0 /\ e.q <= p.remaining -> SellNormal(p, e)

Processed(p, events, i) ==
    LET e == events[i]
    IN  [(IF e.action = "buy" THEN Buy(p, e) ELSE Sell(p, e)) EXCEPT !.events = Append(@, i)]

Closes(p, e) == e.action = "sell" /\ p.bought > 0 /\ p.remaining < Dust(p.peak)

SidesOf(events, indices, action) == {i \in Range(indices) : events[i].action = action}
Quotes(events, indices) == {events[i].quote : i \in Range(indices)}

Finalize(p, events) ==
    [p EXCEPT !.flags = IF Cardinality(Quotes(events, p.events)) > 1 THEN @ \cup {"mixed_quote"} ELSE @]

Opened(ledger, e) ==
    IF ledger.open # <<>> THEN ledger.open[1]
    ELSE NewPosition(Len(ledger.closed), IF e.action = "sell" THEN {"partial_history", "external_transfer_possible"} ELSE {})

Advance(ledger, events, i) ==
    LET e == events[i]
        after == Processed(Opened(ledger, e), events, i)
    IN  CASE e.action = "none" -> ledger
          [] e.action # "none" /\ Closes(after, e) ->
                [closed |-> Append(ledger.closed, Finalize([after EXCEPT !.flags = @ \cup {"dust_closed"}], events)),
                 open |-> <<>>]
          [] e.action # "none" /\ ~Closes(after, e) -> [ledger EXCEPT !.open = <<after>>]

\* The closed segments so far and the open position, a sequence of at most one.
Ledger(events) ==
    LET upTo[i \in 0..Len(events)] ==
            IF i = 0 THEN [closed |-> <<>>, open |-> <<>>] ELSE Advance(upTo[i - 1], events, i)
        last == upTo[Len(events)]
    IN  [last EXCEPT !.open = [i \in DOMAIN @ |-> Finalize(@[i], events)]]

-----------------------------------------------------------------------------
(* The trade cycles of v1.1, as run-pipeline and as mint-one build them.    *)

NewCycle(status) ==
    [status |-> status, events |-> <<>>, bought |-> 0, sold |-> 0, peak |-> 0, balance |-> 0]

CycleWith(c, events, i) ==
    LET e == events[i]
        gained == IF e.action = "buy" THEN e.q ELSE 0 - e.q
    IN  [c EXCEPT !.events = Append(@, i), !.balance = @ + gained,
                  !.bought = @ + IF e.action = "buy" THEN e.q ELSE 0,
                  !.sold = @ + IF e.action = "sell" THEN e.q ELSE 0,
                  !.peak = Max({@, c.balance + gained})]

Distance(balance) == Max({balance, 0 - balance})

\* run-pipeline phase 3: any sale that leaves dust completes the cycle.
Completed(c) == Distance(c.balance) < Dust(IF c.peak > 0 THEN c.peak ELSE c.sold)
CycleClosed(c) == IF c.status = "open" THEN [c EXCEPT !.status = "closed"] ELSE c
LeftOver(c) == IF c.balance < 0 /\ c.status = "open" THEN [c EXCEPT !.status = "partial_history"] ELSE c

\* reconstructCycles of the single-mint path: a partial cycle never closes, and
\* a negative balance makes a cycle partial at once.
SingleCompleted(c, events) ==
    /\ c.status # "partial_history"
    /\ Distance(c.balance) < Dust(c.peak)
    /\ SidesOf(events, c.events, "buy") # {}
SingleLeft(c) == LeftOver(c)

\* The completed cycles and the active one, for either rule.
CyclesBy(events, single) ==
    LET upTo[i \in 0..Len(events)] ==
            IF i = 0 THEN [done |-> <<>>, active |-> <<>>]
            ELSE LET before == upTo[i - 1]
                     e == events[i]
                     current == IF before.active # <<>> THEN before.active[1]
                                ELSE NewCycle(IF e.action = "sell" THEN "partial_history" ELSE "open")
                     after == CycleWith(current, events, i)
                     ends == e.action = "sell" /\ (IF single THEN SingleCompleted(after, events) ELSE Completed(after))
                 IN  CASE e.action = "none" -> before
                       [] e.action # "none" /\ ends -> [done |-> Append(before.done, CycleClosed(after)), active |-> <<>>]
                       [] e.action # "none" /\ ~ends ->
                             [before EXCEPT !.active = <<IF single THEN SingleLeft(after) ELSE after>>]
        last == upTo[Len(events)]
    IN  last.done \o [i \in DOMAIN last.active |-> LeftOver(last.active[i])]

ClosedCycles(events, single) == SelectSeq(CyclesBy(events, single), LAMBDA c : c.status = "closed")

Quoted(events, indices, action) ==
    MapThenSumSet(LAMBDA i : events[i].amount, SidesOf(events, indices, action))

\* A swap keeps its identity in every fetch of the history.
Named(indices, missing) == {i + missing : i \in indices}

\* Phases 4 and 5: the receipt of a closed cycle and the status it carries.
CycleReceipt(c, events, missing) ==
    [entries |-> Named(SidesOf(events, c.events, "buy"), missing),
     exits |-> Named(SidesOf(events, c.events, "sell"), missing),
     status |-> IF Cardinality(Quotes(events, c.events)) = 1 THEN "verified" ELSE "verified_mixed_quote",
     pnl |-> Quoted(events, c.events, "sell") - Quoted(events, c.events, "buy")]

CycleReceipts(events, single, missing) ==
    LET closed == ClosedCycles(events, single) IN [i \in DOMAIN closed |-> CycleReceipt(closed[i], events, missing)]

-----------------------------------------------------------------------------

LedgerInit == history = <<>>

Swap(e) == Len(history) < MaxSwaps /\ history' = Append(history, e)

LedgerNext == \E e \in Swaps : Swap(e)

LedgerSpec == LedgerInit /\ [][LedgerNext]_history

-----------------------------------------------------------------------------

Positions(events) == LET ledger == Ledger(events) IN ledger.closed \o ledger.open

Total(amounts) == FoldFunction(+, 0, amounts)

Traded(events, action) == {i \in DOMAIN events : events[i].action = action}

\* Every unit bought and sold, and every unit of quote, is in exactly one
\* position: what was bought is sold or remains, at a cost that is allocated
\* or remains, and a sale beyond the inventory is kept apart to the unit.
TradesAreAccountedOnce ==
    LET positions == Positions(history)
    IN  /\ \A k \in DOMAIN positions :
              LET p == positions[k]
              IN  /\ p.bought = p.sold + p.remaining
                  /\ p.boughtQuote = p.allocated + p.cost
                  /\ p.remaining = 0 => p.cost = 0
        /\ Total([k \in DOMAIN positions |-> positions[k].bought])
             = Total([i \in Traded(history, "buy") |-> history[i].q])
        /\ Total([k \in DOMAIN positions |-> positions[k].sold + positions[k].unaccounted])
             = Total([i \in Traded(history, "sell") |-> history[i].q])
        /\ Total([k \in DOMAIN positions |-> positions[k].soldQuote + positions[k].unaccountedQuote])
             = Total([i \in Traded(history, "sell") |-> history[i].amount])
====
