---- MODULE SinglePositions ----
(***************************************************************************)
(* The positions of the single-mint path (mint-one, the local server and   *)
(* rebuild-position): from a fetched set of the wallet's transactions to   *)
(* the position of a window, its normalization to one quote, and the       *)
(* verified and custom receipts made of it.  A transaction is its place in *)
(* the history, a window or a rate that may be missing a set of at most    *)
(* one value, an average the pair of an amount and a quantity.             *)
(***************************************************************************)
EXTENDS TradeLedger

CONSTANT Seconds    \* the timestamp of each transaction of the history

ASSUME TimeNeverGoesBack ==
    Seconds \in Seq(Nat) /\ Len(Seconds) >= MaxSwaps /\ \A i, j \in DOMAIN Seconds : i <= j => Seconds[i] <= Seconds[j]

-----------------------------------------------------------------------------
(* Events and cycles.                                                       *)

\* The pages come newest first and the sort keeps that order within a second.
InEventOrder(txs) ==
    SetToSortSeq(txs, LAMBDA i, j : Seconds[i] < Seconds[j] \/ (Seconds[i] = Seconds[j] /\ i > j))

SingleCycles(txs) ==
    UNION {{[status |-> c.status, legs |-> {order[i] : i \in Range(c.events)}] :
                c \in Range(CyclesBy([k \in DOMAIN order |-> history[order[k]]], TRUE))} : order \in {InEventOrder(txs)}}

Times(legs) == {Seconds[i] : i \in legs}
Bought(legs) == {i \in legs : history[i].action = "buy"}
QuotesOfLegs(legs) == {history[i].quote : i \in legs}

-----------------------------------------------------------------------------
(* buildPositions, for the one token.                                       *)

NoWindow == [from |-> {}, to |-> {}]

\* Mutant: the end of the window is not asked for.
OverlapsStart(c, w) == \A f \in w.from : Max(Times(c.legs)) >= f

Overlaps(c, w) ==
    /\ \A f \in w.from : Max(Times(c.legs)) >= f
    /\ \A t \in w.to : Min(Times(c.legs)) <= t

DeriveStatus(statuses) ==
    CASE statuses = {"closed"}  -> "closed"
      [] "open" \in statuses    -> "open"
      [] OTHER                  -> "partial"

\* The bounds of the window, where it has none those of the legs, name the
\* position.
PositionId(w, times) == <<Min(w.from \cup {t \in times : w.from = {}}), Max(w.to \cup {t \in times : w.to = {}})>>

Position(cycles, legs, w) ==
    [id |-> PositionId(w, Times(legs)), entries |-> Bought(legs), exits |-> legs \ Bought(legs),
     first |-> Min(Times(legs)), last |-> Max(Times(legs)), cycles |-> Cardinality(cycles),
     status |-> DeriveStatus({c.status : c \in cycles})]

PositionsOf(txs, w) ==
    {Position(cycles, UNION {c.legs : c \in cycles}, w) :
        cycles \in {{c \in SingleCycles(txs) : Overlaps(c, w)}} \ {{}}}

-----------------------------------------------------------------------------
(* normalizePositions: the legs without a rate are left out of the sums.    *)

Raw == [m \in {e.quote : e \in Swaps} |-> {1}]

Mixed(p) == Cardinality(QuotesOfLegs(p.entries \cup p.exits)) > 1

Converted(legs, rates) == {i \in legs : rates[history[i].quote] # {}}

Average(legs, rates) ==
    LET converted == Converted(legs, rates)
    IN  [amount |-> MapThenSumSet(LAMBDA i : history[i].amount * Max(rates[history[i].quote]), converted),
         quantity |-> MapThenSumSet(LAMBDA i : history[i].q, converted)]

-----------------------------------------------------------------------------
(* Receipts.                                                                *)

StatusOf(kind, legs) ==
    IF Cardinality(QuotesOfLegs(legs)) = 1 THEN kind
    ELSE [verified |-> "verified_mixed_quote", custom |-> "custom_mixed_quote"][kind]

\* computeVerificationHash: what it covers, the position id is no part of it.
VerificationHash(r) == <<r.entries, r.exits, r.entry, r.exit, r.status>>

\* buildPositionReceipt; a normalized position without a rated sale has no
\* average exit, and toPrecision throws.
PositionReceipt(p, rates) ==
    LET legs == p.entries \cup p.exits
        used == IF Mixed(p) THEN rates ELSE Raw
        receipt == [type |-> "verified", position |-> p.id, entries |-> p.entries, exits |-> p.exits,
                    entry |-> Average(p.entries, used), exit |-> Average(p.exits, used),
                    status |-> StatusOf("verified", legs), warnings |-> {}, hash |-> <<>>]
    IN  {[r EXCEPT !.hash = VerificationHash(r)] :
            r \in {x \in {receipt} : Mixed(p) /\ rates # Raw => Converted(p.exits, rates) # {}}}

\* The warnings of buildCustomReceipt.
Warnings(entry, exit, exits) ==
    LET gain == exit.amount - entry.amount
    IN  {w \in {"sold_exceeds_bought", "no_exits", "no_entries", "extreme_pnl"} :
            CASE w = "sold_exceeds_bought" -> 1000 * exit.quantity > 1001 * entry.quantity
              [] w = "no_exits"            -> entry.quantity > 0 /\ exit.quantity = 0
              [] w = "no_entries"          -> entry.quantity = 0 /\ exits # {}
              [] w = "extreme_pnl"         -> entry.amount > 0 /\ Max({gain, 0 - gain}) > 2 * entry.amount}

\* buildCustomPosition drops the normalization, so buildCustomReceipt sums the
\* amounts as they are; the base receipt is normalized.
CustomReceipt(p, removed, rates) ==
    LET entries == p.entries \ removed
        exits == p.exits \ removed
        entry == Average(entries, Raw)
        exit == Average(exits, Raw)
    IN  {[r EXCEPT !.hash = VerificationHash(r) \o <<"custom", r.base, removed>>] :
            r \in {[type |-> "custom", position |-> <<p.id, removed>>, base |-> base.hash, entries |-> entries, exits |-> exits,
                    entry |-> entry, exit |-> exit, status |-> StatusOf("custom", entries \cup exits),
                    warnings |-> Warnings(entry, exit, exits), hash |-> <<>>] :
                   base \in {b \in PositionReceipt(p, rates) : removed # {} /\ entries \cup exits # {}}}}

-----------------------------------------------------------------------------

Bounds(legs) == [from |-> {Min(Times(legs))}, to |-> {Max(Times(legs))}]
AllUpTo(n) == 1..n

\* A closed position, asked for by its own bounds, stays what it is while the
\* wallet trades on, unless a later swap falls into its last second.
SettledPositionsStay ==
    \A n \in 1..Len(history) : \A p \in PositionsOf(AllUpTo(n), NoWindow) :
        p.status = "closed" /\ (n < Len(history) => Seconds[n + 1] > p.last) =>
            PositionsOf(AllUpTo(Len(history)), Bounds(p.entries \cup p.exits)) = {p}

\* Where no two swaps share a second, the two flows of mint-one name the same
\* trades: the position of a closed cycle's own bounds is that cycle, with the
\* status and the profit of its cycle receipt.
FlowsAgree ==
    (\A i \in 1..(Len(history) - 1) : Seconds[i] < Seconds[i + 1]) =>
        \A c \in Range(CycleReceipts(history, TRUE, 0)) :
            \E p \in PositionsOf(AllUpTo(Len(history)), Bounds(c.entries \cup c.exits)) :
                \A r \in PositionReceipt(p, Raw) :
                    /\ r.entries = c.entries /\ r.exits = c.exits /\ r.status = c.status
                    /\ r.exit.amount - r.entry.amount = c.pnl
====
