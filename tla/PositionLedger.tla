---- MODULE PositionLedger ----
(***************************************************************************)
(* Position accounting of verification scope v1.3: the canonical economic  *)
(* events of a wallet's target mint, their projection with exact rational  *)
(* weighted-average cost, the enumeration of position episodes between     *)
(* genuine economic zeros, the decision which unresolved evidence touches  *)
(* an episode, and the outcome of its claim.                               *)
(*                                                                         *)
(* The wallet's history is built transaction by transaction (Commit,       *)
(* Admit); the algorithms are pure operators of that history.  Raw         *)
(* quantities and prices are small integers: an exact quote is EntryPrice  *)
(* for an acquisition and ExitPrice for a disposal, a quote fee is 1.      *)
(***************************************************************************)
EXTENDS Integers, FiniteSets, SequencesExt

CONSTANTS
    MaxTransactions,    \* bound on the transactions of the window
    MaxEvents,          \* bound on the economic events of the window
    Quantities,         \* target_raw_quantity of an event
    Shapes              \* the events the window may hold

ASSUME LedgerBounds ==
    /\ {MaxTransactions, MaxEvents} \subseteq Nat \ {0}
    /\ Quantities \subseteq Nat \ {0}

EntryPrice == 3
ExitPrice == 5
Null == <<>>            \* an unavailable economic value

-----------------------------------------------------------------------------
(* Exact rationals: a numerator and a positive denominator, reduced. *)

Rational(n, d) ==
    LET g == Max({k \in 1..d : n % k = 0 /\ d % k = 0}) IN <<n \div g, d \div g>>
Zero == <<0, 1>>
Whole(n) == <<n, 1>>
Plus(a, b) == Rational(a[1] * b[2] + b[1] * a[2], a[2] * b[2])
Minus(a, b) == Rational(a[1] * b[2] - b[1] * a[2], a[2] * b[2])
Times(a, b) == Rational(a[1] * b[1], a[2] * b[2])
\* Every divisor of this profile is an inventory or a consumed basis, so positive.
Over(a, b) == Rational(a[1] * b[2], a[2] * b[1])

Known(values) == Null \notin values
PlusNullable(a, b) == IF Known({a, b}) THEN Plus(a, b) ELSE Null
MinusNullable(a, b) == IF Known({a, b}) THEN Minus(a, b) ELSE Null

-----------------------------------------------------------------------------
(* Economic events.  "how" is the quote of a trade, the basis of a          *)
(* transfer-in, the continuation of a transfer-out and the allocation of a  *)
(* fee; "of" is the place, in the same transaction, of the trade a fee      *)
(* names.                                                                   *)

Trades == {"ACQUISITION", "DISPOSAL"}
InventoryKinds == Trades \cup {"TRANSFER_IN", "TRANSFER_OUT"}

EventShapes ==
    [kind : Trades, q : Quantities, how : {"EXACT", "OTHER_MINT", "UNRESOLVED"}, of : {0}]
        \cup [kind : {"TRANSFER_IN"}, q : Quantities, how : {"KNOWN", "UNKNOWN"}, of : {0}]
        \cup [kind : {"TRANSFER_OUT"}, q : Quantities, how : {"CONTINUING", "UNRESOLVED"}, of : {0}]
        \cup [kind : {"FEE"}, q : {1}, how : {"UNALLOCATED_SHARED", "NON_QUOTE_DISCLOSURE"}, of : {0}]
        \cup [kind : {"FEE"}, q : {1}, how : Trades, of : 1..MaxEvents]

ASSUME ShapesAreEvents == Shapes \subseteq EventShapes

\* A fee names an event of its own transaction of the kind it is allocated to,
\* and a failed transaction keeps nothing but a native fee disclosure.
Admissible(shape, transaction) ==
    /\ shape.of # 0 =>
        /\ shape.of \in DOMAIN transaction.events
        /\ transaction.events[shape.of].kind = shape.how
    /\ transaction.residual = "FAILED" => shape.how = "NON_QUOTE_DISCLOSURE"

DependencyCode(e) ==
    CASE e.kind \in Trades /\ e.how = "UNRESOLVED" -> "QUOTE_CONTEXT_UNRESOLVED"
      [] e.kind = "TRANSFER_IN" /\ e.how = "UNKNOWN" -> "TRANSFER_IN_BASIS_UNRESOLVED"
      [] e.kind = "TRANSFER_OUT" /\ e.how = "UNRESOLVED" -> "TARGET_TRANSFER_EXTERNAL_CONTINUATION"
      [] e.how = "UNALLOCATED_SHARED" -> "SHARED_EFFECT_ALLOCATION_UNRESOLVED"
      [] OTHER -> "NONE"

\* The canonical order: transaction coordinate, then place inside it.
Placed(shapes, t) ==
    [i \in DOMAIN shapes |-> [kind |-> shapes[i].kind, q |-> shapes[i].q, how |-> shapes[i].how,
                              of |-> shapes[i].of, tx |-> t, at |-> i]]
CanonicalEvents(rows) ==
    LET upTo[t \in 0..Len(rows)] == IF t = 0 THEN <<>> ELSE upTo[t - 1] \o Placed(rows[t].events, t)
    IN  upTo[Len(rows)]

-----------------------------------------------------------------------------
(* The projection of a sequence of canonical events: a fold of one step per *)
(* event over the accounting state.  unknown is inventoryKnown negated.     *)

SharedQuoteFee(evs) == \E i \in DOMAIN evs : evs[i].how = "UNALLOCATED_SHARED"
FeesOf(evs, i) ==
    Whole(Cardinality({j \in DOMAIN evs : evs[j].kind = "FEE"
                            /\ evs[j].tx = evs[i].tx /\ evs[j].of = evs[i].at}))
\* Mutant: a zero inside a transaction counts as genuine.
AnyZeroIsGenuine(evs, i) == TRUE
LastInventoryEvent(evs, i) ==
    \A j \in DOMAIN evs : (j > i /\ evs[j].tx = evs[i].tx) => evs[j].kind \notin InventoryKinds
PricedExactly(evs, i) == evs[i].how = "EXACT" /\ ~SharedQuoteFee(evs)
MixesQuotes(evs, i) == evs[i].how \in {"EXACT", "OTHER_MINT"} /\ ~PricedExactly(evs, i)

Opened(opening) ==
    [inventory |-> opening.units, unknown |-> FALSE, custody |-> opening.units,
     basis |-> opening.basis, acquired |-> Zero, proceeds |-> Zero, consumed |-> Zero,
     disposed |-> FALSE, mixed |-> FALSE, basisLost |-> FALSE, proceedsLost |-> FALSE,
     zero |-> FALSE, failure |-> "none"]

Cost(evs, i) == IF PricedExactly(evs, i) THEN Plus(Whole(EntryPrice), FeesOf(evs, i)) ELSE Null
Enter(s, q, cost, acquired, mixes) ==
    [s EXCEPT !.inventory = @ + q, !.custody = @ + q, !.basis = PlusNullable(@, cost),
              !.acquired = PlusNullable(@, acquired), !.mixed = @ \/ mixes]

\* Mutant: the fee enters the basis and not what was acquired.
AcquireBeforeFee(s, evs, i) ==
    Enter(s, evs[i].q, Cost(evs, i), IF PricedExactly(evs, i) THEN Whole(EntryPrice) ELSE Null,
          MixesQuotes(evs, i))

Acquire(s, evs, i) == Enter(s, evs[i].q, Cost(evs, i), Cost(evs, i), MixesQuotes(evs, i))

TransferIn(s, evs, i) ==
    [s EXCEPT !.inventory = @ + evs[i].q, !.custody = @ + evs[i].q,
              !.basis = IF evs[i].how = "KNOWN" THEN PlusNullable(@, Whole(1)) ELSE Null]

\* What a disposal realizes: the average cost is taken before it, and a genuine
\* zero needs the last inventory event of its transaction.
Proceeds(evs, i) == IF PricedExactly(evs, i) THEN Minus(Whole(ExitPrice), FeesOf(evs, i)) ELSE Null
Consumed(s, q) ==
    IF s.unknown \/ s.basis = Null THEN Null ELSE Times(Over(s.basis, Whole(s.inventory)), Whole(q))
GenuineZero(s, evs, i) == ~s.unknown /\ s.inventory = evs[i].q /\ LastInventoryEvent(evs, i)

Realize(s, q, proceeds, consumed, zero) ==
    [s EXCEPT !.inventory = IF s.unknown THEN @ ELSE @ - q, !.custody = @ - q, !.disposed = TRUE,
              !.proceeds = PlusNullable(@, proceeds), !.consumed = PlusNullable(@, consumed),
              !.basis = IF zero THEN Zero ELSE MinusNullable(@, consumed), !.zero = zero,
              !.basisLost = @ \/ consumed = Null, !.proceedsLost = @ \/ proceeds = Null]

Dispose(s, evs, i) ==
    [Realize(s, evs[i].q, Proceeds(evs, i), Consumed(s, evs[i].q), GenuineZero(s, evs, i))
        EXCEPT !.mixed = @ \/ MixesQuotes(evs, i)]

\* Custody leaves the wallet; economic inventory does not.
TransferOut(s, evs, i) ==
    [s EXCEPT !.custody = @ - evs[i].q, !.unknown = @ \/ evs[i].how = "UNRESOLVED",
              !.basis = IF evs[i].how = "UNRESOLVED" THEN Null ELSE @]

Failure(s, e) ==
    IF e.kind = "DISPOSAL" /\ ~s.unknown /\ s.inventory < e.q THEN "OVERSOLD_ESTABLISHED_INVENTORY"
    ELSE IF e.kind \in {"DISPOSAL", "TRANSFER_OUT"} /\ s.custody < e.q THEN "ending_inventory_mismatch"
    ELSE "none"

Apply(s, evs, i) ==
    CASE evs[i].kind = "ACQUISITION" -> Acquire(s, evs, i)
      [] evs[i].kind = "TRANSFER_IN" -> TransferIn(s, evs, i)
      [] evs[i].kind = "DISPOSAL" -> Dispose(s, evs, i)
      [] evs[i].kind = "TRANSFER_OUT" -> TransferOut(s, evs, i)
      [] evs[i].kind = "FEE" -> s

Step(s, evs, i) ==
    CASE s.failure # "none" -> [s EXCEPT !.zero = FALSE]
      [] s.failure = "none" /\ Failure(s, evs[i]) # "none" ->
            [s EXCEPT !.zero = FALSE, !.failure = Failure(s, evs[i])]
      [] OTHER -> Apply([s EXCEPT !.zero = FALSE], evs, i)

\* The states before the first event and after each one: after[i + 1] follows
\* the first i events.
Projection(evs, opening) ==
    LET upTo[i \in 0..Len(evs)] ==
            IF i = 0 THEN <<Opened(opening)>>
            ELSE LET states == upTo[i - 1] IN Append(states, Step(states[i], evs, i))
    IN  upTo[Len(evs)]

-----------------------------------------------------------------------------
(* An episode: the projection of its events and what it leaves unresolved.  *)

Mixed(evs) == {i \in DOMAIN evs : evs[i].how = "OTHER_MINT"}

\* A dependency names the events it comes from; opening basis names none.
Dependencies(evs, opening, last) ==
    {[code |-> DependencyCode(evs[i]), events |-> {i}] :
        i \in {j \in DOMAIN evs : DependencyCode(evs[j]) # "NONE"}}
      \cup {[code |-> "OPENING_BASIS_UNRESOLVED", events |-> {}] : x \in {opening.basis} \cap {Null}}
      \cup {[code |-> "MIXED_QUOTE_UNSUPPORTED", events |-> Mixed(evs)] : x \in {last.mixed} \cap {TRUE}}

Return(pnl, consumed) ==
    IF ~Known({pnl, consumed}) THEN Null
    ELSE IF consumed = Zero THEN <<0, 0>>     \* UNDEFINED_ZERO_BASIS
    ELSE Over(pnl, consumed)

Closed(last) == ~last.unknown /\ last.inventory = 0

\* Mixed quotes and a shared quote fee withdraw the aggregates after the fold.
Aggregates(last, opening, shared, proceeds, consumed, pnl) ==
    [opening_attributable_basis |-> opening.basis,
     aggregate_acquisition_basis |-> IF last.mixed \/ shared THEN Null ELSE last.acquired,
     disposal_proceeds |-> proceeds,
     realized_basis_consumed |-> consumed,
     realized_pnl |-> pnl,
     realized_return |-> Return(pnl, consumed),
     ending_target_inventory |-> IF last.unknown THEN Null ELSE Whole(last.inventory),
     remaining_attributable_basis |->
        IF shared THEN IF Closed(last) THEN Zero ELSE Null ELSE last.basis]
Realized(last, opening, shared, proceeds, consumed) ==
    Aggregates(last, opening, shared, proceeds, consumed, MinusNullable(proceeds, consumed))
Values(last, opening, shared) ==
    Realized(last, opening, shared,
             IF last.mixed \/ shared \/ last.proceedsLost THEN Null ELSE last.proceeds,
             IF last.basisLost THEN Null ELSE last.consumed)

\* buildPositionEpisodeFromLedgerV13, of the states of its projection.
Built(evs, opening, boundary, endingCustody, after, last) ==
    [failure |-> IF last.failure # "none" THEN last.failure
                 ELSE IF last.custody # endingCustody THEN "ending_inventory_mismatch" ELSE "none",
     events |-> evs, after |-> after, boundary |-> boundary,
     dependencies |-> Dependencies(evs, opening, last),
     values |-> Values(last, opening, SharedQuoteFee(evs)),
     custody |-> last.custody,
     state |-> CASE last.unknown -> "NONE"
                 [] Closed(last) -> "CLOSED"
                 [] OTHER -> IF last.disposed THEN "OPEN_REALIZED_PARTIAL" ELSE "OPEN"]
BuiltFrom(evs, opening, boundary, endingCustody, states) ==
    Built(evs, opening, boundary, endingCustody, Tail(states), Last(states))
Episode(evs, opening, boundary, endingCustody) ==
    BuiltFrom(evs, opening, boundary, endingCustody, Projection(evs, opening))

\* The genuine zeros of an episode: transaction coordinates.
Zeros(ep) == {ep.events[i].tx : i \in {j \in DOMAIN ep.events : ep.after[j].zero}}
ClosedAt(ep) == IF ep.state = "CLOSED" /\ Zeros(ep) # {} THEN Max(Zeros(ep)) ELSE 0

-----------------------------------------------------------------------------
(* Enumeration: spans of consecutive transactions between genuine zeros.    *)

ResidualKinds == {"NONE", "TARGET", "ADOPTED", "FOREIGN", "FAILED", "UNKNOWN", "FINDING"}
Unresolved(row) == row.residual \notin {"NONE", "FINDING"}

\* The ending snapshot is taken of the wallet the events are of.
Snapshot(evs, opening, states) ==
    BuiltFrom(evs, opening, [scope |-> TRUE, start |-> 0, exact |-> opening.units = 0],
              Last(states).custody, states)
Projected(evs, opening) == Snapshot(evs, opening, Projection(evs, opening))
WholeLedger(rows, opening) == Projected(CanonicalEvents(rows), opening)

EstablishesInventory(full, t) ==
    \E i \in DOMAIN full.events : /\ full.events[i].tx = t
                                  /\ ~full.after[i].unknown /\ full.after[i].inventory > 0

\* The scan's state: the open span, if any (start 0 is none), the closed
\* ones, and the transaction of the last zero known to be exact.
Dormant == [start |-> 0, scope |-> FALSE, exact |-> FALSE, unresolved |-> FALSE]
OpenAt(t, lastZero) ==
    [start |-> t, scope |-> t = 1, exact |-> t = 1 \/ (lastZero # 0 /\ lastZero = t - 1),
     unresolved |-> FALSE]
Ended(open, t, closed) ==
    [start |-> open.start, scope |-> open.scope, exact |-> open.exact, end |-> t, closed |-> closed]
Visit(s, open, t, full) ==
    CASE open.start = 0 -> s
      [] open.start # 0 /\ t \in Zeros(full) ->
            [open |-> Dormant, spans |-> Append(s.spans, Ended(open, t, TRUE)),
             lastZero |-> IF open.unresolved THEN 0 ELSE t]
      [] OTHER -> [s EXCEPT !.open = open]
SpanAt(s, t, row, full) ==
    [IF s.open.start = 0 /\ EstablishesInventory(full, t) THEN OpenAt(t, s.lastZero) ELSE s.open
        EXCEPT !.unresolved = @ \/ Unresolved(row)]
Reach(s, t, row, full) == Visit(s, SpanAt(s, t, row, full), t, full)
Scan(rows, opening, full) ==
    LET first == IF opening.units > 0 THEN [Dormant EXCEPT !.start = 1, !.scope = TRUE] ELSE Dormant
        visited[t \in 0..Len(rows)] ==
            IF t = 0 THEN [open |-> first, spans |-> <<>>, lastZero |-> 0]
            ELSE Reach(visited[t - 1], t, rows[t], full)
    IN  visited[Len(rows)]
Spans(s, lastRow) ==
    IF s.open.start = 0 THEN s.spans ELSE Append(s.spans, Ended(s.open, lastRow, FALSE))

\* The events of a span stand together in the canonical order.
Within(evs, span) == {i \in DOMAIN evs : evs[i].tx \in span.start..span.end}
SpanEvents(evs, span) ==
    IF Within(evs, span) = {} THEN <<>> ELSE SubSeq(evs, Min(Within(evs, span)), Max(Within(evs, span)))

\* Each span is projected again by itself, from zero unless it opens the scope.
SpanEpisode(opening, full, span) ==
    Episode(SpanEvents(full.events, span),
            IF span.scope THEN opening ELSE [units |-> 0, basis |-> Zero],
            [scope |-> span.scope, start |-> span.start, exact |-> span.exact],
            IF span.closed THEN 0 ELSE full.custody)
Episodes(spans, opening, full) == [n \in DOMAIN spans |-> SpanEpisode(opening, full, spans[n])]
EnumeratedOf(rows, opening, full) == Episodes(Spans(Scan(rows, opening, full), Len(rows)), opening, full)
Enumerated(rows, opening) == EnumeratedOf(rows, opening, WholeLedger(rows, opening))
====
