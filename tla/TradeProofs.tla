----------------------------- MODULE TradeProofs -----------------------------
(***************************************************************************)
(* What holds of a wallet's trades, of the local server that issues        *)
(* receipts of them, and of the pipeline, the uploader and the mint        *)
(* submitter that put them on the chain.                                   *)
(***************************************************************************)
EXTENDS LocalServer, ReceiptPipeline, SequenceTheorems, SumTheorems

-----------------------------------------------------------------------------
(***************************************************************************)
(* What the position ledger keeps of a wallet's trades, for every history  *)
(* of every set of swaps.                                                  *)
(***************************************************************************)

(* A position accounts for what it took in.                                *)
Balanced(p) ==
  /\ DOMAIN p = {"segment", "bought", "boughtQuote", "sold", "soldQuote", "allocated", "remaining",
                 "cost", "unaccounted", "unaccountedQuote", "peak", "flags", "events"}
  /\ p.bought \in Int /\ p.boughtQuote \in Int /\ p.sold \in Int /\ p.soldQuote \in Int /\ p.allocated \in Int
  /\ p.remaining \in Nat /\ p.cost \in Int /\ p.unaccounted \in Int /\ p.unaccountedQuote \in Int
  /\ p.bought = p.sold + p.remaining
  /\ p.boughtQuote = p.allocated + p.cost
  /\ p.remaining = 0 => p.cost = 0

(* The three quantities that are accounted, of a position and of a swap.   *)
Accounted == {"bought", "sold", "proceeds"}
SideOf(w) == IF w = "bought" THEN "buy" ELSE "sell"
InEvent(e, w) == IF w = "proceeds" THEN e.amount ELSE e.q
InPosition(p, w) ==
  IF w = "bought" THEN p.bought
  ELSE IF w = "sold" THEN p.sold + p.unaccounted ELSE p.soldQuote + p.unaccountedQuote
Taken(e, w) == IF e.action = SideOf(w) THEN InEvent(e, w) ELSE 0

(* What one swap does to a position that accounts for what it took in.     *)
TakesIn(after, p, e) ==
  Balanced(after) /\ \A w \in Accounted : InPosition(after, w) = InPosition(p, w) + Taken(e, w)

IsTrade(e, side) == e.action = side /\ e.q \in Nat /\ e.q > 0 /\ e.amount \in Nat /\ e.amount > 0

LEMMA BuyBalances ==
  ASSUME NEW p, Balanced(p), NEW e, IsTrade(e, "buy")
  PROVE  TakesIn(Buy(p, e), p, e)
<1> DEFINE after == Buy(p, e)
<1>1. /\ DOMAIN after = DOMAIN p
      /\ after.bought = p.bought + e.q /\ after.boughtQuote = p.boughtQuote + e.amount
      /\ after.remaining = p.remaining + e.q /\ after.cost = p.cost + e.amount
      /\ after.sold = p.sold /\ after.soldQuote = p.soldQuote /\ after.allocated = p.allocated
      /\ after.unaccounted = p.unaccounted /\ after.unaccountedQuote = p.unaccountedQuote
  BY DEF Buy, Balanced
<1> HIDE DEF after
<1>2. Balanced(after)
  BY <1>1 DEF Balanced, IsTrade
<1>3. \A w \in Accounted : InPosition(after, w) = InPosition(p, w) + Taken(e, w)
  BY <1>1 DEF Accounted, InPosition, Taken, SideOf, InEvent, IsTrade, Balanced
<1> QED
  BY <1>2, <1>3 DEF TakesIn, after

LEMMA Quotient == ASSUME NEW a \in Int, NEW b \in Nat, b > 0 PROVE (a * b) \div b = a
OBVIOUS

LEMMA UncoveredBalances ==
  ASSUME NEW p, Balanced(p), NEW e, IsTrade(e, "sell")
  PROVE  TakesIn(SellNoInventory(p, e), p, e)
<1> DEFINE after == SellNoInventory(p, e)
<1>1. /\ DOMAIN after = DOMAIN p
      /\ after.bought = p.bought /\ after.boughtQuote = p.boughtQuote
      /\ after.remaining = p.remaining /\ after.cost = p.cost
      /\ after.sold = p.sold /\ after.soldQuote = p.soldQuote /\ after.allocated = p.allocated
      /\ after.unaccounted = p.unaccounted + e.q /\ after.unaccountedQuote = p.unaccountedQuote + e.amount
  BY DEF SellNoInventory, Balanced
<1> HIDE DEF after
<1>2. Balanced(after)
  BY <1>1 DEF Balanced, IsTrade
<1>3. \A w \in Accounted : InPosition(after, w) = InPosition(p, w) + Taken(e, w)
  BY <1>1 DEF Accounted, InPosition, Taken, SideOf, InEvent, IsTrade, Balanced
<1> QED
  BY <1>2, <1>3 DEF TakesIn, after

LEMMA ExceedingBalances ==
  ASSUME NEW p, Balanced(p), NEW e, IsTrade(e, "sell"), p.remaining > 0, e.q > p.remaining
  PROVE  TakesIn(SellExceedsRemaining(p, e), p, e)
<1> DEFINE after == SellExceedsRemaining(p, e)
           proceeds == (e.amount * p.remaining) \div e.q
<1>1. proceeds \in Int
  <2>1. e.amount * p.remaining \in Int /\ e.q \in Int /\ e.q > 0
    BY DEF Balanced, IsTrade
  <2> QED
    BY <2>1
<1>2. /\ DOMAIN after = DOMAIN p
      /\ after.bought = p.bought /\ after.boughtQuote = p.boughtQuote
      /\ after.remaining = 0 /\ after.cost = 0
      /\ after.sold = p.sold + p.remaining /\ after.soldQuote = p.soldQuote + proceeds
      /\ after.allocated = p.allocated + p.cost
      /\ after.unaccounted = p.unaccounted + (e.q - p.remaining)
      /\ after.unaccountedQuote = p.unaccountedQuote + (e.amount - proceeds)
  BY DEF SellExceedsRemaining, Balanced
<1> HIDE DEF after, proceeds
<1>3. Balanced(after)
  BY <1>1, <1>2 DEF Balanced, IsTrade
<1>4. \A w \in Accounted : InPosition(after, w) = InPosition(p, w) + Taken(e, w)
  BY <1>1, <1>2 DEF Accounted, InPosition, Taken, SideOf, InEvent, IsTrade, Balanced
<1> QED
  BY <1>3, <1>4 DEF TakesIn, after

LEMMA CoveredBalances ==
  ASSUME NEW p, Balanced(p), NEW e, IsTrade(e, "sell"), p.remaining > 0, e.q <= p.remaining
  PROVE  TakesIn(SellNormal(p, e), p, e)
<1> DEFINE after == SellNormal(p, e)
           allocated == (p.cost * e.q) \div p.remaining
<1>1. allocated \in Int
  <2>1. p.cost * e.q \in Int /\ p.remaining \in Int /\ p.remaining > 0
    BY DEF Balanced, IsTrade
  <2> QED
    BY <2>1
<1>2. e.q = p.remaining => allocated = p.cost
  BY Quotient DEF Balanced
<1>3. /\ DOMAIN after = DOMAIN p
      /\ after.bought = p.bought /\ after.boughtQuote = p.boughtQuote
      /\ after.remaining = p.remaining - e.q /\ after.cost = p.cost - allocated
      /\ after.sold = p.sold + e.q /\ after.soldQuote = p.soldQuote + e.amount
      /\ after.allocated = p.allocated + allocated
      /\ after.unaccounted = p.unaccounted /\ after.unaccountedQuote = p.unaccountedQuote
  BY DEF SellNormal, Balanced
<1> HIDE DEF after, allocated
<1>4. Balanced(after)
  BY <1>1, <1>2, <1>3 DEF Balanced, IsTrade
<1>5. \A w \in Accounted : InPosition(after, w) = InPosition(p, w) + Taken(e, w)
  BY <1>1, <1>3 DEF Accounted, InPosition, Taken, SideOf, InEvent, IsTrade, Balanced
<1> QED
  BY <1>4, <1>5 DEF TakesIn, after

(* A swap that is processed, *)
LEMMA ProcessedBalances ==
  ASSUME NEW p, Balanced(p), NEW events, NEW i, IsTrade(events[i], "buy") \/ IsTrade(events[i], "sell")
  PROVE  TakesIn(Processed(p, events, i), p, events[i])
<1> DEFINE e == events[i]
           q == IF e.action = "buy" THEN Buy(p, e) ELSE Sell(p, e)
           after == Processed(p, events, i)
<1>1. TakesIn(q, p, e)
  <2>1. CASE IsTrade(e, "buy")
    BY <2>1, BuyBalances DEF IsTrade
  <2>2. CASE IsTrade(e, "sell")
    <3>1. q = Sell(p, e)
      BY <2>2 DEF IsTrade
    <3>2. CASE p.remaining = 0
      BY <2>2, <3>1, <3>2, UncoveredBalances DEF Sell
    <3>3. CASE p.remaining > 0 /\ e.q > p.remaining
      <4>1. Sell(p, e) = SellExceedsRemaining(p, e)
        BY <3>3 DEF Sell, Balanced, IsTrade
      <4> QED
        BY <2>2, <3>1, <3>3, <4>1, ExceedingBalances
    <3>4. CASE p.remaining > 0 /\ e.q <= p.remaining
      <4>1. Sell(p, e) = SellNormal(p, e)
        BY <2>2, <3>4 DEF Sell, Balanced, IsTrade
      <4> QED
        BY <2>2, <3>1, <3>4, <4>1, CoveredBalances
    <3> QED
      BY <2>2, <3>2, <3>3, <3>4 DEF Balanced, IsTrade
  <2> QED
    BY <2>1, <2>2
<1>2. after = [q EXCEPT !.events = Append(@, i)]
  BY DEF Processed
<1> HIDE DEF q, after
<1>3. /\ DOMAIN after = DOMAIN q
      /\ after.bought = q.bought /\ after.boughtQuote = q.boughtQuote /\ after.remaining = q.remaining
      /\ after.cost = q.cost /\ after.sold = q.sold /\ after.soldQuote = q.soldQuote /\ after.allocated = q.allocated
      /\ after.unaccounted = q.unaccounted /\ after.unaccountedQuote = q.unaccountedQuote
  BY <1>1, <1>2 DEF TakesIn, Balanced
<1>4. Balanced(after) /\ \A w \in Accounted : InPosition(after, w) = InPosition(q, w)
  BY <1>1, <1>3 DEF TakesIn, Balanced, InPosition
<1> QED
  BY <1>1, <1>4 DEF TakesIn, after

(* SameAmounts: what a flag does not change.                               *)
SameAmounts(q, p) == Balanced(q) /\ \A w \in Accounted : InPosition(q, w) = InPosition(p, w)

LEMMA FlagsKeep ==
  ASSUME NEW p, Balanced(p), NEW flags
  PROVE  SameAmounts([p EXCEPT !.flags = flags], p)
<1> DEFINE after == [p EXCEPT !.flags = flags]
<1>1. /\ DOMAIN after = DOMAIN p
      /\ after.bought = p.bought /\ after.boughtQuote = p.boughtQuote /\ after.remaining = p.remaining
      /\ after.cost = p.cost /\ after.sold = p.sold /\ after.soldQuote = p.soldQuote /\ after.allocated = p.allocated
      /\ after.unaccounted = p.unaccounted /\ after.unaccountedQuote = p.unaccountedQuote
  BY DEF Balanced
<1> HIDE DEF after
<1>2. SameAmounts(after, p)
  BY <1>1 DEF SameAmounts, Balanced, InPosition
<1> QED
  BY <1>2 DEF after

LEMMA FinalizeKeeps ==
  ASSUME NEW p, Balanced(p), NEW events
  PROVE  SameAmounts(Finalize(p, events), p)
BY FlagsKeep DEF Finalize

LEMMA NewBalances ==
  ASSUME NEW segment, NEW flags
  PROVE  Balanced(NewPosition(segment, flags)) /\ \A w \in Accounted : InPosition(NewPosition(segment, flags), w) = 0
BY DEF NewPosition, Balanced, InPosition

-----------------------------------------------------------------------------
(* The ledger *)

EmptyLedger == [closed |-> <<>>, open |-> <<>>]

(* What the first n swaps, the closed segments and the open position have. *)
TradedAmounts(events, n, w) ==
  [i \in {k \in 1..n : events[k].action = SideOf(w)} |-> InEvent(events[i], w)]
ClosedAmounts(closed, w) == [k \in DOMAIN closed |-> InPosition(closed[k], w)]
OpenAmount(open, w) == IF open = <<>> THEN 0 ELSE InPosition(open[1], w)

(* A ledger that accounts for the first n swaps.                           *)
Accounts(l, events, n) ==
  /\ DOMAIN l = {"closed", "open"}
  /\ l.closed \in Seq(Range(l.closed)) /\ \A k \in DOMAIN l.closed : Balanced(l.closed[k])
  /\ l.open = <<>> \/ \E p : l.open = <<p>> /\ Balanced(p)
  /\ \A w \in Accounted :
       SumOf(TradedAmounts(events, n, w)) = SumOf(ClosedAmounts(l.closed, w)) + OpenAmount(l.open, w)

IsHistory(events) ==
  /\ Len(events) \in Nat /\ DOMAIN events = 1..Len(events)
  /\ \A i \in 1..Len(events) : \/ IsTrade(events[i], "buy") \/ IsTrade(events[i], "sell")
                               \/ events[i].action = "none" /\ events[i].q \in Nat /\ events[i].amount \in Nat

(* An append leaves a sequence a sequence.                                 *)
LEMMA Appended ==
  ASSUME NEW s, s \in Seq(Range(s)), NEW x
  PROVE  LET z == Append(s, x)
         IN  /\ z \in Seq(Range(z)) /\ Len(s) \in Nat /\ Len(z) = Len(s) + 1
             /\ DOMAIN s = 1..Len(s) /\ DOMAIN z = 1..(Len(s) + 1)
             /\ z[Len(s) + 1] = x /\ \A i \in DOMAIN s : z[i] = s[i]
<1> DEFINE S == Range(s) \cup {x}
           z == Append(s, x)
<1>1. s \in Seq(S) /\ x \in S
  OBVIOUS
<1> HIDE DEF S
<1>2. z \in Seq(S) /\ Len(z) \in Nat /\ DOMAIN z = 1..Len(z) /\ Len(s) \in Nat /\ DOMAIN s = 1..Len(s)
  BY <1>1, AppendProperties
<1>3. Len(z) = Len(s) + 1 /\ z[Len(s) + 1] = x /\ \A i \in 1..Len(s) : z[i] = s[i]
  BY <1>1, AppendProperties
<1> HIDE DEF z
<1>4. \A i \in DOMAIN z : z[i] \in Range(z)
  BY DEF Range
<1>5. z \in Seq(Range(z))
  BY <1>2, <1>4, SeqDef
<1> QED
  BY <1>2, <1>3, <1>5 DEF z

LEMMA TradedSummable ==
  ASSUME NEW events, IsHistory(events), NEW n \in 0..Len(events), NEW w \in Accounted
  PROVE  LET S == {k \in 1..n : events[k].action = SideOf(w)}
         IN  Summable(TradedAmounts(events, n, w), S)
<1> DEFINE S == {k \in 1..n : events[k].action = SideOf(w)}
           f == TradedAmounts(events, n, w)
<1>1. n \in Nat /\ Len(events) \in Nat
  BY DEF IsHistory
<1>2. IsFiniteSet(S)
  <2>1. IsFiniteSet(1..n)
    BY <1>1, FS_Interval
  <2>2. S \subseteq 1..n
    OBVIOUS
  <2> QED
    BY <2>1, <2>2, FS_Subset
<1>3. ASSUME NEW k \in S PROVE InEvent(events[k], w) \in Int
  <2>1. k \in 1..Len(events)
    BY <1>1
  <2>2. events[k].q \in Int /\ events[k].amount \in Int
    BY <2>1 DEF IsHistory, IsTrade
  <2> QED
    BY <2>2 DEF InEvent
<1>4. f = [k \in S |-> InEvent(events[k], w)]
  BY DEF TradedAmounts
<1> HIDE DEF f, S
<1>5. Summable(f, S)
  BY <1>2, <1>3, <1>4 DEF Summable
<1> QED
  BY <1>5 DEF f, S

(* One more swap adds what it has.                                         *)
LEMMA TradedOneMore ==
  ASSUME NEW events, IsHistory(events), NEW n \in 1..Len(events), NEW w \in Accounted
  PROVE  SumOf(TradedAmounts(events, n, w)) = SumOf(TradedAmounts(events, n - 1, w)) + Taken(events[n], w)
<1> DEFINE S == {k \in 1..(n - 1) : events[k].action = SideOf(w)}
           T == {k \in 1..n : events[k].action = SideOf(w)}
           f == TradedAmounts(events, n - 1, w)
           g == TradedAmounts(events, n, w)
<1>1. Len(events) \in Nat /\ n - 1 \in 0..Len(events) /\ n \in 0..Len(events)
  BY DEF IsHistory
<1>2. Summable(f, S) /\ Summable(g, T)
  BY <1>1, TradedSummable
<1>3. f = [k \in S |-> InEvent(events[k], w)] /\ g = [k \in T |-> InEvent(events[k], w)]
  BY DEF TradedAmounts
<1>4. SumOf(f) \in Int
  BY <1>2, SumOfIsInt
<1>5. CASE events[n].action = SideOf(w)
  <2>1. T = S \cup {n} /\ n \notin S
    BY <1>1, <1>5
  <2>2. \A y \in S : g[y] = f[y]
    BY <1>3, <2>1
  <2>3. g[n] = InEvent(events[n], w)
    BY <1>3, <2>1
  <2>5. Widens(g, f, S, n)
    BY <1>2, <2>1, <2>2 DEF Widens
  <2> HIDE DEF f, g, S, T
  <2>4. SumOf(g) = SumOf(f) + g[n]
    BY <1>2, <2>5, OneMore DEF AddsUp
  <2> QED
    BY <1>5, <2>3, <2>4 DEF Taken, f, g
<1>6. CASE events[n].action # SideOf(w)
  <2>1. T = S
    BY <1>1, <1>6
  <2>2. f = g
    BY <1>3, <2>1
  <2> HIDE DEF f, g, S, T
  <2>3. SumOf(g) = SumOf(f) + 0
    BY <1>4, <2>2
  <2> QED
    BY <1>6, <2>3 DEF Taken, f, g
<1> QED
  BY <1>5, <1>6

LEMMA ClosedSummable ==
  ASSUME NEW closed, closed \in Seq(Range(closed)), \A k \in DOMAIN closed : Balanced(closed[k]), NEW w \in Accounted
  PROVE  Summable(ClosedAmounts(closed, w), DOMAIN closed)
<1> DEFINE f == ClosedAmounts(closed, w)
<1>1. Len(closed) \in Nat /\ DOMAIN closed = 1..Len(closed)
  OBVIOUS
<1>2. IsFiniteSet(DOMAIN closed)
  BY <1>1, FS_Interval
<1>3. \A k \in DOMAIN closed : InPosition(closed[k], w) \in Int
  BY DEF Balanced, InPosition
<1>4. f = [k \in DOMAIN closed |-> InPosition(closed[k], w)]
  BY DEF ClosedAmounts
<1> HIDE DEF f
<1>5. Summable(f, DOMAIN closed)
  BY <1>2, <1>3, <1>4 DEF Summable
<1> QED
  BY <1>5 DEF f

(* One more position adds what it has.                                     *)
LEMMA ClosedOneMore ==
  ASSUME NEW closed, closed \in Seq(Range(closed)), \A k \in DOMAIN closed : Balanced(closed[k]),
         NEW p, Balanced(p), NEW w \in Accounted
  PROVE  SumOf(ClosedAmounts(Append(closed, p), w)) = SumOf(ClosedAmounts(closed, w)) + InPosition(p, w)
<1> DEFINE z == Append(closed, p)
           n == Len(closed) + 1
           f == ClosedAmounts(closed, w)
           g == ClosedAmounts(z, w)
<1>1. /\ z \in Seq(Range(z)) /\ Len(closed) \in Nat
      /\ DOMAIN closed = 1..Len(closed) /\ DOMAIN z = 1..n
      /\ z[n] = p /\ \A i \in DOMAIN closed : z[i] = closed[i]
  BY Appended
<1> HIDE DEF z
<1>2. DOMAIN z = DOMAIN closed \cup {n} /\ n \notin DOMAIN closed
  BY <1>1
<1>3. \A k \in DOMAIN z : Balanced(z[k])
  BY <1>1, <1>2
<1>4. Summable(f, DOMAIN closed) /\ Summable(g, DOMAIN closed \cup {n})
  BY <1>1, <1>2, <1>3, ClosedSummable
<1>5. \A k \in DOMAIN closed : g[k] = f[k]
  BY <1>1, <1>2 DEF ClosedAmounts
<1>6. g[n] = InPosition(p, w)
  BY <1>1, <1>2 DEF ClosedAmounts
<1>7. Widens(g, f, DOMAIN closed, n)
  BY <1>2, <1>4, <1>5 DEF Widens
<1> HIDE DEF f, g, n
<1>8. SumOf(g) = SumOf(f) + g[n]
  BY <1>4, <1>7, OneMore DEF AddsUp
<1> QED
  BY <1>6, <1>8 DEF f, g, z

LEMMA OpenedBalances ==
  ASSUME NEW l, NEW events, NEW n, Accounts(l, events, n), NEW e
  PROVE  Balanced(Opened(l, e)) /\ \A w \in Accounted : InPosition(Opened(l, e), w) = OpenAmount(l.open, w)
<1>1. CASE l.open = <<>>
  BY <1>1, NewBalances DEF Opened, OpenAmount
<1>2. CASE l.open # <<>>
  <2>1. PICK p : l.open = <<p>> /\ Balanced(p)
    BY <1>2 DEF Accounts
  <2>2. l.open[1] = p
    BY <2>1
  <2> QED
    BY <1>2, <2>1, <2>2 DEF Opened, OpenAmount
<1> QED
  BY <1>1, <1>2

(* One more swap.                                                          *)
LEMMA AdvanceAccounts ==
  ASSUME NEW events, IsHistory(events), NEW n \in 1..Len(events), NEW l, Accounts(l, events, n - 1)
  PROVE  Accounts(Advance(l, events, n), events, n)
<1> DEFINE e == events[n]
           opened == Opened(l, e)
           after == Processed(opened, events, n)
           next == Advance(l, events, n)
<1>1. Balanced(opened) /\ \A w \in Accounted : InPosition(opened, w) = OpenAmount(l.open, w)
  BY OpenedBalances
<1>2. /\ DOMAIN l = {"closed", "open"}
      /\ l.closed \in Seq(Range(l.closed)) /\ \A k \in DOMAIN l.closed : Balanced(l.closed[k])
      /\ l.open = <<>> \/ \E p : l.open = <<p>> /\ Balanced(p)
      /\ \A w \in Accounted :
           SumOf(TradedAmounts(events, n - 1, w)) = SumOf(ClosedAmounts(l.closed, w)) + OpenAmount(l.open, w)
  BY DEF Accounts
<1>3. \A w \in Accounted : SumOf(ClosedAmounts(l.closed, w)) \in Int /\ InPosition(opened, w) \in Int
  <2>1. \A w \in Accounted : SumOf(ClosedAmounts(l.closed, w)) \in Int
    BY <1>2, ClosedSummable, SumOfIsInt
  <2>2. \A w \in Accounted : InPosition(opened, w) \in Int
    BY <1>1 DEF Balanced, InPosition
  <2> QED
    BY <2>1, <2>2
<1>4. \A w \in Accounted :
        SumOf(TradedAmounts(events, n, w)) = SumOf(TradedAmounts(events, n - 1, w)) + Taken(e, w)
  BY TradedOneMore
<1>5. CASE e.action = "none"
  <2>1. next = l
    BY <1>5 DEF Advance
  <2>2. \A w \in Accounted : Taken(e, w) = 0
    BY <1>5 DEF Taken, SideOf
  <2>3. \A w \in Accounted : OpenAmount(l.open, w) \in Int
    BY <1>1, <1>3
  <2> HIDE DEF e, opened, after, next
  <2>4. \A w \in Accounted :
          SumOf(TradedAmounts(events, n, w)) = SumOf(ClosedAmounts(l.closed, w)) + OpenAmount(l.open, w)
    BY <1>2, <1>3, <1>4, <2>2, <2>3
  <2>5. Accounts(next, events, n)
    BY <1>2, <2>1, <2>4 DEF Accounts
  <2> QED
    BY <2>5 DEF next
<1>6. CASE e.action # "none"
  <2>1. IsTrade(e, "buy") \/ IsTrade(e, "sell")
    BY <1>6 DEF IsHistory
  <2>2. TakesIn(after, opened, e)
    BY <1>1, <2>1, ProcessedBalances
  <2>3. \A w \in Accounted : Taken(e, w) \in Int
    BY <2>1 DEF Taken, IsTrade, InEvent
  <2>4. \A w \in Accounted :
          SumOf(TradedAmounts(events, n, w)) = SumOf(ClosedAmounts(l.closed, w)) + InPosition(after, w)
    <3> SUFFICES ASSUME NEW w \in Accounted
                 PROVE  SumOf(TradedAmounts(events, n, w)) = SumOf(ClosedAmounts(l.closed, w)) + InPosition(after, w)
      OBVIOUS
    <3>1. InPosition(after, w) = InPosition(opened, w) + Taken(e, w)
      BY <2>2 DEF TakesIn
    <3> HIDE DEF e, opened, after, next
    <3>2. PICK a \in Int, b \in Int, c \in Int :
            a = SumOf(ClosedAmounts(l.closed, w)) /\ b = InPosition(opened, w) /\ c = Taken(e, w)
      BY <1>3, <2>3
    <3>3. SumOf(TradedAmounts(events, n - 1, w)) = a + b
      BY <1>1, <1>2, <3>2
    <3>4. SumOf(TradedAmounts(events, n, w)) = (a + b) + c
      BY <1>4, <3>2, <3>3
    <3>5. InPosition(after, w) = b + c
      BY <3>1, <3>2
    <3>6. (a + b) + c = a + (b + c)
      BY <3>2
    <3> QED
      BY <3>2, <3>4, <3>5, <3>6
  <2>5. CASE Closes(after, e)
    <3> DEFINE dusted == [after EXCEPT !.flags = @ \cup {"dust_closed"}]
               p == Finalize(dusted, events)
    <3>1. next = [closed |-> Append(l.closed, p), open |-> <<>>]
      BY <1>6, <2>5 DEF Advance
    <3>2. SameAmounts(dusted, after)
      BY <2>2, FlagsKeep DEF TakesIn
    <3>3. SameAmounts(p, dusted)
      BY <3>2, FinalizeKeeps DEF SameAmounts
    <3>4. Balanced(p) /\ \A w \in Accounted : InPosition(p, w) = InPosition(after, w)
      BY <3>2, <3>3 DEF SameAmounts
    <3> HIDE DEF e, opened, after, next, dusted, p
    <3> DEFINE z == Append(l.closed, p)
    <3>5. z \in Seq(Range(z)) /\ \A k \in DOMAIN z : Balanced(z[k])
      <4>1. /\ z \in Seq(Range(z)) /\ Len(l.closed) \in Nat
            /\ DOMAIN l.closed = 1..Len(l.closed) /\ DOMAIN z = 1..(Len(l.closed) + 1)
            /\ z[Len(l.closed) + 1] = p /\ \A i \in DOMAIN l.closed : z[i] = l.closed[i]
        BY <1>2, Appended
      <4> HIDE DEF z
      <4> QED
        BY <1>2, <3>4, <4>1
    <3>6. \A w \in Accounted : SumOf(ClosedAmounts(z, w)) = SumOf(ClosedAmounts(l.closed, w)) + InPosition(p, w)
      BY <1>2, <3>4, ClosedOneMore
    <3>7. \A w \in Accounted : SumOf(ClosedAmounts(z, w)) \in Int
      BY <3>5, ClosedSummable, SumOfIsInt
    <3> HIDE DEF z
    <3>8. next.closed = z /\ next.open = <<>> /\ DOMAIN next = {"closed", "open"}
      BY <3>1 DEF z
    <3>9. \A w \in Accounted :
            SumOf(TradedAmounts(events, n, w)) = SumOf(ClosedAmounts(next.closed, w)) + OpenAmount(next.open, w)
      <4> SUFFICES ASSUME NEW w \in Accounted
                   PROVE  SumOf(TradedAmounts(events, n, w)) = SumOf(ClosedAmounts(z, w)) + 0
        BY <3>8 DEF OpenAmount
      <4> QED
        BY <2>4, <3>4, <3>6, <3>7
    <3>10. Accounts(next, events, n)
      BY <3>5, <3>8, <3>9 DEF Accounts
    <3> QED
      BY <3>10 DEF next
  <2>6. CASE ~Closes(after, e)
    <3>1. next = [l EXCEPT !.open = <<after>>]
      BY <1>6, <2>6 DEF Advance
    <3>2. Balanced(after)
      BY <2>2 DEF TakesIn
    <3> HIDE DEF e, opened, after, next
    <3>3. next.closed = l.closed /\ next.open = <<after>> /\ DOMAIN next = {"closed", "open"}
      BY <1>2, <3>1
    <3>4. \A w \in Accounted : OpenAmount(next.open, w) = InPosition(after, w)
      BY <3>3 DEF OpenAmount
    <3>5. Accounts(next, events, n)
      BY <1>2, <2>4, <3>2, <3>3, <3>4 DEF Accounts
    <3> QED
      BY <3>5 DEF next
  <2> QED
    BY <2>5, <2>6
<1> QED
  BY <1>5, <1>6

(* The ledger after each of the first n swaps.                             *)
Advances(v, n, events) ==
  v = [i \in 0..n |-> IF i = 0 THEN EmptyLedger ELSE Advance(v[i - 1], events, i)]

(* It exists, whatever the history is,                                     *)
LEMMA AdvancesExist ==
  ASSUME NEW n \in Nat, NEW events
  PROVE  \E v : Advances(v, n, events)
<1> DEFINE T == {m \in Nat : ~ \E v : Advances(v, m, events)}
<1> SUFFICES ASSUME T # {} PROVE FALSE
  OBVIOUS
<1>1. PICK m \in T : \A k \in T : m <= k
  <2>1. T \subseteq Nat
    OBVIOUS
  <2> HIDE DEF T
  <2> QED
    BY <2>1, NatMin
<1>2. m \in Nat /\ ~ \E v : Advances(v, m, events)
  OBVIOUS
<1>3. CASE m = 0
  <2> DEFINE v == [i \in 0..0 |-> EmptyLedger]
  <2>1. Advances(v, 0, events)
    BY DEF Advances
  <2> QED
    BY <1>2, <1>3, <2>1
<1>4. CASE m # 0
  <2>1. m - 1 \in Nat /\ m - 1 \notin T
    BY <1>1, <1>2, <1>4
  <2>2. PICK v : Advances(v, m - 1, events)
    BY <2>1
  <2>3. \A i \in 0..(m - 1) : v[i] = IF i = 0 THEN EmptyLedger ELSE Advance(v[i - 1], events, i)
    BY <2>2 DEF Advances
  <2> DEFINE w == [i \in 0..m |-> IF i = m THEN Advance(v[m - 1], events, m) ELSE v[i]]
             r(f) == [i \in 0..m |-> IF i = 0 THEN EmptyLedger ELSE Advance(f[i - 1], events, i)]
  <2>4. ASSUME NEW i \in 0..m
        PROVE  w[i] = IF i = 0 THEN EmptyLedger ELSE Advance(w[i - 1], events, i)
    <3>1. CASE i = m
      <4>1. w[i - 1] = v[m - 1] /\ w[i] = Advance(v[m - 1], events, m)
        BY <1>2, <1>4, <3>1
      <4> QED
        BY <1>4, <3>1, <4>1
    <3>2. CASE i # m /\ i # 0
      <4>1. i - 1 \in 0..m /\ i - 1 # m /\ i \in 0..(m - 1)
        BY <1>2, <3>2
      <4>2. w[i - 1] = v[i - 1] /\ w[i] = v[i]
        BY <3>2, <4>1
      <4>3. v[i] = Advance(v[i - 1], events, i)
        BY <2>3, <3>2, <4>1
      <4> QED
        BY ONLY <3>2, <4>2, <4>3
    <3>3. CASE i # m /\ i = 0
      BY <1>2, <2>1, <2>3, <3>3
    <3> QED
      BY <3>1, <3>2, <3>3
  <2>5. w = r(w)
    <3> HIDE DEF w
    <3>1. w = [i \in 0..m |-> w[i]]
      BY DEF w
    <3> QED
      BY <2>4, <3>1
  <2>6. Advances(w, m, events)
    BY ONLY <2>5 DEF Advances, r
  <2> QED
    BY <1>2, <2>6
<1> QED
  BY <1>3, <1>4

(* and accounts for those swaps.                                           *)
LEMMA AdvancesAccount ==
  ASSUME NEW events, IsHistory(events), NEW v, Advances(v, Len(events), events)
  PROVE  \A n \in 0..Len(events) : Accounts(v[n], events, n)
<1> DEFINE T == {n \in 0..Len(events) : ~Accounts(v[n], events, n)}
<1> SUFFICES ASSUME T # {} PROVE FALSE
  OBVIOUS
<1>1. PICK n \in T : \A k \in T : n <= k
  <2>1. T \subseteq Nat
    OBVIOUS
  <2> HIDE DEF T
  <2> QED
    BY <2>1, NatMin
<1>2. n \in 0..Len(events) /\ ~Accounts(v[n], events, n) /\ Len(events) \in Nat
  BY DEF IsHistory
<1>3. v[n] = IF n = 0 THEN EmptyLedger ELSE Advance(v[n - 1], events, n)
  BY <1>2 DEF Advances
<1>4. CASE n = 0
  <2>1. \A w \in Accounted : SumOf(TradedAmounts(events, 0, w)) = 0
    <3> SUFFICES ASSUME NEW w \in Accounted PROVE SumOf(TradedAmounts(events, 0, w)) = 0
      OBVIOUS
    <3> DEFINE S == {k \in 1..0 : events[k].action = SideOf(w)}
    <3>1. S = {}
      OBVIOUS
    <3>2. Summable(TradedAmounts(events, 0, w), S)
      BY <1>2, TradedSummable
    <3> QED
      BY <3>1, <3>2, SumOfIsInt
  <2>2. \A w \in Accounted : SumOf(ClosedAmounts(<<>>, w)) = 0
    <3> SUFFICES ASSUME NEW w \in Accounted PROVE SumOf(ClosedAmounts(<<>>, w)) = 0
      OBVIOUS
    <3>1. <<>> \in Seq(Range(<<>>)) /\ DOMAIN <<>> = {}
      OBVIOUS
    <3>2. Summable(ClosedAmounts(<<>>, w), {})
      BY <3>1, ClosedSummable
    <3> QED
      BY <3>2, SumOfIsInt
  <2>3. Accounts(EmptyLedger, events, 0)
    BY <2>1, <2>2 DEF Accounts, EmptyLedger, OpenAmount
  <2> QED
    BY <1>2, <1>3, <1>4, <2>3
<1>5. CASE n # 0
  <2>1. n - 1 \in 0..Len(events) /\ n - 1 \notin T /\ n \in 1..Len(events)
    BY <1>1, <1>2, <1>5
  <2>2. Accounts(v[n - 1], events, n - 1)
    BY <2>1
  <2>3. Accounts(Advance(v[n - 1], events, n), events, n)
    BY <2>1, <2>2, AdvanceAccounts
  <2> QED
    BY <1>2, <1>3, <1>5, <2>3
<1> QED
  BY <1>4, <1>5

(* The positions of a history account for it.                              *)
LEMMA LedgerAccounts ==
  ASSUME NEW events, IsHistory(events)
  PROVE  /\ \A k \in DOMAIN Positions(events) : Balanced(Positions(events)[k])
         /\ \A w \in Accounted :
              SumOf(ClosedAmounts(Positions(events), w)) = SumOf(TradedAmounts(events, Len(events), w))
<1> DEFINE n == Len(events)
           P(v) == Advances(v, n, events)
           u == CHOOSE v : P(v)
           last == u[n]
           finalized == [i \in DOMAIN last.open |-> Finalize(last.open[i], events)]
           all == Positions(events)
<1>1. n \in Nat
  BY DEF IsHistory
<1>2. Ledger(events) = [last EXCEPT !.open = finalized]
  BY DEF Ledger, Advances, EmptyLedger
<1>3. P(u)
  <2>1. \E v : P(v)
    BY <1>1, AdvancesExist
  <2> HIDE DEF P
  <2> QED
    BY <2>1
<1> HIDE DEF u
<1>4. Accounts(last, events, n)
  BY <1>1, <1>3, AdvancesAccount
<1> HIDE DEF last, P
<1>5. /\ DOMAIN last = {"closed", "open"}
      /\ last.closed \in Seq(Range(last.closed)) /\ \A k \in DOMAIN last.closed : Balanced(last.closed[k])
      /\ last.open = <<>> \/ \E p : last.open = <<p>> /\ Balanced(p)
      /\ \A w \in Accounted :
           SumOf(TradedAmounts(events, n, w)) = SumOf(ClosedAmounts(last.closed, w)) + OpenAmount(last.open, w)
  BY <1>4 DEF Accounts
<1>6. all = last.closed \o finalized
  <2> HIDE DEF finalized
  <2> QED
    BY <1>2, <1>5 DEF Positions
<1>7. \A w \in Accounted : SumOf(ClosedAmounts(last.closed, w)) \in Int
  BY <1>5, ClosedSummable, SumOfIsInt
<1>8. CASE last.open = <<>>
  <2>1. finalized = <<>>
    BY <1>8
  <2>2. all = last.closed
    BY <1>5, <1>6, <2>1, ConcatEmptySeq
  <2> HIDE DEF all, finalized
  <2> QED
    BY <1>5, <1>7, <1>8, <2>2 DEF OpenAmount, all
<1>9. CASE \E p : last.open = <<p>> /\ Balanced(p)
  <2>1. PICK p : last.open = <<p>> /\ Balanced(p)
    BY <1>9
  <2> DEFINE q == Finalize(p, events)
  <2>2. SameAmounts(q, p)
    BY <2>1, FinalizeKeeps
  <2>3. finalized = <<q>>
    BY <2>1
  <2> HIDE DEF q, finalized
  <2>4. all = Append(last.closed, q)
    <3> DEFINE S == Range(last.closed) \cup {q}
    <3>1. last.closed \in Seq(S) /\ q \in S
      BY <1>5
    <3> HIDE DEF S
    <3> QED
      BY <1>6, <2>3, <3>1, AppendIsConcat
  <2> HIDE DEF all
  <2>5. \A k \in DOMAIN all : Balanced(all[k])
    <3> DEFINE z == Append(last.closed, q)
    <3>1. /\ Len(last.closed) \in Nat
          /\ DOMAIN last.closed = 1..Len(last.closed) /\ DOMAIN z = 1..(Len(last.closed) + 1)
          /\ z[Len(last.closed) + 1] = q /\ \A i \in DOMAIN last.closed : z[i] = last.closed[i]
      BY <1>5, Appended
    <3> HIDE DEF z
    <3>2. Balanced(q)
      BY <2>2 DEF SameAmounts
    <3>3. \A k \in DOMAIN z : Balanced(z[k])
      BY <1>5, <3>1, <3>2
    <3> QED
      BY <2>4, <3>3 DEF z
  <2>6. \A w \in Accounted : SumOf(ClosedAmounts(all, w)) = SumOf(ClosedAmounts(last.closed, w)) + InPosition(q, w)
    BY <1>5, <2>2, <2>4, ClosedOneMore DEF SameAmounts
  <2>7. \A w \in Accounted : OpenAmount(last.open, w) = InPosition(q, w)
    <3>1. last.open # <<>> /\ last.open[1] = p
      BY <2>1
    <3> QED
      BY <2>2, <3>1 DEF SameAmounts, OpenAmount
  <2>8. \A w \in Accounted : SumOf(ClosedAmounts(all, w)) = SumOf(TradedAmounts(events, n, w))
    BY <1>5, <2>6, <2>7
  <2> QED
    BY <2>5, <2>8 DEF all
<1> QED
  BY <1>5, <1>8, <1>9

-----------------------------------------------------------------------------
(* The server's histories are histories. *)

LEMMA SwapsAreTrades ==
  ASSUME NEW events \in Seq(Swaps)
  PROVE  IsHistory(events)
<1>1. \A e \in Swaps : \/ IsTrade(e, "buy") \/ IsTrade(e, "sell")
                       \/ e.action = "none" /\ e.q \in Nat /\ e.amount \in Nat
  BY TradeBounds DEF IsTrade
<1>2. Len(events) \in Nat /\ DOMAIN events = 1..Len(events) /\ \A i \in 1..Len(events) : events[i] \in Swaps
  OBVIOUS
<1> QED
  BY <1>1, <1>2 DEF IsHistory

HistoryOfSwaps == history \in Seq(Swaps)

LEMMA HistoriesGrow == HistoryOfSwaps /\ [LedgerNext]_history => HistoryOfSwaps'
BY DEF HistoryOfSwaps, LedgerNext, Swap

LEMMA OnlyTradesExtend == [ServerNext]_serverVars => [LedgerNext]_history
<1> SUFFICES ASSUME ServerNext PROVE LedgerNext \/ UNCHANGED history
  BY DEF serverVars
<1>1. CASE WalletTrades
  BY <1>1 DEF WalletTrades
<1>2. ASSUME NEW r \in Requests, Ask(r) \/ RunPipeline(r) \/ Normalize(r) PROVE UNCHANGED history
  BY <1>2 DEF Ask, Begin, RunPipeline, Normalize
<1>3. ASSUME NEW t \in SingleTools, StartTool(t) \/ RebuildPosition(t) \/ MintOne(t) \/ MintSelected(t)
      PROVE  UNCHANGED history
  BY <1>3 DEF StartTool, Begin, RebuildPosition, MintOne, MintSelected
<1>4. ASSUME NEW w \in Workers, Respond(w) \/ NextPage(w) PROVE UNCHANGED history
  BY <1>4 DEF Respond, NextPage
<1>5. CASE Restart
  BY <1>5 DEF Restart
<1> QED
  BY <1>1, <1>2, <1>3, <1>4, <1>5 DEF ServerNext

LEMMA HistoriesAccount == HistoryOfSwaps => TradesAreAccountedOnce
<1> SUFFICES ASSUME HistoryOfSwaps PROVE TradesAreAccountedOnce
  OBVIOUS
<1> DEFINE all == Positions(history)
           n == Len(history)
<1>1. IsHistory(history)
  BY SwapsAreTrades DEF HistoryOfSwaps
<1>2. /\ \A k \in DOMAIN all : Balanced(all[k])
      /\ \A w \in Accounted : SumOf(ClosedAmounts(all, w)) = SumOf(TradedAmounts(history, n, w))
  BY <1>1, LedgerAccounts
<1>3. \A f : Total(f) = SumOf(f)
  BY DEF Total, SumOf
<1> HIDE DEF all
<1>4. \A action : Traded(history, action) = {k \in 1..n : history[k].action = action}
  BY <1>1 DEF Traded, IsHistory
<1>5. /\ ClosedAmounts(all, "bought") = [k \in DOMAIN all |-> all[k].bought]
      /\ ClosedAmounts(all, "sold") = [k \in DOMAIN all |-> all[k].sold + all[k].unaccounted]
      /\ ClosedAmounts(all, "proceeds") = [k \in DOMAIN all |-> all[k].soldQuote + all[k].unaccountedQuote]
  BY DEF ClosedAmounts, InPosition
<1>6. /\ TradedAmounts(history, n, "bought") = [i \in Traded(history, "buy") |-> history[i].q]
      /\ TradedAmounts(history, n, "sold") = [i \in Traded(history, "sell") |-> history[i].q]
      /\ TradedAmounts(history, n, "proceeds") = [i \in Traded(history, "sell") |-> history[i].amount]
  BY <1>4 DEF TradedAmounts, InEvent, SideOf
<1>7. \A w \in Accounted : Total(ClosedAmounts(all, w)) = Total(TradedAmounts(history, n, w))
  BY <1>2, <1>3
<1>8. /\ Total([k \in DOMAIN all |-> all[k].bought]) = Total([i \in Traded(history, "buy") |-> history[i].q])
      /\ Total([k \in DOMAIN all |-> all[k].sold + all[k].unaccounted])
           = Total([i \in Traded(history, "sell") |-> history[i].q])
      /\ Total([k \in DOMAIN all |-> all[k].soldQuote + all[k].unaccountedQuote])
           = Total([i \in Traded(history, "sell") |-> history[i].amount])
  <2>1. "bought" \in Accounted /\ "sold" \in Accounted /\ "proceeds" \in Accounted
    BY DEF Accounted
  <2> QED
    BY <1>5, <1>6, <1>7, <2>1
<1>9. \A k \in DOMAIN all : /\ all[k].bought = all[k].sold + all[k].remaining
                            /\ all[k].boughtQuote = all[k].allocated + all[k].cost
                            /\ all[k].remaining = 0 => all[k].cost = 0
  BY <1>2 DEF Balanced
<1> QED
  BY <1>8, <1>9 DEF TradesAreAccountedOnce, all

(* Every unit a wallet bought or sold, and every unit of quote, is in one  *)
(* position of its ledger, whatever the wallet trades (position-ledger.mjs *)
(* 128-335 and 455-520).                                                   *)
THEOREM TradesAccounted == ServerSpec => []TradesAreAccountedOnce
<1>1. ServerInit => HistoryOfSwaps
  BY DEF ServerInit, LedgerInit, HistoryOfSwaps
<1>2. HistoryOfSwaps /\ [ServerNext]_serverVars => HistoryOfSwaps'
  BY OnlyTradesExtend, HistoriesGrow
<1> QED
  BY <1>1, <1>2, HistoriesAccount, PTL DEF ServerSpec

-----------------------------------------------------------------------------
(***************************************************************************)
(* The local server.                                                       *)
(***************************************************************************)

(* A set of transactions without a gap: the history up to some trade.      *)
Whole(txs) == txs = 1..Cardinality(txs)

(* What a fetch holds is the history from `before' to some trade that is   *)
(* not older than the request; nothing it holds was known.                 *)
Block(p, n) ==
  \/ p.got = {} /\ p.before = MaxSwaps + 1
  \/ \E last \in 1..n :
        p.before \in 1..last /\ p.due <= last /\ p.got = p.before..last

(* A page ends where the last one began, the first one at the newest trade;*)
(* it is short only when it reaches the oldest one.                        *)
PageOk(p, n) ==
  \E first \in 1..(MaxSwaps + 1), last \in 0..n :
     /\ p.page = first..last
     /\ p.got = {} => p.due <= last
     /\ p.got # {} => last = p.before - 1
     /\ Cardinality(p.page) < Limit(p) => first = 1

FetchFields == {"pc", "window", "depth", "known", "page", "got", "before", "due"}

FetchOk(p, n, torn) ==
  /\ DOMAIN p = FetchFields
  /\ p.depth \in Nat /\ Cardinality(p.got) < p.depth
  /\ p.due \in 0..n
  /\ OldSignatures(p) \subseteq 1..p.due
  /\ \A k \in OldSignatures(p) : k < p.before
  /\ ~torn => Whole(OldSignatures(p))
  /\ Block(p, n)
  /\ p.pc = "sent" => PageOk(p, n)

Fetching == {"page", "sent"}

RatesOk(p) == DOMAIN p = {"pc", "window", "txs", "held", "due"} /\ 1..p.due \subseteq p.txs

OneOk(one) ==
  /\ one.closed = TRUE
  /\ SingleStatusByte(one.receipt) = 0 => one.receipt.type = "verified" /\ one.receipt.exits # {}

RequestOk(p, n, torn) ==
  \/ p = Quiet
  \/ p.pc \in Fetching /\ FetchOk(p, n, torn)
  \/ p.pc = "rates" /\ RatesOk(p)

SingleToolOk(p, n, torn) ==
  \/ p = Quiet
  \/ p.pc \in Fetching /\ FetchOk(p, n, torn) /\ p.known = {}
  \/ p.pc = "selected" /\ DOMAIN p = {"pc", "one"} /\ OneOk(p.one)

WorkersAre(workers, n, torn) ==
  /\ DOMAIN workers = Workers
  /\ \A r \in Requests : RequestOk(workers[r], n, torn)
  /\ \A t \in SingleTools : SingleToolOk(workers[t], n, torn)

WorkersOk == WorkersAre(worker, Len(history), cut)

AtMostOne(S) == \A x, y \in S : x = y

CachesOk ==
  /\ DOMAIN cache = {"memory", "disk"}
  /\ AtMostOne(cache.memory) /\ AtMostOne(cache.disk) /\ AtMostOne(pipeline)
  /\ \A txs \in cache.memory \cup cache.disk : txs \subseteq DOMAIN history /\ (~cut => Whole(txs))
  /\ \A o \in pipeline : DOMAIN o = {"txs", "positions"}
  /\ pipeline # {} => cache.memory # {}

(* While requests do not overlap the positions are those of the cached     *)
(* transactions, and the request at work has seen what is cached.          *)
Alone ==
  ~overlapped =>
    /\ \A r, q \in Requests : worker[r].pc # "idle" /\ worker[q].pc # "idle" => r = q
    /\ \A r \in Requests : worker[r].pc \in Fetching => worker[r].known = cache.memory
    /\ \A o \in pipeline : cache.memory = {o.txs}

HistoryInv == HistoryOfSwaps /\ Len(history) <= MaxSwaps

ServerInv ==
  /\ HistoryInv
  /\ WorkersOk /\ CachesOk /\ Alone
  /\ AnswersAreFresh /\ AnchorsAreClosed

(* An interval from one is without a gap, and nothing else is.             *)
LEMMA WholeIs ==
  ASSUME NEW txs
  PROVE  /\ \A n \in Nat : txs = 1..n => Whole(txs)
         /\ Whole(txs) /\ IsFiniteSet(txs) => \E n \in Nat : txs = 1..n
<1>1. ASSUME NEW n \in Nat, txs = 1..n PROVE Whole(txs)
  BY <1>1, FS_Interval DEF Whole
<1>2. ASSUME Whole(txs), IsFiniteSet(txs) PROVE \E n \in Nat : txs = 1..n
  BY <1>2, FS_CardinalityType DEF Whole
<1> QED
  BY <1>1, <1>2

LEMMA LesserOfTwo ==
  ASSUME NEW a \in Int, NEW b \in Int
  PROVE  Min({a, b}) = IF a <= b THEN a ELSE b
BY DEF Min

LEMMA LeastOfInterval ==
  ASSUME NEW a \in Int, NEW b \in Int, a <= b
  PROVE  Min(a..b) = a
BY DEF Min

(* While a fetch may go on, the next page asks for something.              *)
LEMMA LimitIsPositive ==
  ASSUME NEW p, p.depth \in Nat, Cardinality(p.got) \in Nat, Cardinality(p.got) < p.depth
  PROVE  Limit(p) \in Nat \ {0}
BY LesserOfTwo, ServerBounds DEF Limit

(* The newest trades before one of them, so many at a time.                *)
Newest(n, b, limit) == {i \in 1..n : i < b /\ Cardinality({j \in 1..n : i < j /\ j < b}) < limit}

LastBefore(n, b) == IF b <= n THEN b - 1 ELSE n

LEMMA NewestOf ==
  ASSUME NEW n \in Nat, NEW b \in Nat \ {0}, NEW limit \in Nat \ {0}
  PROVE  \E first \in 1..(LastBefore(n, b) + 1) :
            /\ Newest(n, b, limit) = first..LastBefore(n, b)
            /\ Cardinality(first..LastBefore(n, b)) < limit => first = 1
<1> DEFINE last == LastBefore(n, b)
           first == IF last < limit THEN 1 ELSE last - limit + 1
<1>0. last \in Nat /\ last = IF b <= n THEN b - 1 ELSE n
  BY DEF LastBefore
<1> HIDE DEF last
<1>1. first \in 1..(last + 1)
  BY <1>0
<1>2. ASSUME NEW i \in 1..n, i < b
      PROVE  Cardinality({j \in 1..n : i < j /\ j < b}) = last - i
  <2>1. i <= last
    BY <1>0, <1>2
  <2>2. {j \in 1..n : i < j /\ j < b} = (i + 1)..last
    BY <1>0, <1>2
  <2>3. i + 1 \in Int /\ last \in Int
    BY <1>0
  <2>4. Cardinality((i + 1)..last) = IF i + 1 > last THEN 0 ELSE last - (i + 1) + 1
    BY <2>3, FS_Interval, Zenon
  <2>5. Cardinality((i + 1)..last) = last - i
    BY <1>0, <2>1, <2>4
  <2> QED
    BY <2>2, <2>5
<1>3. Newest(n, b, limit) = {i \in 1..n : i < b /\ last - i < limit}
  BY <1>2 DEF Newest
<1>4. {i \in 1..n : i < b /\ last - i < limit} = first..last
  BY <1>0
<1>5. Cardinality(first..last) < limit => first = 1
  <2>1. first \in Int /\ last \in Int
    BY <1>0
  <2>2. Cardinality(first..last) = IF first > last THEN 0 ELSE last - first + 1
    <3> HIDE DEF first
    <3> QED
      BY <2>1, FS_Interval, Zenon
  <2> QED
    BY <1>0, <2>2
<1> QED
  BY <1>1, <1>3, <1>4, <1>5 DEF last

(* A page is the newest part of the history before the last one.           *)
LEMMA PageIsInterval ==
  ASSUME HistoryOfSwaps, NEW p, p.before \in Nat \ {0}, Limit(p) \in Nat \ {0}
  PROVE  \E first \in 1..(LastBefore(Len(history), p.before) + 1) :
            /\ NewestPage(p) = first..LastBefore(Len(history), p.before)
            /\ Cardinality(first..LastBefore(Len(history), p.before)) < Limit(p) => first = 1
<1>1. Len(history) \in Nat /\ DOMAIN history = 1..Len(history)
  BY DEF HistoryOfSwaps
<1>2. NewestPage(p) = Newest(Len(history), p.before, Limit(p))
  BY <1>1 DEF NewestPage, Newest
<1> QED
  BY <1>1, <1>2, NewestOf

LEMMA HistoryIs ==
  ASSUME HistoryInv
  PROVE  /\ Len(history) \in Nat /\ DOMAIN history = 1..Len(history)
         /\ MaxSwaps \in Nat /\ Len(history) <= MaxSwaps
BY TradeBounds DEF HistoryInv, HistoryOfSwaps

(* What is known of a fetch at work.                                       *)
LEMMA FetchIs ==
  ASSUME HistoryInv, NEW p, FetchOk(p, Len(history), cut)
  PROVE  /\ IsFiniteSet(p.got) /\ Cardinality(p.got) \in Nat
         /\ p.before \in 1..(MaxSwaps + 1) /\ p.due \in Nat
         /\ p.got \subseteq DOMAIN history
         /\ Limit(p) \in Nat \ {0}
         /\ OldSignatures(p) \subseteq DOMAIN history
<1>1. /\ Len(history) \in Nat /\ DOMAIN history = 1..Len(history)
      /\ MaxSwaps \in Nat /\ Len(history) <= MaxSwaps
  BY HistoryIs
<1>2. Block(p, Len(history)) /\ p.due \in 0..Len(history) /\ OldSignatures(p) \subseteq 1..p.due
      /\ p.depth \in Nat /\ Cardinality(p.got) < p.depth
  BY DEF FetchOk
<1>3. p.before \in 1..(MaxSwaps + 1) /\ p.got \subseteq 1..Len(history)
  BY <1>1, <1>2 DEF Block
<1>4. IsFiniteSet(p.got)
  <2>1. IsFiniteSet(1..Len(history))
    BY <1>1, FS_Interval
  <2> QED
    BY <1>3, <2>1, FS_Subset
<1>5. Cardinality(p.got) \in Nat
  BY <1>4, FS_CardinalityType
<1>6. Limit(p) \in Nat \ {0}
  BY <1>2, <1>5, LimitIsPositive
<1> QED
  BY <1>1, <1>2, <1>3, <1>4, <1>5, <1>6

(* The provider answers with the page that was asked for.                  *)
LEMMA ResponseIsOk ==
  ASSUME HistoryInv, NEW p, FetchOk(p, Len(history), cut), NEW q, q = [p EXCEPT !.pc = "sent", !.page = NewestPage(p)]
  PROVE  FetchOk(q, Len(history), cut)
<1> DEFINE n == Len(history)
<1>1. n \in Nat /\ DOMAIN history = 1..n /\ MaxSwaps \in Nat /\ n <= MaxSwaps
  BY HistoryIs
<1>2. p.before \in 1..(MaxSwaps + 1) /\ Limit(p) \in Nat \ {0}
  BY FetchIs
<1>3. DOMAIN p = FetchFields /\ Block(p, n) /\ p.due \in 0..n
  BY DEF FetchOk
<1>4. /\ DOMAIN q = FetchFields /\ q.page = NewestPage(p)
      /\ q.depth = p.depth /\ q.got = p.got /\ q.before = p.before /\ q.due = p.due /\ q.known = p.known
  BY <1>3 DEF FetchFields
<1>5. Limit(q) = Limit(p) /\ OldSignatures(q) = OldSignatures(p)
  BY <1>4 DEF Limit, OldSignatures
<1>6. LastBefore(n, p.before) \in 0..n
  BY <1>1, <1>2 DEF LastBefore
<1>7. PICK last \in 0..n : last = LastBefore(n, p.before)
  BY <1>6
<1>8. PICK first \in 1..(last + 1) :
          /\ NewestPage(p) = first..last
          /\ Cardinality(first..last) < Limit(p) => first = 1
  BY <1>1, <1>2, <1>7, PageIsInterval DEF HistoryInv
<1>9. first \in 1..(MaxSwaps + 1)
  BY <1>1, <1>7
<1>10. p.got = {} => p.due <= last
  BY <1>1, <1>2, <1>3, <1>7 DEF Block, LastBefore
<1>11. p.got # {} => last = p.before - 1
  BY <1>1, <1>2, <1>3, <1>7 DEF Block, LastBefore
<1>12. PageOk(q, n)
  <2>1. q.page = first..last
    BY <1>4, <1>8
  <2>2. q.got = {} => q.due <= last
    BY <1>4, <1>10
  <2>3. q.got # {} => last = q.before - 1
    BY <1>4, <1>11
  <2>4. Cardinality(q.page) < Limit(q) => first = 1
    BY <1>5, <1>8, <2>1
  <2> QED
    BY <1>9, <2>1, <2>2, <2>3, <2>4 DEF PageOk
<1>13. Block(q, n)
  BY <1>3, <1>4 DEF Block
<1> QED
  BY <1>4, <1>5, <1>12, <1>13 DEF FetchOk

(* A page without a known signature that is not the last leaves the fetch  *)
(* where its oldest trade stands.                                          *)
LEMMA NextPageIsOk ==
  ASSUME HistoryInv, NEW p, FetchOk(p, Len(history), cut), p.pc = "sent", ~LastPage(p), ~Capped(p),
         NEW q, q = [p EXCEPT !.pc = "page", !.page = {}, !.got = @ \cup p.page, !.before = Min(p.page)]
  PROVE  FetchOk(q, Len(history), cut)
<1> DEFINE n == Len(history)
<1>1. n \in Nat /\ DOMAIN history = 1..n /\ MaxSwaps \in Nat /\ n <= MaxSwaps
  BY HistoryIs
<1>2. /\ DOMAIN p = FetchFields /\ Block(p, n) /\ p.due \in 0..n /\ p.depth \in Nat
      /\ OldSignatures(p) \subseteq 1..p.due /\ \A k \in OldSignatures(p) : k < p.before
      /\ ~cut => Whole(OldSignatures(p))
      /\ PageOk(p, n)
  BY DEF FetchOk
<1>3. PICK first \in 1..(MaxSwaps + 1), last \in 0..n :
         /\ p.page = first..last
         /\ p.got = {} => p.due <= last
         /\ p.got # {} => last = p.before - 1
  BY <1>2 DEF PageOk
<1>4. p.page # {} /\ p.page \cap OldSignatures(p) = {}
  BY DEF LastPage, Met
<1>5. first \in 1..last /\ last \in 1..n
  BY <1>1, <1>3, <1>4
<1>6. Min(p.page) = first
  BY <1>3, <1>5, LeastOfInterval
<1>7. /\ DOMAIN q = FetchFields /\ q.pc = "page" /\ q.got = p.got \cup p.page /\ q.before = first
      /\ q.depth = p.depth /\ q.due = p.due /\ q.known = p.known
  BY <1>2, <1>6 DEF FetchFields
<1>8. OldSignatures(q) = OldSignatures(p)
  BY <1>7 DEF OldSignatures
<1>9. \E end \in 1..n : /\ p.due <= end /\ last <= end
                        /\ p.got \cup p.page = first..end
  <2>1. CASE p.got = {}
    BY <1>3, <1>5, <2>1
  <2>2. CASE p.got # {}
    <3>1. PICK end \in 1..n : p.before \in 1..end /\ p.due <= end /\ p.got = p.before..end
      BY <1>2, <2>2 DEF Block
    <3>2. p.got \cup p.page = first..end
      BY <1>3, <1>5, <2>2, <3>1
    <3> QED
      BY <1>3, <2>2, <3>1, <3>2
  <2> QED
    BY <2>1, <2>2
<1>10. Block(q, n)
  BY <1>1, <1>5, <1>7, <1>9 DEF Block
<1>11. \A k \in OldSignatures(q) : k < q.before
  <2> SUFFICES ASSUME NEW k \in OldSignatures(p) PROVE k < first
    BY <1>7, <1>8
  <2>1. k \in 1..p.due /\ k < p.before /\ k \notin first..last /\ p.before \in Nat
    BY <1>1, <1>2, <1>3, <1>4, FetchIs
  <2>2. CASE p.got = {}
    BY <1>2, <1>3, <1>5, <2>1, <2>2
  <2>3. CASE p.got # {}
    BY <1>2, <1>3, <1>5, <2>1, <2>3
  <2> QED
    BY <2>2, <2>3
<1>12. Cardinality(q.got) < q.depth
  <2>1. NewOf(p) = p.page
    BY <1>4 DEF NewOf
  <2>2. IsFiniteSet(p.got \cup p.page)
    <3>1. PICK end \in 1..n : p.got \cup p.page = first..end
      BY <1>9
    <3>2. IsFiniteSet(first..end)
      BY <1>1, <1>5, FS_Interval
    <3> QED
      BY <3>1, <3>2
  <2>3. Cardinality(p.got \cup p.page) \in Nat
    BY <2>2, FS_CardinalityType
  <2>4. ~(Cardinality(p.got \cup p.page) >= p.depth)
    BY <2>1 DEF Capped
  <2> QED
    BY <1>2, <1>7, <2>3, <2>4
<1> QED
  BY <1>2, <1>7, <1>8, <1>10, <1>11, <1>12 DEF FetchOk

(* What a fetch ends with is history; with all of the pages it has every   *)
(* trade made before it began, and leaves no gap behind what was known.    *)
LEMMA FetchEnds ==
  ASSUME HistoryInv, NEW p, FetchOk(p, Len(history), cut), NEW end \in Ends(p)
  PROVE  /\ OldSignatures(p) \cup end.got \subseteq DOMAIN history
         /\ end.whole \in BOOLEAN
         /\ end.whole /\ Whole(OldSignatures(p)) =>
               /\ Whole(OldSignatures(p) \cup end.got)
               /\ 1..p.due \subseteq OldSignatures(p) \cup end.got
<1> DEFINE n == Len(history)
           old == OldSignatures(p)
<1>1. n \in Nat /\ DOMAIN history = 1..n /\ MaxSwaps \in Nat /\ n <= MaxSwaps
  BY HistoryIs
<1>2. p.got \subseteq 1..n /\ old \subseteq 1..n /\ Limit(p) \in Nat \ {0} /\ p.before \in Nat
  BY <1>1, FetchIs
<1>3. /\ Block(p, n) /\ p.due \in 0..n
      /\ old \subseteq 1..p.due /\ \A k \in old : k < p.before
      /\ p.pc = "sent" => PageOk(p, n)
  BY DEF FetchOk
<1>4. CASE p.pc = "page"
  <2>1. end = [got |-> p.got, whole |-> FALSE, failed |-> 1]
    BY <1>4 DEF Ends
  <2> QED
    BY <1>1, <1>2, <2>1
<1>5. CASE p.pc = "sent"
  <2>1. PICK first \in 1..(MaxSwaps + 1), last \in 0..n :
         /\ p.page = first..last
         /\ p.got = {} => p.due <= last
         /\ p.got # {} => last = p.before - 1
         /\ Cardinality(p.page) < Limit(p) => first = 1
    BY <1>3, <1>5 DEF PageOk
  <2>2. NewOf(p) \subseteq 1..n /\ p.page \subseteq 1..n
    BY <1>1, <2>1 DEF NewOf
  <2>3. CASE LastPage(p)
    <3>1. end = [got |-> p.got \cup NewOf(p), whole |-> TRUE, failed |-> 0]
      BY <1>5, <2>3 DEF Ends
    <3>2. ASSUME Whole(old) PROVE Whole(old \cup end.got) /\ 1..p.due \subseteq old \cup end.got
      <4>1. IsFiniteSet(old)
        <5>1. IsFiniteSet(1..n)
          BY <1>1, FS_Interval
        <5> QED
          BY <1>2, <5>1, FS_Subset
      <4>2. PICK k \in Nat : old = 1..k
        BY <3>2, <4>1, WholeIs
      <4>3. k <= last
        <5>1. CASE k = 0
          BY <2>1, <5>1
        <5>2. CASE k # 0
          <6>1. k \in old
            BY <4>2, <5>2
          <6>2. k \in 1..p.due /\ k < p.before
            BY <1>3, <6>1
          <6>3. CASE p.got = {}
            BY <1>3, <2>1, <6>2, <6>3
          <6>4. CASE p.got # {}
            BY <1>2, <2>1, <6>2, <6>4
          <6> QED
            BY <6>3, <6>4
        <5> QED
          BY <5>1, <5>2
      <4>4. old \cup NewOf(p) = 1..last
        <5>1. CASE Met(p)
          <6>1. first <= k /\ p.page \cap old = first..k
            BY <1>1, <2>1, <4>2, <4>3, <5>1 DEF Met
          <6>2. NewOf(p) = (k + 1)..last
            BY <2>1, <4>2, <4>3, <6>1 DEF NewOf
          <6> QED
            BY <4>2, <4>3, <6>2
        <5>2. CASE ~Met(p)
          <6>1. NewOf(p) = p.page
            BY <5>2 DEF NewOf, Met
          <6>2. p.page = {} \/ Cardinality(p.page) < Limit(p)
            BY <2>3, <5>2 DEF LastPage
          <6>3. Cardinality(p.page) < Limit(p)
            <7>1. CASE p.page = {}
              <8>1. Cardinality(p.page) = 0
                BY <7>1, FS_EmptySet
              <8> QED
                BY <1>2, <8>1
            <7> QED
              BY <6>2, <7>1
          <6>4. p.page = 1..last
            BY <2>1, <6>3
          <6>5. k = 0 \/ last = 0
            <7>1. p.page \cap old = {}
              BY <5>2 DEF Met
            <7>2. CASE last # 0 /\ k # 0
              <8>1. 1 \in p.page /\ 1 \in old
                BY <4>2, <6>4, <7>2
              <8> QED
                BY <7>1, <8>1
            <7> QED
              BY <7>2
          <6> QED
            BY <4>2, <4>3, <6>1, <6>4, <6>5
        <5> QED
          BY <5>1, <5>2
      <4>5. old \cup end.got = 1..last \cup p.got
        BY <3>1, <4>4
      <4>6. PICK m \in Nat : p.due <= m /\ 1..last \cup p.got = 1..m
        <5>1. CASE p.got = {}
          BY <2>1, <5>1
        <5>2. CASE p.got # {}
          <6>1. PICK m \in 1..n : p.before \in 1..m /\ p.due <= m /\ p.got = p.before..m
            BY <1>1, <1>3, <5>2 DEF Block
          <6>2. 1..last \cup p.got = 1..m
            BY <2>1, <5>2, <6>1
          <6> QED
            BY <6>1, <6>2
        <5> QED
          BY <5>1, <5>2
      <4>7. Whole(old \cup end.got)
        BY <4>5, <4>6, WholeIs
      <4> QED
        BY <1>3, <4>5, <4>6, <4>7
    <3> QED
      BY <1>1, <1>2, <2>2, <3>1, <3>2
  <2>4. CASE ~LastPage(p)
    <3>1. end = [got |-> p.got \cup p.page, whole |-> FALSE, failed |-> 0]
      BY <1>5, <2>4 DEF Ends
    <3> QED
      BY <1>1, <1>2, <2>2, <3>1
  <2> QED
    BY <2>3, <2>4
<1> QED
  BY <1>4, <1>5 DEF Ends

(* A fetch stays what it is when the wallet trades on or a fetch is cut    *)
(* off, and so do the others at work.                                      *)
LEMMA FetchEndures ==
  ASSUME NEW n \in Nat, NEW m \in Nat, n <= m, NEW torn, NEW tornNow, torn => tornNow,
         NEW p, FetchOk(p, n, torn)
  PROVE  FetchOk(p, m, tornNow)
<1>1. 1..n \subseteq 1..m /\ 0..n \subseteq 0..m
  OBVIOUS
<1>2. Block(p, n) => Block(p, m)
  BY <1>1 DEF Block
<1>3. PageOk(p, n) => PageOk(p, m)
  BY <1>1 DEF PageOk
<1> QED
  BY <1>1, <1>2, <1>3 DEF FetchOk

LEMMA WorkersEndure ==
  ASSUME NEW n \in Nat, NEW m \in Nat, n <= m, NEW torn, NEW tornNow, torn => tornNow,
         NEW workers, WorkersAre(workers, n, torn)
  PROVE  WorkersAre(workers, m, tornNow)
<1>1. \A p : FetchOk(p, n, torn) => FetchOk(p, m, tornNow)
  BY FetchEndures
<1> QED
  BY <1>1 DEF WorkersAre, RequestOk, SingleToolOk

(* One of them moves.                                                      *)
LEMMA WorkerMoves ==
  ASSUME NEW n, NEW torn, NEW workers, WorkersAre(workers, n, torn), NEW w \in Workers, NEW p,
         w \in Requests => RequestOk(p, n, torn), w \in SingleTools => SingleToolOk(p, n, torn)
  PROVE  WorkersAre([workers EXCEPT ![w] = p], n, torn)
BY DEF WorkersAre

LEMMA WorkerRests ==
  ASSUME NEW n, NEW torn, NEW workers, WorkersAre(workers, n, torn), NEW w \in Workers
  PROVE  WorkersAre([workers EXCEPT ![w] = Quiet], n, torn)
<1>1. RequestOk(Quiet, n, torn) /\ SingleToolOk(Quiet, n, torn)
  BY DEF RequestOk, SingleToolOk
<1> QED
  BY <1>1, WorkerMoves

LEMMA KindsApart ==
  /\ \A p, n, torn : RequestOk(p, n, torn) /\ p.pc \in Fetching => FetchOk(p, n, torn)
  /\ \A p, n, torn : SingleToolOk(p, n, torn) /\ p.pc \in Fetching => FetchOk(p, n, torn) /\ p.known = {}
  /\ \A p, n, torn : RequestOk(p, n, torn) /\ p.pc = "rates" => RatesOk(p)
  /\ \A p, n, torn : SingleToolOk(p, n, torn) /\ p.pc = "selected" => DOMAIN p = {"pc", "one"} /\ OneOk(p.one)
  /\ Workers = Requests \cup SingleTools /\ Requests \cap SingleTools = {}
<1>1. Quiet.pc = "idle"
  BY DEF Quiet
<1> QED
  BY <1>1, ServerBounds DEF RequestOk, SingleToolOk, Fetching, Workers

(* Dropping the object others work on changes nothing of them but that.    *)
LEMMA SupersededAre ==
  ASSUME NEW n, NEW torn, WorkersAre(worker, n, torn), NEW got
  PROVE  /\ WorkersAre(Superseded(got), n, torn)
         /\ \A w \in Workers : /\ Superseded(got)[w].pc = worker[w].pc
                               /\ worker[w].pc # "rates" => Superseded(got)[w] = worker[w]
<1>1. DOMAIN Superseded(got) = Workers
  BY DEF Superseded
<1>2. ASSUME NEW t \in SingleTools PROVE worker[t].pc # "rates"
  <2>1. SingleToolOk(worker[t], n, torn)
    BY DEF WorkersAre
  <2> QED
    BY <2>1 DEF SingleToolOk, Fetching, Quiet
<1>3. ASSUME NEW r \in Requests, worker[r].pc = "rates"
      PROVE  LET p == [worker[r] EXCEPT !.held = FALSE] IN RequestOk(p, n, torn) /\ p.pc = "rates"
  <2>1. RatesOk(worker[r])
    BY <1>3, KindsApart DEF WorkersAre
  <2> QED
    BY <1>3, <2>1 DEF RatesOk, RequestOk
<1>4. ASSUME NEW w \in Workers
      PROVE  Superseded(got)[w] = IF worker[w].pc = "rates" /\ Kept(got) = {} THEN [worker[w] EXCEPT !.held = FALSE] ELSE worker[w]
  BY DEF Superseded
<1>5. \A w \in Workers : worker[w].pc = "rates" => w \in Requests
  BY <1>2, KindsApart
<1> QED
  BY <1>1, <1>3, <1>4, <1>5, KindsApart DEF WorkersAre

(* What is known when a fetch begins.                                      *)
KnownOf(txs, all, torn) == txs \subseteq all /\ (~torn => Whole(txs))

LEMMA UnionIs ==
  ASSUME NEW sets, AtMostOne(sets), NEW all, NEW torn,
         \A txs \in sets : KnownOf(txs, all, torn)
  PROVE  KnownOf(UNION sets, all, torn)
<1>1. CASE sets = {}
  <2>1. UNION sets = 1..0
    BY <1>1
  <2> QED
    BY <1>1, <2>1, WholeIs DEF KnownOf
<1>2. ASSUME NEW txs \in sets PROVE UNION sets = txs
  BY <1>2 DEF AtMostOne
<1> QED
  BY <1>1, <1>2

LEMMA KnownIs ==
  ASSUME CachesOk
  PROVE  /\ AtMostOne(Known)
         /\ \A txs \in Known : txs \subseteq DOMAIN history /\ (~cut => Whole(txs))
BY DEF CachesOk, Known

(* A fetch that begins with what is cached, or with nothing.               *)
LEMMA FetchBegins ==
  ASSUME HistoryInv, CachesOk, NEW w \in Workers, NEW known, known \in {Known, {}}, Begin(w, known)
  PROVE  /\ worker[w].pc = "idle"
         /\ \E p : /\ worker' = [worker EXCEPT ![w] = p]
                  /\ p.pc = "page" /\ p.known = known
                  /\ FetchOk(p, Len(history), cut)
<1>1. PICK depth \in Depths, window \in Windows :
         worker' = [worker EXCEPT ![w] =
              [pc |-> "page", window |-> window, depth |-> depth, known |-> known, page |-> {}, got |-> {},
               before |-> MaxSwaps + 1, due |-> Len(history)]]
  BY DEF Begin
<1> DEFINE p == [pc |-> "page", window |-> window, depth |-> depth, known |-> known, page |-> {}, got |-> {},
                 before |-> MaxSwaps + 1, due |-> Len(history)]
           n == Len(history)
<1>2. n \in Nat /\ DOMAIN history = 1..n /\ MaxSwaps \in Nat /\ n <= MaxSwaps
  BY HistoryIs
<1>3. depth \in Nat \ {0}
  BY ServerBounds
<1>4. UNION known \subseteq 1..n /\ (~cut => Whole(UNION known))
  <2>1. AtMostOne(known) /\ \A txs \in known : KnownOf(txs, 1..n, cut)
    BY <1>2, KnownIs DEF AtMostOne, KnownOf
  <2>2. KnownOf(UNION known, 1..n, cut)
    BY <2>1, UnionIs
  <2> QED
    BY <2>2 DEF KnownOf
<1>5. /\ DOMAIN p = FetchFields /\ p.pc = "page" /\ p.depth = depth /\ p.known = known /\ p.got = {}
      /\ p.before = MaxSwaps + 1 /\ p.due = n
  BY DEF FetchFields
<1>6. worker' = [worker EXCEPT ![w] = p]
  BY <1>1
<1> HIDE DEF p
<1>7. OldSignatures(p) = UNION known
  BY <1>5 DEF OldSignatures
<1>8. Cardinality(p.got) < p.depth
  <2>1. Cardinality(p.got) = 0
    BY <1>5, FS_EmptySet
  <2> QED
    BY <1>3, <1>5, <2>1
<1>9. Block(p, n)
  BY <1>5 DEF Block
<1>10. ASSUME NEW k \in OldSignatures(p) PROVE k < p.before
  <2>1. k \in 1..n /\ p.before = MaxSwaps + 1
    BY <1>4, <1>5, <1>7, <1>10
  <2> QED
    BY <1>2, <2>1
<1>11. FetchOk(p, n, cut)
  BY <1>2, <1>3, <1>4, <1>5, <1>7, <1>8, <1>9, <1>10 DEF FetchOk
<1>12. worker[w].pc = "idle"
  BY DEF Begin
<1> QED
  BY <1>5, <1>6, <1>11, <1>12

LEMMA TradesKeepServer ==
  ASSUME ServerInv, WalletTrades
  PROVE  ServerInv'
<1> DEFINE n == Len(history)
<1>1. n \in Nat /\ DOMAIN history = 1..n /\ MaxSwaps \in Nat /\ n <= MaxSwaps
  BY HistoryIs DEF ServerInv
<1>2. PICK e \in Swaps : Len(history) < MaxSwaps /\ history' = Append(history, e)
  BY DEF WalletTrades, LedgerNext, Swap
<1>3. /\ HistoryOfSwaps' /\ Len(history') = n + 1 /\ DOMAIN history' = 1..(n + 1)
  BY <1>2 DEF ServerInv, HistoryInv, HistoryOfSwaps
<1>4. HistoryInv'
  BY <1>1, <1>2, <1>3 DEF HistoryInv
<1>5. UNCHANGED <<cache, pipeline, worker, minted, issued, overlapped, cut, spent>>
  BY DEF WalletTrades, ghosts
<1>6. WorkersOk'
  <2>1. WorkersAre(worker, n, cut)
    BY DEF ServerInv, WorkersOk
  <2>2. WorkersAre(worker, n + 1, cut)
    BY <1>1, <2>1, WorkersEndure
  <2> QED
    BY <1>3, <1>5, <2>2 DEF WorkersOk
<1>7. CachesOk'
  BY <1>1, <1>3, <1>5 DEF ServerInv, CachesOk
<1>8. Alone' /\ AnswersAreFresh' /\ AnchorsAreClosed'
  BY <1>5 DEF ServerInv, Alone, AnswersAreFresh, AnchorsAreClosed
<1> QED
  BY <1>4, <1>6, <1>7, <1>8 DEF ServerInv

LEMMA AskKeepsServer ==
  ASSUME ServerInv, NEW r \in Requests, Ask(r)
  PROVE  ServerInv'
<1>1. HistoryInv /\ WorkersOk /\ CachesOk /\ Alone /\ r \in Workers
  BY KindsApart DEF ServerInv
<1>2. /\ Begin(r, Known) /\ cache' = [cache EXCEPT !.memory = Known]
      /\ overlapped' = (overlapped \/ \E q \in Requests : worker[q].pc # "idle")
      /\ UNCHANGED <<history, pipeline, minted, issued, cut>>
  BY DEF Ask, Begin
<1>3. PICK p : /\ worker' = [worker EXCEPT ![r] = p]
               /\ p.pc = "page" /\ p.known = Known
               /\ FetchOk(p, Len(history), cut)
  BY <1>1, <1>2, FetchBegins
<1>4. WorkersAre(worker, Len(history), cut) /\ RequestOk(p, Len(history), cut) /\ r \notin SingleTools
  BY <1>1, <1>3, KindsApart DEF WorkersOk, RequestOk, Fetching
<1>5. WorkersOk'
  <2>1. WorkersAre([worker EXCEPT ![r] = p], Len(history), cut)
    BY <1>1, <1>4, WorkerMoves
  <2> QED
    BY <1>2, <1>3, <2>1 DEF WorkersOk
<1>6. /\ DOMAIN cache' = {"memory", "disk"} /\ cache'.memory = Known /\ cache'.disk = cache.disk
  BY <1>1, <1>2 DEF CachesOk
<1>7. cache.memory # {} => Known = cache.memory
  BY DEF Known
<1>8. CachesOk'
  BY <1>1, <1>2, <1>6, <1>7, KnownIs DEF CachesOk, AtMostOne
<1>9. Alone'
  <2> SUFFICES ASSUME ~overlapped'
               PROVE  /\ \A a, b \in Requests : worker'[a].pc # "idle" /\ worker'[b].pc # "idle" => a = b
                      /\ \A a \in Requests : worker'[a].pc \in Fetching => worker'[a].known = cache'.memory
                      /\ \A o \in pipeline' : cache'.memory = {o.txs}
    BY DEF Alone
  <2>1. ~overlapped /\ \A q \in Requests : worker[q].pc = "idle"
    BY <1>2
  <2>2. DOMAIN worker = Workers /\ Requests \subseteq Workers
    BY <1>4, KindsApart DEF WorkersAre
  <2>3. \A q \in Requests : worker'[q] = IF q = r THEN p ELSE worker[q]
    BY <1>3, <2>2
  <2>4. \A o \in pipeline' : cache'.memory = {o.txs}
    BY <1>1, <1>2, <1>6, <1>7, <2>1 DEF Alone, CachesOk
  <2> QED
    BY <1>3, <1>6, <2>1, <2>3, <2>4 DEF Fetching
<1>10. HistoryInv' /\ AnswersAreFresh' /\ AnchorsAreClosed'
  BY <1>1, <1>2 DEF ServerInv, HistoryInv, HistoryOfSwaps, AnswersAreFresh, AnchorsAreClosed
<1> QED
  BY <1>5, <1>8, <1>9, <1>10 DEF ServerInv

LEMMA StartKeepsServer ==
  ASSUME ServerInv, NEW t \in SingleTools, StartTool(t)
  PROVE  ServerInv'
<1>1. HistoryInv /\ WorkersOk /\ CachesOk /\ Alone /\ t \in Workers /\ t \notin Requests
  BY KindsApart DEF ServerInv
<1>2. /\ Begin(t, {})
      /\ UNCHANGED <<history, cache, overlapped, pipeline, minted, issued, cut>>
  BY DEF StartTool, Begin
<1>3. PICK p : /\ worker' = [worker EXCEPT ![t] = p]
               /\ p.pc = "page" /\ p.known = {}
               /\ FetchOk(p, Len(history), cut)
  BY <1>1, <1>2, FetchBegins
<1>4. WorkersAre(worker, Len(history), cut) /\ SingleToolOk(p, Len(history), cut)
  BY <1>1, <1>3 DEF WorkersOk, SingleToolOk, Fetching
<1>5. WorkersOk'
  <2>1. WorkersAre([worker EXCEPT ![t] = p], Len(history), cut)
    BY <1>1, <1>4, WorkerMoves
  <2> QED
    BY <1>2, <1>3, <2>1 DEF WorkersOk
<1>6. \A q \in Requests : worker'[q] = worker[q]
  BY <1>1, <1>3
<1>7. CachesOk' /\ Alone' /\ HistoryInv' /\ AnswersAreFresh' /\ AnchorsAreClosed'
  BY <1>1, <1>2, <1>6
     DEF ServerInv, CachesOk, Alone, HistoryInv, HistoryOfSwaps, AnswersAreFresh, AnchorsAreClosed
<1> QED
  BY <1>5, <1>7 DEF ServerInv

(* A fetch that goes on leaves all else alone.                             *)
LEMMA FetchGoesOn ==
  ASSUME ServerInv, NEW w \in Workers, worker[w].pc \in Fetching, NEW p,
         worker' = [worker EXCEPT ![w] = p], p.pc \in Fetching, p.known = worker[w].known,
         FetchOk(p, Len(history), cut),
         UNCHANGED <<history, cache, pipeline, minted, issued, overlapped, cut>>
  PROVE  ServerInv'
<1>1. HistoryInv /\ WorkersOk /\ CachesOk /\ Alone /\ WorkersAre(worker, Len(history), cut)
  BY DEF ServerInv, WorkersOk
<1>2. w \in Requests => RequestOk(p, Len(history), cut)
  BY DEF RequestOk
<1>3. w \in SingleTools => SingleToolOk(p, Len(history), cut)
  BY <1>1, KindsApart DEF SingleToolOk, WorkersAre
<1>4. WorkersOk'
  <2>1. WorkersAre([worker EXCEPT ![w] = p], Len(history), cut)
    BY <1>1, <1>2, <1>3, WorkerMoves
  <2> QED
    BY <2>1 DEF WorkersOk
<1>5. DOMAIN worker = Workers /\ Requests \subseteq Workers
  BY <1>1, KindsApart DEF WorkersAre
<1>6. \A q \in Requests : /\ worker'[q].known = worker[q].known \/ q # w
                          /\ worker'[q] = worker[q] \/ q = w
                          /\ worker'[q].pc \in Fetching <=> worker[q].pc \in Fetching
                          /\ worker'[q].pc # "idle" => worker[q].pc # "idle"
  BY <1>5 DEF Fetching
<1>7. Alone'
  BY <1>1, <1>6 DEF Alone
<1>8. CachesOk' /\ HistoryInv' /\ AnswersAreFresh' /\ AnchorsAreClosed'
  BY <1>1 DEF ServerInv, CachesOk, HistoryInv, HistoryOfSwaps, AnswersAreFresh, AnchorsAreClosed
<1> QED
  BY <1>4, <1>7, <1>8 DEF ServerInv

LEMMA FetcherIsOk ==
  ASSUME ServerInv, NEW w \in Workers, worker[w].pc \in Fetching
  PROVE  /\ FetchOk(worker[w], Len(history), cut) /\ DOMAIN worker[w] = FetchFields
         /\ w \in SingleTools => worker[w].known = {}
<1>1. WorkersAre(worker, Len(history), cut)
  BY DEF ServerInv, WorkersOk
<1>2. CASE w \in Requests
  BY <1>1, <1>2, KindsApart DEF WorkersAre, FetchOk
<1>3. CASE w \in SingleTools
  BY <1>1, <1>3, KindsApart DEF WorkersAre, FetchOk
<1> QED
  BY <1>2, <1>3, KindsApart

LEMMA PagesKeepServer ==
  ASSUME ServerInv, NEW w \in Workers, Respond(w) \/ NextPage(w)
  PROVE  ServerInv'
<1>1. worker[w].pc \in Fetching
  BY DEF Respond, NextPage, Fetching
<1>2. HistoryInv /\ FetchOk(worker[w], Len(history), cut) /\ DOMAIN worker[w] = FetchFields
  BY <1>1, FetcherIsOk DEF ServerInv
<1>3. UNCHANGED <<history, cache, pipeline, minted, issued, overlapped, cut>>
  BY DEF Respond, NextPage, ghosts
<1>4. CASE Respond(w)
  <2> DEFINE q == [worker[w] EXCEPT !.pc = "sent", !.page = NewestPage(worker[w])]
  <2>1. FetchOk(q, Len(history), cut)
    BY <1>2, ResponseIsOk
  <2>2. q.pc \in Fetching /\ q.known = worker[w].known
    BY <1>2 DEF FetchFields, Fetching
  <2>3. worker' = [worker EXCEPT ![w] = q]
    BY <1>4 DEF Respond
  <2> HIDE DEF q
  <2> QED
    BY <1>1, <1>3, <2>1, <2>2, <2>3, FetchGoesOn
<1>5. CASE NextPage(w)
  <2> DEFINE p == worker[w]
             q == [p EXCEPT !.pc = "page", !.page = {}, !.got = @ \cup p.page, !.before = Min(p.page)]
  <2>1. p.pc = "sent" /\ ~LastPage(p) /\ ~Capped(p) /\ worker' = [worker EXCEPT ![w] = q]
    BY <1>5 DEF NextPage
  <2>2. FetchOk(q, Len(history), cut)
    BY <1>2, <2>1, NextPageIsOk
  <2>3. q.pc \in Fetching /\ q.known = worker[w].known
    BY <1>2 DEF FetchFields, Fetching
  <2> HIDE DEF q
  <2> QED
    BY <1>1, <1>3, <2>1, <2>2, <2>3, FetchGoesOn
<1> QED
  BY <1>4, <1>5

LEMMA RestartKeepsServer ==
  ASSUME ServerInv, Restart
  PROVE  ServerInv'
<1>1. HistoryInv /\ WorkersOk /\ CachesOk /\ WorkersAre(worker, Len(history), cut)
  BY DEF ServerInv, WorkersOk
<1>2. /\ worker' = [w \in Workers |-> IF w \in Requests THEN Quiet ELSE worker[w]]
      /\ cache' = [cache EXCEPT !.memory = {}] /\ pipeline' = {} /\ overlapped' = FALSE
      /\ UNCHANGED <<history, minted, issued, cut>>
  BY DEF Restart
<1>3. WorkersOk'
  <2>1. \A r \in Requests : RequestOk(Quiet, Len(history), cut) /\ worker'[r] = Quiet
    BY <1>2, KindsApart DEF RequestOk
  <2>2. \A t \in SingleTools : worker'[t] = worker[t]
    BY <1>2, KindsApart
  <2>3. WorkersAre(worker', Len(history), cut)
    BY <1>1, <1>2, <2>1, <2>2 DEF WorkersAre
  <2> QED
    BY <1>2, <2>3 DEF WorkersOk
<1>4. /\ DOMAIN cache' = {"memory", "disk"} /\ cache'.memory = {} /\ cache'.disk = cache.disk
  BY <1>1, <1>2 DEF CachesOk
<1>5. CachesOk'
  BY <1>1, <1>2, <1>4 DEF CachesOk, AtMostOne
<1>6. Alone'
  <2>1. \A r \in Requests : worker'[r].pc = "idle"
    BY <1>2, KindsApart DEF Quiet
  <2> QED
    BY <1>2, <2>1 DEF Alone, Fetching
<1>7. HistoryInv' /\ AnswersAreFresh' /\ AnchorsAreClosed'
  BY <1>1, <1>2 DEF ServerInv, HistoryInv, HistoryOfSwaps, AnswersAreFresh, AnchorsAreClosed
<1> QED
  BY <1>3, <1>5, <1>6, <1>7 DEF ServerInv

(* What is answered from every trade made before it was asked for is fresh.*)
LEMMA IssuedAreFresh ==
  ASSUME NEW p, NEW options, NEW txs, NEW rates, NEW due, 1..due \subseteq txs
  PROVE  \A x \in Issued(p, options, txs, rates, due) : x.fresh
<1> SUFFICES ASSUME NEW r \in options, NEW closed,
                    NEW x, x = [receipt |-> r, closed |-> closed, fresh |-> 1..due \subseteq txs, rates |-> rates, due |-> due]
             PROVE  x.fresh
  BY DEF Issued
<1>1. (1..due \subseteq txs) = TRUE
  OBVIOUS
<1>2. x.fresh = (1..due \subseteq txs)
  BY Zenon
<1> QED
  BY <1>1, <1>2

LEMMA AnswerIsFresh ==
  ASSUME AnswersAreFresh, NEW positions, NEW txs, NEW rates, NEW due, 1..due \subseteq txs,
         Answer(positions, txs, rates, due)
  PROVE  AnswersAreFresh'
BY IssuedAreFresh DEF Answer, AnswersAreFresh

(* The object a request goes on with is of the transactions it has, unless *)
(* requests overlap.                                                       *)
LEMMA ObjectIs ==
  ASSUME ServerInv, NEW r \in Requests, worker[r].pc \in Fetching, NEW got, NEW all,
         all = OldSignatures(worker[r]) \cup got
  PROVE  /\ AtMostOne(Reprocessed(got, all))
         /\ \A o \in Reprocessed(got, all) : DOMAIN o = {"txs", "positions"}
         /\ ~overlapped => \A o \in Reprocessed(got, all) : o.txs = all
         /\ ~overlapped /\ all = {} => \A o \in pipeline : o.txs = all
<1>1. CachesOk /\ Alone
  BY DEF ServerInv
<1>2. ASSUME ~overlapped, NEW o \in pipeline PROVE OldSignatures(worker[r]) = o.txs
  BY <1>1, <1>2 DEF Alone, OldSignatures
<1>3. CASE Kept(got) # {}
  <2>1. got = {} /\ Kept(got) = pipeline
    BY <1>3 DEF Kept
  <2>2. Reprocessed(got, all) = pipeline /\ all = OldSignatures(worker[r])
    BY <1>3, <2>1 DEF Reprocessed
  <2>3. AtMostOne(pipeline) /\ \A o \in pipeline : DOMAIN o = {"txs", "positions"}
    BY <1>1 DEF CachesOk
  <2>4. AtMostOne(Reprocessed(got, all)) /\ \A o \in Reprocessed(got, all) : DOMAIN o = {"txs", "positions"}
    BY <2>2, <2>3, Zenon
  <2>5. ~overlapped => \A o \in pipeline : o.txs = all
    BY <1>2, <2>2, Zenon
  <2> QED
    BY <2>2, <2>4, <2>5, Zenon
<1>4. CASE Kept(got) = {}
  <2>1. \A o \in Reprocessed(got, all) : o = [txs |-> all, positions |-> <<>>]
    BY <1>4 DEF Reprocessed
  <2>2. ~overlapped /\ all = {} => \A o \in pipeline : o.txs = all
    BY <1>2
  <2>3. AtMostOne(Reprocessed(got, all))
    BY <2>1 DEF AtMostOne
  <2>4. \A o \in Reprocessed(got, all) : o.txs = all /\ DOMAIN o = {"txs", "positions"}
    <3> SUFFICES ASSUME NEW o, o = [txs |-> all, positions |-> <<>>] PROVE o.txs = all /\ DOMAIN o = {"txs", "positions"}
      BY <2>1
    <3> QED
      OBVIOUS
  <2> QED
    BY <2>2, <2>3, <2>4, Zenon
<1> QED
  BY <1>3, <1>4

LEMMA PipelineKeepsServer ==
  ASSUME ServerInv, NEW r \in Requests, RunPipeline(r)
  PROVE  ServerInv'
<1> DEFINE p == worker[r]
           n == Len(history)
<1>1. PICK end \in Ends(p), saved \in BOOLEAN :
        LET all == OldSignatures(p) \cup end.got
            object == Reprocessed(end.got, all)
            window == p.window
            due == IF overlapped \/ cut \/ ~end.whole THEN 0 ELSE p.due
        IN  /\ Mishaps(end.failed + IF saved THEN 0 ELSE 1)
            /\ cache' = [memory |-> {all}, disk |-> IF saved THEN {all} ELSE cache.disk]
            /\ cut' = (cut \/ ~end.whole)
            /\ pipeline' = IF all = {} THEN pipeline ELSE object
            /\ \/ /\ all = {} \/ object = {}
                  /\ worker' = [(IF all = {} THEN worker ELSE Superseded(end.got)) EXCEPT ![r] = Quiet]
                  /\ UNCHANGED issued
               \/ \E o \in object :
                  /\ all # {}
                  /\ IF window \in DOMAIN o.positions
                     THEN /\ worker' = [Superseded(end.got) EXCEPT ![r] = Quiet]
                          /\ Answer(o.positions[window][1], o.txs, o.positions[window][2], due)
                     ELSE /\ worker' = [Superseded(end.got) EXCEPT ![r] =
                                 [pc |-> "rates", window |-> window, txs |-> o.txs, held |-> TRUE, due |-> due]]
                          /\ UNCHANGED issued
            /\ UNCHANGED <<history, minted, overlapped>>
  BY DEF RunPipeline
<1> DEFINE all == OldSignatures(p) \cup end.got
           object == Reprocessed(end.got, all)
           due == IF overlapped \/ cut \/ ~end.whole THEN 0 ELSE p.due
<1>2. p.pc \in Fetching /\ r \in Workers /\ r \notin SingleTools
  BY KindsApart DEF Ends, Fetching
<1>3. HistoryInv /\ WorkersOk /\ CachesOk /\ Alone /\ AnswersAreFresh /\ AnchorsAreClosed /\ n \in Nat
  BY HistoryIs DEF ServerInv
<1>4. FetchOk(p, n, cut)
  BY <1>2, FetcherIsOk
<1>5. /\ all \subseteq DOMAIN history /\ end.whole \in BOOLEAN
      /\ end.whole /\ ~cut => Whole(all) /\ 1..p.due \subseteq all
  <2>1. ~cut => Whole(OldSignatures(p))
    BY <1>4 DEF FetchOk
  <2> QED
    BY <1>1, <1>3, <1>4, <2>1, FetchEnds
<1>6. /\ AtMostOne(object) /\ \A o \in object : DOMAIN o = {"txs", "positions"}
      /\ ~overlapped => \A o \in object : o.txs = all
      /\ ~overlapped /\ all = {} => \A o \in pipeline : o.txs = all
  BY <1>1, <1>2, ObjectIs
<1>7. \A o \in object : 1..due \subseteq o.txs
  BY <1>5, <1>6
<1>8. /\ cut' = (cut \/ ~end.whole) /\ UNCHANGED <<history, minted, overlapped>>
      /\ pipeline' = (IF all = {} THEN pipeline ELSE object)
      /\ cache' = [memory |-> {all}, disk |-> IF saved THEN {all} ELSE cache.disk]
  BY <1>1
<1> DEFINE Turns(base, q) ==
             /\ base \in {worker, Superseded(end.got)}
             /\ worker' = [base EXCEPT ![r] = q]
             /\ q = Quiet \/ (q.pc = "rates" /\ RatesOk(q))
<1>9. \E base, q : Turns(base, q)
  <2>1. CASE worker' = [(IF all = {} THEN worker ELSE Superseded(end.got)) EXCEPT ![r] = Quiet]
    <3>1. Turns(IF all = {} THEN worker ELSE Superseded(end.got), Quiet)
      BY <2>1
    <3> HIDE DEF Turns
    <3> QED
      BY <3>1, Zenon
  <2>2. CASE \E o \in object : worker' = [Superseded(end.got) EXCEPT ![r] = Quiet]
    <3>1. Turns(Superseded(end.got), Quiet)
      BY <2>2
    <3> HIDE DEF Turns
    <3> QED
      BY <3>1, Zenon
  <2>3. ASSUME NEW o \in object, NEW q,
               q = [pc |-> "rates", window |-> p.window, txs |-> o.txs, held |-> TRUE, due |-> due],
               worker' = [Superseded(end.got) EXCEPT ![r] = q]
        PROVE  \E base, x : Turns(base, x)
    <3>1. q.pc = "rates" /\ RatesOk(q)
      BY <1>7, <2>3 DEF RatesOk
    <3>2. Turns(Superseded(end.got), q)
      BY <2>3, <3>1
    <3> HIDE DEF Turns
    <3> QED
      BY <3>2, Zenon
  <2> HIDE DEF Turns
  <2> QED
    BY <1>1, <2>1, <2>2, <2>3
<1>10. PICK base, q : Turns(base, q)
  BY <1>9, Zenon
<1>11. /\ WorkersAre(base, n, cut')
       /\ \A w \in Workers : base[w].pc = worker[w].pc
  <2>1. WorkersAre(worker, n, cut')
    <3>1. WorkersAre(worker, n, cut)
      BY <1>3 DEF WorkersOk
    <3>2. cut => cut'
      BY <1>8, Zenon
    <3>3. n <= n
      BY <1>3
    <3> QED
      BY <1>3, <3>1, <3>2, <3>3, WorkersEndure
  <2> QED
    BY <1>10, <2>1, SupersededAre
<1>12. RequestOk(q, n, cut')
  BY <1>10 DEF RequestOk
<1>13. WorkersOk'
  <2>1. WorkersAre([base EXCEPT ![r] = q], n, cut')
    BY <1>2, <1>11, <1>12, WorkerMoves
  <2> QED
    BY <1>8, <1>10, <2>1 DEF WorkersOk
<1>14. CachesOk'
  BY <1>3, <1>5, <1>6, <1>8 DEF CachesOk, AtMostOne
<1>15. Alone'
  <2> SUFFICES ASSUME ~overlapped
               PROVE  /\ \A a, b \in Requests : worker'[a].pc # "idle" /\ worker'[b].pc # "idle" => a = b
                      /\ \A a \in Requests : worker'[a].pc \in Fetching => worker'[a].known = cache'.memory
                      /\ \A o \in pipeline' : cache'.memory = {o.txs}
    BY <1>8 DEF Alone
  <2>1. \A a \in Requests : a # r => worker[a].pc = "idle"
    BY <1>2, <1>3 DEF Alone, Fetching
  <2>2. DOMAIN base = Workers /\ Requests \subseteq Workers
    BY <1>11, KindsApart DEF WorkersAre
  <2>3. \A a \in Requests : worker'[a] = IF a = r THEN q ELSE base[a]
    BY <1>10, <2>2
  <2>4. \A a \in Requests : a # r => worker'[a].pc = "idle"
    BY <1>11, <2>1, <2>2, <2>3
  <2>5. worker'[r].pc \notin Fetching
    BY <1>10, <2>3 DEF Quiet, Fetching
  <2>6. \A o \in pipeline' : cache'.memory = {o.txs}
    BY <1>6, <1>8
  <2> QED
    BY <2>4, <2>5, <2>6 DEF Fetching
<1>16. AnswersAreFresh'
  <2>1. CASE UNCHANGED issued
    BY <1>3, <2>1 DEF AnswersAreFresh
  <2>2. ASSUME NEW o \in object, Answer(o.positions[p.window][1], o.txs, o.positions[p.window][2], due)
        PROVE  AnswersAreFresh'
    BY <1>3, <1>7, <2>2, AnswerIsFresh
  <2> QED
    BY <1>1, <2>1, <2>2
<1>17. HistoryInv' /\ AnchorsAreClosed'
  BY <1>3, <1>8 DEF HistoryInv, HistoryOfSwaps, AnchorsAreClosed
<1> QED
  BY <1>13, <1>14, <1>15, <1>16, <1>17 DEF ServerInv

LEMMA NormalizeKeepsServer ==
  ASSUME ServerInv, NEW r \in Requests, Normalize(r)
  PROVE  ServerInv'
<1> DEFINE p == worker[r]
           n == Len(history)
<1>1. PICK positions, rates :
         /\ pipeline' = IF ~p.held THEN pipeline
                        ELSE {[o EXCEPT !.positions = (p.window :> <<positions, rates>>) @@ @] : o \in pipeline}
         /\ Answer(positions, p.txs, rates, p.due)
  BY DEF Normalize
<1>2. /\ p.pc = "rates" /\ worker' = [worker EXCEPT ![r] = Quiet]
      /\ UNCHANGED <<history, cache, minted, overlapped, cut>>
  BY DEF Normalize
<1>3. /\ HistoryInv /\ WorkersAre(worker, n, cut) /\ CachesOk /\ Alone /\ AnswersAreFresh /\ AnchorsAreClosed
      /\ r \in Workers
  BY KindsApart DEF ServerInv, WorkersOk
<1>4. 1..p.due \subseteq p.txs
  BY <1>2, <1>3, KindsApart DEF WorkersAre, RatesOk
<1>5. WorkersOk'
  <2>1. WorkersAre([worker EXCEPT ![r] = Quiet], n, cut)
    BY <1>3, WorkerRests
  <2> QED
    BY <1>2, <2>1 DEF WorkersOk
<1>6. AtMostOne(pipeline')
  BY <1>1, <1>3 DEF CachesOk, AtMostOne
<1>7. \A o \in pipeline' : DOMAIN o = {"txs", "positions"} /\ \E x \in pipeline : o.txs = x.txs
  BY <1>1, <1>3 DEF CachesOk
<1>8. CachesOk'
  BY <1>2, <1>3, <1>6, <1>7 DEF CachesOk
<1>9. \A q \in Requests : worker'[q] = IF q = r THEN Quiet ELSE worker[q]
  BY <1>2, <1>3, KindsApart DEF WorkersAre
<1>10. Alone'
  BY <1>2, <1>3, <1>7, <1>9 DEF Alone, Quiet, Fetching
<1>11. AnswersAreFresh'
  BY <1>1, <1>3, <1>4, AnswerIsFresh
<1>12. HistoryInv' /\ AnchorsAreClosed'
  BY <1>2, <1>3 DEF HistoryInv, HistoryOfSwaps, AnchorsAreClosed
<1> QED
  BY <1>5, <1>8, <1>10, <1>11, <1>12 DEF ServerInv

(* A step of a tool leaves the server alone.                               *)
LEMMA ToolMoves ==
  ASSUME ServerInv, NEW t \in SingleTools, NEW p, worker' = [worker EXCEPT ![t] = p],
         SingleToolOk(p, Len(history), cut), AnswersAreFresh', AnchorsAreClosed',
         UNCHANGED <<history, cache, pipeline, overlapped, cut>>
  PROVE  ServerInv'
<1>1. HistoryInv /\ WorkersAre(worker, Len(history), cut) /\ CachesOk /\ Alone /\ t \in Workers /\ t \notin Requests
  BY KindsApart DEF ServerInv, WorkersOk
<1>2. WorkersOk'
  <2>1. WorkersAre([worker EXCEPT ![t] = p], Len(history), cut)
    BY <1>1, WorkerMoves
  <2> QED
    BY <2>1 DEF WorkersOk
<1>3. \A q \in Requests : worker'[q] = worker[q]
  BY <1>1
<1>4. CachesOk' /\ Alone' /\ HistoryInv'
  BY <1>1, <1>3 DEF CachesOk, Alone, HistoryInv, HistoryOfSwaps
<1> QED
  BY <1>2, <1>4 DEF ServerInv

(* The fetch of a tool that ends with all of the pages has every trade made*)
(* before it began.                                                        *)
LEMMA ToolFetches ==
  ASSUME ServerInv, NEW t \in SingleTools, NEW end \in Ends(worker[t])
  PROVE  1..(IF end.whole THEN worker[t].due ELSE 0) \subseteq end.got
<1> DEFINE p == worker[t]
<1>1. p.pc \in Fetching /\ t \in Workers /\ HistoryInv
  BY KindsApart DEF Ends, Fetching, ServerInv
<1>2. FetchOk(p, Len(history), cut) /\ p.known = {}
  BY <1>1, FetcherIsOk
<1>3. OldSignatures(p) = {}
  BY <1>2 DEF OldSignatures
<1>4. Whole(OldSignatures(p))
  BY <1>3, WholeIs
<1>5. end.whole \in BOOLEAN /\ (end.whole => 1..p.due \subseteq end.got)
  BY <1>1, <1>2, <1>3, <1>4, FetchEnds
<1> QED
  BY <1>5

LEMMA RebuildKeepsServer ==
  ASSUME ServerInv, NEW t \in SingleTools, RebuildPosition(t)
  PROVE  ServerInv'
<1>1. PICK end, positions :
         /\ end \in Ends(worker[t])
         /\ \/ UNCHANGED issued
            \/ issued' = issued \cup UNION {Issued(p, PositionReceipt(p, Raw), end.got, Raw,
                                                   IF end.whole THEN worker[t].due ELSE 0) : p \in positions}
  BY DEF RebuildPosition
<1>2. /\ worker' = [worker EXCEPT ![t] = Quiet]
      /\ UNCHANGED <<history, cache, pipeline, minted, overlapped, cut>>
  BY DEF RebuildPosition
<1>3. 1..(IF end.whole THEN worker[t].due ELSE 0) \subseteq end.got
  BY <1>1, ToolFetches
<1>4. AnswersAreFresh'
  BY <1>1, <1>3, IssuedAreFresh DEF ServerInv, AnswersAreFresh
<1>5. AnchorsAreClosed' /\ SingleToolOk(Quiet, Len(history), cut)
  BY <1>2 DEF ServerInv, AnchorsAreClosed, SingleToolOk
<1> QED
  BY <1>2, <1>4, <1>5, ToolMoves

(* The receipt of a position is verified and of all its legs; a custom one *)
(* never has the status of a verified one.                                 *)
LEMMA ReceiptKinds ==
  ASSUME NEW p, NEW rates
  PROVE  /\ \A r \in PositionReceipt(p, rates) : r.type = "verified" /\ r.exits = p.exits
         /\ \A removed : \A r \in CustomReceipt(p, removed, rates) : r.status # "verified"
<1>1. \A r \in PositionReceipt(p, rates) : r.type = "verified" /\ r.exits = p.exits
  BY DEF PositionReceipt
<1>2. \A legs : StatusOf("custom", legs) # "verified"
  BY DEF StatusOf
<1>3. ASSUME NEW removed, NEW r \in CustomReceipt(p, removed, rates) PROVE r.status # "verified"
  <2> DEFINE entries == p.entries \ removed
             exits == p.exits \ removed
             entry == Average(entries, Raw)
             exit == Average(exits, Raw)
             made(base) == [type |-> "custom", position |-> <<p.id, removed>>, base |-> base.hash, entries |-> entries,
                            exits |-> exits, entry |-> entry, exit |-> exit,
                            status |-> StatusOf("custom", entries \cup exits),
                            warnings |-> Warnings(entry, exit, exits), hash |-> <<>>]
  <2>1. PICK base, hash : r = [made(base) EXCEPT !.hash = hash]
    BY DEF CustomReceipt
  <2>2. r.status = StatusOf("custom", entries \cup exits)
    BY <2>1
  <2> QED
    BY <1>2, <2>2
<1> QED
  BY <1>1, <1>3

LEMMA MintOneKeepsServer ==
  ASSUME ServerInv, NEW t \in SingleTools, MintOne(t)
  PROVE  ServerInv'
<1>1. PICK end \in Ends(worker[t]) :
        LET positions == PositionsOf(end.got, worker[t].window)
            due == IF end.whole THEN worker[t].due ELSE 0
        IN  /\ Mishaps(end.failed)
            /\ \/ /\ worker' = [worker EXCEPT ![t] = Quiet]
                  /\ UNCHANGED issued
               \/ \E p \in positions, rates \in RatesFor(positions) :
                  \E options \in {PositionReceipt(p, rates)} \cup {CustomReceipt(p, removed, rates) : removed \in Removals(p)} :
                  \E one \in Issued(p, options, end.got, rates, due) :
                     /\ MintOneAccepts(p)
                     /\ issued' = issued \cup {x \in {one} : options = PositionReceipt(p, rates)}
                     /\ worker' = [worker EXCEPT ![t] = [pc |-> "selected", one |-> one]]
            /\ UNCHANGED <<history, cache, pipeline, minted, overlapped, cut>>
  BY DEF MintOne
<1>2. UNCHANGED <<history, cache, pipeline, minted, overlapped, cut>>
  BY DEF MintOne
<1>3. 1..(IF end.whole THEN worker[t].due ELSE 0) \subseteq end.got
  BY ToolFetches
<1>4. AnchorsAreClosed' /\ AnswersAreFresh /\ SingleToolOk(Quiet, Len(history), cut)
  BY <1>2 DEF ServerInv, AnchorsAreClosed, SingleToolOk
<1>5. CASE worker' = [worker EXCEPT ![t] = Quiet] /\ UNCHANGED issued
  <2>1. AnswersAreFresh'
    BY <1>4, <1>5 DEF AnswersAreFresh
  <2> QED
    BY <1>2, <1>4, <1>5, <2>1, ToolMoves
<1>6. ASSUME NEW p, NEW rates,
             NEW options \in {PositionReceipt(p, rates)} \cup {CustomReceipt(p, removed, rates) : removed \in Removals(p)},
             NEW one \in Issued(p, options, end.got, rates, IF end.whole THEN worker[t].due ELSE 0),
             MintOneAccepts(p),
             issued' = issued \cup {x \in {one} : options = PositionReceipt(p, rates)},
             worker' = [worker EXCEPT ![t] = [pc |-> "selected", one |-> one]]
      PROVE  ServerInv'
  <2>1. p.exits # {} /\ p.status = "closed"
    BY <1>6 DEF MintOneAccepts
  <2>2. PICK r, fresh, due :
           r \in options /\ one = [receipt |-> r, closed |-> p.status = "closed", fresh |-> fresh, rates |-> rates, due |-> due]
    BY DEF Issued
  <2>3. \/ r.type = "verified" /\ r.exits = p.exits
        \/ r.status # "verified"
    <3>1. CASE options = PositionReceipt(p, rates)
      BY <2>2, <3>1, ReceiptKinds
    <3>2. ASSUME NEW removed, options = CustomReceipt(p, removed, rates) PROVE r.status # "verified"
      BY <2>2, <3>2, ReceiptKinds
    <3> QED
      BY <1>6, <3>1, <3>2
  <2>7. (p.status = "closed") = TRUE
    BY <2>1
  <2>8. one.closed = TRUE /\ one.receipt = r
    BY <2>2, <2>7
  <2>4. OneOk(one)
    BY <2>1, <2>3, <2>8 DEF OneOk, SingleStatusByte
  <2>5. SingleToolOk([pc |-> "selected", one |-> one], Len(history), cut)
    BY <2>4 DEF SingleToolOk
  <2>6. AnswersAreFresh'
    BY <1>3, <1>4, <1>6, IssuedAreFresh DEF AnswersAreFresh
  <2> QED
    BY <1>2, <1>4, <1>6, <2>5, <2>6, ToolMoves
<1> QED
  BY <1>1, <1>5, <1>6

LEMMA MintKeepsServer ==
  ASSUME ServerInv, NEW t \in SingleTools, MintSelected(t)
  PROVE  ServerInv'
<1> DEFINE one == worker[t].one
           anchor == [receipt |-> one.receipt, byte |-> SingleStatusByte(one.receipt), closed |-> one.closed]
<1>1. /\ worker[t].pc = "selected" /\ worker' = [worker EXCEPT ![t] = Quiet]
      /\ UNCHANGED <<history, cache, pipeline, issued, overlapped, cut>>
      /\ \/ UNCHANGED minted
         \/ /\ \A a \in minted : a.receipt.hash # one.receipt.hash
            /\ minted' = minted \cup {anchor}
  BY DEF MintSelected, ghosts
<1>2. WorkersAre(worker, Len(history), cut) /\ AnchorsAreClosed /\ AnswersAreFresh
  BY DEF ServerInv, WorkersOk
<1>3. OneOk(one)
  BY <1>1, <1>2, KindsApart DEF WorkersAre
<1>4. /\ anchor.receipt = one.receipt /\ anchor.closed
      /\ anchor.byte = 0 => anchor.receipt.type = "verified" /\ anchor.receipt.exits # {}
  BY <1>3 DEF OneOk
<1> HIDE DEF anchor
<1>5. AnchorsAreClosed'
  BY <1>1, <1>2, <1>4 DEF AnchorsAreClosed
<1>6. AnswersAreFresh' /\ SingleToolOk(Quiet, Len(history), cut)
  BY <1>1, <1>2 DEF AnswersAreFresh, SingleToolOk
<1> QED
  BY <1>1, <1>5, <1>6, ToolMoves

LEMMA ServerBegins == ServerInit => ServerInv
<1> SUFFICES ASSUME ServerInit PROVE ServerInv
  OBVIOUS
<1>1. /\ history = <<>> /\ cache = [memory |-> {}, disk |-> {}] /\ pipeline = {}
      /\ worker = [w \in Workers |-> Quiet] /\ minted = {} /\ issued = {}
  BY DEF ServerInit, LedgerInit
<1>2. HistoryInv
  BY <1>1, TradeBounds DEF HistoryInv, HistoryOfSwaps
<1>3. WorkersOk
  BY <1>1, KindsApart DEF WorkersOk, WorkersAre, RequestOk, SingleToolOk
<1>4. CachesOk
  BY <1>1 DEF CachesOk, AtMostOne
<1>5. Alone
  <2>1. \A r \in Requests : worker[r].pc = "idle"
    BY <1>1, KindsApart DEF Quiet
  <2> QED
    BY <1>1, <2>1 DEF Alone, Fetching
<1>6. AnswersAreFresh /\ AnchorsAreClosed
  BY <1>1 DEF AnswersAreFresh, AnchorsAreClosed
<1> QED
  BY <1>2, <1>3, <1>4, <1>5, <1>6 DEF ServerInv

LEMMA ServerSteps == ServerInv /\ [ServerNext]_serverVars => ServerInv'
<1> SUFFICES ASSUME ServerInv, [ServerNext]_serverVars PROVE ServerInv'
  OBVIOUS
<1>1. CASE UNCHANGED serverVars
  <2>1. UNCHANGED <<history, cache, pipeline, worker, minted, issued, overlapped, cut>>
    BY <1>1 DEF serverVars, ghosts
  <2> QED
    BY <2>1 DEF ServerInv, HistoryInv, HistoryOfSwaps, WorkersOk, CachesOk, Alone, AnswersAreFresh, AnchorsAreClosed
<1>2. CASE WalletTrades
  BY <1>2, TradesKeepServer
<1>3. ASSUME NEW r \in Requests, Ask(r) \/ RunPipeline(r) \/ Normalize(r) PROVE ServerInv'
  BY <1>3, AskKeepsServer, PipelineKeepsServer, NormalizeKeepsServer
<1>4. ASSUME NEW t \in SingleTools, StartTool(t) \/ RebuildPosition(t) \/ MintOne(t) \/ MintSelected(t)
      PROVE  ServerInv'
  BY <1>4, StartKeepsServer, RebuildKeepsServer, MintOneKeepsServer, MintKeepsServer
<1>5. ASSUME NEW w \in Workers, Respond(w) \/ NextPage(w) PROVE ServerInv'
  BY <1>5, PagesKeepServer
<1>6. CASE Restart
  BY <1>6, RestartKeepsServer
<1> QED
  BY <1>1, <1>2, <1>3, <1>4, <1>5, <1>6 DEF ServerNext

(* What the local server and the tools answer rests on a history without a *)
(* gap, takes in every trade made before it was asked for, and is anchored *)
(* only when closed (api/server.mjs and mint-one.mjs), for any number of   *)
(* requests and tools, however they interleave with trades and failures.   *)
THEOREM ServerAnswersAreRight == ServerSpec => []ServerAnswersHold
<1>1. ServerInv => ServerAnswersHold
  BY DEF ServerInv, CachesOk, ServerAnswersHold, CachesHaveNoGap, Whole
<1> QED
  BY <1>1, ServerBegins, ServerSteps, PTL DEF ServerSpec

-----------------------------------------------------------------------------
(***************************************************************************)
(* What holds of the pipeline, the uploader and the mint submitter over    *)
(* the files they share, for every wallet, every history and any number of *)
(* tools, wherever they are cut off: the records and anchors are of the   *)
(* receipt they name, and what is said of the chain is true.               *)
(***************************************************************************)

(* The parts of a process of run-pipeline that has fetched the history. *)
Loaded == {"pc", "flags", "proofs", "todo", "cycles", "made", "seen"}

(* An uploaded receipt is served. *)
ServedAs(u, served) == [kind |-> "receipt", of |-> u.hash] \in served

(* A mint result that is not a failure has its anchor. *)
Trustworthy(m, chained) == m.outcome # "failed" => \E i \in DOMAIN chained : chained[i].hash = m.hash

(* An upload entry names at most the image and the metadata made of the    *)
(* artifacts it was recorded with, and what it names is hosted.            *)
ImageOf(e) == [kind |-> "image", of |-> e.imageHash]
MetadataOf(e) == [kind |-> "metadata", of |-> FinalMetadata(e.templateHash, ImageOf(e))]

Shown(e, served) ==
  /\ "name" \in DOMAIN e.templateHash /\ e.templateHash.name = e.id
  /\ e.image \subseteq {ImageOf(e)} /\ e.metadata \subseteq {MetadataOf(e)}
  /\ e.image \cup e.metadata \subseteq served

(* A plan that can be minted links what was made of its receipt. *)
Faithful(plan, served) ==
  /\ plan.image = {Image(plan.of)} /\ plan.metadata = {Metadata(plan.of)}
  /\ plan.image \cup plan.metadata \subseteq served

(* A mint that is under way has its token. *)
MadeOk(made, coined, served) ==
  /\ made.mint \in DOMAIN coined /\ coined[made.mint] = made.plan.of
  /\ Faithful(made.plan, served)

(* What a mint result says of its token, and that one there is trusted has one. *)
MintShown(e, coined, served) ==
  /\ \A i \in e.mint : /\ i \in DOMAIN coined /\ e.id = Id(coined[i]) /\ e.hash = coined[i].hash
                       /\ e.image = {Image(coined[i])} /\ e.metadata = {Metadata(coined[i])}
                       /\ e.image \cup e.metadata \subseteq served
  /\ e.status = "minted" => \E i : e.mint = {i}

(* The metadata of an anchor, minted or on its way, is of its hash. *)
Backed(a, served) == \A m \in a.metadata : m.of = a.hash /\ [kind |-> "receipt", of |-> m.of] \in served

(* The parts of an uploader and of a mint submitter. *)
Putting == {"pc", "todo", "made", "seen"}
Minting == {"pc", "todo", "made", "results", "uploads", "known", "done"}

(* A tool's uploads are served, and what it reports is on the chain. *)
ToolOk(p, served, chained) ==
  \/ p.pc = "idle"
  \/ p.pc \in {"put", "write"} /\ DOMAIN p = Putting /\ \A u \in p.made \cup p.seen : ServedAs(u, served)
  \/ /\ p.pc \in {"mint", "send", "append"} /\ DOMAIN p = Minting
     /\ \A u \in p.uploads : ServedAs(u, served)
     /\ \A m \in p.made \cup p.results : Trustworthy(m, chained)

-----------------------------------------------------------------------------

(* run-pipeline: what it is about to record of its uploads is hosted, and  *)
(* the token it is about to record is there.                               *)
RunInv ==
  /\ run.pc \in {"idle", "ingest"} \/ DOMAIN run = Loaded
  /\ run.pc \in {"metadata", "local"} => Image(Head(run.todo)) \in hosted
  /\ run.pc = "local" => Metadata(Head(run.todo)) \in hosted
  /\ run.pc = "minted" => \A made \in run.made : MadeOk(made, tokens, hosted)
  /\ run.pc \in {"put", "write"} => \A u \in run.made \cup run.seen : ServedAs(u, hosted)

UploadInv == \A e \in uploadResults : Shown(e, hosted)

(* The tokens, and what the mint results say of them. *)
TokenInv ==
  /\ tokens \in Seq(Range(tokens))
  /\ \A e \in mintResults : MintShown(e, tokens, hosted)

ToolInv ==
  /\ DOMAIN tool = Tools
  /\ \A t \in Tools : ToolOk(tool[t], hosted, anchors)
  /\ \A u \in uploads : ServedAs(u, hosted)

AnchorInv ==
  /\ anchors \in Seq(Range(anchors))
  /\ AnchorsAreFaithful
  /\ \A m \in anchorResults : Trustworthy(m, anchors)
  /\ \A a \in late : Backed(a, hosted)

PipelineInv == RunInv /\ UploadInv /\ TokenInv /\ ToolInv /\ AnchorInv

(* What is hosted stays hosted, what is minted stays minted. *)
HostedGrows == hosted \subseteq hosted'
TokensGrow == \A i \in DOMAIN tokens : i \in DOMAIN tokens' /\ tokens'[i] = tokens[i]
AnchorsGrow == \A i \in DOMAIN anchors : i \in DOMAIN anchors' /\ anchors'[i] = anchors[i]

-----------------------------------------------------------------------------
(* The pieces.                                                              *)

(* The metadata of a template keeps the name the template gives. *)
LEMMA FinalName ==
  ASSUME NEW template, "name" \in DOMAIN template, NEW image
  PROVE  FinalMetadata(template, image).name = template.name
BY DEF FinalMetadata

(* The entry of an upload names what was made of its receipt. *)
LEMMA EntryShown ==
  ASSUME NEW r, NEW status, NEW served,
         NEW image \in SUBSET {Image(r)}, NEW metadata \in SUBSET {Metadata(r)},
         image \cup metadata \subseteq served
  PROVE  Shown(UploadEntry(r, status, image, metadata), served)
<1> DEFINE e == UploadEntry(r, status, image, metadata)
<1>1. /\ e.id = Id(r) /\ e.imageHash = Svg(Preview(r)) /\ e.templateHash = Template(r)
      /\ e.image = image /\ e.metadata = metadata
  BY DEF UploadEntry, Package
<1>2. "name" \in DOMAIN Template(r) /\ Template(r).name = Id(r)
  BY DEF Template, Scaffold
<1> HIDE DEF e
<1>3. ImageOf(e) = Image(r)
  BY <1>1 DEF ImageOf, Image
<1>4. MetadataOf(e) = Metadata(r)
  BY <1>1, <1>3 DEF MetadataOf, Metadata
<1>5. Shown(e, served)
  BY <1>1, <1>2, <1>3, <1>4 DEF Shown
<1> QED
  BY <1>5 DEF e

(* An append leaves a sequence a sequence, with its elements in place. *)
LEMMA AppendedAtEnd ==
  ASSUME NEW s, s \in Seq(Range(s)), NEW x, NEW z, z = Append(s, x)
  PROVE  /\ z \in Seq(Range(z)) /\ Len(s) + 1 \in DOMAIN z /\ z[Len(s) + 1] = x
         /\ \A i \in DOMAIN s : i \in DOMAIN z /\ z[i] = s[i]
         /\ \A i \in DOMAIN z : i \in DOMAIN s \/ i = Len(s) + 1
<1> DEFINE S == Range(s) \cup {x}
<1>1. s \in Seq(S) /\ x \in S
  OBVIOUS
<1> HIDE DEF S
<1>2. /\ z \in Seq(S) /\ Len(z) = Len(s) + 1
      /\ \A i \in 1..Len(s) : z[i] = s[i]
      /\ z[Len(s) + 1] = x
  BY <1>1, AppendProperties
<1>3. Len(s) \in Nat /\ DOMAIN s = 1..Len(s) /\ DOMAIN z = 1..(Len(s) + 1)
  BY <1>1, <1>2, LenProperties
<1>4. \A i \in DOMAIN z : z[i] \in Range(z)
  BY DEF Range
<1>5. z \in Seq(Range(z))
  BY <1>2, <1>3, <1>4, SeqDef
<1> QED
  BY <1>2, <1>3, <1>5

-----------------------------------------------------------------------------
(* Steps that leave most alone.                                             *)

(* What is served stays served, and what is anchored stays anchored. *)
LEMMA ToolsEndure ==
  ASSUME HostedGrows, AnchorsGrow, NEW p, ToolOk(p, hosted, anchors)
  PROVE  ToolOk(p, hosted', anchors')
BY DEF HostedGrows, AnchorsGrow, ToolOk, ServedAs, Trustworthy

(* What the process of run-pipeline relies on does not go away.            *)
LEMMA RunEndures ==
  ASSUME RunInv, HostedGrows, TokensGrow, run' = run
  PROVE  RunInv'
<1>1. \A made : MadeOk(made, tokens, hosted) => MadeOk(made, tokens', hosted')
  BY DEF TokensGrow, HostedGrows, MadeOk, Faithful
<1> QED
  BY <1>1 DEF RunInv, HostedGrows, ServedAs

(* What the upload entries name stays hosted.                              *)
LEMMA UploadsEndure ==
  ASSUME UploadInv, HostedGrows, uploadResults' = uploadResults
  PROVE  UploadInv'
BY DEF UploadInv, HostedGrows, Shown

(* What the tools rely on does not go away.                                *)
LEMMA ToolsInvEndures ==
  ASSUME ToolInv, HostedGrows, AnchorsGrow, tool' = tool, uploads' = uploads
  PROVE  ToolInv'
<1>1. \A t \in Tools : ToolOk(tool[t], hosted', anchors')
  BY ToolsEndure DEF ToolInv
<1>2. \A u \in uploads : ServedAs(u, hosted')
  BY DEF ToolInv, HostedGrows, ServedAs
<1> QED
  BY <1>1, <1>2 DEF ToolInv

(* The anchors stay faithful while more is hosted.                         *)
LEMMA AnchorsEndure ==
  ASSUME AnchorInv, HostedGrows, anchors' = anchors, anchorResults' = anchorResults, late' = late
  PROVE  AnchorInv'
BY DEF AnchorInv, AnchorsAreFaithful, HostedGrows, Trustworthy, Backed

(* What the mint results say stays so while more is hosted and minted.     *)
LEMMA ResultsEndure ==
  ASSUME TokenInv, HostedGrows, TokensGrow, NEW e \in mintResults
  PROVE  MintShown(e, tokens', hosted')
<1>1. MintShown(e, tokens, hosted)
  BY DEF TokenInv
<1>2. ASSUME NEW i \in e.mint
      PROVE  /\ i \in DOMAIN tokens' /\ e.id = Id(tokens'[i]) /\ e.hash = tokens'[i].hash
             /\ e.image = {Image(tokens'[i])} /\ e.metadata = {Metadata(tokens'[i])}
             /\ e.image \cup e.metadata \subseteq hosted'
  <2>1. i \in DOMAIN tokens' /\ tokens'[i] = tokens[i]
    BY <1>1, <1>2 DEF MintShown, TokensGrow
  <2> QED
    BY <1>1, <1>2, <2>1 DEF MintShown, HostedGrows
<1>3. e.status = "minted" => \E i : e.mint = {i}
  BY <1>1 DEF MintShown
<1> QED
  BY <1>2, <1>3 DEF MintShown

(* The tokens and their records are about nothing else.                    *)
LEMMA TokensEndure ==
  ASSUME TokenInv, HostedGrows, tokens' = tokens, mintResults' = mintResults
  PROVE  TokenInv'
<1>1. TokensGrow
  BY DEF TokensGrow
<1> QED
  BY <1>1, ResultsEndure DEF TokenInv

(* A step of run-pipeline that uploads, mints and records nothing. *)
LEMMA CalmStep ==
  ASSUME PipelineInv,
         UNCHANGED <<tool, uploadResults, mintResults, uploads, anchorResults, chain>>,
         \/ run' = run
         \/ /\ run'.pc \in {"idle", "ingest"} \/ DOMAIN run' = Loaded
            /\ run'.pc \notin {"metadata", "local", "minted"}
            /\ run'.pc \in {"put", "write"} => \A u \in run'.made \cup run'.seen : ServedAs(u, hosted)
  PROVE  PipelineInv'
<1>1. HostedGrows /\ TokensGrow /\ AnchorsGrow
  BY DEF chain, HostedGrows, TokensGrow, AnchorsGrow
<1>2. RunInv /\ UploadInv /\ TokenInv /\ ToolInv /\ AnchorInv
  BY DEF PipelineInv
<1>3. RunInv'
  <2>1. CASE run' = run
    BY <1>1, <1>2, <2>1, RunEndures
  <2>2. CASE run' # run
    BY <2>2 DEF RunInv, chain
  <2> QED
    BY <2>1, <2>2
<1>4. UploadInv' /\ TokenInv' /\ ToolInv' /\ AnchorInv'
  BY <1>1, <1>2, UploadsEndure, TokensEndure, ToolsInvEndures, AnchorsEndure DEF chain
<1> QED
  BY <1>3, <1>4 DEF PipelineInv

(* The steps of run-pipeline between its uploads and its mints. *)
LEMMA CalmSteps ==
  ASSUME PipelineInv,
         \/ Trade \/ Ingest \/ (\E flags \in Invocations : Start(flags))
         \/ SkipUpload \/ UploadsDone \/ NothingToMint \/ WriteManifest
         \/ WriteReceipts \/ Render \/ SignClaims \/ ReadUploads \/ UNCHANGED pipelineVars
  PROVE  PipelineInv'
<1>1. /\ run.pc \notin {"idle", "ingest"} => DOMAIN run = Loaded
      /\ run.pc = "put" => \A u \in run.made : ServedAs(u, hosted)
      /\ \A u \in uploads : ServedAs(u, hosted)
  BY DEF PipelineInv, RunInv, ToolInv
<1>2. CASE Trade \/ UNCHANGED pipelineVars
  BY <1>2, CalmStep DEF Trade, pipelineVars, files, chain
<1>3. CASE \E flags \in Invocations : Start(flags)
  <2>1. /\ run'.pc = "ingest"
        /\ UNCHANGED <<tool, uploadResults, mintResults, uploads, anchorResults, chain>>
    BY <1>3 DEF Start, files
  <2> QED
    BY <2>1, CalmStep
<1>4. CASE Ingest
  <2>1. UNCHANGED <<tool, uploadResults, mintResults, uploads, anchorResults, chain>>
    BY <1>4 DEF Ingest, files
  <2>2. \/ run' = Idle
        \/ \E pc \in {"upload", "receipts"} : \E proofs, todo, cycles :
             run' = [pc |-> pc, flags |-> run.flags, proofs |-> proofs, todo |-> todo,
                     cycles |-> cycles, made |-> {}, seen |-> {}]
    BY <1>4, Zenon DEF Ingest
  <2>3. run'.pc = "idle" \/ (DOMAIN run' = Loaded /\ run'.pc \in {"upload", "receipts"})
    BY <2>2 DEF Idle, Loaded
  <2> QED
    BY <2>1, <2>3, CalmStep
<1>5. CASE SkipUpload
  <2>1. DOMAIN run' = Loaded /\ run'.pc = "upload"
    BY <1>1, <1>5 DEF SkipUpload, Loaded
  <2> QED
    BY <1>5, <2>1, CalmStep DEF SkipUpload, files
<1>6. CASE UploadsDone
  <2>1. DOMAIN run' = Loaded /\ run'.pc = "mint"
    BY <1>1, <1>6 DEF UploadsDone, Loaded
  <2> QED
    BY <1>6, <2>1, CalmStep DEF UploadsDone, files
<1>7. CASE NothingToMint
  <2>1. DOMAIN run' = Loaded /\ run'.pc = "manifest"
    BY <1>1, <1>7 DEF NothingToMint, Loaded
  <2> QED
    BY <1>7, <2>1, CalmStep DEF NothingToMint, files
<1>8. CASE WriteManifest
  <2>1. DOMAIN run' = Loaded /\ run'.pc = "receipts"
    BY <1>1, <1>8 DEF WriteManifest, Loaded
  <2> QED
    BY <1>8, <2>1, CalmStep DEF WriteManifest, files
<1>9. CASE WriteReceipts
  <2>1. DOMAIN run' = Loaded /\ run'.pc = "render"
    BY <1>1, <1>9 DEF WriteReceipts, Loaded
  <2> QED
    BY <1>9, <2>1, CalmStep DEF WriteReceipts
<1>10. CASE Render
  <2>1. run'.pc = "idle" \/ (DOMAIN run' = Loaded /\ run'.pc = "claims")
    BY <1>1, <1>10 DEF Render, Loaded, Idle
  <2> QED
    BY <1>10, <2>1, CalmStep DEF Render
<1>11. CASE SignClaims
  <2>1. DOMAIN run' = Loaded /\ run'.pc = "put" /\ run'.made = {} /\ run'.seen = uploads
    BY <1>1, <1>11 DEF SignClaims, Loaded
  <2> QED
    BY <1>1, <1>11, <2>1, CalmStep DEF SignClaims
<1>12. CASE ReadUploads
  <2>1. \/ run'.pc = "idle"
        \/ DOMAIN run' = Loaded /\ run'.pc = "write" /\ run'.made = run.made /\ run'.seen = uploads
    BY <1>1, <1>12 DEF ReadUploads, Reads, Loaded, Idle
  <2>2. /\ run.pc = "put"
        /\ UNCHANGED <<tool, uploadResults, mintResults, uploads, anchorResults, chain>>
    BY <1>12 DEF ReadUploads, files
  <2> QED
    BY <1>1, <2>1, <2>2, CalmStep
<1> QED
  BY <1>2, <1>3, <1>4, <1>5, <1>6, <1>7, <1>8, <1>9, <1>10, <1>11, <1>12

-----------------------------------------------------------------------------
(* The v1.2 uploads.                                                        *)

(* A step that only uploads and records uploads owes the process, the      *)
(* entries and what they name.                                             *)
LEMMA UploadStep ==
  ASSUME PipelineInv, HostedGrows, RunInv', UploadInv',
         UNCHANGED <<tool, mintResults, uploads, anchorResults, tokens, anchors, late>>
  PROVE  PipelineInv'
<1>1. TokenInv /\ ToolInv /\ AnchorInv /\ AnchorsGrow
  BY DEF PipelineInv, AnchorsGrow
<1>2. TokenInv' /\ ToolInv' /\ AnchorInv'
  BY <1>1, TokensEndure, ToolsInvEndures, AnchorsEndure
<1> QED
  BY <1>2 DEF PipelineInv

(* What is recorded of an upload is what was made of the receipt.          *)
LEMMA RecordStep ==
  ASSUME PipelineInv, HostedGrows, NEW entry, Record(entry), Shown(entry, hosted'),
         run.pc \notin {"idle", "ingest"}
  PROVE  PipelineInv'
<1>1. DOMAIN run = Loaded /\ UploadInv
  BY DEF PipelineInv, RunInv
<1>2. RunInv'
  <2>1. DOMAIN run' = Loaded /\ run'.pc = "upload"
    BY <1>1 DEF Record, Loaded
  <2> QED
    BY <2>1 DEF RunInv
<1>3. UploadInv'
  <2>1. \A e \in uploadResults' : e \in uploadResults \/ e = entry
    BY DEF Record, Merge
  <2>2. \A e \in uploadResults : Shown(e, hosted')
    BY <1>1 DEF UploadInv, HostedGrows, Shown
  <2> QED
    BY <2>1, <2>2 DEF UploadInv
<1>4. UNCHANGED <<tool, mintResults, uploads, anchorResults, tokens, anchors, late>>
  BY DEF Record
<1> QED
  BY <1>2, <1>3, <1>4, UploadStep

(* The steps that upload image and metadata and record what became of it.  *)
LEMMA UploadSteps ==
  ASSUME PipelineInv, UploadImage \/ UploadMetadata \/ RecordUpload
  PROVE  PipelineInv'
<1> DEFINE r == Head(run.todo)
<1>1. /\ run.pc \notin {"idle", "ingest"} => DOMAIN run = Loaded
      /\ run.pc \in {"metadata", "local"} => Image(r) \in hosted
      /\ run.pc = "local" => Metadata(r) \in hosted
      /\ UploadInv
  BY DEF PipelineInv, RunInv
<1>2. HostedGrows
  BY Zenon DEF UploadImage, UploadMetadata, RecordUpload, HostedGrows
<1>3. CASE UploadImage
  <2>1. CASE Record(UploadEntry(r, "failed", {}, {}))
    <3>1. Shown(UploadEntry(r, "failed", {}, {}), hosted')
      BY EntryShown
    <3>2. run.pc = "upload"
      BY <1>3 DEF UploadImage
    <3> QED
      BY <1>2, <2>1, <3>1, <3>2, RecordStep
  <2>2. CASE /\ hosted' = hosted \cup {Image(r)} /\ run' = [run EXCEPT !.pc = "metadata"]
             /\ UNCHANGED <<history, tool, files, tokens, anchors, late>>
    <3>1. run.pc = "upload"
      BY <1>3 DEF UploadImage
    <3>2. DOMAIN run' = Loaded /\ run'.pc = "metadata" /\ run'.todo = run.todo
      BY <1>1, <2>2, <3>1 DEF Loaded
    <3>3. RunInv'
      BY <2>2, <3>2 DEF RunInv
    <3>4. UploadInv'
      BY <1>1, <1>2, <2>2, UploadsEndure DEF files
    <3> QED
      BY <1>2, <2>2, <3>3, <3>4, UploadStep DEF files
  <2> QED
    BY <1>3, <2>1, <2>2 DEF UploadImage
<1>4. CASE UploadMetadata
  <2>1. run.pc = "metadata"
    BY <1>4 DEF UploadMetadata
  <2>2. CASE Record(UploadEntry(r, "partial_image_only", {Image(r)}, {}))
    <3>1. Image(r) \in hosted'
      BY <1>1, <1>2, <2>1 DEF HostedGrows
    <3>2. Shown(UploadEntry(r, "partial_image_only", {Image(r)}, {}), hosted')
      BY <3>1, EntryShown
    <3> QED
      BY <1>2, <2>1, <2>2, <3>2, RecordStep
  <2>3. CASE /\ hosted' = hosted \cup {Metadata(r)} /\ run' = [run EXCEPT !.pc = "local"]
             /\ UNCHANGED <<history, tool, files, tokens, anchors, late>>
    <3>1. DOMAIN run' = Loaded /\ run'.pc = "local" /\ run'.todo = run.todo
      BY <1>1, <2>1, <2>3 DEF Loaded
    <3>2. RunInv'
      BY <1>1, <2>1, <2>3, <3>1 DEF RunInv
    <3>3. UploadInv'
      BY <1>1, <1>2, <2>3, UploadsEndure DEF files
    <3> QED
      BY <1>2, <2>3, <3>2, <3>3, UploadStep DEF files
  <2> QED
    BY <1>4, <2>2, <2>3 DEF UploadMetadata
<1>5. CASE RecordUpload
  <2>1. run.pc = "local" /\ hosted' = hosted
    BY <1>5 DEF RecordUpload
  <2>2. PICK status : Record(UploadEntry(r, status, {Image(r)}, {Metadata(r)}))
    BY <1>5, Zenon DEF RecordUpload
  <2>3. Shown(UploadEntry(r, status, {Image(r)}, {Metadata(r)}), hosted')
    BY <1>1, <2>1, EntryShown
  <2> QED
    BY <1>2, <2>1, <2>2, <2>3, RecordStep
<1> QED
  BY <1>3, <1>4, <1>5

-----------------------------------------------------------------------------
(* The v1.2 mint.                                                           *)

(* A plan with both URIs shows its receipt: it was resolved from an upload *)
(* of the very artifacts the receipt has now.                              *)
LEMMA PlanShown ==
  ASSUME UploadInv, NEW r, NEW plan, plan = MintPlan(r), plan.image # {}, plan.metadata # {}
  PROVE  Faithful(plan, hosted)
<1> DEFINE usable == {e \in EntryOf(uploadResults, Id(r)) : UriUsable(e, Package(r))}
<1>1. plan.of = r /\ plan.image = UNION {e.image : e \in usable} /\ plan.metadata = UNION {e.metadata : e \in usable}
  BY DEF MintPlan
<1>2. ASSUME NEW e \in usable
      PROVE  /\ e.image \subseteq {Image(r)} /\ e.metadata \subseteq {Metadata(r)}
             /\ e.image \cup e.metadata \subseteq hosted
  <2>1. e \in uploadResults /\ e.imageHash = Svg(Preview(r)) /\ e.templateHash = Template(r)
    BY <1>2 DEF EntryOf, UriUsable, Unchanged, Package
  <2>2. ImageOf(e) = Image(r)
    BY <2>1 DEF ImageOf, Image
  <2>3. MetadataOf(e) = Metadata(r)
    BY <2>1, <2>2 DEF MetadataOf, Metadata
  <2> QED
    BY <2>1, <2>2, <2>3 DEF UploadInv, Shown
<1> HIDE DEF usable
<1>3. /\ plan.image \subseteq {Image(r)} /\ plan.metadata \subseteq {Metadata(r)}
      /\ plan.image \cup plan.metadata \subseteq hosted
  BY <1>1, <1>2
<1>4. plan.image = {Image(r)} /\ plan.metadata = {Metadata(r)}
  BY <1>3
<1> QED
  BY <1>1, <1>3, <1>4 DEF Faithful

(* The entry of a mint that has its token links that token to its receipt. *)
LEMMA EntryOfMint ==
  ASSUME NEW made, MadeOk(made, tokens, hosted), NEW status
  PROVE  MintShown(MintEntry(made.plan, {made.mint}, status), tokens, hosted)
<1> DEFINE e == MintEntry(made.plan, {made.mint}, status)
<1>1. /\ e.id = Id(made.plan.of) /\ e.hash = made.plan.of.hash
      /\ e.image = made.plan.image /\ e.metadata = made.plan.metadata /\ e.mint = {made.mint}
  BY DEF MintEntry
<1> HIDE DEF e
<1>2. MintShown(e, tokens, hosted)
  BY <1>1 DEF MintShown, MadeOk, Faithful
<1> QED
  BY <1>2 DEF e

(* The entry of a mint that failed names no token. *)
LEMMA EntryOfFailure ==
  ASSUME NEW plan, NEW status, status # "minted", NEW coined
  PROVE  MintShown(MintEntry(plan, {}, status), coined, hosted)
BY DEF MintEntry, MintShown

(* A step that only mints and records a mint owes the process, the tokens  *)
(* and what is recorded of them.                                           *)
LEMMA MintStep ==
  ASSUME PipelineInv, RunInv', TokenInv',
         UNCHANGED <<tool, uploadResults, uploads, anchorResults, hosted, anchors, late>>
  PROVE  PipelineInv'
<1>1. UploadInv /\ ToolInv /\ AnchorInv /\ HostedGrows /\ AnchorsGrow
  BY DEF PipelineInv, HostedGrows, AnchorsGrow
<1>2. UploadInv' /\ ToolInv' /\ AnchorInv'
  BY <1>1, UploadsEndure, ToolsInvEndures, AnchorsEndure
<1> QED
  BY <1>2 DEF PipelineInv

(* What is recorded of a mint is so, and the tokens there were stay.       *)
LEMMA RecordMintStep ==
  ASSUME PipelineInv, NEW entry, RecordMint(entry), run.pc \notin {"idle", "ingest"}, TokensGrow,
         tokens' \in Seq(Range(tokens')), MintShown(entry, tokens', hosted)
  PROVE  PipelineInv'
<1>1. DOMAIN run = Loaded /\ TokenInv /\ HostedGrows /\ hosted' = hosted
  BY DEF PipelineInv, RunInv, RecordMint, HostedGrows
<1>2. RunInv'
  <2>1. DOMAIN run' = Loaded /\ run'.pc = "manifest"
    BY <1>1 DEF RecordMint, Loaded
  <2> QED
    BY <2>1 DEF RunInv
<1>3. TokenInv'
  <2>1. \A e \in mintResults' : e \in mintResults \/ e = entry
    BY DEF RecordMint, Merge
  <2>2. \A e \in mintResults : MintShown(e, tokens', hosted')
    BY <1>1, ResultsEndure
  <2>3. \A e \in mintResults' : MintShown(e, tokens', hosted')
    BY <1>1, <2>1, <2>2, Zenon
  <2> QED
    BY <2>3, Zenon DEF TokenInv
<1>4. UNCHANGED <<tool, uploadResults, uploads, anchorResults, hosted, anchors, late>>
  BY DEF RecordMint
<1> QED
  BY <1>2, <1>3, <1>4, MintStep

(* The steps that mint a receipt and record what became of it.             *)
LEMMA MintSteps ==
  ASSUME PipelineInv, MintSend \/ MintRecord
  PROVE  PipelineInv'
<1>1. /\ run.pc \notin {"idle", "ingest"} => DOMAIN run = Loaded
      /\ run.pc = "minted" => \A made \in run.made : MadeOk(made, tokens, hosted)
      /\ UploadInv /\ TokenInv /\ tokens \in Seq(Range(tokens))
  BY DEF PipelineInv, RunInv, TokenInv
<1>2. CASE MintSend
  <2> DEFINE n == Len(tokens) + 1
  <2>1. run.pc = "mint"
    BY <1>2 DEF MintSend
  <2>2. PICK plan \in Mintable :
          \/ /\ Minted(plan) /\ NoFault
             /\ run' = [run EXCEPT !.pc = "minted", !.made = {[plan |-> plan, mint |-> n]}]
             /\ UNCHANGED <<history, tool, files, hosted, anchors, late>>
          \/ Minted(plan) /\ RecordMint(MintEntry(plan, {}, "submit_failed")) /\ Fault
          \/ /\ \E status \in {"submit_failed", "mint_authority_unfunded"} : RecordMint(MintEntry(plan, {}, status))
             /\ Fault /\ UNCHANGED tokens
    BY <1>2, Zenon DEF MintSend
  <2>3. Faithful(plan, hosted)
    <3>1. PICK r \in Range(run.proofs) : plan = MintPlan(r)
      BY <2>2 DEF Mintable
    <3>2. plan.image # {} /\ plan.metadata # {}
      BY <2>2 DEF Mintable
    <3> QED
      BY <1>1, <3>1, <3>2, PlanShown
  <2>4. ASSUME Minted(plan)
        PROVE  tokens' \in Seq(Range(tokens')) /\ TokensGrow /\ n \in DOMAIN tokens' /\ tokens'[n] = plan.of
    <3> DEFINE receipt == plan.of
    <3>1. tokens \in Seq(Range(tokens)) /\ tokens' = Append(tokens, receipt)
      BY <1>1, <2>4 DEF Minted
    <3> HIDE DEF receipt
    <3>2. /\ tokens' \in Seq(Range(tokens')) /\ n \in DOMAIN tokens' /\ tokens'[n] = receipt
          /\ \A i \in DOMAIN tokens : i \in DOMAIN tokens' /\ tokens'[i] = tokens[i]
      BY <3>1, AppendedAtEnd
    <3> HIDE DEF n
    <3> QED
      BY <3>2, Zenon DEF TokensGrow, receipt
  <2> HIDE DEF n
  <2>5. CASE /\ Minted(plan) /\ NoFault
             /\ run' = [run EXCEPT !.pc = "minted", !.made = {[plan |-> plan, mint |-> n]}]
             /\ UNCHANGED <<history, tool, files, hosted, anchors, late>>
    <3>1. DOMAIN run' = Loaded /\ run'.pc = "minted" /\ run'.made = {[plan |-> plan, mint |-> n]}
      BY <1>1, <2>1, <2>5 DEF Loaded
    <3>2. RunInv'
      BY <2>3, <2>4, <2>5, <3>1 DEF RunInv, MadeOk
    <3>3. mintResults' = mintResults /\ HostedGrows
      BY <2>5 DEF files, HostedGrows
    <3>4. TokenInv'
      BY <1>1, <2>4, <2>5, <3>3, ResultsEndure DEF TokenInv
    <3> QED
      BY <2>5, <3>2, <3>4, MintStep DEF files
  <2>6. CASE Minted(plan) /\ RecordMint(MintEntry(plan, {}, "submit_failed"))
    BY <2>1, <2>4, <2>6, EntryOfFailure, RecordMintStep
  <2>7. CASE /\ UNCHANGED tokens
             /\ \E status \in {"submit_failed", "mint_authority_unfunded"} : RecordMint(MintEntry(plan, {}, status))
    <3>1. PICK status \in {"submit_failed", "mint_authority_unfunded"} : RecordMint(MintEntry(plan, {}, status))
      BY <2>7
    <3>2. TokensGrow /\ tokens' \in Seq(Range(tokens'))
      BY <1>1, <2>7 DEF TokensGrow
    <3> QED
      BY <2>1, <3>1, <3>2, EntryOfFailure, RecordMintStep
  <2> QED
    BY <2>2, <2>5, <2>6, <2>7
<1>3. CASE MintRecord
  <2>1. run.pc = "minted" /\ tokens' = tokens
    BY <1>3 DEF MintRecord
  <2>2. PICK made \in run.made, status \in {"minted", "minted_but_local_write_failed"} :
          RecordMint(MintEntry(made.plan, {made.mint}, status))
    BY <1>3, Zenon DEF MintRecord
  <2>3. MintShown(MintEntry(made.plan, {made.mint}, status), tokens', hosted)
    BY <1>1, <2>1, <2>2, EntryOfMint
  <2>4. TokensGrow /\ tokens' \in Seq(Range(tokens'))
    BY <1>1, <2>1 DEF TokensGrow
  <2> QED
    BY <2>1, <2>2, <2>3, <2>4, RecordMintStep
<1> QED
  BY <1>2, <1>3

-----------------------------------------------------------------------------
(* The v1.1 uploads of run-pipeline.                                        *)

(* A step that leaves v1.2 alone owes the process and the tools.           *)
LEMMA ShelfStep ==
  ASSUME PipelineInv, HostedGrows, RunInv', ToolInv', AnchorInv',
         UNCHANGED <<uploadResults, mintResults, tokens>>
  PROVE  PipelineInv'
<1>1. UploadInv /\ TokenInv
  BY DEF PipelineInv
<1>2. UploadInv' /\ TokenInv'
  BY <1>1, UploadsEndure, TokensEndure
<1> QED
  BY <1>2 DEF PipelineInv

(* What an upload serves it records, and nothing that was served goes.     *)
LEMMA ServesAll ==
  ASSUME NEW r, Serve(r)
  PROVE  HostedGrows /\ \A u \in Uploaded(r) : ServedAs(u, hosted')
BY DEF Serve, HostedGrows, ServedAs

(* The steps of run-pipeline that upload the v1.1 receipts and record them. *)
LEMMA PutSteps ==
  ASSUME PipelineInv, Put \/ WriteUploads
  PROVE  PipelineInv'
<1>1. /\ run.pc \in {"put", "write"} =>
            DOMAIN run = Loaded /\ \A u \in run.made \cup run.seen : ServedAs(u, hosted)
      /\ ToolInv /\ AnchorInv
  BY DEF PipelineInv, RunInv
<1>2. CASE Put
  <2> DEFINE r == Head(run.todo)
  <2>1. run.pc = "put" /\ UNCHANGED <<tool, files, tokens, anchors, late>>
    BY <1>2 DEF Put
  <2>2. \/ run' = PutDone(run) /\ hosted' = hosted
        \/ run' = PutMade(run, r) /\ Serve(r)
        \/ run' = Idle /\ hosted' = hosted
    BY <1>2 DEF Put
  <2>3. HostedGrows /\ AnchorsGrow
    BY <2>1, <2>2, ServesAll DEF HostedGrows, AnchorsGrow
  <2>4. RunInv'
    <3>1. CASE run' = PutDone(run) /\ hosted' = hosted
      <4>1. DOMAIN run' = Loaded /\ run'.pc = "put" /\ run'.made = run.made /\ run'.seen = run.seen
        BY <1>1, <2>1, <3>1 DEF PutDone, Loaded
      <4> QED
        BY <1>1, <2>1, <3>1, <4>1 DEF RunInv
    <3>2. CASE run' = PutMade(run, r) /\ Serve(r)
      <4>1. DOMAIN run' = Loaded /\ run'.pc = "put" /\ run'.made = run.made \cup Uploaded(r) /\ run'.seen = run.seen
        BY <1>1, <2>1, <3>2 DEF PutMade, Loaded
      <4>2. \A u \in run'.made \cup run'.seen : ServedAs(u, hosted')
        BY <1>1, <2>1, <2>3, <3>2, <4>1, ServesAll DEF HostedGrows, ServedAs
      <4> QED
        BY <4>1, <4>2 DEF RunInv
    <3>3. CASE run' = Idle
      BY <3>3 DEF RunInv, Idle
    <3> QED
      BY <2>2, <3>1, <3>2, <3>3
  <2>5. ToolInv' /\ AnchorInv'
    BY <1>1, <2>1, <2>3, ToolsInvEndures, AnchorsEndure DEF files
  <2> QED
    BY <2>1, <2>3, <2>4, <2>5, ShelfStep DEF files
<1>3. CASE WriteUploads
  <2>1. /\ run.pc = "write" /\ uploads' = run.seen \cup run.made /\ run' = Idle
        /\ UNCHANGED <<tool, uploadResults, mintResults, anchorResults, hosted, tokens, anchors, late>>
    BY <1>3 DEF WriteUploads, chain
  <2>2. HostedGrows /\ AnchorsGrow
    BY <2>1 DEF HostedGrows, AnchorsGrow
  <2>3. RunInv'
    BY <2>1 DEF RunInv, Idle
  <2>4. ToolInv'
    BY <1>1, <2>1 DEF ToolInv
  <2>5. AnchorInv'
    BY <1>1, <2>1, <2>2, AnchorsEndure
  <2> QED
    BY <2>1, <2>2, <2>3, <2>4, <2>5, ShelfStep
<1> QED
  BY <1>2, <1>3

-----------------------------------------------------------------------------
(* The uploader and the mint submitter.                                     *)

(* A step of one tool owes that tool, the upload records and the anchors.  *)
LEMMA OneTool ==
  ASSUME PipelineInv, NEW t \in Tools, HostedGrows, AnchorsGrow, AnchorInv',
         tool' = [tool EXCEPT ![t] = tool'[t]], ToolOk(tool'[t], hosted', anchors'),
         \A u \in uploads' : ServedAs(u, hosted'),
         UNCHANGED <<run, uploadResults, mintResults, tokens>>
  PROVE  PipelineInv'
<1>1. RunInv /\ ToolInv /\ TokensGrow
  BY DEF PipelineInv, TokensGrow
<1>2. DOMAIN tool' = Tools
  BY <1>1 DEF ToolInv
<1>3. ASSUME NEW s \in Tools PROVE ToolOk(tool'[s], hosted', anchors')
  <2>1. CASE s = t
    BY <2>1
  <2>2. CASE s # t
    <3>1. tool'[s] = tool[s]
      BY <1>1, <2>2 DEF ToolInv
    <3> QED
      BY <1>1, <3>1, ToolsEndure DEF ToolInv
  <2> QED
    BY <2>1, <2>2
<1>4. RunInv'
  BY <1>1, RunEndures
<1>5. ToolInv'
  BY <1>2, <1>3 DEF ToolInv
<1> QED
  BY <1>4, <1>5, ShelfStep

(* A step of one tool that serves and anchors nothing owes that tool only. *)
LEMMA QuietTool ==
  ASSUME PipelineInv, NEW t \in Tools,
         tool' = [tool EXCEPT ![t] = tool'[t]], ToolOk(tool'[t], hosted, anchors),
         UNCHANGED <<run, uploadResults, mintResults, uploads, anchorResults, chain>>
  PROVE  PipelineInv'
<1>1. HostedGrows /\ AnchorsGrow /\ ToolInv /\ AnchorInv
  BY DEF PipelineInv, HostedGrows, AnchorsGrow, chain
<1>2. AnchorInv' /\ \A u \in uploads' : ServedAs(u, hosted')
  BY <1>1, AnchorsEndure DEF ToolInv, chain
<1> QED
  BY <1>1, <1>2, OneTool DEF chain

(* The steps of the uploader.                                              *)
LEMMA UploaderSteps ==
  ASSUME PipelineInv, NEW t \in Tools,
         StartUploader(t) \/ ToolPut(t) \/ ToolReadUploads(t) \/ ToolWriteUploads(t)
  PROVE  PipelineInv'
<1>1. /\ ToolInv /\ AnchorInv /\ DOMAIN tool = Tools
      /\ tool[t].pc \in {"put", "write"} =>
            DOMAIN tool[t] = Putting /\ \A u \in tool[t].made \cup tool[t].seen : ServedAs(u, hosted)
      /\ \A u \in uploads : ServedAs(u, hosted)
  BY DEF PipelineInv, ToolInv, ToolOk
<1>2. CASE StartUploader(t)
  <2>1. /\ tool' = [tool EXCEPT ![t] = [pc |-> "put", todo |-> receipts, made |-> {}, seen |-> uploads]]
        /\ UNCHANGED <<run, uploadResults, mintResults, uploads, anchorResults, chain>>
    BY <1>2 DEF StartUploader, ToolStart, files
  <2>2. tool'[t] = [pc |-> "put", todo |-> receipts, made |-> {}, seen |-> uploads]
    BY <1>1, <2>1
  <2>3. ToolOk(tool'[t], hosted, anchors)
    BY <1>1, <2>2 DEF ToolOk, Putting
  <2> QED
    BY <2>1, <2>2, <2>3, QuietTool
<1>3. CASE ToolPut(t)
  <2> DEFINE r == Head(tool[t].todo)
  <2>1. tool[t].pc = "put" /\ UNCHANGED <<run, files, tokens, anchors, late>>
    BY <1>3 DEF ToolPut
  <2>2. \/ tool' = [tool EXCEPT ![t] = PutDone(@)] /\ hosted' = hosted
        \/ tool' = [tool EXCEPT ![t] = PutMade(@, r)] /\ Serve(r)
        \/ tool' = [tool EXCEPT ![t] = Idle] /\ hosted' = hosted
    BY <1>3 DEF ToolPut
  <2>3. HostedGrows /\ AnchorsGrow
    BY <2>1, <2>2, ServesAll DEF HostedGrows, AnchorsGrow
  <2>4. /\ tool' = [tool EXCEPT ![t] = tool'[t]]
        /\ \/ tool'[t] = PutDone(tool[t]) /\ hosted' = hosted
           \/ tool'[t] = PutMade(tool[t], r) /\ Serve(r)
           \/ tool'[t] = Idle
    <3> HIDE DEF r
    <3> QED
      BY <1>1, <2>2
  <2>5. ToolOk(tool'[t], hosted', anchors')
    <3>1. CASE tool'[t] = PutDone(tool[t]) /\ hosted' = hosted
      <4>1. /\ DOMAIN PutDone(tool[t]) = Putting /\ PutDone(tool[t]).pc = "put"
            /\ PutDone(tool[t]).made = tool[t].made /\ PutDone(tool[t]).seen = tool[t].seen
        BY <1>1, <2>1 DEF PutDone, Putting
      <4> QED
        BY <1>1, <2>1, <3>1, <4>1 DEF ToolOk
    <3>2. CASE tool'[t] = PutMade(tool[t], r) /\ Serve(r)
      <4>1. /\ DOMAIN PutMade(tool[t], r) = Putting /\ PutMade(tool[t], r).pc = "put"
            /\ PutMade(tool[t], r).made = tool[t].made \cup Uploaded(r) /\ PutMade(tool[t], r).seen = tool[t].seen
        BY <1>1, <2>1 DEF PutMade, Putting
      <4>2. \A u \in PutMade(tool[t], r).made \cup PutMade(tool[t], r).seen : ServedAs(u, hosted')
        BY <1>1, <2>1, <2>3, <3>2, <4>1, ServesAll DEF HostedGrows, ServedAs
      <4> QED
        BY <3>2, <4>1, <4>2 DEF ToolOk
    <3>3. CASE tool'[t] = Idle
      BY <3>3 DEF ToolOk, Idle
    <3> QED
      BY <2>4, <3>1, <3>2, <3>3
  <2>6. AnchorInv' /\ \A u \in uploads' : ServedAs(u, hosted')
    BY <1>1, <2>1, <2>3, AnchorsEndure DEF files, HostedGrows, ServedAs
  <2> QED
    BY <2>1, <2>3, <2>4, <2>5, <2>6, OneTool DEF files
<1>4. CASE ToolReadUploads(t)
  <2>1. /\ tool[t].pc = "put" /\ tool' = [tool EXCEPT ![t] = Reads(@, uploads)]
        /\ UNCHANGED <<run, uploadResults, mintResults, uploads, anchorResults, chain>>
    BY <1>4 DEF ToolReadUploads, files
  <2>2. tool' = [tool EXCEPT ![t] = tool'[t]] /\ tool'[t] = Reads(tool[t], uploads)
    BY <1>1, <2>1
  <2>3. \/ Reads(tool[t], uploads) = Idle
        \/ /\ DOMAIN Reads(tool[t], uploads) = Putting /\ Reads(tool[t], uploads).pc = "write"
           /\ Reads(tool[t], uploads).made = tool[t].made /\ Reads(tool[t], uploads).seen = uploads
    BY <1>1, <2>1 DEF Reads, Putting
  <2>4. ToolOk(tool'[t], hosted, anchors)
    BY <1>1, <2>1, <2>2, <2>3 DEF ToolOk, Idle
  <2> QED
    BY <2>1, <2>2, <2>4, QuietTool
<1>5. CASE ToolWriteUploads(t)
  <2>1. /\ tool[t].pc = "write" /\ uploads' = tool[t].seen \cup tool[t].made
        /\ tool' = [tool EXCEPT ![t] = Idle]
        /\ UNCHANGED <<run, uploadResults, mintResults, anchorResults, hosted, tokens, anchors, late>>
    BY <1>5 DEF ToolWriteUploads, chain
  <2>2. HostedGrows /\ AnchorsGrow
    BY <2>1 DEF HostedGrows, AnchorsGrow
  <2>3. tool'[t] = Idle /\ ToolOk(tool'[t], hosted', anchors')
    BY <1>1, <2>1 DEF ToolOk, Idle
  <2>4. AnchorInv' /\ \A u \in uploads' : ServedAs(u, hosted')
    BY <1>1, <2>1, <2>2, AnchorsEndure
  <2> QED
    BY <2>1, <2>2, <2>3, <2>4, OneTool
<1> QED
  BY <1>2, <1>3, <1>4, <1>5

(* What a submitter has reported, it has now reported for good.            *)
LEMMA ReportedShape ==
  ASSUME ToolInv, NEW t \in Tools, tool[t].pc \in {"mint", "send"}, NEW hash, NEW outcome, Reported(t, hash, outcome)
  PROVE  /\ tool' = [tool EXCEPT ![t] = tool'[t]]
         /\ DOMAIN tool'[t] = Minting /\ tool'[t].pc = "mint"
         /\ tool'[t].made = tool[t].made \cup {[hash |-> hash, outcome |-> outcome]}
         /\ tool'[t].uploads = tool[t].uploads /\ tool'[t].results = tool[t].results
<1>1. DOMAIN tool = Tools /\ DOMAIN tool[t] = Minting
  BY DEF ToolInv, ToolOk
<1> QED
  BY <1>1 DEF Reported, Minting

(* What a submitter signs is of the hash of its claim.                     *)
LEMMA SignedBacked ==
  ASSUME ToolInv, NEW t \in Tools, tool[t].pc = "send"
  PROVE  /\ Backed(Signed(t), hosted) /\ Signed(t).hash = Head(tool[t].todo).content
<1>1. \A u \in tool[t].uploads : ServedAs(u, hosted)
  BY DEF ToolInv, ToolOk
<1> QED
  BY <1>1 DEF Signed, MetadataFor, Backed, ServedAs

(* A new anchor is of a hash that had none, its metadata is of that hash,  *)
(* and what that names is served: the anchors stay faithful.               *)
LEMMA AnchorMinted ==
  ASSUME AnchorInv, NEW new, MintReceipt(new), Backed(new, hosted), late' \subseteq late,
         hosted' = hosted, anchorResults' = anchorResults
  PROVE  /\ AnchorInv' /\ AnchorsGrow
         /\ \E i \in DOMAIN anchors' : anchors'[i].hash = new.hash
<1> DEFINE n == Len(anchors) + 1
<1>1. /\ anchors' \in Seq(Range(anchors')) /\ n \in DOMAIN anchors' /\ anchors'[n] = new
      /\ \A i \in DOMAIN anchors : i \in DOMAIN anchors' /\ anchors'[i] = anchors[i]
      /\ \A i \in DOMAIN anchors' : i \in DOMAIN anchors \/ i = n
  <2>1. anchors \in Seq(Range(anchors)) /\ anchors' = Append(anchors, new)
    BY DEF AnchorInv, MintReceipt
  <2> QED
    BY <2>1, AppendedAtEnd
<1>2. \A i \in DOMAIN anchors : anchors[i].hash # new.hash
  BY DEF MintReceipt, Anchored
<1> HIDE DEF n
<1>3. /\ \A i, j \in DOMAIN anchors : anchors[i].hash = anchors[j].hash => i = j
      /\ \A i \in DOMAIN anchors : Backed(anchors[i], hosted)
      /\ \A m \in anchorResults : Trustworthy(m, anchors)
      /\ \A a \in late : Backed(a, hosted)
  BY DEF AnchorInv, AnchorsAreFaithful, Backed
<1>4. \A i, j \in DOMAIN anchors' : anchors'[i].hash = anchors'[j].hash => i = j
  BY <1>1, <1>2, <1>3, Zenon
<1>5. \A i \in DOMAIN anchors' : Backed(anchors'[i], hosted')
  <2> TAKE i \in DOMAIN anchors'
  <2>1. CASE i = n
    BY <1>1, <2>1
  <2>2. CASE i \in DOMAIN anchors
    BY <1>1, <1>3, <2>2
  <2> QED
    BY <1>1, <2>1, <2>2
<1>6. \A m \in anchorResults : Trustworthy(m, anchors')
  <2>1. \A h : (\E i \in DOMAIN anchors : anchors[i].hash = h) => \E i \in DOMAIN anchors' : anchors'[i].hash = h
    BY <1>1, Zenon
  <2> QED
    BY <1>3, <2>1 DEF Trustworthy
<1>7. AnchorsAreFaithful'
  BY <1>4, <1>5 DEF AnchorsAreFaithful, Backed
<1>8. AnchorInv'
  BY <1>1, <1>3, <1>6, <1>7 DEF AnchorInv
<1>9. AnchorsGrow
  BY <1>1, Zenon DEF AnchorsGrow
<1> QED
  BY <1>1, <1>8, <1>9

(* What is signed and not answered is on its way, of its own hash.         *)
LEMMA SignedIsLate ==
  ASSUME AnchorInv, ToolInv, NEW t \in Tools, tool[t].pc = "send",
         late' \subseteq late \cup {Signed(t)}, UNCHANGED <<anchors, anchorResults, hosted>>
  PROVE  AnchorInv'
<1>1. Backed(Signed(t), hosted)
  BY SignedBacked
<1>2. \A a \in late' : Backed(a, hosted')
  BY <1>1 DEF AnchorInv
<1> QED
  BY <1>2 DEF AnchorInv, AnchorsAreFaithful

(* A transaction nobody waits for any more is of its own hash too.         *)
LEMMA LandsStep ==
  ASSUME PipelineInv, Lands
  PROVE  PipelineInv'
<1>1. /\ RunInv /\ ToolInv /\ AnchorInv
      /\ UNCHANGED <<run, tool, uploadResults, mintResults, uploads, anchorResults, hosted, tokens>>
  BY DEF PipelineInv, Lands, files
<1>2. PICK new \in late : MintReceipt(new) /\ late' = late \ {new}
  BY DEF Lands
<1>3. Backed(new, hosted)
  BY <1>1 DEF AnchorInv
<1>4. AnchorInv' /\ AnchorsGrow
  BY <1>1, <1>2, <1>3, AnchorMinted
<1>5. HostedGrows /\ TokensGrow
  BY <1>1 DEF HostedGrows, TokensGrow
<1>6. RunInv' /\ ToolInv'
  BY <1>1, <1>4, <1>5, RunEndures, ToolsInvEndures
<1> QED
  BY <1>1, <1>4, <1>5, <1>6, ShelfStep

(* The steps of the mint submitter.                                        *)
LEMMA SubmitterSteps ==
  ASSUME PipelineInv, NEW t \in Tools,
         StartSubmitter(t) \/ CheckClaim(t) \/ SendClaim(t) \/ ReadResults(t) \/ WriteResults(t)
  PROVE  PipelineInv'
<1>1. /\ ToolInv /\ AnchorInv /\ DOMAIN tool = Tools
      /\ tool[t].pc \in {"mint", "send", "append"} =>
            /\ DOMAIN tool[t] = Minting
            /\ \A u \in tool[t].uploads : ServedAs(u, hosted)
            /\ \A m \in tool[t].made \cup tool[t].results : Trustworthy(m, anchors)
      /\ \A u \in uploads : ServedAs(u, hosted)
      /\ \A m \in anchorResults : Trustworthy(m, anchors)
  BY DEF PipelineInv, ToolInv, ToolOk, AnchorInv
<1>2. CASE StartSubmitter(t)
  <2>1. PICK known, done :
          tool' = [tool EXCEPT ![t] = [pc |-> "mint", todo |-> claims, made |-> {}, results |-> {}, uploads |-> uploads,
                                       known |-> known, done |-> done]]
    BY <1>2 DEF StartSubmitter, ToolStart
  <2>2. UNCHANGED <<run, uploadResults, mintResults, uploads, anchorResults, chain>>
    BY <1>2 DEF StartSubmitter, ToolStart, files
  <2>3. tool'[t] = [pc |-> "mint", todo |-> claims, made |-> {}, results |-> {}, uploads |-> uploads,
                    known |-> known, done |-> done]
    BY <1>1, <2>1
  <2>4. ToolOk(tool'[t], hosted, anchors)
    BY <1>1, <2>3 DEF ToolOk, Minting
  <2> QED
    BY <2>1, <2>2, <2>3, <2>4, QuietTool
<1>3. CASE CheckClaim(t)
  <2> DEFINE hash == Head(tool[t].todo).content
  <2>1. /\ tool[t].pc = "mint"
        /\ UNCHANGED <<run, uploadResults, mintResults, uploads, anchorResults, chain>>
    BY <1>3 DEF CheckClaim, files
  <2>2. CASE Anchored(hash) /\ Reported(t, hash, "already_minted")
    <3> HIDE DEF hash
    <3>1. /\ tool' = [tool EXCEPT ![t] = tool'[t]] /\ DOMAIN tool'[t] = Minting /\ tool'[t].pc = "mint"
          /\ tool'[t].made = tool[t].made \cup {[hash |-> hash, outcome |-> "already_minted"]}
          /\ tool'[t].uploads = tool[t].uploads /\ tool'[t].results = tool[t].results
      BY <1>1, <2>1, <2>2, ReportedShape
    <3>2. Trustworthy([hash |-> hash, outcome |-> "already_minted"], anchors)
      BY <2>2 DEF Trustworthy, Anchored
    <3>3. ToolOk(tool'[t], hosted, anchors)
      BY <1>1, <2>1, <3>1, <3>2 DEF ToolOk
    <3> QED
      BY <2>1, <3>1, <3>3, QuietTool
  <2>3. CASE tool' = [tool EXCEPT ![t].todo = Tail(@)] \/ tool' = [tool EXCEPT ![t].pc = "send"]
    <3>1. /\ tool' = [tool EXCEPT ![t] = tool'[t]] /\ DOMAIN tool'[t] = Minting
          /\ tool'[t].pc \in {"mint", "send"}
          /\ tool'[t].made = tool[t].made /\ tool'[t].uploads = tool[t].uploads /\ tool'[t].results = tool[t].results
      BY <1>1, <2>1, <2>3 DEF Minting
    <3>2. ToolOk(tool'[t], hosted, anchors)
      BY <1>1, <2>1, <3>1 DEF ToolOk
    <3> QED
      BY <2>1, <3>1, <3>2, QuietTool
  <2> QED
    BY <1>3, <2>2, <2>3, Zenon DEF CheckClaim
<1>4. CASE SendClaim(t)
  <2> DEFINE hash == Head(tool[t].todo).content
  <2>1. /\ tool[t].pc = "send"
        /\ UNCHANGED <<run, uploadResults, mintResults, uploads, anchorResults, hosted, tokens>>
    BY <1>4 DEF SendClaim, files
  <2>2. PICK outcome \in {"confirmed", "failed"} :
          /\ Reported(t, hash, outcome)
          /\ \/ MintReceipt(Signed(t)) /\ UNCHANGED late
             \/ UNCHANGED anchors /\ outcome = "failed" /\ late' \subseteq late \cup {Signed(t)}
    BY <1>4, Zenon DEF SendClaim
  <2>3. Backed(Signed(t), hosted) /\ Signed(t).hash = hash
    BY <1>1, <2>1, SignedBacked
  <2> HIDE DEF hash
  <2>4. /\ AnchorInv' /\ AnchorsGrow
        /\ Trustworthy([hash |-> hash, outcome |-> outcome], anchors')
    <3>1. CASE MintReceipt(Signed(t)) /\ UNCHANGED late
      <4>1. AnchorInv' /\ AnchorsGrow /\ \E i \in DOMAIN anchors' : anchors'[i].hash = hash
        BY <1>1, <2>1, <2>3, <3>1, AnchorMinted
      <4> QED
        BY <4>1 DEF Trustworthy
    <3>2. CASE UNCHANGED anchors /\ outcome = "failed" /\ late' \subseteq late \cup {Signed(t)}
      <4>1. AnchorsGrow
        BY <3>2 DEF AnchorsGrow
      <4>2. AnchorInv'
        BY <1>1, <2>1, <3>2, SignedIsLate
      <4>3. Trustworthy([hash |-> hash, outcome |-> outcome], anchors')
        BY <3>2 DEF Trustworthy
      <4> QED
        BY <4>1, <4>2, <4>3
    <3> QED
      BY <2>2, <3>1, <3>2
  <2>5. /\ tool' = [tool EXCEPT ![t] = tool'[t]] /\ DOMAIN tool'[t] = Minting /\ tool'[t].pc = "mint"
        /\ tool'[t].made = tool[t].made \cup {[hash |-> hash, outcome |-> outcome]}
        /\ tool'[t].uploads = tool[t].uploads /\ tool'[t].results = tool[t].results
    BY <1>1, <2>1, <2>2, ReportedShape
  <2>6. \A m \in tool[t].made \cup tool[t].results : Trustworthy(m, anchors')
    BY <1>1, <2>1, <2>4, Zenon DEF Trustworthy, AnchorsGrow
  <2>7. ToolOk(tool'[t], hosted', anchors')
    BY <1>1, <2>1, <2>4, <2>5, <2>6 DEF ToolOk
  <2>8. HostedGrows /\ \A u \in uploads' : ServedAs(u, hosted')
    BY <1>1, <2>1 DEF HostedGrows
  <2> QED
    BY <2>1, <2>4, <2>5, <2>7, <2>8, OneTool
<1>5. CASE ReadResults(t)
  <2>1. /\ tool[t].pc = "mint"
        /\ tool' = [tool EXCEPT ![t] = IF @.made = {} THEN Idle ELSE [@ EXCEPT !.pc = "append", !.results = anchorResults]]
        /\ UNCHANGED <<run, uploadResults, mintResults, uploads, anchorResults, chain>>
    BY <1>5 DEF ReadResults, files
  <2>2. /\ tool' = [tool EXCEPT ![t] = tool'[t]]
        /\ \/ tool'[t] = Idle
           \/ tool'[t] = [tool[t] EXCEPT !.pc = "append", !.results = anchorResults]
    BY <1>1, <2>1
  <2>3. \/ tool'[t] = Idle
        \/ /\ DOMAIN tool'[t] = Minting /\ tool'[t].pc = "append" /\ tool'[t].results = anchorResults
           /\ tool'[t].made = tool[t].made /\ tool'[t].uploads = tool[t].uploads
    BY <1>1, <2>1, <2>2 DEF Minting
  <2>4. ToolOk(tool'[t], hosted, anchors)
    BY <1>1, <2>1, <2>3 DEF ToolOk, Idle
  <2> QED
    BY <2>1, <2>2, <2>4, QuietTool
<1>6. CASE WriteResults(t)
  <2>1. /\ tool[t].pc = "append" /\ anchorResults' = tool[t].results \cup tool[t].made
        /\ tool' = [tool EXCEPT ![t] = Idle]
        /\ UNCHANGED <<run, uploadResults, mintResults, uploads, hosted, tokens, anchors, late>>
    BY <1>6 DEF WriteResults, chain
  <2>2. HostedGrows /\ AnchorsGrow
    BY <2>1 DEF HostedGrows, AnchorsGrow
  <2>3. tool'[t] = Idle /\ ToolOk(tool'[t], hosted', anchors')
    BY <1>1, <2>1 DEF ToolOk, Idle
  <2>4. AnchorInv'
    BY <1>1, <2>1 DEF AnchorInv, AnchorsAreFaithful
  <2>5. \A u \in uploads' : ServedAs(u, hosted')
    BY <1>1, <2>1
  <2> QED
    BY <2>1, <2>2, <2>3, <2>4, <2>5, OneTool
<1> QED
  BY <1>2, <1>3, <1>4, <1>5, <1>6

-----------------------------------------------------------------------------
(* The invariant.                                                           *)

(* Before the first invocation there is nothing to be wrong about.         *)
LEMMA Beginning ==
  ASSUME PipelineInit
  PROVE  PipelineInv
<1>1. /\ run = Idle /\ tool = [t \in Tools |-> Idle]
      /\ uploadResults = {} /\ mintResults = {} /\ anchorResults = {} /\ uploads = {}
      /\ tokens = <<>> /\ anchors = <<>> /\ late = {}
  BY DEF PipelineInit
<1>2. RunInv
  BY <1>1 DEF RunInv, Idle
<1>3. TokenInv
  BY <1>1 DEF TokenInv, Range
<1>4. AnchorInv
  BY <1>1 DEF AnchorInv, AnchorsAreFaithful, Range
<1>5. UploadInv /\ ToolInv
  BY <1>1 DEF UploadInv, ToolInv, ToolOk, Idle
<1> QED
  BY <1>2, <1>3, <1>4, <1>5 DEF PipelineInv

(* A process that is killed leaves the files as they are, and what it has  *)
(* signed on its way.                                                      *)
LEMMA CrashStep ==
  ASSUME PipelineInv, Crash
  PROVE  PipelineInv'
<1>1. UNCHANGED <<uploadResults, mintResults, uploads, anchorResults, hosted, tokens, anchors>>
  BY DEF Crash, files
<1>2. CASE run' = Idle /\ UNCHANGED <<tool, late>>
  BY <1>1, <1>2, CalmStep DEF Idle, chain
<1>3. CASE \E t \in Tools : /\ tool' = [tool EXCEPT ![t] = Idle] /\ UNCHANGED run
                            /\ late' = IF tool[t].pc = "send" THEN late \cup {Signed(t)} ELSE late
  <2>1. PICK t \in Tools : /\ tool' = [tool EXCEPT ![t] = Idle] /\ UNCHANGED run
                           /\ late' = IF tool[t].pc = "send" THEN late \cup {Signed(t)} ELSE late
    BY <1>3
  <2>2. ToolInv /\ AnchorInv /\ tool'[t] = Idle
    BY <2>1 DEF PipelineInv, ToolInv
  <2>3. ToolOk(tool'[t], hosted', anchors')
    BY <2>2 DEF ToolOk, Idle
  <2>4. HostedGrows /\ AnchorsGrow
    BY <1>1 DEF HostedGrows, AnchorsGrow
  <2>5. AnchorInv'
    <3>1. CASE tool[t].pc = "send"
      BY <1>1, <2>1, <2>2, <3>1, SignedIsLate
    <3>2. CASE tool[t].pc # "send"
      BY <1>1, <2>1, <2>2, <2>4, <3>2, AnchorsEndure
    <3> QED
      BY <3>1, <3>2
  <2>6. \A u \in uploads' : ServedAs(u, hosted')
    BY <1>1, <2>2 DEF ToolInv
  <2> QED
    BY <1>1, <2>1, <2>2, <2>3, <2>4, <2>5, <2>6, OneTool
<1> QED
  BY <1>2, <1>3 DEF Crash

(* Every step keeps the invariant.                                         *)
LEMMA PipelineInvNext ==
  ASSUME PipelineInv, [PipelineNext]_pipelineVars
  PROVE  PipelineInv'
<1>1. CASE UNCHANGED pipelineVars
  BY <1>1, CalmSteps
<1>2. CASE PipelineNext
  <2>1. CASE Crash
    BY <2>1, CrashStep
  <2>2. CASE \E t \in Tools : StartUploader(t) \/ ToolPut(t) \/ ToolReadUploads(t) \/ ToolWriteUploads(t)
    BY <2>2, UploaderSteps
  <2>3. CASE \E t \in Tools : \/ StartSubmitter(t) \/ CheckClaim(t) \/ SendClaim(t)
                              \/ ReadResults(t) \/ WriteResults(t)
    BY <2>3, SubmitterSteps
  <2> QED
    BY <1>2, <2>1, <2>2, <2>3, LandsStep, CalmSteps, UploadSteps, MintSteps, PutSteps, Zenon DEF PipelineNext
<1> QED
  BY <1>1, <1>2

(* The invariant holds throughout.                                         *)
THEOREM PipelineInvariance == PipelineSpec => []PipelineInv
<1>1. PipelineInit => PipelineInv
  BY Beginning
<1>2. PipelineInv /\ [PipelineNext]_pipelineVars => PipelineInv'
  BY PipelineInvNext
<1> QED
  BY <1>1, <1>2, PTL DEF PipelineSpec

(* What a reader goes by is of the receipt it names: a mint result, which  *)
(* alone links a token to its receipt, names a token minted for that       *)
(* receipt and the image and metadata made of it; an upload entry names    *)
(* what was made of the artifacts it was recorded with; and there is one   *)
(* anchor of a receipt, with metadata uploaded for its own hash, whatever  *)
(* was retried, killed, lost or run twice at once (mint-ready.mjs 58,      *)
(* arweave-upload.mjs 265, devnet-mint-adapter.mjs 162).                   *)
THEOREM RecordsShow == PipelineSpec => []RecordsShowTheirReceipts
<1>1. PipelineInv => RecordsShowTheirReceipts
  <2> SUFFICES ASSUME PipelineInv PROVE RecordsShowTheirReceipts
    OBVIOUS
  <2>1. MintResultsShowTheirReceipt
    BY DEF PipelineInv, TokenInv, MintShown, MintResultsShowTheirReceipt
  <2>2. ASSUME NEW e \in uploadResults
        PROVE  /\ e.image \cup e.metadata \subseteq hosted
               /\ \A image \in e.image :
                     image.of = e.imageHash /\ \A m \in e.metadata : m.of = FinalMetadata(e.templateHash, image)
    <3>1. Shown(e, hosted)
      BY DEF PipelineInv, UploadInv
    <3>2. \A image \in e.image : image = ImageOf(e) /\ image.of = e.imageHash
      BY <3>1 DEF Shown, ImageOf
    <3>3. \A m \in e.metadata : m.of = FinalMetadata(e.templateHash, ImageOf(e))
      BY <3>1 DEF Shown, MetadataOf
    <3> QED
      BY <3>1, <3>2, <3>3 DEF Shown
  <2>3. UploadsNameTheirArtifacts
    BY <2>2 DEF UploadsNameTheirArtifacts
  <2> QED
    BY <2>1, <2>3 DEF PipelineInv, AnchorInv, RecordsShowTheirReceipts
<1> QED
  BY <1>1, PipelineInvariance, PTL

(* What a later invocation or the proof manifest takes for granted is so:  *)
(* a mint result that is trusted has its anchor, what is called proven has *)
(* the token its mint result names, and what is called uploaded has its    *)
(* metadata hosted, though nobody asks whether the upload is of the        *)
(* receipt as it now is.                                                   *)
THEOREM TrustedResults == PipelineSpec => []TrustedResultsAreOnChain
<1> DEFINE Token(r) == \E e \in EntryOf(mintResults, Id(r)), i \in DOMAIN tokens : e.mint = {i} /\ Id(tokens[i]) = Id(r)
           Hosts(r) == \E u \in hosted : u.kind = "metadata" /\ u.of.name = Id(r)
           All == {ProofStatus(x) : x \in Range(run.proofs)}
<1>1. ASSUME PipelineInv, NEW r, ProofStatus(r) = "PROVEN"
      PROVE  Token(r)
  <2>1. ShouldSkipMint(Id(r))
    BY <1>1 DEF ProofStatus
  <2>2. PICK e \in EntryOf(mintResults, Id(r)) : e.status = "minted"
    BY <2>1 DEF ShouldSkipMint
  <2>3. e \in mintResults /\ e.id = Id(r)
    BY <2>2 DEF EntryOf
  <2>4. PICK i : e.mint = {i}
    BY <1>1, <2>2, <2>3 DEF PipelineInv, TokenInv, MintShown
  <2>5. i \in DOMAIN tokens /\ Id(tokens[i]) = Id(r)
    BY <1>1, <2>3, <2>4 DEF PipelineInv, TokenInv, MintShown
  <2> QED
    BY <2>2, <2>4, <2>5
<1>2. ASSUME PipelineInv, NEW r, ProofStatus(r) = "UPLOADED_NOT_MINTED"
      PROVE  Hosts(r)
  <2>1. UploadShown(Id(r))
    BY <1>2 DEF ProofStatus
  <2>2. PICK e \in uploadResults : e.id = Id(r) /\ e.metadata # {}
    BY <2>1 DEF UploadShown, EntryOf
  <2>3. Shown(e, hosted)
    BY <1>2 DEF PipelineInv, UploadInv
  <2>4. MetadataOf(e) \in hosted
    BY <2>2, <2>3 DEF Shown
  <2>5. MetadataOf(e).kind = "metadata" /\ MetadataOf(e).of.name = Id(r)
    BY <2>2, <2>3, FinalName DEF Shown, MetadataOf
  <2> QED
    BY <2>4, <2>5
<1>3. ASSUME SummaryStatus(All) = "FULL"
      PROVE  \A x \in Range(run.proofs) : ProofStatus(x) = "PROVEN"
  <2>1. All = {"PROVEN"}
    BY <1>3 DEF SummaryStatus
  <2> QED
    BY <2>1
<1>4. PipelineInv => TrustedResultsAreOnChain
  <2> SUFFICES ASSUME PipelineInv PROVE TrustedResultsAreOnChain
    OBVIOUS
  <2>1. \A m \in anchorResults : m.outcome # "failed" => Anchored(m.hash)
    BY DEF PipelineInv, AnchorInv, Trustworthy, Anchored
  <2>2. ASSUME NEW r \in Range(run.proofs)
        PROVE  /\ ProofStatus(r) = "PROVEN" \/ SummaryStatus(All) = "FULL" => Token(r)
               /\ ProofStatus(r) = "UPLOADED_NOT_MINTED" => Hosts(r)
    <3> HIDE DEF Token, Hosts, All
    <3> QED
      BY <1>1, <1>2, <1>3
  <2> QED
    BY <2>1, <2>2, Zenon DEF TrustedResultsAreOnChain
<1> QED
  BY <1>4, PipelineInvariance, PTL

=============================================================================
