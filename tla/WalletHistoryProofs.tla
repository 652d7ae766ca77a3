------------------------- MODULE WalletHistoryProofs -------------------------
(***************************************************************************)
(* What holds of the wallet-wide acquisition for every wallet, however the *)
(* chain grows, the listing catches up and the provider answers: that one  *)
(* request at a time is outstanding, and that a completed acquisition was  *)
(* never told two stories of a transaction it keeps and misses nothing it  *)
(* had to find in the listing.                                             *)
(***************************************************************************)
EXTENDS WalletHistory, SumTheorems

(* While the acquisition goes on it awaits exactly the requests that the   *)
(* transport has not settled; one that was given up may still be out.      *)
WireInv ==
  /\ wire \in 0..1
  /\ waiting \in BOOLEAN
  /\ Active /\ waiting => wire = 1
  /\ Active /\ ~waiting => wire = 0

(* The facts kept of a source are those every answer so far gave of it.    *)
(* During the first reading every transaction an answer spoke of is kept.  *)
StoryInv ==
  /\ phase \in {"slot", "block"} => told = {}
  /\ phase = "paginating" => \A p \in told : p[1] \in DOMAIN seen
  /\ phase # "failed" => \A p \in told : p[1] \in DOMAIN seen => p[2] = seen[p[1]]

HistoryInv == WireInv /\ StoryInv

-----------------------------------------------------------------------------

(* Nothing was asked and nothing was told at the start. *)
LEMMA InitHolds == Init => HistoryInv
<1> SUFFICES ASSUME Init PROVE HistoryInv
  OBVIOUS
<1>1. waiting \in BOOLEAN /\ ~waiting /\ wire = 0 /\ phase = "slot" /\ told = {}
  BY DEF Init
<1>2. wire \in 0..1
  BY <1>1
<1>3. WireInv
  BY <1>1, <1>2 DEF WireInv
<1> QED
  BY <1>1, <1>3 DEF HistoryInv, StoryInv

(* A step that hears nothing keeps the story, unless it is the acquisition *)
(* giving up.                                                              *)
LEMMA SilentStep ==
  ASSUME StoryInv, UNCHANGED <<told, seen>>,
         phase' \in {phase, "failed"} \/ (phase \in {"slot", "block"} /\ phase' \in {"block", "paginating"})
  PROVE  StoryInv'
BY DEF StoryInv

(* The transport settles the request the acquisition waits for. *)
LEMMA SettledStep ==
  ASSUME WireInv, Active, waiting, waiting' = FALSE, wire' = wire - 1
  PROVE  WireInv'
<1>1. wire = 1
  BY DEF WireInv
<1>2. wire' = 0 /\ wire' \in 0..1
  BY <1>1
<1>3. waiting' \in BOOLEAN /\ ~waiting'
  OBVIOUS
<1> QED
  BY <1>2, <1>3 DEF WireInv

(* The steps of the provider and of the request protocol. *)
LEMMA ProtocolStep ==
  ASSUME HistoryInv,
         \/ Finalize
         \/ \E t \in Transactions :
              Listed(t) \/ FullyIndexed(t) \/ Restate("listing", t) \/ Restate("full", t)
         \/ Ask \/ Refuse \/ AttemptFails \/ AttemptHangs \/ Deadline \/ Settles
         \/ FinalizedSlot \/ FinalizedBlock
  PROVE  HistoryInv'
<1>0. WireInv /\ StoryInv
  BY DEF HistoryInv
<1>1. CASE Finalize \/ \E t \in Transactions :
             Listed(t) \/ FullyIndexed(t) \/ Restate("listing", t) \/ Restate("full", t)
  <2>1. UNCHANGED <<phase, waiting, wire, told, seen>>
    BY <1>1 DEF Finalize, Listed, FullyIndexed, Restate, request, views
  <2> QED
    BY <1>0, <2>1, SilentStep DEF HistoryInv, WireInv, Active
<1>2. CASE Ask
  BY <1>0, <1>2, SilentStep DEF Ask, HistoryInv, WireInv, Active
<1>3. CASE Refuse \/ Deadline
  <2>1. /\ Active /\ ~waiting /\ phase' = "failed"
        /\ UNCHANGED <<waiting, wire, told, seen>>
    BY <1>3 DEF Refuse, Deadline, Fail, request, views
  <2> QED
    BY <1>0, <2>1, SilentStep DEF HistoryInv, WireInv, Active
<1>4. CASE AttemptFails
  <2>1. /\ Active /\ waiting /\ waiting' = FALSE /\ wire' = wire - 1 /\ phase' \in {phase, "failed"}
        /\ UNCHANGED <<told, seen>>
    BY <1>4 DEF AttemptFails, Fail, views
  <2> QED
    BY <1>0, <2>1, SilentStep, SettledStep DEF HistoryInv
<1>5. CASE AttemptHangs
  <2>1. Active /\ waiting /\ waiting' = FALSE /\ phase' = "failed" /\ UNCHANGED <<told, seen, wire>>
    BY <1>5 DEF AttemptHangs, Fail, views
  <2> QED
    BY <1>0, <2>1, SilentStep DEF HistoryInv, WireInv, Active
<1>6. CASE Settles
  <2>1. ~Active /\ wire > 0 /\ wire' = wire - 1 /\ UNCHANGED <<phase, waiting, told, seen>>
    BY <1>6 DEF Settles, views
  <2> QED
    BY <1>0, <2>1, SilentStep DEF HistoryInv, WireInv, Active
<1>7. CASE FinalizedSlot \/ FinalizedBlock
  <2>1. /\ Active /\ waiting /\ waiting' = FALSE /\ wire' = wire - 1
        /\ phase \in {"slot", "block"} /\ phase' \in {phase, "failed", "block", "paginating"}
        /\ UNCHANGED <<told, seen>>
    BY <1>7 DEF FinalizedSlot, FinalizedBlock, Answered, Fail, views
  <2> QED
    BY <1>0, <2>1, SilentStep, SettledStep DEF HistoryInv
<1> QED
  BY <1>1, <1>2, <1>3, <1>4, <1>5, <1>6, <1>7

(* The first reading keeps the facts of every source it hears of, once. *)
LEMMA PaginateStep ==
  ASSUME StoryInv, Paginate
  PROVE  StoryInv'
<1>1. PICK page \in Answers(listing, cursor) :
        /\ told' = told \cup {<<t, Facts("listing", t)>> : t \in ToSet(page)}
        /\ \/ phase' = "failed"
           \/ /\ Acceptable(page)
              /\ seen' = [t \in DOMAIN seen \cup ToSet(page) |->
                            IF t \in DOMAIN seen THEN seen[t] ELSE Facts("listing", t)]
              /\ phase' \in {phase, "recheck", "failed"}
  BY DEF Paginate, Fail
<1>2. phase = "paginating"
  BY DEF Paginate
<1>3. CASE phase' = "failed"
  BY <1>3 DEF StoryInv
<1>4. CASE phase' # "failed"
  <2> SUFFICES ASSUME NEW p \in told' PROVE p[1] \in DOMAIN seen' /\ p[2] = seen'[p[1]]
    BY <1>1, <1>2, <1>4 DEF StoryInv
  <2>1. \A t \in ToSet(page) : t \notin DOMAIN seen
    BY <1>1, <1>4 DEF Acceptable
  <2>2. CASE p \in told
    BY <1>1, <1>2, <1>4, <2>2 DEF StoryInv
  <2>3. ASSUME NEW t \in ToSet(page), p = <<t, Facts("listing", t)>>
        PROVE  p[1] \in DOMAIN seen' /\ p[2] = seen'[p[1]]
    BY <1>1, <1>4, <2>1, <2>3
  <2> QED
    BY <1>1, <2>2, <2>3
<1> QED
  BY <1>3, <1>4

(* The later readings go on only while every answer agrees with what is    *)
(* kept of the source.                                                     *)
LEMMA AgreeingStep ==
  ASSUME StoryInv, seen' = seen, phase \in {"recheck", "full", "exact"},
         phase' \in {"recheck", "full", "exact", "complete", "failed"},
         phase' # "failed" =>
           \A p \in told' : p \in told \/ (p[1] \in DOMAIN seen => p[2] = seen[p[1]])
  PROVE  StoryInv'
BY DEF StoryInv

(* The second reading of the listing. *)
LEMMA RecheckStep ==
  ASSUME StoryInv, Recheck
  PROVE  StoryInv'
<1>1. PICK page \in Answers(listing, cursor) :
        /\ told' = told \cup {<<t, Facts("listing", t)>> : t \in ToSet(page)}
        /\ \/ phase' = "failed"
           \/ Consistent(page) /\ phase' \in {"recheck", "full", "complete"}
  BY DEF Recheck, Fail
<1>2. phase = "recheck" /\ seen' = seen
  BY DEF Recheck
<1>3. ASSUME phase' # "failed", NEW p \in told', p \notin told PROVE p[1] \in DOMAIN seen => p[2] = seen[p[1]]
  <2>1. PICK t \in ToSet(page) : p = <<t, Facts("listing", t)>>
    BY <1>1, <1>3
  <2>2. t \in DOMAIN seen => seen[t] = Facts("listing", t)
    BY <1>1, <1>3 DEF Consistent
  <2> QED
    BY <2>1, <2>2
<1> QED
  BY <1>1, <1>2, <1>3, AgreeingStep

(* A page of full transactions. *)
LEMMA FullPageStep ==
  ASSUME StoryInv, FullPage
  PROVE  StoryInv'
<1>1. PICK page \in Answers(FullPages, cursor) :
        /\ told' = told \cup {<<t, Facts("full", t)>> : t \in ToSet(page) \cap Authoritative}
        /\ \/ phase' = "failed"
           \/ /\ \A t \in ToSet(page) \cap Authoritative : Facts("full", t) = seen[t]
              /\ phase' \in {"full", "exact", "complete", "failed"}
  BY DEF FullPage, Fail, PagesEnd, Classified
<1>2. phase = "full" /\ seen' = seen
  BY DEF FullPage, views
<1>3. ASSUME phase' # "failed", NEW p \in told', p \notin told PROVE p[1] \in DOMAIN seen => p[2] = seen[p[1]]
  <2>1. PICK t \in ToSet(page) \cap Authoritative : p = <<t, Facts("full", t)>>
    BY <1>1, <1>3
  <2> QED
    BY <1>1, <1>3, <2>1
<1> QED
  BY <1>1, <1>2, <1>3, AgreeingStep

(* The exact request of a missing transaction. *)
LEMMA ExactStep ==
  ASSUME StoryInv, Exact
  PROVE  StoryInv'
<1> DEFINE t == Newest(Missing)
<1>1. /\ phase = "exact" /\ seen' = seen
      /\ \/ phase' = "failed"
         \/ /\ told' = told \cup {<<t, Facts("full", t)>>}
            /\ Facts("full", t) = seen[t]
            /\ phase' \in {"exact", "complete", "failed"}
  BY DEF Exact, Fail, Classified, views
<1> HIDE DEF t
<1> QED
  BY <1>1, AgreeingStep

(* Every step keeps the invariant. *)
LEMMA HistoryStep == HistoryInv /\ [Next]_vars => HistoryInv'
<1> SUFFICES ASSUME HistoryInv, [Next]_vars PROVE HistoryInv'
  OBVIOUS
<1>1. CASE Paginate \/ Recheck \/ FullPage \/ Exact
  <2>1. Answered
    BY <1>1 DEF Paginate, Recheck, FullPage, Exact
  <2> QED
    BY <1>1, <2>1, SettledStep, PaginateStep, RecheckStep, FullPageStep, ExactStep DEF HistoryInv, Answered
<1>2. CASE UNCHANGED vars
  BY <1>2 DEF vars, request, views, HistoryInv, WireInv, StoryInv, Active
<1> QED
  BY <1>1, <1>2, ProtocolStep DEF Next

(* At most one request is ever outstanding at the provider. *)
THEOREM OneRequest == Spec => []OneRequestAtATime
<1>1. HistoryInv => OneRequestAtATime
  BY DEF HistoryInv, WireInv, OneRequestAtATime
<1> QED
  BY <1>1, InitHolds, HistoryStep, PTL DEF Spec

(* A completed acquisition heard one story of each of its transactions.    *)
THEOREM OneStory == Spec => []CompletedHeardOneStory
<1>1. HistoryInv => CompletedHeardOneStory
  BY DEF HistoryInv, StoryInv, CompletedHeardOneStory, Authoritative
<1> QED
  BY <1>1, InitHolds, HistoryStep, PTL DEF Spec

-----------------------------------------------------------------------------
(* The pages *)

(* Of some transactions one is the newest. *)
LEMMA NewestExists ==
  ASSUME NEW S, S \subseteq Transactions, S # {}
  PROVE  \E m \in S : \A t \in S : t <= m
<1> DEFINE L == Len(SlotOf)
           T == {L - t : t \in S}
<1>1. L \in Nat /\ Transactions = 1..L
  BY HistoryBounds DEF Transactions
<1> HIDE DEF L
<1>2. PICK x \in T : \A y \in T : x <= y
  <2>1. \A t \in S : L - t \in Nat
    BY <1>1
  <2>2. T \subseteq Nat /\ T # {}
    BY <2>1
  <2> HIDE DEF T
  <2> QED
    BY <2>2, NatMin
<1>3. PICK m \in S : x = L - m
  OBVIOUS
<1>4. ASSUME NEW t \in S PROVE t <= m
  <2>1. L - m <= L - t
    BY <1>2, <1>3
  <2>2. m \in 1..L /\ t \in 1..L
    BY <1>1
  <2> QED
    BY <1>1, <2>1, <2>2
<1> QED
  BY <1>4

(* A page of at most n entries. *)
PageTo(n, page, older) ==
  /\ DOMAIN page \in {1..k : k \in 0..n} /\ \A i \in DOMAIN page : page[i] \in older
  /\ \A i, j \in DOMAIN page : i < j => page[i] > page[j]
  /\ \A t \in older \ ToSet(page) : DOMAIN page = 1..n /\ \A u \in ToSet(page) : t < u

(* There is one for every n: the newest entry left continues a page. *)
LEMMA PagesExist ==
  ASSUME NEW older, older \subseteq Transactions, NEW n \in Nat
  PROVE  \E page : page = [i \in DOMAIN page |-> page[i]] /\ PageTo(n, page, older)
<1> DEFINE Good(k) == \E page : page = [i \in DOMAIN page |-> page[i]] /\ PageTo(k, page, older)
           T == {k \in Nat : ~ Good(k)}
<1> SUFFICES ASSUME T # {} PROVE FALSE
  OBVIOUS
<1>1. PICK k \in T : \A j \in T : k <= j
  <2>1. T \subseteq Nat
    OBVIOUS
  <2> HIDE DEF T
  <2> QED
    BY <2>1, NatMin
<1>2. k \in Nat /\ ~ Good(k)
  OBVIOUS
<1>3. CASE k = 0
  <2> DEFINE p == [i \in 1..0 |-> 0]
  <2>1. DOMAIN p = {} /\ 1..0 = {} /\ p = [i \in DOMAIN p |-> p[i]]
    OBVIOUS
  <2>2. DOMAIN p = 1..0
    OBVIOUS
  <2> HIDE DEF p
  <2>3. ToSet(p) = {}
    BY <2>1 DEF ToSet
  <2>4. PageTo(0, p, older)
    BY <2>1, <2>2, <2>3 DEF PageTo
  <2> QED
    BY <1>2, <1>3, <2>1, <2>4
<1>4. CASE k # 0
  <2>1. k - 1 \in Nat /\ k - 1 \notin T
    BY <1>1, <1>2, <1>4
  <2>2. PICK p : p = [i \in DOMAIN p |-> p[i]] /\ PageTo(k - 1, p, older)
    BY <2>1
  <2>3. PICK d \in 0..(k - 1) : DOMAIN p = 1..d
    BY <2>2 DEF PageTo
  <2> DEFINE rest == older \ ToSet(p)
  <2>4. CASE rest = {}
    <3>1. d \in 0..k
      BY <1>2, <2>3
    <3>2. PageTo(k, p, older)
      BY <2>2, <2>3, <2>4, <3>1 DEF PageTo
    <3> QED
      BY <1>2, <2>2, <3>2
  <2>5. CASE rest # {}
    <3>1. DOMAIN p = 1..(k - 1) /\ \A t \in rest : \A u \in ToSet(p) : t < u
      BY <2>2, <2>5 DEF PageTo
    <3>2. PICK m \in rest : \A t \in rest : t <= m
      <4>1. rest \subseteq Transactions
        OBVIOUS
      <4> HIDE DEF rest
      <4> QED
        BY <2>5, <4>1, NewestExists
    <3> DEFINE q == [i \in 1..k |-> IF i = k THEN m ELSE p[i]]
    <3>3. DOMAIN q = 1..k /\ q = [i \in DOMAIN q |-> q[i]]
      OBVIOUS
    <3>4. \A i \in 1..k : q[i] = IF i = k THEN m ELSE p[i]
      OBVIOUS
    <3> HIDE DEF q, T
    <3>5. \A i \in 1..(k - 1) : i \in DOMAIN p /\ i \in 1..k /\ i # k /\ q[i] = p[i] /\ p[i] \in ToSet(p) /\ p[i] \in older
      BY <1>2, <2>1, <2>2, <3>1, <3>4 DEF PageTo, ToSet
    <3>6. \A i \in 1..k : i = k \/ i \in 1..(k - 1)
      BY <1>2
    <3>7. k \in 1..k /\ q[k] = m /\ m \in older
      BY <1>2, <1>4, <3>4
    <3>8. ToSet(q) = ToSet(p) \cup {m}
      <4>1. ASSUME NEW x \in ToSet(q) PROVE x \in ToSet(p) \cup {m}
        BY <3>3, <3>5, <3>6, <3>7 DEF ToSet
      <4>2. ASSUME NEW x \in ToSet(p) PROVE x \in ToSet(q)
        <5>1. PICK i \in 1..(k - 1) : x = p[i]
          BY <3>1 DEF ToSet
        <5> QED
          BY <3>3, <3>5, <5>1 DEF ToSet
      <4>3. m \in ToSet(q)
        BY <3>3, <3>7 DEF ToSet
      <4> QED
        BY <4>1, <4>2, <4>3
    <3>9. \A i \in DOMAIN q : q[i] \in older
      BY <3>3, <3>5, <3>6, <3>7
    <3>10. ASSUME NEW i \in DOMAIN q, NEW j \in DOMAIN q, i < j PROVE q[i] > q[j]
      <4>1. i \in 1..k /\ j \in 1..k /\ i \in 1..(k - 1)
        BY <1>2, <3>3, <3>10
      <4>2. CASE j = k
        <5>1. q[j] = m /\ q[i] = p[i] /\ p[i] \in ToSet(p)
          BY <3>5, <3>7, <4>1, <4>2
        <5>2. m < p[i]
          BY <3>1, <5>1
        <5>3. m \in Int /\ p[i] \in Int
          <6>1. m \in Transactions /\ p[i] \in Transactions
            BY <3>5, <3>7, <4>1
          <6> QED
            BY <6>1, HistoryBounds DEF Transactions
        <5> QED
          BY <5>1, <5>2, <5>3
      <4>3. CASE j # k
        <5>1. j \in 1..(k - 1)
          BY <3>6, <4>1, <4>3
        <5>2. p[i] > p[j] /\ q[i] = p[i] /\ q[j] = p[j]
          BY <2>2, <3>5, <3>10, <4>1, <5>1 DEF PageTo
        <5> QED
          BY <5>2
      <4> QED
        BY <4>2, <4>3
    <3>11. ASSUME NEW t \in older \ ToSet(q), NEW u \in ToSet(q) PROVE t < u
      <4>1. t \in rest /\ t # m
        BY <3>8
      <4>2. CASE u \in ToSet(p)
        BY <3>1, <4>1, <4>2
      <4>3. CASE u = m
        <5>1. t <= m
          BY <3>2, <4>1
        <5>2. t \in Int /\ m \in Int
          <6>1. m \in Transactions /\ t \in Transactions
            BY <3>7
          <6> QED
            BY <6>1, HistoryBounds DEF Transactions
        <5> QED
          BY <4>1, <4>3, <5>1, <5>2
      <4> QED
        BY <3>8, <4>2, <4>3
    <3>12. DOMAIN q \in {1..e : e \in 0..k}
      <4>1. k \in 0..k
        BY <1>2
      <4> QED
        BY <3>3, <4>1
    <3>13. PageTo(k, q, older)
      BY <3>3, <3>9, <3>10, <3>11, <3>12 DEF PageTo
    <3> QED
      BY <1>2, <3>3, <3>13
  <2> QED
    BY <2>4, <2>5
<1> QED
  BY <1>3, <1>4

(* What an answer tells of the entries older than before. *)
Covers(page, S, before) ==
  /\ Len(page) \in 0..PageSize /\ ToSet(page) \subseteq {t \in S : t < before}
  /\ Len(page) # 0 => Last(page) \in ToSet(page)
  /\ \A t \in S : t < before /\ t \notin ToSet(page) =>
       Len(page) = PageSize /\ \A u \in ToSet(page) : t < u

(* A page leaves out only what is older than a full page, *)
LEMMA PagesCover ==
  ASSUME NEW S, S \subseteq Transactions, NEW before
  PROVE  Covers(Page(S, before), S, before) /\ Covers(Reverse(Page(S, before)), S, before)
<1> DEFINE older == {t \in S : t < before}
           page == Page(S, before)
           back == Reverse(page)
<1>1. PageSize \in Nat \ {0}
  BY HistoryBounds
<1>2. page \in SeqOf(older, PageSize) /\ IsPage(page, older)
  <2> DEFINE IsOne(p) == p \in SeqOf(older, PageSize) /\ IsPage(p, older)
  <2>1. PICK p : p = [i \in DOMAIN p |-> p[i]] /\ PageTo(PageSize, p, older)
    <3>1. older \subseteq Transactions
      OBVIOUS
    <3> HIDE DEF older
    <3> QED
      BY <1>1, <3>1, PagesExist
  <2> HIDE DEF older
  <2>2. PICK d \in 0..PageSize : DOMAIN p = 1..d
    BY <2>1 DEF PageTo
  <2>3. p \in [1..d -> older] /\ Len(p) = d
    BY <2>1, <2>2 DEF PageTo
  <2>4. p \in SeqOf(older, PageSize)
    BY <2>2, <2>3 DEF SeqOf
  <2>5. DOMAIN p = 1..PageSize => Len(p) = PageSize
    <3>1. ASSUME DOMAIN p = 1..PageSize PROVE d = PageSize
      <4>1. PageSize \in 1..PageSize
        BY <1>1
      <4>2. PageSize \in 1..d
        BY <2>2, <3>1, <4>1
      <4> QED
        BY <1>1, <2>2, <4>2
    <3> QED
      BY <2>3, <3>1
  <2>6. IsPage(p, older)
    BY <2>1, <2>5 DEF PageTo, IsPage
  <2>7. IsOne(p)
    BY <2>4, <2>6
  <2>8. page = CHOOSE q \in SeqOf(older, PageSize) : IsPage(q, older)
    BY DEF Page, older
  <2> QED
    BY <2>7, <2>8
<1> HIDE DEF older, page
<1>3. PICK d \in 0..PageSize : page \in [1..d -> older]
  BY <1>2 DEF SeqOf
<1>4. DOMAIN page = 1..d /\ Len(page) = d /\ d \in Nat
  BY <1>1, <1>3
<1>5. \A t \in older : t \notin ToSet(page) => d = PageSize /\ \A u \in ToSet(page) : t < u
  BY <1>2, <1>4 DEF IsPage
<1>6. ToSet(page) \subseteq older
  BY <1>3, <1>4 DEF ToSet
<1>7. d # 0 => Last(page) \in ToSet(page)
  <2>1. d # 0 => d \in 1..d
    BY <1>4
  <2> QED
    BY <1>4, <2>1 DEF Last, ToSet
<1>8. back = [i \in 1..d |-> page[(d - i) + 1]]
  BY <1>4 DEF Reverse
<1>9. DOMAIN back = 1..d /\ Len(back) = d /\ \A i \in 1..d : (d - i) + 1 \in 1..d /\ back[i] = page[(d - i) + 1]
  BY <1>4, <1>8
<1> HIDE DEF back
<1>10. ToSet(back) = ToSet(page)
  <2>1. ToSet(back) \subseteq ToSet(page)
    BY <1>4, <1>9 DEF ToSet
  <2>2. ASSUME NEW i \in 1..d PROVE page[i] \in ToSet(back)
    <3>1. (d - i) + 1 \in 1..d /\ (d - ((d - i) + 1)) + 1 = i
      BY <1>4
    <3>2. back[(d - i) + 1] = page[i]
      BY <1>9, <3>1
    <3> QED
      BY <1>9, <3>1, <3>2 DEF ToSet
  <2> QED
    BY <1>4, <2>1, <2>2 DEF ToSet
<1>11. d # 0 => Last(back) \in ToSet(back)
  <2>1. d # 0 => d \in 1..d
    BY <1>4
  <2> QED
    BY <1>9, <2>1 DEF Last, ToSet
<1>12. older = {t \in S : t < before}
  BY DEF older
<1>13. Covers(page, S, before)
  BY <1>3, <1>4, <1>5, <1>6, <1>7, <1>12 DEF Covers
<1>14. Covers(back, S, before)
  BY <1>3, <1>5, <1>6, <1>9, <1>10, <1>11, <1>12 DEF Covers
<1> QED
  BY <1>13, <1>14 DEF back, page

(* and so does an answer of a provider that reversed it, or lost the       *)
(* cursor: it is then the newest page.                                     *)
LEMMA AnswersCover ==
  ASSUME NEW S, S \subseteq Transactions, NEW before, NEW page \in Answers(S, before)
  PROVE  Covers(page, S, before) \/ Covers(page, S, Newer)
BY PagesCover DEF Answers

(* What is older than a transaction before the window is before it too. *)
LEMMA OlderIsOutside ==
  ASSUME anchor \in Slots, NEW t \in Transactions, NEW u \in Transactions, t <= u, ~ InWindow(u)
  PROVE  ~ InWindow(t)
<1>1. SlotOf[t] \in Slots /\ SlotOf[u] \in Slots /\ SlotOf[t] <= SlotOf[u]
  BY HistoryBounds DEF Transactions
<1>2. \A i, j \in Slots : i <= j => TimeOf[i] <= TimeOf[j]
  BY HistoryBounds
<1>3. \A s \in Slots : TimeOf[s] \in Nat
  BY HistoryBounds DEF Slots
<1>4. Lookback \in Nat /\ ~ (TimeOf[SlotOf[u]] >= TimeOf[anchor] - Lookback)
  BY HistoryBounds DEF InWindow, Time, Oldest
<1>5. ~ (TimeOf[SlotOf[t]] >= TimeOf[anchor] - Lookback)
  <2>1. /\ TimeOf[SlotOf[t]] \in Nat /\ TimeOf[SlotOf[u]] \in Nat /\ TimeOf[anchor] \in Nat
        /\ TimeOf[SlotOf[t]] <= TimeOf[SlotOf[u]]
    BY <1>1, <1>2, <1>3
  <2> QED
    BY <1>4, <2>1
<1> QED
  BY <1>5 DEF InWindow, Time, Oldest

-----------------------------------------------------------------------------
(* The readings *)

(* The phases after the first reading.                                     *)
Underway == {"recheck", "full", "exact", "complete"}

(* A reading that goes on has taken all the listing held when it began and *)
(* that is not older than its cursor, and what is done was read to its end.*)
ReadingInv ==
  /\ tip \in Slots /\ (phase \notin {"slot", "failed"} => anchor \in Slots)
  /\ first \subseteq listing /\ second \subseteq listing /\ listing \subseteq Transactions
  /\ cursor # Newer /\ phase \in {"paginating", "recheck"} => cursor \in listing
  /\ phase \in {"slot", "block", "paginating"} => again = {} /\ second = {}
  /\ phase \in {"slot", "block"} => cursor = Newer
  /\ phase = "paginating" =>
       /\ cursor # Newer => cursor \in DOMAIN seen /\ InWindow(cursor)
       /\ \A t \in first : t >= cursor => t \in DOMAIN seen
  /\ phase \in Underway => \A t \in first : InWindow(t) => t \in DOMAIN seen
  /\ phase = "recheck" =>
       /\ cursor # Newer => cursor \in again
       /\ \A t \in second : t >= cursor => t \in again
       /\ \A t \in again : AtOrBelow(t) => t \in DOMAIN seen
  /\ phase \in Underway \ {"recheck"} =>
       \A t \in second : t >= floor /\ AtOrBelow(t) => t \in DOMAIN seen

(* Nothing was read at the start. *)
LEMMA InitReads == Init => ReadingInv
<1> SUFFICES ASSUME Init PROVE ReadingInv
  OBVIOUS
<1>1. /\ tip \in Slots /\ phase = "slot" /\ first = {} /\ second = {} /\ again = {} /\ cursor = Newer
      /\ listing \subseteq Transactions
  BY HistoryBounds DEF Init
<1> QED
  BY <1>1 DEF ReadingInv, Underway

(* No transaction is as new as the head of the listing. *)
LEMMA NewerIsNewer == Transactions \subseteq Nat /\ Newer \in Nat /\ \A t \in Transactions : t < Newer
BY HistoryBounds DEF Transactions, Newer

(* A step that does not read keeps what was read, unless it is the         *)
(* acquisition giving up.                                                  *)
LEMMA IdleStep ==
  ASSUME ReadingInv, tip' \in Slots, listing \subseteq listing', listing' \subseteq Transactions,
         UNCHANGED <<anchor, cursor, seen, floor, again, first, second>>, phase' \in {phase, "failed"}
  PROVE  ReadingInv'
<1>1. CASE phase' = phase
  BY <1>1 DEF ReadingInv, Underway, InWindow, AtOrBelow, Oldest, Time
<1>2. CASE phase' = "failed"
  <2>1. first' \subseteq listing' /\ second' \subseteq listing'
    BY DEF ReadingInv
  <2> QED
    BY <1>2, <2>1 DEF ReadingInv, Underway
<1> QED
  BY <1>1, <1>2

(* A reading begins with the first request for its first page. *)
LEMMA AskReads ==
  ASSUME ReadingInv, Ask
  PROVE  ReadingInv'
<1>1. /\ UNCHANGED <<tip, listing, anchor, cursor, seen, floor, again, phase>>
      /\ first' = IF phase = "paginating" /\ cursor = Newer THEN listing ELSE first
      /\ second' = IF phase = "recheck" /\ cursor = Newer THEN listing ELSE second
  BY DEF Ask, provider, reading
<1>2. /\ first' \subseteq listing' /\ second' \subseteq listing' /\ listing' \subseteq Transactions
      /\ phase \in {"slot", "block", "paginating"} => second' = {}
  BY <1>1 DEF ReadingInv
<1>3. phase = "paginating" => \A t \in first' : t >= cursor => t \in DOMAIN seen
  <2>1. CASE cursor = Newer
    BY <1>1, <1>2, <2>1, NewerIsNewer
  <2>2. CASE cursor # Newer
    BY <1>1, <2>2 DEF ReadingInv
  <2> QED
    BY <2>1, <2>2
<1>4. phase = "recheck" => \A t \in second' : t >= cursor => t \in again
  <2>1. CASE cursor = Newer
    BY <1>1, <1>2, <2>1, NewerIsNewer
  <2>2. CASE cursor # Newer
    BY <1>1, <2>2 DEF ReadingInv
  <2> QED
    BY <2>1, <2>2
<1>5. phase \in Underway => first' = first
  BY <1>1 DEF Underway
<1>6. phase \in Underway \ {"recheck"} => second' = second
  BY <1>1
<1> QED
  BY <1>1, <1>2, <1>3, <1>4, <1>5, <1>6 DEF ReadingInv, Underway, InWindow, AtOrBelow, Oldest, Time

(* The anchor is a slot, and nothing was read before it is found. *)
LEMMA AnchorReads ==
  ASSUME ReadingInv, FinalizedSlot \/ FinalizedBlock
  PROVE  ReadingInv'
<1>1. UNCHANGED <<tip, listing, cursor, seen, floor, again, first, second>>
  BY DEF FinalizedSlot, FinalizedBlock, provider, reading, views
<1>2. /\ phase \in {"slot", "block"} /\ phase' \in {"block", "paginating", "failed"}
      /\ phase' # "failed" => anchor' \in Slots
  <2>1. CASE FinalizedSlot
    BY <2>1 DEF FinalizedSlot, ReadingInv
  <2>2. CASE FinalizedBlock
    BY <2>2 DEF FinalizedBlock, ReadingInv, Fail
  <2> QED
    BY <2>1, <2>2
<1>3. again = {} /\ second = {} /\ cursor = Newer /\ first \subseteq listing /\ listing \subseteq Transactions /\ tip \in Slots
  BY <1>2 DEF ReadingInv
<1>4. \A t \in first : ~ (t >= cursor)
  BY <1>3, NewerIsNewer
<1> QED
  BY <1>1, <1>2, <1>3, <1>4 DEF ReadingInv, Underway

(* An accepted page of the first reading leaves out nothing it passes. *)
LEMMA PaginateReads ==
  ASSUME ReadingInv, Paginate
  PROVE  ReadingInv'
<1>1. PICK page \in Answers(listing, cursor) :
        \/ phase' = "failed"
        \/ /\ Acceptable(page)
           /\ seen' = [t \in DOMAIN seen \cup ToSet(page) |->
                         IF t \in DOMAIN seen THEN seen[t] ELSE Facts("listing", t)]
           /\ \/ Reached(page) /\ phase' = "recheck" /\ cursor' = Newer
              \/ ~ Reached(page) /\ phase' = phase /\ cursor' = Last(page)
  BY DEF Paginate, Fail, Restart
<1>2. phase = "paginating" /\ UNCHANGED <<tip, listing, anchor, again, first, second>>
  BY DEF Paginate, provider
<1>3. CASE phase' = "failed"
  BY <1>2, <1>3 DEF ReadingInv, Underway
<1>4. CASE phase' # "failed"
  <2>1. /\ tip \in Slots /\ anchor \in Slots
        /\ first \subseteq listing /\ listing \subseteq Transactions /\ second = {} /\ again = {}
        /\ cursor # Newer => cursor \in listing /\ cursor \in DOMAIN seen /\ InWindow(cursor)
        /\ \A t \in first : t >= cursor => t \in DOMAIN seen
    BY <1>2 DEF ReadingInv
  <2>nat. cursor \in Nat /\ \A t \in listing : t \in Transactions /\ t \in Nat
    <3>1. \A t \in listing : t \in Transactions /\ t \in Nat
      BY <2>1, NewerIsNewer
    <3>2. cursor = Newer \/ cursor \in listing
      BY <2>1
    <3> QED
      BY <3>1, <3>2, NewerIsNewer
  <2>2. Covers(page, listing, cursor) \/ (cursor # Newer /\ Covers(page, listing, Newer))
    BY <2>1, AnswersCover
  <2> DEFINE P == ToSet(page)
             n == Len(page)
  <2>3. /\ n \in Nat /\ P \subseteq listing /\ (n # 0 => Last(page) \in P)
        /\ PageSize \in Nat \ {0}
    BY <2>2, HistoryBounds DEF Covers
  <2>4. /\ \A t \in P : t \notin DOMAIN seen
        /\ DOMAIN seen' = DOMAIN seen \cup P
    BY <1>1, <1>4 DEF Acceptable
  <2>5. Reached(page) <=> (\E t \in P : ~ InWindow(t)) \/ n < PageSize
    BY DEF Reached
  <2>6. ASSUME NEW t \in first, t \notin DOMAIN seen, t \notin P
        PROVE  n = PageSize /\ (\A u \in P : t < u) /\ ((\E u \in P : ~ InWindow(u)) => ~ InWindow(t))
    <3>1. t \in Transactions /\ t \in listing /\ ~ (t >= cursor)
      BY <2>1, <2>6
    <3>2. CASE Covers(page, listing, cursor)
      <4>1. t < cursor
        BY <2>nat, <3>1
      <4>2. n = PageSize /\ \A u \in P : t < u
        BY <2>6, <3>1, <3>2, <4>1 DEF Covers
      <4>3. ASSUME NEW u \in P, ~ InWindow(u) PROVE ~ InWindow(t)
        <5>1. t <= u /\ u \in Transactions
          BY <2>nat, <2>3, <3>1, <4>2
        <5> QED
          BY <2>1, <3>1, <4>3, <5>1, OlderIsOutside
      <4> QED
        BY <4>2, <4>3
    <3>3. CASE cursor # Newer /\ Covers(page, listing, Newer)
      <4>1. cursor \in listing /\ cursor \in Transactions /\ cursor < Newer /\ cursor \notin P /\ InWindow(cursor)
        BY <2>1, <2>4, <3>3, NewerIsNewer
      <4>2. n = PageSize /\ \A u \in P : cursor < u
        BY <3>3, <4>1 DEF Covers
      <4>3. \A u \in P : InWindow(u)
        <5> SUFFICES ASSUME NEW u \in P, ~ InWindow(u) PROVE FALSE
          OBVIOUS
        <5>1. cursor <= u /\ u \in Transactions
          <6>1. cursor < u
            BY <4>2
          <6>2. u \in Transactions /\ u \in Nat /\ cursor \in Nat
            BY <2>nat, <2>3
          <6> QED
            BY <6>1, <6>2
        <5> QED
          BY <2>1, <4>1, <5>1, OlderIsOutside
      <4>4. \A u \in P : t < u
        <5> SUFFICES ASSUME NEW u \in P PROVE t < u
          OBVIOUS
        <5>1. cursor < u /\ u \in Nat /\ t \in Nat
          BY <2>nat, <2>3, <3>1, <4>2
        <5> QED
          BY <2>nat, <3>1, <5>1
      <4> QED
        BY <4>2, <4>3, <4>4
    <3> QED
      BY <2>2, <3>2, <3>3
  <2> HIDE DEF P, n
  <2>7. CASE Reached(page) /\ phase' = "recheck" /\ cursor' = Newer
    <3>1. ASSUME NEW t \in first, InWindow(t) PROVE t \in DOMAIN seen'
      <4>1. CASE t \in DOMAIN seen \/ t \in P
        BY <2>4, <4>1
      <4>2. CASE t \notin DOMAIN seen /\ t \notin P
        <5>1. n = PageSize /\ ~ \E u \in P : ~ InWindow(u)
          BY <2>6, <3>1, <4>2
        <5> QED
          BY <2>3, <2>5, <2>7, <5>1
      <4> QED
        BY <4>1, <4>2
    <3>2. \A t \in second' : ~ (t >= cursor')
      BY <1>2, <2>1
    <3>3. \A t \in first' : InWindow(t)' => t \in DOMAIN seen'
      BY <1>2, <3>1 DEF InWindow, Oldest, Time
    <3> QED
      BY <1>2, <2>1, <2>7, <3>2, <3>3 DEF ReadingInv, Underway
  <2>8. CASE ~ Reached(page) /\ phase' = phase /\ cursor' = Last(page)
    <3>1. n # 0 /\ \A t \in P : InWindow(t)
      BY <2>3, <2>5, <2>8
    <3>2. cursor' \in P /\ cursor' \in listing /\ cursor' \in DOMAIN seen' /\ InWindow(cursor')
      BY <2>3, <2>4, <2>8, <3>1
    <3>3. ASSUME NEW t \in first, t >= cursor' PROVE t \in DOMAIN seen'
      <4>1. CASE t \in DOMAIN seen \/ t \in P
        BY <2>4, <4>1
      <4>2. CASE t \notin DOMAIN seen /\ t \notin P
        <5>1. t < cursor'
          BY <2>6, <3>2, <4>2
        <5>2. t \in Nat /\ cursor' \in Nat
          BY <2>1, <3>2, NewerIsNewer
        <5> QED
          BY <3>3, <5>1, <5>2
      <4> QED
        BY <4>1, <4>2
    <3>4. InWindow(cursor)'
      BY <1>2, <3>2 DEF InWindow, Oldest, Time
    <3> QED
      BY <1>2, <2>1, <2>8, <3>2, <3>3, <3>4 DEF ReadingInv, Underway
  <2> QED
    BY <1>1, <1>4, <2>7, <2>8
<1> QED
  BY <1>3, <1>4

(* A page of the second reading does not either, and goes down to the      *)
(* floor.                                                                  *)
LEMMA RecheckReads ==
  ASSUME ReadingInv, Recheck
  PROVE  ReadingInv'
<1>1. PICK page \in Answers(listing, cursor) :
        /\ again' = again \cup ToSet(page)
        /\ \/ phase' = "failed"
           \/ /\ Consistent(page)
              /\ \/ Proven(page) /\ phase' \in {"complete", "full"}
                 \/ /\ ~ Proven(page) /\ ~ (Len(page) < PageSize)
                    /\ phase' = phase /\ cursor' = Last(page)
  BY DEF Recheck, Fail, Restart
<1>2. phase = "recheck" /\ UNCHANGED <<tip, listing, anchor, seen, floor, first, second>>
  BY DEF Recheck, provider
<1>3. CASE phase' = "failed"
  BY <1>2, <1>3 DEF ReadingInv, Underway
<1>4. CASE phase' # "failed"
  <2>1. /\ tip \in Slots /\ anchor \in Slots
        /\ first \subseteq listing /\ second \subseteq listing /\ listing \subseteq Transactions
        /\ cursor # Newer => cursor \in listing /\ cursor \in again
        /\ \A t \in second : t >= cursor => t \in again
        /\ \A t \in again : AtOrBelow(t) => t \in DOMAIN seen
        /\ \A t \in first : InWindow(t) => t \in DOMAIN seen
    BY <1>2 DEF ReadingInv, Underway
  <2>nat. cursor \in Nat /\ \A t \in listing : t \in Transactions /\ t \in Nat
    <3>1. \A t \in listing : t \in Transactions /\ t \in Nat
      BY <2>1, NewerIsNewer
    <3>2. cursor = Newer \/ cursor \in listing
      BY <2>1
    <3> QED
      BY <3>1, <3>2, NewerIsNewer
  <2>2. Covers(page, listing, cursor) \/ (cursor # Newer /\ Covers(page, listing, Newer))
    BY <2>1, AnswersCover
  <2> DEFINE P == ToSet(page)
             n == Len(page)
  <2>3. /\ n \in Nat /\ P \subseteq listing /\ (n # 0 => Last(page) \in P)
        /\ PageSize \in Nat \ {0}
    BY <2>2, HistoryBounds DEF Covers
  <2>4. /\ \A t \in P : t \notin again /\ (AtOrBelow(t) => t \in DOMAIN seen)
        /\ again' = again \cup P
    BY <1>1, <1>4 DEF Consistent
  <2>5. \A t \in again' : AtOrBelow(t) => t \in DOMAIN seen
    BY <2>1, <2>4
  <2>6. ASSUME NEW t \in second, t \notin again, t \notin P
        PROVE  n = PageSize /\ \A u \in P : t < u
    <3>1. t \in Transactions /\ t \in listing /\ ~ (t >= cursor)
      BY <2>1, <2>6
    <3>2. CASE Covers(page, listing, cursor)
      <4>1. t < cursor
        BY <2>nat, <3>1
      <4> QED
        BY <2>6, <3>1, <3>2, <4>1 DEF Covers
    <3>3. CASE cursor # Newer /\ Covers(page, listing, Newer)
      <4>1. cursor \in listing /\ cursor \in Transactions /\ cursor < Newer /\ cursor \notin P
        BY <2>1, <2>4, <3>3, NewerIsNewer
      <4>2. n = PageSize /\ \A u \in P : cursor < u
        BY <3>3, <4>1 DEF Covers
      <4>3. \A u \in P : t < u
        <5> SUFFICES ASSUME NEW u \in P PROVE t < u
          OBVIOUS
        <5>1. cursor < u /\ u \in Nat /\ t \in Nat
          BY <2>nat, <2>3, <3>1, <4>2
        <5> QED
          BY <2>nat, <3>1, <5>1
      <4> QED
        BY <4>2, <4>3
    <3> QED
      BY <2>2, <3>2, <3>3
  <2>7. Proven(page) <=> (floor # None /\ floor \in P) \/ (floor = None /\ n < PageSize)
    BY DEF Proven
  <2> HIDE DEF P, n
  <2>8. \A t : (InWindow(t)' <=> InWindow(t)) /\ (AtOrBelow(t)' <=> AtOrBelow(t))
    BY <1>2 DEF InWindow, AtOrBelow, Oldest, Time
  <2>9. CASE Proven(page) /\ phase' \in {"complete", "full"}
    <3>1. ASSUME NEW t \in second, t >= floor PROVE t \in again'
      <4>1. CASE t \in again \/ t \in P
        BY <2>4, <4>1
      <4>2. CASE t \notin again /\ t \notin P
        <5>1. n = PageSize /\ \A u \in P : t < u
          BY <2>6, <4>2
        <5>2. floor \in P
          BY <2>3, <2>7, <2>9, <5>1
        <5>3. t < floor /\ t \in Nat /\ floor \in Nat
          BY <2>1, <2>3, <5>1, <5>2, NewerIsNewer
        <5> QED
          BY <3>1, <5>3
      <4> QED
        BY <4>1, <4>2
    <3>2. \A t \in second' : t >= floor' /\ AtOrBelow(t)' => t \in DOMAIN seen'
      BY <1>2, <2>5, <2>8, <3>1
    <3>3. \A t \in first' : InWindow(t)' => t \in DOMAIN seen'
      BY <1>2, <2>1, <2>8
    <3> QED
      BY <1>2, <2>1, <2>9, <3>2, <3>3 DEF ReadingInv, Underway
  <2>10. CASE ~ (n < PageSize) /\ phase' = phase /\ cursor' = Last(page)
    <3>1. n # 0
      BY <2>3, <2>10
    <3>2. cursor' \in P /\ cursor' \in listing /\ cursor' \in again'
      BY <2>3, <2>4, <2>10, <3>1
    <3>3. ASSUME NEW t \in second, t >= cursor' PROVE t \in again'
      <4>1. CASE t \in again \/ t \in P
        BY <2>4, <4>1
      <4>2. CASE t \notin again /\ t \notin P
        <5>1. t < cursor'
          BY <2>6, <3>2, <4>2
        <5>2. t \in Nat /\ cursor' \in Nat
          BY <2>1, <3>2, NewerIsNewer
        <5> QED
          BY <3>3, <5>1, <5>2
      <4> QED
        BY <4>1, <4>2
    <3>4. \A t \in again' : AtOrBelow(t)' => t \in DOMAIN seen'
      BY <1>2, <2>5, <2>8
    <3>5. \A t \in first' : InWindow(t)' => t \in DOMAIN seen'
      BY <1>2, <2>1, <2>8
    <3> QED
      BY <1>2, <2>1, <2>10, <3>2, <3>3, <3>4, <3>5 DEF ReadingInv, Underway
  <2> QED
    BY <1>1, <1>4, <2>9, <2>10 DEF n
<1> QED
  BY <1>3, <1>4

(* The full transactions change nothing of what was read. *)
LEMMA FullReads ==
  ASSUME ReadingInv, FullPage \/ Exact
  PROVE  ReadingInv'
<1>1. /\ UNCHANGED <<tip, listing, anchor, seen, floor, again, first, second>>
      /\ phase \in {"full", "exact"} /\ phase' \in {"full", "exact", "complete", "failed"}
  BY DEF FullPage, Exact, provider, views, PagesEnd, Classified, Fail
<1>2. \A t : (InWindow(t)' <=> InWindow(t)) /\ (AtOrBelow(t)' <=> AtOrBelow(t))
  BY <1>1 DEF InWindow, AtOrBelow, Oldest, Time
<1> QED
  BY <1>1, <1>2 DEF ReadingInv, Underway

(* Every reading that ends has read what it had to, for every wallet,      *)
(* however the listing grows and however often the provider answers badly. *)
THEOREM ReadingInvariance == Spec => []ReadingInv
<1>1. ReadingInv /\ [Next]_vars => ReadingInv'
  <2> SUFFICES ASSUME ReadingInv, [Next]_vars PROVE ReadingInv'
    OBVIOUS
  <2>0. tip \in Slots /\ listing \subseteq Transactions
    BY DEF ReadingInv
  <2>1. CASE \/ Finalize \/ Refuse \/ AttemptFails \/ AttemptHangs \/ Deadline \/ Settles \/ UNCHANGED vars
             \/ \E t \in Transactions : Listed(t) \/ FullyIndexed(t) \/ Restate("listing", t) \/ Restate("full", t)
    <3>1. /\ UNCHANGED <<anchor, cursor, seen, floor, again, first, second>> /\ phase' \in {phase, "failed"}
          /\ tip' \in Slots /\ listing \subseteq listing' /\ listing' \subseteq Transactions
      <4>1. CASE Finalize \/ UNCHANGED vars
        BY <2>0, <4>1 DEF Finalize, vars, provider, reading, views
      <4>2. CASE Refuse \/ AttemptFails \/ AttemptHangs \/ Deadline \/ Settles
        BY <2>0, <4>2 DEF Refuse, AttemptFails, AttemptHangs, Deadline, Settles, Fail, provider, reading, views
      <4>3. CASE \E t \in Transactions : Listed(t) \/ FullyIndexed(t) \/ Restate("listing", t) \/ Restate("full", t)
        BY <2>0, <4>3 DEF Listed, FullyIndexed, Restate, reading, views
      <4> QED
        BY <2>1, <4>1, <4>2, <4>3
    <3> QED
      BY <3>1, IdleStep
  <2> QED
    BY <2>1, AskReads, AnchorReads, PaginateReads, RecheckReads, FullReads DEF Next
<1> QED
  BY InitReads, <1>1, PTL DEF Spec

(* A completed acquisition is missing nothing that was listed when it began *)
(* to read, nor, above the head floor, when it began to read again          *)
(* (orchestrator.mjs).                                                      *)
THEOREM NothingMissing == Spec => []NothingListedIsMissing
<1>1. ReadingInv => NothingListedIsMissing
  BY DEF ReadingInv, Underway, NothingListedIsMissing, Authoritative
<1> QED
  BY ReadingInvariance, <1>1, PTL
=============================================================================
