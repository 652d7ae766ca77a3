---------------------------- MODULE WalletHistory ----------------------------
(***************************************************************************)
(* The wallet-wide acquisition (engine/src/wallet-acquisition, version 2   *)
(* of the provider port): one run of acquireWalletHistoryV2 against a       *)
(* provider whose two indexes are still catching up with the chain.         *)
(*                                                                         *)
(* A wallet's transactions are numbered in chain order.  The acquisition   *)
(* fixes an anchor block, reads the signature listing newest first down to *)
(* the lower bound, reads its head a second time, then fetches the full    *)
(* transactions page by page and one by one where the pages lack one.      *)
(* Between any two requests the chain may grow, the listing may take in     *)
(* more transactions, and the provider may answer badly.                    *)
(***************************************************************************)
EXTENDS Integers, FiniteSets, SequencesExt

CONSTANTS
    SlotOf,           \* the slot of each of the wallet's transactions
    TimeOf,           \* the block time of each slot, in seconds
    Skipped,          \* the slots without a block
    Opaque,           \* transactions whose effect on the wallet is unresolved
    Tips,             \* the finalized slots the acquisition may start from
    Lookback,         \* request.window.requested_lookback_seconds
    PageSize, MaxPages, MaxTransactions, MaxAttempts, MaxFallback,
    MaxSearch,        \* MAX_ANCHOR_SEARCH_SLOTS_V1
    MaxFaults         \* bound: how often the provider misbehaves

Transactions == DOMAIN SlotOf
Slots == DOMAIN TimeOf
Newer == Len(SlotOf) + 1            \* the cursor null
None == 0                          \* no transaction, no slot

ASSUME HistoryBounds ==
    /\ SlotOf \in Seq(Slots) /\ TimeOf \in Seq(Nat)
    /\ \A i, j \in Transactions : i <= j => SlotOf[i] <= SlotOf[j]
    /\ \A i, j \in Slots : i <= j => TimeOf[i] <= TimeOf[j]
    /\ Skipped \subseteq Slots /\ Tips \subseteq Slots
    /\ Opaque \subseteq Transactions
    /\ Lookback \in Nat /\ MaxFallback \in Nat /\ MaxFaults \in Nat
    /\ {PageSize, MaxPages, MaxTransactions, MaxAttempts, MaxSearch}
          \subseteq Nat \ {0}

VARIABLES
    tip,        \* the last finalized slot
    listing,    \* the transactions the signature listing holds
    full,       \* the transactions the full-transaction index holds
    restated,   \* <<index, transaction>> told differently by that index
    faults,
    phase, reason,
    attempt,    \* attempts made of the request under way
    waiting,    \* the acquisition awaits an answer
    wire,       \* requests the transport has not settled
    anchor,     \* the slot searched, then the anchor slot
    searched,   \* slots examined for the anchor
    cursor, last, pages, entries, \* of the reading under way
    seen,       \* sourceBySignature: the facts of each source of the first reading
    floor,      \* headFloor
    again,      \* the signatures of the second reading
    tokens, found, fallbacks,     \* of the full transactions
    first, second,                \* the listing when each reading began
    told                          \* every fact any answer gave

provider == <<tip, listing, full, restated>>
request == <<attempt, waiting, wire>>
reading == <<cursor, last, pages, entries>>
evidence == <<tokens, found, fallbacks>>
views == <<seen, floor, again, first, second>>
vars == <<provider, faults, phase, reason, request, anchor, searched, reading,
          evidence, views, told>>

Active == phase \notin {"complete", "failed"}

-----------------------------------------------------------------------------
(* What the chain and the request say of a transaction.                     *)

Time(t) == TimeOf[SlotOf[t]]
AtOrBelow(t) == SlotOf[t] <= anchor /\ Time(t) <= TimeOf[anchor]

\* assertBoundaryCoherent: slot and time place the source on the same side.
Coherent(t) == (SlotOf[t] <= anchor) <=> (Time(t) <= TimeOf[anchor])

Oldest == TimeOf[anchor] - Lookback
InWindow(t) == Time(t) >= Oldest

Authoritative == {t \in DOMAIN seen : AtOrBelow(t) /\ InWindow(t)}

\* The facts an index gives of t: slot, time and execution state, as one value.
Facts(index, t) == IF <<index, t>> \in restated THEN "restated" ELSE "original"

\* The source list of a page is ordered newest first, after the last source.
Ordered(page, previous) ==
    /\ previous # None /\ page # <<>> => SlotOf[page[1]] <= SlotOf[previous]
    /\ \A i \in 1..(Len(page) - 1) : SlotOf[page[i + 1]] <= SlotOf[page[i]]

LastOf(page, default) == IF page = <<>> THEN default ELSE Last(page)

-----------------------------------------------------------------------------
(* The provider: a page is the newest entries older than the cursor.  A     *)
(* provider that misbehaves loses the cursor or the order.  It moves while a *)
(* request is out: nothing reads it in between.                             *)

\* At most PageSize of the entries, newest first, and none is left out but
\* those older than all of a full page.
IsPage(page, older) ==
    /\ \A i, j \in DOMAIN page : i < j => page[i] > page[j]
    /\ \A t \in older \ ToSet(page) : Len(page) = PageSize /\ \A u \in ToSet(page) : t < u

Page(index, before) ==
    LET older == {t \in index : t < before}
    IN  CHOOSE page \in SeqOf(older, PageSize) : IsPage(page, older)

Answers(index, before) ==
    {Page(index, before)} \cup
    IF faults < MaxFaults
    THEN {Page(index, Newer), Reverse(Page(index, before))} ELSE {}

Charge(page, honest) == faults' = faults + IF page = honest THEN 0 ELSE 1

Finalize ==
    /\ Active /\ waiting /\ tip + 1 \in Slots
    /\ tip' = tip + 1
    /\ UNCHANGED <<listing, full, restated, faults, phase, reason, request,
                   anchor, searched, reading, evidence, views, told>>

\* The listing takes in a finalized transaction, older ones first; one that
\* arrives after a newer one is a fault.
Listed(t) ==
    /\ Active /\ waiting /\ t \notin listing /\ SlotOf[t] <= tip
    /\ faults' = faults + IF \E u \in listing : u > t THEN 1 ELSE 0
    /\ faults' <= MaxFaults
    /\ listing' = listing \cup {t}
    /\ UNCHANGED <<tip, full, restated, phase, reason, request, anchor,
                   searched, reading, evidence, views, told>>

FullyIndexed(t) ==
    /\ Active /\ waiting /\ t \notin full /\ SlotOf[t] <= tip
    /\ full' = full \cup {t}
    /\ UNCHANGED <<tip, listing, restated, faults, phase, reason, request,
                   anchor, searched, reading, evidence, views, told>>

Restate(index, t) ==
    /\ Active /\ waiting /\ faults < MaxFaults /\ t \in listing
    /\ <<index, t>> \notin restated
    /\ restated' = restated \cup {<<index, t>>}
    /\ faults' = faults + 1
    /\ UNCHANGED <<tip, listing, full, phase, reason, request, anchor,
                   searched, reading, evidence, views, told>>

-----------------------------------------------------------------------------
(* One logical request: attempts until an answer, a refusal or the deadline *)
(* (execute).  The latest-state reading turns every transport failure into  *)
(* latest_state_unproven.  One reason stands for all ways in which a page   *)
(* or an answer cannot be taken.                                            *)

Code(c) == IF phase = "recheck" THEN "latest_state_unproven" ELSE c

Fail(c) == phase' = "failed" /\ reason' = c

PageAllowed ==
    CASE phase = "recheck" -> pages < MaxPages /\ entries < MaxTransactions
      [] phase = "full"    -> pages < MaxPages /\ entries < MaxTransactions
      [] phase = "exact"   -> fallbacks < MaxFallback
      [] OTHER             -> TRUE

Ask ==
    /\ Active /\ ~waiting
    /\ attempt > 0 \/ PageAllowed
    /\ attempt' = attempt + 1 /\ waiting' = TRUE /\ wire' = wire + 1
    /\ first'  = IF phase = "paginating" /\ cursor = Newer THEN listing ELSE first
    /\ second' = IF phase = "recheck" /\ cursor = Newer THEN listing ELSE second
    /\ fallbacks' = fallbacks + IF phase = "exact" /\ attempt = 0 THEN 1 ELSE 0
    /\ UNCHANGED <<provider, faults, phase, reason, anchor, searched, reading,
                   seen, floor, again, tokens, found, told>>

\* A page or a fallback the budget does not allow is not requested.
Refuse ==
    /\ Active /\ ~waiting /\ attempt = 0 /\ ~PageAllowed
    /\ Fail(Code("acquisition_capped"))
    /\ UNCHANGED <<provider, faults, request, anchor, searched, reading,
                   evidence, views, told>>

\* The transport settles with a retryable failure.
AttemptFails ==
    /\ Active /\ waiting
    /\ waiting' = FALSE /\ wire' = wire - 1
    /\ IF attempt < MaxAttempts
       THEN UNCHANGED <<phase, reason, attempt>>
       ELSE Fail(Code("provider_retry_exhausted")) /\ UNCHANGED attempt
    /\ UNCHANGED <<provider, faults, anchor, searched, reading, evidence,
                   views, told>>

\* Mutant: a hanging attempt is retried, as the first adapter does.
AttemptHangsRetried ==
    /\ Active /\ waiting
    /\ waiting' = FALSE
    /\ IF attempt < MaxAttempts
       THEN UNCHANGED <<phase, reason>>
       ELSE Fail(Code("provider_retry_exhausted"))
    /\ UNCHANGED <<provider, faults, attempt, wire, anchor, searched, reading,
                   evidence, views, told>>

\* The attempt's time is up and the transport has not settled, so no other
\* attempt is made.
AttemptHangs ==
    /\ Active /\ waiting
    /\ waiting' = FALSE
    /\ Fail(Code("provider_retry_exhausted"))
    /\ UNCHANGED <<provider, faults, attempt, wire, anchor, searched, reading,
                   evidence, views, told>>

\* The overall deadline passes before an attempt or during the back-off.
Deadline ==
    /\ Active /\ ~waiting
    /\ Fail(Code("acquisition_deadline_exceeded"))
    /\ UNCHANGED <<provider, faults, request, anchor, searched, reading,
                   evidence, views, told>>

\* A request given up settles; nobody looks at it.
Settles ==
    /\ ~Active /\ wire > 0
    /\ wire' = wire - 1
    /\ UNCHANGED <<provider, faults, phase, reason, attempt, waiting, anchor,
                   searched, reading, evidence, views, told>>

Answered == /\ Active /\ waiting
            /\ attempt' = 0 /\ waiting' = FALSE /\ wire' = wire - 1

-----------------------------------------------------------------------------
(* The anchor: the newest finalized slot with a block, within MaxSearch.    *)

FinalizedSlot ==
    /\ phase = "slot" /\ Answered
    /\ anchor' = tip /\ phase' = "block"
    /\ UNCHANGED <<provider, faults, reason, searched, reading, evidence,
                   views, told>>

FinalizedBlock ==
    /\ phase = "block" /\ Answered
    /\ searched' = searched + 1
    /\ IF anchor \notin Skipped
       THEN /\ IF TimeOf[anchor] < Lookback
               THEN Fail("lookback_boundary_mismatch")
               ELSE phase' = "paginating" /\ UNCHANGED reason
            /\ UNCHANGED anchor
       ELSE IF searched' = MaxSearch \/ anchor - 1 \notin Slots
       THEN Fail("finalized_boundary_unavailable") /\ UNCHANGED anchor
       ELSE anchor' = anchor - 1 /\ UNCHANGED <<phase, reason>>
    /\ UNCHANGED <<provider, faults, reading, evidence, views, told>>

-----------------------------------------------------------------------------
(* The first reading (paginateInitial, acceptWalletHistoryPageV1).          *)

Acceptable(page) ==
    /\ \A t \in ToSet(page) : Coherent(t) /\ t \notin DOMAIN seen
    /\ Ordered(page, last)

Overruns(page) == pages >= MaxPages \/ entries + Len(page) > MaxTransactions

\* The last at-or-below source of the first page that has one.
FloorOf(page) ==
    LET below == SelectSeq(page, AtOrBelow)
    IN  IF floor # None \/ below = <<>> THEN floor ELSE Last(below)

Reached(page) == \/ \E t \in ToSet(page) : ~InWindow(t)
                 \/ Len(page) < PageSize

Restart == cursor' = Newer /\ last' = None

Paginate ==
    /\ phase = "paginating" /\ Answered
    /\ \E page \in Answers(listing, cursor) :
        /\ Charge(page, Page(listing, cursor))
        /\ told' = told \cup {<<t, Facts("listing", t)>> : t \in ToSet(page)}
        /\ IF ~Acceptable(page) \/ Overruns(page)
           THEN /\ Fail(IF Acceptable(page) THEN "acquisition_capped"
                                            ELSE "pagination_incomplete")
                /\ UNCHANGED <<reading, seen, floor>>
           ELSE /\ seen' = [t \in DOMAIN seen \cup ToSet(page) |->
                              IF t \in DOMAIN seen THEN seen[t]
                                                   ELSE Facts("listing", t)]
                /\ floor' = FloorOf(page)
                /\ pages' = pages + 1 /\ entries' = entries + Len(page)
                /\ IF Reached(page)
                   THEN phase' = "recheck" /\ Restart /\ UNCHANGED reason
                   ELSE /\ cursor' = Last(page) /\ last' = Last(page)
                        /\ IF pages' >= MaxPages \/ entries' >= MaxTransactions
                           THEN Fail("acquisition_capped")
                           ELSE UNCHANGED <<phase, reason>>
    /\ UNCHANGED <<provider, anchor, searched, evidence, again, first, second>>

-----------------------------------------------------------------------------
(* The second reading (proveLatestState): from the head to the floor.       *)

\* Mutant: the second reading does not ask whether a source is new.
ConsistentIfKnown(page) ==
    /\ \A t \in ToSet(page) :
         /\ Coherent(t) /\ t \notin again
         /\ t \in DOMAIN seen => seen[t] = Facts("listing", t)
    /\ Ordered(page, last)

\* Mutant: the second reading compares signatures only.
ConsistentBySignature(page) ==
    /\ \A t \in ToSet(page) : /\ Coherent(t) /\ t \notin again
                               /\ AtOrBelow(t) => t \in DOMAIN seen
    /\ Ordered(page, last)

\* What is new must be newer than the anchor; what was seen must be unchanged.
Consistent(page) ==
    /\ \A t \in ToSet(page) :
         /\ Coherent(t) /\ t \notin again
         /\ t \in DOMAIN seen => seen[t] = Facts("listing", t)
         /\ AtOrBelow(t) => t \in DOMAIN seen
    /\ Ordered(page, last)

Proven(page) == \/ floor # None /\ floor \in ToSet(page)
                \/ floor = None /\ Len(page) < PageSize

Recheck ==
    /\ phase = "recheck" /\ Answered
    /\ \E page \in Answers(listing, cursor) :
        /\ Charge(page, Page(listing, cursor))
        /\ told' = told \cup {<<t, Facts("listing", t)>> : t \in ToSet(page)}
        /\ again' = again \cup ToSet(page)
        /\ IF \/ ~Consistent(page)
              \/ entries + Len(page) > MaxTransactions
              \/ ~Proven(page) /\ Len(page) < PageSize
           THEN Fail("latest_state_unproven") /\ UNCHANGED reading
           ELSE IF Proven(page)
           THEN /\ phase' = IF Authoritative = {} THEN "complete" ELSE "full"
                /\ Restart /\ pages' = 0 /\ entries' = 0 /\ UNCHANGED reason
           ELSE /\ pages' = pages + 1 /\ entries' = entries + Len(page)
                /\ cursor' = Last(page) /\ last' = Last(page)
                /\ UNCHANGED <<phase, reason>>
    /\ UNCHANGED <<provider, anchor, searched, evidence, seen, floor, first,
                   second>>

-----------------------------------------------------------------------------
(* The full transactions (acquireFinalizedFullTransactionHistoryV1), their  *)
(* reconciliation with the sources, and the classification.                 *)

\* The transactions whose wallet-wide impact is unresolved end the acquisition.
Classified == IF Authoritative \cap Opaque = {}
              THEN phase' = "complete" /\ UNCHANGED reason
              ELSE Fail("wallet_wide_impact_unresolved")

Missing == Authoritative \ DOMAIN found
Newest(S) == CHOOSE t \in S : \A u \in S : u <= t

\* The pages are over: the missing are few enough to be asked for one by one.
PagesEnd(missing) ==
    IF missing = {} THEN Classified
    ELSE IF Cardinality(missing) <= MaxFallback
    THEN phase' = "exact" /\ UNCHANGED reason
    ELSE Fail("source_transaction_mismatch")

\* The pages hold only slots up to the anchor; the token that continues after
\* a page is the transaction it ends with.
FullPages == {t \in full : SlotOf[t] <= anchor}

Token(page) == IF Len(page) < PageSize THEN Newer ELSE Last(page)

FullPage ==
    /\ phase = "full" /\ Answered
    /\ \E page \in Answers(FullPages, cursor) :
        LET mine == ToSet(page) \cap Authoritative
            met == DOMAIN found \cup mine
            valid == /\ Ordered(page, last)
                     /\ Token(page) \notin tokens
                     /\ \A t \in mine : /\ Facts("full", t) = seen[t]
                                        /\ t \in DOMAIN found =>
                                             found[t] = Facts("full", t)
        IN
        /\ Charge(page, Page(FullPages, cursor))
        /\ told' = told \cup {<<t, Facts("full", t)>> : t \in mine}
        /\ IF ~valid \/ entries + Len(page) > MaxTransactions
           THEN /\ Fail("source_transaction_mismatch")
                /\ UNCHANGED <<reading, tokens, found>>
           ELSE /\ found' = [t \in met |-> IF t \in DOMAIN found THEN found[t]
                                           ELSE Facts("full", t)]
                /\ pages' = pages + 1 /\ entries' = entries + Len(page)
                /\ cursor' = Token(page) /\ last' = LastOf(page, last)
                /\ tokens' = tokens \cup ({Token(page)} \ {Newer})
                /\ IF Token(page) = Newer \/ met = Authoritative
                   THEN PagesEnd(Authoritative \ met)
                   ELSE UNCHANGED <<phase, reason>>
    /\ UNCHANGED <<provider, anchor, searched, fallbacks, views>>

\* getTransaction of the newest missing one: null, or its body.
Exact ==
    /\ phase = "exact" /\ Answered
    /\ LET t == Newest(Missing) IN
       \/ Fail("source_transaction_mismatch") /\ UNCHANGED <<found, told>>
       \/ /\ told' = told \cup {<<t, Facts("full", t)>>}
          /\ IF Facts("full", t) # seen[t]
             THEN Fail("source_transaction_mismatch") /\ UNCHANGED found
             ELSE /\ found' = [u \in DOMAIN found \cup {t} |->
                                 IF u = t THEN Facts("full", t) ELSE found[u]]
                  /\ IF Missing = {t} THEN Classified
                                      ELSE UNCHANGED <<phase, reason>>
    /\ UNCHANGED <<provider, faults, anchor, searched, reading, tokens,
                   fallbacks, views>>

-----------------------------------------------------------------------------
Init ==
    /\ tip \in Tips
    /\ \E lag \in {0, 1} :
         listing = {t \in Transactions : SlotOf[t] <= tip - lag}
    /\ full \in {listing, {t \in Transactions : SlotOf[t] < tip}}
    /\ restated = {} /\ faults = 0
    /\ phase = "slot" /\ reason = "none"
    /\ attempt = 0 /\ waiting = FALSE /\ wire = 0
    /\ anchor = None /\ searched = 0
    /\ cursor = Newer /\ last = None /\ pages = 0 /\ entries = 0
    /\ seen = <<>> /\ floor = None /\ again = {}
    /\ tokens = {} /\ found = <<>> /\ fallbacks = 0
    /\ first = {} /\ second = {} /\ told = {}

Next ==
    \/ Finalize
    \/ \E t \in Transactions :
         Listed(t) \/ FullyIndexed(t) \/ Restate("listing", t) \/ Restate("full", t)
    \/ Ask \/ Refuse \/ AttemptFails \/ AttemptHangs \/ Deadline \/ Settles
    \/ FinalizedSlot \/ FinalizedBlock
    \/ Paginate \/ Recheck \/ FullPage \/ Exact

Spec == Init /\ [][Next]_vars

-----------------------------------------------------------------------------
(* A completed acquisition claims history_complete_through_anchor: its      *)
(* transactions are, of those in the window and not above the anchor, all   *)
(* the listing held when the acquisition began to read it, and all it held   *)
(* when the second reading began that are not older than the head floor,     *)
(* however the listing grew in between (orchestrator.mjs 102-187).           *)
NothingListedIsMissing ==
    phase = "complete" =>
        \A t \in Transactions :
            /\ AtOrBelow(t) /\ InWindow(t)
            /\ t \in first \/ (t \in second /\ t >= floor)
            => t \in Authoritative

(* Whatever a completed acquisition was told of one of its transactions, by *)
(* either reading of the listing, by a page of full transactions or by an    *)
(* exact request, was the same: a contradiction is never repaired by a later *)
(* answer (orchestrator.mjs 164-165, full-transaction-history-acquisition    *)
(* 126-147).                                                                *)
CompletedHeardOneStory ==
    phase = "complete" =>
        \A p, q \in told :
            p[1] = q[1] /\ p[1] \in Authoritative => p[2] = q[2]

(* At most one request is ever outstanding at the provider: an attempt whose *)
(* transport has not settled is not retried, and no other request follows    *)
(* it (helius-full-transaction-adapter.mjs 190-203).                         *)
OneRequestAtATime == wire <= 1

=============================================================================
