---- MODULE ProofReceipts ----
(***************************************************************************)
(* The receipts of v1.2 and what is made of them: candidates of the        *)
(* position ledger, promotion, the verifier with the valuation rules, the  *)
(* comparison with v1.1 and the pipeline summary, and the artifacts that   *)
(* are uploaded (preview, SVG, metadata template, upload package).         *)
(*                                                                         *)
(* A hash is the tuple of what it covers.  The time of a swap is its place *)
(* in the history.  A field that may be null is a set of at most one value.*)
(***************************************************************************)
EXTENDS TradeLedger

-----------------------------------------------------------------------------
(* Candidates. *)

Disqualifying == {"partial_history", "unsupported_inventory", "mixed_quote"}

\* The quote of a position, MIXED when it has several.
QuoteOf(quotes) == IF Cardinality(quotes) = 1 THEN CHOOSE q \in quotes : TRUE ELSE "MIXED"

\* What a candidate claims of its sales: nothing when it is a snapshot.
Claims(p, type) ==
    {c \in {[sold |-> p.sold, soldQuote |-> p.soldQuote, allocated |-> p.allocated, pnl |-> p.soldQuote - p.allocated]} :
        type # "open_snapshot"}

\* buildCandidate, of a history whose oldest swaps may be missing; now is the
\* clock of the run.
Candidate(p, events, missing, type) ==
    LET now == Len(events) + missing
        first == p.events[1] + missing
        last == p.events[Len(p.events)] + missing
    IN  [type |-> type, segment |-> p.segment, flags |-> p.flags, quote |-> QuoteOf(Quotes(events, p.events)),
         entries |-> Named(SidesOf(events, p.events, "buy"), missing),
         exits |-> Named(SidesOf(events, p.events, "sell"), missing),
         first |-> first, last |-> last,
         snapshotAt |-> {t \in {now} : type = "open_snapshot"},
         held |-> {d \in {last - first} : type # "open_snapshot"},
         bought |-> p.bought, boughtQuote |-> p.boughtQuote, remaining |-> p.remaining, cost |-> p.cost,
         claims |-> Claims(p, type)]

\* computeEligibility.
EligibleVerified(type, flags) == flags \cap Disqualifying = {}
EligibleClosed(type, flags) == EligibleVerified(type, flags) /\ type = "closed_position"

Candidates(events, missing) ==
    LET ledger == Ledger(events)
        traded == SelectSeq(ledger.closed, LAMBDA p : p.bought > 0 /\ p.sold > 0)
    IN  [i \in DOMAIN traded |-> Candidate(traded[i], events, missing, "closed_position")]
            \o [i \in DOMAIN ledger.open |->
                   Candidate(ledger.open[i], events, missing,
                             IF ledger.open[i].sold > 0 THEN "realized_partial" ELSE "open_snapshot")]

-----------------------------------------------------------------------------
(* Promotion. *)

VerificationStatus(type, flags) ==
    CASE flags \cap Disqualifying # {} -> "unverified"
      [] flags \cap Disqualifying = {} /\ type = "closed_position" -> "verified"
      [] flags \cap Disqualifying = {} /\ type = "realized_partial" -> "verified_partial"
      [] flags \cap Disqualifying = {} /\ type = "open_snapshot" -> "verified_snapshot"

DisplayStatus(status) ==
    CASE status = "verified"          -> "Verified Closed Position"
      [] status = "verified_partial"  -> "Verified Partial (Position Open)"
      [] status = "verified_snapshot" -> "Verified Snapshot (No PnL Claim)"
      [] status = "unverified"        -> "Unverified"

\* Every disclosure there is, in the order they are pushed, and when it is due.
DisclosureOrder ==
    <<"no_usd_normalization", "position_open", "no_pnl_claim", "no_live_price", "mixed_quote_currencies",
      "partial_trade_history", "unsupported_inventory", "external_transfer_possible">>

Disclosed(d, type, flags) ==
    \/ d = "no_usd_normalization"
    \/ d = "position_open" /\ type = "realized_partial"
    \/ d \in {"no_pnl_claim", "no_live_price"} /\ type = "open_snapshot"
    \/ d = "mixed_quote_currencies" /\ "mixed_quote" \in flags
    \/ d = "partial_trade_history" /\ "partial_history" \in flags
    \/ d \in {"unsupported_inventory", "external_transfer_possible"} /\ d \in flags

\* buildLimitations.
Limitations(type, flags) ==
    [scope |-> type,
     pnlType |-> CASE type = "closed_position"  -> "realized_closed"
                   [] type = "realized_partial" -> "realized_partial"
                   [] type = "open_snapshot"    -> "none",
     priceSource |-> IF type = "open_snapshot" THEN "none" ELSE "on_chain_swaps",
     currency |-> "raw_quote",
     disclosures |-> SelectSeq(DisclosureOrder, LAMBDA d : Disclosed(d, type, flags))]

\* computeReceiptHash: neither the limitations nor the clock are covered.
ReceiptHash(r) ==
    <<r.type, r.segment, r.quote, r.valuation, r.first, r.last, r.entries, r.exits, r.bought, r.boughtQuote,
      r.claims, r.remaining, r.cost, r.flags, r.status>>

\* promoteCandidate: one receipt for every candidate, none is filtered out.
Promoted(c) ==
    LET status == VerificationStatus(c.type, c.flags)
        receipt == c @@ [status |-> status, display |-> DisplayStatus(status), valuation |-> "raw_quote",
                         limitations |-> Limitations(c.type, c.flags)]
    IN  receipt @@ [hash |-> ReceiptHash(receipt)]

Receipts(events, missing) ==
    LET candidates == Candidates(events, missing) IN [i \in DOMAIN candidates |-> Promoted(candidates[i])]

\* generateReceiptId, for one wallet and one token.
Id(r) == <<r.type, r.segment>>

-----------------------------------------------------------------------------
(* The verifier: its own tables, and one entry per rule, true when kept.    *)

DisplayStatusMap ==
    [verified |-> "Verified Closed Position", verified_partial |-> "Verified Partial (Position Open)",
     verified_snapshot |-> "Verified Snapshot (No PnL Claim)", unverified |-> "Unverified"]
PnlTypeMap == [closed_position |-> "realized_closed", realized_partial |-> "realized_partial", open_snapshot |-> "none"]
PriceSourceMap ==
    [closed_position |-> "on_chain_swaps", realized_partial |-> "on_chain_swaps", open_snapshot |-> "none"]

\* What each flag and each type requires to be disclosed.
FlagDisclosure ==
    [mixed_quote |-> "mixed_quote_currencies", partial_history |-> "partial_trade_history",
     unsupported_inventory |-> "unsupported_inventory", external_transfer_possible |-> "external_transfer_possible"]
TypeDisclosures ==
    [closed_position |-> {}, realized_partial |-> {"position_open"}, open_snapshot |-> {"no_pnl_claim", "no_live_price"}]
ExpectedDisclosures(type, flags) ==
    {"no_usd_normalization"} \cup TypeDisclosures[type] \cup {FlagDisclosure[f] : f \in flags \cap DOMAIN FlagDisclosure}

SchemaRules(r) ==
    [S1_S8 |-> r.type \in DOMAIN PnlTypeMap /\ r.segment >= 0 /\ r.first > 0, S9 |-> r.last >= r.first,
     S10 |-> r.bought > 0, S11_S12 |-> r.boughtQuote > 0, S15 |-> r.status \in DOMAIN DisplayStatusMap]

ClosedRules(r) ==
    [CP1 |-> \E c \in r.claims : c.sold > 0, CP2 |-> \E c \in r.claims : c.soldQuote > 0, CP3_CP5 |-> r.claims # {},
     CP6 |-> r.remaining <= Dust(r.bought), CP7 |-> r.exits # {}, CP8 |-> r.entries # {},
     CP9 |-> \E d \in r.held : d >= 0, CP10 |-> r.snapshotAt = {}]

PartialRules(r) ==
    [RP1 |-> \E c \in r.claims : c.sold > 0, RP2 |-> r.claims # {}, RP3 |-> r.remaining > 0,
     RP4 |-> r.exits # {}, RP5 |-> r.entries # {}, RP6 |-> r.snapshotAt = {}]

SnapshotRules(r) ==
    [OS1_OS6 |-> r.claims = {}, OS7 |-> r.exits = {}, OS8 |-> r.entries # {}, OS9 |-> r.remaining > 0,
     OS10 |-> r.snapshotAt # {}]

TypeRules(r) ==
    CASE r.type = "closed_position"  -> ClosedRules(r)
      [] r.type = "realized_partial" -> PartialRules(r)
      [] r.type = "open_snapshot"    -> SnapshotRules(r)

ConsistencyRules(r) ==
    LET clean == r.flags \cap Disqualifying = {}
        told == Range(r.limitations.disclosures)
    IN  [C1 |-> r.type = "closed_position" /\ clean => r.status = "verified",
         C2 |-> r.type = "realized_partial" /\ clean => r.status = "verified_partial",
         C3 |-> r.type = "open_snapshot" /\ clean => r.status = "verified_snapshot",
         C4 |-> clean \/ r.status = "unverified",
         C5 |-> r.limitations.scope = r.type,
         C6_C8 |-> r.limitations.pnlType = PnlTypeMap[r.type],
         C9_C10 |-> r.limitations.priceSource = PriceSourceMap[r.type],
         C11_C17 |-> ExpectedDisclosures(r.type, r.flags) \subseteq told,
         C18 |-> r.display = DisplayStatusMap[r.status],
         C19 |-> r.limitations.currency = "raw_quote",
         C20 |-> told \subseteq ExpectedDisclosures(r.type, r.flags)]

\* validateReceiptValuation: raw quotes only, and said so.
ValuationRules(r) ==
    [V1 |-> r.valuation = "raw_quote", V2 |-> r.limitations.currency = "raw_quote",
     V3 |-> "no_usd_normalization" \in Range(r.limitations.disclosures), V5_V6 |-> r.quote # ""]

\* buildValuationContext and validateValuationContext.
UsdStableMints == {"USDC", "USDT"}
ValuationContext(r) ==
    [valuation |-> r.valuation, currency |-> r.limitations.currency, quote |-> r.quote,
     stable |-> r.quote \in UsdStableMints,
     told |-> \E i \in DOMAIN r.limitations.disclosures : r.limitations.disclosures[i] = "no_usd_normalization"]
ContextRules(ctx) ==
    [VC2 |-> ctx.valuation = "raw_quote", VC3 |-> ctx.currency = "raw_quote", VC4 |-> ctx.told, VC5_VC6 |-> ctx.quote # ""]

Broken(rules) == {rule \in DOMAIN rules : ~rules[rule]}

\* verifyReceipt.
Violations(r) ==
    Broken([HASH |-> r.hash = ReceiptHash(r)]) \cup Broken(SchemaRules(r)) \cup Broken(TypeRules(r))
        \cup Broken(ConsistencyRules(r)) \cup Broken(ValuationRules(r))

\* verifyReceiptBatch: the failures.
Failures(all) == {i \in DOMAIN all : Violations(all[i]) # {}}

-----------------------------------------------------------------------------
(* The comparison with v1.1 and the summary of the proof pipeline.          *)

Sign(x) == CASE x > 0 -> 1 [] x = 0 -> 0 [] x < 0 -> 0 - 1

SegmentStatus(p) == IF "partial_history" \in p.flags THEN "partial_history" ELSE "closed"

\* Every closed segment is compared with the first closed cycle of the token.
Mismatches(events) ==
    LET segments == Ledger(events).closed
        cycles == ClosedCycles(events, FALSE)
        pnl == Quoted(events, cycles[1].events, "sell") - Quoted(events, cycles[1].events, "buy")
        reasons(p) ==
            IF cycles = <<>> THEN {"no cycle"}
            ELSE {x \in {"direction", "status"} :
                    CASE x = "direction" -> Sign(p.soldQuote - p.allocated) # Sign(pnl)
                      [] x = "status" -> SegmentStatus(p) # cycles[1].status}
    IN  UNION {reasons(segments[k]) : k \in DOMAIN segments}
            \cup {x \in {"no segment"} : segments = <<>> /\ cycles # <<>>}

OfType(all, type) == {i \in DOMAIN all : all[i].type = type}

\* runConsistencyChecks: the hard checks, true when passed.
SummaryChecks(events, candidates, all) ==
    [candidate_receipt_count |-> Len(candidates) = Len(all),
     all_verify_passed |-> Failures(all) = {},
     type_distribution_match |-> \A type \in DOMAIN PnlTypeMap :
         Cardinality(OfType(candidates, type)) = Cardinality(OfType(all, type)),
     ledger_closed_eq_cp_candidates |-> Len(Ledger(events).closed) = Cardinality(OfType(candidates, "closed_position")),
     valuation_all_valid |-> \A i \in DOMAIN all : Broken(ContextRules(ValuationContext(all[i]))) = {}]

\* computeResult.
SummaryResult(events, candidates, all) ==
    CASE Broken(SummaryChecks(events, candidates, all)) # {} -> "FAIL"
      [] Broken(SummaryChecks(events, candidates, all)) = {} /\ Mismatches(events) # {} -> "WARN"
      [] OTHER -> "PASS"

-----------------------------------------------------------------------------
(* What is uploaded.  A rendering and a template name the receipt by its id *)
(* and cover its hash; neither shows the clock of a snapshot.               *)

\* buildReceiptPreview.
Preview(r) ==
    [id |-> Id(r), display |-> r.display, type |-> r.type, claims |-> r.claims, quote |-> r.quote,
     stats |-> <<r.boughtQuote, r.remaining, r.held, Cardinality(r.entries), Cardinality(r.exits)>>,
     disclosures |-> r.limitations.disclosures, hash |-> r.hash, snapshotAt |-> r.snapshotAt]

\* renderReceiptSvg: the first three disclosures and how many more there are.
Svg(p) ==
    LET shown == Min({3, Len(p.disclosures)})
    IN  [id |-> p.id, display |-> p.display, type |-> p.type, claims |-> p.claims, quote |-> p.quote, stats |-> p.stats,
         shown |-> SubSeq(p.disclosures, 1, shown), more |-> Len(p.disclosures) - shown, hash |-> p.hash]

\* buildReceiptMetadata, and buildMetadataTemplate with its placeholders.
Scaffold(r, p, ctx) ==
    [name |-> Id(r), display |-> p.display, claims |-> r.claims, stable |-> ctx.stable,
     limitations |-> r.limitations, hash |-> r.hash]

Template(r) ==
    LET metadata == Scaffold(r, Preview(r), ValuationContext(r))
    IN  [name |-> metadata.name, display |-> metadata.display, claims |-> metadata.claims,
         stable |-> metadata.stable, limitations |-> metadata.limitations, hash |-> metadata.hash,
         image |-> "image_uri", files |-> "image_uri", external |-> "external_url", marker |-> Svg(Preview(r))]

\* buildPackageEntry.
Package(r) == [id |-> Id(r), imageHash |-> Svg(Preview(r)), templateHash |-> Template(r)]

\* buildFinalMetadata: every placeholder is resolved and the template's marker,
\* which held the hash of the image, is gone.
FinalMetadata(template, imageUri) ==
    [k \in DOMAIN template \ {"marker"} |->
        CASE k \in {"image", "files"} -> imageUri
          [] k = "external" -> "none"
          [] OTHER -> template[k]]

-----------------------------------------------------------------------------

\* The balance of the named events after each of them, replayed in order.
Held(events, chosen, i) ==
    MapThenSumSet(LAMBDA k : IF events[k].action = "buy" THEN events[k].q ELSE 0 - events[k].q, chosen \cap 1..i)
SoldOnlyWhatWasHeld(events, chosen) == \A i \in chosen : Held(events, chosen, i) >= 0

\* A receipt that is verified is covered and in one currency, and one that is not
\* covered says so.
Uses(r) == r.entries \cup r.exits
ReceiptCovered(events, r) ==
    /\ r.status # "unverified" <=> EligibleVerified(r.type, r.flags)
    /\ r.status # "unverified" => Cardinality({events[i].quote : i \in Uses(r)}) = 1
    /\ IF SoldOnlyWhatWasHeld(events, Uses(r)) THEN TRUE
       ELSE r.status = "unverified" /\ "partial_trade_history" \in Range(r.limitations.disclosures)

\* A verified receipt never sells a unit before it was bought and is quoted in
\* one currency; a receipt that does sell one discloses it; no swap stands in
\* two receipts.  The verifier, whose tables are its own, accepts all that the
\* promotion writes but the snapshot of a position that began with an uncovered
\* sale, and nothing else makes the pipeline summary fail.
ReceiptsAreCovered ==
    \A candidates \in {Candidates(history, 0)}, all \in {Receipts(history, 0)} :
        \A failing \in {Failures(all)} :
            /\ \A k \in DOMAIN all : ReceiptCovered(history, all[k])
            /\ \A k, l \in DOMAIN all : k # l => Uses(all[k]) \cap Uses(all[l]) = {}
            /\ failing = {k \in OfType(all, "open_snapshot") : all[k].exits # {}}
            /\ SummaryResult(history, candidates, all) = "FAIL" <=> failing # {}

\* While every sale is covered the three reconstructions tell one story: the
\* same closed trades, and a profit that differs by the cost of the dust left.
\* The comparison then reports nothing, unless there is dust or a second trade.
ReconstructionsAgree ==
    LET closed == Ledger(history).closed
        cycles == CycleReceipts(history, FALSE, 0)
    IN  (\A k \in DOMAIN Positions(history) : Positions(history)[k].unaccounted = 0) =>
            /\ cycles = CycleReceipts(history, TRUE, 0)
            /\ Len(cycles) = Len(closed)
            /\ \A k \in DOMAIN closed :
                  /\ cycles[k].entries \cup cycles[k].exits = Range(closed[k].events)
                  /\ cycles[k].status = "verified" <=> VerificationStatus("closed_position", closed[k].flags) = "verified"
                  /\ cycles[k].pnl = closed[k].soldQuote - closed[k].allocated - closed[k].cost
            /\ Len(closed) <= 1 /\ (\A k \in DOMAIN closed : closed[k].cost = 0) => Mismatches(history) = {}

====
