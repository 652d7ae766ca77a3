---- MODULE PositionClaims ----
(***************************************************************************)
(* Claims about the episodes of a PositionLedger: which unresolved items   *)
(* touch which field (ARTIFACT_NON_INTERFERENCE_V1), the outcome of the    *)
(* claim, and the issuance of an immutable claim.  Population, selection   *)
(* and issuance each rebuild everything from the registered evidence port, *)
(* one awaited capture after another; the port may answer a capture from   *)
(* other evidence than the one before.                                     *)
(***************************************************************************)
EXTENDS PositionLedger, TargetAccounts

CONSTANTS
    Residuals,      \* the kinds of unresolved evidence a transaction may carry
    MaxOpening,     \* bound on the opening quantity a ledger starts from
    MaxResiduals,   \* bound on the transactions that carry one
    MaxChanges      \* bound on the changes of the port's evidence

ASSUME ClaimBounds == Residuals \subseteq ResidualKinds /\ {MaxOpening, MaxResiduals, MaxChanges} \subseteq Nat

VARIABLES
    opening,    \* the opening snapshot and its attributable basis
    rows,       \* the transactions of the window, in canonical order
    stage,      \* what is being built; "accounts" until the boundaries are
                \* admitted, "ledger" while the window is filled
    outcomes,   \* the outcomes of the enumerated episodes, once the window is full
    captures,   \* the captures the operation in progress still awaits
    evidence,   \* the evidence the port answers from now
    pinned,     \* the evidence of the enumeration in progress, 0 before it
    subject,    \* the evidence of the episodes being evaluated
    population, \* the evidence the candidate population rests on, 0 before it
    wanted,     \* the member the caller named
    rests       \* the evidence of every capture the operation relied on

claimVars == <<opening, rows, stage, outcomes, captures, evidence, pinned, subject, population, wanted, rests>>
vars == <<claimVars, boundaryVars>>
source == <<opening, rows, outcomes, boundaryVars>>

-----------------------------------------------------------------------------
(* Evidence items and the fields they touch. *)

EconomicFields ==
    {"opening_attributable_basis", "aggregate_acquisition_basis", "disposal_proceeds",
     "realized_basis_consumed", "realized_pnl", "realized_return", "ending_target_inventory",
     "remaining_attributable_basis"}
BasisInterval == {"realized_basis_consumed", "realized_pnl", "realized_return", "remaining_attributable_basis"}
Quote == (EconomicFields \ {"ending_target_inventory"})
Quantity == (EconomicFields \ {"opening_attributable_basis"}) \cup {"position_state"}
Fee == Quote \ {"opening_attributable_basis"}
Continuity == {"ending_target_inventory", "remaining_attributable_basis", "position_state"}

ResidualItems(rs) ==
    {[source |-> rs[t].residual, tx |-> t, events |-> {}] :
        t \in {u \in DOMAIN rs : Unresolved(rs[u])}}
      \cup {[source |-> "FINDING", tx |-> 0, events |-> {}] :
                t \in {u \in DOMAIN rs : rs[u].residual = "FINDING"}}
\* The effects of events outside the episode are established but unclassified.
UnclassifiedItems(rs, ep) ==
    {[source |-> "UNCLASSIFIED", tx |-> e.tx, events |-> {}] : e \in ToSet(CanonicalEvents(rs)) \ ToSet(ep.events)}
DependencyItems(ep) ==
    {[source |-> d.code, events |-> d.events,
      tx |-> IF d.events = {} THEN 0 ELSE Min({ep.events[i].tx : i \in d.events})] : d \in ep.dependencies}
Items(rs, ep) == ResidualItems(rs) \cup UnclassifiedItems(rs, ep) \cup DependencyItems(ep)

\* A dependency other than the opening basis must name the interval it spans.
WellFormed(item) ==
    item.source \in ResidualKinds \cup {"UNCLASSIFIED", "OPENING_BASIS_UNRESOLVED"} \/ item.events # {}

\* A later genuine zero resets the basis a dependency contaminated.
BasisReset(ep, item) ==
    item.events # {} /\ \E i \in DOMAIN ep.events : i > Max(item.events) /\ ep.after[i].zero
IntervalFields(ep, item, fields) ==
    IF BasisReset(ep, item) THEN fields \ {"remaining_attributable_basis"} ELSE fields

AffectedFields(ep, item) ==
    CASE item.source \in {"UNKNOWN", "FINDING"} -> EconomicFields \cup {"position_state"}
      [] item.source \in {"TARGET", "ADOPTED", "FAILED", "UNCLASSIFIED"} -> Quantity
      [] item.source = "FOREIGN" -> {}
      [] item.source = "OPENING_BASIS_UNRESOLVED" ->
            IntervalFields(ep, item, BasisInterval \cup {"opening_attributable_basis"})
      [] item.source = "TRANSFER_IN_BASIS_UNRESOLVED" -> IntervalFields(ep, item, BasisInterval)
      [] item.source = "TARGET_TRANSFER_EXTERNAL_CONTINUATION" -> Continuity
      [] item.source = "SHARED_EFFECT_ALLOCATION_UNRESOLVED" -> Fee
      [] item.source \in {"QUOTE_CONTEXT_UNRESOLVED", "MIXED_QUOTE_UNSUPPORTED"} -> Quote

\* Mutant: residuals before the boundary do not matter.
ZeroOpenRegardless(rs, ep) ==
    IF ep.boundary.exact /\ ~ep.boundary.scope THEN ep.boundary.start ELSE 0

\* Zero-open: no residual may lie before the boundary it is to be excluded by.
ZeroOpenAt(rs, ep) ==
    IF ep.boundary.exact /\ ~ep.boundary.scope
       /\ \A t \in 1..(ep.boundary.start - 1) : ~Unresolved(rs[t])
    THEN ep.boundary.start ELSE 0

\* The first rule that applies excludes the item; "NONE" leaves it affecting.
Rule(rs, ep, item) ==
    LET at == item.tx IN
    CASE ClosedAt(ep) # 0 /\ at > ClosedAt(ep) -> "NI-01"
      [] at # 0 /\ at < ZeroOpenAt(rs, ep) -> "NI-02"
      [] item.source = "FOREIGN" /\ rs[at].events = <<>> -> "NI-03"
      [] item.source \in {"FAILED", "UNCLASSIFIED"} /\ rs[at].residual = "FAILED" -> "NI-04"
      [] OTHER -> "NONE"

Affecting(rs, ep) == {item \in Items(rs, ep) : Rule(rs, ep, item) = "NONE"}
Touched(rs, ep) == UNION {AffectedFields(ep, item) : item \in Affecting(rs, ep)}

NotApplicable(ep) ==
    IF ep.state = "OPEN"
    THEN {"disposal_proceeds", "realized_basis_consumed", "realized_pnl", "realized_return"} ELSE {}
Unavailable(rs, ep) ==
    {f \in EconomicFields \ NotApplicable(ep) : ep.values[f] = Null}
      \cup Touched(rs, ep)
      \cup (IF ep.state = "NONE" THEN Continuity ELSE {})

\* An adopted residual supports an event, so its effects are not all established.
EveryEffectEstablished(rs, ep) ==
    \A i \in DOMAIN ep.events : rs[ep.events[i].tx].residual # "ADOPTED"

\* evaluateClaimOutcomeV13 for a position; a limited result without a reason
\* and an item without its interval are thrown out by the final validation.
Outcome(rs, ep) ==
    CASE ep.failure # "none" \/ \E item \in Items(rs, ep) : ~WellFormed(item) -> "THROWN"
      [] OTHER ->
        IF ~EveryEffectEstablished(rs, ep) THEN "BLOCKED"
        ELSE IF Unavailable(rs, ep) = {} /\ Affecting(rs, ep) = {} THEN "VERIFIED"
        ELSE IF Affecting(rs, ep) = {} THEN "THROWN" ELSE "LIMITED"

\* Claims about one transaction and about the window exclude nothing.
TransactionOutcome(rs, t) == IF Unresolved(rs[t]) THEN "LIMITED" ELSE "VERIFIED"
WindowOutcome(rs) == IF ResidualItems(rs) = {} THEN "VERIFIED" ELSE "LIMITED"

-----------------------------------------------------------------------------
(* The window: transactions and their events, as the projector found them. *)

Init ==
    /\ InitBoundaries
    /\ opening = [units |-> 0, basis |-> Zero]
    /\ rows = <<>> /\ stage = "accounts" /\ outcomes = <<>> /\ captures = <<>>
    /\ evidence = 1 /\ pinned = 0 /\ subject = 0 /\ population = 0
    /\ wanted = 0 /\ rests = {}

Bound == stage = "accounts" /\ NextBoundaries /\ UNCHANGED claimVars

\* deriveOpening: the context's opening, with the basis its reference resolves
\* to, if it does.  Of the boundaries only the opening matters from here on.
OpenLedger ==
    /\ stage = "accounts" /\ capture = "ADMITTED" /\ Opening.units <= MaxOpening
    /\ \E basis \in IF Opening.units = 0 THEN {Zero} ELSE {Whole(1), Null} :
         opening' = [units |-> Opening.units, basis |-> basis]
    /\ stage' = "ledger" /\ capture' = "OPENED"
    /\ holdings' = <<<<>>>> /\ own' = {} /\ acquired' = {} /\ snapshots' = <<>>
    /\ program' = "classic" /\ profile' = "controlled"
    /\ UNCHANGED <<attempt, required, answers, rows, outcomes, captures, evidence,
                   pinned, subject, population, wanted, rests>>

Admitted == Len(CanonicalEvents(rows))
Projects(rs) == Last(Projection(CanonicalEvents(rs), opening)).failure = "none"

Commit(residual) ==
    /\ stage = "ledger" /\ Len(rows) < MaxTransactions
    /\ residual # "NONE" => Cardinality({t \in DOMAIN rows : rows[t].residual # "NONE"}) < MaxResiduals
    /\ rows' = Append(rows, [events |-> <<>>, residual |-> residual])
    /\ UNCHANGED <<opening, stage, outcomes, captures, evidence, pinned, subject, population, wanted, rests, boundaryVars>>

Admit(shape) ==
    LET t == Len(rows) IN
    /\ stage = "ledger" /\ t > 0 /\ Admitted < MaxEvents
    /\ Projects(rows) /\ Admissible(shape, rows[t])
    /\ rows' = [rows EXCEPT ![t].events = Append(@, shape)]
    /\ UNCHANGED <<opening, stage, outcomes, captures, evidence, pinned, subject, population, wanted, rests, boundaryVars>>

-----------------------------------------------------------------------------
(* Issuance.  An operation is the sequence of its awaited captures and of   *)
(* the comparisons between them:                                            *)
(*   full     a projection of the whole ledger, compared with the episode   *)
(*   pin      the projection an enumeration starts from                     *)
(*   same     a span's projection, which must find the pinned evidence      *)
(*   subjects the enumerated episodes become those to evaluate              *)
(*   match    the enumeration must contain the episode                      *)
(*   again    the dispositions, recaptured; they must be the episode's      *)
(*   rebuilt  the rebuilt population must equal the supplied one            *)
(* Only the outcomes of the window's episodes matter from here on.          *)

Repeat(awaited, n) == [i \in 1..(n * Len(awaited)) |-> awaited[((i - 1) % Len(awaited)) + 1]]
Enumerate(n) == <<"pin">> \o Repeat(<<"same">>, n)
Evaluate(n) == <<"full">> \o Enumerate(n) \o <<"match", "again">>
BuildPopulation(n) == Enumerate(n) \o <<"subjects">> \o Repeat(Evaluate(n), n)
SelectExplicit(n) == BuildPopulation(n) \o <<"rebuilt">> \o Evaluate(n)
IssueClaim(n) == SelectExplicit(n) \o Evaluate(n)

Start(operation, awaited) ==
    /\ stage' = operation /\ captures' = awaited /\ rests' = {} /\ pinned' = 0 /\ subject' = 0
    /\ UNCHANGED <<evidence, population>>

Outcomes(rs, episodes) == [k \in DOMAIN episodes |-> Outcome(rs, episodes[k])]
Populate ==
    /\ stage = "ledger" /\ Projects(rows)
    /\ outcomes' = Outcomes(rows, Enumerated(rows, opening))
    /\ Start("population", BuildPopulation(Len(outcomes'))) /\ UNCHANGED <<wanted, boundaryVars>>
    /\ rows' = <<>> /\ opening' = [units |-> 0, basis |-> Zero]

\* The caller names a member of the population; only a verified one is selected.
Request(operation, k) ==
    /\ stage = "populated" /\ wanted' = k
    /\ Start(operation, IF operation = "issuance" /\ outcomes[k] = "VERIFIED"
                        THEN IssueClaim(Len(outcomes)) ELSE SelectExplicit(Len(outcomes)))
    /\ UNCHANGED source

PortChanges ==
    /\ stage \in {"population", "populated", "selection", "issuance"} /\ evidence <= MaxChanges
    /\ evidence' \in 1..(MaxChanges + 1) \ {evidence}
    /\ UNCHANGED <<source, stage, captures, pinned, subject, population, wanted, rests>>

Working == stage \in {"population", "selection", "issuance"} /\ captures # <<>>
Refuse == stage' = IF population = 0 THEN "refused" ELSE "populated"

\* Mutant: the recaptured dispositions are taken as they come.
HoldsWithoutRecapture(check) ==
    CASE check = "same" -> evidence = pinned
      [] check = "match" -> pinned = subject
      [] check = "rebuilt" -> subject = population
      [] OTHER -> TRUE

Holds(check) ==
    CASE check = "same" -> evidence = pinned
      [] check = "match" -> pinned = subject
      [] check = "again" -> evidence = subject
      [] check = "rebuilt" -> subject = population
      [] OTHER -> TRUE

\* One awaited capture, or one comparison; a failed one rejects the operation.
Capture ==
    LET next == Head(captures) IN
    /\ Working
    /\ IF Holds(next)
       THEN /\ captures' = Tail(captures)
            /\ pinned' = IF next = "pin" THEN evidence ELSE pinned
            /\ subject' = IF next = "subjects" THEN pinned ELSE subject
            /\ rests' = IF next \in {"pin", "same", "again"} THEN rests \cup {evidence} ELSE rests
            /\ UNCHANGED stage
       ELSE /\ Refuse /\ captures' = <<>> /\ rests' = {} /\ UNCHANGED <<pinned, subject>>
    /\ UNCHANGED <<source, evidence, population, wanted>>

\* A thrown evaluation loses the whole population; a member that is not
\* verified is answered by a refusal, never by another member.
Finish ==
    /\ stage \in {"population", "selection", "issuance"} /\ captures = <<>>
    /\ population' = IF stage = "population" THEN subject ELSE population
    /\ stage' = CASE stage = "population" /\ "THROWN" \in Range(outcomes) -> "refused"
                  [] stage = "population" /\ "THROWN" \notin Range(outcomes) -> "populated"
                  [] stage = "selection" -> IF outcomes[wanted] = "VERIFIED" THEN "selected" ELSE "refusal"
                  [] stage = "issuance" -> IF outcomes[wanted] = "VERIFIED" THEN "issued" ELSE "populated"
    /\ UNCHANGED <<source, captures, evidence, pinned, subject, wanted, rests>>

Next ==
    \/ Bound \/ OpenLedger
    \/ \E residual \in Residuals : Commit(residual)
    \/ \E shape \in Shapes : Admit(shape)
    \/ Populate
    \/ \E operation \in {"selection", "issuance"}, k \in DOMAIN outcomes : Request(operation, k)
    \/ PortChanges \/ Capture \/ Finish

Spec == Init /\ [][Next]_vars

-----------------------------------------------------------------------------
(* Properties *)

Filled == stage = "ledger" /\ Projects(rows)

Meets(ep, full) ==
    /\ ep.failure = "none"
    /\ \A i \in DOMAIN ep.events, j \in DOMAIN full.events :
        ep.events[i] = full.events[j] =>
            /\ ep.after[i].inventory = full.after[j].inventory
            /\ ep.after[i].zero = full.after[j].zero
EachMeets(full) == \A ep \in Range(EnumeratedOf(rows, opening, full)) : Meets(ep, full)

\* Enumerating twice gives one story: every span, projected again from its
\* own opening, succeeds and meets each of its events with the inventory, and
\* the genuine zero, that the projection of the whole ledger met it with.
SpansReproduceTheLedger == Filled => EachMeets(WholeLedger(rows, opening))

\* What was received, at one unit of basis a transfer.
Received(ep) == Whole(Cardinality({i \in DOMAIN ep.events : ep.events[i].kind = "TRANSFER_IN"}))

\* Basis is neither made nor lost: where everything is known, what was opened
\* with, bought and received is what was consumed and what remains.  And a
\* closed position was sold by this wallet to the last unit: custody that left
\* by a transfer keeps the position open, whatever was said to become of it.
PositionsBalance ==
    Filled => \A ep \in Range(Enumerated(rows, opening)) :
        LET v == ep.values IN
        /\ Known({v.opening_attributable_basis, v.aggregate_acquisition_basis,
                  v.realized_basis_consumed, v.remaining_attributable_basis})
           => Plus(Plus(v.opening_attributable_basis, v.aggregate_acquisition_basis), Received(ep))
                = Plus(v.realized_basis_consumed, v.remaining_attributable_basis)
        /\ ep.state = "CLOSED" => \A i \in DOMAIN ep.events : ep.events[i].kind # "TRANSFER_OUT"

\* The episodes are the ledger, cut at its genuine zeros: enumerating again
\* reproduces them and each of them balances (position-episode.mjs 248-560).
EpisodesAreTheLedger == SpansReproduceTheLedger /\ PositionsBalance

\* The window with one more economic event resolved from the evidence of t.
Resolved(t, shape) == [rows EXCEPT ![t].events = Append(@, shape), ![t].residual = "NONE"]
CannotMatter(ep, t) ==
    \A shape \in Shapes :
        (Admissible(shape, rows[t]) /\ Projects(Resolved(t, shape))) =>
            \E other \in Range(Enumerated(Resolved(t, shape), opening)) :
                other.events = ep.events /\ other.values = ep.values

\* An economic value is never withheld without a decision that says why: a
\* claim limited for no reason is thrown out, and its whole population with it.
\* And non-interference is what it says: however the evidence a verified episode
\* excludes is resolved into an economic event, the episode is enumerated with
\* the same events and the same values.  The exclusion stays with that claim:
\* the transaction's own claim and the window's are still limited.
OutcomesAreJustified ==
    Filled => \A ep \in Range(Enumerated(rows, opening)) :
        /\ (\E f \in EconomicFields \ NotApplicable(ep) : ep.values[f] = Null) => Affecting(rows, ep) # {}
        /\ Outcome(rows, ep) = "VERIFIED" =>
              \A t \in DOMAIN rows : rows[t].residual \in {"TARGET", "UNKNOWN"} =>
                  /\ "LIMITED" = TransactionOutcome(rows, t) /\ "LIMITED" = WindowOutcome(rows)
                  /\ CannotMatter(ep, t)

\* What is populated, selected or issued rests on one evidence, the
\* population's, however often the port changed its answer between captures.
ClaimsRestOnOneEvidence ==
    /\ stage = "populated" => Cardinality(rests) <= 1
    /\ stage \in {"selected", "issued"} => rests = {population}

\* Every enumerated episode of a projectable ledger gets exactly one
\* disposition (verification_scope_acceptability_v1_3.md, section 23).
EveryEpisodeIsDisposed ==
    Filled => \A ep \in Range(Enumerated(rows, opening)) : Outcome(rows, ep) # "THROWN"
====
