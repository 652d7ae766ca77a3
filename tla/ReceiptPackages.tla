---- MODULE ReceiptPackages ----
(***************************************************************************)
(* The packages of verified closed positions (receipt-package): how one is *)
(* built and validated, the orchestrator that publishes the receipt of an  *)
(* explicit target, and the migration of recovered receipts.  What commit  *)
(* does to the disk is PackageStore's; here a store is a set of packages.  *)
(*                                                                         *)
(* A package is its digest, a record its bytes.  What may be absent is a   *)
(* set of at most one value.                                               *)
(***************************************************************************)
EXTENDS ProofReceipts

\* ECONOMICS_FIELDS and ARCHIVE_FIELDS: they part the canonical receipt.
EconomicsFields ==
    {"segment", "entries", "exits", "bought", "boughtQuote", "claims", "remaining", "cost", "held"}
ArchiveFields ==
    {"type", "flags", "quote", "first", "last", "snapshotAt", "status", "display", "valuation", "limitations", "hash"}

ArchiveRecord(r) == Restrict(r, ArchiveFields)
EconomicsRecord(r) == Restrict(r, EconomicsFields \cup {"hash", "type"})

\* verifyReceipt's result, as a package keeps it.
Verdict(r) == [recomputed |-> ReceiptHash(r), violations |-> Violations(r)]

\* validateCanonicalReceiptV1.
CanonicalV1(r) ==
    /\ r.type = "closed_position" /\ r.status = "verified" /\ r.display = "Verified Closed Position"
    /\ Restrict(r.limitations, {"scope", "pnlType", "priceSource", "currency"}) =
          [scope |-> "closed_position", pnlType |-> "realized_closed",
           priceSource |-> "on_chain_swaps", currency |-> "raw_quote"]
    /\ r.held = {r.last - r.first} /\ r.snapshotAt = {}

\* validateReceiptPackageV1: archive and economics make up the canonical
\* receipt again, and it reproduces its hash and its verification.
ValidPackage(p) ==
    LET rebuilt == p.economics @@ p.archive
    IN  /\ CanonicalV1(p.canonical)
        /\ p.archive = ArchiveRecord(p.canonical) /\ p.economics = EconomicsRecord(p.canonical)
        /\ rebuilt = p.canonical
        /\ p.verdict = Verdict(rebuilt)
        /\ p.verdict.recomputed = p.hash /\ p.verdict.violations = {}

\* buildReceiptPackageV1 of the canonical receipts: each with its verification
\* and its two projections.
Built(receipts) ==
    {p \in {[hash |-> r.hash, canonical |-> r, verdict |-> Verdict(r),
             archive |-> ArchiveRecord(r), economics |-> EconomicsRecord(r)] : r \in receipts} : ValidPackage(p)}

\* The code of the first check that does not hold.
FirstFailure(checks) ==
    LET failed == SelectSeq(checks, LAMBDA check : ~check[2])
    IN  IF failed = <<>> THEN "none" ELSE Head(failed)[1]

\* store.inspect: another package is under the hash of one of these.
Conflicts(packages, store) == {p \in packages : \E q \in store : q.hash = p.hash /\ q # p}

\* stage, validateStage and commit: a package joins the store, or is there
\* already, unless there is a conflict.
Committed(packages, store) == store \cup (packages \ Conflicts(packages, store))

-----------------------------------------------------------------------------
(* The targeted orchestrator.  A target names a receipt by its type and     *)
(* segment and may say which hash it expects.                               *)

Expected(target, r) == target.expected \subseteq {r.hash}

\* selectTargetedReceiptCandidateV1, once the candidate is found.
Eligible(c) == EligibleVerified(c.type, c.flags) /\ EligibleClosed(c.type, c.flags)

\* statusBoundary: what the caller says is complete.
Complete == {"acquisition", "normalization"}

\* verifySelected.
Verified(r) == r.status = "verified" /\ Violations(r) = {}

\* orchestrateTargetedReceiptPackageV1, from the candidates of the ledger to the
\* package it commits or, in a dry run, only names.
Orchestrated(candidates, complete, target) ==
    LET matches == SelectSeq(candidates, LAMBDA c : c.type = target.type /\ c.segment = target.segment)
        selected == {Promoted(c) : c \in Range(matches)}
        package == Built(selected)
        error == FirstFailure(<<
            <<"incomplete_acquisition_input", "acquisition" \in complete>>,
            <<"incomplete_normalization_input", "normalization" \in complete>>,
            <<"target_not_eligible", target.type = "closed_position">>,
            <<"target_not_found", matches # <<>> >>,
            <<"target_ambiguous", Len(matches) <= 1>>,
            <<"target_not_eligible", \A c \in Range(matches) : Eligible(c)>>,
            <<"verification_failed", \A r \in selected : Verified(r)>>,
            <<"expected_receipt_hash_mismatch", \A r \in selected : Expected(target, r)>>,
            <<"package_build_failed", package # {}>> >>)
    IN  [error |-> error, made |-> IF error = "none" THEN package ELSE {}]

-----------------------------------------------------------------------------
(* The migration.  A recovered receipt comes as a file with its verification *)
(* and the method it was recovered by; the archived record and the economics *)
(* sidecar of its hash must agree with it.                                   *)

\* assertCandidate, assertVerification, the two readers and the two overlaps;
\* one code stands for all that validateCanonicalReceiptV1 may say.
Rejection(c, archived, sidecars) ==
    LET record == {a \in archived : a.hash = c.hash}
        sidecar == {s \in sidecars : s.economics.hash = c.hash}
    IN  FirstFailure(<<
            <<"unsupported_receipt", CanonicalV1(c.canonical)>>,
            <<"candidate_receipt_hash_mismatch", c.canonical.hash = c.hash>>,
            <<"published_receipt_hash_mismatch", ReceiptHash(c.canonical) = c.hash>>,
            <<"deterministic_verification_failed", Violations(c.canonical) = {}>>,
            <<"verification_result_mismatch", c.verdict = Verdict(c.canonical)>>,
            <<"missing_archive_record", record # {}>>,
            <<"missing_economics_record", sidecar # {}>>,
            <<"archive_overlap_mismatch", record \subseteq {ArchiveRecord(c.canonical)}>>,
            <<"economics_recovery_method_mismatch", \A s \in sidecar : s.method = c.method>>,
            <<"economics_compatibility_mismatch",
              \A s \in sidecar : s.economics = EconomicsRecord(c.canonical)>> >>)

Duplicated(batch) == {i \in DOMAIN batch : \E j \in DOMAIN batch \ {i} : batch[j].hash = batch[i].hash}

Rejected(batch, archived, sidecars) ==
    Duplicated(batch) \cup {i \in DOMAIN batch : Rejection(batch[i], archived, sidecars) # "none"}

\* migrateRecoveredReceiptPackagesV1 with write: the stores it may leave.  One
\* rejected candidate or conflict and nothing is written; then the packages
\* are committed in the order of their hashes until one commit fails.
Migrated(batch, archived, sidecars, store) ==
    LET rejected == Rejected(batch, archived, sidecars)
        packages == Built({batch[i].canonical : i \in DOMAIN batch \ rejected})
        accepted == rejected = {} /\ Conflicts(packages, store) = {}
    IN  {Committed(done, store) : done \in IF accepted THEN SUBSET packages ELSE {{}}}

-----------------------------------------------------------------------------

\* The closed positions that a history of the swaps from..to publishes.
Targets(expected) == {[type |-> "closed_position", segment |-> s, expected |-> expected] : s \in 0..(MaxSwaps \div 2)}

Publish(from, to, target) ==
    UNION {Orchestrated(candidates, Complete, target).made : candidates \in {Candidates(SubSeq(history, from + 1, to), from)}}

\* What the whole history publishes.
Published == UNION {Publish(0, Len(history), t) : t \in Targets({})}

\* A target means the same package ever after: another swap never changes it.
TargetsAreStable ==
    history # <<>> =>
        \A t \in Targets({}) : Publish(0, Len(history) - 1, t) \subseteq Publish(0, Len(history), t)

\* A fetch that lost the oldest swaps, and was called complete, publishes
\* nothing but the expected package where a hash is expected.
ExpectationsHold ==
    \A m \in 1..Len(history) : \A p \in Published :
        \A t \in Targets({p.hash}) : Publish(m, Len(history), t) \subseteq {p}

\* The receipt as it may have been recovered: as it was, or with a field the
\* hash does not cover in other words.
Recoveries(p) ==
    {p.canonical, [p.canonical EXCEPT !.limitations.disclosures = @ \o @]}

RecoveredFile(r) == [hash |-> r.hash, canonical |-> r, verdict |-> Verdict(r), method |-> "retained_canonical_receipt"]
Sidecars(records) == {[economics |-> EconomicsRecord(r), method |-> "retained_canonical_receipt"] : r \in records}

\* A migration adds to what is published and never a second package of one
\* hash, nor does the orchestrator after it; cut off anywhere, it can be run
\* again to the same end.
MigrationsAdd ==
    \A published \in {Published} :
        \A records \in SUBSET UNION {Recoveries(p) : p \in published}, store \in SUBSET published :
            LET run(before) ==
                    Migrated(SetToSeq({RecoveredFile(r) : r \in records}), {ArchiveRecord(r) : r \in records},
                             Sidecars(records), before)
            IN  \A after \in run(store) :
                    /\ store \subseteq after
                    /\ \A p, q \in Committed(published, after) : p.hash = q.hash => p = q
                    /\ UNION run(after) = UNION run(store)

\* What is published can be relied on: the receipts are covered and disclosed,
\* a target keeps its package, an expected hash holds against an incomplete
\* fetch, and a migration never adds a second package of a receipt.
PublishedReceiptsHold ==
    ReceiptsAreCovered /\ TargetsAreStable /\ ExpectationsHold /\ MigrationsAdd
====
