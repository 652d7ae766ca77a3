# Verification of the Trade Artifact engine

This directory holds TLA+ models of the parts of the Trade Artifact engine whose correctness
depends on order, failure, concurrency or exact accounting, the TLC configurations that
model-check them, and TLAPS proofs of their central properties. `PROJECT.json` maps every
definition to the lines it models.

## 1. Inventory

The repository is a JavaScript engine (`src/engine`), one Solana program (`src/programs`) and a
static page (`src/ui`). The parts below keep state that outlives a call, wait for something that
may fail, or do arithmetic that a claim to a reader rests on.

### The bounded-agent episode (`src/engine/src/verification-scope-v1-3/final-proof-agent`)

A human authorizes an agent to make at most one purchase (ordinal 1, the *acquisition*) and one
sale (ordinal 2, the *disposal*). The agent's decisions, the wallet's signatures, the submission
to the chain and the human's revocation are serialized by a SQLite database.

| Component | State it keeps | Operations | Interacts with |
|---|---|---|---|
| Episode state machine (`episode-state-machine-v1.mjs`) | none: immutable, content-addressed states | admit a decision, record a signed intent, close a leg, apply a revocation | called by the control plane and, to re-check, by the authority |
| Decision authority (`sqlite-decision-authority-v1.mjs`) | tables episode_states, readiness_challenges, ordinals, revocations; one signed wire file per leg | one transaction per operation, verification of the whole database on open | every other component |
| Control plane, executor core, signing (`wiggles-authenticated-control-plane-v1.mjs`, `offline-executor-core-v1.mjs`, `orca-signing-composition-v1.mjs`, `orca-signed-wire-boundary-v1.mjs`, `wiggles-trusted-runtime-v1.mjs`) | what a call read before an await | issue a challenge, execute a decision, revoke | authority, chain, wallet key |
| Submission and closure (`wiggles-submission-v1.mjs`, `wiggles-terminal-closure-v1.mjs`, `acquisition-closure-authority-v1.mjs`) | evidence directory per leg; call and send counts in memory | submit, finalize | authority, rebroadcast, chain |
| Rebroadcast (`reused/bounded-rebroadcast-v1.mjs`) | attempt and resolution evidence | three sends in fixed windows, polling to a terminal outcome | submission's transport |
| RPC budget (`supervised-rpc-v1.mjs`) | call count and closed latch of one phase | bounded request: retain, dispatch, retain, answer | journal, provider |
| Journal (`supervised-journal-v1.mjs`) | record files, head file, phase markers | retain, claim a phase | runtime, RPC |
| Finite supervisor (`deployment/private-binding/supervisor.mjs`) | stop, expiry, the human task, the context poll | one episode from start to result frame | runtime, agent, human |

Hard behaviour: a revocation racing a key load or a send; a call whose read is stale when it
commits; a crash between two transactions; a second process on the same database; a timer that
gives up on work which goes on; a retry of a leg that may already be on the chain.

### Position claims (`src/engine/src/verification-scope-v1-3`)

Canonical economic events of one token are folded into an exact rational ledger
(`position-episode.mjs`), cut into episodes between genuine zeros, and each episode is given an
outcome (`claim-outcome-evaluator.mjs`) after the rules of non-interference decided which
unresolved effects touch it. Population, selection and issuance
(`episode-candidate-population.mjs`, `explicit-candidate-selection.mjs`,
`immutable-claim-artifact.mjs`) rebuild all of this from an evidence port, one awaited capture after
another. Hard behaviour: inventory that passes through zero inside a transaction, unknown basis,
shared fees, evidence that changes between two captures, boundaries whose two halves come from nodes at different slots.

### From swaps to tokens (`ledger`, `pipeline`, `arweave`, `mint`, `claims`, `run-pipeline.mjs`, `src/programs`)

Swaps are folded into lots three times over: by the position ledger, by the cycles of the pipeline and by
`reconstruct.mjs`. Receipts are promoted, verified, uploaded, and minted, each phase leaving files
the next run reads; the program keeps one account for each receipt hash. Hard behaviour: sales of
more than is held, dust, a run that dies between the effect and its record, uploads of an older
rendering of a receipt, transactions that land after their sender gave up.

### One receipt at a time (`api/server.mjs`, `mint-one.mjs`, `rebuild-position.mjs`, `pipeline`)

The local server keeps the fetched transactions of a wallet in memory and on disk (`tx-cache.mjs`), and one object with the
cycles and the positions of each window. A request fetches what is new, rebuilds the cycles when something was,
awaits the prices, and answers with a list, a receipt or a custom receipt. `mint-one` and `rebuild-position` fetch for themselves and
build the same positions; `mint-one` mints one. Hard behaviour: requests that overlap in every await on one cache,
a fetch cut off by its cap or a failed page, a write of the file that fails, and the wallet that trades on between two callers who should agree.

### Acquisition (`wallet-acquisition`)

The orchestrator reads a wallet's history backwards in pages below a finalized anchor, reads the
head again, and reconciles the signatures with pages of full transactions, through an adapter
with bounded attempts. Hard behaviour: a provider that indexes late, answers twice, restates a
fact, or leaves a request hanging when the next one is due.

### Stores (`inventory`, `receipt-package`)

Receipts are archived as bundles, their economics as sidecars beside them with an index; a
recovery publishes a batch of sidecars under a lock with a rollback; the inventory reads both. A
receipt package is staged, validated, and published by a no-replace rename under a per-receipt lock
directory. Hard behaviour: two tools on the same directories, a crash with the lock held, an
error half-way through a rollback, an ambiguous outcome of a rename.

### The rest

Candidate sets, proof views, cards, galleries and boards, the other routes of the local API and the page project immutable data
and keep no state that matters to it. Section 5 says why they are not modelled.

### What makes each part correct

- **Episode state machine**: a state names what may happen next, and a revocation or a refusal ends
  everything that has not started.
- **Decision authority**: state, rows and revocation agree after every transaction; nothing retained
  changes; the disposal rests on the settled acquisition; a process can open the database after a crash.
- **Runtime and submission**: at most one signature and one owner for each leg, a bounded number
  of sends, no send begins after a recorded revocation but the one that was under way, and what is
  answered to the agent and the human is true.
- **Rebroadcast and RPC budget**: work that was given up sends nothing; a reported terminal is what the
  chain holds.
- **Supervisor**: an acknowledged revocation is durable, no leg is offered twice, nothing starts after
  a stop, the worker ends.
- **Journal**: a phase is granted once; a journal that verifies holds every acknowledged record.
- **Package store**: one package for each receipt, never replaced, durable once acknowledged; a commit returns.
- **Position claims**: each episode is a part of one ledger and balances; no field is established over
  an effect that could change it; a claim rests on one capture of the evidence.
- **Ledger and pipeline**: each unit bought or sold is accounted once; a receipt covers only what was
  bought; a mint result links a token of its receipt with what was made of that receipt, an anchor carries metadata uploaded
  for its own hash, with the card of its receipt; a trusted result exists on the chain.
- **Server and tools**: nothing that was fetched in order is missing from the cache, an answer takes in what was traded before
  it was asked for, and all who issue the receipt of a settled position issue the same one.
- **Acquisition**: a complete history misses nothing that was listed and heard one story.
- **Archive and economics**: a recovery is all or nothing and what it reported stays; only economics that
  verify are shown.

## 2. Modules

| Module | Models | Uses |
|---|---|---|
| `EpisodeStates` | the pure transitions and the validation of an episode state | |
| `BoundedEpisode` | abstract: two legs, each signed at most once, and a revocation that stops what has not started | |
| `DecisionAuthority` | the transactions of the authority, in the order a caller may use them | `EpisodeStates`; implements `BoundedEpisode` |
| `AuthorityReopen` | the verification a process makes when it opens the database | `DecisionAuthority` |
| `TrustedRuntime` | runtime processes, their awaits, crashes and sends | `AuthorityReopen`; implements `DecisionAuthority` |
| `FiniteEpisode` | the finite supervisor: main routine, human task, context poll, expiry, export | steps of `BoundedEpisode` |
| `SupervisedRpc` | the bounded requests of one phase | |
| `BoundedRebroadcast` | scheduled sends, transport, resolution and capture of one submission, and the chain | `SupervisedRpc` |
| `AppendLog` | abstract: a log that only grows | |
| `SupervisedJournal` | the journal, one action for each file-system call | implements `AppendLog` |
| `WriteOnce` | abstract: a register that is written once, and final acknowledgements | |
| `PackageStore` | publication of a package, one action for each file-system call | implements `WriteOnce` |
| `TargetAccounts` | the chain's token accounts of a wallet, the pairs of enumerations at both boundaries of a claim, and the context that admits them with the transactions | |
| `PositionLedger` | pure: rationals, events, the fold of an episode, the enumeration of spans | |
| `PositionClaims` | evidence, captures, non-interference, outcomes, population, selection, issuance | `PositionLedger`, `TargetAccounts` |
| `TradeLedger` | pure: the position ledger and the two reconstructions of cycles | |
| `ProofReceipts` | pure: candidates, promotion, the verifier with its own tables, the comparison and the summary, and the artifacts that are uploaded | `TradeLedger` |
| `ReceiptPackages` | pure: packages and their validation, the targeted orchestrator, the migration of recovered receipts | `ProofReceipts` |
| `SinglePositions` | pure: the positions of a window, their normalization, verified and custom receipts | `TradeLedger` |
| `LocalServer` | the server's caches and requests, mint-one and rebuild-position beside it, over a wallet that trades on | `SinglePositions`, `ReceiptPackages` |
| `ReceiptPipeline` | runs of the pipeline, the uploader and the mint submitter over shared files and the chain | `ProofReceipts` |
| `WalletHistory` | the acquisition, its adapter and the provider | |
| `EconomicsStore` | archive, import, recovery and inventory on one set of directories | |
| `MC*` | the instances TLC checks, with their symmetry | the module after the prefix |
| `*Proofs` | the theorems | the module they are about |

The authority is described at three levels. `BoundedEpisode` says what the human was promised.
`DecisionAuthority` says how the transactions keep it, and is shown to implement it.
`TrustedRuntime` drives the same transactions from processes that lose their state and act on
what they read before an await; `AuthorityAsSpecified` shows that they never take a
step `DecisionAuthority` does not allow. `FiniteEpisode` goes the other way: each call it makes of
the runtime is reduced to the abstract steps the call may take, so that the supervisor's own
interleavings, timer and export can be checked and proved. `BoundedRebroadcast` is the inside of the
runtime's submission: the runtime keeps its owner election, its count of sends and its outcome.

### How the models correspond to the code

**Authority.** `state`, `challenges`, `ordinals` and `revocations` are the four tables; a row of
`ordinals` has the stage, the admission, plan, intent and evidence the columns hold. One action is
one `BEGIN IMMEDIATE` transaction, with all of its checks and updates. A digest is the record
it is computed from. `ConsumeEpisodeOrdinal`, `RevokeAuthorization` and the others take any
identities, so a replay, a conflict and a stale predecessor are all offered. The signed wire file
is written inside the transaction that stores the intent, and both are one step there; the
runtime model has the file apart.

**Runtime.** `call[r]` is the one call a runtime serves, with what it read; `revoking[r]` the
revocation it serves at the same time. Each action runs to the next await. `Abandon` is a failure
at an await, `Crash` loses `process` and keeps the tables, the wire files and the terminal
evidence. The variables from `signatures` on record what happened in the world: no action reads
them.

**Supervisor.** `main.pc` is the await the main routine is at, `human` that of the human task;
`context` is `contextBusy` with its owner, `closing` is the abort of `humanWait`. `claimed` and
`retained` are the part of the journal that outlives the worker. `Restart` ends the worker at any
point and starts another one on the same journal and authority.

**Rebroadcast and RPC.** `sched` is the await of `runBoundedRebroadcast` or of the resolution, `calls` the
requests its transport works on, `retired`, `timing` and `closed` the latches and records of
`submitRetainedIntentV1`, `chain` what has landed, `sends` what reached the provider. A wait may be given up at any moment, with the work behind it
left running: the work goes on through persist, invoke and accept, each of which looks at `closed`, the retired requests, the
revocation and the budget as the code does. `rpc` is one supervised phase; the requests of the economic capture go
through it. A time is the window it falls in; a read of the clock may find any window not before the last.

**Journal.** `files`, `head`, `next` and `markers` are the directory, `durable` the directory as it
was last synced; `process[r]` is the call a process is in, with the copy of the records it verified
when it opened the journal. `exclusive` is two steps, the
creation of the file and the sync of the directory; `retain` and `claimPhase` are sequences of
these, and a failure, a crash or a power loss may come between any two.

**Package store.** A writer's `pc` is its next file-system call, under the names of the functions
that make it. A `Crash` ends a writer; `PowerLoss` ends all of them and takes back a directory
entry that was not synced. `Faults` says which extra failures the file system shows: `mkdir`
(the lock cannot be made, for another reason than that it exists), `answer` (a call took effect
and reported a failure) and `power`.

**Position claims.** `rows` is the window, transaction by transaction, with the events and the residual effect of each;
`opening` the opening basis. The stages `Capture`, `Enumerate`, `Populate`,
`SelectExplicit` and `IssueClaim` are the awaited calls, and `PortChanges` may come between any two. An event is a shape: its kind, quote, basis,
continuation and fees. `Episode` is the loop of `buildPositionEpisodeFromLedgerV13` as a fold over events; amounts are exact
rationals with `Null` where the code has `null`. A digest is the value it is computed from.

**Boundaries.** `holdings[s]` is what the wallet's token accounts held after slot `s`; `Produce` is a slot, by the wallet (`own`) or by a stranger.
`Dispatch` is one attempt of an enumeration, one request for each program and one for the mint when Token-2022 rows were seen; `Settle` is an answer, from
whatever slot its node has reached, and `Join` what follows when all are in: a pair, another attempt, or a refusal. `Brackets` puts
the transactions strictly between the slots of the two pairs. The opening the claims start from is what `OpenLedger` finds in the admitted context; the
transactions between are then the ledger of `PositionClaims`.

**Ledger.** `TradeLedger` is three reconstructions over one sequence of swaps: `Ledger` (position ledger),
`CyclesBy(...)` (phase 3 of the pipeline) and the single-mint one. Quantities are whole numbers of the
smallest unit, and the cost of a sale is the integer part of its share, where the code computes a
floating-point number; dust is `DustUnits` or one
`DustDivisor`-th of a position.

**Receipts.** `Candidate` and `Promoted` build a receipt; a field that may be null is a set of at most one value. Promotion and
verifier have each their own tables in the code, and so here: `Limitations` and `Disclosed` against `PnlTypeMap`, `PriceSourceMap` and
`ExpectedDisclosures`. A rule of the verifier is a field of the records `SchemaRules`, `ClosedRules`, `ConsistencyRules` and so on, named
after its rules and true when they are kept. A hash is the tuple of what it covers: `ReceiptHash` leaves out the limitations and the clock of a snapshot, as the
code does. `Preview`, `Svg`, `Scaffold`, `Template` and `FinalMetadata` keep what tells two artifacts apart, and `FinalMetadata`
resolves the placeholders and drops the marker of the image's hash.

**Packages of receipts.** `Built` and `ValidPackage` are the builder and the schema of a package: archive and economics part the canonical receipt by its
fields and must make it up again. `Orchestrated` is one target from the candidates to the package, `Rejection` the checks of one recovered receipt, both as the
first check that fails (`FirstFailure`). `Migrated` is the set of stores a batch may leave, since a failed commit ends it; what one commit does to the disk is `PackageStore`.

**Server.** `history` is the wallet on the chain and goes on growing. `cache` and `pipeline` are the two caches, `worker[w]` the request or the
tool run `w` with its locals; `Respond` is the moment the provider reads its index, and `NextPage` or the end of the fetch the moment
the answer is handled, so that trades and other requests come in between. `RunPipeline` runs from the last page to the await of the prices, `Normalize`
from there to the answer; `held` is whether the object a request writes its positions to is still the one that is
cached. A transaction is its place in the history and its second; what it trades is known from there. The positions of an
answer are handed out as receipts or not, as the caller likes. `Raw` is no conversion at all, and a rate that is not known is
the empty set. `issued`, `overlapped` and `cut` record what happened and guard nothing.

**Pipeline.** `files` has a field for each file the phases share, `chain` the accounts; a run of the pipeline holds what it has read since it
started. Each action is a phase up to its write, or one upload or transaction. A `Crash` loses a run
and keeps the files. A file is read and replaced in two steps (`Reads` and `Writes` of a tool), so the records another process
wrote in between are lost; the uploader of a tool reads its uploads once, at the start. A signed anchor transaction is in `late` until it lands
(`Lands`), which may be after its submitter gave up or died. `tokens` holds of each token the receipt it was minted for, which is a ghost: on the
chain a token is bare, and only its mint result links it with a receipt, an image and metadata. `bounds.torn` records that an uploader met cards of
another run (`AnchorsShowTheirCard` is about the rest) and guards nothing. An address names what it serves. An upload is skipped, and a mint plan keeps its addresses, when
the entry of the receipt id has the hashes of image and template of this run (`Unchanged`). The gates are the flags and variables that must be given
(`UploadGates`, `MintGates`); a run has one of four invocations. The mint never asks a plan's `mint_blockers`: the resolver is called without
wallet, authority and approval, so every plan has some. Nor does the proof manifest ask whether an upload it calls uploaded is still
fresh; `TrustedResultsAreOnChain` states what it does promise.

**Acquisition.** The provider has what is final, what it has indexed and what it says; `Restate`, `FullyIndexed`
and `Finalize` may come between any two requests. `Ask`, `AttemptFails`, `AttemptHangs`, `Settles` and `Deadline` are the adapter's
attempt, and `wire` counts what is outstanding at the provider. One reason stands for all ways in which a page or an answer cannot be taken
(order, duplicate, cursor, form); `latest_state_unproven` is kept apart. No property reads a reason.

**Archive and economics.** The two directories, the index, the lock and the current run are variables; a tool's `pc` is its next file operation.
An error may come at any operation, inside a rollback too; a `Crash` runs no `finally`. The operator
removes a lock whose holder is gone.

## 3. Runs

All runs have `CHECK_DEADLOCK FALSE`, because every one of these systems may stop: an episode ends,
a writer has made its last call, the worker exits, a tool has run as often as it may.

| Run | Instance | What it shows |
|---|---|---|
| `authority` | 2 decisions, 3 challenges, 2 plans, intents, pieces of evidence and revocations | state and rows agree, nothing retained changes, `BoundedEpisode` is implemented |
| `runtime` | 2 runtimes, 2 decisions, challenges and intents, 2 sends, 1 crash; any runtime may submit a durable leg at any time | signatures, sends and answers are safe, the authority is used as specified, and the database can be opened again except in the case observation 1 of section 6 describes |
| `finite_episode` | one supervisor, started twice | the human, the agent and the custodian are told the truth; nothing starts after a stop; the worker ends |
| `rebroadcast` | 3 attempts, 2 polls, 3 requests of the capture with a budget of 2 | given-up work sends nothing, the terminal is true |
| `journal` | 2 processes, 2 phases, 2 other records, 3 records at most, 2 failures | grants and records survive every interruption |
| `package_store` | 2 writers, 2 packages, 2 calls each, 1 failure, all faults, fair | one durable package, a write-once register, every commit returns |
| `position_claims` | boundaries over 4 slots and 2 accounts, nodes 1 slot behind, 2 attempts; then 3 transactions with 3 events of twelve shapes, 1 residual effect, 1 change of the port | the boundaries and the transactions tell one history (`BoundariesAccountForTheHistory`); episodes balance and reproduce the ledger (`EpisodesAreTheLedger`), outcomes are justified, one evidence |
| `trade_ledger` | histories of 5 swaps of three sizes in two quotes, two of them in one second, dust of one unit or half a position; two of them served to 2 requests and a tool, 3 times in all, pages of 2, a cap of 3, 2 mishaps | each trade is accounted once (`TradesAreAccountedOnce`). Of every history (`HistoriesHold`): receipts are covered and the verifier accepts them, the reconstructions agree, a target keeps its package, an expected hash holds against an incomplete fetch, a migration adds no second package, a settled position stays, and the two flows of mint-one agree. Of the server and the tools (`ServerAnswersHold`): the caches have no gap, answers are fresh, anchors are of closed positions; and receipts that name the same settled position agree (`SettledReceiptsAgree`), also where a window ends before the position has closed |
| `receipt_pipeline` | two wallets of 4 swaps, 2 runs of the pipeline with 4 invocations, 2 of the tools, 1 failure | a mint result names a token of its receipt and what was made of that receipt, an anchor has metadata uploaded for its hash and the card of its receipt, trusted results exist |
| `wallet_history` | 5 transactions in 5 slots, one of them empty and two in one second, pages of 2, 2 attempts, 1 fault | nothing listed is missing, one story, one request at a time |
| `economics_store` | 2 receipts in 2 variants, an archive, an import, 2 recoveries, a reader, 1 rerun of the pipeline, 1 error | recovery is all or nothing and kept, shown economics verify |
| `shared_fee` | 2 events | counterexample, see section 6 |

**Bounds.** Two decisions and two intents are what two legs can use, and let a caller offer for the
second leg what the first consumed; a third challenge lets a leg be challenged again. A second
revocation is a conflicting one. Two runtimes and two writers give every race of a pair, and no
action compares more than two processes. `MaxSends` is 2 where the policy has 3 (`BoundedRebroadcast` has
all 3): a send is checked against the budget and the revocation each time, and two are enough for one before and one
after. `MaxPolls` is 2 where the policy has 90: a poll keeps nothing of the one before it but that the expiry was seen. `MaxRecords` is 3 where the journal allows 1024: the head, the marker and the record of a
phase and of another record can all be interrupted. `MaxFailures`, `MaxFaults`, `MaxTroubles` and `MaxCrashes` bound how often
a call fails or a process dies; `MaxCalls` how often a writer retries; `MaxRuns`, `MaxToolRuns` and `MaxReruns` how often a program
is started, `MaxAsked` how often the server or a tool is; `MaxMishaps` bounds its failed pages, failed writes and restarts together; `MaxChanges` how often the port changes. Three events are an acquisition, a disposal that closes, and what comes before, between or
after them; five swaps are two positions with an uncovered sale. The server is asked three times: two requests that overlap and one that finds what they left, or
a request, a tool and the request that has its receipt again; its two lives are a position that closes before the wallet trades on and one of mixed quotes, where the rates matter.
A cap of 3 over pages of 2 ends a fetch at a page, in a page, and not at all. Five transactions in pages of two are a full page, a page that overlaps the next and a short one.
Symmetry is used for interchangeable writers, processes, phases, records and tools, in runs
without liveness properties.

**Fairness.** `FairSpec` of the package store has weak fairness of `Proceed` for each writer, the actions
that are no failures: a live process goes
on with its call, and the 500 attempts at the lock bound its wait. Nothing is assumed of crashes, failures or
of the other writers, and a failure is not needed for a commit to return. `FiniteFairSpec` has weak fairness for the main routine, for the human task,
and for a context that is being sent. For the main routine it is justified by the limits the code
gives to every wait: one second for a write, the decision's timeout for a read, the deadlines of the
exchange for a call of the runtime. A call that blocks in the kernel is left to the external process
supervisor the operator's contract demands. The human owes nothing: the read of the envelope is only assumed to
end once `humanWait` is aborted.

**Mutants.** For each property of each passing run `PROJECT.json` names a change of a definition that a
plausible mistake in the code would make (a dropped check, a marker that is not exclusive, a
missing wait), defined beside the definition it changes and marked "Mutant". With it the run fails
on that property. No specification uses these definitions.

## 4. Theorems

The proofs hold for any sets of identities, processes, writers, requests, receipts and records, for any history, and for
any bounds. The assumptions are those the modules state: `None` and `NoFile` are not among the identities, the sorts of
records are distinct, the bounds are natural numbers (`ScheduleLimits`, `RpcLimits` and their like).
The one theorem with a hypothesis of its own is named below. Each inductive invariant was checked with TLC on the
instance of its run before it was proved.

**Authority** (`AuthorityProofs`, first part). The
checks of a transaction look at the rows or at the state, seldom at both. That they agree
is the inductive invariant `IInv`: `StageTable` (which pairs of stages the rows can have under each
state), `StateFlags` (what the flags of the state say of its name), `EvidenceChain` (the evidence
and intent of the state are those of the rows), `RefusalRecorded` and `RevocationReflected`. From it follow
`DisposalRestsOnSettledAcquisition`, `RevokedBeforeSigningIsUnsigned`, `PossibleSubmissionTracked`,
the action properties `RevocationIsFinal`, `RefusalIsFinal` and `RetainedForever` (with the second
invariant `RowsShaped`), and the refinement of `BoundedEpisode`: each row is mapped to
the phase of its leg, and each transaction to a step or a stutter.

**Opening it again** (`AuthorityProofs`, second part). `RestartReopens` speaks of some forty checks of the opening
process, which compare rows, state and revocations with successors they compute anew. `ReopenInv` adds to `IInv` that the state
is valid as it stands, that rows and state match (`RowsMatchState`), that each row's recorded successor is what its predecessor gives
(`SuccessorsMatch`), and `RevocationsExplain`: the state that follows a revocation is the one its predecessor leads to at once, when the
bytes were signed, or when they were settled as well. The last is the part that is easy to get wrong, because a revoked episode goes on changing while
the retained revocation does not. `Reopening` is the theorem.

**Runtimes** (`AuthorityProofs`, third part). `RuntimeInv` is `ReopenInv` with what the position of a call entitles it to: from the
consumption to the durable signature a call is the only one that moves the row of its leg, and from the election to its end the only one that sends
(`OwnsRow`, `OwnsSends`, `OneOwner`); the counters of signatures and sends fit the stage of the row (`Counted`); what was
acknowledged is what the row retains (`Acknowledged`), and a human was told REVOKED only of legs whose key load can no longer start (`ToldTrue`). What a call read before
an await appears in it nowhere: every transaction reads again. From it follow `SignedAtMostOnce`,
`SendsAreBounded`, `AnswersCanBeReliedOn`, `RestartReopens` for the runtimes, and `AuthorityAsSpecified`: each step of a runtime is a
step of `DecisionAuthority` or leaves its variables alone, so the first part's theorems hold under any number of runtimes.

**Supervisor** (`DurabilityProofs`, first part). `FiniteInv` adds to the properties what the position of the
two tasks implies: a human task that will acknowledge has a recorded and kept revocation; behind
the wait for it the human task is over, and no later step of the main routine moves a leg; the
capture phase of a leg is claimed before its challenge and never again; the second leg begins
when the first has settled. Two frame lemmas, `HumanUntouched` and `MainUntouched`, carry the
interleavings. The action property `NothingStartsAfterStop` needs no invariant: `StopIsObeyed` goes through the steps that start something.

**RPC budget and rebroadcast** (`SupervisionProofs`). `RpcInv` has `CallerWaits` (the work of a request that may still
begin has a caller that waits), `RecordsFirst` (what is answered was retained, what was dispatched was retained before) and
`WithinBudget`. From it follow `NothingStartsAfterGivingUp` and that an answer was retained.
`SubmissionInv` has `OnlyAwaitedLives` (work that may
still send belongs to the request the scheduler awaits), `GatesAreCurrent` (what a gate will decide on was answered for
this attempt), `SentBefore`, `CountedIsTimed` and `VerdictsAreTrue` (an answer the resolution holds was true of the
chain and stays true). From it follow `GivenUpSendsStayUnsent` and `TerminalIsTrue` for any number of polls, and the theorem of the RPC
budget carries over to the capture.

**Package store** (`DurabilityProofs`, second part). `DurableIsVisible` and `WritersAreRight` (a writer that is about
to acknowledge has seen its package and synced the root) are inductive, and neither mentions the lock: exclusion is
not needed for safety, the no-replace rename is enough.

**Journal** (`SupervisionProofs`). For the grants: `ClaimOwnsMarker`, `GrantedIsMarked` and `CallsWellFormed`: a call that will
grant a phase made its marker, and the marker of a granted phase is synced. For the records `ChainInv` adds that every chain anybody
knows - the head, its temporary file, a process's copy, an acknowledged one - is a beginning of the files that no power loss takes
(`ChainsOnDisk`), that a power loss takes the head back by one record at most (`HeadAhead`), and that from the creation of a record's file to the renaming of the head
one process writes, because the exclusive creation of the next file excludes the others (`WritersInPlace`). From it follow
`VerifiedIsComplete` and `ImplementsAppendLog`: the durable files, up to what the head names, are the abstract log.

**Acquisition** (`WalletHistoryProofs`). `HistoryInv` is `WireInv` (what is outstanding at the provider is what the acquisition awaits) and
`StoryInv` (what is kept of a source is what every answer so far said of it, and in the first reading all that was said is kept). From it
follow `OneRequestAtATime` and `CompletedHeardOneStory`. `ReadingInv` follows the two readings of the listing: one that goes on has taken all
that was listed when it began and is not older than its cursor, and one that ended was read to the window or to the floor. A page is the newest entries older
than a cursor (`PagesExist`: there is one, by the least length for which there would be none), so it passes over nothing (`PagesCover`); one of a provider that
reversed it, or lost the cursor, cannot be accepted and move the reading past anything (`AnswersCover` and the duplicate check). From it follows
`NothingListedIsMissing`, for any number of such answers, where the run allows one.

**Economics store** (`EconomicsStoreProofs`). `RecoveryInv` follows a recovery through its operations: `LockInv` (who is between the inspection and the
end holds the lock), `RollbackInv` (a file of a recovery is one it succeeded with, still remembers, or reports as not removed) and
`ApartInv` (no other recovery remembers as its own a file that one has succeeded with). From it follow `RecoveryIsAllOrNothing` and `RecoveredIsKept`.
`ShownEconomicsVerify` has an invariant of its own, `ShelfInv`, and the hypothesis `OneArchiver`: two archivers of one
receipt may both find no bundle and both write it (`archive-store.mjs:277`, although `v1.9-limitations.md:18` says that a conflict is never resolved silently), and then TLC shows a reader
the economics of a record that is gone. That a tool's next receipt is one it planned rests on the least element of a set of
numbers (`NatMin`, from the well-foundedness of the order), and that a rollback takes the last publication first on the greatest (`GreatestIn`).

**Pipeline** (`TradeProofs`, third part). `PipelineInv` ties what a process holds in memory to what is in the files, hosted and on the chain: what
a run is about to record of its uploads is hosted and the token it is about to record is there (`RunInv`), an upload
entry names what is hosted of its own artifacts (`UploadInv`), a mint result names a token minted for its receipt and links what is hosted of it (`TokenInv`), a tool's uploads are served and its results are on the chain (`ToolInv`), and
an anchor, or one on its way, carries metadata uploaded for it (`AnchorInv`). Files are written after what they report, and nothing hosted or on the chain is ever taken
back. From it follow `RecordsShowTheirReceipts` and `TrustedResultsAreOnChain`, for every history and any number of tools.

**Accounting of the trades** (`TradeProofs`, first part). `TradesAreAccountedOnce` is about the positions of the ledger, a fold over the swaps of a
wallet. `Accounts` says of the ledger after the first n swaps that each of its positions, closed or open, balances and that together they have the units
and the quote of these swaps. One swap keeps it (`AdvanceAccounts`: a purchase, and a sale of nothing, of some, of all, or of more than is held), so it holds of every
prefix, by the least length at which it would fail, and `TradesAccounted` follows for a history of any length. A total is taken one position at a time (`SumTheorems`).

**Local server** (`TradeProofs`, second part). `ServerInv` says of each request and tool what it may rely on: what it has fetched is a stretch of the history that
ends no earlier than it was asked, and a page continues it (`WorkersOk`); the caches hold the history from its first trade as long as no fetch was cut off
(`CachesOk`); as long as no two requests overlapped, the one at work knows what is cached, and the cached positions are of the cached transactions (`Alone`).
`ServerAnswersAreRight` (`ServerAnswersHold`) follows for any number of requests and tools and any history, page size and cap.

**Sums** (`SumTheorems`). The least element of a set of numbers (`NatMin`), that sums over finite sets exist and that any member of one may be taken
first, and that a sum of natural numbers is one: the lemmas the proofs of four of the components share.

**Position claims** (`PositionClaimsProofs`). What an operation awaits is a program of captures and comparisons whose length grows with the
window. Two parts: lemmas about composed programs say which check may follow which (`Chained`, `EndsWell`), that every program starts with an enumeration
and the choice of its subjects, and that a selection and an issuance rebuild the population (`OperationPrograms`). Then `EvidenceInv` says what was relied upon at
each position: nothing, the pinned evidence, or the subject with the evidence of an enumeration that is still to be compared with it. `OneEvidence`
(`ClaimsRestOnOneEvidence`) holds for every window. That the enumeration is a sequence at all rests on the existence of the scan's recursive function, by the least number for which it would not exist.
The boundaries have an invariant of their own, `BoundaryInv`: an accepted enumeration holds what its slot held, requests are out only while a boundary is
captured, and an admitted context's transactions are the wallet's, between the two. `BoundariesAccount` (`BoundariesAccountForTheHistory`) adds that what a quantity
moved by at each slot where it moved is what it moved by in all (`MovesAddUp`). That needs the sums of `SumTheorems`.
The ledger's part is `EpisodesReproduceTheLedger` (`EpisodesAreTheLedger`), for windows of any length. Three things carry it. The exact rationals: two
reduced forms over one denominator are equal (by Bezout's identity), so sums over common denominators may be compared (`Worths`, `Balanced`). The folds:
the canonical events, the projection and the scan are recursive functions, which are shown to exist, and what each step does to the inventory, the custody and the
basis follows (`Goes`, `Course`). The spans: between two genuine zeros the wallet holds nothing, so a span projected by itself goes through the states the
whole ledger went through (`Mirrors`, from `ScanOk` and `SpanOk`: a span starts and ends with nothing held, and no event lies outside the
spans while something is held). What is consumed and what is kept then add up to what entered (`BasisKept`). `LedgerInv` is what these rest on: the rows hold events of the
canonical shapes and the opening is a natural quantity.
The outcomes' part is `EveryOutcomeIsJustified` (`OutcomesAreJustified`). A projection of events without a dependency, from a known basis and with no mixed or
shared quote, tells every value (`AllKnown`, `CourseKnown`); a dependency lies within its span, so neither boundary of the claim can exclude it, and what is withheld has
a decision that says why (`WithheldForAReason`). An episode is closed at the end of its span or nowhere (`SpanCloses`): a closed span ends at a genuine zero and
an open one has met none (`CutAtZeros`). So unresolved evidence a verified claim excludes lies behind its span (`ExcludedBehindTheZero`); and of two windows with the same
first transactions the events, the states after them, the zeros and the scan agree so far (`GatheredAgree`, `FirstEventsAgree`, `ScansAgree`), and a span that
closed there is an episode of both (`EpisodeSurvives`), however the later evidence is resolved (`ItCannotMatter`).

**Only model-checked.** The liveness properties `CommitReturns` and `EpisodeEnds`: fairness and ENABLED are beyond the
proof system. `HistoriesHold` and `SettledReceiptsAgree` compare what long folds over
sequences compute with a second computation of it, over every history of an instance; the library's induction theorems cannot be
instantiated here, and the inductions over both computations at once that a proof needs have not been written. (The inductions over a page, a sum, a scan, a ledger or
two windows that begin alike are done by the least number for which the fact would fail.)
`AnchorsShowTheirCard` rests on which receipt was at which place of the file in each run, and its proof has not been written.
`EveryEpisodeIsDisposed` is violated, see section 6.

## 5. Not modelled

- Signatures, canonical JSON, field-by-field validation and mandate arithmetic: one immutable
  message is accepted or refused, and no state depends on how. The models offer valid messages, and
  a failure stands for a refused one. This is the largest part of the engine by lines.
- The projection of a raw transaction into effects (`solana-full-transaction-effect-projector.mjs`,
  `solana-full-transaction-projector.mjs`, `transaction-effect.mjs`, `wallet-wide-normalizer.mjs`,
  `transaction-classifier.mjs`): a pure function of one transaction's bytes; the models take what it may say.
- The bytes of a token account and of an answer: a row is decodable or not.
- The simulated addresses of the dry run and the mint plan's report, the HTML preview, the wording and layout of previews, images
  and attributes: nothing that acts reads them.
- `mint-one.v1-backup.mjs`, an older copy of `mint-one.mjs` that nothing imports; the token's name and symbol, the arguments and the
  printed report of the tools, and the cycle flow of `mint-one`, of which `FlowsAgree` compares the outcome.
- Candidate sets, coverage, receipt-scoped evidence: a pure projection of one snapshot.
- Proof, card, gallery, board, share-card and public-demo views, the routes of the local API that show them (reads of committed files behind a
  scan cache) or draw an image, and the page: rendering of immutable data.
- The reading of the five members of a package from their bytes, the reports of the migration, the compatibility projections.
- The private binding's process launch, namespaces and descriptors; provider qualification tools.
- The time of challenges, mandates and deadlines: an expired one is a failed call.
- Restoring an older copy of the database or the journal, which the operator's contract excludes.

The map covers about a fifth of the engine's lines. What is left is for the most part validation and
rendering without control that outlives a call: a model of it would only copy it.

## 6. Findings

- **`shared_fee`** (`position-episode.mjs:446`, `:468`, `:507-510`). A fee in the quote mint that two
  events share makes an episode "mixed" although every quote is exact. `MIXED_QUOTE_UNSUPPORTED` then lists no
  event, and `normalizeItem` (`non-interference.mjs:115-159`) throws
  `dependency_interval_invalid`: not only this claim but the whole population ends in an exception, where
  section 23 of `verification_scope_acceptability_v1_3.md` wants one disposition for each episode. The existing
  test (`position-episode.test.mjs:291-310`) stops before the evaluation.

Observations met on the way, which the models contain and no run reports as violations:

1. `submitRetainedIntentV1` accepts a leg whose bytes are durable but whose signed state is not
   recorded yet (`wiggles-submission-v1.mjs:97-101`, `sqlite-decision-authority-v1.mjs:989`). From there rows and state disagree and no process can open
   the authority again, although `v1.3-wiggles-trusted-runtime-deployment.md:51` promises that a normal restart reopens it.
   `RestartReopens` is the property with this one case named; the order of the finite supervisor avoids it.
2. `acquireLock` removes the lock path after any `mkdir` error but `EEXIST` (`fs-package-store.mjs:306-311`), also a lock another publisher holds;
   `receipt-package-v1-operations.md:74` says a lock is not stolen. The rename still protects the package.
3. When `mv` renamed the directory and reports a failure, the commit ends in `abort_failed` and not in
   `commit_unknown` (`fs-package-store.mjs:407-411`, `receipt-package-v1-operations.md:89`).
4. The orchestrator and the migration turn `commit_unknown` into `committed` by looking at the directory
   (`targeted-orchestrator.mjs:437-450`); nothing syncs the root, and a power loss takes the package back.
5. A mint that confirmed and lost its answer is minted again (`devnet-mint-adapter.mjs:128-134`); only a recorded mint is skipped.
6. The head recheck accepts an entry above the anchor (`orchestrator.test.mjs:98-101`) unless it is incoherent with it: one in a later slot of the
   anchor's second fails the acquisition as `latest_state_unproven` (`orchestrator.mjs:74-78`, `:163`). It looks only above the head floor: an entry
   indexed late below it is not seen (`v1.14-wallet-wide-acquisition.md:11`).
7. A cycle that is oversold half-way and then closed flat is `verified` in the pipeline, `partial` in `reconstruct.mjs`; an open snapshot that starts with an
   uncovered sale is promoted and then rejected by the verifier's OS-7.
8. A shared quote fee after the close of an episode is excluded by NI-01 and still makes its aggregates unknown.
9. The status byte of a v1.1 claim with a stale hash is 0; records of a batch are lost when a later upload of it is
   refused; `validatePlanForMint` does not look at `mint_ready`.
10. Two concurrent archive imports may replace a bundle between the check and the rename
    (`archive-store.mjs:277`, `:254-264`); the import takes no lock, so a recovery that rolls back may remove a sidecar the import
    just reported as unchanged; a failed import leaves its earlier sidecars and a stale index. With two archivers `ShownEconomicsVerify` fails;
    the run and the theorem have one.
11. Three requests that overlap may leave the server with positions that lack a trade it has already fetched
    (`api/server.mjs:103-120`: the object a late request writes back is compared with nothing). A page that fails, or the cap, leaves a gap in
    the transaction cache that no later fetch fills (`tx-cache.mjs:104` stops at the first known signature). `AnswersAreFresh` and `CachesHaveNoGap` name
    both cases.
12. A custom receipt is minted with the status byte 1 and metadata that say "Verified trade receipt" (`mint.mjs:63`, `upload.mjs:62`);
    `receipt.mjs:14-18` gives it bytes of its own.
13. `rebuild-position.mjs:52` says "Same wallet + token + timeframe = identical hash. Always."; for mixed quotes the server and `mint-one` hash averages
    converted at the rates of the day, and `rebuild-position` hashes unconverted ones. `SettledReceiptsAgree` is about equal rates. A window that ends inside a cycle names the position by the
    window's end, so two answers may give one name to different trades; the property is about positions whose last trade came before what was fetched
    (`SettledBy`).
14. `mint-one` refuses a position that is not closed (`mint-one.mjs:422-428`), the receipt route only one without a sale, the rebuild route and tool none.
15. Swaps of one second are processed newest first (the pages come that way and the sorts break ties by place in the pages, `ingest.mjs:193`,
    `run-pipeline.mjs:245`), so a purchase and a sale of one second become an uncovered sale and an open position.
16. A wallet that holds one wrapped-SOL account, or one account with an extension the decoder does not know, of whatever mint, gets no boundary at all
    (`solana-token-account-decoder-v1.mjs:118`), and a non-empty Token-2022 target never passes the production profile
    (`target-account-enumeration-port-v1.mjs:92-161`).
17. A token carries neither image nor metadata: their linkage is `manifest_only` (`devnet-mint-adapter.mjs:17`, `:162`, `v1.2-limitations.md:10`). A token whose
    answer was lost, or whose run died before it recorded it, is named by no mint result, and nothing tells it from any other token.
18. The card of a receipt is the file under its receipt id (`arweave-upload.mjs:193`), and an id is a place in the file and the beginning of the mint
    (`run-pipeline.mjs:1098`). The receipts are written (`:1116`) before the cards are drawn (`:1161`): an uploader that starts in between, or works
    while they are drawn, gives a new receipt the card of the one that had its place in an earlier run, and the submitter anchors its hash with that metadata.
    `mint-architecture-v1.md:122` and `pipeline_spec.md:238` ("One card per receipt") say it is the card of the receipt. `AnchorsShowTheirCard` names this case.

## 7. Plan

1. A theorem on each part of what is only checked: first that two rebuilds of a settled position (`SettledReceiptsAgree`) see the same trades, then
   the parts of `HistoriesHold`: that what is published verifies and stays covered, and that a settled position stays.
2. `Migrated` as a process over `PackageStore`, commit by commit.
