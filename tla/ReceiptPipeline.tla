---- MODULE ReceiptPipeline ----
(***************************************************************************)
(* From the receipts of a wallet to what is hosted and minted, over the    *)
(* files that outlive each invocation.  run-pipeline fetches the history,  *)
(* publishes v1.2 receipts (upload, resolve, mint, proof manifest) and     *)
(* writes v1.1 receipts, renders, claims and uploads; arweave-upload and   *)
(* mint-submitter work on the v1.1 files on their own.  Any of the three   *)
(* may be killed between two steps.                                        *)
(*                                                                         *)
(* A content hash is the content itself, and a URI names what it serves.   *)
(* All receipts are of one wallet and one token, so a v1.2 receipt id is   *)
(* its type and segment, and a v1.1 receipt id is its place in the file.   *)
(***************************************************************************)
EXTENDS ProofReceipts

CONSTANTS
    Lives,          \* the histories the wallet may have, as sequences of Swaps
    Invocations,    \* flags and environment of run-pipeline:
                    \* [debug, given, uploadId, uploadMax, mint, key]
    Offsets,        \* how many of the oldest swaps the pages may miss
    Tools,          \* concurrent command-line tools
    MaxRuns,        \* bound on invocations of run-pipeline
    MaxToolRuns,    \* bound on invocations of a tool
    MaxFaults       \* bound on crashes, refused uploads, unconfirmed mints and
                    \* failed local writes

ASSUME PipelineBounds == {MaxRuns, MaxToolRuns, MaxFaults} \subseteq Nat

VARIABLES
    run,            \* the process of run-pipeline
    tool,           \* the processes of arweave-upload and mint-submitter
    uploadResults,  \* ledger-upload-results-v12.json: one entry per receipt id
    mintResults,    \* ledger-mint-results-v12.json: one entry per receipt id
    receipts,       \* receipts.jsonl
    renders,        \* the PNG files: [id, content]
    claims,         \* claims.jsonl
    uploads,        \* uploads.jsonl
    anchorResults,  \* mint_results.jsonl
    hosted,         \* what Irys serves
    tokens,         \* the v1.2 tokens minted, in order: an address is a place, and
                    \* the receipt at it is on no chain, only properties read it
    anchors,        \* the receipt anchors minted, in order
    late,           \* signed anchors whose submitter gave up or died: they may land
    bounds          \* [runs, toolRuns, faults, torn]; torn records, for the
                    \* properties, that an uploader met cards of another run

files == <<uploadResults, mintResults, receipts, renders, claims, uploads, anchorResults>>
chain == <<hosted, tokens, anchors, late>>
pipelineVars == <<history, run, tool, files, chain, bounds>>

Idle == [pc |-> "idle"]
Fault == bounds.faults < MaxFaults /\ bounds' = [bounds EXCEPT !.faults = @ + 1]
NoFault == UNCHANGED bounds

PipelineInit ==
    /\ LedgerInit
    /\ run = Idle /\ tool = [t \in Tools |-> Idle]
    /\ uploadResults = {} /\ mintResults = {} /\ anchorResults = {}
    /\ receipts = <<>> /\ renders = {} /\ claims = <<>> /\ uploads = {}
    /\ hosted = {} /\ tokens = <<>> /\ anchors = <<>> /\ late = {}
    /\ bounds = [runs |-> 0, toolRuns |-> 0, faults |-> 0, torn |-> FALSE]

\* The wallet trades on along one of its lives.
Trade ==
    /\ \E life \in Lives :
          /\ Len(history) < Len(life)
          /\ history = SubSeq(life, 1, Len(history))
          /\ Swap(life[Len(history) + 1])
    /\ UNCHANGED <<run, tool, files, chain, bounds>>

-----------------------------------------------------------------------------
(* run-pipeline: fetch.  A failed page ends the paging and the run goes on  *)
(* with the newer part of the history.                                      *)

Start(flags) ==
    /\ run.pc = "idle" /\ bounds.runs < MaxRuns
    /\ run' = [pc |-> "ingest", flags |-> flags]
    /\ bounds' = [bounds EXCEPT !.runs = @ + 1]
    /\ UNCHANGED <<history, tool, files, chain>>

Fetched(missing) == SubSeq(history, missing + 1, Len(history))

\* checkUploadGates: what must be given beside --ledger-debug and a limit.  A
\* keypair that cannot be read or a client that cannot be made is not given.
UploadGates == {"--upload-live", "--upload-confirm", "UPLOAD_ENABLED", "IRYS_KEYPAIR_PATH"}
UploadAllowed(flags) == UploadGates \subseteq flags.given /\ flags.uploadId \cup flags.uploadMax # {}

\* selectPackages: the receipt named, else the first of the file.
SelectPackages(all, flags) ==
    IF flags.uploadId # {} THEN SelectSeq(all, LAMBDA r : Id(r) \in flags.uploadId)
    ELSE SubSeq(all, 1, Min({Len(all)} \cup flags.uploadMax))

Ingest ==
    /\ run.pc = "ingest"
    /\ \E missing \in Offsets :
          LET events == Fetched(missing)
              proofs == Receipts(events, missing)
              cycles == CycleReceipts(events, FALSE, missing)
          IN  run' = IF events = <<>> THEN Idle
                     ELSE [pc |-> IF run.flags.debug THEN "upload" ELSE "receipts",
                           flags |-> run.flags, proofs |-> proofs,
                           todo |-> IF UploadAllowed(run.flags) THEN SelectPackages(proofs, run.flags) ELSE <<>>,
                           cycles |-> [i \in DOMAIN cycles |-> [id |-> i, content |-> cycles[i]]],
                           made |-> {}, seen |-> {}]
    /\ UNCHANGED <<history, tool, files, chain, bounds>>

-----------------------------------------------------------------------------
(* v1.2: upload of image and metadata, one receipt at a time.               *)

EntryOf(results, id) == {e \in results : e.id = id}
Merge(results, entry) == {e \in results : e.id # entry.id} \cup {entry}

Unchanged(e, package) == e.imageHash = package.imageHash /\ e.templateHash = package.templateHash

ShouldSkipUpload(r) == \E e \in EntryOf(uploadResults, Id(r)) : e.status = "complete" /\ Unchanged(e, Package(r))

UploadEntry(r, status, image, metadata) ==
    LET package == Package(r)
    IN  [id |-> package.id, imageHash |-> package.imageHash, templateHash |-> package.templateHash,
         status |-> status, image |-> image, metadata |-> metadata]

SkipUpload ==
    /\ run.pc = "upload" /\ run.todo # <<>> /\ ShouldSkipUpload(Head(run.todo))
    /\ run' = [run EXCEPT !.todo = Tail(@)]
    /\ UNCHANGED <<history, tool, files, chain, bounds>>

Record(entry) ==
    /\ uploadResults' = Merge(uploadResults, entry)
    /\ run' = [run EXCEPT !.pc = "upload", !.todo = Tail(@)]
    /\ UNCHANGED <<history, tool, mintResults, receipts, renders, claims, uploads, anchorResults, tokens, anchors, late>>

Image(r) == [kind |-> "image", of |-> Svg(Preview(r))]
Metadata(r) == [kind |-> "metadata", of |-> FinalMetadata(Template(r), Image(r))]

UploadImage ==
    /\ run.pc = "upload" /\ run.todo # <<>> /\ ~ShouldSkipUpload(Head(run.todo))
    /\ LET r == Head(run.todo)
       IN  \/ /\ hosted' = hosted \cup {Image(r)}
              /\ run' = [run EXCEPT !.pc = "metadata"]
              /\ NoFault
              /\ UNCHANGED <<history, tool, files, tokens, anchors, late>>
           \/ /\ Record(UploadEntry(r, "failed", {}, {}))
              /\ Fault /\ UNCHANGED hosted

UploadMetadata ==
    /\ run.pc = "metadata"
    /\ LET r == Head(run.todo)
       IN  \/ /\ hosted' = hosted \cup {Metadata(r)}
              /\ run' = [run EXCEPT !.pc = "local"]
              /\ NoFault
              /\ UNCHANGED <<history, tool, files, tokens, anchors, late>>
           \/ /\ Record(UploadEntry(r, "partial_image_only", {Image(r)}, {}))
              /\ Fault /\ UNCHANGED hosted

RecordUpload ==
    /\ run.pc = "local"
    /\ LET r == Head(run.todo)
       IN  \/ Record(UploadEntry(r, "complete", {Image(r)}, {Metadata(r)})) /\ NoFault
           \/ Record(UploadEntry(r, "uploaded_but_local_write_failed", {Image(r)}, {Metadata(r)})) /\ Fault
    /\ UNCHANGED hosted

UploadsDone ==
    /\ run.pc = "upload" /\ run.todo = <<>>
    /\ run' = [run EXCEPT !.pc = "mint"]
    /\ UNCHANGED <<history, tool, files, chain, bounds>>

-----------------------------------------------------------------------------
(* v1.2: resolve the mint plans against the upload entries, mint one        *)
(* receipt.                                                                 *)

\* Mutant: an upload of the same receipt id will do.
UsableById(e, package) == e.metadata # {} /\ e.image # {} /\ e.status \in {"complete", "uploaded_but_local_write_failed"}

\* checkUploadFreshness.
UriUsable(e, package) ==
    /\ e.status \in {"complete", "uploaded_but_local_write_failed"}
    /\ e.image # {} /\ e.metadata # {}
    /\ Unchanged(e, package)

\* resolveMintPlan: a URI of an upload that cannot be used is left out.
MintPlan(r) ==
    LET usable == {e \in EntryOf(uploadResults, Id(r)) : UriUsable(e, Package(r))}
    IN  [of |-> r, image |-> UNION {e.image : e \in usable}, metadata |-> UNION {e.metadata : e \in usable}]

\* checkMintGates.
MintGates == {"--mint-live", "--mint-confirm", "--proof-wallet", "MINT_ENABLED", "MINT_AUTHORITY_KEYPAIR_PATH"}
MintAllowed(flags) == MintGates \subseteq flags.given /\ flags.mint # {}

ShouldSkipMint(id) == \E e \in EntryOf(mintResults, id) : e.status = "minted"

\* The plan --mint-receipt-id names, when it is valid and not minted yet.  The
\* blockers of the plan itself are not asked: the resolver is given neither
\* wallet nor authority nor approval, so a plan always has some.
Mintable ==
    {plan \in {MintPlan(r) : r \in Range(run.proofs)} :
        /\ MintAllowed(run.flags) /\ Id(plan.of) \in run.flags.mint
        /\ plan.image # {} /\ plan.metadata # {}
        /\ ~ShouldSkipMint(Id(plan.of))}

\* The image and metadata are linked to the token in this entry and nowhere else
\* (metadata_linkage: manifest_only).
MintEntry(plan, mint, status) ==
    [id |-> Id(plan.of), hash |-> plan.of.hash, image |-> plan.image, metadata |-> plan.metadata,
     mint |-> mint, status |-> status]

\* A bare token of one unit that cannot be transferred.
Minted(plan) == tokens' = Append(tokens, plan.of)

RecordMint(entry) ==
    /\ mintResults' = Merge(mintResults, entry)
    /\ run' = [run EXCEPT !.pc = "manifest"]
    /\ UNCHANGED <<history, tool, uploadResults, receipts, renders, claims, uploads, anchorResults, hosted, anchors, late>>

\* The mint keypair is fresh: nothing on chain refuses a second token.  A mint
\* that throws may still have landed, at whatever time since no step looks at the
\* tokens; the preflight fails before it is sent.
MintSend ==
    /\ run.pc = "mint"
    /\ \E plan \in Mintable :
          \/ /\ Minted(plan) /\ NoFault
             /\ run' = [run EXCEPT !.pc = "minted", !.made = {[plan |-> plan, mint |-> Len(tokens) + 1]}]
             /\ UNCHANGED <<history, tool, files, hosted, anchors, late>>
          \/ Minted(plan) /\ RecordMint(MintEntry(plan, {}, "submit_failed")) /\ Fault
          \/ /\ \E status \in {"submit_failed", "mint_authority_unfunded"} : RecordMint(MintEntry(plan, {}, status))
             /\ Fault /\ UNCHANGED tokens

MintRecord ==
    /\ run.pc = "minted"
    /\ \E made \in run.made :
          \/ RecordMint(MintEntry(made.plan, {made.mint}, "minted")) /\ NoFault
          \/ RecordMint(MintEntry(made.plan, {made.mint}, "minted_but_local_write_failed")) /\ Fault
    /\ UNCHANGED tokens

NothingToMint ==
    /\ run.pc = "mint" /\ Mintable = {}
    /\ run' = [run EXCEPT !.pc = "manifest"]
    /\ UNCHANGED <<history, tool, files, chain, bounds>>

\* deriveProofStatus, by receipt id: nobody asks whether an upload is still fresh.
UploadShown(id) ==
    \E e \in EntryOf(uploadResults, id) :
        e.status \in {"complete", "uploaded_but_local_write_failed"} /\ e.image # {} /\ e.metadata # {}

ProofStatus(r) ==
    CASE Violations(r) # {} -> "UNVERIFIED"
      [] Violations(r) = {} /\ ShouldSkipMint(Id(r)) -> "PROVEN"
      [] Violations(r) = {} /\ ~ShouldSkipMint(Id(r)) /\ UploadShown(Id(r)) -> "UPLOADED_NOT_MINTED"
      [] OTHER -> "VERIFIED_NOT_UPLOADED"

\* deriveSummaryStatus.
SummaryStatus(statuses) ==
    CASE "UNVERIFIED" \in statuses -> "FAIL"
      [] statuses = {"PROVEN"} -> "FULL"
      [] "PROVEN" \in statuses /\ "UNVERIFIED" \notin statuses /\ statuses # {"PROVEN"} -> "PARTIAL"
      [] OTHER -> "NONE"

WriteManifest ==
    /\ run.pc = "manifest"
    /\ run' = [run EXCEPT !.pc = "receipts"]
    /\ UNCHANGED <<history, tool, files, chain, bounds>>

-----------------------------------------------------------------------------
(* v1.1: receipts, renders, claims and uploads of run-pipeline.             *)

WriteReceipts ==
    /\ run.pc = "receipts"
    /\ receipts' = run.cycles
    /\ run' = [run EXCEPT !.pc = "render"]
    /\ UNCHANGED <<history, tool, uploadResults, mintResults, renders, claims, uploads, anchorResults, chain, bounds>>

\* Mutant: a card that exists is not drawn again.
DrawnOnce(cycles) == renders \cup {c \in Range(cycles) : \A p \in renders : p.id # c.id}

\* A render replaces the file of the same receipt id; no other file goes.
Drawn(cycles) == {p \in renders : \A i \in DOMAIN cycles : p.id # cycles[i].id} \cup Range(cycles)

Render ==
    /\ run.pc = "render"
    /\ renders' = Drawn(run.cycles)
    /\ bounds' = [bounds EXCEPT !.torn = @ \/ \E t \in Tools : tool[t].pc = "put"]
    /\ run' = IF run.flags.key /\ run.cycles # <<>> THEN [run EXCEPT !.pc = "claims"] ELSE Idle
    /\ UNCHANGED <<history, tool, uploadResults, mintResults, receipts, claims, uploads, anchorResults, chain>>

SignClaims ==
    /\ run.pc = "claims"
    /\ claims' = run.cycles
    /\ run' = [run EXCEPT !.pc = "put", !.todo = run.cycles, !.made = {}, !.seen = uploads]
    /\ UNCHANGED <<history, tool, uploadResults, mintResults, receipts, renders, uploads, anchorResults, chain, bounds>>

PutBefore(known, r) == \E u \in known : u.hash = r.content

\* The record of an upload: the render is the file found under the receipt id.
Uploaded(r) == {[id |-> r.id, hash |-> r.content, png |-> p.content] : p \in {q \in renders : q.id = r.id}}

\* One receipt of phase 8, of arweave-upload too: three files, or none of the
\* batch is recorded because the refusal ends the loop.
PutDone(process) == [process EXCEPT !.todo = Tail(@)]
PutMade(process, r) == [process EXCEPT !.todo = Tail(@), !.made = @ \cup Uploaded(r)]
Serve(r) == hosted' = hosted \cup {[kind |-> "receipt", of |-> u.hash] : u \in Uploaded(r)}

Put ==
    /\ run.pc = "put" /\ run.todo # <<>>
    /\ LET r == Head(run.todo)
           before == PutBefore(run.seen \cup run.made, r)
       IN  \/ before /\ run' = PutDone(run) /\ NoFault /\ UNCHANGED hosted
           \/ ~before /\ run' = PutMade(run, r) /\ Serve(r) /\ NoFault
           \/ ~before /\ run' = Idle /\ Fault /\ UNCHANGED hosted
    /\ UNCHANGED <<history, tool, files, tokens, anchors, late>>

\* The file is read and then replaced by what was read and the new records: a
\* record another process wrote in between is lost.
Reads(process, file) == IF process.made = {} THEN Idle ELSE [process EXCEPT !.pc = "write", !.seen = file]

ReadUploads ==
    /\ run.pc = "put" /\ run.todo = <<>>
    /\ run' = Reads(run, uploads)
    /\ UNCHANGED <<history, tool, files, chain, bounds>>

WriteUploads ==
    /\ run.pc = "write"
    /\ uploads' = run.seen \cup run.made
    /\ run' = Idle
    /\ UNCHANGED <<history, tool, uploadResults, mintResults, receipts, renders, claims, anchorResults, chain, bounds>>

-----------------------------------------------------------------------------
(* arweave-upload: the same for the receipts file, skipping what has no     *)
(* render.  uploads.jsonl is read once for this, at the start.              *)

ToolStart(t, process, tears) ==
    /\ tool[t].pc = "idle" /\ bounds.toolRuns < MaxToolRuns
    /\ tool' = [tool EXCEPT ![t] = process]
    /\ bounds' = [bounds EXCEPT !.toolRuns = @ + 1, !.torn = @ \/ tears]
    /\ UNCHANGED <<history, run, files, chain>>

\* A receipt has the card of the receipt that had its place in an earlier run.
Undrawn == \E r \in Range(receipts), p \in renders : p.id = r.id /\ p.content # r.content

StartUploader(t) ==
    receipts # <<>> /\ ToolStart(t, [pc |-> "put", todo |-> receipts, made |-> {}, seen |-> uploads], Undrawn)

ToolPut(t) ==
    /\ tool[t].pc = "put" /\ tool[t].todo # <<>>
    /\ LET r == Head(tool[t].todo)
           skips == PutBefore(tool[t].seen, r) \/ Uploaded(r) = {}
       IN  \/ skips /\ tool' = [tool EXCEPT ![t] = PutDone(@)] /\ NoFault /\ UNCHANGED hosted
           \/ ~skips /\ tool' = [tool EXCEPT ![t] = PutMade(@, r)] /\ Serve(r) /\ NoFault
           \/ ~skips /\ tool' = [tool EXCEPT ![t] = Idle] /\ Fault /\ UNCHANGED hosted
    /\ UNCHANGED <<history, run, files, tokens, anchors, late>>

ToolReadUploads(t) ==
    /\ tool[t].pc = "put" /\ tool[t].todo = <<>>
    /\ tool' = [tool EXCEPT ![t] = Reads(@, uploads)]
    /\ UNCHANGED <<history, run, files, chain, bounds>>

ToolWriteUploads(t) ==
    /\ tool[t].pc = "write"
    /\ uploads' = tool[t].seen \cup tool[t].made
    /\ tool' = [tool EXCEPT ![t] = Idle]
    /\ UNCHANGED <<history, run, uploadResults, mintResults, receipts, renders, claims, anchorResults, chain, bounds>>

-----------------------------------------------------------------------------
(* mint-submitter: every file is read once, at the start; at the end the    *)
(* results are read again and replaced.                                     *)

StartSubmitter(t) ==
    claims # <<>> /\ ToolStart(t, [pc |-> "mint", todo |-> claims, made |-> {}, results |-> {}, uploads |-> uploads,
                                   known |-> {r.content : r \in Range(receipts)},
                                   done |-> {m.hash : m \in {a \in anchorResults : a.outcome # "failed"}}], FALSE)

Anchored(hash) == \E i \in DOMAIN anchors : anchors[i].hash = hash

StatusByte(known, hash) == IF hash \in known /\ hash.status = "verified_mixed_quote" THEN 1 ELSE 0

\* The program: the anchor account is created, so at most once per hash.
MintReceipt(anchor) ==
    /\ ~Anchored(anchor.hash) /\ anchor.status \in {0, 1}
    /\ anchors' = Append(anchors, anchor)

Reported(t, hash, outcome) ==
    tool' = [tool EXCEPT ![t].todo = Tail(@), ![t].made = @ \cup {[hash |-> hash, outcome |-> outcome]},
                         ![t].pc = "mint"]

\* The checks of one claim; the transaction is sent in a later step.
CheckClaim(t) ==
    /\ tool[t].pc = "mint" /\ tool[t].todo # <<>>
    /\ LET hash == Head(tool[t].todo).content
       IN  \/ hash \in tool[t].done /\ tool' = [tool EXCEPT ![t].todo = Tail(@)]
           \/ hash \notin tool[t].done /\ Anchored(hash) /\ Reported(t, hash, "already_minted")
           \/ hash \notin tool[t].done /\ ~Anchored(hash) /\ tool' = [tool EXCEPT ![t].pc = "send"]
    /\ UNCHANGED <<history, run, files, chain, bounds>>

\* Mutant: the upload is looked up under the receipt id.
MetadataForId(t, hash) ==
    {[of |-> u.hash, png |-> u.png] : u \in {x \in tool[t].uploads : x.id = Head(tool[t].todo).id}}

\* Without an upload the placeholder metadata is minted, for good.
MetadataFor(t, hash) == {[of |-> u.hash, png |-> u.png] : u \in {x \in tool[t].uploads : x.hash = hash}}

\* The transaction of the claim under way.
Signed(t) ==
    LET hash == Head(tool[t].todo).content
    IN  [hash |-> hash, status |-> StatusByte(tool[t].known, hash), metadata |-> MetadataFor(t, hash)]

\* Mutant: a signature is taken for a confirmation.
SendUnconfirmed(t) ==
    /\ tool[t].pc = "send"
    /\ MintReceipt(Signed(t)) \/ UNCHANGED anchors
    /\ Reported(t, Head(tool[t].todo).content, "confirmed") /\ NoFault
    /\ UNCHANGED <<history, run, files, hosted, tokens, late>>

\* Confirmed; refused because another submitter was first; or given up.
SendClaim(t) ==
    /\ tool[t].pc = "send"
    /\ LET hash == Head(tool[t].todo).content
       IN  \/ MintReceipt(Signed(t)) /\ Reported(t, hash, "confirmed") /\ NoFault /\ UNCHANGED late
           \/ Anchored(hash) /\ Reported(t, hash, "failed") /\ NoFault /\ UNCHANGED <<anchors, late>>
           \/ /\ ~Anchored(hash) /\ Reported(t, hash, "failed") /\ Fault
              /\ late' = late \cup {Signed(t)} /\ UNCHANGED anchors
    /\ UNCHANGED <<history, run, files, hosted, tokens>>

\* A transaction nobody waits for any more reaches the chain.
Lands ==
    /\ \E anchor \in late : MintReceipt(anchor) /\ late' = late \ {anchor}
    /\ UNCHANGED <<history, run, tool, files, hosted, tokens, bounds>>

ReadResults(t) ==
    /\ tool[t].pc = "mint" /\ tool[t].todo = <<>>
    /\ tool' = [tool EXCEPT ![t] = IF @.made = {} THEN Idle ELSE [@ EXCEPT !.pc = "append", !.results = anchorResults]]
    /\ UNCHANGED <<history, run, files, chain, bounds>>

WriteResults(t) ==
    /\ tool[t].pc = "append"
    /\ anchorResults' = tool[t].results \cup tool[t].made
    /\ tool' = [tool EXCEPT ![t] = Idle]
    /\ UNCHANGED <<history, run, uploadResults, mintResults, receipts, renders, claims, uploads, chain, bounds>>

-----------------------------------------------------------------------------

\* A process is killed: what is in its memory is lost, the files stay.  What it
\* has signed may be on its way.
Crash ==
    /\ Fault
    /\ \/ run.pc \notin {"idle", "ingest"} /\ run' = Idle /\ UNCHANGED <<tool, late>>
       \/ \E t \in Tools :
             /\ tool[t].pc # "idle" /\ tool' = [tool EXCEPT ![t] = Idle]
             /\ late' = IF tool[t].pc = "send" THEN late \cup {Signed(t)} ELSE late
             /\ UNCHANGED run
    /\ UNCHANGED <<history, files, hosted, tokens, anchors>>

PipelineNext ==
    \/ Trade \/ Crash \/ Ingest \/ Lands
    \/ \E flags \in Invocations : Start(flags)
    \/ SkipUpload \/ UploadImage \/ UploadMetadata \/ RecordUpload \/ UploadsDone
    \/ MintSend \/ MintRecord \/ NothingToMint \/ WriteManifest
    \/ WriteReceipts \/ Render \/ SignClaims \/ Put \/ ReadUploads \/ WriteUploads
    \/ \E t \in Tools : \/ StartUploader(t) \/ ToolPut(t) \/ ToolReadUploads(t) \/ ToolWriteUploads(t)
                        \/ StartSubmitter(t) \/ CheckClaim(t) \/ SendClaim(t) \/ ReadResults(t) \/ WriteResults(t)

PipelineSpec == PipelineInit /\ [][PipelineNext]_pipelineVars

-----------------------------------------------------------------------------

\* A mint result that names a token names one that was minted for the very receipt
\* of its id and hash, and the image and metadata it links to that token are made
\* of this receipt as it was then, never of an earlier state of the position
\* uploaded under the same receipt id; both are hosted.
MintResultsShowTheirReceipt ==
    \A e \in mintResults : \A i \in e.mint :
        /\ i \in DOMAIN tokens /\ e.id = Id(tokens[i]) /\ e.hash = tokens[i].hash
        /\ e.image = {Image(tokens[i])} /\ e.metadata = {Metadata(tokens[i])}
        /\ e.image \cup e.metadata \subseteq hosted

\* An upload entry that resolves a mint plan names an image and metadata that are
\* hosted, made from the very artifacts it was recorded with, whatever failed in
\* between.
UploadsNameTheirArtifacts ==
    \A e \in uploadResults : UriUsable(e, e) =>
        /\ e.image \cup e.metadata \subseteq hosted
        /\ \A image \in e.image : image.of = e.imageHash /\ \A m \in e.metadata : m.of = FinalMetadata(e.templateHash, image)

\* Whatever is retried, killed or run twice at once, a receipt has one anchor;
\* it carries the placeholder or metadata uploaded for its own hash, and that
\* receipt is served.
AnchorsAreFaithful ==
    /\ \A i, j \in DOMAIN anchors : anchors[i].hash = anchors[j].hash => i = j
    /\ \A i \in DOMAIN anchors : \A m \in anchors[i].metadata :
          m.of = anchors[i].hash /\ [kind |-> "receipt", of |-> m.of] \in hosted

\* What a reader goes by is of the receipt it names, whatever was retried or uploaded
\* again in between: the mint results, which alone link a token to its receipt
\* (devnet-mint-adapter.mjs 162), the uploads they rest on, and the anchors
\* (mint-ready.mjs 58, arweave-upload.mjs 265).
RecordsShowTheirReceipts == MintResultsShowTheirReceipt /\ UploadsNameTheirArtifacts /\ AnchorsAreFaithful

\* mint-architecture-v1.md:122: the image of an anchored receipt is the card that was
\* rendered of it, whatever had its place in an earlier run, whoever uploaded it and
\* whatever was cut off, unless an uploader began between the receipts and the cards of
\* a run (run-pipeline.mjs 1116, 1161) or worked while the cards were drawn.
AnchorsShowTheirCard == bounds.torn \/ \A i \in DOMAIN anchors : \A m \in anchors[i].metadata : m.png = m.of

\* A mint result the next invocation will trust belongs to an anchor; what the
\* proof manifest calls proven has the token its mint result names, minted for that
\* receipt id, all of it when the manifest is FULL, and what it calls uploaded has
\* hosted metadata.
TrustedResultsAreOnChain ==
    LET proven(r) == \E e \in EntryOf(mintResults, Id(r)), i \in DOMAIN tokens : e.mint = {i} /\ Id(tokens[i]) = Id(r)
        proofs == Range(run.proofs)
    IN  /\ \A m \in anchorResults : m.outcome # "failed" => Anchored(m.hash)
        /\ run.pc = "manifest" => \A r \in proofs :
              /\ ProofStatus(r) = "PROVEN" \/ SummaryStatus({ProofStatus(x) : x \in proofs}) = "FULL" => proven(r)
              /\ ProofStatus(r) = "UPLOADED_NOT_MINTED" => \E u \in hosted : u.kind = "metadata" /\ u.of.name = Id(r)

====
