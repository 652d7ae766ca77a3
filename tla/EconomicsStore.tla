--------------------------- MODULE EconomicsStore ---------------------------
(***************************************************************************)
(* The receipt archive, the economics sidecars beside it and the inventory *)
(* that shows both (engine/src/inventory): the command-line tools that      *)
(* write these files, run next to each other and cut off anywhere.          *)
(*                                                                         *)
(* A receipt hash covers the economics of a receipt but not every field of *)
(* it, so two records may share a hash and differ: a bundle is the variant *)
(* archived.  A sidecar is what its recovery method and the bundle it was  *)
(* built over make it; it verifies over that variant only.                  *)
(***************************************************************************)
EXTENDS Integers, FiniteSets

CONSTANTS
    N,           \* receipts, written in the order of their hashes
    Variants,
    Archivers,   \* importCurrentRunToReceiptArchive
    Importers,   \* importCurrentReceiptEconomics
    Recoverers,  \* recoverReceiptEconomics
    Readers,     \* buildInventorySnapshot
    Nothing,     \* no file, no record, no holder
    MaxReruns,   \* bound: how often the pipeline replaces the current run
    MaxTroubles  \* bound: crashes and failures of the file system

Hashes == 1..N

ASSUME StoreBounds ==
    /\ N \in Nat \ {0} /\ MaxReruns \in Nat /\ MaxTroubles \in Nat
    /\ Nothing \notin Variants \cup Recoverers
    /\ Archivers \cap Importers = {} /\ Archivers \cap Recoverers = {}
    /\ Importers \cap Recoverers = {}
    /\ Readers \cap (Archivers \cup Importers \cup Recoverers) = {}

\* What a sidecar file says: the recovery method and the bundle it is over.
Contents == [method : {"import", "recovery"}, over : Variants]
Sidecars == [bytes : Contents, by : Importers \cup Recoverers]

ASSUME NothingIsNoFile == Nothing \notin Contents \cup Sidecars

Writers == Archivers \cup Importers \cup Recoverers

VARIABLES
    current,    \* the records of the current run
    bundles,    \* the archived records
    sidecars,   \* the sidecar files, each with the tool that published it
    index,      \* the economics index: what it lists, or {} for no file
    lock,       \* the recovery lock's holder
    proc,       \* the tools
    shown,      \* the receipt with economics each reader shows
    reruns, troubles

vars == <<current, bundles, sidecars, index, lock, proc, shown, reruns, troubles>>
files == <<bundles, sidecars, index, lock>>
bounds == <<reruns, troubles>>

Idle == [pc |-> "idle", plan |-> <<>>, todo |-> {}, listed |-> {},
         old |-> {}, proposed |-> {}, mine |-> {}, undone |-> TRUE]

Least(S) == CHOOSE h \in S : \A g \in S : h <= g
Greatest(S) == CHOOSE h \in S : \A g \in S : g <= h
At(p, pc) == proc[p].pc = pc
Goes(p, pc) == proc' = [proc EXCEPT ![p].pc = pc]
Ends(p, how) == proc' = [proc EXCEPT ![p] = [Idle EXCEPT
                           !.pc = how, !.undone = @ /\ proc[p].undone,
                           !.plan = IF p \in Recoverers /\ how = "ok"
                                    THEN proc[p].plan ELSE @]]
Upcoming(p) == Least(proc[p].todo)
Remaining(p) == proc[p].todo \ {Upcoming(p)}

\* The bytes of a sidecar, whoever published it.
Bytes(h) == IF sidecars[h] = Nothing THEN Nothing ELSE sidecars[h].bytes

\* validateReceiptEconomicsSidecar: the archived record is the one it was
\* built over.
Verifies(h) == sidecars[h] # Nothing /\ sidecars[h].bytes.over = bundles[h]

Present == {h \in Hashes : sidecars[h] # Nothing}

\* buildReceiptEconomicsIndex over the files listed.
IndexOf(S) == {<<h, sidecars[h].bytes.over>> : h \in S}

-----------------------------------------------------------------------------
(* The archive.  The pre-flight compares every record with its bundle; the  *)
(* write looks for the file and then renames another into its place.        *)

ScanRun(a) ==
    /\ At(a, "idle")
    /\ LET records == {h \in Hashes : current[h] # Nothing} IN
       IF \E h \in records : bundles[h] \notin {Nothing, current[h]}
       THEN Ends(a, "failed")
       ELSE proc' = [proc EXCEPT ![a].pc = "check", ![a].todo = records,
                                 ![a].plan = [h \in records |-> current[h]]]
    /\ UNCHANGED <<current, files, shown, bounds>>

CheckBundle(a) ==
    /\ At(a, "check") /\ proc[a].todo # {}
    /\ LET existing == bundles[Upcoming(a)] IN
       IF existing = Nothing THEN Goes(a, "place")
       ELSE IF existing = proc[a].plan[Upcoming(a)]
       THEN proc' = [proc EXCEPT ![a].todo = Remaining(a)]
       ELSE Ends(a, "failed")
    /\ UNCHANGED <<current, files, shown, bounds>>

PlaceBundle(a) ==
    /\ At(a, "place")
    /\ bundles' = [bundles EXCEPT ![Upcoming(a)] = proc[a].plan[Upcoming(a)]]
    /\ proc' = [proc EXCEPT ![a].pc = "check", ![a].todo = Remaining(a)]
    /\ UNCHANGED <<current, sidecars, index, lock, shown, bounds>>

ArchiveDone(a) ==
    /\ At(a, "check") /\ proc[a].todo = {}
    /\ Ends(a, "ok")
    /\ UNCHANGED <<current, files, shown, bounds>>

-----------------------------------------------------------------------------
(* Sidecars of the current run (import-current-receipt-economics).          *)

Sidecar(method, h) == [method |-> method, over |-> bundles[h]]

\* Every receipt needs its bundle and no other sidecar.  (Receipts the gates
\* reject are passed over: none of the model's is one.)  Without a receipt the
\* index is left alone.
PrepareImport(i) ==
    /\ At(i, "idle")
    /\ LET eligible == {h \in Hashes : current[h] # Nothing} IN
       IF \E h \in eligible : \/ bundles[h] = Nothing
                              \/ Bytes(h) \notin {Nothing, Sidecar("import", h)}
       THEN Ends(i, "failed")
       ELSE IF eligible = {} THEN Ends(i, "ok")
       ELSE proc' = [proc EXCEPT ![i].pc = "write", ![i].todo = eligible,
                                 ![i].plan = [h \in eligible |-> Sidecar("import", h)]]
    /\ UNCHANGED <<current, files, shown, bounds>>

\* writeReceiptEconomicsSidecar validates again and links the file exclusively.
WriteSidecar(i) ==
    /\ At(i, "write") /\ proc[i].todo # {}
    /\ LET h == Upcoming(i)  planned == proc[i].plan[h] IN
       IF planned.over # bundles[h] \/ Bytes(h) \notin {Nothing, planned}
       THEN Ends(i, "failed") /\ UNCHANGED sidecars
       ELSE /\ sidecars' = IF sidecars[h] = Nothing
                           THEN [sidecars EXCEPT ![h] = [bytes |-> planned, by |-> i]]
                           ELSE sidecars
            /\ proc' = [proc EXCEPT ![i].todo = Remaining(i)]
    /\ UNCHANGED <<current, bundles, index, lock, shown, bounds>>

\* rebuildReceiptEconomicsIndex reads every sidecar, then replaces the index.
ListSidecars(p) ==
    /\ \/ p \in Importers /\ At(p, "write") /\ proc[p].todo = {}
       \/ p \in Recoverers /\ At(p, "rebuild")
    /\ IF \A h \in Present : Verifies(h)
       THEN proc' = [proc EXCEPT ![p].pc = "replace", ![p].listed = IndexOf(Present)]
       ELSE IF p \in Importers THEN Ends(p, "failed") ELSE Goes(p, "undo")
    /\ UNCHANGED <<current, files, shown, bounds>>

ReplaceIndex(p) ==
    /\ At(p, "replace")
    /\ index' = {proc[p].listed}
    /\ IF p \in Importers THEN Ends(p, "ok") ELSE Goes(p, "unlock")
    /\ UNCHANGED <<current, bundles, sidecars, lock, shown, bounds>>

-----------------------------------------------------------------------------
(* Recovered sidecars (recover-receipt-economics): a batch that is published *)
(* whole or rolled back, under a lock that other recoveries respect.        *)

\* The candidates whose archived record is there and agrees with theirs.
PrepareRecovery(r) ==
    /\ At(r, "idle")
    /\ \E eligible \in SUBSET {h \in Hashes : bundles[h] # Nothing} :
       /\ eligible # {}
       /\ proc' = [proc EXCEPT ![r].pc = "lock", ![r].todo = eligible,
                               ![r].plan = [h \in eligible |-> Sidecar("recovery", h)]]
    /\ UNCHANGED <<current, files, shown, bounds>>

\* Mutant: a lock that is there is taken over.
AcquireLockAnyway(r) ==
    /\ At(r, "lock")
    /\ lock' = r /\ Goes(r, "inspect")
    /\ UNCHANGED <<current, bundles, sidecars, index, shown, bounds>>

AcquireLock(r) ==
    /\ At(r, "lock")
    /\ IF lock = Nothing
       THEN lock' = r /\ Goes(r, "inspect")
       ELSE Ends(r, "failed") /\ UNCHANGED lock
    /\ UNCHANGED <<current, bundles, sidecars, index, shown, bounds>>

\* All conflicts are found before anything is written; then the whole batch is
\* validated and written beside the store, where no other tool looks.
Inspect(r) ==
    /\ At(r, "inspect")
    /\ IF \E h \in proc[r].todo : Bytes(h) \notin {Nothing, proc[r].plan[h]}
       THEN Ends(r, "failed") /\ lock' = Nothing
       ELSE /\ proc' = [proc EXCEPT
                ![r].pc = IF \A h \in proc[r].todo : proc[r].plan[h].over = bundles[h]
                          THEN "publish" ELSE "undo",
                ![r].old = index]
            /\ UNCHANGED lock
    /\ UNCHANGED <<current, bundles, sidecars, index, shown, bounds>>

Publish(r) ==
    /\ At(r, "publish") /\ proc[r].todo # {}
    /\ LET h == Upcoming(r)  planned == proc[r].plan[h] IN
       IF Bytes(h) \notin {Nothing, planned}
       THEN Goes(r, "undo") /\ UNCHANGED sidecars
       ELSE IF sidecars[h] # Nothing
       THEN proc' = [proc EXCEPT ![r].todo = Remaining(r)] /\ UNCHANGED sidecars
       ELSE /\ sidecars' = [sidecars EXCEPT ![h] = [bytes |-> planned, by |-> r]]
            /\ proc' = [proc EXCEPT ![r].todo = Remaining(r), ![r].mine = @ \cup {h}]
    /\ UNCHANGED <<current, bundles, index, lock, shown, bounds>>

\* The index this recovery is about to write.
ProposeIndex(r) ==
    /\ At(r, "publish") /\ proc[r].todo = {}
    /\ IF \A h \in Present : Verifies(h)
       THEN proc' = [proc EXCEPT ![r].pc = "rebuild", ![r].proposed = {IndexOf(Present)}]
       ELSE Goes(r, "undo")
    /\ UNCHANGED <<current, files, shown, bounds>>

\* An error of the file system while publishing or rebuilding.
Breaks(r) ==
    /\ proc[r].pc \in {"publish", "rebuild", "replace"}
    /\ troubles < MaxTroubles /\ troubles' = troubles + 1
    /\ Goes(r, "undo")
    /\ UNCHANGED <<current, files, shown, reruns>>

\* Mutant: the rollback stops at the first file it cannot account for.
UndoPublicationOnlyLast(r) ==
    /\ At(r, "undo") /\ proc[r].mine # {}
    /\ sidecars' = [sidecars EXCEPT ![Greatest(proc[r].mine)] = Nothing]
    /\ proc' = [proc EXCEPT ![r].mine = {}]
    /\ UNCHANGED <<current, bundles, index, lock, shown, bounds>>

\* The published files go in reverse order, each if it is still the one this
\* recovery linked; a removal that fails is reported.
UndoPublication(r) ==
    /\ At(r, "undo") /\ proc[r].mine # {}
    /\ LET h == Greatest(proc[r].mine)  rest == proc[r].mine \ {h}
           owned == sidecars[h] # Nothing /\ sidecars[h].by = r IN
       \/ /\ sidecars' = IF owned THEN [sidecars EXCEPT ![h] = Nothing] ELSE sidecars
          /\ proc' = [proc EXCEPT ![r].mine = rest]
          /\ UNCHANGED troubles
       \/ /\ owned /\ troubles < MaxTroubles /\ troubles' = troubles + 1
          /\ proc' = [proc EXCEPT ![r].mine = rest, ![r].undone = FALSE]
          /\ UNCHANGED sidecars
    /\ UNCHANGED <<current, bundles, index, lock, shown, reruns>>

\* The index is put back if it holds the bytes this recovery proposed, and
\* another tool's index is reported instead; the lock goes last.
UndoIndex(r) ==
    /\ At(r, "undo") /\ proc[r].mine = {}
    /\ LET untouched == proc[r].proposed = {} \/ index = proc[r].old
           owned == index = proc[r].proposed IN
       /\ index' = IF ~untouched /\ owned THEN proc[r].old ELSE index
       /\ proc' = [proc EXCEPT ![r] = [Idle EXCEPT
              !.pc = "failed",
              !.undone = proc[r].undone /\ (untouched \/ owned)]]
    /\ lock' = Nothing
    /\ UNCHANGED <<current, bundles, sidecars, shown, bounds>>

Release(r) ==
    /\ At(r, "unlock")
    /\ lock' = Nothing
    /\ Ends(r, "ok")
    /\ UNCHANGED <<current, bundles, sidecars, index, shown, bounds>>

-----------------------------------------------------------------------------
(* The inventory: the current run and the archive are merged, conflicting   *)
(* records left out, and then the sidecars are read, each over its bundle.  *)
(* A snapshot treats its receipts alike, so a reader shows one of them, and  *)
(* an archived one: the others never get economics.                         *)

\* Mutant: a record of the current run hides a conflicting archived one.
MergedPreferring(run, archived) == IF run # Nothing THEN run ELSE archived

\* mergeArchiveReceipts
Merged(run, archived) ==
    IF run = Nothing THEN archived
    ELSE IF archived \in {Nothing, run} THEN run ELSE Nothing

ReadRecords(q) ==
    /\ At(q, "idle")
    /\ \E h \in Hashes :
         LET record == Merged(current[h], bundles[h]) IN
         /\ record # Nothing /\ bundles[h] # Nothing
         /\ proc' = [proc EXCEPT ![q].pc = "economics", ![q].plan = <<h, record>>]
    /\ UNCHANGED <<current, files, shown, bounds>>

\* attachCanonicalEconomics: to an archived receipt whose sidecar verifies.
AttachEconomics(q) ==
    /\ At(q, "economics")
    /\ LET h == proc[q].plan[1] IN
       shown' = [shown EXCEPT ![q] =
          IF Verifies(h)
          THEN [record |-> proc[q].plan[2], economics |-> sidecars[h].bytes]
          ELSE Nothing]
    /\ Ends(q, IF shown'[q] = Nothing THEN "idle" ELSE "shown")
    /\ UNCHANGED <<current, files, bounds>>

-----------------------------------------------------------------------------
(* The surroundings: another run of the pipeline, a tool that is cut off,    *)
(* and the operator who removes the lock a dead recovery left.              *)

Rerun ==
    /\ reruns < MaxReruns /\ reruns' = reruns + 1
    /\ current' \in [Hashes -> Variants \cup {Nothing}]
    /\ UNCHANGED <<files, proc, shown, troubles>>

\* Any tool may simply stop; a recovery that does leaves its lock.
Crash(r) ==
    /\ lock = r
    /\ troubles < MaxTroubles /\ troubles' = troubles + 1
    /\ Ends(r, "dead")
    /\ UNCHANGED <<current, files, shown, reruns>>

RemoveStaleLock ==
    /\ \E r \in Recoverers : lock = r /\ At(r, "dead")
    /\ lock' = Nothing
    /\ UNCHANGED <<current, bundles, sidecars, index, proc, shown, bounds>>

Init ==
    /\ current = [h \in Hashes |-> Nothing]
    /\ bundles \in [Hashes -> Variants \cup {Nothing}]   \* of earlier runs
    /\ sidecars = [h \in Hashes |-> Nothing]
    /\ index = {} /\ lock = Nothing
    /\ proc = [p \in Writers \cup Readers |-> Idle]
    /\ shown = [q \in Readers |-> Nothing]
    /\ reruns = 0 /\ troubles = 0

Next ==
    \/ \E a \in Archivers :
         ScanRun(a) \/ CheckBundle(a) \/ PlaceBundle(a) \/ ArchiveDone(a)
    \/ \E i \in Importers : PrepareImport(i) \/ WriteSidecar(i)
    \/ \E p \in Importers \cup Recoverers : ListSidecars(p) \/ ReplaceIndex(p)
    \/ \E r \in Recoverers :
         \/ PrepareRecovery(r) \/ AcquireLock(r) \/ Inspect(r) \/ Publish(r)
         \/ ProposeIndex(r) \/ Breaks(r) \/ UndoPublication(r) \/ UndoIndex(r)
         \/ Release(r)
    \/ \E q \in Readers : ReadRecords(q) \/ AttachEconomics(q)
    \/ \E r \in Recoverers : Crash(r)
    \/ Rerun \/ RemoveStaleLock

Spec == Init /\ [][Next]_vars

-----------------------------------------------------------------------------
(* A recovery that ended in failure left none of its own files behind,      *)
(* unless it reported that a removal failed: the batch is published whole   *)
(* or not at all (recover-receipt-economics.mjs 340-390).                   *)
RecoveryIsAllOrNothing ==
    \A r \in Recoverers :
        At(r, "failed") /\ proc[r].undone =>
            \A h \in Present : sidecars[h].by # r

(* What a recovery has written or found in place stays there, while it goes  *)
(* on and after it reported success: another recovery that fails does not    *)
(* take a shared sidecar away, because the lock keeps the two apart          *)
(* (recover-receipt-economics.mjs 196-212 and 340-350).                     *)
RecoveredIsKept ==
    \A r \in Recoverers :
        proc[r].pc \in {"publish", "rebuild", "replace", "unlock", "ok"} =>
            \A h \in DOMAIN proc[r].plan \ proc[r].todo :
                Bytes(h) = proc[r].plan[h]

(* inventory_spec.md:51: the inventory adds economics to a receipt only when *)
(* they verify over the very record it shows, though the record is read      *)
(* before the sidecar, and a run may have replaced it (inventory.mjs         *)
(* 176-231).  It holds for one archiver, as in the run and the theorem       *)
(* (OneArchiver): of two, the second may replace a bundle between the other's *)
(* look and its report, and a reader shows economics of a record that is gone. *)
ShownEconomicsVerify ==
    \A q \in Readers :
        shown[q] # Nothing => shown[q].economics.over = shown[q].record

=============================================================================
