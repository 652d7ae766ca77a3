---------------------------- MODULE PackageStore ----------------------------
(***************************************************************************)
(* The receipt package store, fs-package-store.mjs, for one receipt hash,  *)
(* and the callers that publish through it (targeted-orchestrator.mjs,     *)
(* migrate-recovered-packages.mjs).  Writers are processes on one          *)
(* directory tree; every awaited file system call is a step.               *)
(*                                                                         *)
(* A staging directory has a random name and is written, synced and read   *)
(* back by one writer only, so staging is one step and a failed stage,     *)
(* which never reaches commit, is left out.  The bytes of a package are    *)
(* its digest.  The root's entries reach the disk when the root is synced: *)
(* a power loss may undo what was not.                                     *)
(***************************************************************************)
EXTENDS Naturals

CONSTANTS
  None,
  Writers,       \* processes that publish packages of this receipt
  Digests,       \* package digests
  Faults,        \* which of FaultKinds may happen
  MaxCalls,      \* bound on the calls of one writer, for model checking
  MaxFailures    \* bound on crashes and power losses, for model checking

FaultKinds ==
  {"mkdir",      \* mkdir of the lock fails, and not because the lock exists
   "answer",     \* mv, or the lstat after it, fails after the rename
   "power"}      \* the machine stops

ASSUME NoneIsNoDigest == None \notin Digests /\ None \notin Writers
ASSUME Bounds == Faults \subseteq FaultKinds /\ MaxCalls \in Nat /\ MaxFailures \in Nat

VARIABLES
  committed,     \* the package in <root>/<receipt_hash>, or None
  lock,          \* the writer that made .<receipt_hash>.lock, or None
  durable,       \* the same two entries as they are on the disk
  stage,         \* whether the staging directory of the writer's handle exists
  writer,        \* the call each writer is in
  calls, failures,
  acknowledged,  \* digests store.commit answered as committed or unchanged
  reported       \* digests the caller reported as committed or unchanged

vars == <<committed, lock, durable, stage, writer, calls, failures, acknowledged, reported>>
disk == <<committed, lock, durable>>
books == <<calls, failures, acknowledged, reported>>

Answers == {"committed", "unchanged"}
Outcomes == Answers \cup {"none", "failed", "package_store_locked", "package_store_conflict",
                          "commit_unknown"}

(* renamed is the code's flag; published says the rename really happened *)
Idle == [pc |-> "idle", digest |-> None, renamed |-> FALSE, published |-> FALSE,
         outcome |-> "none"]

Stands(w, pc) == writer[w].pc = pc
Becomes(w, c) == writer' = [writer EXCEPT ![w] = c]
Continues(w, pc) == Becomes(w, [writer[w] EXCEPT !.pc = pc])
Ends(w, outcome, pc) == Becomes(w, [writer[w] EXCEPT !.outcome = outcome, !.pc = pc])

Init ==
  /\ committed = None
  /\ lock = None
  /\ durable = [package |-> None, lock |-> None]
  /\ stage = [w \in Writers |-> FALSE]
  /\ writer = [w \in Writers |-> Idle]
  /\ calls = [w \in Writers |-> 0]
  /\ failures = 0
  /\ acknowledged = {}
  /\ reported = {}

-----------------------------------------------------------------------------
(* stage and validateStage *)
Stage(w) ==
  /\ Stands(w, "idle")
  /\ calls[w] < MaxCalls
  /\ calls' = [calls EXCEPT ![w] = @ + 1]
  /\ stage' = [stage EXCEPT ![w] = TRUE]
  /\ \E d \in Digests : Becomes(w, [Idle EXCEPT !.pc = "lock", !.digest = d])
  /\ UNCHANGED <<disk, failures, acknowledged, reported>>

-----------------------------------------------------------------------------
(* acquireLock *)
AcquireLock(w) ==
  /\ Stands(w, "lock")
  /\ lock = None
  /\ lock' = w
  /\ Continues(w, "inspect")
  /\ UNCHANGED <<committed, durable, stage, books>>

(* Mutant: a lock that stays is waited for without bound. *)
LockAwaited(w) ==
  /\ Stands(w, "lock")
  /\ lock # None
  /\ UNCHANGED vars

(* The lock is still there at the last attempt. *)
LockRemains(w) ==
  /\ Stands(w, "lock")
  /\ lock # None
  /\ Ends(w, "package_store_locked", "return")
  /\ UNCHANGED <<disk, stage, books>>

(* mkdir fails with another error than EEXIST; the catch block then        *)
(* removes the lock path, whoever has made it by then.                     *)
LockFails(w) ==
  /\ "mkdir" \in Faults
  /\ Stands(w, "lock")
  /\ Continues(w, "unlock")
  /\ UNCHANGED <<disk, stage, books>>

ClearLock(w) ==
  /\ Stands(w, "unlock")
  /\ lock' = None
  /\ Ends(w, "package_store_locked", "return")
  /\ UNCHANGED <<committed, durable, stage, books>>

-----------------------------------------------------------------------------
(* commit, with the lock held *)

InspectDestination(w) ==
  /\ Stands(w, "inspect")
  /\ \/ committed = None /\ Continues(w, "rename")
     \/ committed = writer[w].digest /\ Continues(w, "clean")
     \/ /\ committed \notin {None, writer[w].digest}
        /\ Ends(w, "package_store_conflict", "release")
  /\ UNCHANGED <<disk, stage, books>>

(* cleanupStage of an identical package *)
CleanStage(w) ==
  /\ Stands(w, "clean")
  /\ stage' = [stage EXCEPT ![w] = FALSE]
  /\ Ends(w, "unchanged", "release")
  /\ UNCHANGED <<disk, books>>

(* renameDirectoryNoReplace publishes the package *)
Rename(w) ==
  /\ Stands(w, "rename")
  /\ committed = None
  /\ committed' = writer[w].digest
  /\ stage' = [stage EXCEPT ![w] = FALSE]
  /\ Becomes(w, [writer[w] EXCEPT !.pc = "sync", !.renamed = TRUE, !.published = TRUE])
  /\ UNCHANGED <<lock, durable, books>>

RenameUnanswered(w) ==
  /\ "answer" \in Faults
  /\ Stands(w, "rename")
  /\ committed = None
  /\ committed' = writer[w].digest
  /\ stage' = [stage EXCEPT ![w] = FALSE]
  /\ Becomes(w, [writer[w] EXCEPT !.pc = "reconcile", !.published = TRUE])
  /\ UNCHANGED <<lock, durable, books>>

(* The destination exists, or the rename fails. *)
RenameRefused(w) ==
  /\ Stands(w, "rename")
  /\ Continues(w, "reconcile")
  /\ UNCHANGED <<disk, stage, books>>

(* Mutant: any destination is taken for the writer's own package. *)
ReconcileAny(w) ==
  /\ Stands(w, "reconcile")
  /\ Ends(w, IF committed = None THEN "failed" ELSE "unchanged", "release")
  /\ UNCHANGED <<disk, stage, books>>

(* After a failed rename the destination is inspected once more.           *)
Reconcile(w) ==
  /\ Stands(w, "reconcile")
  /\ \/ /\ committed = writer[w].digest /\ stage[w]
        /\ stage' = [stage EXCEPT ![w] = FALSE]
        /\ Ends(w, "unchanged", "release")
     \/ /\ committed = None \/ (committed = writer[w].digest /\ ~stage[w])
        /\ Ends(w, "failed", "release")
        /\ UNCHANGED stage
     \/ /\ committed \notin {None, writer[w].digest}
        /\ Ends(w, "package_store_conflict", "release")
        /\ UNCHANGED stage
  /\ UNCHANGED <<disk, books>>

(* syncDirectory(root) makes the publication durable. *)
SyncRoot(w) ==
  /\ Stands(w, "sync")
  /\ durable' = [package |-> committed, lock |-> lock]
  /\ Continues(w, "confirm")
  /\ UNCHANGED <<committed, lock, stage, books>>

(* the final inspection *)
Confirm(w) ==
  /\ Stands(w, "confirm")
  /\ committed = writer[w].digest
  /\ Ends(w, "committed", "release")
  /\ UNCHANGED <<disk, stage, books>>

(* Any call of the file system may fail: before the rename with its own    *)
(* error, after it as commit_unknown.                                      *)
StepFails(w) ==
  /\ \/ /\ writer[w].pc \in {"inspect", "clean", "rename", "reconcile"}
        /\ Ends(w, "failed", "release")
     \/ /\ writer[w].pc \in {"sync", "confirm"}
        /\ Ends(w, "commit_unknown", "release")
  /\ UNCHANGED <<disk, stage, books>>

-----------------------------------------------------------------------------
(* releaseLock.  Its failure replaces whatever commit was about to return. *)
ReleaseErrors(w) ==
  IF writer[w].renamed THEN {"commit_unknown"} ELSE {"package_store_locked", "failed"}

ReleaseLock(w) ==
  /\ Stands(w, "release")
  /\ lock # None
  /\ lock' = None
  /\ Continues(w, "releaseSync")
  /\ UNCHANGED <<committed, durable, stage, books>>

ReleaseFails(w) ==
  /\ Stands(w, "release") \/ Stands(w, "releaseSync")
  /\ \E error \in ReleaseErrors(w) : Ends(w, error, "return")
  /\ UNCHANGED <<disk, stage, books>>

(* Mutant: the root is not synced after the lock is removed. *)
ReleaseUnsynced(w) ==
  /\ Stands(w, "releaseSync")
  /\ Continues(w, "return")
  /\ UNCHANGED <<disk, stage, books>>

SyncRelease(w) ==
  /\ Stands(w, "releaseSync")
  /\ durable' = [package |-> committed, lock |-> lock]
  /\ Continues(w, "return")
  /\ UNCHANGED <<committed, lock, stage, books>>

-----------------------------------------------------------------------------
(* The caller.  commit's answer is passed on; after commit_unknown the     *)
(* destination is inspected once.  A staging directory that is left        *)
(* behind, aborted or not, has a name nobody will look up.                 *)
Return(w) ==
  /\ Stands(w, "return")
  /\ LET d == writer[w].digest
         answered == writer[w].outcome \in Answers
     IN /\ acknowledged' = IF answered THEN acknowledged \cup {d} ELSE acknowledged
        /\ reported' = IF answered THEN reported \cup {d} ELSE reported
  /\ IF writer[w].outcome = "commit_unknown"
     THEN Continues(w, "reinspect")
     ELSE Becomes(w, Idle)
  /\ stage' = [stage EXCEPT ![w] = FALSE]
  /\ UNCHANGED <<disk, calls, failures>>

Reinspect(w) ==
  /\ Stands(w, "reinspect")
  /\ reported' = IF committed = writer[w].digest THEN reported \cup {writer[w].digest}
                                                 ELSE reported
  /\ Becomes(w, Idle)
  /\ UNCHANGED <<disk, stage, calls, failures, acknowledged>>

-----------------------------------------------------------------------------
(* A process dies; what it did to the file system stays. *)
Crash(w) ==
  /\ ~Stands(w, "idle")
  /\ failures < MaxFailures
  /\ failures' = failures + 1
  /\ Becomes(w, Idle)
  /\ stage' = [stage EXCEPT ![w] = FALSE]
  /\ UNCHANGED <<disk, calls, acknowledged, reported>>

(* Every process dies and each entry of the root that was not synced is    *)
(* found either as it was last or as it was last synced.                   *)
PowerLoss ==
  /\ "power" \in Faults
  /\ failures < MaxFailures
  /\ failures' = failures + 1
  /\ committed' \in {committed, durable.package}
  /\ lock' \in {lock, durable.lock}
  /\ durable' = [package |-> committed', lock |-> lock']
  /\ writer' = [w \in Writers |-> Idle]
  /\ stage' = [w \in Writers |-> FALSE]
  /\ UNCHANGED <<calls, acknowledged, reported>>

(* What a live process does next when the file system answers it, and the  *)
(* errors of the file system.                                              *)
Proceed(w) ==
  \/ AcquireLock(w) \/ LockRemains(w) \/ ClearLock(w)
  \/ InspectDestination(w) \/ CleanStage(w)
  \/ Rename(w) \/ RenameRefused(w) \/ Reconcile(w)
  \/ SyncRoot(w) \/ Confirm(w)
  \/ ReleaseLock(w) \/ ReleaseFails(w) \/ SyncRelease(w)
  \/ Return(w) \/ Reinspect(w)

WriterStep(w) == Proceed(w) \/ LockFails(w) \/ RenameUnanswered(w) \/ StepFails(w)

Next == PowerLoss \/ \E w \in Writers : Stage(w) \/ WriterStep(w) \/ Crash(w)

Spec == Init /\ [][Next]_vars

(* A process that is not dead goes on with its call; no error is owed to it. *)
FairSpec == Spec /\ \A w \in Writers : WF_vars(Proceed(w))

-----------------------------------------------------------------------------
(* Properties *)

InLock == {"inspect", "clean", "rename", "reconcile", "sync", "confirm", "release"}
Locations == InLock \cup {"idle", "lock", "unlock", "releaseSync", "return", "reinspect"}

Calls == [pc : Locations, digest : Digests \cup {None}, renamed : BOOLEAN,
          published : BOOLEAN, outcome : Outcomes]

TypeOK ==
  /\ committed \in Digests \cup {None}
  /\ lock \in Writers \cup {None}
  /\ durable \in [package : Digests \cup {None}, lock : Writers \cup {None}]
  /\ stage \in [Writers -> BOOLEAN]
  /\ writer \in [Writers -> Calls]
  /\ \A w \in Writers : ~Stands(w, "idle") => writer[w].digest \in Digests
  /\ calls \in [Writers -> Nat] /\ failures \in Nat
  /\ acknowledged \subseteq Digests /\ reported \subseteq Digests

(* A package commit answered for survives every later crash and power      *)
(* loss, the answer "unchanged" included, which rests on a rename of       *)
(* another process that may never have synced it.                          *)
AcknowledgedPackageIsDurable == \A d \in acknowledged : durable.package = d

(* A published package is never replaced by another one, even when the     *)
(* lock failed to exclude a second writer; at most a power loss undoes a   *)
(* publication that was never synced.                                      *)
NeverReplaced ==
  [][/\ durable.package # None => durable'.package = durable.package
     /\ committed # None => committed' \in {committed, None}]_vars

(* Every commit comes to an end, whatever lock a dead process left behind. *)
CommitReturns == \A w \in Writers : ~Stands(w, "idle") ~> Stands(w, "idle")

Store == INSTANCE WriteOnce
  WITH Packages <- Digests, Absent <- None, value <- durable.package, confirmed <- acknowledged

(* The durable entry of the receipt is a write-once register.              *)
ImplementsWriteOnce == Store!RegisterSpec
=============================================================================
