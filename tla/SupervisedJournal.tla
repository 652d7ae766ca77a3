-------------------------- MODULE SupervisedJournal --------------------------
(***************************************************************************)
(* The supervision journal of one episode, supervised-journal-v1.mjs: one  *)
(* file per record, a head file that names the last record and the digest  *)
(* of the chain, and one marker file per consumed phase.  Every system     *)
(* call of the synchronous functions is a step; other processes that have  *)
(* the same root open, crashes and power losses come in between.           *)
(*                                                                         *)
(* A digest of a chain is that chain.  A file that is not whole yet is not *)
(* told apart from one that is: the head names a record only after it is   *)
(* whole, and opening stops in both cases.  What verify reads it reads as  *)
(* one step: it reads the head, then the records, then the markers, which  *)
(* are written in the opposite order, so a verification that succeeds      *)
(* would have succeeded when it read the head.                             *)
(***************************************************************************)
EXTENDS Naturals, Sequences, SequencesExt

CONSTANTS
  Runtimes,      \* processes that open the journal
  Phases,        \* phase and ordinal pairs
  Entries,       \* every other record
  NoFile,
  MaxRecords,    \* the 1024 of the code
  MaxFailures    \* bound on crashes and power losses, for model checking

ASSUME RecordsDistinct == Phases \cap Entries = {}
ASSUME Bounds == MaxRecords \in Nat /\ MaxFailures \in Nat

VARIABLES
  files,         \* the record files, in order
  head,          \* supervised-head.json: the chain it names
  next,          \* supervised-head-next.json, or NoFile
  markers,       \* phases with a marker file
  durable,       \* the directory as it was last synced
  process,       \* the call each process is in, and its own copy of the records
  failures,
  retained,      \* chains whose digest retain returned, or claimPhase after it
  granted        \* how often claimPhase returned, for each phase

vars == <<files, head, next, markers, durable, process, failures, retained, granted>>
disk == <<files, head, next, markers, durable>>
books == <<failures, retained, granted>>

Records == Phases \cup Entries

Directory == [files |-> Len(files), head |-> head, next |-> next, markers |-> markers]
SyncDirectory == durable' = Directory

Down == [pc |-> "down", records |-> <<>>, record |-> NoFile]

At(r, pc) == process[r].pc = pc
Goto(r, pc) == process' = [process EXCEPT ![r].pc = pc]

Init ==
  /\ files = <<>> /\ head = <<>> /\ next = NoFile /\ markers = {}
  /\ durable = Directory
  /\ process = [r \in Runtimes |-> Down]
  /\ failures = 0
  /\ retained = {}
  /\ granted = [p \in Phases |-> 0]

-----------------------------------------------------------------------------
Consumed(records) == {p \in Phases : Contains(records, p)}

(* verify, of a process whose copy is records *)
Verified(records) == head = records /\ files = records /\ markers = Consumed(records)

(* openJournal: a journal that does not verify cannot be opened. *)
Open(r) ==
  /\ At(r, "down")
  /\ Verified(files)
  /\ process' = [process EXCEPT ![r] = [Down EXCEPT !.pc = "idle", !.records = files]]
  /\ UNCHANGED <<disk, books>>

CanRetain(r) == Len(process[r].records) < MaxRecords /\ head = process[r].records

RetainEntry(r) ==
  /\ At(r, "idle")
  /\ CanRetain(r)
  /\ \E e \in Entries : process' = [process EXCEPT ![r].pc = "record", ![r].record = e]
  /\ UNCHANGED <<disk, books>>

ClaimPhase(r) ==
  /\ At(r, "idle")
  /\ Verified(process[r].records)
  /\ \E p \in Phases : process' = [process EXCEPT ![r].pc = "mark", ![r].record = p]
  /\ UNCHANGED <<disk, books>>

(* Mutant: the marker file may exist already. *)
MarkAgain(r) ==
  /\ At(r, "mark")
  /\ markers' = markers \cup {process[r].record}
  /\ Goto(r, "markSync")
  /\ UNCHANGED <<files, head, next, durable, books>>

CreateMarker(r) ==
  /\ At(r, "mark")
  /\ process[r].record \notin markers
  /\ markers' = markers \cup {process[r].record}
  /\ Goto(r, "markSync")
  /\ UNCHANGED <<files, head, next, durable, books>>

SyncMarker(r) ==
  /\ At(r, "markSync")
  /\ SyncDirectory
  /\ Goto(r, "retain")
  /\ UNCHANGED <<files, head, next, markers, books>>

RetainPhase(r) ==
  /\ At(r, "retain")
  /\ CanRetain(r)
  /\ Goto(r, "record")
  /\ UNCHANGED <<disk, books>>

(* Mutant: a record file that exists is written over. *)
RecordOver(r) ==
  /\ At(r, "record")
  /\ files' = Append(process[r].records, process[r].record)
  /\ Goto(r, "recordSync")
  /\ UNCHANGED <<head, next, markers, durable, books>>

CreateRecord(r) ==
  /\ At(r, "record")
  /\ Len(files) = Len(process[r].records)
  /\ files' = Append(files, process[r].record)
  /\ Goto(r, "recordSync")
  /\ UNCHANGED <<head, next, markers, durable, books>>

SyncRecord(r) ==
  /\ At(r, "recordSync")
  /\ SyncDirectory
  /\ process' = [process EXCEPT ![r].pc = "next",
                                ![r].records = Append(@, process[r].record)]
  /\ UNCHANGED <<files, head, next, markers, books>>

CreateNext(r) ==
  /\ At(r, "next")
  /\ next = NoFile
  /\ next' = process[r].records
  /\ Goto(r, "nextSync")
  /\ UNCHANGED <<files, head, markers, durable, books>>

SyncNext(r) ==
  /\ At(r, "nextSync")
  /\ SyncDirectory
  /\ Goto(r, "rename")
  /\ UNCHANGED <<files, head, next, markers, books>>

RenameHead(r) ==
  /\ At(r, "rename")
  /\ next # NoFile
  /\ head' = next
  /\ next' = NoFile
  /\ Goto(r, "headSync")
  /\ UNCHANGED <<files, markers, durable, books>>

(* retain returns, and claimPhase if the record is a phase. *)
Returns(r) ==
  /\ Goto(r, "idle")
  /\ retained' = retained \cup {process[r].records}
  /\ granted' = [p \in Phases |-> granted[p] + IF p = process[r].record THEN 1 ELSE 0]
  /\ UNCHANGED <<files, head, next, markers, failures>>

(* Mutant: retain returns before the directory is synced. *)
ReturnUnsynced(r) == At(r, "headSync") /\ Returns(r) /\ UNCHANGED durable

SyncHead(r) == At(r, "headSync") /\ SyncDirectory /\ Returns(r)

-----------------------------------------------------------------------------
(* An exception ends the call: a system call fails, the file to create     *)
(* exists, or another process has moved the head.  The process goes on     *)
(* with the copy it has.                                                   *)
Fails(r) ==
  /\ process[r].pc \notin {"down", "idle"}
  /\ Goto(r, "idle")
  /\ UNCHANGED <<disk, books>>

Crash(r) ==
  /\ ~At(r, "down")
  /\ failures < MaxFailures
  /\ failures' = failures + 1
  /\ process' = [process EXCEPT ![r] = Down]
  /\ UNCHANGED <<disk, retained, granted>>

(* Every process dies; an entry of the directory that was not synced is    *)
(* found as it was last or as it was last synced.                          *)
PowerLoss ==
  /\ failures < MaxFailures
  /\ failures' = failures + 1
  /\ \E n \in durable.files .. Len(files) : files' = SubSeq(files, 1, n)
  /\ head' \in {head, durable.head}
  /\ next' \in {next, durable.next}
  /\ \E lost \in SUBSET (markers \ durable.markers) : markers' = markers \ lost
  /\ durable' = Directory'
  /\ process' = [r \in Runtimes |-> Down]
  /\ UNCHANGED <<retained, granted>>

Next ==
  \/ PowerLoss
  \/ \E r \in Runtimes :
       \/ Open(r) \/ RetainEntry(r) \/ ClaimPhase(r)
       \/ CreateMarker(r) \/ SyncMarker(r) \/ RetainPhase(r)
       \/ CreateRecord(r) \/ SyncRecord(r) \/ CreateNext(r) \/ SyncNext(r)
       \/ RenameHead(r) \/ SyncHead(r) \/ Fails(r) \/ Crash(r)

Spec == Init /\ [][Next]_vars

-----------------------------------------------------------------------------
(* Properties *)

Chains == {chain \in Seq(Records) : Len(chain) <= MaxRecords}

Steps == {"mark", "markSync", "retain", "record", "recordSync", "next", "nextSync",
          "rename", "headSync"}

TypeOK ==
  /\ files \in Chains /\ head \in Chains /\ next \in Chains \cup {NoFile}
  /\ markers \subseteq Phases
  /\ durable \in [files : 0..MaxRecords, head : Chains, next : Chains \cup {NoFile},
                  markers : SUBSET Phases]
  /\ process \in [Runtimes -> [pc : Steps \cup {"down", "idle"}, records : Chains,
                               record : Records \cup {NoFile}]]
  /\ failures \in Nat /\ retained \subseteq Chains /\ granted \in [Phases -> Nat]

(* A phase is granted once: no second process, no retry after an error and *)
(* no restart after a crash or a power loss grants its calls again.        *)
GrantedOnce == \A p \in Phases : granted[p] <= 1

(* Whoever opens or verifies the journal finds every record that was ever  *)
(* acknowledged, in its place: a journal that lost one does not verify.    *)
VerifiedIsComplete ==
  \A records \in {files} \cup {process[r].records : r \in {q \in Runtimes : ~At(q, "down")}} :
    Verified(records) => \A chain \in retained : IsPrefix(chain, records)

Log == INSTANCE AppendLog
  WITH LogRecords <- Records, log <- durable.head, promised <- retained

(* The durable head is the head of a log that only grows, by one record at *)
(* a time, and a digest that retain returned names a log it really had.    *)
ImplementsAppendLog == Log!LogSpec
=============================================================================
