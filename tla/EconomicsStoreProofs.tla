------------------------ MODULE EconomicsStoreProofs ------------------------
(***************************************************************************)
(* What holds of the inventory tools for every number of receipts, and of  *)
(* tools that run beside each other: a recovery is published whole or not  *)
(* at all, no other recovery takes its files away, and, as long as one     *)
(* archiver is at work, the economics shown are those of the record shown. *)
(***************************************************************************)
EXTENDS EconomicsStore, SumTheorems

Tools == Writers \cup Readers
Planners == Importers \cup Recoverers
Fields == {"pc", "plan", "todo", "listed", "old", "proposed", "mine", "undone"}
Critical == {"inspect", "publish", "rebuild", "replace", "undo", "unlock"}
Publishing == {"publish", "rebuild", "replace", "undo", "unlock"}
Keeping == {"publish", "rebuild", "replace", "unlock", "ok"}

(* A tool works on what it has planned, and a recovery on all of it until  *)
(* it publishes and on nothing once it has.                                *)
Sound(p, t) ==
  /\ DOMAIN t = Fields
  /\ t.mine \subseteq Hashes
  /\ p \in Writers => DOMAIN t.plan \subseteq Hashes /\ t.todo \subseteq DOMAIN t.plan
  /\ p \in Archivers =>
       /\ \A h \in DOMAIN t.plan : t.plan[h] \in Variants
       /\ t.pc = "place" => t.todo # {}
  /\ p \in Planners => \A h \in DOMAIN t.plan : t.plan[h] \in Contents
  /\ p \in Recoverers =>
       /\ t.pc \in {"lock", "inspect"} => t.todo = DOMAIN t.plan
       /\ t.pc \in {"rebuild", "replace", "unlock"} => t.todo = {}
       /\ t.mine # {} => t.pc \in Publishing

(* The files, and the tools that write them. *)
FileInv ==
  /\ current \in [Hashes -> Variants \cup {Nothing}]
  /\ bundles \in [Hashes -> Variants \cup {Nothing}]
  /\ sidecars \in [Hashes -> Sidecars \cup {Nothing}]

ToolInv ==
  /\ DOMAIN proc = Tools
  /\ \A p \in Tools : Sound(p, proc[p])
  /\ FileInv

(* Only the holder of the lock is between its inspection and its end. *)
LockInv == \A r \in Recoverers : proc[r].pc \in Critical => lock = r

(* A file of a recovery is one it succeeded with, one it still remembers,  *)
(* or one it reports it could not remove.                                  *)
RollbackInv ==
  \A r \in Recoverers : \A h \in Present :
    sidecars[h].by = r =>
      proc[r].pc \in {"unlock", "ok", "dead"} \/ ~proc[r].undone \/ h \in proc[r].mine

(* No other recovery takes a file for its own that one has succeeded with. *)
ApartInv ==
  \A r, s \in Recoverers :
    r # s /\ At(r, "ok") => \A h \in DOMAIN proc[r].plan \ proc[r].todo : h \notin proc[s].mine

RecoveryInv == ToolInv /\ LockInv /\ RollbackInv /\ RecoveredIsKept /\ ApartInv

(* With one archiver, what it has not looked past is not yet there, and a  *)
(* reader that has read a record holds the archived one.                   *)
ShelfInv ==
  /\ DOMAIN shown = Readers
  /\ \A a \in Archivers : At(a, "place") => bundles[Upcoming(a)] = Nothing
  /\ \A q \in Readers : At(q, "economics") =>
       /\ proc[q].plan[1] \in Hashes
       /\ bundles[proc[q].plan[1]] = proc[q].plan[2] /\ bundles[proc[q].plan[1]] # Nothing
  /\ ShownEconomicsVerify

OneArchiver == \A a, b \in Archivers : a = b

-----------------------------------------------------------------------------

(* The receipt a tool turns to next is one it has still to do. *)
LEMMA LeastIn ==
  ASSUME NEW S, S \subseteq Hashes, S # {}
  PROVE  Least(S) \in S
<1>1. S \subseteq Nat
  BY StoreBounds DEF Hashes
<1>2. \E h \in S : \A g \in S : h <= g
  BY <1>1, NatMin
<1> QED
  BY <1>2 DEF Least

(* The receipt a rollback turns to next is one it has published. *)
LEMMA GreatestIn ==
  ASSUME NEW S, S \subseteq Hashes, S # {}
  PROVE  Greatest(S) \in S
<1> DEFINE T == {N - h : h \in S}
<1>1. N \in Nat /\ \A h \in S : h \in Nat /\ N - h \in Nat
  BY StoreBounds DEF Hashes
<1>2. T \subseteq Nat /\ T # {}
  BY <1>1
<1>3. PICK m \in T : \A g \in T : m <= g
  BY <1>2, NatMin
<1>4. PICK h \in S : m = N - h
  BY <1>3
<1>5. \A g \in S : N - h <= N - g
  BY <1>3, <1>4
<1>6. \A g \in S : g <= h
  BY <1>1, <1>5
<1> QED
  BY <1>6 DEF Greatest

(* So it is one it planned, and a receipt. *)
LEMMA UpcomingIn ==
  ASSUME ToolInv, NEW p \in Writers, proc[p].todo # {}
  PROVE  /\ Upcoming(p) \in proc[p].todo /\ Upcoming(p) \in DOMAIN proc[p].plan
         /\ Upcoming(p) \in Hashes
<1>1. p \in Tools
  BY DEF Tools
<1>2. Sound(p, proc[p])
  BY <1>1 DEF ToolInv
<1>3. proc[p].todo \subseteq DOMAIN proc[p].plan /\ DOMAIN proc[p].plan \subseteq Hashes
  BY <1>2 DEF Sound
<1>4. proc[p].todo \subseteq Hashes
  BY <1>3
<1>5. Least(proc[p].todo) \in proc[p].todo
  BY <1>4, LeastIn
<1> QED
  BY <1>3, <1>5 DEF Upcoming

(* A tool's step leaves the others as they were. *)
LEMMA Replaced ==
  ASSUME ToolInv, NEW p \in Tools, NEW t, proc' = [proc EXCEPT ![p] = t]
  PROVE  /\ DOMAIN proc' = Tools
         /\ proc'[p] = t
         /\ \A q \in Tools : q # p => proc'[q] = proc[q]
BY DEF ToolInv

(* It goes on, with its work unchanged. *)
LEMMA Gone ==
  ASSUME ToolInv, NEW p \in Tools, NEW pc, Goes(p, pc)
  PROVE  /\ DOMAIN proc' = Tools
         /\ DOMAIN proc'[p] = Fields /\ proc'[p].pc = pc
         /\ \A f \in Fields \ {"pc"} : proc'[p][f] = proc[p][f]
         /\ proc'[p].plan = proc[p].plan /\ proc'[p].todo = proc[p].todo
         /\ proc'[p].mine = proc[p].mine /\ proc'[p].undone = proc[p].undone
         /\ \A q \in Tools : q # p => proc'[q] = proc[q]
<1>1. DOMAIN proc = Tools /\ DOMAIN proc[p] = Fields
  BY DEF ToolInv, Sound
<1> QED
  BY <1>1 DEF Goes, Fields

(* Or it ends, and keeps what it planned if others may rely on it. *)
LEMMA Ended ==
  ASSUME ToolInv, NEW p \in Tools, NEW how, Ends(p, how)
  PROVE  /\ DOMAIN proc' = Tools
         /\ DOMAIN proc'[p] = Fields /\ proc'[p].pc = how
         /\ proc'[p].plan = IF p \in Recoverers /\ how = "ok"
                            THEN proc[p].plan ELSE <<>>
         /\ proc'[p].todo = {} /\ proc'[p].mine = {}
         /\ proc'[p].undone = (TRUE /\ proc[p].undone)
         /\ \A q \in Tools : q # p => proc'[q] = proc[q]
<1>1. DOMAIN proc = Tools /\ DOMAIN proc[p] = Fields
  BY DEF ToolInv, Sound
<1> QED
  BY <1>1 DEF Ends, Fields, Idle


-----------------------------------------------------------------------------
(* The tools keep to their plans, and the files to their types.             *)

(* A step of one tool that leaves it sound. *)
LEMMA OneTool ==
  ASSUME ToolInv, NEW p \in Tools, FileInv',
         DOMAIN proc' = Tools, \A q \in Tools : q # p => proc'[q] = proc[q],
         Sound(p, proc'[p])
  PROVE  ToolInv'
<1>1. \A q \in Tools : Sound(q, proc'[q])
  BY DEF ToolInv
<1> QED
  BY <1>1 DEF ToolInv, Sound

(* A tool that ends is sound. *)
LEMMA EndStep ==
  ASSUME ToolInv, NEW p \in Tools, FileInv',
         NEW how \in {"ok", "failed", "dead", "idle", "shown"}, Ends(p, how)
  PROVE  ToolInv'
<1>1. /\ DOMAIN proc'[p] = Fields /\ proc'[p].pc = how
      /\ proc'[p].plan = IF p \in Recoverers /\ how = "ok"
                         THEN proc[p].plan ELSE <<>>
      /\ proc'[p].todo = {} /\ proc'[p].mine = {}
      /\ DOMAIN proc' = Tools /\ \A q \in Tools : q # p => proc'[q] = proc[q]
  BY Ended
<1>2. Sound(p, proc[p])
  BY DEF ToolInv
<1>3. Sound(p, proc'[p])
  BY <1>1, <1>2 DEF Sound
<1> QED
  BY <1>1, <1>3, OneTool

(* So is one that goes on, where its work is as far as that. *)
LEMMA GoStep ==
  ASSUME ToolInv, NEW p \in Tools, FileInv', NEW pc, Goes(p, pc),
         p \in Archivers => pc = "place" /\ proc[p].todo # {},
         p \in Recoverers =>
           /\ pc \in {"lock", "inspect"} => proc[p].todo = DOMAIN proc[p].plan
           /\ pc \in {"rebuild", "replace", "unlock"} => proc[p].todo = {}
           /\ pc \in Publishing \/ proc[p].mine = {}
  PROVE  ToolInv'
<1>1. /\ DOMAIN proc'[p] = Fields /\ proc'[p].pc = pc
      /\ proc'[p].plan = proc[p].plan /\ proc'[p].todo = proc[p].todo
      /\ proc'[p].mine = proc[p].mine
      /\ DOMAIN proc' = Tools /\ \A q \in Tools : q # p => proc'[q] = proc[q]
  BY Gone
<1>2. Sound(p, proc[p])
  BY DEF ToolInv
<1>3. Sound(p, proc'[p])
  BY <1>1, <1>2 DEF Sound
<1> QED
  BY <1>1, <1>3, OneTool

(* The archiver's steps. *)
LEMMA ArchiverSound ==
  ASSUME ToolInv, NEW a \in Archivers,
         ScanRun(a) \/ CheckBundle(a) \/ PlaceBundle(a) \/ ArchiveDone(a)
  PROVE  ToolInv'
<1>1. a \in Tools /\ a \in Writers /\ a \notin Planners /\ a \notin Recoverers
  BY StoreBounds DEF Tools, Writers, Planners
<1>2. DOMAIN proc = Tools /\ Sound(a, proc[a]) /\ FileInv
  BY <1>1 DEF ToolInv
<1>3. /\ DOMAIN proc[a] = Fields /\ DOMAIN proc[a].plan \subseteq Hashes
      /\ proc[a].todo \subseteq DOMAIN proc[a].plan /\ proc[a].mine \subseteq Hashes
      /\ \A h \in DOMAIN proc[a].plan : proc[a].plan[h] \in Variants
      /\ At(a, "place") => proc[a].todo # {}
  BY <1>1, <1>2 DEF Sound, At
<1>4. ~PlaceBundle(a) => FileInv'
  BY <1>2 DEF ScanRun, CheckBundle, ArchiveDone, files, FileInv
<1>5. CASE ScanRun(a)
  <2> DEFINE records == {h \in Hashes : current[h] # Nothing}
  <2>1. CASE Ends(a, "failed")
    BY <1>1, <1>4, <1>5, <2>1, EndStep DEF ScanRun, PlaceBundle, At
  <2>2. CASE proc' = [proc EXCEPT ![a].pc = "check", ![a].todo = records,
                               ![a].plan = [h \in records |-> current[h]]]
    <3>1. /\ DOMAIN proc' = Tools /\ \A q \in Tools : q # a => proc'[q] = proc[q]
          /\ DOMAIN proc'[a] = Fields /\ proc'[a].todo = records /\ proc'[a].pc = "check"
          /\ proc'[a].plan = [h \in records |-> current[h]] /\ proc'[a].mine = proc[a].mine
      BY <1>1, <1>2, <1>3, <2>2 DEF Fields
    <3>2. \A h \in records : current[h] \in Variants
      BY <1>2 DEF FileInv
    <3>3. Sound(a, proc'[a])
      BY <1>1, <1>3, <3>1, <3>2 DEF Sound
    <3> QED
      BY <1>1, <1>4, <1>5, <3>1, <3>3, OneTool DEF ScanRun, PlaceBundle, At
  <2> QED
    BY <1>5, <2>1, <2>2 DEF ScanRun
<1>6. CASE CheckBundle(a)
  <2>1. FileInv' /\ proc[a].todo # {}
    BY <1>4, <1>6 DEF CheckBundle, PlaceBundle, At
  <2>2. CASE Ends(a, "failed")
    BY <1>1, <2>1, <2>2, EndStep
  <2>3. CASE Goes(a, "place")
    BY <1>1, <2>1, <2>3, GoStep
  <2>4. CASE proc' = [proc EXCEPT ![a].todo = Remaining(a)]
    <3>1. /\ DOMAIN proc' = Tools /\ \A q \in Tools : q # a => proc'[q] = proc[q]
          /\ DOMAIN proc'[a] = Fields /\ proc'[a].todo = Remaining(a) /\ proc'[a].pc = proc[a].pc
          /\ proc'[a].plan = proc[a].plan /\ proc'[a].mine = proc[a].mine
      BY <1>1, <1>2, <1>3, <2>4 DEF Fields
    <3>2. Remaining(a) \subseteq proc[a].todo /\ proc[a].pc = "check"
      BY <1>6 DEF Remaining, CheckBundle, At
    <3>3. Sound(a, proc'[a])
      BY <1>1, <1>3, <3>1, <3>2 DEF Sound
    <3> QED
      BY <1>1, <2>1, <3>1, <3>3, OneTool
  <2> QED
    BY <1>6, <2>2, <2>3, <2>4 DEF CheckBundle
<1>7. CASE PlaceBundle(a)
  <2>1. /\ proc' = [proc EXCEPT ![a].pc = "check", ![a].todo = Remaining(a)]
        /\ bundles' = [bundles EXCEPT ![Upcoming(a)] = proc[a].plan[Upcoming(a)]]
        /\ current' = current /\ sidecars' = sidecars /\ proc[a].todo # {}
    BY <1>3, <1>7 DEF PlaceBundle
  <2>2. /\ DOMAIN proc' = Tools /\ \A q \in Tools : q # a => proc'[q] = proc[q]
        /\ DOMAIN proc'[a] = Fields /\ proc'[a].todo = Remaining(a) /\ proc'[a].pc = "check"
        /\ proc'[a].plan = proc[a].plan /\ proc'[a].mine = proc[a].mine
    BY <1>1, <1>2, <1>3, <2>1 DEF Fields
  <2>3. Remaining(a) \subseteq proc[a].todo
    BY DEF Remaining
  <2>4. Sound(a, proc'[a])
    BY <1>1, <1>3, <2>2, <2>3 DEF Sound
  <2>5. Upcoming(a) \in Hashes /\ proc[a].plan[Upcoming(a)] \in Variants
    BY <1>1, <1>3, <2>1, UpcomingIn
  <2>6. FileInv'
    BY <1>2, <2>1, <2>5 DEF FileInv
  <2> QED
    BY <1>1, <2>2, <2>4, <2>6, OneTool
<1>8. CASE ArchiveDone(a)
  BY <1>1, <1>4, <1>8, EndStep DEF ArchiveDone, PlaceBundle, At
<1> QED
  BY <1>5, <1>6, <1>7, <1>8

(* A sidecar over the archived record, where there is one. *)
LEMMA SidecarTyped ==
  ASSUME FileInv, NEW h \in Hashes, bundles[h] # Nothing
  PROVE  Sidecar("import", h) \in Contents /\ Sidecar("recovery", h) \in Contents
<1>1. bundles[h] \in Variants
  BY DEF FileInv
<1> QED
  BY <1>1 DEF Sidecar, Contents

(* What a tool links into the store is a sidecar. *)
LEMMA PublishTyped ==
  ASSUME FileInv, NEW h \in Hashes, NEW p \in Planners, NEW planned \in Contents,
         current' = current, bundles' = bundles,
         sidecars' = [sidecars EXCEPT ![h] = [bytes |-> planned, by |-> p]]
  PROVE  FileInv'
<1>1. [bytes |-> planned, by |-> p] \in Sidecars
  BY DEF Sidecars, Planners
<1> QED
  BY <1>1 DEF FileInv

(* A tool that goes on with less to do, and perhaps one file more. *)
LEMMA RemainStep ==
  ASSUME ToolInv, NEW p \in Planners, FileInv', DOMAIN proc' = Tools,
         \A q \in Tools : q # p => proc'[q] = proc[q],
         DOMAIN proc'[p] = Fields, proc'[p].pc = proc[p].pc, proc'[p].plan = proc[p].plan,
         proc'[p].todo \subseteq proc[p].todo, proc'[p].mine \subseteq Hashes,
         p \in Recoverers => proc[p].pc \in {"publish", "undo"}
  PROVE  ToolInv'
<1>1. p \in Tools /\ p \in Writers /\ p \notin Archivers
  BY StoreBounds DEF Tools, Writers, Planners
<1>2. Sound(p, proc[p])
  BY <1>1 DEF ToolInv
<1>3. Sound(p, proc'[p])
  BY <1>1, <1>2 DEF Sound, Publishing
<1> QED
  BY <1>1, <1>3, OneTool

(* The steps of the import of a run's economics. *)
LEMMA ImporterSound ==
  ASSUME ToolInv, NEW i \in Importers, PrepareImport(i) \/ WriteSidecar(i)
  PROVE  ToolInv'
<1>1. i \in Tools /\ i \in Writers /\ i \in Planners /\ i \notin Archivers /\ i \notin Recoverers
  BY StoreBounds DEF Tools, Writers, Planners
<1>2. DOMAIN proc = Tools /\ Sound(i, proc[i]) /\ FileInv
  BY <1>1 DEF ToolInv
<1>3. /\ DOMAIN proc[i] = Fields /\ DOMAIN proc[i].plan \subseteq Hashes
      /\ proc[i].todo \subseteq DOMAIN proc[i].plan /\ proc[i].mine \subseteq Hashes
      /\ \A h \in DOMAIN proc[i].plan : proc[i].plan[h] \in Contents
  BY <1>1, <1>2 DEF Sound
<1>4. CASE PrepareImport(i)
  <2> DEFINE eligible == {h \in Hashes : current[h] # Nothing}
  <2>1. FileInv'
    BY <1>2, <1>4 DEF PrepareImport, files, FileInv
  <2>2. CASE Ends(i, "failed") \/ Ends(i, "ok")
    BY <1>1, <2>1, <2>2, EndStep
  <2>3. CASE ~(Ends(i, "failed") \/ Ends(i, "ok"))
    <3>1. /\ \A h \in eligible : bundles[h] # Nothing
          /\ proc' = [proc EXCEPT ![i].pc = "write", ![i].todo = eligible,
                                  ![i].plan = [h \in eligible |-> Sidecar("import", h)]]
      BY <1>4, <2>3 DEF PrepareImport
    <3>2. /\ DOMAIN proc' = Tools /\ \A q \in Tools : q # i => proc'[q] = proc[q]
          /\ DOMAIN proc'[i] = Fields /\ proc'[i].todo = eligible
          /\ proc'[i].plan = [h \in eligible |-> Sidecar("import", h)]
          /\ proc'[i].mine = proc[i].mine
      BY <1>1, <1>2, <1>3, <3>1 DEF Fields
    <3>3. \A h \in eligible : Sidecar("import", h) \in Contents
      BY <1>2, <3>1, SidecarTyped
    <3>4. Sound(i, proc'[i])
      BY <1>1, <1>3, <3>2, <3>3 DEF Sound
    <3> QED
      BY <1>1, <2>1, <3>2, <3>4, OneTool
  <2> QED
    BY <2>2, <2>3
<1>5. CASE WriteSidecar(i)
  <2>1. /\ current' = current /\ bundles' = bundles
        /\ proc[i].todo # {}
    BY <1>5 DEF WriteSidecar
  <2>2. /\ Upcoming(i) \in Hashes /\ proc[i].plan[Upcoming(i)] \in Contents
    BY <1>1, <1>3, <2>1, UpcomingIn
  <2>3. CASE Ends(i, "failed") /\ UNCHANGED sidecars
    <3>1. FileInv'
      BY <1>2, <2>1, <2>3 DEF FileInv
    <3> QED
      BY <1>1, <2>3, <3>1, EndStep
  <2>4. CASE ~(Ends(i, "failed") /\ UNCHANGED sidecars)
    <3>1. /\ proc' = [proc EXCEPT ![i].todo = Remaining(i)]
          /\ \/ sidecars' = sidecars
             \/ sidecars' = [sidecars EXCEPT ![Upcoming(i)] =
                               [bytes |-> proc[i].plan[Upcoming(i)], by |-> i]]
      BY <1>5, <2>4 DEF WriteSidecar
    <3>2. FileInv'
      <4>1. CASE sidecars' = sidecars
        BY <1>2, <2>1, <4>1 DEF FileInv
      <4>2. CASE sidecars' # sidecars
        BY <1>1, <1>2, <2>1, <2>2, <3>1, <4>2, PublishTyped
      <4> QED
        BY <4>1, <4>2
    <3>3. /\ DOMAIN proc' = Tools /\ \A q \in Tools : q # i => proc'[q] = proc[q]
          /\ DOMAIN proc'[i] = Fields /\ proc'[i].todo = Remaining(i)
          /\ proc'[i].plan = proc[i].plan /\ proc'[i].pc = proc[i].pc
          /\ proc'[i].mine = proc[i].mine
      BY <1>1, <1>2, <1>3, <3>1 DEF Fields
    <3>4. Remaining(i) \subseteq proc[i].todo
      BY DEF Remaining
    <3> QED
      BY <1>1, <1>3, <3>2, <3>3, <3>4, RemainStep
  <2> QED
    BY <2>3, <2>4
<1> QED
  BY <1>4, <1>5

(* The steps of the index, which importer and recovery share. *)
LEMMA IndexSound ==
  ASSUME ToolInv, NEW p \in Planners, ListSidecars(p) \/ ReplaceIndex(p)
  PROVE  ToolInv'
<1>1. p \in Tools /\ p \in Writers /\ p \notin Archivers /\ (p \in Recoverers <=> p \notin Importers)
  BY StoreBounds DEF Tools, Writers, Planners
<1>2. DOMAIN proc = Tools /\ Sound(p, proc[p]) /\ FileInv
  BY <1>1 DEF ToolInv
<1>3. /\ DOMAIN proc[p] = Fields /\ DOMAIN proc[p].plan \subseteq Hashes
      /\ proc[p].todo \subseteq DOMAIN proc[p].plan /\ proc[p].mine \subseteq Hashes
      /\ \A h \in DOMAIN proc[p].plan : proc[p].plan[h] \in Contents
      /\ p \in Recoverers /\ proc[p].pc \in {"rebuild", "replace"} => proc[p].todo = {}
  BY <1>1, <1>2 DEF Sound, Planners
<1>4. FileInv'
  BY <1>2 DEF ListSidecars, ReplaceIndex, files, FileInv
<1>5. CASE ListSidecars(p)
  <2>1. p \in Recoverers => proc[p].pc = "rebuild" /\ proc[p].todo = {}
    BY <1>1, <1>3, <1>5 DEF ListSidecars, At
  <2>2. CASE proc' = [proc EXCEPT ![p].pc = "replace", ![p].listed = IndexOf(Present)]
    <3>1. /\ DOMAIN proc' = Tools /\ \A q \in Tools : q # p => proc'[q] = proc[q]
          /\ DOMAIN proc'[p] = Fields /\ proc'[p].todo = proc[p].todo /\ proc'[p].pc = "replace"
          /\ proc'[p].plan = proc[p].plan /\ proc'[p].mine = proc[p].mine
      BY <1>1, <1>2, <1>3, <2>2 DEF Fields
    <3>2. Sound(p, proc'[p])
      BY <1>1, <1>3, <2>1, <3>1 DEF Sound, Publishing
    <3> QED
      BY <1>1, <1>4, <3>1, <3>2, OneTool
  <2>3. CASE Ends(p, "failed")
    BY <1>1, <1>4, <2>3, EndStep
  <2>4. CASE Goes(p, "undo")
    BY <1>1, <1>4, <2>4, GoStep DEF Publishing
  <2> QED
    BY <1>5, <2>2, <2>3, <2>4 DEF ListSidecars
<1>6. CASE ReplaceIndex(p)
  <2>1. p \in Recoverers => proc[p].todo = {}
    BY <1>3, <1>6 DEF ReplaceIndex, At
  <2>2. CASE Ends(p, "ok")
    BY <1>1, <1>4, <2>2, EndStep
  <2>3. CASE Goes(p, "unlock")
    BY <1>1, <1>4, <2>1, <2>3, GoStep DEF Publishing
  <2> QED
    BY <1>6, <2>2, <2>3 DEF ReplaceIndex
<1> QED
  BY <1>5, <1>6

(* The steps that only a recovery takes. *)
RecoveryStep(r) ==
  \/ PrepareRecovery(r) \/ AcquireLock(r) \/ Inspect(r) \/ Publish(r) \/ ProposeIndex(r)
  \/ Breaks(r) \/ UndoPublication(r) \/ UndoIndex(r) \/ Release(r) \/ Crash(r)

(* They keep to its plan; what is undone is forgotten, not taken up again. *)
LEMMA RecoverySound ==
  ASSUME ToolInv, NEW r \in Recoverers, RecoveryStep(r)
  PROVE  ToolInv'
<1>1. r \in Tools /\ r \in Writers /\ r \in Planners /\ r \notin Archivers
  BY StoreBounds DEF Tools, Writers, Planners
<1>2. DOMAIN proc = Tools /\ Sound(r, proc[r]) /\ FileInv
  BY <1>1 DEF ToolInv
<1>3. /\ DOMAIN proc[r] = Fields /\ DOMAIN proc[r].plan \subseteq Hashes
      /\ proc[r].todo \subseteq DOMAIN proc[r].plan /\ proc[r].mine \subseteq Hashes
      /\ \A h \in DOMAIN proc[r].plan : proc[r].plan[h] \in Contents
      /\ proc[r].pc \in {"lock", "inspect"} => proc[r].todo = DOMAIN proc[r].plan
      /\ proc[r].pc \in {"rebuild", "replace", "unlock"} => proc[r].todo = {}
      /\ proc[r].mine # {} => proc[r].pc \in Publishing
  BY <1>1, <1>2 DEF Sound
<1>4. UNCHANGED <<current, bundles, sidecars>> => FileInv'
  BY <1>2 DEF FileInv
<1>5. CASE PrepareRecovery(r)
  <2>1. FileInv' /\ proc[r].pc = "idle"
    BY <1>4, <1>5 DEF PrepareRecovery, files, At
  <2>2. PICK eligible \in SUBSET {h \in Hashes : bundles[h] # Nothing} :
          proc' = [proc EXCEPT ![r].pc = "lock", ![r].todo = eligible,
                               ![r].plan = [h \in eligible |-> Sidecar("recovery", h)]]
    BY <1>5 DEF PrepareRecovery
  <2>3. /\ DOMAIN proc' = Tools /\ \A q \in Tools : q # r => proc'[q] = proc[q]
        /\ DOMAIN proc'[r] = Fields /\ proc'[r].todo = eligible
        /\ proc'[r].plan = [h \in eligible |-> Sidecar("recovery", h)]
        /\ proc'[r].mine = proc[r].mine /\ proc'[r].pc = "lock"
    BY <1>1, <1>2, <1>3, <2>2 DEF Fields
  <2>4. \A h \in eligible : Sidecar("recovery", h) \in Contents
    BY <1>2, SidecarTyped
  <2>5. proc[r].mine = {}
    BY <1>3, <2>1 DEF Publishing
  <2>6. Sound(r, proc'[r])
    BY <1>1, <2>3, <2>4, <2>5 DEF Sound
  <2> QED
    BY <1>1, <2>1, <2>3, <2>6, OneTool
<1>6. CASE AcquireLock(r)
  <2>1. FileInv' /\ proc[r].pc = "lock"
    BY <1>4, <1>6 DEF AcquireLock, At
  <2>2. CASE Goes(r, "inspect")
    BY <1>1, <1>3, <2>1, <2>2, GoStep DEF Publishing
  <2>3. CASE Ends(r, "failed")
    BY <1>1, <2>1, <2>3, EndStep
  <2> QED
    BY <1>6, <2>2, <2>3 DEF AcquireLock
<1>7. CASE Inspect(r)
  <2>1. FileInv' /\ proc[r].pc = "inspect"
    BY <1>4, <1>7 DEF Inspect, At
  <2>2. CASE Ends(r, "failed")
    BY <1>1, <2>1, <2>2, EndStep
  <2>3. CASE ~Ends(r, "failed")
    <3>1. PICK pc \in {"publish", "undo"} : proc' = [proc EXCEPT ![r].pc = pc, ![r].old = index]
      BY <1>7, <2>3 DEF Inspect
    <3>2. /\ DOMAIN proc' = Tools /\ \A q \in Tools : q # r => proc'[q] = proc[q]
          /\ DOMAIN proc'[r] = Fields /\ proc'[r].todo = proc[r].todo /\ proc'[r].pc = pc
          /\ proc'[r].plan = proc[r].plan /\ proc'[r].mine = proc[r].mine
      BY <1>1, <1>2, <1>3, <3>1 DEF Fields
    <3>3. Sound(r, proc'[r])
      BY <1>1, <1>3, <3>2 DEF Sound, Publishing
    <3> QED
      BY <1>1, <2>1, <3>2, <3>3, OneTool
  <2> QED
    BY <2>2, <2>3
<1>8. CASE Publish(r)
  <2>1. /\ proc[r].pc = "publish" /\ proc[r].todo # {}
        /\ current' = current /\ bundles' = bundles
    BY <1>8 DEF Publish, At
  <2>2. /\ Upcoming(r) \in Hashes /\ proc[r].plan[Upcoming(r)] \in Contents
    BY <1>1, <1>3, <2>1, UpcomingIn
  <2>3. Remaining(r) \subseteq proc[r].todo
    BY DEF Remaining
  <2>4. CASE Goes(r, "undo") /\ UNCHANGED sidecars
    BY <1>1, <1>4, <2>1, <2>4, GoStep DEF Publishing
  <2>5. CASE proc' = [proc EXCEPT ![r].todo = Remaining(r)] /\ UNCHANGED sidecars
    <3>1. /\ DOMAIN proc' = Tools /\ \A q \in Tools : q # r => proc'[q] = proc[q]
          /\ DOMAIN proc'[r] = Fields /\ proc'[r].todo = Remaining(r) /\ proc'[r].pc = proc[r].pc
          /\ proc'[r].plan = proc[r].plan /\ proc'[r].mine = proc[r].mine
      BY <1>1, <1>2, <1>3, <2>5 DEF Fields
    <3> QED
      BY <1>1, <1>3, <1>4, <2>1, <2>3, <2>5, <3>1, RemainStep
  <2>6. CASE /\ sidecars' = [sidecars EXCEPT ![Upcoming(r)] =
                               [bytes |-> proc[r].plan[Upcoming(r)], by |-> r]]
             /\ proc' = [proc EXCEPT ![r].todo = Remaining(r), ![r].mine = @ \cup {Upcoming(r)}]
    <3>1. /\ DOMAIN proc' = Tools /\ \A q \in Tools : q # r => proc'[q] = proc[q]
          /\ DOMAIN proc'[r] = Fields /\ proc'[r].todo = Remaining(r) /\ proc'[r].pc = proc[r].pc
          /\ proc'[r].plan = proc[r].plan /\ proc'[r].mine = proc[r].mine \cup {Upcoming(r)}
      BY <1>1, <1>2, <1>3, <2>6 DEF Fields
    <3>2. FileInv'
      BY <1>1, <1>2, <2>1, <2>2, <2>6, PublishTyped
    <3>3. proc'[r].mine \subseteq Hashes
      BY <1>3, <2>2, <3>1
    <3> QED
      BY <1>1, <2>1, <2>3, <3>1, <3>2, <3>3, RemainStep
  <2> QED
    BY <1>8, <2>4, <2>5, <2>6 DEF Publish
<1>9. CASE ProposeIndex(r)
  <2>1. FileInv' /\ proc[r].pc = "publish" /\ proc[r].todo = {}
    BY <1>4, <1>9 DEF ProposeIndex, files, At
  <2>2. CASE Goes(r, "undo")
    BY <1>1, <2>1, <2>2, GoStep DEF Publishing
  <2>3. CASE proc' = [proc EXCEPT ![r].pc = "rebuild", ![r].proposed = {IndexOf(Present)}]
    <3>1. /\ DOMAIN proc' = Tools /\ \A q \in Tools : q # r => proc'[q] = proc[q]
          /\ DOMAIN proc'[r] = Fields /\ proc'[r].todo = proc[r].todo /\ proc'[r].pc = "rebuild"
          /\ proc'[r].plan = proc[r].plan /\ proc'[r].mine = proc[r].mine
      BY <1>1, <1>2, <1>3, <2>3 DEF Fields
    <3>2. Sound(r, proc'[r])
      BY <1>1, <1>3, <2>1, <3>1 DEF Sound, Publishing
    <3> QED
      BY <1>1, <2>1, <3>1, <3>2, OneTool
  <2> QED
    BY <1>9, <2>2, <2>3 DEF ProposeIndex
<1>10. CASE Breaks(r)
  <2>1. FileInv' /\ Goes(r, "undo")
    BY <1>4, <1>10 DEF Breaks, files
  <2> QED
    BY <1>1, <2>1, GoStep DEF Publishing
<1>11. CASE UndoPublication(r)
  <2>1. /\ current' = current /\ bundles' = bundles /\ proc[r].pc = "undo"
        /\ sidecars' = sidecars \/ sidecars' = [sidecars EXCEPT ![Greatest(proc[r].mine)] = Nothing]
        /\ \/ proc' = [proc EXCEPT ![r].mine = proc[r].mine \ {Greatest(proc[r].mine)}]
           \/ proc' = [proc EXCEPT ![r].mine = proc[r].mine \ {Greatest(proc[r].mine)},
                                   ![r].undone = FALSE]
    BY <1>11 DEF UndoPublication, At
  <2>2. FileInv'
    BY <1>2, <2>1 DEF FileInv
  <2>3. /\ DOMAIN proc' = Tools /\ \A q \in Tools : q # r => proc'[q] = proc[q]
        /\ DOMAIN proc'[r] = Fields /\ proc'[r].todo = proc[r].todo /\ proc'[r].pc = proc[r].pc
        /\ proc'[r].plan = proc[r].plan /\ proc'[r].mine = proc[r].mine \ {Greatest(proc[r].mine)}
    BY <1>1, <1>2, <1>3, <2>1 DEF Fields
  <2> QED
    BY <1>1, <1>3, <2>1, <2>2, <2>3, RemainStep
<1>12. CASE UndoIndex(r)
  <2>1. FileInv'
    BY <1>4, <1>12 DEF UndoIndex
  <2>2. PICK undone : proc' = [proc EXCEPT ![r] = [Idle EXCEPT !.pc = "failed", !.undone = undone]]
    BY <1>12 DEF UndoIndex
  <2>3. /\ DOMAIN proc' = Tools /\ \A q \in Tools : q # r => proc'[q] = proc[q]
        /\ DOMAIN proc'[r] = Fields /\ proc'[r].todo = {} /\ proc'[r].pc = "failed"
        /\ proc'[r].plan = <<>> /\ proc'[r].mine = {}
    BY <1>1, <1>2, <2>2 DEF Fields, Idle
  <2>4. Sound(r, proc'[r])
    BY <1>1, <2>3 DEF Sound
  <2> QED
    BY <1>1, <2>1, <2>3, <2>4, OneTool
<1>13. CASE Release(r)
  <2>1. FileInv' /\ Ends(r, "ok")
    BY <1>4, <1>13 DEF Release
  <2> QED
    BY <1>1, <2>1, EndStep
<1>14. CASE Crash(r)
  <2>1. FileInv' /\ Ends(r, "dead")
    BY <1>4, <1>14 DEF Crash, files
  <2> QED
    BY <1>1, <2>1, EndStep
<1> QED
  BY <1>5, <1>6, <1>7, <1>8, <1>9, <1>10, <1>11, <1>12, <1>13, <1>14 DEF RecoveryStep

(* A reader writes no file. *)
LEMMA ReaderSound ==
  ASSUME ToolInv, NEW q \in Readers, ReadRecords(q) \/ AttachEconomics(q)
  PROVE  ToolInv'
<1>1. q \in Tools /\ q \notin Writers /\ q \notin Archivers /\ q \notin Planners /\ q \notin Recoverers
  BY StoreBounds DEF Tools, Writers, Planners
<1>2. DOMAIN proc = Tools /\ Sound(q, proc[q]) /\ FileInv
  BY <1>1 DEF ToolInv
<1>3. DOMAIN proc[q] = Fields /\ proc[q].mine \subseteq Hashes
  BY <1>1, <1>2 DEF Sound
<1>4. FileInv'
  BY <1>2 DEF ReadRecords, AttachEconomics, files, FileInv
<1>5. CASE ReadRecords(q)
  <2>1. PICK plan : proc' = [proc EXCEPT ![q].pc = "economics", ![q].plan = plan]
    BY <1>5 DEF ReadRecords
  <2>2. /\ DOMAIN proc' = Tools /\ \A p \in Tools : p # q => proc'[p] = proc[p]
        /\ DOMAIN proc'[q] = Fields /\ proc'[q].mine = proc[q].mine
    BY <1>1, <1>2, <1>3, <2>1 DEF Fields
  <2>3. Sound(q, proc'[q])
    BY <1>1, <1>3, <2>2 DEF Sound
  <2> QED
    BY <1>1, <1>4, <2>2, <2>3, OneTool
<1>6. CASE AttachEconomics(q)
  <2>1. \E how \in {"idle", "shown"} : Ends(q, how)
    BY <1>6 DEF AttachEconomics
  <2> QED
    BY <1>1, <1>4, <2>1, EndStep
<1> QED
  BY <1>5, <1>6

(* Nor does another run of the pipeline, or the removal of a stale lock. *)
LEMMA SurroundingsSound ==
  ASSUME ToolInv, Rerun \/ RemoveStaleLock
  PROVE  ToolInv'
<1>1. FileInv' /\ proc' = proc
  BY DEF ToolInv, FileInv, Rerun, RemoveStaleLock, files
<1> QED
  BY <1>1 DEF ToolInv, Sound

-----------------------------------------------------------------------------
(* The recoveries and each other's files.                                   *)

Others(r) == \A s \in Recoverers : s # r => proc'[s] = proc[s]

(* The lock is left alone by a tool that is not, or stays, between its     *)
(* inspection and its end; or the holder gives it back; or it is taken.    *)
LockMove(r) ==
  \/ lock' = lock /\ (proc[r].pc \in Critical \/ proc'[r].pc \notin Critical)
  \/ proc[r].pc \in Critical /\ proc'[r].pc \notin Critical
  \/ lock = Nothing /\ lock' = r

(* A step of a recovery that touches no sidecar. *)
LocalStep(r) ==
  /\ sidecars' = sidecars /\ Others(r) /\ LockMove(r)
  /\ proc'[r].mine \subseteq proc[r].mine
  /\ \/ proc'[r].pc \in {"unlock", "ok", "dead"}
     \/ /\ proc[r].pc \notin {"unlock", "ok", "dead"}
        /\ proc'[r].undone => proc[r].undone
        /\ proc'[r].mine = proc[r].mine
  /\ proc'[r].pc \in Keeping =>
       /\ proc'[r].plan = proc[r].plan
       /\ \/ proc'[r].todo = DOMAIN proc[r].plan
          \/ proc[r].pc \in Keeping /\ proc'[r].todo = proc[r].todo
  /\ proc'[r].pc = "ok" => proc[r].pc \in Critical

(* A step of another tool: it adds a sidecar of its own at most, and takes *)
(* the lock from no recovery that holds it.                                *)
Quiet ==
  /\ \A r \in Recoverers : proc'[r] = proc[r]
  /\ \A r \in Recoverers : lock = r /\ proc[r].pc \in Critical => lock' = r
  /\ \A h \in Hashes :
       \/ sidecars'[h] = sidecars[h]
       \/ sidecars[h] = Nothing /\ sidecars'[h] \in Sidecars /\ sidecars'[h].by \notin Recoverers

FilesInv == LockInv /\ RollbackInv /\ RecoveredIsKept /\ ApartInv

(* Two recoveries are never both between inspection and end. *)
LEMMA Exclusive ==
  ASSUME LockInv, NEW r \in Recoverers, NEW s \in Recoverers,
         proc[r].pc \in Critical, proc[s].pc \in Critical
  PROVE  r = s
BY DEF LockInv

(* Only a recovery that publishes remembers files of its own. *)
LEMMA MinePublishing ==
  ASSUME ToolInv, NEW r \in Recoverers, proc[r].mine # {}
  PROVE  proc[r].pc \in Critical
<1>1. r \in Tools /\ Sound(r, proc[r])
  BY DEF ToolInv, Tools, Writers
<1> QED
  BY <1>1 DEF Sound, Publishing, Critical

(* What a recovery planned for a receipt is a sidecar's content. *)
LEMMA PlannedContent ==
  ASSUME ToolInv, NEW r \in Recoverers, NEW h \in DOMAIN proc[r].plan
  PROVE  h \in Hashes /\ proc[r].plan[h] # Nothing
<1>1. r \in Tools /\ r \in Writers /\ r \in Planners /\ Sound(r, proc[r])
  BY DEF ToolInv, Tools, Writers, Planners
<1>2. h \in Hashes /\ proc[r].plan[h] \in Contents
  BY <1>1 DEF Sound
<1> QED
  BY <1>2, NothingIsNoFile

(* The lock moves as it should. *)
LEMMA LockStep ==
  ASSUME LockInv, NEW r \in Recoverers, Others(r), LockMove(r)
  PROVE  LockInv'
<1> SUFFICES ASSUME NEW s \in Recoverers, proc'[s].pc \in Critical
             PROVE  lock' = s
  BY DEF LockInv
<1>1. s # r => proc[s].pc \in Critical /\ lock = s
  BY DEF Others, LockInv
<1>2. s \in Recoverers => s # Nothing
  BY StoreBounds
<1>3. proc[r].pc \in Critical => lock = r
  BY DEF LockInv
<1> QED
  BY <1>1, <1>2, <1>3 DEF LockMove

(* The steps of tools that are not recoveries. *)
LEMMA QuietStep ==
  ASSUME ToolInv, FilesInv, Quiet
  PROVE  FilesInv'
<1>0. LockInv /\ RollbackInv /\ RecoveredIsKept /\ ApartInv
  BY DEF FilesInv
<1>1. LockInv'
  BY <1>0 DEF LockInv, Quiet
<1>2. RollbackInv'
  <2> SUFFICES ASSUME NEW r \in Recoverers, NEW h \in Hashes,
                      sidecars'[h] # Nothing, sidecars'[h].by = r
               PROVE  proc'[r].pc \in {"unlock", "ok", "dead"} \/ ~proc'[r].undone
                        \/ h \in proc'[r].mine
    BY DEF RollbackInv, Present
  <2>1. sidecars'[h] = sidecars[h] /\ proc'[r] = proc[r]
    BY DEF Quiet
  <2> QED
    BY <1>0, <2>1 DEF RollbackInv, Present
<1>3. RecoveredIsKept'
  <2> SUFFICES ASSUME NEW r \in Recoverers, proc'[r].pc \in Keeping,
                      NEW h \in DOMAIN proc'[r].plan \ proc'[r].todo
               PROVE  Bytes(h)' = proc'[r].plan[h]
    BY DEF RecoveredIsKept, Keeping
  <2>1. proc'[r] = proc[r]
    BY DEF Quiet
  <2>2. Bytes(h) = proc[r].plan[h]
    BY <1>0, <2>1 DEF RecoveredIsKept, Keeping
  <2>3. h \in Hashes /\ proc[r].plan[h] # Nothing
    BY <2>1, PlannedContent
  <2>4. sidecars[h] # Nothing
    BY <2>2, <2>3 DEF Bytes
  <2>5. sidecars'[h] = sidecars[h]
    BY <2>3, <2>4 DEF Quiet
  <2> QED
    BY <2>1, <2>2, <2>5 DEF Bytes
<1>4. ApartInv'
  BY <1>0 DEF ApartInv, Quiet, At
<1> QED
  BY <1>1, <1>2, <1>3, <1>4 DEF FilesInv

(* The steps of a recovery that touch no sidecar. *)
LEMMA LocalKeeps ==
  ASSUME ToolInv, FilesInv, NEW r \in Recoverers, LocalStep(r)
  PROVE  FilesInv'
<1>0. LockInv /\ RollbackInv /\ RecoveredIsKept /\ ApartInv
  BY DEF FilesInv
<1>1. LockInv'
  BY <1>0, LockStep DEF LocalStep
<1>2. RollbackInv'
  <2> SUFFICES ASSUME NEW s \in Recoverers, NEW h \in Hashes,
                      sidecars'[h] # Nothing, sidecars'[h].by = s
               PROVE  proc'[s].pc \in {"unlock", "ok", "dead"} \/ ~proc'[s].undone
                        \/ h \in proc'[s].mine
    BY DEF RollbackInv, Present
  <2>1. h \in Present /\ sidecars[h].by = s
    BY DEF LocalStep, Present
  <2>2. proc[s].pc \in {"unlock", "ok", "dead"} \/ ~proc[s].undone \/ h \in proc[s].mine
    BY <1>0, <2>1 DEF RollbackInv
  <2> QED
    BY <2>2 DEF LocalStep, Others
<1>3. RecoveredIsKept'
  <2> SUFFICES ASSUME NEW s \in Recoverers, proc'[s].pc \in Keeping,
                      NEW h \in DOMAIN proc'[s].plan \ proc'[s].todo
               PROVE  Bytes(h)' = proc'[s].plan[h]
    BY DEF RecoveredIsKept, Keeping
  <2>1. /\ proc[s].pc \in Keeping /\ h \in DOMAIN proc[s].plan \ proc[s].todo
        /\ proc'[s].plan = proc[s].plan
    BY DEF LocalStep, Others
  <2>2. Bytes(h) = proc[s].plan[h]
    BY <1>0, <2>1 DEF RecoveredIsKept, Keeping
  <2> QED
    BY <2>1, <2>2 DEF Bytes, LocalStep
<1>4. ApartInv'
  <2> SUFFICES ASSUME NEW s \in Recoverers, NEW t \in Recoverers, s # t, proc'[s].pc = "ok",
                      NEW h \in DOMAIN proc'[s].plan \ proc'[s].todo, h \in proc'[t].mine
               PROVE  FALSE
    BY DEF ApartInv, At
  <2>1. h \in proc[t].mine
    BY DEF LocalStep, Others
  <2>2. proc[t].pc \in Critical
    BY <2>1, MinePublishing
  <2>3. CASE s = r /\ proc[s].pc \in Critical
    BY <1>0, <2>2, <2>3, Exclusive
  <2>4. CASE s # r
    <3>1. proc'[s] = proc[s]
      BY <2>4 DEF LocalStep, Others
    <3> QED
      BY <1>0, <2>1, <3>1 DEF ApartInv, At
  <2> QED
    BY <2>3, <2>4 DEF LocalStep
<1> QED
  BY <1>1, <1>2, <1>3, <1>4 DEF FilesInv

(* The steps of a recovery that touch no sidecar, one by one. *)
LEMMA RecoveryLocal ==
  ASSUME ToolInv, FilesInv, NEW r \in Recoverers,
         \/ PrepareRecovery(r) \/ AcquireLock(r) \/ Inspect(r) \/ ProposeIndex(r) \/ Breaks(r)
         \/ UndoIndex(r) \/ Release(r) \/ Crash(r) \/ ListSidecars(r) \/ ReplaceIndex(r)
  PROVE  FilesInv'
<1>0. r \in Tools /\ r \notin Importers /\ r \notin Archivers /\ Recoverers \subseteq Tools
  BY StoreBounds DEF Tools, Writers
<1>1. /\ DOMAIN proc = Tools /\ DOMAIN proc[r] = Fields
      /\ proc[r].pc \in {"lock", "inspect"} => proc[r].todo = DOMAIN proc[r].plan
      /\ proc[r].pc \in {"rebuild", "replace", "unlock"} => proc[r].todo = {}
      /\ proc[r].mine # {} => proc[r].pc \in Publishing
  BY <1>0 DEF ToolInv, Sound
<1>2. ASSUME NEW pc, Goes(r, pc)
      PROVE  /\ Others(r) /\ proc'[r].pc = pc
             /\ proc'[r].plan = proc[r].plan /\ proc'[r].todo = proc[r].todo
             /\ proc'[r].mine = proc[r].mine /\ proc'[r].undone = proc[r].undone
  BY <1>0, <1>2, Gone DEF Others
<1>3. ASSUME NEW how, Ends(r, how)
      PROVE  /\ Others(r) /\ proc'[r].pc = how
             /\ how = "ok" => proc'[r].plan = proc[r].plan
             /\ proc'[r].todo = {} /\ proc'[r].mine = {}
             /\ proc'[r].undone => proc[r].undone
  BY <1>0, <1>3, Ended DEF Others
<1>4. CASE PrepareRecovery(r)
  <2>1. sidecars' = sidecars /\ lock' = lock /\ proc[r].pc = "idle"
    BY <1>4 DEF PrepareRecovery, files, At
  <2>2. PICK eligible, plan :
          proc' = [proc EXCEPT ![r].pc = "lock", ![r].todo = eligible, ![r].plan = plan]
    BY <1>4 DEF PrepareRecovery
  <2>3. /\ Others(r) /\ proc'[r].pc = "lock" /\ proc'[r].mine = proc[r].mine
        /\ proc'[r].undone = proc[r].undone
    BY <1>0, <1>1, <2>2 DEF Fields, Others
  <2>4. LocalStep(r)
    BY <2>1, <2>3 DEF LocalStep, LockMove, Critical, Keeping
  <2> QED
    BY <2>4, LocalKeeps
<1>5. CASE AcquireLock(r)
  <2>1. sidecars' = sidecars /\ proc[r].pc = "lock" /\ proc[r].mine = {}
    BY <1>1, <1>5 DEF AcquireLock, At, Publishing
  <2>2. CASE lock = Nothing /\ lock' = r /\ Goes(r, "inspect")
    <3>1. LocalStep(r)
      BY <1>2, <2>1, <2>2 DEF LocalStep, LockMove, Critical, Keeping
    <3> QED
      BY <3>1, LocalKeeps
  <2>3. CASE Ends(r, "failed") /\ lock' = lock
    <3>1. LocalStep(r)
      BY <1>3, <2>1, <2>3 DEF LocalStep, LockMove, Critical, Keeping
    <3> QED
      BY <3>1, LocalKeeps
  <2> QED
    BY <1>5, <2>2, <2>3 DEF AcquireLock
<1>6. CASE Inspect(r)
  <2>1. /\ sidecars' = sidecars /\ proc[r].pc = "inspect" /\ proc[r].mine = {}
        /\ proc[r].todo = DOMAIN proc[r].plan
    BY <1>1, <1>6 DEF Inspect, At, Publishing
  <2>2. CASE Ends(r, "failed") /\ lock' = Nothing
    <3>1. LocalStep(r)
      BY <1>3, <2>1, <2>2 DEF LocalStep, LockMove, Critical, Keeping
    <3> QED
      BY <3>1, LocalKeeps
  <2>3. CASE ~(Ends(r, "failed") /\ lock' = Nothing)
    <3>1. lock' = lock
      BY <1>6, <2>3 DEF Inspect
    <3>2. PICK pc \in {"publish", "undo"} : proc' = [proc EXCEPT ![r].pc = pc, ![r].old = index]
      BY <1>6, <2>3 DEF Inspect
    <3>3. /\ Others(r) /\ proc'[r].pc = pc /\ proc'[r].mine = proc[r].mine
          /\ proc'[r].undone = proc[r].undone /\ proc'[r].plan = proc[r].plan
          /\ proc'[r].todo = proc[r].todo
      BY <1>0, <1>1, <3>2 DEF Fields, Others
    <3>4. LocalStep(r)
      BY <2>1, <3>1, <3>3 DEF LocalStep, LockMove, Critical, Keeping
    <3> QED
      BY <3>4, LocalKeeps
  <2> QED
    BY <2>2, <2>3
<1>7. CASE ProposeIndex(r)
  <2>1. sidecars' = sidecars /\ lock' = lock /\ proc[r].pc = "publish"
    BY <1>7 DEF ProposeIndex, files, At
  <2>2. CASE Goes(r, "undo")
    <3>1. LocalStep(r)
      BY <1>2, <2>1, <2>2 DEF LocalStep, LockMove, Critical, Keeping
    <3> QED
      BY <3>1, LocalKeeps
  <2>3. CASE proc' = [proc EXCEPT ![r].pc = "rebuild", ![r].proposed = {IndexOf(Present)}]
    <3>1. /\ Others(r) /\ proc'[r].pc = "rebuild" /\ proc'[r].mine = proc[r].mine
          /\ proc'[r].undone = proc[r].undone /\ proc'[r].plan = proc[r].plan
          /\ proc'[r].todo = proc[r].todo
      BY <1>0, <1>1, <2>3 DEF Fields, Others
    <3>2. LocalStep(r)
      BY <2>1, <3>1 DEF LocalStep, LockMove, Critical, Keeping
    <3> QED
      BY <3>2, LocalKeeps
  <2> QED
    BY <1>7, <2>2, <2>3 DEF ProposeIndex
<1>8. CASE Breaks(r)
  <2>1. /\ sidecars' = sidecars /\ lock' = lock /\ Goes(r, "undo")
        /\ proc[r].pc \in {"publish", "rebuild", "replace"}
    BY <1>8 DEF Breaks, files
  <2>2. LocalStep(r)
    BY <1>2, <2>1 DEF LocalStep, LockMove, Critical, Keeping
  <2> QED
    BY <2>2, LocalKeeps
<1>9. CASE UndoIndex(r)
  <2>1. sidecars' = sidecars /\ lock' = Nothing /\ proc[r].pc = "undo" /\ proc[r].mine = {}
    BY <1>9 DEF UndoIndex, At
  <2>2. PICK owned : proc' = [proc EXCEPT ![r] = [Idle EXCEPT
                                !.pc = "failed", !.undone = (proc[r].undone /\ owned)]]
    BY <1>9 DEF UndoIndex
  <2>3. /\ Others(r) /\ proc'[r].pc = "failed" /\ proc'[r].mine = {}
        /\ proc'[r].undone => proc[r].undone
    BY <1>0, <1>1, <2>2 DEF Idle, Others
  <2>4. LocalStep(r)
    BY <2>1, <2>3 DEF LocalStep, LockMove, Critical, Keeping
  <2> QED
    BY <2>4, LocalKeeps
<1>10. CASE Release(r)
  <2>1. sidecars' = sidecars /\ lock' = Nothing /\ proc[r].pc = "unlock" /\ Ends(r, "ok")
    BY <1>10 DEF Release, At
  <2>2. proc[r].todo = {}
    BY <1>1, <2>1
  <2>3. LocalStep(r)
    BY <1>3, <2>1, <2>2 DEF LocalStep, LockMove, Critical, Keeping
  <2> QED
    BY <2>3, LocalKeeps
<1>11. CASE Crash(r)
  <2>1. sidecars' = sidecars /\ lock' = lock /\ Ends(r, "dead")
    BY <1>11 DEF Crash, files
  <2>2. LocalStep(r)
    BY <1>3, <2>1 DEF LocalStep, LockMove, Critical, Keeping
  <2> QED
    BY <2>2, LocalKeeps
<1>12. CASE ListSidecars(r)
  <2>1. sidecars' = sidecars /\ lock' = lock /\ proc[r].pc = "rebuild"
    BY <1>0, <1>12 DEF ListSidecars, files, At
  <2>2. CASE Goes(r, "undo")
    <3>1. LocalStep(r)
      BY <1>2, <2>1, <2>2 DEF LocalStep, LockMove, Critical, Keeping
    <3> QED
      BY <3>1, LocalKeeps
  <2>3. CASE proc' = [proc EXCEPT ![r].pc = "replace", ![r].listed = IndexOf(Present)]
    <3>1. /\ Others(r) /\ proc'[r].pc = "replace" /\ proc'[r].mine = proc[r].mine
          /\ proc'[r].undone = proc[r].undone /\ proc'[r].plan = proc[r].plan
          /\ proc'[r].todo = proc[r].todo
      BY <1>0, <1>1, <2>3 DEF Fields, Others
    <3>2. LocalStep(r)
      BY <2>1, <3>1 DEF LocalStep, LockMove, Critical, Keeping
    <3> QED
      BY <3>2, LocalKeeps
  <2> QED
    BY <1>0, <1>12, <2>2, <2>3 DEF ListSidecars
<1>13. CASE ReplaceIndex(r)
  <2>1. sidecars' = sidecars /\ lock' = lock /\ proc[r].pc = "replace" /\ Goes(r, "unlock")
    BY <1>0, <1>13 DEF ReplaceIndex, At
  <2>2. LocalStep(r)
    BY <1>2, <2>1 DEF LocalStep, LockMove, Critical, Keeping
  <2> QED
    BY <2>2, LocalKeeps
<1> QED
  BY <1>4, <1>5, <1>6, <1>7, <1>8, <1>9, <1>10, <1>11, <1>12, <1>13

(* A recovery publishes: the file is new, or what it would have written. *)
LEMMA PublishKeeps ==
  ASSUME ToolInv, FilesInv, NEW r \in Recoverers, Publish(r)
  PROVE  FilesInv'
<1>0. /\ LockInv /\ RollbackInv /\ RecoveredIsKept /\ ApartInv
      /\ r \in Tools /\ r \in Writers /\ DOMAIN proc = Tools /\ DOMAIN proc[r] = Fields
      /\ Recoverers \subseteq Tools /\ FileInv
  BY DEF FilesInv, ToolInv, Sound, Tools, Writers
<1>1. proc[r].pc = "publish" /\ proc[r].todo # {} /\ lock' = lock
  BY DEF Publish, At
<1> DEFINE u == Upcoming(r)
<1>2. u \in Hashes /\ u \in DOMAIN proc[r].plan
  BY <1>0, <1>1, UpcomingIn
<1>3. CASE Goes(r, "undo") /\ UNCHANGED sidecars
  <2>1. /\ Others(r) /\ proc'[r].pc = "undo" /\ proc'[r].mine = proc[r].mine
        /\ proc'[r].undone = proc[r].undone
    BY <1>0, <1>3, Gone DEF Others
  <2>2. LocalStep(r)
    BY <1>1, <1>3, <2>1 DEF LocalStep, LockMove, Critical, Keeping
  <2> QED
    BY <2>2, LocalKeeps
<1>4. CASE ~(Goes(r, "undo") /\ UNCHANGED sidecars)
  <2>1. Bytes(u) \in {Nothing, proc[r].plan[u]}
    BY <1>4 DEF Publish
  <2>2. \/ /\ sidecars[u] # Nothing /\ sidecars' = sidecars
           /\ proc' = [proc EXCEPT ![r].todo = Remaining(r)]
        \/ /\ sidecars[u] = Nothing
           /\ sidecars' = [sidecars EXCEPT ![u] = [bytes |-> proc[r].plan[u], by |-> r]]
           /\ proc' = [proc EXCEPT ![r].todo = Remaining(r), ![r].mine = @ \cup {u}]
    BY <1>4 DEF Publish
  <2>3. /\ Others(r) /\ proc'[r].pc = "publish" /\ proc'[r].plan = proc[r].plan
        /\ proc'[r].todo = proc[r].todo \ {u} /\ proc'[r].undone = proc[r].undone
        /\ proc'[r].mine = IF sidecars[u] = Nothing THEN proc[r].mine \cup {u} ELSE proc[r].mine
    BY <1>0, <1>1, <2>2 DEF Fields, Others, Remaining
  <2>4. \A h \in Hashes : sidecars[h] # Nothing => sidecars'[h] = sidecars[h]
    BY <1>0, <2>2 DEF FileInv
  <2>5. \A h \in Hashes : sidecars[h] = Nothing /\ sidecars'[h] # Nothing =>
           h = u /\ sidecars'[h] = [bytes |-> proc[r].plan[u], by |-> r]
    BY <1>0, <2>2 DEF FileInv
  <2>6. sidecars'[u] # Nothing /\ sidecars'[u].bytes = proc[r].plan[u]
    <3>1. CASE sidecars[u] # Nothing
      <4>1. sidecars[u] \in Sidecars
        BY <1>0, <1>2, <3>1 DEF FileInv
      <4>2. sidecars[u].bytes \in Contents
        BY <4>1 DEF Sidecars
      <4>3. sidecars[u].bytes # Nothing
        BY <4>2, NothingIsNoFile
      <4> QED
        BY <1>2, <2>1, <2>4, <3>1, <4>3 DEF Bytes
    <3>2. CASE sidecars[u] = Nothing
      <4>1. sidecars'[u] = [bytes |-> proc[r].plan[u], by |-> r]
        BY <1>0, <1>2, <2>2, <3>2 DEF FileInv
      <4>2. proc[r].plan[u] \in Contents
        BY <1>0, <1>2 DEF ToolInv, Sound, Planners
      <4>3. [bytes |-> proc[r].plan[u], by |-> r] \in Sidecars
        BY <4>2 DEF Sidecars
      <4> QED
        BY <4>1, <4>3, NothingIsNoFile
    <3> QED
      BY <3>1, <3>2
  <2> HIDE DEF u
  <2>7. LockInv'
    BY <1>0, <1>1, <2>3, LockStep DEF LockMove, Critical
  <2>8. RollbackInv'
    <3> SUFFICES ASSUME NEW s \in Recoverers, NEW h \in Hashes,
                        sidecars'[h] # Nothing, sidecars'[h].by = s
                 PROVE  proc'[s].pc \in {"unlock", "ok", "dead"} \/ ~proc'[s].undone
                          \/ h \in proc'[s].mine
      BY DEF RollbackInv, Present
    <3>1. CASE sidecars[h] # Nothing
      <4>1. proc[s].pc \in {"unlock", "ok", "dead"} \/ ~proc[s].undone \/ h \in proc[s].mine
        BY <1>0, <2>4, <3>1 DEF RollbackInv, Present
      <4> QED
        BY <1>1, <2>3, <4>1 DEF Others
    <3>2. CASE sidecars[h] = Nothing
      BY <2>3, <2>5, <3>2
    <3> QED
      BY <3>1, <3>2
  <2>9. RecoveredIsKept'
    <3> SUFFICES ASSUME NEW s \in Recoverers, proc'[s].pc \in Keeping,
                        NEW h \in DOMAIN proc'[s].plan \ proc'[s].todo
                 PROVE  Bytes(h)' = proc'[s].plan[h]
      BY DEF RecoveredIsKept, Keeping
    <3>1. /\ proc[s].pc \in Keeping /\ h \in DOMAIN proc[s].plan
          /\ proc'[s].plan = proc[s].plan
      BY <1>1, <2>3 DEF Others, Keeping
    <3>2. CASE h \notin proc[s].todo
      <4>1. Bytes(h) = proc[s].plan[h]
        BY <1>0, <3>1, <3>2 DEF RecoveredIsKept, Keeping
      <4>2. h \in Hashes /\ proc[s].plan[h] # Nothing
        BY <3>1, PlannedContent
      <4>3. sidecars[h] # Nothing /\ sidecars'[h] = sidecars[h]
        BY <2>4, <4>1, <4>2 DEF Bytes
      <4> QED
        BY <3>1, <4>1, <4>3 DEF Bytes
    <3>3. CASE h \in proc[s].todo
      <4>1. s = r /\ h = u
        BY <2>3, <3>3 DEF Others
      <4> QED
        BY <2>6, <3>1, <4>1 DEF Bytes
    <3> QED
      BY <3>2, <3>3
  <2>10. ApartInv'
    <3> SUFFICES ASSUME NEW s \in Recoverers, NEW t \in Recoverers, s # t, proc'[s].pc = "ok",
                        NEW h \in DOMAIN proc'[s].plan \ proc'[s].todo, h \in proc'[t].mine
                 PROVE  FALSE
      BY DEF ApartInv, At
    <3>1. s # r /\ proc'[s] = proc[s]
      BY <2>3 DEF Others
    <3>2. h \notin proc[t].mine
      BY <1>0, <3>1 DEF ApartInv, At
    <3>3. t = r /\ h = u /\ sidecars[u] = Nothing
      BY <2>3, <3>2 DEF Others
    <3>4. Bytes(h) = proc[s].plan[h] /\ proc[s].plan[h] # Nothing
      BY <1>0, <3>1, PlannedContent DEF RecoveredIsKept
    <3> QED
      BY <3>3, <3>4 DEF Bytes
  <2> QED
    BY <2>7, <2>8, <2>9, <2>10 DEF FilesInv
<1> QED
  BY <1>3, <1>4

(* A recovery takes back a file: its own, and one nobody else relies on. *)
LEMMA UndoKeeps ==
  ASSUME ToolInv, FilesInv, NEW r \in Recoverers, UndoPublication(r)
  PROVE  FilesInv'
<1>0. /\ LockInv /\ RollbackInv /\ RecoveredIsKept /\ ApartInv
      /\ r \in Tools /\ DOMAIN proc = Tools /\ DOMAIN proc[r] = Fields
      /\ Recoverers \subseteq Tools /\ FileInv /\ proc[r].mine \subseteq Hashes
  BY DEF FilesInv, ToolInv, Sound, Tools, Writers
<1>1. proc[r].pc = "undo" /\ proc[r].mine # {} /\ lock' = lock
  BY DEF UndoPublication, At
<1> DEFINE u == Greatest(proc[r].mine)
           owned == sidecars[u] # Nothing /\ sidecars[u].by = r
<1>2. u \in Hashes /\ u \in proc[r].mine
  BY <1>0, <1>1, GreatestIn
<1>3. \/ /\ sidecars' = IF owned THEN [sidecars EXCEPT ![u] = Nothing] ELSE sidecars
         /\ proc' = [proc EXCEPT ![r].mine = proc[r].mine \ {u}]
      \/ /\ sidecars' = sidecars
         /\ proc' = [proc EXCEPT ![r].mine = proc[r].mine \ {u}, ![r].undone = FALSE]
  BY DEF UndoPublication
<1>4. /\ Others(r) /\ proc'[r].pc = "undo" /\ proc'[r].mine = proc[r].mine \ {u}
      /\ proc'[r].undone => proc[r].undone
      /\ proc'[r].undone => sidecars' = IF owned THEN [sidecars EXCEPT ![u] = Nothing] ELSE sidecars
  BY <1>0, <1>1, <1>3 DEF Fields, Others
<1>5. \A h \in Hashes : h # u => sidecars'[h] = sidecars[h]
  BY <1>0, <1>2, <1>3 DEF FileInv
<1>6. sidecars'[u] \in {Nothing, sidecars[u]}
  BY <1>0, <1>2, <1>3 DEF FileInv
<1>7. proc'[r].undone => sidecars'[u] = Nothing \/ (sidecars[u].by # r /\ sidecars'[u] = sidecars[u])
  <2> SUFFICES ASSUME proc'[r].undone
               PROVE  sidecars'[u] = Nothing \/ (sidecars[u].by # r /\ sidecars'[u] = sidecars[u])
    OBVIOUS
  <2>1. sidecars' = IF owned THEN [sidecars EXCEPT ![u] = Nothing] ELSE sidecars
    BY <1>4
  <2>2. CASE owned
    <3>1. DOMAIN sidecars = Hashes /\ sidecars' = [sidecars EXCEPT ![u] = Nothing]
      BY <1>0, <2>1, <2>2 DEF FileInv
    <3> QED
      BY <1>2, <3>1
  <2>3. CASE ~owned
    <3>1. sidecars' = sidecars
      BY <2>1, <2>3
    <3> QED
      BY <2>3, <3>1
  <2> QED
    BY <2>2, <2>3
<1> HIDE DEF u, owned
<1>8. LockInv'
  BY <1>0, <1>1, <1>4, LockStep DEF LockMove, Critical
<1>9. RollbackInv'
  <2> SUFFICES ASSUME NEW s \in Recoverers, NEW h \in Hashes,
                      sidecars'[h] # Nothing, sidecars'[h].by = s
               PROVE  proc'[s].pc \in {"unlock", "ok", "dead"} \/ ~proc'[s].undone
                        \/ h \in proc'[s].mine
    BY DEF RollbackInv, Present
  <2>1. sidecars'[h] = sidecars[h]
    BY <1>5, <1>6
  <2>2. proc[s].pc \in {"unlock", "ok", "dead"} \/ ~proc[s].undone \/ h \in proc[s].mine
    BY <1>0, <2>1 DEF RollbackInv, Present
  <2>3. CASE s # r
    BY <1>4, <2>2, <2>3 DEF Others
  <2>4. CASE s = r
    BY <1>1, <1>4, <1>7, <2>1, <2>2, <2>4
  <2> QED
    BY <2>3, <2>4
<1>10. RecoveredIsKept'
  <2> SUFFICES ASSUME NEW s \in Recoverers, proc'[s].pc \in Keeping,
                      NEW h \in DOMAIN proc'[s].plan \ proc'[s].todo
               PROVE  Bytes(h)' = proc'[s].plan[h]
    BY DEF RecoveredIsKept, Keeping
  <2>1. s # r /\ proc'[s] = proc[s]
    BY <1>4 DEF Others, Keeping
  <2>2. Bytes(h) = proc[s].plan[h] /\ h \in Hashes
    BY <1>0, <2>1, PlannedContent DEF RecoveredIsKept, Keeping
  <2>3. h # u
    <3>1. CASE proc[s].pc = "ok"
      BY <1>0, <1>2, <2>1, <3>1 DEF ApartInv, At
    <3>2. CASE proc[s].pc # "ok"
      <4>1. proc[s].pc \in Critical /\ proc[r].pc \in Critical
        BY <1>1, <2>1, <3>2 DEF Keeping, Critical
      <4> QED
        BY <1>0, <2>1, <4>1, Exclusive
    <3> QED
      BY <3>1, <3>2
  <2> QED
    BY <1>5, <2>1, <2>2, <2>3 DEF Bytes
<1>11. ApartInv'
  <2> SUFFICES ASSUME NEW s \in Recoverers, NEW t \in Recoverers, s # t, proc'[s].pc = "ok",
                      NEW h \in DOMAIN proc'[s].plan \ proc'[s].todo, h \in proc'[t].mine
               PROVE  FALSE
    BY DEF ApartInv, At
  <2>1. s # r /\ proc'[s] = proc[s] /\ h \in proc[t].mine
    BY <1>4 DEF Others
  <2> QED
    BY <1>0, <2>1 DEF ApartInv, At
<1> QED
  BY <1>8, <1>9, <1>10, <1>11 DEF FilesInv

(* The tools that are not recoveries add to the store at most. *)
LEMMA OthersAreQuiet ==
  ASSUME ToolInv,
         \/ \E a \in Archivers :
              ScanRun(a) \/ CheckBundle(a) \/ PlaceBundle(a) \/ ArchiveDone(a)
         \/ \E i \in Importers :
              PrepareImport(i) \/ WriteSidecar(i) \/ ListSidecars(i) \/ ReplaceIndex(i)
         \/ \E q \in Readers : ReadRecords(q) \/ AttachEconomics(q)
         \/ Rerun
  PROVE  Quiet
<1>0. DOMAIN proc = Tools /\ Recoverers \subseteq Tools /\ FileInv
  BY DEF ToolInv, Tools, Writers
<1>1. ASSUME NEW p \in Tools \ Recoverers, \A q \in Tools : q # p => proc'[q] = proc[q],
             lock' = lock, sidecars' = sidecars
      PROVE  Quiet
  BY <1>0, <1>1 DEF Quiet
<1>2. ASSUME NEW p \in Tools \ Recoverers, NEW pc, Goes(p, pc), lock' = lock, sidecars' = sidecars
      PROVE  Quiet
  BY <1>0, <1>2, Gone, <1>1
<1>3. ASSUME NEW p \in Tools \ Recoverers, NEW how, Ends(p, how), lock' = lock, sidecars' = sidecars
      PROVE  Quiet
  BY <1>0, <1>3, Ended, <1>1
<1>4. ASSUME NEW a \in Archivers,
             ScanRun(a) \/ CheckBundle(a) \/ PlaceBundle(a) \/ ArchiveDone(a)
      PROVE  Quiet
  <2>1. a \in Tools \ Recoverers /\ lock' = lock /\ sidecars' = sidecars
    BY <1>4, StoreBounds DEF Tools, Writers, ScanRun, CheckBundle, PlaceBundle, ArchiveDone, files
  <2>2. \A q \in Tools : q # a => proc'[q] = proc[q]
    BY <1>0, <1>4 DEF ScanRun, CheckBundle, PlaceBundle, ArchiveDone, Ends, Goes
  <2> QED
    BY <1>1, <2>1, <2>2
<1>5. ASSUME NEW i \in Importers,
             PrepareImport(i) \/ WriteSidecar(i) \/ ListSidecars(i) \/ ReplaceIndex(i)
      PROVE  Quiet
  <2>1. i \in Tools \ Recoverers /\ lock' = lock /\ i \in Writers /\ i \in Planners
    BY <1>5, StoreBounds
       DEF Tools, Writers, Planners, PrepareImport, WriteSidecar, ListSidecars, ReplaceIndex, files
  <2>2. \A q \in Tools : q # i => proc'[q] = proc[q]
    BY <1>0, <1>5, <2>1 DEF PrepareImport, WriteSidecar, ListSidecars, ReplaceIndex, Ends, Goes
  <2>3. CASE sidecars' = sidecars
    BY <1>1, <2>1, <2>2, <2>3
  <2>4. CASE sidecars' # sidecars
    <3>1. WriteSidecar(i) /\ proc[i].todo # {}
      BY <1>5, <2>4 DEF PrepareImport, WriteSidecar, ListSidecars, ReplaceIndex, files
    <3>2. /\ sidecars[Upcoming(i)] = Nothing
          /\ sidecars' = [sidecars EXCEPT ![Upcoming(i)] =
                            [bytes |-> proc[i].plan[Upcoming(i)], by |-> i]]
      BY <2>4, <3>1 DEF WriteSidecar
    <3>3. Upcoming(i) \in Hashes /\ Upcoming(i) \in DOMAIN proc[i].plan
      BY <2>1, <3>1, UpcomingIn
    <3>4. proc[i].plan[Upcoming(i)] \in Contents
      BY <2>1, <3>3 DEF ToolInv, Sound
    <3>5. [bytes |-> proc[i].plan[Upcoming(i)], by |-> i] \in Sidecars
      BY <3>4 DEF Sidecars
    <3>6. \A h \in Hashes : sidecars'[h] = sidecars[h]
            \/ (sidecars[h] = Nothing /\ sidecars'[h] \in Sidecars /\ sidecars'[h].by \notin Recoverers)
      BY <1>0, <2>1, <3>2, <3>3, <3>5 DEF FileInv
    <3> QED
      BY <1>0, <2>1, <2>2, <3>6 DEF Quiet
  <2> QED
    BY <2>3, <2>4
<1>6. ASSUME NEW q \in Readers, ReadRecords(q) \/ AttachEconomics(q)
      PROVE  Quiet
  <2>1. q \in Tools \ Recoverers /\ lock' = lock /\ sidecars' = sidecars
    BY <1>6, StoreBounds DEF Tools, Writers, ReadRecords, AttachEconomics, files
  <2>2. \A p \in Tools : p # q => proc'[p] = proc[p]
    BY <1>0, <1>6 DEF ReadRecords, AttachEconomics, Ends
  <2> QED
    BY <1>1, <2>1, <2>2
<1>7. CASE Rerun
  BY <1>7 DEF Rerun, files, Quiet
<1> QED
  BY <1>4, <1>5, <1>6, <1>7

(* The operator removes the lock of a recovery that is dead. *)
LEMMA RemovalIsQuiet ==
  ASSUME LockInv, RemoveStaleLock
  PROVE  Quiet
<1>1. PICK d \in Recoverers : lock = d /\ proc[d].pc = "dead"
  BY DEF RemoveStaleLock, At
<1>2. proc' = proc /\ sidecars' = sidecars
  BY DEF RemoveStaleLock
<1> QED
  BY <1>1, <1>2 DEF Quiet, Critical

-----------------------------------------------------------------------------
(* The invariant of every run of the tools.                                 *)

(* No tool has begun. *)
LEMMA RecoveryInit == Init => RecoveryInv
<1> SUFFICES ASSUME Init PROVE RecoveryInv
  OBVIOUS
<1>1. /\ current = [h \in Hashes |-> Nothing] /\ sidecars = [h \in Hashes |-> Nothing]
      /\ bundles \in [Hashes -> Variants \cup {Nothing}]
      /\ proc = [p \in Tools |-> Idle]
  BY DEF Init, Tools
<1>2. FileInv
  BY <1>1 DEF FileInv
<1>3. \A p \in Tools : proc[p] = Idle
  BY <1>1
<1>4. \A p \in Tools : Sound(p, Idle)
  BY DEF Sound, Idle, Fields
<1>5. ToolInv
  BY <1>1, <1>2, <1>3, <1>4 DEF ToolInv
<1>6. \A r \in Recoverers : proc[r].pc = "idle"
  BY <1>3 DEF Idle, Tools, Writers
<1>7. LockInv /\ RecoveredIsKept /\ ApartInv
  BY <1>6 DEF LockInv, RecoveredIsKept, ApartInv, Critical, At
<1>8. RollbackInv
  BY <1>1 DEF RollbackInv, Present
<1> QED
  BY <1>5, <1>7, <1>8 DEF RecoveryInv

(* Every step keeps the tools to their plans and the recoveries apart. *)
LEMMA RecoveryNext == RecoveryInv /\ [Next]_vars => RecoveryInv'
<1> SUFFICES ASSUME RecoveryInv, [Next]_vars PROVE RecoveryInv'
  OBVIOUS
<1>1. ToolInv /\ FilesInv
  BY DEF RecoveryInv, FilesInv
<1>2. ASSUME ToolInv', FilesInv' PROVE RecoveryInv'
  BY <1>2 DEF RecoveryInv, FilesInv
<1>3. LockInv
  BY <1>1 DEF FilesInv
<1>4. ASSUME NEW a \in Archivers,
             ScanRun(a) \/ CheckBundle(a) \/ PlaceBundle(a) \/ ArchiveDone(a)
      PROVE  RecoveryInv'
  BY <1>1, <1>2, <1>4, ArchiverSound, OthersAreQuiet, QuietStep
<1>5. ASSUME NEW i \in Importers, PrepareImport(i) \/ WriteSidecar(i)
      PROVE  RecoveryInv'
  BY <1>1, <1>2, <1>5, ImporterSound, OthersAreQuiet, QuietStep
<1>6. ASSUME NEW i \in Importers, ListSidecars(i) \/ ReplaceIndex(i)
      PROVE  RecoveryInv'
  <2>1. ToolInv'
    BY <1>1, <1>6, IndexSound DEF Planners
  <2> QED
    BY <1>1, <1>2, <1>6, <2>1, OthersAreQuiet, QuietStep
<1>7. ASSUME NEW r \in Recoverers, ListSidecars(r) \/ ReplaceIndex(r)
      PROVE  RecoveryInv'
  <2>1. ToolInv'
    BY <1>1, <1>7, IndexSound DEF Planners
  <2> QED
    BY <1>1, <1>2, <1>7, <2>1, RecoveryLocal
<1>8. ASSUME NEW r \in Recoverers, RecoveryStep(r)
      PROVE  RecoveryInv'
  <2>1. ToolInv'
    BY <1>1, <1>8, RecoverySound
  <2>2. FilesInv'
    BY <1>1, <1>8, RecoveryLocal, PublishKeeps, UndoKeeps DEF RecoveryStep
  <2> QED
    BY <1>2, <2>1, <2>2
<1>9. ASSUME NEW q \in Readers, ReadRecords(q) \/ AttachEconomics(q)
      PROVE  RecoveryInv'
  BY <1>1, <1>2, <1>9, ReaderSound, OthersAreQuiet, QuietStep
<1>10. CASE Rerun
  BY <1>1, <1>2, <1>10, SurroundingsSound, OthersAreQuiet, QuietStep
<1>11. CASE RemoveStaleLock
  BY <1>1, <1>2, <1>3, <1>11, SurroundingsSound, RemovalIsQuiet, QuietStep
<1>12. CASE UNCHANGED vars
  <2>1. /\ current' = current /\ bundles' = bundles /\ sidecars' = sidecars
        /\ lock' = lock /\ proc' = proc
    BY <1>12 DEF vars
  <2>2. ToolInv'
    BY <1>1, <2>1 DEF ToolInv, Sound, FileInv
  <2>3. Quiet
    BY <2>1 DEF Quiet
  <2> QED
    BY <1>1, <1>2, <2>2, <2>3, QuietStep
<1> QED
  BY <1>4, <1>5, <1>6, <1>7, <1>8, <1>9, <1>10, <1>11, <1>12 DEF Next, RecoveryStep

(* However often the tools run and wherever they are cut off, they keep to *)
(* their plans and the lock keeps the recoveries apart.                    *)
THEOREM RecoveryInvariance == Spec => []RecoveryInv
<1>1. Init => RecoveryInv
  BY RecoveryInit
<1>2. RecoveryInv /\ [Next]_vars => RecoveryInv'
  BY RecoveryNext
<1> QED
  BY <1>1, <1>2, PTL DEF Spec

(* A recovery that failed left none of its own files behind, unless it     *)
(* reported a removal that failed (recover-receipt-economics.mjs 340-390). *)
THEOREM AllOrNothing == Spec => []RecoveryIsAllOrNothing
<1>1. RecoveryInv => RecoveryIsAllOrNothing
  <2> SUFFICES ASSUME RecoveryInv, NEW r \in Recoverers, proc[r].pc = "failed", proc[r].undone,
                      NEW h \in Present, sidecars[h].by = r
               PROVE  FALSE
    BY DEF RecoveryIsAllOrNothing, At
  <2>1. proc[r].mine = {}
    BY DEF RecoveryInv, ToolInv, Sound, Tools, Writers, Publishing
  <2> QED
    BY <2>1 DEF RecoveryInv, RollbackInv
<1> QED
  BY <1>1, RecoveryInvariance, PTL

(* What a recovery wrote or found in place stays there while it goes on    *)
(* and after it reported success, whatever other recoveries fail beside it *)
(* (recover-receipt-economics.mjs 196-212 and 340-350).                    *)
THEOREM RecoveredStays == Spec => []RecoveredIsKept
<1>1. RecoveryInv => RecoveredIsKept
  BY DEF RecoveryInv
<1> QED
  BY <1>1, RecoveryInvariance, PTL

-----------------------------------------------------------------------------
(* One archiver, and what the inventory shows.                              *)

(* A step of neither archiver nor reader changes no record. *)
LEMMA ElsewhereKeeps ==
  ASSUME ShelfInv, UNCHANGED <<bundles, shown>>,
         \A p \in Archivers \cup Readers : proc'[p] = proc[p]
  PROVE  ShelfInv'
BY DEF ShelfInv, At, Upcoming, ShownEconomicsVerify

(* The archiver places what it looked for and did not find. *)
LEMMA ArchiverKeeps ==
  ASSUME OneArchiver, ToolInv, ShelfInv, NEW a \in Archivers,
         ScanRun(a) \/ CheckBundle(a) \/ PlaceBundle(a) \/ ArchiveDone(a)
  PROVE  ShelfInv'
<1>1. a \in Tools /\ DOMAIN proc = Tools /\ DOMAIN proc[a] = Fields /\ DOMAIN bundles = Hashes
  BY DEF ToolInv, Sound, FileInv, Tools, Writers
<1>2. /\ \A q \in Tools : q # a => proc'[q] = proc[q]
      /\ shown' = shown
  BY <1>1 DEF ScanRun, CheckBundle, PlaceBundle, ArchiveDone, Ends, Goes
<1>3. \A q \in Readers : proc'[q] = proc[q]
  BY <1>2, StoreBounds DEF Tools, Writers
<1>4. \A h \in Hashes : bundles[h] # Nothing => bundles'[h] = bundles[h]
  BY <1>1 DEF ScanRun, CheckBundle, PlaceBundle, ArchiveDone, files, ShelfInv
<1>5. proc'[a].pc = "place" => bundles'[Upcoming(a)'] = Nothing
  <2>1. CASE CheckBundle(a) /\ Goes(a, "place")
    <3>1. proc'[a].todo = proc[a].todo /\ bundles' = bundles
      BY <1>1, <2>1, Gone DEF CheckBundle, files
    <3>2. bundles[Upcoming(a)] = Nothing \/ proc' # [proc EXCEPT ![a].pc = "place"]
      <4> SUFFICES ASSUME bundles[Upcoming(a)] # Nothing, Goes(a, "place") PROVE FALSE
        BY DEF Goes
      <4>1. proc'[a].pc = "place" /\ proc[a].pc = "check"
        BY <1>1, <2>1, Gone DEF CheckBundle, At
      <4>2. Ends(a, "failed") \/ proc' = [proc EXCEPT ![a].todo = Remaining(a)]
        BY <2>1 DEF CheckBundle
      <4>3. ~Ends(a, "failed")
        BY <1>1, <4>1, Ended
      <4>4. proc' # [proc EXCEPT ![a].todo = Remaining(a)]
        BY <1>1, <4>1 DEF Fields
      <4> QED
        BY <4>2, <4>3, <4>4
    <3> QED
      BY <2>1, <3>1, <3>2 DEF Upcoming, Goes
  <2>2. CASE ~(CheckBundle(a) /\ Goes(a, "place"))
    <3>1. ASSUME NEW how \in {"failed", "ok"}, Ends(a, how) PROVE proc'[a].pc # "place"
      BY <1>1, <3>1, Ended
    <3>2. CASE ScanRun(a)
      <4>1. CASE Ends(a, "failed")
        BY <3>1, <4>1
      <4>2. CASE ~Ends(a, "failed")
        <5>1. PICK todo, plan : proc' = [proc EXCEPT ![a].pc = "check", ![a].todo = todo,
                                                     ![a].plan = plan]
          BY <3>2, <4>2 DEF ScanRun
        <5> QED
          BY <1>1, <5>1 DEF Fields
      <4> QED
        BY <4>1, <4>2
    <3>3. CASE CheckBundle(a)
      <4>1. CASE Ends(a, "failed")
        BY <3>1, <4>1
      <4>2. CASE ~Ends(a, "failed")
        BY <1>1, <2>2, <3>3, <4>2 DEF CheckBundle, At, Fields
      <4> QED
        BY <4>1, <4>2
    <3>4. CASE PlaceBundle(a)
      BY <1>1, <3>4 DEF PlaceBundle, Fields
    <3>5. CASE ArchiveDone(a)
      BY <3>1, <3>5 DEF ArchiveDone
    <3> QED
      BY <3>2, <3>3, <3>4, <3>5
  <2> QED
    BY <2>1, <2>2
<1>6. \A b \in Archivers : At(b, "place")' => bundles'[Upcoming(b)'] = Nothing
  BY <1>5 DEF OneArchiver, At
<1>7. \A q \in Readers : At(q, "economics")' =>
        /\ proc'[q].plan[1] \in Hashes
        /\ bundles'[proc'[q].plan[1]] = proc'[q].plan[2] /\ bundles'[proc'[q].plan[1]] # Nothing
  BY <1>3, <1>4 DEF ShelfInv, At
<1>8. ShownEconomicsVerify'
  BY <1>2 DEF ShelfInv, ShownEconomicsVerify
<1> QED
  BY <1>2, <1>6, <1>7, <1>8 DEF ShelfInv

(* A reader takes the archived record, and the sidecar that is over it. *)
LEMMA ReaderKeeps ==
  ASSUME ToolInv, ShelfInv,
         NEW q \in Readers, ReadRecords(q) \/ AttachEconomics(q)
  PROVE  ShelfInv'
<1>1. q \in Tools /\ DOMAIN proc = Tools /\ DOMAIN proc[q] = Fields /\ q \notin Writers
  BY StoreBounds DEF ToolInv, Sound, Tools, Writers
<1>2. bundles' = bundles /\ \A p \in Tools : p # q => proc'[p] = proc[p]
  BY <1>1 DEF ReadRecords, AttachEconomics, Ends, files
<1>3. \A a \in Archivers : proc'[a] = proc[a]
  BY <1>1, <1>2 DEF Tools, Writers
<1>4. \A a \in Archivers : At(a, "place")' => bundles'[Upcoming(a)'] = Nothing
  BY <1>2, <1>3 DEF ShelfInv, At, Upcoming
<1>5. ASSUME proc'[q].pc = "economics"
      PROVE  /\ proc'[q].plan[1] \in Hashes
             /\ bundles[proc'[q].plan[1]] = proc'[q].plan[2] /\ bundles[proc'[q].plan[1]] # Nothing
  <2>1. CASE ReadRecords(q)
    <3>1. PICK h \in Hashes :
            /\ Merged(current[h], bundles[h]) # Nothing /\ bundles[h] # Nothing
            /\ proc' = [proc EXCEPT ![q].pc = "economics",
                                    ![q].plan = <<h, Merged(current[h], bundles[h])>>]
      BY <2>1 DEF ReadRecords
    <3>2. Merged(current[h], bundles[h]) = bundles[h]
      BY <3>1 DEF Merged
    <3>3. proc'[q].plan = <<h, bundles[h]>>
      BY <1>1, <3>1, <3>2 DEF Fields
    <3>4. proc'[q].plan[1] = h /\ proc'[q].plan[2] = bundles[h]
      BY <3>3
    <3> QED
      BY <3>1, <3>4
  <2>2. CASE AttachEconomics(q)
    <3>1. PICK how \in {"idle", "shown"} : Ends(q, how)
      BY <2>2 DEF AttachEconomics
    <3> QED
      BY <1>1, <1>5, <3>1, Ended
  <2> QED
    BY <2>1, <2>2
<1>6. \A p \in Readers : At(p, "economics")' =>
        /\ proc'[p].plan[1] \in Hashes
        /\ bundles'[proc'[p].plan[1]] = proc'[p].plan[2] /\ bundles'[proc'[p].plan[1]] # Nothing
  <2> SUFFICES ASSUME NEW p \in Readers, proc'[p].pc = "economics"
               PROVE  /\ proc'[p].plan[1] \in Hashes
                      /\ bundles[proc'[p].plan[1]] = proc'[p].plan[2]
                      /\ bundles[proc'[p].plan[1]] # Nothing
    BY <1>2 DEF At
  <2>1. CASE p = q
    BY <1>5, <2>1
  <2>2. CASE p # q
    <3>1. proc'[p] = proc[p]
      BY <1>2, <2>2 DEF Tools
    <3> QED
      BY <3>1 DEF ShelfInv, At
  <2> QED
    BY <2>1, <2>2
<1>7. ShownEconomicsVerify'
  <2> SUFFICES ASSUME NEW p \in Readers, shown'[p] # Nothing
               PROVE  shown'[p].economics.over = shown'[p].record
    BY DEF ShownEconomicsVerify
  <2>1. CASE shown'[p] = shown[p]
    BY <2>1 DEF ShelfInv, ShownEconomicsVerify
  <2>2. CASE shown'[p] # shown[p]
    <3>0. DOMAIN shown = Readers
      BY DEF ShelfInv
    <3>1. AttachEconomics(q)
      BY <2>2 DEF ReadRecords
    <3>2. p = q
      BY <2>2, <3>0, <3>1 DEF AttachEconomics
    <3>3. /\ At(q, "economics") /\ Verifies(proc[q].plan[1])
          /\ shown'[q] = [record |-> proc[q].plan[2],
                          economics |-> sidecars[proc[q].plan[1]].bytes]
      BY <2>2, <3>0, <3>1, <3>2 DEF AttachEconomics
    <3>4. bundles[proc[q].plan[1]] = proc[q].plan[2]
      BY <3>3 DEF ShelfInv
    <3> QED
      BY <3>2, <3>3, <3>4 DEF Verifies
  <2> QED
    BY <2>1, <2>2
<1>8. DOMAIN shown' = Readers
  BY DEF ShelfInv, ReadRecords, AttachEconomics
<1> QED
  BY <1>4, <1>6, <1>7, <1>8 DEF ShelfInv

(* With one archiver at work, whatever the other tools do, an archived     *)
(* record stays and a reader shows economics of the record it shows.       *)
LEMMA ShelfNext == OneArchiver /\ RecoveryInv /\ ShelfInv /\ [Next]_vars => ShelfInv'
<1> SUFFICES ASSUME OneArchiver, RecoveryInv, ShelfInv, [Next]_vars PROVE ShelfInv'
  OBVIOUS
<1>1. ToolInv
  BY DEF RecoveryInv
<1>2. DOMAIN proc = Tools /\ Archivers \cup Readers \subseteq Tools
      /\ Planners \subseteq Tools /\ \A p \in Planners : p \notin Archivers \cup Readers
  BY <1>1, StoreBounds DEF ToolInv, Tools, Writers, Planners
<1>3. ASSUME NEW p \in Planners,
             \/ PrepareImport(p) \/ WriteSidecar(p) \/ ListSidecars(p) \/ ReplaceIndex(p)
             \/ PrepareRecovery(p) \/ AcquireLock(p) \/ Inspect(p) \/ Publish(p)
             \/ ProposeIndex(p) \/ Breaks(p) \/ UndoPublication(p) \/ UndoIndex(p)
             \/ Release(p) \/ Crash(p)
      PROVE  ShelfInv'
  <2>1. UNCHANGED <<bundles, shown>>
    BY <1>3 DEF PrepareImport, WriteSidecar, ListSidecars, ReplaceIndex, PrepareRecovery,
                AcquireLock, Inspect, Publish, ProposeIndex, Breaks, UndoPublication, UndoIndex,
                Release, Crash, files
  <2>2. \A q \in Tools : q # p => proc'[q] = proc[q]
    <3>1. CASE PrepareImport(p) \/ WriteSidecar(p) \/ ListSidecars(p) \/ ReplaceIndex(p)
      BY <1>2, <3>1 DEF PrepareImport, WriteSidecar, ListSidecars, ReplaceIndex, Ends, Goes
    <3>2. CASE PrepareRecovery(p) \/ AcquireLock(p) \/ Inspect(p) \/ Publish(p)
      BY <1>2, <3>2 DEF PrepareRecovery, AcquireLock, Inspect, Publish, Ends, Goes
    <3>3. CASE ProposeIndex(p) \/ Breaks(p) \/ UndoPublication(p)
      BY <1>2, <3>3 DEF ProposeIndex, Breaks, UndoPublication, Ends, Goes
    <3>4. CASE UndoIndex(p) \/ Release(p) \/ Crash(p)
      BY <1>2, <3>4 DEF UndoIndex, Release, Crash, Ends
    <3> QED
      BY <1>3, <3>1, <3>2, <3>3, <3>4
  <2> QED
    BY <1>2, <2>1, <2>2, ElsewhereKeeps
<1>4. ASSUME NEW a \in Archivers,
             ScanRun(a) \/ CheckBundle(a) \/ PlaceBundle(a) \/ ArchiveDone(a)
      PROVE  ShelfInv'
  BY <1>1, <1>4, ArchiverKeeps
<1>5. ASSUME NEW q \in Readers, ReadRecords(q) \/ AttachEconomics(q)
      PROVE  ShelfInv'
  BY <1>1, <1>5, ReaderKeeps
<1>6. CASE Rerun \/ RemoveStaleLock \/ UNCHANGED vars
  <2>1. UNCHANGED <<bundles, shown>> /\ proc' = proc
    BY <1>6 DEF Rerun, RemoveStaleLock, vars, files
  <2> QED
    BY <2>1, ElsewhereKeeps
<1> QED
  BY <1>3, <1>4, <1>5, <1>6 DEF Next, Planners

(* The inventory adds economics to a receipt only when they verify over    *)
(* the very record it shows, though it reads the two one after the other   *)
(* and runs, imports and recoveries go on in between (inventory.mjs        *)
(* 176-231), as long as no two archivers are at work.                      *)
THEOREM EconomicsAreTheRecords == OneArchiver => (Spec => []ShownEconomicsVerify)
<1> SUFFICES ASSUME OneArchiver PROVE Spec => []ShownEconomicsVerify
  OBVIOUS
<1>1. Init => ShelfInv
  <2> SUFFICES ASSUME Init PROVE ShelfInv
    OBVIOUS
  <2>1. proc = [p \in Tools |-> Idle] /\ shown = [q \in Readers |-> Nothing]
    BY DEF Init, Tools
  <2>2. \A p \in Archivers \cup Readers : proc[p].pc = "idle"
    BY <2>1 DEF Tools, Writers, Idle
  <2> QED
    BY <2>1, <2>2 DEF ShelfInv, ShownEconomicsVerify, At
<1>2. RecoveryInv /\ ShelfInv /\ [Next]_vars => ShelfInv'
  BY ShelfNext
<1>3. ShelfInv => ShownEconomicsVerify
  BY DEF ShelfInv
<1> QED
  BY <1>1, <1>2, <1>3, RecoveryInvariance, PTL DEF Spec
=============================================================================
