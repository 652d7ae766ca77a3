------------------------- MODULE MCSupervisedJournal -------------------------
(* The instance of the supervision journal that TLC checks. *)
EXTENDS SupervisedJournal, TLC

Interchangeable == Permutations(Runtimes) \cup Permutations(Phases) \cup Permutations(Entries)
=============================================================================
