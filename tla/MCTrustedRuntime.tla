--------------------------- MODULE MCTrustedRuntime ---------------------------
(* The instance of the trusted runtimes that TLC checks. *)
EXTENDS TrustedRuntime, TLC

Interchangeable ==
  Permutations(Runtimes) \cup Permutations(Challenges) \cup Permutations(Decisions)
    \cup Permutations(Intents)
=============================================================================
