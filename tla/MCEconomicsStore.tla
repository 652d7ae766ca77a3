-------------------------- MODULE MCEconomicsStore --------------------------
(* Two receipts, two variants of each, every tool once and two recoveries.  *)
EXTENDS EconomicsStore, TLC

MCSymmetry == Permutations(Variants) \cup Permutations(Recoverers)
=============================================================================
