------------------------------ MODULE WriteOnce ------------------------------
(***************************************************************************)
(* What a receipt package store promises its callers: a receipt has at     *)
(* most one package, ever, and whoever was told that a package is          *)
(* committed will always find that package.                                *)
(***************************************************************************)
CONSTANTS Packages, Absent

VARIABLES
  value,        \* the package of the receipt, or Absent
  confirmed     \* the packages some caller was told are committed

registerVars == <<value, confirmed>>

RegisterInit == value = Absent /\ confirmed = {}

Publish(p) == value = Absent /\ value' = p /\ UNCHANGED confirmed

ConfirmPublished(p) == value = p /\ confirmed' = confirmed \cup {p} /\ UNCHANGED value

RegisterNext == \E p \in Packages : Publish(p) \/ ConfirmPublished(p)

RegisterSpec == RegisterInit /\ [][RegisterNext]_registerVars
=============================================================================
