---------------------------- MODULE MCPackageStore ----------------------------
(* The instances of the package store that TLC checks. *)
EXTENDS PackageStore, TLC

Interchangeable == Permutations(Writers) \cup Permutations(Digests)
=============================================================================
