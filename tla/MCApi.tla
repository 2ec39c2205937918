-------------------------------- MODULE MCApi --------------------------------
(***************************************************************************)
(* Download and scan threads are alike, and only invariants are checked.   *)
(***************************************************************************)
EXTENDS Api, TLC

Symmetry == Permutations(Downloads) \cup Permutations(Scanners)
=============================================================================
