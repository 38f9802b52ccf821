------------------------------- MODULE MCBridge -------------------------------
(***************************************************************************)
(* Small instances of the bridge.  Attempts and jobs are interchangeable.  *)
(***************************************************************************)
EXTENDS Bridge, TLC

Symmetry == Permutations(Attempts) \cup Permutations(Jobs)
=============================================================================
