---------------------------- MODULE MCAtomicFile ----------------------------
(* AtomicFile on a small set of callers. *)
EXTENDS AtomicFile, TLC

\* The callers are interchangeable.
CallerSymmetry == Permutations(Callers)
=============================================================================
