--------------------------- MODULE MCVerdictCache ---------------------------
(* Small instances of VerdictCache for TLC. *)
EXTENDS VerdictCache, TLC

CallerSymmetry == Permutations(Callers)
=============================================================================
