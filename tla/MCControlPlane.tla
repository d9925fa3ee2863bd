--------------------------- MODULE MCControlPlane ---------------------------
(* Small instances of ControlPlane for TLC. *)
EXTENDS ControlPlane, TLC

(* The goroutines are interchangeable, and so are the random suffixes but    *)
(* for the one that the idle locals hold (SomeId), which stays in its place. *)
Symmetry == Permutations(Handlers) \union Permutations(Uuids \ {SomeId[2]})
=============================================================================
