---------------------------- MODULE MCProtection ----------------------------
(* Small instances of Protection for TLC. *)
EXTENDS Protection, TLC

(* Requests are interchangeable, and so are plugins. *)
RequestSymmetry == Permutations(Requests) \union Permutations(Plugins)
=============================================================================
