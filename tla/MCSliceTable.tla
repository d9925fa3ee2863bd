---------------------------- MODULE MCSliceTable ----------------------------
(* Instances of SliceTable for TLC: an exact route, a parameter and a      *)
(* wildcard whose prefix is also the beginning of another segment, on      *)
(* plugins with one and two routes, so that arrays of 1, 2 and 4 cells are *)
(* filled, compacted and left behind.                                      *)
EXTENDS SliceTable

Symmetry == Permutations(Requests)

Route(m, p) == [method |-> m, pattern |-> p]
Query(m, p) == [method |-> m, path |-> p]

MCParams == {":id"}
Segments == {"bill", "billing", "pay", ":id", "*", ""}
MCExtends == {<<s, s>> : s \in Segments} \cup {<<"billing", "bill">>} \cup (Segments \X {""})

MCIds == {"a1", "a2", "b"}
MCManifest ==
  [id \in MCIds |-> IF id = "b" THEN <<Route("*", <<"bill", ":id">>)>>
                    ELSE <<Route("GET", <<"bill", "*">>), Route("POST", <<"bill", "pay">>)>>]
MCQueries ==
  {Query(m, <<"bill", "pay">>) : m \in {"GET", "POST"}}
    \cup {Query("GET", <<"billing">>), Query("POST", <<"bill", "pay", "">>)}

\* Two plugins, for the shortest counterexamples.
MCTwo == {"a", "b"}
MCTwoManifest == [id \in MCTwo |-> <<Route("*", <<"bill", "*">>)>>]
=============================================================================
