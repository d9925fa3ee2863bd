---------------------------- MODULE RouteTable ----------------------------
(***************************************************************************)
(* What the dispatch table promises: an ordered list of routes in which    *)
(* the routes of a plugin instance stand together, in the order of its     *)
(* manifest, after those of the instances that registered before it.       *)
(*                                                                         *)
(* Source: internal/dispatcher/dispatcher.go (AddRoutes, RemoveRoutes).    *)
(***************************************************************************)
EXTENDS Naturals, Sequences

CONSTANTS
  Ids,       \* plugin instances
  Manifest   \* the routes each instance declares, in order

VARIABLE table

Entries(id) == [i \in 1..Len(Manifest[id]) |-> [id |-> id, route |-> Manifest[id][i]]]

\* What the loop over s has kept after its first n entries.
Without(s, id) ==
  LET kept[n \in 0..Len(s)] ==
        IF n = 0 THEN << >>
        ELSE IF s[n].id # id THEN Append(kept[n - 1], s[n]) ELSE kept[n - 1]
  IN kept[Len(s)]

Init == table = << >>

AddRoutes(id) == table' = Without(table, id) \o Entries(id)

RemoveRoutes(id) == table' = Without(table, id)

Next == \E id \in Ids : AddRoutes(id) \/ RemoveRoutes(id)

Spec == Init /\ [][Next]_table
=============================================================================
