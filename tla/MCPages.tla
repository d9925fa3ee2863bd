------------------------------ MODULE MCPages ------------------------------
(* An instance of Pages for TLC: two plugins, one of them in two versions, *)
(* that share a group and a key, with a wildcard, a qualified and an       *)
(* unqualified feature, an item without a key and equal sort values; their *)
(* documents share a component section and a security requirement.         *)
EXTENDS Pages

NavItem(key, permission, feature, group, groupSort, sort) ==
  [key |-> key, href |-> "/p", permission |-> permission, feature |-> feature,
   group |-> group, groupSort |-> groupSort, sort |-> sort]

MCIds == {"ledger1", "ledger2", "school"}
MCName == [id \in MCIds |-> IF id = "school" THEN 2 ELSE 1]

Fees     == NavItem("fees", <<"fee", "read">>, << >>, 1, 0, 1)
Reports  == NavItem("reports", <<"fee", "*">>, <<"extra">>, 2, 0, 0)
Students == NavItem("students", << >>, << >>, 1, 0, 1)
Marks    == NavItem("reports", <<"mark", "read">>, <<2, "marks">>, 2, 0, 2)
Cards    == NavItem("cards", <<"owner">>, << >>, 2, 0, 1)

MCNav ==
  [id \in MCIds |-> CASE id = "ledger1" -> <<Fees, Reports>>
                      [] id = "ledger2" -> <<Reports, NavItem("", << >>, << >>, 1, 0, 0)>>
                      [] id = "school"  -> <<Students, Cards, Marks>>]

MCUsers ==
  {[perms |-> {Wildcard}, features |-> {<<1, "extra">>, <<2, "marks">>}],
   [perms |-> {<<"fee", "*">>, <<"mark", "read">>}, features |-> {<<1, "extra">>, <<2, "marks">>}]}

Doc(paths, schemas, security, parses) ==
  [paths |-> paths, components |-> [s \in {"schemas"} |-> schemas],
   security |-> security, parses |-> parses]

MCDeclared ==
  [who \in MCIds \cup {"core"} |->
     CASE who = "core"    -> [paths |-> {"/health"}, components |-> << >>,
                              security |-> <<"bearer">>, parses |-> TRUE]
       [] who = "ledger1" -> Doc({"/fees", "/health"}, {"Fee", "Error"}, <<"bearer", "key">>, TRUE)
       [] who = "ledger2" -> Doc({"/fees"}, {"Fee"}, << >>, FALSE)
       [] who = "school"  -> Doc({"/marks"}, {"Mark", "Error"}, <<"key">>, TRUE)]
=============================================================================
