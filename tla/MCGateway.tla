----------------------------- MODULE MCGateway -----------------------------
(* Instances of Gateway for TLC: four hosts, the gateway's own one, a      *)
(* product host and two custom domains, one of them session-scoped.        *)
EXTENDS Gateway

MCHosts == {"gateway", "panel", "acme", "portal"}
MCPaths == {<<"students">>, <<"school", "students">>, <<"docs">>, <<"admin", "users">>}
MCProductHosts == [h \in {"panel"} |-> <<"school">>]
MCSurfaces == [s \in {"staff", "site"} |->
  IF s = "staff" THEN [prefix |-> <<"school">>, scoped |-> TRUE]
                 ELSE [prefix |-> <<"site">>, scoped |-> FALSE]]
MCClaims == [h \in {"acme", "portal"} |->
  [tenant |-> "t1", surface |-> IF h = "acme" THEN "staff" ELSE "site"]]
MCTenants == {"t1", "t2"}
MCPluginRoutes == [p \in {<<"school", "students">>, <<"site", "t1", "students">>} |->
  IF p[1] = "school" THEN EntryKinds ELSE {"public"}]
MCCorePaths == {<<"docs">>}
MCBlocked == {<<"admin", "users">>}

=============================================================================
