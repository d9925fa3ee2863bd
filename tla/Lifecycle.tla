------------------------------ MODULE Lifecycle ------------------------------
(***************************************************************************)
(* What the control plane promises about the instances of a plugin: each   *)
(* is registered once, has its routes added, leaves the registry and then  *)
(* loses its routes, in this order, and registering one replaces the one   *)
(* before it.  A name is disputed when its registrations overlapped with   *)
(* each other or with an operator's removal: one of its instances may then *)
(* be registered beside another, leave the registry before its routes are  *)
(* added, and have them added after that.                                  *)
(*                                                                         *)
(* Source: internal/controlplane/handlers.go (register, deregister,        *)
(* adminDeregister), with the calls they make to the registry and to the   *)
(* dispatch table.                                                         *)
(***************************************************************************)

CONSTANTS
    Names,      \* plugin names
    Uuids       \* the suffixes of the ids

VARIABLES
    phase,      \* of each instance: "new", "registered", "routed", "leaving"
                \* (not registered, still routed) or "gone"
    disputed    \* names

Ids == Names \X Uuids
Name(id) == id[1]

Listed(id) == phase[id] \in {"registered", "routed"}

Init ==
    /\ phase = [id \in Ids |-> "new"]
    /\ disputed = {}

Move(id, from, to) ==
    /\ phase[id] = from
    /\ phase' = [phase EXCEPT ![id] = to]
    /\ UNCHANGED disputed

Register(id) ==
    /\ Move(id, "new", "registered")
    /\ Name(id) \notin disputed =>
         \A other \in Ids : Name(other) = Name(id) => ~Listed(other)

AddRoutes(id) ==
    \/ Move(id, "registered", "routed")
    \/ Name(id) \in disputed /\ Move(id, "gone", "leaving")

Deregister(id) ==
    \/ Move(id, "routed", "leaving")
    \/ Name(id) \in disputed /\ Move(id, "registered", "gone")

RemoveRoutes(id) == Move(id, "leaving", "gone")

(* Until the next restart a name stays disputed. *)
Dispute ==
    /\ disputed \subseteq disputed'
    /\ UNCHANGED phase

(* The registry and the table are empty after a restart; ids are not reused. *)
Restart ==
    /\ phase' = [id \in Ids |-> IF phase[id] = "new" THEN "new" ELSE "gone"]
    /\ disputed' = {}

Next ==
    \/ Dispute
    \/ \E id \in Ids : Register(id) \/ AddRoutes(id) \/ Deregister(id) \/ RemoveRoutes(id)
    \/ Restart

Spec == Init /\ [][Next]_<<phase, disputed>>
=============================================================================
