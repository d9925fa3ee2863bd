---------------------------- MODULE ControlPlane ----------------------------
(***************************************************************************)
(* Plugin registration in the gateway's control plane: the HTTP handlers   *)
(* of internal/controlplane/handlers.go, which change three shared         *)
(* structures one lock at a time:                                          *)
(*   - the registry         (internal/registry/registry.go),               *)
(*   - the dispatch table   (internal/dispatcher/dispatcher.go),           *)
(*   - the OpenAPI injector (internal/openapi/injector.go),                *)
(* and the plugins_registered gauge.  Each structure has its own mutex and *)
(* no lock is held across two calls, so every call is a step of its own    *)
(* and handlers run by different goroutines interleave between them.       *)
(*                                                                         *)
(* A request refused before its first shared access (malformed body, wrong *)
(* key, manifest that cannot be pulled, plugin that is not allow-listed,   *)
(* invalid token, unknown id) changes no state: it is a stuttering step.   *)
(***************************************************************************)
EXTENDS Naturals, FiniteSets

CONSTANTS
    Names,      \* plugin names, from the pulled manifests
    Uuids,      \* the suffixes uuid.New() can produce, each drawn at most once
    Handlers    \* the goroutines that may be serving a control-plane call

ASSUME ConstantsAssumption ==
    /\ Names # {}
    /\ Uuids # {}
    /\ IsFiniteSet(Names)
    /\ IsFiniteSet(Uuids)

VARIABLES
    registered, \* Registry.plugins: the ids with an entry
    alive,      \* the ids whose entry has Alive = true
    added,      \* Dispatcher.routes and pluginRL: 0 when the id has no block of
                \* routes, else its rank in the order the blocks were appended
    calls,      \* how many AddRoutes calls have been made
    specs,      \* Injector.specs: the ids whose spec is stored (one per name)
    documented, \* the ids whose manifest carried an OpenAPI spec
    gauge,      \* the plugins_registered gauge
    used,       \* the ids ever generated
    tokens,     \* the ids whose plugin holds a token that still verifies
    pc,         \* where each handler is
    nm,         \* the plugin name each handler works on
    todo,       \* register: the old ids its eviction loop has still to visit
    cur,        \* the id each handler works on
    len,        \* the len(reg.List()) a handler has read for the gauge
    clash,      \* ghost: the names on which a registration has overlapped with
                \* another one, or with an operator's removal
    crossed,    \* ghost: the names on which two calls of any kind have overlapped
                \* and that no registration has taken over alone since
    company     \* ghost: whether the calls since the gateway was last quiet
                \* were more than one

registry == <<registered, alive>>
table == <<added, calls>>
docs  == <<specs, documented>>
store == <<registry, table, docs, gauge, used, tokens>>
local == <<pc, nm, todo, cur, len>>
ghosts == <<clash, crossed, company>>
vars  == <<store, local, ghosts>>

(* fmt.Sprintf("%s-%s", m.Name, uuid.New().String()[:8]) *)
Ids == Names \X Uuids
Name(id) == id[1]

Routed(id) == added[id] > 0

(* reg.IDsByName: the registered ids with the given name. *)
IDsByName(n) == {id \in registered : Name(id) = n}

(* match scans the table front to back, so of several blocks with the same  *)
(* routes (two instances of one plugin) the one appended first is served.   *)
Served(n) ==
    {id \in Ids : /\ Name(id) = n
                  /\ Routed(id)
                  /\ \A other \in Ids : Name(other) = n /\ Routed(other)
                                            => added[id] <= added[other]}

RegisterSteps   == {"evict", "evictRoutes", "addRoutes", "addSpec", "readLen", "reply"}
DeregisterSteps == {"deregister", "removeRoutes", "removeSpec", "readLen2", "setGauge"}

Registering(n) == \E h \in Handlers : pc[h] \in RegisterSteps /\ nm[h] = n

Idle(h) == pc[h] = "idle"

Quiet == \A h \in Handlers : Idle(h)

WorkedOn(n) == \E h \in Handlers : ~Idle(h) /\ nm[h] = n

(* The values a handler's locals have when it serves nothing. *)
SomeName == CHOOSE n \in Names : TRUE
SomeId   == <<SomeName, CHOOSE u \in Uuids : TRUE>>

Init ==
    /\ registered = {} /\ alive = {} /\ specs = {} /\ documented = {}
    /\ used = {} /\ tokens = {}
    /\ clash = {} /\ crossed = {} /\ company = FALSE
    /\ added = [id \in Ids |-> 0]
    /\ calls = 0
    /\ gauge = 0
    /\ pc = [h \in Handlers |-> "idle"]
    /\ nm = [h \in Handlers |-> SomeName]
    /\ todo = [h \in Handlers |-> {}]
    /\ cur = [h \in Handlers |-> SomeId]
    /\ len = [h \in Handlers |-> 0]

(***************************************************************************)
(* register                                                                *)
(***************************************************************************)
(* The manifest has been pulled and accepted, so the name is known: the ids  *)
(* to evict are read from the registry.                                      *)
RegisterStart(h, n) ==
    /\ Idle(h)
    /\ pc' = [pc EXCEPT ![h] = "evict"]
    /\ nm' = [nm EXCEPT ![h] = n]
    /\ todo' = [todo EXCEPT ![h] = IDsByName(n)]
    /\ clash' = IF Registering(n) THEN clash \union {n} ELSE clash
    /\ crossed' = IF WorkedOn(n) THEN crossed \union {n} ELSE crossed \ {n}
    /\ company' = ~Quiet
    /\ UNCHANGED <<store, cur, len>>

(* Mutant: the eviction forgets the registry entry. *)
EvictDeregister_RoutesOnly(h) ==
    /\ pc[h] = "evict"
    /\ \E id \in todo[h] :
          /\ cur' = [cur EXCEPT ![h] = id]
          /\ todo' = [todo EXCEPT ![h] = @ \ {id}]
    /\ pc' = [pc EXCEPT ![h] = "evictRoutes"]
    /\ UNCHANGED <<store, nm, len, ghosts>>

(* reg.Deregister(oldID) for one id of the snapshot (map order: any). *)
EvictDeregister(h) ==
    /\ pc[h] = "evict"
    /\ \E id \in todo[h] :
          /\ registered' = registered \ {id}
          /\ alive' = alive \ {id}
          /\ cur' = [cur EXCEPT ![h] = id]
          /\ todo' = [todo EXCEPT ![h] = @ \ {id}]
    /\ pc' = [pc EXCEPT ![h] = "evictRoutes"]
    /\ UNCHANGED <<table, docs, gauge, used, tokens, nm, len, ghosts>>

(* disp.RemoveRoutes(oldID), then the next turn of the loop. *)
EvictRemoveRoutes(h) ==
    /\ pc[h] = "evictRoutes"
    /\ added' = [added EXCEPT ![cur[h]] = 0]
    /\ pc' = [pc EXCEPT ![h] = "evict"]
    /\ UNCHANGED <<registry, calls, docs, gauge, used, tokens, nm, todo, cur, len, ghosts>>

(* Mutant: an id that is free in the registry is drawn again. *)
RegisterEntry_ReusesIds(h) ==
    /\ pc[h] = "evict"
    /\ todo[h] = {}
    /\ \E id \in Ids \ registered :
          /\ Name(id) = nm[h]
          /\ used' = used \union {id}
          /\ registered' = registered \union {id}
          /\ alive' = alive \union {id}
          /\ cur' = [cur EXCEPT ![h] = id]
    /\ pc' = [pc EXCEPT ![h] = "addRoutes"]
    /\ UNCHANGED <<table, docs, gauge, tokens, nm, todo, len, ghosts>>

(* The loop is over: a fresh id is drawn and reg.Register stores a live entry. *)
RegisterEntry(h) ==
    /\ pc[h] = "evict"
    /\ todo[h] = {}
    /\ \E id \in Ids \ used :
          /\ Name(id) = nm[h]
          /\ used' = used \union {id}
          /\ registered' = registered \union {id}
          /\ alive' = alive \union {id}
          /\ cur' = [cur EXCEPT ![h] = id]
    /\ pc' = [pc EXCEPT ![h] = "addRoutes"]
    /\ UNCHANGED <<table, docs, gauge, tokens, nm, todo, len, ghosts>>

(* disp.AddRoutes drops the id's old block, appends the new one and creates *)
(* the id's rate limiter.                                                   *)
AddRoutes(h) ==
    /\ pc[h] = "addRoutes"
    /\ calls' = calls + 1
    /\ added' = [added EXCEPT ![cur[h]] = calls + 1]
    /\ pc' = [pc EXCEPT ![h] = "addSpec"]
    /\ UNCHANGED <<registry, docs, gauge, used, tokens, nm, todo, cur, len, ghosts>>

SpecsOfOthers(n) == {id \in specs : Name(id) # n}

(* Mutant: a spec that is already stored under the name is kept. *)
AddSpec_KeepsFirst(h) ==
    /\ pc[h] = "addSpec"
    /\ documented' = documented \union {cur[h]}
    /\ specs' = IF \A id \in specs : Name(id) # nm[h]
                   THEN specs \union {cur[h]} ELSE specs
    /\ pc' = [pc EXCEPT ![h] = "readLen"]
    /\ UNCHANGED <<registry, table, gauge, used, tokens, nm, todo, cur, len, ghosts>>

(* injector.AddRoutes stores the manifest's spec under the plugin's name, or *)
(* returns at once when the manifest has none.                               *)
AddSpec(h) ==
    /\ pc[h] = "addSpec"
    /\ \/ /\ documented' = documented \union {cur[h]}
          /\ specs' = SpecsOfOthers(nm[h]) \union {cur[h]}
       \/ UNCHANGED <<documented, specs>>
    /\ pc' = [pc EXCEPT ![h] = "readLen"]
    /\ UNCHANGED <<registry, table, gauge, used, tokens, nm, todo, cur, len, ghosts>>

(* Mutant: the gauge counts the live plugins instead of the registered ones. *)
ReadLen_Alive(h) ==
    /\ pc[h] \in {"readLen", "readLen2"}
    /\ len' = [len EXCEPT ![h] = Cardinality(alive)]
    /\ pc' = [pc EXCEPT ![h] = IF @ = "readLen" THEN "reply" ELSE "setGauge"]
    /\ UNCHANGED <<store, nm, todo, cur, ghosts>>

(* len(reg.List()), the argument of PluginsRegistered.Set *)
ReadLen(h) ==
    /\ pc[h] \in {"readLen", "readLen2"}
    /\ len' = [len EXCEPT ![h] = Cardinality(registered)]
    /\ pc' = [pc EXCEPT ![h] = IF @ = "readLen" THEN "reply" ELSE "setGauge"]
    /\ UNCHANGED <<store, nm, todo, cur, ghosts>>

Finish(h) ==
    /\ pc' = [pc EXCEPT ![h] = "idle"]
    /\ nm' = [nm EXCEPT ![h] = SomeName]
    /\ todo' = [todo EXCEPT ![h] = {}]
    /\ cur' = [cur EXCEPT ![h] = SomeId]
    /\ len' = [len EXCEPT ![h] = 0]

(* The gauge is set and the reply hands the plugin its id and its token. *)
Reply(h) ==
    /\ pc[h] = "reply"
    /\ gauge' = len[h]
    /\ tokens' = tokens \union {cur[h]}
    /\ Finish(h)
    /\ UNCHANGED <<registry, table, docs, used, ghosts>>

(***************************************************************************)
(* deregister (the plugin, with its token) and adminDeregister (an         *)
(* operator, on any id of the listing); from reg.Get on they are the same. *)
(***************************************************************************)
Remove(h, id) ==
    /\ Idle(h)
    /\ id \in registered
    /\ pc' = [pc EXCEPT ![h] = "deregister"]
    /\ nm' = [nm EXCEPT ![h] = Name(id)]
    /\ cur' = [cur EXCEPT ![h] = id]
    /\ crossed' = IF WorkedOn(Name(id)) THEN crossed \union {Name(id)} ELSE crossed
    /\ company' = ~Quiet
    /\ UNCHANGED <<store, todo, len>>

DeregisterStart(h, id) ==
    /\ id \in tokens
    /\ Remove(h, id)
    /\ UNCHANGED clash

AdminDeregisterStart(h, id) ==
    /\ Remove(h, id)
    /\ clash' = IF Registering(Name(id)) THEN clash \union {Name(id)} ELSE clash

Deregister(h) ==
    /\ pc[h] = "deregister"
    /\ registered' = registered \ {cur[h]}
    /\ alive' = alive \ {cur[h]}
    /\ pc' = [pc EXCEPT ![h] = "removeRoutes"]
    /\ UNCHANGED <<table, docs, gauge, used, tokens, nm, todo, cur, len, ghosts>>

(* Mutant: the routes of a deregistered plugin stay in the table. *)
RemoveRoutes_Skipped(h) ==
    /\ pc[h] = "removeRoutes"
    /\ pc' = [pc EXCEPT ![h] = "removeSpec"]
    /\ UNCHANGED <<store, nm, todo, cur, len, ghosts>>

RemoveRoutes(h) ==
    /\ pc[h] = "removeRoutes"
    /\ added' = [added EXCEPT ![cur[h]] = 0]
    /\ pc' = [pc EXCEPT ![h] = "removeSpec"]
    /\ UNCHANGED <<registry, calls, docs, gauge, used, tokens, nm, todo, cur, len, ghosts>>

(* injector.RemoveRoutes is given the NAME: whichever instance's spec is    *)
(* stored under it goes.                                                    *)
RemoveSpec(h) ==
    /\ pc[h] = "removeSpec"
    /\ specs' = SpecsOfOthers(nm[h])
    /\ pc' = [pc EXCEPT ![h] = "readLen2"]
    /\ UNCHANGED <<registry, table, documented, gauge, used, tokens, nm, todo, cur, len, ghosts>>

SetGauge(h) ==
    /\ pc[h] = "setGauge"
    /\ gauge' = len[h]
    /\ Finish(h)
    /\ UNCHANGED <<registry, table, docs, used, tokens, ghosts>>


(***************************************************************************)
(* Calls of one step.  A heartbeat may come from the plugin, with its      *)
(* token, or from the health monitor, which took its list of ids earlier:  *)
(* the id may have been evicted meanwhile.                                 *)
(***************************************************************************)
(* Mutant: the entry is marked alive without looking whether it still exists. *)
Heartbeat_Unchecked(id) ==
    /\ id \in used
    /\ alive' = alive \union {id}
    /\ UNCHANGED <<registered, table, docs, gauge, used, tokens, local, ghosts>>

Heartbeat(id) ==
    /\ id \in used
    /\ id \in registered
    /\ alive' = alive \union {id}
    /\ UNCHANGED <<registered, table, docs, gauge, used, tokens, local, ghosts>>

MarkDead(id) ==
    /\ id \in used
    /\ alive' = alive \ {id}
    /\ UNCHANGED <<registered, table, docs, gauge, used, tokens, local, ghosts>>

(* The token's 24 hours are over; nothing renews it. *)
TokenExpires(id) ==
    /\ id \in tokens
    /\ tokens' = tokens \ {id}
    /\ UNCHANGED <<registry, table, docs, gauge, used, local, ghosts>>

(* The gateway's process is restarted, at any point of any call: registry,  *)
(* table, specs and gauge live in memory and start empty.  The plugins keep *)
(* their ids and their tokens, which verify as before under the same secret.*)
Restart ==
    /\ registered' = {} /\ alive' = {} /\ specs' = {} /\ documented' = {}
    /\ added' = [id \in Ids |-> 0]
    /\ calls' = 0
    /\ gauge' = 0
    /\ pc' = [h \in Handlers |-> "idle"]
    /\ nm' = [h \in Handlers |-> SomeName]
    /\ todo' = [h \in Handlers |-> {}]
    /\ cur' = [h \in Handlers |-> SomeId]
    /\ len' = [h \in Handlers |-> 0]
    /\ clash' = {} /\ crossed' = {} /\ company' = FALSE
    /\ UNCHANGED <<used, tokens>>

(* What a handler that has begun does next. *)
Step(h) ==
    \/ EvictDeregister(h)
    \/ EvictRemoveRoutes(h)
    \/ RegisterEntry(h)
    \/ AddRoutes(h)
    \/ AddSpec(h)
    \/ ReadLen(h)
    \/ Reply(h)
    \/ Deregister(h)
    \/ RemoveRoutes(h)
    \/ RemoveSpec(h)
    \/ SetGauge(h)

Begin(h) ==
    \/ \E n \in Names : RegisterStart(h, n)
    \/ \E id \in Ids : DeregisterStart(h, id)
    \/ \E id \in Ids : AdminDeregisterStart(h, id)

Next ==
    \/ \E h \in Handlers : Begin(h) \/ Step(h)
    \/ \E id \in Ids : Heartbeat(id) \/ MarkDead(id) \/ TokenExpires(id)
    \/ Restart

Spec == Init /\ [][Next]_vars

(***************************************************************************)
(* Properties                                                              *)
(***************************************************************************)
Steps == {"idle"} \union RegisterSteps \union DeregisterSteps

(* Types; only registered plugins are alive, and only generated ids are     *)
(* registered or evicted.                                                   *)
TypeOK ==
    /\ used \subseteq Ids
    /\ registered \subseteq used
    /\ alive \subseteq registered
    /\ specs \subseteq Ids
    /\ documented \subseteq Ids
    /\ tokens \subseteq Ids
    /\ added \in [Ids -> Nat]
    /\ calls \in Nat
    /\ gauge \in Nat
    /\ pc \in [Handlers -> Steps]
    /\ nm \in [Handlers -> Names]
    /\ todo \in [Handlers -> SUBSET used]
    /\ cur \in [Handlers -> Ids]
    /\ len \in [Handlers -> Nat]
    /\ clash \subseteq Names
    /\ crossed \subseteq Names
    /\ company \in BOOLEAN

(* Every registered plugin has its routes in the dispatch table, except     *)
(* between the reg.Register and the disp.AddRoutes of its own registration: *)
(* no eviction or removal by another handler ever takes the routes of an    *)
(* entry it leaves in the registry (handlers.go:315-327, 376-377).          *)
RegisteredRouted ==
    \A id \in registered :
        \/ Routed(id)
        \/ \E h \in Handlers : pc[h] = "addRoutes" /\ cur[h] = id

(* How far each instance has come. *)
Phase ==
    [id \in Ids |->
        IF id \in registered THEN IF Routed(id) THEN "routed" ELSE "registered"
        ELSE IF Routed(id) THEN "leaving"
        ELSE IF id \in used THEN "gone" ELSE "new"]

Life == INSTANCE Lifecycle WITH phase <- Phase, disputed <- clash

(* However the handlers interleave, each instance goes through its life in  *)
(* order: registered once and for all, routed, out of the registry, out of  *)
(* the table; a late heartbeat, health-check result, eviction or removal    *)
(* never takes it back (registry.go:89-118), and a registration that no     *)
(* other overlapped finds no other instance listed (handlers.go:312-327).   *)
FollowsLifecycle == Life!Spec

(* Handlers that are about to drop the routes of id. *)
Dropping(id) ==
    \E h \in Handlers : pc[h] \in {"evictRoutes", "removeRoutes"} /\ cur[h] = id

(* For a name whose registrations were never concurrent with each other or  *)
(* with an operator's removal, however removals by token, heartbeats and    *)
(* health checks interleave: registration replaces (at most one instance is *)
(* registered), and routes without a registered plugin exist only while the *)
(* handler that removed the entry is on its way to remove them.             *)
CleanReplacement ==
    \A n \in Names \ clash :
        /\ \A a, b \in IDsByName(n) : a = b
        /\ \A id \in Ids : Name(id) = n /\ Routed(id) /\ id \notin registered
                              => Dropping(id)

(***************************************************************************)
(* The inductive invariant behind RegisteredRouted and CleanReplacement.   *)
(***************************************************************************)
(* Steps of a registration that already has its new id. *)
OwnSteps == {"addRoutes", "addSpec", "readLen", "reply"}

(* A handler's id is a generated one, of the name it works on; so are the    *)
(* ids it has still to evict.                                                *)
LocalsMatch ==
    \A h \in Handlers :
        /\ pc[h] \notin {"idle", "evict"} => cur[h] \in used /\ Name(cur[h]) = nm[h]
        /\ pc[h] \in {"evict", "evictRoutes"} => \A id \in todo[h] : Name(id) = nm[h]

(* The routes about to be dropped are those of an id already deregistered. *)
DroppedAreGone ==
    \A h \in Handlers :
        pc[h] \in {"evictRoutes", "removeRoutes"} => cur[h] \notin registered

(* Only ids that were drawn have routes. *)
RoutesOfUsed == \A id \in Ids : Routed(id) => id \in used

(* Until its registration replies, an id belongs to one handler and its      *)
(* plugin has no token.                                                      *)
OwnIdPrivate ==
    /\ tokens \subseteq used
    /\ \A h \in Handlers : pc[h] \in OwnSteps =>
        /\ cur[h] \notin tokens
        /\ \A g \in Handlers : pc[g] \in OwnSteps /\ cur[g] = cur[h] => g = h

(* Without a clash: one registration at a time, which has seen every old     *)
(* instance, and whose new entry nobody is removing before its routes exist. *)
OneRegistration ==
    \A n \in Names \ clash : \A g, h \in Handlers :
        /\ pc[g] \in RegisterSteps /\ nm[g] = n
        /\ pc[h] \in RegisterSteps /\ nm[h] = n
        => g = h

EvictionComplete ==
    \A h \in Handlers : nm[h] \notin clash =>
        /\ pc[h] \in {"evict", "evictRoutes"} => IDsByName(nm[h]) \subseteq todo[h]
        /\ pc[h] \in OwnSteps => IDsByName(nm[h]) \subseteq {cur[h]}

NewEntryKept ==
    \A h \in Handlers : pc[h] = "addRoutes" /\ nm[h] \notin clash =>
        /\ cur[h] \in registered
        /\ \A g \in Handlers : pc[g] = "deregister" => cur[g] # cur[h]

(* With no call in progress the gauge is "Number of currently registered    *)
(* plugins." (metrics.go:38), whenever the last call had no other beside    *)
(* it: a stale value, left by two calls that read and set it across each    *)
(* other, never outlives the next call that runs alone.                     *)
GaugeExact == Quiet /\ ~company => gauge = Cardinality(registered)

(* While nobody works on a name, the injector holds the spec of its         *)
(* registered plugin if the manifest had one ("all registered plugin        *)
(* specs", http.go:106), unless two calls on that name overlapped and no    *)
(* registration has run alone since.                                        *)
DocsComplete ==
    \A id \in registered \intersect documented :
        Name(id) \in crossed \/ WorkedOn(Name(id)) \/ id \in specs

(* Behind GaugeExact: a call without company is the only one, and the size   *)
(* it has read is still the size of the registry.                            *)
GaugeInv ==
    ~company =>
        /\ \A g, h \in Handlers : ~Idle(g) /\ ~Idle(h) => g = h
        /\ \A h \in Handlers : pc[h] \in {"reply", "setGauge"}
                                 => len[h] = Cardinality(registered)
        /\ Quiet => gauge = Cardinality(registered)

(* Behind DocsComplete: on a name that was not crossed one handler works at  *)
(* a time; it leaves at most one instance, and a documented instance whose   *)
(* spec has been stored keeps it until its own removal.                      *)
OneCall ==
    \A n \in Names \ crossed : \A g, h \in Handlers :
        ~Idle(g) /\ nm[g] = n /\ ~Idle(h) /\ nm[h] = n => g = h

NotYetDocumented ==
    /\ documented \subseteq used
    /\ \A h \in Handlers : pc[h] \in {"addRoutes", "addSpec"} => cur[h] \notin documented

InstancesKnown ==
    /\ \A n \in Names \ crossed : ~WorkedOn(n) => \A a, b \in IDsByName(n) : a = b
    /\ \A h \in Handlers : nm[h] \notin crossed =>
        /\ pc[h] \in {"evict", "evictRoutes"} => IDsByName(nm[h]) \subseteq todo[h]
        /\ pc[h] \in OwnSteps \union {"deregister"} => IDsByName(nm[h]) \subseteq {cur[h]}
        /\ pc[h] \in DeregisterSteps \ {"deregister"} => IDsByName(nm[h]) = {}

SpecsKept ==
    /\ DocsComplete
    /\ \A h \in Handlers :
        nm[h] \notin crossed /\ pc[h] \in {"readLen", "reply"} /\ cur[h] \in documented
            => cur[h] \in specs

IndInv ==
    /\ TypeOK
    /\ LocalsMatch
    /\ DroppedAreGone
    /\ OwnIdPrivate
    /\ RegisteredRouted
    /\ RoutesOfUsed
    /\ OneRegistration
    /\ EvictionComplete
    /\ NewEntryKept
    /\ CleanReplacement
    /\ GaugeInv
    /\ OneCall
    /\ NotYetDocumented
    /\ InstancesKnown
    /\ SpecsKept

(* With no call in progress the routes of a name are served by an instance  *)
(* the registry knows: it is "the source of truth for routing"              *)
(* (registry.go:3).                                                         *)
RegistryRulesRouting ==
    Quiet => \A n \in Names : Served(n) \subseteq registered
=============================================================================
