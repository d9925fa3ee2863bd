# TLA+ specifications of ApiCoreX

ApiCoreX is a stateless API gateway. Plugins (HTTP servers in any language)
register with it; it authenticates requests against the Identity plugin, routes
them, protects the plugins with rate limits, bulkheads and circuit breakers, and
proxies. All of its state is in memory, shared between the goroutines that serve
requests and control-plane calls, and protected by one mutex per structure that is
held for one call at a time. What is hard in this program lies between those
calls, and that is what these modules are about.

`PROJECT.json` lists the components, the runs, the mutants, the source lines
every definition stands for, the hazards, the findings and the theorems.

    tlc -config ControlPlane_concurrent.cfg MCControlPlane     # a run
    tlapm ControlPlaneProofs.tla                               # a proof

## The system

| Component | State | Operations | Shared with |
|---|---|---|---|
| Control plane (`internal/controlplane/handlers.go`) | none of its own | register, deregister, heartbeat, adminDeregister, setMaintenance, resetBreaker | registry, dispatcher, injector, gauge, breaker |
| Plugin tokens, dashboard sessions (`plugintoken.go`, `handlers.go`) | none (signed; 24 h, 12 h) | issue, verify, login, logout | control plane, `/docs`, the browser's cookie |
| Registry (`internal/registry`) | entries by id, `Alive`; maintenance windows by name | Register, Deregister, Heartbeat, MarkDead, SetMaintenance, MaintenanceFor, Maintenances | control plane, dispatcher, health monitor |
| OpenAPI injector (`internal/openapi`) | a spec per plugin name | AddRoutes, RemoveRoutes, MergedSpec | control plane, `/docs` |
| Dispatch table (`internal/dispatcher`) | a slice of route entries | AddRoutes, RemoveRoutes, match | control plane; requests keep a pointer into it |
| Dispatch (same file) | limiters per plugin id | firewall, match, authorisation, maintenance, rate limits, bulkhead, breaker, proxy, record | every structure below |
| Rate limiter (`internal/protection/ratelimiter.go`) | tokens and time last seen, per key | Allow, EvictIdle | Dispatch, the sweep goroutine |
| Bulkhead (`bulkhead.go`) | requests in flight per id | Acquire, Release | Dispatch |
| Circuit breaker (`circuit_breaker.go`) | state, failures, time of the last failure | Allow, RecordSuccess, RecordFailure, ForceOpen, Reset | Dispatch, health monitor, control plane |
| Health monitor (`health_monitor.go`) | none | one round of probes per interval | registry, breaker |
| Introspector, domain resolver (`internal/auth`) | verdicts with an expiry | Resolve, ResolvePlatform, ResolveDomain | authentication, custom domains |
| Middleware chain (`server/`, `internal/middleware`) | the request's context | strip, rewrite, classify, authenticate, compare tenants, dispatch | dispatch table, registry |
| Navigation (`internal/dispatcher/nav.go`) | none | buildNav, encodeNav | registry, Dispatch |
| On-demand TLS (`server/ondemand.go`) | none | askHandler | domain resolver |
| Process (`cmd/apicorex/main.go`) | a group of five goroutines | start, signal, drain, exit | both servers, health monitor, sweep |
| Configuration (`internal/config`) | limits, per-plugin overrides | For, withDefaults | dispatcher |

What makes each of them correct:

* **control plane**: registry, dispatch table, docs and gauge tell the same story;
  a registration replaces the previous instance; a removed id stays removed;
* **protection**: slots are counted exactly on every way out of `Dispatch`, the
  breaker follows what was recorded, Core itself keeps no slot, and a plugin that is well
  gets its traffic back;
* **caches**: a verdict that was overruled is not told for longer than the window;
* **maintenance**: a window is there for as long as its opener was told, and nobody
  sets out for the plugin while it is;
* **rate limits**: no interval sees more than burst plus refill, and the sweep of
  idle tenants cannot be noticed;
* **chain**: what reaches a plugin is authorised and carries headers Core derived;
* **dispatch table**: it is an ordered list, a later plugin takes no path over, and a
  request in flight goes on reading the entry it matched;
* **process**: a shutdown ends, cuts no request off before the grace period is over and
  does not pass over a listener that failed;
* **pages**: a menu does not reorder itself, the merged documents leave no path out, and
  a session lasts as long as its cookie.

The behaviours that are hard to test: a handler is four to eight critical sections
long and any other handler may run between two of them; requests, health probes
and results of introspection are applied after the state they were computed from
has changed; a plugin may hang, break off a response or fail between any two steps;
`match` hands out a pointer that outlives its lock. `PROJECT.json`, `hazards`, has
each of them at its line.

## The modules

| Module | Models | Run from | Proofs |
|---|---|---|---|
| `Lifecycle` | abstract: the life of a plugin's instances | instantiated by `ControlPlane` | - |
| `ControlPlane` | handlers, registry, table, injector, gauge, tokens | `MCControlPlane` | `ControlPlaneProofs` |
| `Protection` | Dispatch from `reg.Get` on, bulkhead, breaker, health monitor | `MCProtection` | `ProtectionProofs` |
| `VerdictCache` | introspector, domain resolver and the on-demand TLS answer | `MCVerdictCache` | `GatewayProofs` |
| `Maintenance` | maintenance windows and the check in Dispatch | `MCMaintenance` | `MaintenanceProofs` |
| `RateLimiter` | limits of one plugin, its buckets, the sweep | `MCRateLimiter` | `RateLimiterProofs` |
| `Gateway` | the middleware chain up to the protection layers | `MCGateway` | `GatewayProofs` |
| `RouteTable` | abstract: the ordered list of routes | instantiated by `SliceTable` | - |
| `SliceTable` | the slice, its backing arrays, matching, requests with pointers into them | `MCSliceTable` | `SliceTableProofs` |
| `Shutdown` | the process: servers, monitor, sweep, drain, exit | `MCShutdown` | `ShutdownProofs` |
| `Menu`, `ApiDocs` | operators: `buildNav` and `permMatch`; `MergedSpec` | extended by `Pages` | `PagesProofs` |
| `Pages` | page loads and dashboard sessions while plugins come and go | `MCPages` | `PagesProofs` |

The `MC` modules hold instances and symmetry sets only. A definition whose name has
a suffix (`Heartbeat_Unchecked`) is a mutant: a plausible bug, defined in front of the
definition it would replace and used by no specification.

### ControlPlane

One action per critical section of a handler. `pc[h]` is where the goroutine `h`
is, `nm`, `todo`, `cur` and `len` are its locals. `register` is `RegisterStart`
(read the ids to evict), `EvictDeregister`/`EvictRemoveRoutes` in a loop over that
snapshot, `RegisterEntry`, `AddRoutes`, `AddSpec`, `ReadLen`, `Reply`; `deregister` and
`adminDeregister` differ in who may call them and are the same from `reg.Get` on.
Heartbeats and `MarkDead` may name an id that was evicted meanwhile, because the
health monitor works through a list it took earlier.

Abstractions. An instance's routes are one block (`added[id]` is its rank in the
table); that they are really one contiguous run is what `SliceTable` shows. A request refused
before its first shared access is a stuttering step. `uuid.New()` is taken to be
fresh: an id is drawn once. After a successful pull `url.Parse` cannot fail, so the
early return of `register` after the eviction is not an action. `Alive` is written
under the registry's mutex and read outside it in `Dispatch`; the model reads it in
one step.

`Restart` may happen at any point of any call: everything is in memory and starts empty,
while the plugins keep their ids and tokens, which verify as before.

Three ghosts say what has overlapped, because some properties hold only without it:
`clash` has the names on which a registration overlapped with another one or with an
operator's removal, `crossed` those on which any two calls did (until a registration
takes the name over alone), and `company` is whether the calls since the last quiet
moment were more than one.

`Lifecycle` says what all this is for: an instance is registered once, gets its routes,
leaves the registry and loses its routes, in this order, and an undisputed registration
finds no other instance of its name listed. `FollowsLifecycle` is its specification with
`phase <- Phase` (read off the registry, the table and the ids in use) and
`disputed <- clash`; every other step of the handlers, the tokens, the documents and
the gauge among them, is a stutter or a `Dispute`.

### Protection

A request goes `Arrive` - `Acquire` or `Busy` - `Allow` or `Refuse` - `Answer` or
`ClientLeaves` - `Record` - `Release`. A response that breaks off makes `ServeHTTP`
panic, so that only the deferred `Release` runs. The monitor's verdict on a plugin is
applied in one or two calls (`Healthy`; `MarkDead` then `Trip`). `up[p]` is external:
the plugin process is well, sick or hung and changes at any moment. Counters that the
code only compares with a constant are saturated at it (`failures`, `age`), which
makes the state space finite without a bound on the runs. The ghosts `streak` and
`forced` count what was recorded independently of the breaker's own variables. The
keys of bulkhead and breaker are taken to be those of the matched entry; what the
pointer does to them is in `SliceTable`.

### VerdictCache

Three lookups with one shape: look under the lock (`Miss`; a hit changes nothing),
ask without the lock (`Answer` is the moment Identity computes the verdict), store
under the lock (`Store`). `Change` is the external event that makes the verdict
another one. `askHandler` is what the on-demand TLS listener makes of a lookup's
outcome. Keys of the introspector and the resolver are disjoint sets, and no action relates two
keys, so one key of each kind shows what there is to see. `CacheTick` stops while a fetch
is as old as the client's timeout: the fetch must end first.

### Maintenance

`MaintenanceFor` copies the window under the read lock (`Read`), judges the copy against
the clock without a lock (`Judge`) and deletes an expired one under the write lock
(`Drop`); `Maintenances` does the same for every name it has listed. `Duration` is the code's int64 product in two's complement, with the range
scaled down to `HalfRange`. `promised` is a ghost: what the opener was told and has
not elapsed.

### RateLimiter

The limiters of one registered instance: `Limits` computes what `AddRoutes` passes to
`NewRateLimiter` from the configuration, `Allow` is the bucket, and a request takes
the plugin's token and the tenant's in two separate steps. A re-registration draws a new
id and with it new limiters, so one instance suffices. float64 tokens are counted in
integer units (`Unit` to a token), chosen so that the division by ten is exact;
rounding of floats is not modelled. `MaxTime` bounds the clock. `Observe` restarts
the ghost count at any moment, so `WithinBudget` is a statement about every
interval.

### Gateway

One action per middleware, on a record with what the chain puts into the request.
Plugins come and go between any two steps (`RouteChanges`, `SurfaceChanges`).
A path is a sequence of segments; permissions are abstracted to whether
`PermissionAllowed` holds; the parsing of `PRODUCT_HOSTS` is represented by its
result, and surfaces are assumed to have a non-empty prefix.

`match` returns a pointer and gives up its lock, and both its callers in the chain go on
reading through it: `IsPublic` the field `public` (`Split`, `IsPublic`), `Dispatch` first
`public` and `permission` (`Match`, `Authorize` or `Forbid`), later `pluginID` (`Forward` or
`TurnAway`). Between the match and each read a compaction or an append may write another
entry into the cell (`CellWritten`). `entry` has the kinds of all entries that have been in
it since the match, and a read gives any of them: the readers are not synchronised with the
writers, so different fields may be of different entries. Since the set only grows, the
reads of one condition can be one step. `split` is what the split read, `kind` the kind of
the entry whose `pluginID` was read, and `torn` is a ghost: the cell was written since the
match. A permission read from a written cell may be one the caller has or one it has not.

### SliceTable and RouteTable

`heap` holds every backing array, in the order of allocation; `d.routes` is the first
`len` cells of the newest. An instance may leave the registry before its routes are added
(`ousted`), which is how the routes of the finding `orphan_routes` get into the table. `Compact` writes the kept entries to the front of the same
array and leaves the tail, `AppendEntry` writes in place while there is room and else
copies into an array of twice the size. A request keeps `arr` and `pos`, and
`Entry(r)` reads the cell as it is now at each step that reads `entry.` in the code:
`reg.Get`, `Acquire`, the argument of the deferred `Release`, the recording. A read that
races with a compaction sees the value before or after it; torn reads are possible in
the build and no property depends on excluding them. `RouteTable` is the list without
arrays, and `IsRouteList` says that `SliceTable` implements it with
`table <- Routes`. Patterns are sequences of segments: `PatternMatch` is the match with
parameters, `WildcardMatch` the prefix match of a pattern that ends in `/*`, where
`Extends` says which segments begin with which.

### Shutdown

The five goroutines of `main`'s errgroup and the requests in flight. `ServerClosed` is
`ListenAndServe` returning as soon as `Shutdown` is called; `Drained` and `DrainTimeout`
are the two ends of `Shutdown` itself. A round of health checks runs under the group's
context, so a shutdown makes its remaining probes fail (`Probe`). `piped` requests are
WebSockets, which `http.Server` no longer counts. Of `Dispatch` there is only what the
monitor can change under a request: the entry's `Alive` flag and the breaker. Which plugins
answer is fixed during a behaviour. A deployment without `ONDEMAND_TLS_ADDR` is among the
initial states.

### Menu, ApiDocs and Pages

`Menu` and `ApiDocs` are pure: who sees which entries in which order, and what the merged
document says. Names and groups are numbers, for their order as strings; the header's
limit counts entries where the code counts bytes; a document says of a path who declared
it. A menu entry is the item it was made of. `sorted` is `sort.SliceStable` by its contract:
`Before` is the comparison, with the order of arrival (`Earlier`) between entries that
compare equal, and an entry's `Place` is told by the number of entries before it. `Pages` puts them between a registry
and an injector that change through their own operations in any order, which includes
whatever the control plane's handlers do. A page load takes the list in one step, in any
order (a map iteration), and reads each entry's `Alive` in a later one, as `buildNav` does.
A session's token expires on a whole second (`left`, relative to the current one), its
cookie on the tick; the login's answer may be `Delay` ticks on its way. The browser is
open on a panel or on the dashboard, chosen in `Init`: no property relates the two, and
the store that a browser's pages do not depend on stays still.

## What the runs show

| Run | Shows | Instance |
|---|---|---|
| `control_plane` | `RegisteredRouted`, `CleanReplacement`, `FollowsLifecycle` (refinement of `Lifecycle`), `GaugeExact`, `DocsComplete` with concurrent handlers and restarts | 1 name, 3 ids, 2 handlers |
| `orphan_routes` | *violation*: a registration overtaken by an operator's removal leaves routes of an unregistered id | 1 name, 2 ids, 2 handlers |
| `protection_layers` | `BulkheadExact`, `BreakerExact`; `Recovers` and `SlotsComeBack` under `FairSpec` | 1 plugin, 2 requests, both kinds, limit 1, threshold 2 |
| `verdict_window` | `RevocationWindow`, `NoStrayCertificate` | a token, a host, 2 callers, TTL 2, timeout 1 |
| `maintenance` | `LostOnlyToLateDrop`, `NoEntryInWindow`, and in `TypeOK` that no window exceeds the maximum | 2 names, 2 goroutines, durations with zero, the maximum, above it and wrapping |
| `window_lost` | *violation*: a new window is deleted in place of the expired one | 1 name, 2 goroutines |
| `rate_budget` | `WithinBudget`, `NothingWiped` | 2 tenants, 2 requests, rates of 1 and 1/2 per tick, 4 ticks |
| `middleware_chain` | `Authorised`, `HeadersTrusted`, `TenantOfHost` | 1 request, 4 hosts, 4 paths, 2 tenants, 2 surfaces, a path with routes of every kind and one with a public route |
| `route_table` | `IsRouteList`, `SteadyWithoutRemovals`, `ExactFirst`, `NoTakeover` | 3 instances with 1 and 2 routes, 4 queries, 2 requests |
| `slot_lost` | *violation*: a bulkhead slot is given back to another plugin | 2 plugins, 1 request |
| `shutdown` | `CutOnlyAfterGrace`, `NoFalseAlarm`; `Exits` and `FailureReported` under `FairSpec` | 2 plugins, 1 request, grace of 2 ticks |
| `pages` | `MenuSteady`, `WiderSeesMore`, `DocsFaithful`, `CookieOpens`, `SessionsLapse` | 3 instances of 2 plugins, 2 callers, a session of 2 s in ticks of 1/2 s |

Why the bounds are enough. Three ids of a name are needed for an instance, its
replacement and one that overlaps with it; two handlers for every pairwise
interleaving. The threshold of 2 tells "one failure" from "the last failure"; a limit
of 1 with two requests makes one of them wait, and the proof has every limit. A TTL of 2 and a timeout of 1 give a
state in which a stale answer is stored over a fresh one and then ages. Four ticks let
a tenant's bucket empty, refill and be swept (maxIdle is 2). In `Gateway` requests
share the routes only, which change freely, so one request meets every environment
that others could make. Arrays of 1, 2 and 4 cells are each filled, compacted and
left behind. In `Shutdown` a plugin that hangs needs a neighbour to harm; requests meet only
in the drain, which waits for all. In `Pages` two versions of one plugin and another one
are the least that lets a name clash, a manifest change and a third party come between two
page loads; the menus have five, four and fewer entries around a limit of four. Half-second
ticks tell the second a token expires in from the instant its cookie does, and a delay of
two ticks is longer than the difference. For everything but liveness, the theorems below
remove these bounds. Symmetry is used where processes are interchangeable and no liveness is
checked: goroutines and the random suffixes of the ids (except the one that idle locals hold)
in `ControlPlane`, requests in `Maintenance` and `SliceTable`, callers in `VerdictCache`, and
requests and tenants in `RateLimiter`.

Deadlock is checked except in `SliceTable`, where an id is used once, so that a behaviour of
a finite instance ends. In `Shutdown` the process ends in `Terminated`.

### Fairness

`Protection`'s `FairSpec` has weak fairness on Core's own steps for a request (`Serve`), on
the monitor's steps and on the clock (goroutines run, the ticker fires, time passes), on
the answer to an HTTP request while its plugin is not hung, and on arrivals: a half-open
breaker is closed by a request, so a plugin nobody calls stays half-open or open. Nothing is
assumed of WebSockets, which `proxyWebSocket` pipes until one side closes, nor of a plugin
that hangs again and again. `Recovers` is stated for behaviours in which the plugin is well
from some moment on, clients then wait for their answers, because a client that leaves makes
the proxy answer 502, which the breaker counts against the plugin, and no WebSocket stays
open for ever, because with as many as the bulkhead's limit no request gets through to close
the breaker. `SlotsComeBack` needs of the outside only that no call to the plugin lasts for
ever, and says that then Core does not lose a slot. A call that does, to a hung plugin or over
an open WebSocket, keeps its slot: nothing in the code bounds it. With any one of these
premises left out TLC finds a counterexample.

`Shutdown`'s `FairSpec` has weak fairness on every step of a goroutine and on the clock, and
strong fairness on the monitor's return: `select` picks among ready cases at random, so a
cancelled context is chosen sooner or later however often the ticker is due as well.
Nothing is assumed of clients, requests or signals.

### Findings

Each violation run is a disagreement between the code and what it says of itself.

* `orphan_routes`: an operator removes an entry that is between its `reg.Register` and its
  `disp.AddRoutes`. The removal finds no routes yet, and the registration adds them for an
  id that is no longer registered. No later call removes them. The theorem
  `RegistrationReplaces` delimits the finding: it takes an operator's removal during a
  registration, as in TLC's trace, or a second registration of the name that evicts the
  entry in the same place.
* `window_lost`: `MaintenanceFor` decides under the read lock and deletes under the
  write lock without looking again. `WindowsLostOnlyToLateDrop` shows it is the only
  way to lose a window.
* `slot_lost`: the pointer `match` returns goes into an array that `RemoveRoutes`
  compacts; the key of `Acquire` and that of `Release` may differ.
  `SteadyWithoutRemovals` shows that registrations alone never do this.

### Differences

Other places where a comment or a document says something else than the code does.
The models follow the code; these have no run of their own.

| Code | Says | Does |
|---|---|---|
| `handlers.go:315` | re-registration replaces (`:313`) | two overlapping registrations both stay registered |
| `handlers.go:332` | the gauge is the number of registered plugins | overlapping calls may set it in the wrong order |
| `handlers.go:378` | the docs have every registered plugin's spec | a removal that overlaps a re-registration deletes the new spec, being by name |
| `injector.go:28` | the docs describe the registered plugins | a re-registration without a spec keeps the old one |
| `circuit_breaker.go:57` | half-open admits one probe (`:44`) | admits every request until one is recorded |
| `circuit_breaker.go:67` | open rejects until the timeout (`:32`) | a success admitted before the trip closes it at once |
| `dispatcher.go:480` | outcomes are recorded | a WebSocket that cannot be dialled is recorded as a success |
| `dispatcher.go:487` | `request_timeout`: upstream timeout (`config.example.yaml:17`) | it is applied nowhere: a hung plugin keeps its slots |
| `introspect.go:136` | a verdict is stale for at most the TTL (`:33`) | TTL plus the time of one fetch |
| `maintenance.go:68` | no request runs during a migration (`:11`) | requests admitted before the window go on in it |
| `handlers.go:138` | an excessive duration is clamped (`maintenance.go:51`) | one that overflows may become a shorter window |
| `dispatcher.go:399` | a tenant cannot starve the others (`config.go:19`) | its refused requests still spend the plugin's tokens |
| `ratelimiter.go:85` | no bucket is wiped in use (`main.go:96`) | one that takes longer than maxIdle to refill is |
| `health_monitor.go:53` | unhealthy plugins are marked dead (`:32`) | a shutdown cancels the probes of a round, and well plugins are marked dead: requests being drained that have not passed `reg.Get` and the breaker are refused |
| `main.go:111` | deferred calls flush the traces | a drain that times out ends in `log.Fatalf`, which runs none |
| `circuit_breaker.go:75` | a failed probe opens the breaker again | not when the monitor forced it open and the failures are fewer than the threshold: it stays half-open and admits everything |
| `dispatcher.go:257` | only declared routes are proxied (`PLUGIN_GUIDE.md:57`) | `/bill/*` also covers `/billing`; a `:param` in front of `/*` is taken literally |
| `plugintoken.go:42` | a token names its plugin | a plugin whose name has a dot gets a token that never verifies |
| `nav.go:110` | the menu is stable | with two instances of one name registered (an overlap, above) their entries may change places |
| `manifest.go:89` | entries sort by Group, then Sort | by GroupSort first, which is each item's: a group whose items disagree on it falls apart |
| `injector.go:44` | the first plugin's spec is the base | Core's is; a plugin that documents one of Core's paths replaces Core's text |
| `injector.go:85` | the merged docs have all plugins' specs (`http.go:106`) | a path that two documents declare keeps the operations of one of them, also when their methods differ |
| `dispatcher.go:242` | safe for concurrent use (`:47`) | after a compaction a matched request may be authorised by one entry and served by the plugin of another, with the schema of the plugin name read first |
| `dispatcher.go:358` | claims are present for protected routes (`:355-357`) | a route that was public at the split and is not at the dispatch is reached without an identity if it names no permission |
| `tenant.go:130` | plugins never see `X-Acting-User` (`auth.go:36-39`) | without an identity `InjectTenantHeaders` returns before it deletes the header: on a public route it gets through as the client sent it |
| `circuit_breaker.go:86` | after a reset the next failed request opens the breaker again (`:82-85`) | the count was cleared as well, so it takes threshold failures |
| `nav.go:83` | the menu has what the caller may open (`:56`) | a platform admin, whom `authorized` lets through everywhere (`dispatcher.go:320`), sees only what the permissions it holds allow |

## What is proved

The theorems hold for every value of the constants, from the named assumptions of the
component's module only, except where stated.

* **ControlPlane** (`ConstantsAssumption`: names and suffixes are finite, non-empty sets).
  `RegisteredRouted` is inductive only with `DroppedAreGone`: whoever is about to drop
  routes has already deregistered their id. `CleanReplacement` needs, for names without a clash,
  that there is one registration at a time (`OneRegistration`), that its snapshot has
  every registered id of the name (`EvictionComplete`), that its new entry stays until
  it has routes (`NewEntryKept`), and for this that the new id has no token before the
  reply (`OwnIdPrivate`). `IndInv` is their conjunction; one lemma per conjunct, one step
  per action. `GaugeExact` needs that a call without company is the only one (`OneCall`)
  and what it has read (`GaugeInv`); `DocsComplete` that a spec stays until the name is worked on again
  (`SpecsKept`, `NotYetDocumented`). `HandlersFollowLifecycle` is the refinement of
  `Lifecycle`, step by step: an action moves one instance (`OnlyOneMoves`) or none
  (`NobodyMoves`). That routes are only added to an entry that is still listed, and only
  taken from one that is not, are `NewEntryKept` and `DroppedAreGone`; that a registration
  without a clash meets no other listed instance is `EvictionComplete` with an empty
  snapshot; and `RoutesOfUsed`, that only ids in use have routes, keeps a new id new.
* **Protection** (`ProtectionAssumption`). `BulkheadExact` is proved with types, by the
  cardinality of `Holders`, which each action changes by one element or not at all.
  `BreakerExact` is inductive together with `failures = streak`.
* **SliceTable** (`TableAssumption`: requests are finitely many and manifests are sequences
  of routes). `IndInv` has the arrays' shape, `SliceOwned` (what the slice holds belongs to
  instances that have routes), `PointersGood` (a request points to a written cell, within
  the slice if nothing was removed under it) and `EntriesSteady`. `AdditionsDisturbNobody`
  also needs `SlotsCounted`, where the counter is the cardinality of `Holders`.
  `SliceIsRouteList` shows every step to be a step of `RouteTable` or a stutter: the
  compaction leaves what `Without` computes and the appends what `\o` does, for any number
  of routes. `ExactRouteWins` and `NobodyIsTakenOver` are action properties of `MatchIndex`
  and of those two facts.
* **Sessions in Pages** (`SessionAssumption`). A token that verifies is as old as its expiry says, give or take the part of a
  second it was issued in (`Dated`); a token in flight is no older than `Delay`; and while
  there is a cookie, its time left and the token's age stay within TTL plus `Delay`
  (`SessionInv`). `CookiesOpen` and `SessionsEnd` follow, for every TTL, resolution and delay.
* **Documents in Pages** (`DocsAssumption`, `PluginsAssumption`: plugins declare their
  documents, and Core's repeats no requirement). `DocsAreFaithful`: each turn of `MergedSpec`'s loop keeps the text faithful
  to the documents read so far (`OneMerged`, `AllMerged`), and
  `mergeSecurityRequirements` keeps every requirement of both sides once
  (`RequirementsMerged`). The invariant of the state machine adds that finitely many
  documents are stored, all of plugins.
* **Menus in Pages** (`MenuAssumption`: manifests are sequences, and what is compared are
  numbers). The comparison of four numbers and the order of arrival make a strict total order
  of the entries collected (`LessOrder`, `EarlierOrder`, `BeforeOrder`), so the places are one
  for each entry and fill the list (`PlaceFacts`, by `FS_Injection`), and the list has every
  entry once, in this order (`SortedFacts`). That two page loads agree is a statement about
  different lists in different orders. The only number that depends on the list is `sortOf`,
  which looks its entry up by plugin name and key: when one listed instance has the name, the
  lookup stays within that instance's manifest (`ClearName`, `KeyIsOwn`), and so does the order
  of arrival (`OrderIsOwn`). The invariant `PanelInv` says that the menu shown was built from
  some list of registered instances, of those found alive on it (`Built`), and that an instance
  is alive only while it is registered or held by a page load. `MenuIsSteady`,
  `WiderGrantsSeeMore` and, with the sessions' invariant, `PagesTypeCorrect` follow.
* **VerdictCache** (`CacheAssumption`). An answer was true no longer ago than its fetch
  is old (`ResponsesRecent`); an entry was an answer when it was stored, so it is older by
  at most the timeout (`EntriesRecent`). Since `CacheTick` keeps fetches within the timeout,
  `RevocationWindow` follows, and `NoStrayCertificate` from it.
* **Maintenance** (`MaintenanceAssumption`). While a promise lasts the window is there
  with the same time left, or its name is in `raced`; a goroutine about to delete either
  saw this name without a promise or is the reason it is in `raced`. `NoEntryInWindow` is
  an action property from the same invariant.
* **RateLimiter** (`LimitAssumption`). `WithinBudget` follows from a stronger bound: what
  was handed out plus what the bucket would hold now is within burst plus refill.
  Sweeping keeps it only if a swept bucket is full, so `BudgetHolds` and
  `SweepIsInvisible` have the hypothesis `SweepIsSafe` (tenant rate times maxIdle reaches
  the tenant burst). The code does not check its configuration for it.
* **Gateway** (`HostAssumption`: a host is a product host or a custom domain, not both).
  `IndInv` says for each stage of the chain where the path can be (`Located`), what
  the prefix header says of it (`PrefixTold`), whose tenant the header is (`TenantTold`)
  and what the classification still guarantees (`Classified`): a request without an identity
  was read to be public by the split; and while the cell is not written, all reads since the
  match give one entry, for which the request has been authorised once it is past
  `Authorize`. The proof covers `AuthEnabled = FALSE`, any number of requests and routes of
  any kind on any path, which the run does not.
* **Shutdown** (`ShutdownAssumption`). `CutOnlyAfterGrace` is inductive with: a drain is done
  only when nothing was active, after which nothing arrives, or when the grace was over and
  the group keeps an error. `NoFalseAlarm` needs that a bad verdict on a well plugin was
  reached after the cancellation.

`GatewayProofs` has the proofs about `VerdictCache` too; it extends both modules, which is why
names of `VerdictCache` and of its lemmas begin with `Cache`.

Loops over routes, documents and requirements are recursive functions, and the proofs about
them are by induction on how much was read. The library's induction rule takes a predicate
as a parameter, which the provers cannot instantiate; the lemma `Induction` is stated for a
set of numbers instead and follows from the well-foundedness of the natural numbers
(`WFMin`). That the loop's function exists is an induction of the same kind.

Every invariant and every action property of the passing runs is stated by a theorem, and so
are both refinements. Only model-checked: `Recovers`, `SlotsComeBack`, `Exits` and
`FailureReported`, because liveness under fairness is out of the prover's reach; and the
violations, which are counterexamples. The tenth of the budget for public plugins is covered
by the proof and by no run.

## Not modelled

* Text: token formats and signatures, HTTP bodies, header wording, the normalisation of
  host names, the parsing of `PRODUCT_HOSTS`.
* Tenant schema names: a pure function on identifiers with a SHA-256 digest, of which a
  model could only assume what there is to show (that digests differ).
* What the reverse proxy does to headers after `Dispatch` has injected them, and the headers
  a WebSocket's dial passes on.
* Pure I/O: the bytes proxied, TLS, CORS headers, logging, tracing, metrics other than the
  gauge set from shared state, static files and the dashboard's user interface.
* `IsBodyTooLarge` and the manifest's `public_paths`, which the server never uses.
* The ask server's own connections at the exit: the goroutine that shuts it down is not
  waited for, so a question may go unanswered; the proxy asks again.

## Plan

Done, in this order: `ControlPlane`, `Protection`, `VerdictCache`, `Maintenance`,
`RateLimiter`, `Gateway`, `RouteTable`/`SliceTable`, `Shutdown`, `Menu`/`ApiDocs`/`Pages`,
`Lifecycle`, and proofs for all of them. Next:

1. a composition of `ControlPlane` and `Protection`: requests in flight across a
   re-registration, with the state the old id leaves in breaker and bulkhead;
2. the writers of `SliceTable` as an implementation of `Lifecycle`, which would tie the two
   models of the dispatch table together: ids there have no names, on which `Lifecycle`'s
   rule of replacement depends.
