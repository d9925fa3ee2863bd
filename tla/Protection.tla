----------------------------- MODULE Protection -----------------------------
(***************************************************************************)
(* The protection layers a proxied request goes through once a route has   *)
(* been matched (Dispatcher.Dispatch, internal/dispatcher/dispatcher.go):  *)
(* the liveness check, the bulkhead and the circuit breaker of             *)
(* internal/protection, and the health monitor that runs beside them.      *)
(*                                                                         *)
(* Each layer has its own mutex, held for one call.  Requests are          *)
(* goroutines; a plugin is a process of its own that may fail, recover or  *)
(* hang at any moment.  Layers that refuse a request before the bulkhead   *)
(* (firewall, permission, maintenance, rate limit) change nothing here.    *)
(***************************************************************************)
EXTENDS Naturals, FiniteSets

CONSTANTS
    Plugins,        \* registered plugin ids
    Requests,       \* goroutines serving a request (each serves many in turn)
    Kinds,          \* the request kinds clients send: "http", "ws"
    Threshold,      \* NewCircuitBreaker's threshold
    ResetTimeout,   \* ... and its resetTimeout, in ticks
    MaxConc         \* NewBulkhead's maxConcurrent

ASSUME ProtectionAssumption ==
    /\ Kinds \subseteq {"http", "ws"}
    /\ Threshold \in Nat \ {0}
    /\ ResetTimeout \in Nat
    /\ MaxConc \in Nat
    /\ IsFiniteSet(Requests)

VARIABLES
    cb,         \* CircuitBreaker.states
    failures,   \* CircuitBreaker.failures, which only its comparison with the
                \* threshold reads: saturated at Threshold
    age,        \* time.Since(lastFailure), only compared with resetTimeout:
                \* saturated at ResetTimeout + 1
    active,     \* Bulkhead.active
    alive,      \* PluginEntry.Alive
    up,         \* external: what the plugin process is like
    pc, tgt, kind, \* each request's position, plugin and kind
    reply,      \* what the client of a request got: "ok" (below 500), "error"
                \* (500 or above), "abort" (the response broke off)
    todo,       \* health monitor: the plugins this round has still to check
    verdict,    \* health monitor: the call that a probe's result has still to make
    forced,     \* ghost: a failed health check since the last success or reset
    streak      \* ghost: failures recorded since the last success or reset,
                \* saturated at Threshold

breaker == <<cb, failures, age>>
request == <<pc, tgt, kind, reply>>
monitor == <<todo, verdict>>
ghosts  == <<forced, streak>>
vars    == <<breaker, active, alive, up, request, monitor, ghosts>>

Min(a, b) == IF a < b THEN a ELSE b

(* The monitor has applied the result of its last probe. *)
BetweenProbes == \A p \in Plugins : verdict[p] = "none"

Init ==
    /\ cb = [p \in Plugins |-> "closed"]
    /\ failures = [p \in Plugins |-> 0]
    /\ age = [p \in Plugins |-> ResetTimeout + 1]
    /\ active = [p \in Plugins |-> 0]
    /\ alive = [p \in Plugins |-> TRUE]
    /\ up = [p \in Plugins |-> "well"]
    /\ pc = [r \in Requests |-> "idle"]
    /\ tgt \in [Requests -> Plugins]
    /\ kind \in [Requests -> Kinds]
    /\ reply = [r \in Requests |-> "ok"]
    /\ todo = {}
    /\ verdict = [p \in Plugins |-> "none"]
    /\ forced = {}
    /\ streak = [p \in Plugins |-> 0]

(***************************************************************************)
(* CircuitBreaker and Bulkhead: the calls that write                       *)
(***************************************************************************)
RecordSuccess(p) ==
    /\ failures' = [failures EXCEPT ![p] = 0]
    /\ cb' = [cb EXCEPT ![p] = "closed"]
    /\ UNCHANGED age

(* Mutant: the threshold is only reached one failure later. *)
RecordFailure_Late(p) ==
    /\ failures' = [failures EXCEPT ![p] = Min(@ + 1, Threshold)]
    /\ age' = [age EXCEPT ![p] = 0]
    /\ cb' = [cb EXCEPT ![p] = IF failures[p] + 1 > Threshold THEN "open" ELSE @]

RecordFailure(p) ==
    /\ failures' = [failures EXCEPT ![p] = Min(@ + 1, Threshold)]
    /\ age' = [age EXCEPT ![p] = 0]
    /\ cb' = [cb EXCEPT ![p] = IF failures[p] + 1 >= Threshold THEN "open" ELSE @]

ForceOpen(p) ==
    /\ cb' = [cb EXCEPT ![p] = "open"]
    /\ age' = [age EXCEPT ![p] = 0]
    /\ UNCHANGED failures

(* Mutant: an open breaker never lets a probe through. *)
Allowed_NoProbe(p) == cb[p] # "open"

(* Allow refuses while the breaker is open and its timeout is not over.     *)
Allowed(p) == cb[p] # "open" \/ age[p] > ResetTimeout

(***************************************************************************)
(* A request                                                               *)
(***************************************************************************)
(* A request arrives, its route matches plugin p, and reg.Get finds p alive. *)
Arrive(r, p, k) ==
    /\ pc[r] = "idle"
    /\ alive[p]
    /\ pc' = [pc EXCEPT ![r] = "bulkhead"]
    /\ tgt' = [tgt EXCEPT ![r] = p]
    /\ kind' = [kind EXCEPT ![r] = k]
    /\ UNCHANGED <<breaker, active, alive, up, reply, monitor, ghosts>>

(* Mutant: one slot too many. *)
Acquire_OffByOne(r) ==
    /\ pc[r] = "bulkhead"
    /\ active[tgt[r]] <= MaxConc
    /\ active' = [active EXCEPT ![tgt[r]] = @ + 1]
    /\ pc' = [pc EXCEPT ![r] = "breaker"]
    /\ UNCHANGED <<breaker, alive, up, tgt, kind, reply, monitor, ghosts>>

(* bh.Acquire *)
Acquire(r) ==
    /\ pc[r] = "bulkhead"
    /\ active[tgt[r]] < MaxConc
    /\ active' = [active EXCEPT ![tgt[r]] = @ + 1]
    /\ pc' = [pc EXCEPT ![r] = "breaker"]
    /\ UNCHANGED <<breaker, alive, up, tgt, kind, reply, monitor, ghosts>>

(* 503, "plugin busy" *)
Busy(r) ==
    /\ pc[r] = "bulkhead"
    /\ active[tgt[r]] >= MaxConc
    /\ pc' = [pc EXCEPT ![r] = "idle"]
    /\ UNCHANGED <<breaker, active, alive, up, tgt, kind, reply, monitor, ghosts>>

(* cb.Allow: an open breaker whose timeout is over becomes half-open. *)
Allow(r) ==
    /\ pc[r] = "breaker"
    /\ Allowed(tgt[r])
    /\ cb' = [cb EXCEPT ![tgt[r]] = IF @ = "open" THEN "half-open" ELSE @]
    /\ pc' = [pc EXCEPT ![r] = "proxy"]
    /\ UNCHANGED <<failures, age, active, alive, up, tgt, kind, reply, monitor,
                   forced, streak>>

(* Mutant: a request the breaker refuses keeps its slot (Release not deferred). *)
Refuse_KeepsSlot(r) ==
    /\ pc[r] = "breaker"
    /\ ~Allowed(tgt[r])
    /\ pc' = [pc EXCEPT ![r] = "idle"]
    /\ UNCHANGED <<breaker, active, alive, up, tgt, kind, reply, monitor, ghosts>>

(* Mutant: a request the breaker refuses waits for it, holding its slot. *)
Refuse_Waits(r) ==
    /\ pc[r] = "breaker"
    /\ ~Allowed(tgt[r])
    /\ UNCHANGED vars

(* 503, "service temporarily unavailable"; the deferred Release is next. *)
Refuse(r) ==
    /\ pc[r] = "breaker"
    /\ ~Allowed(tgt[r])
    /\ pc' = [pc EXCEPT ![r] = "release"]
    /\ UNCHANGED <<breaker, active, alive, up, tgt, kind, reply, monitor, ghosts>>

Answered(r, result) ==
    /\ pc[r] = "proxy"
    /\ reply' = [reply EXCEPT ![r] = result]
    /\ pc' = [pc EXCEPT ![r] = IF result = "abort" THEN "release" ELSE "record"]
    /\ UNCHANGED <<breaker, active, alive, up, tgt, kind, monitor, ghosts>>

(* The plugin answers, or cannot be reached ("error", the proxy's 502), or   *)
(* breaks off its response ("abort": ServeHTTP panics with ErrAbortHandler   *)
(* and only the deferred calls run).  A WebSocket that cannot be dialled is  *)
(* an "error" too; one that was piped ends "ok", once one side closes it.    *)
Answer(r) ==
    /\ up[tgt[r]] # "hung"
    /\ \E result \in {"ok", "error", "abort"} :
          /\ up[tgt[r]] = "well" => result = "ok"
          /\ kind[r] = "ws" => result # "abort"
          /\ Answered(r, result)

(* The client goes away first.  The cancelled round trip ends in the proxy's *)
(* 502, or in an abort when the response had begun; a WebSocket just ends.   *)
ClientLeaves(r) ==
    \E result \in {"ok", "error", "abort"} :
        /\ (kind[r] = "ws") <=> (result = "ok")
        /\ Answered(r, result)

(* After the proxy returns: RecordFailure for a status of 500 or above, else *)
(* RecordSuccess; always RecordSuccess after proxyWebSocket.                 *)
Record(r) ==
    /\ pc[r] = "record"
    /\ LET p == tgt[r] IN
          IF kind[r] = "http" /\ reply[r] = "error"
          THEN /\ RecordFailure(p)
               /\ streak' = [streak EXCEPT ![p] = Min(@ + 1, Threshold)]
               /\ UNCHANGED forced
          ELSE /\ RecordSuccess(p)
               /\ streak' = [streak EXCEPT ![p] = 0]
               /\ forced' = forced \ {p}
    /\ pc' = [pc EXCEPT ![r] = "release"]
    /\ UNCHANGED <<active, alive, up, tgt, kind, reply, monitor>>

(* The deferred bh.Release *)
Release(r) ==
    /\ pc[r] = "release"
    /\ active' = [active EXCEPT ![tgt[r]] = IF @ > 0 THEN @ - 1 ELSE @]
    /\ reply' = [reply EXCEPT ![r] = "ok"]
    /\ pc' = [pc EXCEPT ![r] = "idle"]
    /\ UNCHANGED <<breaker, alive, up, tgt, kind, monitor, forced, streak>>

(***************************************************************************)
(* The health monitor: one goroutine, one round of checks per interval     *)
(***************************************************************************)
(* checkAll reads the list of registered plugins. *)
CheckAll ==
    /\ todo = {} /\ BetweenProbes
    /\ todo' = Plugins
    /\ UNCHANGED <<breaker, active, alive, up, request, verdict, ghosts>>

(* The health endpoint answers 200, or something else, or not within 5 s. *)
Probe(p) ==
    /\ BetweenProbes
    /\ p \in todo
    /\ todo' = todo \ {p}
    /\ \E step \in {"heartbeat", "markDead"} :
          /\ up[p] = "well" => step = "heartbeat"
          /\ up[p] = "hung" => step = "markDead"
          /\ verdict' = [verdict EXCEPT ![p] = step]
    /\ UNCHANGED <<breaker, active, alive, up, request, ghosts>>

(* reg.Heartbeat *)
Healthy(p) ==
    /\ verdict[p] = "heartbeat"
    /\ alive' = [alive EXCEPT ![p] = TRUE]
    /\ verdict' = [verdict EXCEPT ![p] = "none"]
    /\ UNCHANGED <<breaker, active, up, request, todo, ghosts>>

(* reg.MarkDead, then cb.ForceOpen *)
MarkDead(p) ==
    /\ verdict[p] = "markDead"
    /\ alive' = [alive EXCEPT ![p] = FALSE]
    /\ verdict' = [verdict EXCEPT ![p] = "forceOpen"]
    /\ UNCHANGED <<breaker, active, up, request, todo, ghosts>>

Trip(p) ==
    /\ verdict[p] = "forceOpen"
    /\ ForceOpen(p)
    /\ forced' = forced \union {p}
    /\ verdict' = [verdict EXCEPT ![p] = "none"]
    /\ UNCHANGED <<active, alive, up, request, todo, streak>>

(***************************************************************************)
(* The plugin's own heartbeat, the operator's reset, time and the plugins  *)
(***************************************************************************)
Heartbeat(p) ==
    /\ alive' = [alive EXCEPT ![p] = TRUE]
    /\ UNCHANGED <<breaker, active, up, request, monitor, ghosts>>

(* resetBreaker: CircuitBreaker.Reset does what RecordSuccess does. *)
Reset(p) ==
    /\ RecordSuccess(p)
    /\ streak' = [streak EXCEPT ![p] = 0]
    /\ forced' = forced \ {p}
    /\ UNCHANGED <<active, alive, up, request, monitor>>

Tick ==
    /\ age' = [p \in Plugins |-> Min(age[p] + 1, ResetTimeout + 1)]
    /\ UNCHANGED <<cb, failures, active, alive, up, request, monitor, ghosts>>

(* external *)
PluginChanges(p) ==
    /\ \E u \in {"well", "sick", "hung"} : up' = [up EXCEPT ![p] = u]
    /\ UNCHANGED <<breaker, active, alive, request, monitor, ghosts>>

(* What Core itself does for a request, without the plugin and the client. *)
Serve(r) ==
    Acquire(r) \/ Busy(r) \/ Allow(r) \/ Refuse(r) \/ Record(r) \/ Release(r)

Check(p) == Probe(p) \/ Healthy(p) \/ MarkDead(p) \/ Trip(p)

Next ==
    \/ \E r \in Requests :
          \/ \E p \in Plugins, k \in Kinds : Arrive(r, p, k)
          \/ Serve(r) \/ Answer(r) \/ ClientLeaves(r)
    \/ CheckAll
    \/ \E p \in Plugins : Check(p) \/ Heartbeat(p) \/ Reset(p) \/ PluginChanges(p)
    \/ Tick

Spec == Init /\ [][Next]_vars

(***************************************************************************)
(* Fairness: goroutines run on, the monitor's ticker fires, time passes,   *)
(* and a plugin answers an HTTP request it is not hung on.  Nothing is     *)
(* assumed of WebSockets, which stay open for as long as both sides like   *)
(* (dispatcher.go:557-561), of plugins that hang now and then, or of       *)
(* clients leaving.  The last conjunct is about the clients: requests keep *)
(* coming.                                                                 *)
(***************************************************************************)
FairSpec ==
    /\ Spec
    /\ \A r \in Requests : WF_vars(Serve(r)) /\ WF_vars(kind[r] = "http" /\ Answer(r))
    /\ WF_vars(CheckAll)
    /\ \A p \in Plugins : WF_vars(Check(p))
    /\ WF_vars(Tick)
    /\ \A r \in Requests : WF_vars(\E p \in Plugins, k \in Kinds : Arrive(r, p, k))

(***************************************************************************)
(* Properties                                                              *)
(***************************************************************************)
(* Types; failures, ages and slots stay within their limits. *)
TypeOK ==
    /\ cb \in [Plugins -> {"closed", "open", "half-open"}]
    /\ failures \in [Plugins -> 0..Threshold]
    /\ age \in [Plugins -> 0..ResetTimeout + 1]
    /\ active \in [Plugins -> 0..MaxConc]
    /\ alive \in [Plugins -> BOOLEAN]
    /\ up \in [Plugins -> {"well", "sick", "hung"}]
    /\ pc \in [Requests -> {"idle", "bulkhead", "breaker", "proxy", "record", "release"}]
    /\ tgt \in [Requests -> Plugins]
    /\ kind \in [Requests -> Kinds]
    /\ reply \in [Requests -> {"ok", "error", "abort"}]
    /\ todo \subseteq Plugins
    /\ verdict \in [Plugins -> {"none", "heartbeat", "markDead", "forceOpen"}]
    /\ forced \subseteq Plugins
    /\ streak \in [Plugins -> 0..Threshold]

(* The requests between their Acquire and their Release. *)
Holders(p) ==
    {r \in Requests : tgt[r] = p /\ pc[r] \in {"breaker", "proxy", "record", "release"}}

(* The bulkhead counts exactly the requests that hold a slot of the plugin,  *)
(* at most MaxConc, on every path out of Dispatch: an answer, a refusal by   *)
(* the breaker, a client that left, a response that broke off                *)
(* (bulkhead.go:27-47, dispatcher.go:417-422).                               *)
BulkheadExact ==
    \A p \in Plugins : active[p] = Cardinality(Holders(p)) /\ active[p] <= MaxConc

(* The breaker is closed exactly while fewer than threshold consecutive      *)
(* failures, and no failed health check, were recorded since the last        *)
(* success or reset, whatever requests are in flight across the change       *)
(* (circuit_breaker.go:19-20, 31).                                           *)
BreakerExact ==
    \A p \in Plugins :
        cb[p] = "closed" <=> streak[p] < Threshold /\ p \notin forced

(* A call to the plugin: the round trip of an HTTP request, or a WebSocket   *)
(* that is open.                                                             *)
Calling(r, p) == pc[r] = "proxy" /\ tgt[r] = p

EveryoneWaits == \A r \in Requests : kind[r] = "http" => ~ClientLeaves(r)

(* A plugin that is well again gets its traffic back for good: once clients  *)
(* wait for their answers, and if no WebSocket keeps a slot for ever, it is  *)
(* alive and its breaker closed from some moment on ("they recover           *)
(* automatically when health returns", health_monitor.go:33).                *)
Recovers ==
    \A p \in Plugins :
        /\ <>[](up[p] = "well")
        /\ <>[][EveryoneWaits]_vars
        /\ \A r \in Requests : []<>~(Calling(r, p) /\ kind[r] = "ws")
        => <>[](alive[p] /\ cb[p] = "closed")

(* Core never keeps a slot: whatever the plugin, the clients, the breaker    *)
(* and the monitor do, there is room for a request again and again, unless a *)
(* call to the plugin never ends, which nothing in Core bounds (the deferred *)
(* Release of dispatcher.go:422 is the only way a slot is returned; :487 and *)
(* :557-561 wait for the other side).                                        *)
SlotsComeBack ==
    \A p \in Plugins :
        (\A r \in Requests : []<>~Calling(r, p)) => []<>(active[p] < MaxConc)
=============================================================================
