---------------------------- MODULE RateLimiter ----------------------------
(***************************************************************************)
(* The token buckets in front of one registered plugin instance: the       *)
(* plugin-wide bucket, one bucket per tenant, the two checks a request     *)
(* passes in Dispatch and the goroutine that sweeps idle tenants.          *)
(*                                                                         *)
(* Source: internal/protection/ratelimiter.go, internal/config/config.go,  *)
(* internal/dispatcher/dispatcher.go (AddRoutes, RemoveRoutes, Dispatch    *)
(* layer 2, RunTenantLimiterSweep).                                        *)
(*                                                                         *)
(* Tokens are float64 in the code.  Here they are counted in units, Unit   *)
(* of them to a token, so that a rate below one token per tick and the     *)
(* division by ten for public plugins stay exact.                          *)
(***************************************************************************)
EXTENDS Integers

CONSTANTS
  Tenants,       \* tenants that call the plugin
  NoTenant,      \* a request without an identity, or whose identity has no tenant
  Requests,      \* requests that can be between the two checks at a time
  Unit,          \* units in one token
  Default,       \* config.Default: a record of limits
  Override,      \* config.Plugins[pluginName], or NoOverride
  NoOverride,
  PluginType,    \* "public" or "internal", from the manifest
  MaxIdle,       \* maxIdle of the sweep, in ticks
  MaxTime        \* bound: the clock stops here

----------------------------------------------------------------------------
(* Configuration: which rates the plugin gets                              *)

\* A zero field of an override means "not set".
WithDefaults(l, def) ==
  [f \in DOMAIN def |-> IF l[f] = 0 THEN def[f] ELSE l[f]]

\* Config.For
For == IF Override = NoOverride THEN Default ELSE WithDefaults(Override, Default)

\* AddRoutes: a public plugin without an override gets a tenth.
Limits ==
  IF PluginType = "public" /\ Override = NoOverride
    THEN [f \in DOMAIN For |-> For[f] \div 10]
    ELSE For

\* The plugin has a per-tenant limiter only when a tenant rate is configured.
TenantLimited == For.tenantRate > 0

Keys == {"plugin"} \cup Tenants
Rate(k)  == IF k = "plugin" THEN Limits.rate ELSE Limits.tenantRate
Burst(k) == IF k = "plugin" THEN Limits.burst ELSE Limits.tenantBurst

LimitRecords == [rate : Nat, burst : Nat, tenantRate : Nat, tenantBurst : Nat]

\* Scaling by ten is exact in the units chosen.
ASSUME LimitAssumption ==
  /\ Unit \in Nat \ {0} /\ MaxIdle \in Nat /\ MaxTime \in Nat
  /\ Default \in LimitRecords
  /\ NoOverride \notin LimitRecords
  /\ Override \in LimitRecords \cup {NoOverride}
  /\ "plugin" \notin Tenants /\ NoTenant \notin Tenants /\ NoTenant # "plugin"
  /\ \A f \in DOMAIN Default : Default[f] % 10 = 0

\* A bucket idle for MaxIdle is full, so that forgetting it loses nothing.
SweepIsSafe == Limits.tenantRate * MaxIdle >= Limits.tenantBurst

----------------------------------------------------------------------------
VARIABLES
  bucket,   \* RateLimiter.tokens and .lastSeen of both limiters, by key
  present,  \* pluginRL and tenantRL have an entry for the plugin
  req,      \* where each request is in Dispatch, and for which tenant
  now,      \* the clock
  start,    \* ghost: where the observed interval began
  passed    \* ghost: tokens taken from each bucket in the observed interval

vars == <<bucket, present, req, now, start, passed>>

Absent == [tokens |-> 0, last |-> -1]
Outcomes == {"admitted", "rate_limit", "tenant_rate_limit"}

Init ==
  /\ bucket = [k \in Keys |-> Absent]
  /\ present = TRUE
  /\ req = [r \in Requests |-> [at |-> "admitted", tenant |-> NoTenant]]
  /\ now = 0
  /\ start = 0
  /\ passed = [k \in Keys |-> 0]

Smaller(a, b) == IF a < b THEN a ELSE b

\* What Allow finds in the bucket: full the first time, refilled since.
Refilled(k) ==
  IF bucket[k] = Absent
    THEN Burst(k)
    ELSE Smaller(Burst(k), bucket[k].tokens + (now - bucket[k].last) * Rate(k))

\* Mutant: any fraction of a token will do.
HasToken_Fraction(k) == Refilled(k) > 0

HasToken(k) == Refilled(k) >= Unit

\* Mutant: a refused call credits the refill without stamping lastSeen.
Allow_NoStamp(k) ==
  /\ bucket' = [bucket EXCEPT ![k] =
        IF HasToken(k) THEN [tokens |-> Refilled(k) - Unit, last |-> now]
        ELSE [tokens |-> Refilled(k), last |-> IF @ = Absent THEN now ELSE @.last]]
  /\ passed' = [passed EXCEPT ![k] = IF HasToken(k) THEN @ + 1 ELSE @]

\* RateLimiter.Allow: refill, stamp, take a token if there is one.
Allow(k) ==
  /\ bucket' = [bucket EXCEPT ![k] =
        [tokens |-> IF HasToken(k) THEN Refilled(k) - Unit ELSE Refilled(k),
         last   |-> now]]
  /\ passed' = [passed EXCEPT ![k] = IF HasToken(k) THEN @ + 1 ELSE @]

----------------------------------------------------------------------------
(* Dispatch, layer 2                                                       *)

\* A request has matched one of the plugin's routes and got past the checks
\* before this layer.
Arrive(r, t) ==
  /\ present
  /\ req[r].at \in Outcomes
  /\ req' = [req EXCEPT ![r] = [at |-> "matched", tenant |-> t]]
  /\ UNCHANGED <<bucket, present, now, start, passed>>

\* The two limiters are looked up together.  RemoveRoutes may have dropped
\* them since the route was matched; then nothing limits the request.
Lookup(r) ==
  /\ req[r].at = "matched"
  /\ req' = [req EXCEPT ![r].at = IF present THEN "plugin" ELSE "admitted"]
  /\ UNCHANGED <<bucket, present, now, start, passed>>

CheckPlugin(r) ==
  /\ req[r].at = "plugin"
  /\ Allow("plugin")
  /\ req' = [req EXCEPT ![r].at =
        IF ~HasToken("plugin") THEN "rate_limit"
        ELSE IF TenantLimited /\ req[r].tenant # NoTenant THEN "tenant"
        ELSE "admitted"]
  /\ UNCHANGED <<present, now, start>>

CheckTenant(r) ==
  /\ req[r].at = "tenant"
  /\ Allow(req[r].tenant)
  /\ req' = [req EXCEPT ![r].at =
        IF HasToken(req[r].tenant) THEN "admitted" ELSE "tenant_rate_limit"]
  /\ UNCHANGED <<present, now, start>>

RemoveRoutes ==
  /\ present
  /\ present' = FALSE
  /\ UNCHANGED <<bucket, req, now, start, passed>>

\* Mutant: the sweep takes every bucket that was not used at this instant.
Idle_Inclusive == {t \in Tenants : bucket[t] # Absent /\ bucket[t].last < now}

\* RunTenantLimiterSweep: EvictIdle on the tenants' limiter.
Idle == {t \in Tenants : bucket[t] # Absent /\ bucket[t].last < now - MaxIdle}

Sweep ==
  /\ present
  /\ bucket' = [k \in Keys |-> IF k \in Idle THEN Absent ELSE bucket[k]]
  /\ UNCHANGED <<present, req, now, start, passed>>

Tick ==
  /\ now < MaxTime
  /\ now' = now + 1
  /\ UNCHANGED <<bucket, present, req, start, passed>>

\* Ghost: begin to count here, so that the bound is one on every interval.
Observe ==
  /\ start' = now
  /\ passed' = [k \in Keys |-> 0]
  /\ UNCHANGED <<bucket, present, req, now>>

Next ==
  \/ \E r \in Requests, t \in Tenants \cup {NoTenant} : Arrive(r, t)
  \/ \E r \in Requests : Lookup(r) \/ CheckPlugin(r) \/ CheckTenant(r)
  \/ RemoveRoutes \/ Sweep \/ Tick \/ Observe

Spec == Init /\ [][Next]_vars

----------------------------------------------------------------------------
(* Properties                                                              *)

\* Types; a bucket holds no more than its burst and was last seen in the past.
TypeOK ==
  /\ bucket \in [Keys -> [tokens : Nat, last : -1 .. MaxTime]]
  /\ \A k \in Keys : bucket[k].tokens <= Burst(k) /\ bucket[k].last <= now
  /\ present \in BOOLEAN
  /\ req \in [Requests -> [at : Outcomes \cup {"matched", "plugin", "tenant"},
                           tenant : Tenants \cup {NoTenant}]]
  /\ \A r \in Requests : req[r].at = "tenant" => req[r].tenant \in Tenants
  /\ now \in 0 .. MaxTime /\ start \in 0 .. now
  /\ passed \in [Keys -> Nat]

\* Over every interval a bucket hands out at most its burst and what it was
\* refilled with, however requests, refusals and sweeps interleave
\* (ratelimiter.go, Allow and EvictIdle).
WithinBudget ==
  \A k \in Keys : Unit * passed[k] <= Burst(k) + Rate(k) * (now - start)

\* The sweep neither gives nor takes tokens: a step at which no time passes
\* and no token is taken leaves what every caller would find in its bucket
\* (main.go: no tenant's bucket "gets wiped mid-use").
NothingWiped ==
  [][now' = now /\ req' = req => \A k \in Keys : Refilled(k)' = Refilled(k)]_vars
=============================================================================
