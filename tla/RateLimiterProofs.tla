-------------------------- MODULE RateLimiterProofs --------------------------
(***************************************************************************)
(* Proofs about RateLimiter for every configuration of limits, any number  *)
(* of tenants and any number of requests between the two checks.           *)
(***************************************************************************)
EXTENDS RateLimiter, TLAPS

\* The effective limits are naturals, whichever way they were configured.
LEMMA LimitTypes ==
  /\ Unit \in Nat \ {0} /\ MaxIdle \in Nat /\ MaxTime \in Nat
  /\ Limits.tenantRate \in Nat /\ Limits.tenantBurst \in Nat
  /\ \A k \in Keys : Rate(k) \in Nat /\ Burst(k) \in Nat
<1>1. Default \in LimitRecords /\ For \in LimitRecords
  BY LimitAssumption DEF For, WithDefaults, LimitRecords
<1>2. Limits \in LimitRecords
  <2>1. CASE PluginType = "public" /\ Override = NoOverride
    <3>1. \A n \in Nat : n \div 10 \in Nat
      BY SMT
    <3> QED BY <2>1, <3>1, <1>1 DEF Limits, LimitRecords
  <2>2. CASE ~(PluginType = "public" /\ Override = NoOverride)
    BY <2>2, <1>1 DEF Limits
  <2> QED BY <2>1, <2>2
<1> QED BY <1>2, LimitAssumption DEF LimitRecords, Rate, Burst, Keys

\* What a caller finds in its bucket is a natural number within the burst.
LEMMA RefilledBounds ==
  ASSUME TypeOK, NEW k \in Keys
  PROVE  Refilled(k) \in Nat /\ Refilled(k) <= Burst(k)
<1>1. Rate(k) \in Nat /\ Burst(k) \in Nat
  BY LimitTypes
<1>2. bucket[k].tokens \in Nat /\ bucket[k].last \in Int /\ now - bucket[k].last \in Nat
  BY LimitTypes DEF TypeOK
<1>3. (now - bucket[k].last) * Rate(k) \in Nat
  <2> DEFINE d == now - bucket[k].last
  <2> HIDE DEF d
  <2>1. d \in Nat
    BY <1>2 DEF d
  <2>2. d * Rate(k) \in Nat
    BY <1>1, <2>1
  <2> QED BY <2>2 DEF d
<1> QED BY <1>1, <1>2, <1>3 DEF Refilled, Smaller

----------------------------------------------------------------------------
\* The type invariant is inductive.
LEMMA TypeInit == Init => TypeOK
BY LimitTypes, LimitAssumption DEF Init, TypeOK, Keys, Absent, Outcomes

\* Allow leaves a well-typed bucket, stamped with the present.
LEMMA AllowTypes ==
  ASSUME TypeOK, NEW k \in Keys, Allow(k)
  PROVE  /\ bucket' \in [Keys -> [tokens : Nat, last : -1 .. MaxTime]]
         /\ \A j \in Keys : bucket'[j].tokens <= Burst(j) /\ bucket'[j].last <= now
         /\ passed' \in [Keys -> Nat]
<1>1. Refilled(k) \in Nat /\ Refilled(k) <= Burst(k)
  BY RefilledBounds
<1>2. Unit \in Nat \ {0} /\ Burst(k) \in Nat /\ MaxTime \in Nat
  BY LimitTypes
<1>3. HasToken(k) => Refilled(k) - Unit \in Nat /\ Refilled(k) - Unit <= Burst(k)
  BY <1>1, <1>2 DEF HasToken
<1> DEFINE t == IF HasToken(k) THEN Refilled(k) - Unit ELSE Refilled(k)
<1>4. t \in Nat /\ t <= Burst(k)
  BY <1>1, <1>3
<1>5. bucket' = [bucket EXCEPT ![k] = [tokens |-> t, last |-> now]]
  BY DEF Allow
<1> HIDE DEF t
<1>6. bucket' \in [Keys -> [tokens : Nat, last : -1 .. MaxTime]]
  BY <1>4, <1>5, <1>2 DEF TypeOK
<1>7. \A j \in Keys : bucket'[j].tokens <= Burst(j) /\ bucket'[j].last <= now
  BY <1>4, <1>5, <1>2 DEF TypeOK
<1>8. passed' \in [Keys -> Nat]
  BY DEF TypeOK, Allow
<1> QED BY <1>6, <1>7, <1>8

\* Every step keeps the types.
LEMMA TypeStep == TypeOK /\ [Next]_vars => TypeOK'
<1> SUFFICES ASSUME TypeOK, [Next]_vars PROVE TypeOK'
  OBVIOUS
<1> USE DEF TypeOK, Outcomes
<1>0. /\ \A k : Burst(k)' = Burst(k)
      /\ MaxTime \in Nat
  BY LimitTypes DEF Burst, Limits, For, WithDefaults
<1>1. ASSUME NEW r \in Requests, NEW t \in Tenants \cup {NoTenant}, Arrive(r, t) PROVE TypeOK'
  BY <1>0, <1>1 DEF Arrive
<1>2. ASSUME NEW r \in Requests, Lookup(r) PROVE TypeOK'
  BY <1>0, <1>2 DEF Lookup
<1>3. ASSUME NEW r \in Requests, CheckPlugin(r) PROVE TypeOK'
  <2>1. Allow("plugin") /\ "plugin" \in Keys
    BY <1>3 DEF CheckPlugin, Keys
  <2> QED BY <1>0, <1>3, <2>1, AllowTypes DEF CheckPlugin
<1>4. ASSUME NEW r \in Requests, CheckTenant(r) PROVE TypeOK'
  <2>1. Allow(req[r].tenant) /\ req[r].tenant \in Keys
    BY <1>4 DEF CheckTenant, Keys
  <2> QED BY <1>0, <1>4, <2>1, AllowTypes DEF CheckTenant
<1>5. CASE RemoveRoutes
  BY <1>0, <1>5 DEF RemoveRoutes
<1>6. CASE Sweep
  <2>1. \A k \in Keys : Burst(k) \in Nat
    BY LimitTypes
  <2> QED BY <1>0, <1>6, <2>1 DEF Sweep, Absent
<1>7. CASE Tick
  BY <1>0, <1>7 DEF Tick
<1>8. CASE Observe
  BY <1>0, <1>8 DEF Observe
<1>9. CASE UNCHANGED vars
  BY <1>0, <1>9 DEF vars
<1> QED BY <1>1, <1>2, <1>3, <1>4, <1>5, <1>6, <1>7, <1>8, <1>9 DEF Next

\* Type correctness: no bucket is ever fuller than its burst or short of zero
\* tokens (RateLimiter.Allow, EvictIdle).
THEOREM TypeCorrect == Spec => []TypeOK
BY TypeInit, TypeStep, PTL DEF Spec

----------------------------------------------------------------------------
(* The budget.  The inductive invariant counts what is still in a bucket   *)
(* together with what was taken from it: WithinBudget alone does not say   *)
(* that an empty bucket has been paid for.                                 *)

Paid(k) == Unit * passed[k] + Refilled(k) <= Burst(k) + Rate(k) * (now - start)
BudgetInv == TypeOK /\ \A k \in Keys : Paid(k)

\* The arithmetic the steps need, for naturals u, p, r, d.
LEMMA Distributes ==
  /\ \A u, p \in Nat : u * p \in Nat /\ u * (p + 1) = u * p + u /\ u * 0 = 0 /\ 0 * u = 0
  /\ \A a, b, r \in Nat : a <= b => a * r <= b * r
<1>1. \A u, p \in Nat : u * p \in Nat /\ u * (p + 1) = u * p + u /\ u * 0 = 0 /\ 0 * u = 0
  OBVIOUS
<1>2. ASSUME NEW a \in Nat, NEW b \in Nat, NEW r \in Nat, a <= b PROVE a * r <= b * r
  <2>1. PICK d \in Nat : b = a + d
    <3>1. b - a \in Nat /\ b = a + (b - a)
      BY <1>2
    <3> QED BY <3>1
  <2>2. d * r \in Nat
    OBVIOUS
  <2>3. b * r = a * r + d * r /\ a * r \in Nat
    BY <2>1
  <2> QED BY <2>2, <2>3
<1> QED BY <1>1, <1>2

\* A call that finds Refilled(k) leaves Refilled(k), less the token it took.
LEMMA AllowRefilled ==
  ASSUME TypeOK, NEW k \in Keys, Allow(k), UNCHANGED now
  PROVE  /\ Refilled(k)' = IF HasToken(k) THEN Refilled(k) - Unit ELSE Refilled(k)
         /\ \A j \in Keys \ {k} : Refilled(j)' = Refilled(j) /\ passed'[j] = passed[j]
<1>1. Refilled(k) \in Nat /\ Refilled(k) <= Burst(k)
  BY RefilledBounds
<1>2. Unit \in Nat \ {0} /\ Burst(k) \in Nat /\ Rate(k) \in Nat
  BY LimitTypes
<1> DEFINE t == IF HasToken(k) THEN Refilled(k) - Unit ELSE Refilled(k)
<1>3. t \in Nat /\ t <= Burst(k)
  BY <1>1, <1>2 DEF HasToken
<1>4. /\ bucket' = [bucket EXCEPT ![k] = [tokens |-> t, last |-> now]]
      /\ passed' = [passed EXCEPT ![k] = IF HasToken(k) THEN @ + 1 ELSE @]
  BY DEF Allow
<1> HIDE DEF t
<1>5. /\ bucket'[k].tokens = t /\ bucket'[k].last = now /\ now \in Nat
      /\ bucket'[k] # Absent
  BY <1>4, LimitTypes DEF TypeOK, Absent
<1>6. Refilled(k)' = Smaller(Burst(k), t + (now - now) * Rate(k))
  BY <1>5 DEF Refilled, Smaller, Burst, Rate, Limits, For, WithDefaults
<1>7. (now - now) * Rate(k) = 0
  BY <1>2, <1>5
<1>8. Refilled(k)' = t
  BY <1>2, <1>3, <1>6, <1>7 DEF Smaller
<1>9. \A j \in Keys \ {k} : bucket'[j] = bucket[j] /\ passed'[j] = passed[j]
  BY <1>4 DEF TypeOK
<1>10. \A j \in Keys \ {k} : Refilled(j)' = Refilled(j)
  BY <1>9 DEF Refilled, Smaller, Burst, Rate, Limits, For, WithDefaults
<1> QED BY <1>8, <1>9, <1>10 DEF t

\* A bucket the sweep takes was full, provided that the sweep is safe.
LEMMA SweptWasFull ==
  ASSUME TypeOK, SweepIsSafe, NEW k \in Idle
  PROVE  k \in Keys /\ Refilled(k) = Burst(k)
<1>1. /\ k \in Keys /\ k # "plugin" /\ bucket[k] # Absent
      /\ bucket[k].last < now - MaxIdle /\ bucket[k].tokens \in Nat
      /\ bucket[k].last \in Int /\ now \in Int
  BY LimitAssumption, LimitTypes DEF Idle, Keys, TypeOK
<1>2. Rate(k) = Limits.tenantRate /\ Burst(k) = Limits.tenantBurst
  BY <1>1 DEF Rate, Burst
<1>3. PICK d : d = now - bucket[k].last
  OBVIOUS
<1>4. d \in Nat /\ MaxIdle <= d /\ MaxIdle \in Nat
  BY <1>1, <1>3, LimitTypes
<1>5. Rate(k) \in Nat /\ Burst(k) \in Nat
  BY <1>1, LimitTypes
<1>6. MaxIdle * Rate(k) <= d * Rate(k) /\ d * Rate(k) \in Nat
  BY <1>4, <1>5, Distributes
<1>7. MaxIdle * Rate(k) >= Burst(k)
  BY <1>2, <1>4, <1>5 DEF SweepIsSafe
<1>8. d * Rate(k) >= Burst(k)
  BY <1>4, <1>5, <1>6, <1>7
<1>9. Refilled(k) = Smaller(Burst(k), bucket[k].tokens + d * Rate(k))
  BY <1>1, <1>3 DEF Refilled
<1> QED BY <1>1, <1>5, <1>6, <1>8, <1>9 DEF Smaller

\* The sweep is invisible to every caller.
LEMMA SweepKeeps ==
  ASSUME TypeOK, SweepIsSafe, Sweep, NEW k \in Keys
  PROVE  Refilled(k)' = Refilled(k)
<1>1. CASE k \in Idle
  <2>1. Refilled(k) = Burst(k)
    BY <1>1, SweptWasFull
  <2>2. bucket'[k] = Absent
    BY <1>1 DEF Sweep
  <2>3. Refilled(k)' = Burst(k)
    BY <2>2 DEF Refilled, Burst, Limits, For, WithDefaults, Absent
  <2> QED BY <2>1, <2>3
<1>2. CASE k \notin Idle
  BY <1>2 DEF Sweep, Refilled, Smaller, Burst, Rate, Limits, For, WithDefaults, Absent
<1> QED BY <1>1, <1>2

\* One tick refills a bucket by at most its rate.
LEMMA TickRefilled ==
  ASSUME TypeOK, Tick, NEW k \in Keys
  PROVE  Refilled(k)' \in Int /\ Refilled(k)' <= Refilled(k) + Rate(k)
<1>1. Rate(k) \in Nat /\ Burst(k) \in Nat
  BY LimitTypes
<1>2. PICK d : d = now - bucket[k].last
  OBVIOUS
<1>3. /\ d \in Nat /\ bucket[k].tokens \in Nat /\ bucket[k].tokens <= Burst(k)
      /\ now' - bucket[k].last = d + 1
  BY <1>2, LimitTypes DEF TypeOK, Tick
<1>4. d * Rate(k) \in Nat /\ (d + 1) * Rate(k) = d * Rate(k) + Rate(k)
  BY <1>1, <1>3
<1>5. Refilled(k) = IF bucket[k] = Absent THEN Burst(k)
                    ELSE Smaller(Burst(k), bucket[k].tokens + d * Rate(k))
  BY <1>2 DEF Refilled
<1>6. Refilled(k)' = IF bucket[k] = Absent THEN Burst(k)
                     ELSE Smaller(Burst(k), bucket[k].tokens + (d + 1) * Rate(k))
  BY <1>3 DEF Refilled, Tick, Smaller, Burst, Rate, Limits, For, WithDefaults, Absent
<1> QED BY <1>1, <1>3, <1>4, <1>5, <1>6 DEF Smaller

----------------------------------------------------------------------------
\* Nothing has been handed out at the start, and no bucket exceeds its burst.
LEMMA BudgetInit == Init => BudgetInv
<1> SUFFICES ASSUME Init PROVE BudgetInv
  OBVIOUS
<1>1. TypeOK
  BY TypeInit
<1>2. ASSUME NEW k \in Keys PROVE Paid(k)
  <2>1. Burst(k) \in Nat /\ Rate(k) \in Nat /\ Unit \in Nat
    BY LimitTypes
  <2>2. passed[k] = 0 /\ now = 0 /\ start = 0
    BY DEF Init
  <2>3. Refilled(k) \in Nat /\ Refilled(k) <= Burst(k)
    BY <1>1, RefilledBounds
  <2>4. Unit * passed[k] = 0 /\ Rate(k) * (now - start) = 0
    BY <2>1, <2>2
  <2> QED BY <2>1, <2>3, <2>4 DEF Paid
<1> QED BY <1>1, <1>2 DEF BudgetInv

\* One call of Allow, by whichever request.
LEMMA BudgetAllow ==
  ASSUME BudgetInv, NEW k \in Keys, Allow(k), UNCHANGED <<now, start>>, NEW j \in Keys
  PROVE  Paid(j)'
<1>0. TypeOK /\ Paid(j) /\ Paid(k)
  BY DEF BudgetInv
<1>1. /\ Burst(j) \in Nat /\ Rate(j) \in Nat /\ Unit \in Nat \ {0}
      /\ Burst(j)' = Burst(j) /\ Rate(j)' = Rate(j)
  BY LimitTypes DEF Burst, Rate, Limits, For, WithDefaults
<1>2. Refilled(j) \in Nat /\ passed[j] \in Nat
  BY <1>0, RefilledBounds DEF TypeOK
<1>3. PICK a : a = Rate(j) * (now - start)
  OBVIOUS
<1>4. a \in Nat /\ (Rate(j) * (now - start))' = a
  <2>1. now - start \in Nat
    BY <1>0, LimitTypes DEF TypeOK
  <2>2. Rate(j) * (now - start) \in Nat
    BY <1>1, <2>1, Distributes
  <2> QED BY <1>1, <1>3, <2>2
<1>5. CASE j # k
  <2>1. Refilled(j)' = Refilled(j) /\ passed'[j] = passed[j]
    BY <1>0, <1>5, AllowRefilled
  <2> QED BY <1>0, <1>1, <1>3, <1>4, <2>1 DEF Paid
<1>6. CASE j = k
  <2>1. Refilled(j)' = IF HasToken(j) THEN Refilled(j) - Unit ELSE Refilled(j)
    BY <1>0, <1>6, AllowRefilled
  <2>2. passed'[j] = IF HasToken(j) THEN passed[j] + 1 ELSE passed[j]
    BY <1>0, <1>6 DEF Allow, TypeOK
  <2>3. Unit * passed[j] \in Nat /\ Unit * (passed[j] + 1) = Unit * passed[j] + Unit
    BY <1>1, <1>2, Distributes
  <2>4. Unit * passed[j] + Refilled(j) <= Burst(j) + a
    BY <1>0, <1>3 DEF Paid
  <2>5. Unit * passed'[j] + Refilled(j)' <= Burst(j) + a
    <3>1. CASE HasToken(j)
      <4>1. passed'[j] = passed[j] + 1 /\ Refilled(j)' = Refilled(j) - Unit
        BY <2>1, <2>2, <3>1
      <4>2. Unit * passed'[j] = Unit * passed[j] + Unit
        BY <2>3, <4>1
      <4> QED BY <1>1, <1>2, <1>4, <2>3, <2>4, <4>1, <4>2
    <3>2. CASE ~HasToken(j)
      BY <2>1, <2>2, <2>4, <3>2
    <3> QED BY <3>1, <3>2
  <2> QED BY <1>1, <1>4, <2>5 DEF Paid
<1> QED BY <1>5, <1>6

\* Every step keeps what was handed out and what is left within the budget,
\* the sweep included when a swept bucket is full.
LEMMA BudgetStep == SweepIsSafe /\ BudgetInv /\ [Next]_vars => BudgetInv'
<1> SUFFICES ASSUME SweepIsSafe, BudgetInv, [Next]_vars, NEW k \in Keys
             PROVE  Paid(k)'
  BY TypeStep DEF BudgetInv, Keys
<1>0. /\ TypeOK /\ Paid(k)
      /\ Burst(k) \in Nat /\ Rate(k) \in Nat /\ Unit \in Nat \ {0}
      /\ Burst(k)' = Burst(k) /\ Rate(k)' = Rate(k)
  BY LimitTypes DEF BudgetInv, Burst, Rate, Limits, For, WithDefaults
<1>1. Refilled(k) \in Nat /\ Refilled(k) <= Burst(k) /\ passed[k] \in Nat
  BY <1>0, RefilledBounds DEF TypeOK
<1>2. ASSUME UNCHANGED <<bucket, now, start, passed>> PROVE Paid(k)'
  BY <1>0, <1>2 DEF Paid, Refilled, Smaller, Burst, Rate, Limits, For, WithDefaults, Absent
<1>3. ASSUME NEW r \in Requests, NEW t \in Tenants \cup {NoTenant}, Arrive(r, t) PROVE Paid(k)'
  BY <1>2, <1>3 DEF Arrive
<1>4. ASSUME NEW r \in Requests, Lookup(r) PROVE Paid(k)'
  BY <1>2, <1>4 DEF Lookup
<1>5. ASSUME NEW r \in Requests, CheckPlugin(r) PROVE Paid(k)'
  BY <1>5, BudgetAllow DEF CheckPlugin, Keys
<1>6. ASSUME NEW r \in Requests, CheckTenant(r) PROVE Paid(k)'
  <2>1. req[r].tenant \in Keys
    BY <1>0, <1>6 DEF CheckTenant, TypeOK, Keys
  <2> QED BY <1>6, <2>1, BudgetAllow DEF CheckTenant
<1>7. CASE RemoveRoutes
  BY <1>2, <1>7 DEF RemoveRoutes
<1>8. CASE Sweep
  <2>1. Refilled(k)' = Refilled(k)
    BY <1>0, <1>8, SweepKeeps
  <2> QED BY <1>0, <1>8, <2>1 DEF Sweep, Paid
<1>9. CASE Tick
  <2>1. Refilled(k)' \in Int /\ Refilled(k)' <= Refilled(k) + Rate(k)
    BY <1>0, <1>9, TickRefilled
  <2>2. PICK d : d = now - start
    OBVIOUS
  <2>3. d \in Nat /\ now' - start' = d + 1 /\ passed' = passed
    BY <1>0, <1>9, <2>2, LimitTypes DEF TypeOK, Tick
  <2>4. Rate(k) * d \in Nat /\ Rate(k) * (d + 1) = Rate(k) * d + Rate(k)
    BY <1>0, <2>3, Distributes
  <2>5. Unit * passed[k] \in Nat
    BY <1>0, <1>1, Distributes
  <2>6. Unit * passed[k] + Refilled(k) <= Burst(k) + Rate(k) * d
    BY <1>0, <2>2 DEF Paid
  <2>7. Unit * passed[k] + Refilled(k)' <= Burst(k) + Rate(k) * (d + 1)
    BY <1>0, <1>1, <2>1, <2>4, <2>5, <2>6
  <2> QED BY <1>0, <2>3, <2>7 DEF Paid
<1>10. CASE Observe
  <2>1. Refilled(k)' = Refilled(k)
    BY <1>10 DEF Observe, Refilled, Smaller, Burst, Rate, Limits, For, WithDefaults, Absent
  <2>2. passed'[k] = 0 /\ now' - start' = 0
    BY <1>0, <1>10, LimitTypes DEF Observe, TypeOK
  <2>3. Unit * passed'[k] = 0 /\ Rate(k) * (now' - start') = 0
    BY <1>0, <2>2, Distributes
  <2> QED BY <1>0, <1>1, <2>1, <2>3 DEF Paid
<1>11. CASE UNCHANGED vars
  BY <1>2, <1>11 DEF vars
<1> QED BY <1>3, <1>4, <1>5, <1>6, <1>7, <1>8, <1>9, <1>10, <1>11 DEF Next

\* Over every interval no bucket hands out more than its burst and its refill,
\* for every configuration whose idle buckets are full when they are swept
\* (RateLimiter.Allow, EvictIdle, RunTenantLimiterSweep).
THEOREM BudgetHolds ==
  ASSUME SweepIsSafe PROVE Spec => []WithinBudget
<1>1. BudgetInv /\ [Next]_vars => BudgetInv'
  BY BudgetStep
<1>2. BudgetInv => WithinBudget
  <2> SUFFICES ASSUME BudgetInv, NEW k \in Keys
               PROVE  Unit * passed[k] <= Burst(k) + Rate(k) * (now - start)
    BY DEF WithinBudget
  <2>1. TypeOK /\ Paid(k)
    BY DEF BudgetInv
  <2>2. Refilled(k) \in Nat /\ Unit * passed[k] \in Nat
    BY <2>1, RefilledBounds, LimitTypes, Distributes DEF TypeOK
  <2>3. Burst(k) + Rate(k) * (now - start) \in Nat
    <3>1. now - start \in Nat
      BY <2>1, LimitTypes DEF TypeOK
    <3>2. Rate(k) * (now - start) \in Nat
      BY <3>1, LimitTypes, Distributes
    <3> QED BY <3>2, LimitTypes
  <2> QED BY <2>1, <2>2, <2>3 DEF Paid
<1> QED BY <1>1, <1>2, BudgetInit, PTL DEF Spec

\* The sweep of idle tenants is invisible: it changes nobody's tokens
\* (EvictIdle, under the same condition on the configuration).
THEOREM SweepIsInvisible ==
  ASSUME SweepIsSafe PROVE Spec => NothingWiped
<1>1. ASSUME TypeOK, [Next]_vars, now' = now, req' = req, NEW k \in Keys
      PROVE  Refilled(k)' = Refilled(k)
  <2>1. ASSUME UNCHANGED <<bucket, now>> PROVE Refilled(k)' = Refilled(k)
    BY <2>1 DEF Refilled, Smaller, Burst, Rate, Limits, For, WithDefaults, Absent
  <2>2. ASSUME NEW r \in Requests, CheckPlugin(r) \/ CheckTenant(r) PROVE FALSE
    BY <1>1, <2>2 DEF CheckPlugin, CheckTenant, TypeOK
  <2>3. CASE Sweep
    BY <1>1, <2>3, SweepKeeps
  <2> QED BY <1>1, <2>1, <2>2, <2>3
          DEF Next, Arrive, Lookup, RemoveRoutes, Tick, Observe, vars
<1>2. ASSUME TypeOK, [Next]_vars
      PROVE  [now' = now /\ req' = req => \A k \in Keys : Refilled(k)' = Refilled(k)]_vars
  BY <1>1, <1>2
<1> QED BY <1>2, TypeCorrect, PTL DEF Spec, NothingWiped
=============================================================================
