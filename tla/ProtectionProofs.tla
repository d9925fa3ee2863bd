-------------------------- MODULE ProtectionProofs --------------------------
(***************************************************************************)
(* Proofs about Protection, for any plugins, any finite set of concurrent  *)
(* requests and any limits.                                                *)
(***************************************************************************)
EXTENDS Protection, FiniteSetTheorems, TLAPS

(* The types hold initially. *)
LEMMA TypeInit == Init => TypeOK
BY ProtectionAssumption DEF Init, TypeOK

(* Every step keeps the types. *)
LEMMA TypeStep == TypeOK /\ [Next]_vars => TypeOK'
<1> SUFFICES ASSUME TypeOK, [Next]_vars PROVE TypeOK'
  OBVIOUS
<1> USE ProtectionAssumption
    DEF TypeOK, breaker, request, monitor, ghosts, Min, RecordSuccess, RecordFailure
<1>1. ASSUME NEW r \in Requests, NEW p \in Plugins, NEW k \in Kinds, Arrive(r, p, k)
      PROVE  TypeOK'
  BY <1>1 DEF Arrive
<1>2. ASSUME NEW r \in Requests, Acquire(r) \/ Busy(r) PROVE TypeOK'
  BY <1>2 DEF Acquire, Busy
<1>3. ASSUME NEW r \in Requests, Allow(r) \/ Refuse(r) PROVE TypeOK'
  BY <1>3 DEF Allow, Refuse
<1>4. ASSUME NEW r \in Requests, Answer(r) \/ ClientLeaves(r) PROVE TypeOK'
  BY <1>4 DEF Answer, ClientLeaves, Answered
<1>5. ASSUME NEW r \in Requests, Record(r) PROVE TypeOK'
  BY <1>5 DEF Record
<1>6. ASSUME NEW r \in Requests, Release(r) PROVE TypeOK'
  BY <1>6 DEF Release
<1>7. ASSUME CheckAll PROVE TypeOK'
  BY <1>7 DEF CheckAll
<1>8. ASSUME NEW p \in Plugins, Check(p) PROVE TypeOK'
  <2>1. CASE Probe(p)
    BY <2>1 DEF Probe
  <2>2. CASE Healthy(p)
    BY <2>2 DEF Healthy
  <2>3. CASE MarkDead(p)
    BY <2>3 DEF MarkDead
  <2>4. CASE Trip(p)
    BY <2>4 DEF Trip, ForceOpen
  <2> QED
    BY <1>8, <2>1, <2>2, <2>3, <2>4 DEF Check
<1>9. ASSUME NEW p \in Plugins, Heartbeat(p) \/ PluginChanges(p) PROVE TypeOK'
  <2>1. CASE Heartbeat(p)
    BY <2>1 DEF Heartbeat
  <2>2. CASE PluginChanges(p)
    BY <2>2 DEF PluginChanges
  <2>3. QED
    BY <1>9, <2>1, <2>2, Zenon
<1>10. ASSUME NEW p \in Plugins, Reset(p) PROVE TypeOK'
  BY <1>10 DEF Reset
<1>11. ASSUME Tick PROVE TypeOK'
  BY <1>11 DEF Tick
<1>12. CASE UNCHANGED vars
  BY <1>12 DEF vars
<1> QED
  BY <1>1, <1>2, <1>3, <1>4, <1>5, <1>6, <1>7, <1>8, <1>9, <1>10, <1>11, <1>12
     DEF Next, Serve

(* The breaker's own count is the number of failures since the last success. *)
CountsAgree == failures = streak

(* The breaker follows what was recorded, initially ... *)
LEMMA BreakerInit == Init => CountsAgree /\ BreakerExact
BY ProtectionAssumption DEF Init, CountsAgree, BreakerExact

(* ... and after every step: only Record, Reset and ForceOpen change what was *)
(* recorded, and Allow only moves an open breaker to half-open.               *)
LEMMA BreakerStep ==
    TypeOK /\ CountsAgree /\ BreakerExact /\ [Next]_vars => CountsAgree' /\ BreakerExact'
<1> SUFFICES ASSUME TypeOK, CountsAgree, BreakerExact, [Next]_vars
             PROVE  CountsAgree' /\ BreakerExact'
  OBVIOUS
<1> USE ProtectionAssumption
    DEF TypeOK, CountsAgree, BreakerExact, breaker, request, monitor, ghosts, Min
<1>1. ASSUME NEW r \in Requests, Record(r) PROVE CountsAgree' /\ BreakerExact'
  <2>1. CASE kind[r] = "http" /\ reply[r] = "error"
    <3>1. RecordFailure(tgt[r]) /\ forced' = forced
          /\ streak' = [streak EXCEPT ![tgt[r]] = Min(@ + 1, Threshold)]
      BY <1>1, <2>1 DEF Record
    <3>2. CountsAgree'
      BY <3>1 DEF RecordFailure
    <3>3. ASSUME NEW q \in Plugins
          PROVE  cb'[q] = "closed" <=> streak'[q] < Threshold /\ q \notin forced'
      <4>1. CASE q = tgt[r]
        BY <3>1, <4>1 DEF RecordFailure
      <4>2. CASE q # tgt[r]
        BY <3>1, <4>2 DEF RecordFailure
      <4> QED
        BY <4>1, <4>2
    <3> QED
      BY <3>2, <3>3
  <2>2. CASE ~(kind[r] = "http" /\ reply[r] = "error")
    BY <1>1, <2>2 DEF Record, RecordSuccess
  <2> QED
    BY <2>1, <2>2
<1>2. ASSUME NEW r \in Requests, Allow(r) PROVE CountsAgree' /\ BreakerExact'
  BY <1>2 DEF Allow
<1>3. ASSUME NEW p \in Plugins, Trip(p) PROVE CountsAgree' /\ BreakerExact'
  BY <1>3 DEF Trip, ForceOpen
<1>4. ASSUME NEW p \in Plugins, Reset(p) PROVE CountsAgree' /\ BreakerExact'
  BY <1>4 DEF Reset, RecordSuccess
<1>5. ASSUME UNCHANGED <<cb, failures, streak, forced>>
      PROVE  CountsAgree' /\ BreakerExact'
  BY <1>5
<1>6. ASSUME NEW r \in Requests, Serve(r), ~Record(r), ~Allow(r)
      PROVE  UNCHANGED <<cb, failures, streak, forced>>
  BY <1>6 DEF Serve, Acquire, Busy, Refuse, Release
<1>7. ASSUME NEW p \in Plugins, Check(p), ~Trip(p)
      PROVE  UNCHANGED <<cb, failures, streak, forced>>
  BY <1>7 DEF Check, Probe, Healthy, MarkDead
<1>8. ASSUME NEW r \in Requests, NEW p \in Plugins, NEW k \in Kinds, Arrive(r, p, k)
      PROVE  UNCHANGED <<cb, failures, streak, forced>>
  BY <1>8 DEF Arrive
<1>9. ASSUME NEW r \in Requests, Answer(r) \/ ClientLeaves(r)
      PROVE  UNCHANGED <<cb, failures, streak, forced>>
  BY <1>9 DEF Answer, ClientLeaves, Answered
<1>10. ASSUME NEW p \in Plugins, Heartbeat(p) \/ PluginChanges(p)
      PROVE  UNCHANGED <<cb, failures, streak, forced>>
  BY <1>10 DEF Heartbeat, PluginChanges
<1>11. ASSUME CheckAll \/ Tick \/ UNCHANGED vars
      PROVE  UNCHANGED <<cb, failures, streak, forced>>
  BY <1>11 DEF CheckAll, Tick, vars
<1> QED
  BY <1>1, <1>2, <1>3, <1>4, <1>5, <1>6, <1>7, <1>8, <1>9, <1>10, <1>11 DEF Next

(* Slots: a request that acquires one joins the holders of its plugin only. *)
LEMMA HoldersFinite ==
    \A p \in Plugins : IsFiniteSet(Holders(p)) /\ Cardinality(Holders(p)) \in Nat
BY ProtectionAssumption, FS_Subset, FS_CardinalityType DEF Holders

(* Initially no request holds a slot. *)
LEMMA BulkheadInit == Init => BulkheadExact
<1> SUFFICES ASSUME Init, NEW p \in Plugins
             PROVE  active[p] = Cardinality(Holders(p)) /\ active[p] <= MaxConc
  BY DEF BulkheadExact
<1>1. Holders(p) = {}
  BY DEF Init, Holders
<1> QED
  BY <1>1, FS_EmptySet, ProtectionAssumption DEF Init

(* Every path through Dispatch keeps the count exact. *)
LEMMA BulkheadStep == TypeOK /\ BulkheadExact /\ [Next]_vars => BulkheadExact'
<1> SUFFICES ASSUME TypeOK, BulkheadExact, [Next]_vars, NEW q \in Plugins
             PROVE  active'[q] = Cardinality(Holders(q)') /\ active'[q] <= MaxConc
  BY DEF BulkheadExact
<1> DEFINE Goal == active'[q] = Cardinality(Holders(q)') /\ active'[q] <= MaxConc
<1> USE ProtectionAssumption DEF TypeOK, breaker, request, monitor, ghosts
<1>0. active[q] = Cardinality(Holders(q)) /\ active[q] <= MaxConc
  BY DEF BulkheadExact
<1>1. ASSUME active' = active, Holders(q)' = Holders(q) PROVE Goal
  BY <1>0, <1>1
<1>2. ASSUME NEW r \in Requests, Acquire(r) PROVE Goal
  <2>1. CASE tgt[r] = q
    <3>1. Holders(q)' = Holders(q) \union {r} /\ r \notin Holders(q)
      BY <1>2, <2>1 DEF Acquire, Holders
    <3>2. Cardinality(Holders(q)') = Cardinality(Holders(q)) + 1
      BY <3>1, HoldersFinite, FS_AddElement
    <3>3. active'[q] = active[q] + 1 /\ active[q] < MaxConc
      BY <1>2, <2>1 DEF Acquire
    <3> QED
      BY <1>0, <3>2, <3>3
  <2>2. CASE tgt[r] # q
    <3>1. Holders(q)' = Holders(q) /\ active'[q] = active[q]
      BY <1>2, <2>2 DEF Acquire, Holders
    <3> QED
      BY <1>0, <3>1
  <2> QED
    BY <2>1, <2>2
<1>3. ASSUME NEW r \in Requests, Release(r) PROVE Goal
  <2>1. CASE tgt[r] = q
    <3>1. Holders(q)' = Holders(q) \ {r} /\ r \in Holders(q)
      BY <1>3, <2>1 DEF Release, Holders
    <3>2. Cardinality(Holders(q)') = Cardinality(Holders(q)) - 1
      BY <3>1, HoldersFinite, FS_RemoveElement
    <3>3. Cardinality(Holders(q)) # 0
      BY <3>1, HoldersFinite, FS_EmptySet
    <3>4. active'[q] = IF active[q] > 0 THEN active[q] - 1 ELSE active[q]
      BY <1>3, <2>1 DEF Release
    <3> QED
      BY <1>0, <3>2, <3>3, <3>4, HoldersFinite
  <2>2. CASE tgt[r] # q
    <3>1. Holders(q)' = Holders(q) /\ active'[q] = active[q]
      BY <1>3, <2>2 DEF Release, Holders
    <3> QED
      BY <1>0, <3>1
  <2> QED
    BY <2>1, <2>2
<1>4. ASSUME NEW r \in Requests, NEW p \in Plugins, NEW k \in Kinds, Arrive(r, p, k)
      PROVE  active' = active /\ Holders(q)' = Holders(q)
  BY <1>4 DEF Arrive, Holders
<1>5. ASSUME NEW r \in Requests, Busy(r) \/ Refuse(r) \/ Allow(r)
      PROVE  active' = active /\ Holders(q)' = Holders(q)
  BY <1>5 DEF Busy, Refuse, Allow, Holders
<1>6. ASSUME NEW r \in Requests, Answer(r) \/ ClientLeaves(r)
      PROVE  active' = active /\ Holders(q)' = Holders(q)
  BY <1>6 DEF Answer, ClientLeaves, Answered, Holders
<1>7. ASSUME NEW r \in Requests, Record(r)
      PROVE  active' = active /\ Holders(q)' = Holders(q)
  BY <1>7 DEF Record, Holders
<1>8. ASSUME NEW p \in Plugins, Check(p) \/ Heartbeat(p) \/ Reset(p) \/ PluginChanges(p)
      PROVE  active' = active /\ Holders(q)' = Holders(q)
  BY <1>8 DEF Check, Probe, Healthy, MarkDead, Trip, Heartbeat, Reset, PluginChanges, Holders
<1>9. ASSUME CheckAll \/ Tick \/ UNCHANGED vars
      PROVE  active' = active /\ Holders(q)' = Holders(q)
  BY <1>9 DEF CheckAll, Tick, vars, Holders
<1> QED
  BY <1>1, <1>2, <1>3, <1>4, <1>5, <1>6, <1>7, <1>8, <1>9 DEF Next, Serve

(* The conjunction is inductive. *)
THEOREM Invariant == Spec => [](TypeOK /\ BulkheadExact /\ CountsAgree /\ BreakerExact)
BY TypeInit, TypeStep, BulkheadInit, BulkheadStep, BreakerInit, BreakerStep, PTL DEF Spec

(* Types of the protection layers' state. *)
THEOREM TypeCorrect == Spec => []TypeOK
BY Invariant, PTL

(* No slot of the bulkhead is ever lost or counted twice, for every limit and *)
(* every number of concurrent requests (bulkhead.go:30-47).                   *)
THEOREM SlotsExact == Spec => []BulkheadExact
BY Invariant, PTL

(* The breaker is closed exactly when its record says so                      *)
(* (circuit_breaker.go:45-99).                                                *)
THEOREM BreakerFollowsRecord == Spec => []BreakerExact
BY Invariant, PTL
=============================================================================
