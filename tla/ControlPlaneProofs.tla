------------------------- MODULE ControlPlaneProofs -------------------------
(***************************************************************************)
(* Proofs about ControlPlane, for any finite sets of names and suffixes    *)
(* and any set of handlers.                                                *)
(***************************************************************************)
EXTENDS ControlPlane, FiniteSetTheorems, TLAPS

(* An id's name is a name. *)
LEMMA NameType == \A id \in Ids : Name(id) \in Names
BY DEF Ids, Name

(* The locals of an idle handler are well typed. *)
LEMMA SomeType == SomeName \in Names /\ SomeId \in Ids
BY ConstantsAssumption DEF SomeName, SomeId, Ids

(* Any set of ids has a size. *)
LEMMA IdsCount == \A S \in SUBSET Ids : Cardinality(S) \in Nat
<1>1. IsFiniteSet(Ids)
  BY ConstantsAssumption, FS_Product DEF Ids
<1> QED
  BY <1>1, FS_Subset, FS_CardinalityType

(* Types hold initially ... *)
LEMMA TypeInit == Init => TypeOK
<1>1. Init => company \in BOOLEAN
  BY Zenon DEF Init
<1> QED
  BY <1>1, SomeType DEF Init, TypeOK, Steps

(* ... and every step keeps them. *)
LEMMA TypeStep == TypeOK /\ [Next]_vars => TypeOK'
<1> SUFFICES ASSUME TypeOK, [Next]_vars PROVE TypeOK'
  OBVIOUS
<1> USE DEF TypeOK, Steps, RegisterSteps, DeregisterSteps, Idle, registry, table, docs, ghosts
<1>1. ASSUME NEW h \in Handlers, NEW n \in Names, RegisterStart(h, n) PROVE TypeOK'
  BY <1>1 DEF RegisterStart, IDsByName, store
<1>2. ASSUME NEW h \in Handlers, NEW id \in Ids,
             DeregisterStart(h, id) \/ AdminDeregisterStart(h, id)
      PROVE TypeOK'
  <2>1. CASE DeregisterStart(h, id)
    BY <2>1, NameType DEF DeregisterStart, Remove, store
  <2>2. CASE AdminDeregisterStart(h, id)
    BY <2>2, NameType DEF AdminDeregisterStart, Remove, store
  <2>3. QED
    BY <1>2, <2>1, <2>2, Zenon
<1>3. ASSUME NEW h \in Handlers, EvictDeregister(h) PROVE TypeOK'
  BY <1>3 DEF EvictDeregister
<1>4. ASSUME NEW h \in Handlers, EvictRemoveRoutes(h) PROVE TypeOK'
  BY <1>4 DEF EvictRemoveRoutes
<1>5. ASSUME NEW h \in Handlers, RegisterEntry(h) PROVE TypeOK'
  BY <1>5 DEF RegisterEntry
<1>6. ASSUME NEW h \in Handlers, AddRoutes(h) PROVE TypeOK'
  BY <1>6 DEF AddRoutes
<1>7. ASSUME NEW h \in Handlers, AddSpec(h) PROVE TypeOK'
  BY <1>7 DEF AddSpec, SpecsOfOthers
<1>8. ASSUME NEW h \in Handlers, ReadLen(h) PROVE TypeOK'
  BY <1>8, IdsCount DEF ReadLen, store
<1>9. ASSUME NEW h \in Handlers, Reply(h) PROVE TypeOK'
  BY <1>9, SomeType DEF Reply, Finish
<1>10. ASSUME NEW h \in Handlers, Deregister(h) PROVE TypeOK'
  BY <1>10 DEF Deregister
<1>11. ASSUME NEW h \in Handlers, RemoveRoutes(h) PROVE TypeOK'
  BY <1>11 DEF RemoveRoutes
<1>12. ASSUME NEW h \in Handlers, RemoveSpec(h) PROVE TypeOK'
  BY <1>12 DEF RemoveSpec, SpecsOfOthers
<1>13. ASSUME NEW h \in Handlers, SetGauge(h) PROVE TypeOK'
  BY <1>13, SomeType DEF SetGauge, Finish
<1>14. ASSUME NEW id \in Ids, Heartbeat(id) \/ MarkDead(id) \/ TokenExpires(id)
       PROVE TypeOK'
  BY <1>14 DEF Heartbeat, MarkDead, TokenExpires, local
<1>15. CASE Restart
  BY <1>15, SomeType DEF Restart
<1>16. CASE UNCHANGED vars
  BY <1>16 DEF vars, store, local
<1> QED
  BY <1>1, <1>2, <1>3, <1>4, <1>5, <1>6, <1>7, <1>8, <1>9, <1>10, <1>11, <1>12,
     <1>13, <1>14, <1>15, <1>16 DEF Next, Begin, Step

(* Handlers keep working on ids of their own name. *)
LEMMA LocalsStep ==
    TypeOK /\ LocalsMatch /\ [Next]_vars => LocalsMatch'
<1> SUFFICES ASSUME TypeOK, LocalsMatch, [Next]_vars PROVE LocalsMatch'
  OBVIOUS
<1> USE DEF TypeOK, Steps, RegisterSteps, DeregisterSteps, OwnSteps, Idle, LocalsMatch, registry, table, docs, ghosts
<1>1. ASSUME NEW h \in Handlers, NEW n \in Names, RegisterStart(h, n)
      PROVE  LocalsMatch'
  BY <1>1 DEF RegisterStart, IDsByName, store
<1>2. ASSUME NEW h \in Handlers, NEW id \in Ids,
             DeregisterStart(h, id) \/ AdminDeregisterStart(h, id)
      PROVE  LocalsMatch'
  BY <1>2 DEF DeregisterStart, AdminDeregisterStart, Remove, store
<1>3. ASSUME NEW h \in Handlers, EvictDeregister(h) \/ Deregister(h)
      PROVE  LocalsMatch'
  BY <1>3 DEF EvictDeregister, Deregister
<1>4. ASSUME NEW h \in Handlers, EvictRemoveRoutes(h) \/ RemoveRoutes(h)
      PROVE  LocalsMatch'
  BY <1>4 DEF EvictRemoveRoutes, RemoveRoutes
<1>5. ASSUME NEW h \in Handlers, RegisterEntry(h)
      PROVE  LocalsMatch'
  BY <1>5 DEF RegisterEntry
<1>6. ASSUME NEW h \in Handlers, AddRoutes(h)
      PROVE  LocalsMatch'
  BY <1>6 DEF AddRoutes
<1>7. ASSUME NEW h \in Handlers, AddSpec(h) \/ ReadLen(h) \/ RemoveSpec(h)
      PROVE  LocalsMatch'
  BY <1>7 DEF AddSpec, ReadLen, RemoveSpec, store
<1>8. ASSUME NEW h \in Handlers, Reply(h) \/ SetGauge(h)
      PROVE  LocalsMatch'
  BY <1>8 DEF Reply, SetGauge, Finish
<1>9. ASSUME NEW id \in Ids, Heartbeat(id) \/ MarkDead(id) \/ TokenExpires(id)
      PROVE  LocalsMatch'
  BY <1>9 DEF Heartbeat, MarkDead, TokenExpires, local
<1>10. CASE Restart
  BY <1>10, SomeType DEF Restart
<1>11. CASE UNCHANGED vars
  BY <1>11 DEF vars, store, local
<1> QED
  BY <1>1, <1>2, <1>3, <1>4, <1>5, <1>6, <1>7, <1>8, <1>9, <1>10, <1>11 DEF Next, Begin, Step

(* Routes are only dropped after the entry. *)
LEMMA GoneStep ==
    TypeOK /\ LocalsMatch /\ DroppedAreGone /\ [Next]_vars => DroppedAreGone'
<1> SUFFICES ASSUME TypeOK, LocalsMatch, DroppedAreGone, [Next]_vars PROVE DroppedAreGone'
  OBVIOUS
<1> USE DEF TypeOK, Steps, RegisterSteps, DeregisterSteps, OwnSteps, Idle, LocalsMatch, DroppedAreGone, registry, table, docs, ghosts
<1>1. ASSUME NEW h \in Handlers, NEW n \in Names, RegisterStart(h, n)
      PROVE  DroppedAreGone'
  BY <1>1 DEF RegisterStart, IDsByName, store
<1>2. ASSUME NEW h \in Handlers, NEW id \in Ids,
             DeregisterStart(h, id) \/ AdminDeregisterStart(h, id)
      PROVE  DroppedAreGone'
  BY <1>2 DEF DeregisterStart, AdminDeregisterStart, Remove, store
<1>3. ASSUME NEW h \in Handlers, EvictDeregister(h) \/ Deregister(h)
      PROVE  DroppedAreGone'
  BY <1>3 DEF EvictDeregister, Deregister
<1>4. ASSUME NEW h \in Handlers, EvictRemoveRoutes(h) \/ RemoveRoutes(h)
      PROVE  DroppedAreGone'
  BY <1>4 DEF EvictRemoveRoutes, RemoveRoutes
<1>5. ASSUME NEW h \in Handlers, RegisterEntry(h)
      PROVE  DroppedAreGone'
  BY <1>5 DEF RegisterEntry
<1>6. ASSUME NEW h \in Handlers, AddRoutes(h)
      PROVE  DroppedAreGone'
  BY <1>6 DEF AddRoutes
<1>7. ASSUME NEW h \in Handlers, AddSpec(h) \/ ReadLen(h) \/ RemoveSpec(h)
      PROVE  DroppedAreGone'
  BY <1>7 DEF AddSpec, ReadLen, RemoveSpec, store
<1>8. ASSUME NEW h \in Handlers, Reply(h) \/ SetGauge(h)
      PROVE  DroppedAreGone'
  BY <1>8 DEF Reply, SetGauge, Finish
<1>9. ASSUME NEW id \in Ids, Heartbeat(id) \/ MarkDead(id) \/ TokenExpires(id)
      PROVE  DroppedAreGone'
  BY <1>9 DEF Heartbeat, MarkDead, TokenExpires, local
<1>10. CASE Restart
  BY <1>10, SomeType DEF Restart
<1>11. CASE UNCHANGED vars
  BY <1>11 DEF vars, store, local
<1> QED
  BY <1>1, <1>2, <1>3, <1>4, <1>5, <1>6, <1>7, <1>8, <1>9, <1>10, <1>11 DEF Next, Begin, Step

(* A new id stays private to its registration until the reply. *)
LEMMA PrivateStep ==
    TypeOK /\ LocalsMatch /\ OwnIdPrivate /\ [Next]_vars => OwnIdPrivate'
<1> SUFFICES ASSUME TypeOK, LocalsMatch, OwnIdPrivate, [Next]_vars PROVE OwnIdPrivate'
  OBVIOUS
<1> USE DEF TypeOK, Steps, RegisterSteps, DeregisterSteps, OwnSteps, Idle, LocalsMatch, OwnIdPrivate, registry, table, docs, ghosts
<1>1. ASSUME NEW h \in Handlers, NEW n \in Names, RegisterStart(h, n)
      PROVE  OwnIdPrivate'
  BY <1>1 DEF RegisterStart, IDsByName, store
<1>2. ASSUME NEW h \in Handlers, NEW id \in Ids,
             DeregisterStart(h, id) \/ AdminDeregisterStart(h, id)
      PROVE  OwnIdPrivate'
  BY <1>2 DEF DeregisterStart, AdminDeregisterStart, Remove, store
<1>3. ASSUME NEW h \in Handlers, EvictDeregister(h) \/ Deregister(h)
      PROVE  OwnIdPrivate'
  BY <1>3 DEF EvictDeregister, Deregister
<1>4. ASSUME NEW h \in Handlers, EvictRemoveRoutes(h) \/ RemoveRoutes(h)
      PROVE  OwnIdPrivate'
  BY <1>4 DEF EvictRemoveRoutes, RemoveRoutes
<1>5. ASSUME NEW h \in Handlers, RegisterEntry(h)
      PROVE  OwnIdPrivate'
  BY <1>5 DEF RegisterEntry
<1>6. ASSUME NEW h \in Handlers, AddRoutes(h)
      PROVE  OwnIdPrivate'
  BY <1>6 DEF AddRoutes
<1>7. ASSUME NEW h \in Handlers, AddSpec(h) \/ ReadLen(h) \/ RemoveSpec(h)
      PROVE  OwnIdPrivate'
  BY <1>7 DEF AddSpec, ReadLen, RemoveSpec, store
<1>8. ASSUME NEW h \in Handlers, Reply(h) \/ SetGauge(h)
      PROVE  OwnIdPrivate'
  BY <1>8 DEF Reply, SetGauge, Finish
<1>9. ASSUME NEW id \in Ids, Heartbeat(id) \/ MarkDead(id) \/ TokenExpires(id)
      PROVE  OwnIdPrivate'
  BY <1>9 DEF Heartbeat, MarkDead, TokenExpires, local
<1>10. CASE Restart
  BY <1>10, SomeType DEF Restart
<1>11. CASE UNCHANGED vars
  BY <1>11 DEF vars, store, local
<1> QED
  BY <1>1, <1>2, <1>3, <1>4, <1>5, <1>6, <1>7, <1>8, <1>9, <1>10, <1>11 DEF Next, Begin, Step

(* Registered plugins keep their routes. *)
LEMMA RoutedStep ==
    TypeOK /\ DroppedAreGone /\ RegisteredRouted /\ [Next]_vars => RegisteredRouted'
<1> SUFFICES ASSUME TypeOK, DroppedAreGone, RegisteredRouted, [Next]_vars PROVE RegisteredRouted'
  OBVIOUS
<1> USE DEF TypeOK, Steps, RegisterSteps, DeregisterSteps, OwnSteps, Idle, DroppedAreGone, RegisteredRouted, Routed, registry, table, docs, ghosts
<1>1. ASSUME NEW h \in Handlers, NEW n \in Names, RegisterStart(h, n)
      PROVE  RegisteredRouted'
  BY <1>1 DEF RegisterStart, IDsByName, store
<1>2. ASSUME NEW h \in Handlers, NEW id \in Ids,
             DeregisterStart(h, id) \/ AdminDeregisterStart(h, id)
      PROVE  RegisteredRouted'
  BY <1>2 DEF DeregisterStart, AdminDeregisterStart, Remove, store
<1>3. ASSUME NEW h \in Handlers, EvictDeregister(h) \/ Deregister(h)
      PROVE  RegisteredRouted'
  BY <1>3 DEF EvictDeregister, Deregister
<1>4. ASSUME NEW h \in Handlers, EvictRemoveRoutes(h) \/ RemoveRoutes(h)
      PROVE  RegisteredRouted'
  BY <1>4 DEF EvictRemoveRoutes, RemoveRoutes
<1>5. ASSUME NEW h \in Handlers, RegisterEntry(h)
      PROVE  RegisteredRouted'
  BY <1>5 DEF RegisterEntry
<1>6. ASSUME NEW h \in Handlers, AddRoutes(h)
      PROVE  RegisteredRouted'
  BY <1>6 DEF AddRoutes
<1>7. ASSUME NEW h \in Handlers, AddSpec(h) \/ ReadLen(h) \/ RemoveSpec(h)
      PROVE  RegisteredRouted'
  BY <1>7 DEF AddSpec, ReadLen, RemoveSpec, store
<1>8. ASSUME NEW h \in Handlers, Reply(h) \/ SetGauge(h)
      PROVE  RegisteredRouted'
  BY <1>8 DEF Reply, SetGauge, Finish
<1>9. ASSUME NEW id \in Ids, Heartbeat(id) \/ MarkDead(id) \/ TokenExpires(id)
      PROVE  RegisteredRouted'
  BY <1>9 DEF Heartbeat, MarkDead, TokenExpires, local
<1>10. CASE Restart
  BY <1>10, SomeType DEF Restart
<1>11. CASE UNCHANGED vars
  BY <1>11 DEF vars, store, local
<1> QED
  BY <1>1, <1>2, <1>3, <1>4, <1>5, <1>6, <1>7, <1>8, <1>9, <1>10, <1>11 DEF Next, Begin, Step

(* Routes are added for an id that was drawn, and ids stay drawn. *)
LEMMA RoutesOfUsedStep ==
    TypeOK /\ LocalsMatch /\ RoutesOfUsed /\ [Next]_vars => RoutesOfUsed'
<1> SUFFICES ASSUME TypeOK, LocalsMatch, RoutesOfUsed, [Next]_vars PROVE RoutesOfUsed'
  OBVIOUS
<1> USE DEF TypeOK, Steps, RegisterSteps, DeregisterSteps, Idle, LocalsMatch, RoutesOfUsed, Routed, registry, table, docs, ghosts
<1>1. ASSUME NEW h \in Handlers, NEW n \in Names, RegisterStart(h, n)
      PROVE  RoutesOfUsed'
  BY <1>1 DEF RegisterStart, IDsByName, store
<1>2. ASSUME NEW h \in Handlers, NEW id \in Ids,
             DeregisterStart(h, id) \/ AdminDeregisterStart(h, id)
      PROVE  RoutesOfUsed'
  BY <1>2 DEF DeregisterStart, AdminDeregisterStart, Remove, store
<1>3. ASSUME NEW h \in Handlers, EvictDeregister(h) \/ Deregister(h)
      PROVE  RoutesOfUsed'
  BY <1>3 DEF EvictDeregister, Deregister
<1>4. ASSUME NEW h \in Handlers, EvictRemoveRoutes(h) \/ RemoveRoutes(h)
      PROVE  RoutesOfUsed'
  BY <1>4 DEF EvictRemoveRoutes, RemoveRoutes
<1>5. ASSUME NEW h \in Handlers, RegisterEntry(h)
      PROVE  RoutesOfUsed'
  BY <1>5 DEF RegisterEntry
<1>6. ASSUME NEW h \in Handlers, AddRoutes(h)
      PROVE  RoutesOfUsed'
  BY <1>6 DEF AddRoutes
<1>7. ASSUME NEW h \in Handlers, AddSpec(h) \/ ReadLen(h) \/ RemoveSpec(h)
      PROVE  RoutesOfUsed'
  BY <1>7 DEF AddSpec, ReadLen, RemoveSpec, store
<1>8. ASSUME NEW h \in Handlers, Reply(h) \/ SetGauge(h)
      PROVE  RoutesOfUsed'
  BY <1>8 DEF Reply, SetGauge, Finish
<1>9. ASSUME NEW id \in Ids, Heartbeat(id) \/ MarkDead(id) \/ TokenExpires(id)
      PROVE  RoutesOfUsed'
  BY <1>9 DEF Heartbeat, MarkDead, TokenExpires, local
<1>10. CASE Restart
  BY <1>10, SomeType DEF Restart
<1>11. CASE UNCHANGED vars
  BY <1>11 DEF vars, store, local
<1> QED
  BY <1>1, <1>2, <1>3, <1>4, <1>5, <1>6, <1>7, <1>8, <1>9, <1>10, <1>11 DEF Next, Begin, Step

(* A second registration of a name puts it in clash. *)
LEMMA OneRegistrationStep ==
    TypeOK /\ OneRegistration /\ [Next]_vars => OneRegistration'
<1> SUFFICES ASSUME TypeOK, OneRegistration, [Next]_vars PROVE OneRegistration'
  OBVIOUS
<1> USE DEF TypeOK, Steps, RegisterSteps, DeregisterSteps, OwnSteps, Idle, OneRegistration, Registering, registry, table, docs, ghosts
<1>1. ASSUME NEW h \in Handlers, NEW n \in Names, RegisterStart(h, n)
      PROVE  OneRegistration'
  BY <1>1 DEF RegisterStart, IDsByName, store
<1>2. ASSUME NEW h \in Handlers, NEW id \in Ids,
             DeregisterStart(h, id) \/ AdminDeregisterStart(h, id)
      PROVE  OneRegistration'
  BY <1>2 DEF DeregisterStart, AdminDeregisterStart, Remove, store
<1>3. ASSUME NEW h \in Handlers, EvictDeregister(h) \/ Deregister(h)
      PROVE  OneRegistration'
  BY <1>3 DEF EvictDeregister, Deregister
<1>4. ASSUME NEW h \in Handlers, EvictRemoveRoutes(h) \/ RemoveRoutes(h)
      PROVE  OneRegistration'
  BY <1>4 DEF EvictRemoveRoutes, RemoveRoutes
<1>5. ASSUME NEW h \in Handlers, RegisterEntry(h)
      PROVE  OneRegistration'
  BY <1>5 DEF RegisterEntry
<1>6. ASSUME NEW h \in Handlers, AddRoutes(h)
      PROVE  OneRegistration'
  BY <1>6 DEF AddRoutes
<1>7. ASSUME NEW h \in Handlers, AddSpec(h) \/ ReadLen(h) \/ RemoveSpec(h)
      PROVE  OneRegistration'
  BY <1>7 DEF AddSpec, ReadLen, RemoveSpec, store
<1>8. ASSUME NEW h \in Handlers, Reply(h) \/ SetGauge(h)
      PROVE  OneRegistration'
  BY <1>8 DEF Reply, SetGauge, Finish
<1>9. ASSUME NEW id \in Ids, Heartbeat(id) \/ MarkDead(id) \/ TokenExpires(id)
      PROVE  OneRegistration'
  BY <1>9 DEF Heartbeat, MarkDead, TokenExpires, local
<1>10. CASE Restart
  BY <1>10, SomeType DEF Restart
<1>11. CASE UNCHANGED vars
  BY <1>11 DEF vars, store, local
<1> QED
  BY <1>1, <1>2, <1>3, <1>4, <1>5, <1>6, <1>7, <1>8, <1>9, <1>10, <1>11 DEF Next, Begin, Step

(* The only registration of a name sees every instance of it. *)
LEMMA EvictionStep ==
    TypeOK /\ LocalsMatch /\ OneRegistration /\ EvictionComplete /\ [Next]_vars => EvictionComplete'
<1> SUFFICES ASSUME TypeOK, LocalsMatch, OneRegistration, EvictionComplete, [Next]_vars PROVE EvictionComplete'
  OBVIOUS
<1> USE DEF TypeOK, Steps, RegisterSteps, DeregisterSteps, OwnSteps, Idle, LocalsMatch, OneRegistration, EvictionComplete, IDsByName, registry, table, docs, ghosts
<1>1. ASSUME NEW h \in Handlers, NEW n \in Names, RegisterStart(h, n)
      PROVE  EvictionComplete'
  BY <1>1 DEF RegisterStart, IDsByName, store
<1>2. ASSUME NEW h \in Handlers, NEW id \in Ids,
             DeregisterStart(h, id) \/ AdminDeregisterStart(h, id)
      PROVE  EvictionComplete'
  BY <1>2 DEF DeregisterStart, AdminDeregisterStart, Remove, store
<1>3. ASSUME NEW h \in Handlers, EvictDeregister(h) \/ Deregister(h)
      PROVE  EvictionComplete'
  BY <1>3 DEF EvictDeregister, Deregister
<1>4. ASSUME NEW h \in Handlers, EvictRemoveRoutes(h) \/ RemoveRoutes(h)
      PROVE  EvictionComplete'
  BY <1>4 DEF EvictRemoveRoutes, RemoveRoutes
<1>5. ASSUME NEW h \in Handlers, RegisterEntry(h)
      PROVE  EvictionComplete'
  BY <1>5 DEF RegisterEntry
<1>6. ASSUME NEW h \in Handlers, AddRoutes(h)
      PROVE  EvictionComplete'
  BY <1>6 DEF AddRoutes
<1>7. ASSUME NEW h \in Handlers, AddSpec(h) \/ ReadLen(h) \/ RemoveSpec(h)
      PROVE  EvictionComplete'
  BY <1>7 DEF AddSpec, ReadLen, RemoveSpec, store
<1>8. ASSUME NEW h \in Handlers, Reply(h) \/ SetGauge(h)
      PROVE  EvictionComplete'
  BY <1>8 DEF Reply, SetGauge, Finish
<1>9. ASSUME NEW id \in Ids, Heartbeat(id) \/ MarkDead(id) \/ TokenExpires(id)
      PROVE  EvictionComplete'
  BY <1>9 DEF Heartbeat, MarkDead, TokenExpires, local
<1>10. CASE Restart
  BY <1>10, SomeType DEF Restart
<1>11. CASE UNCHANGED vars
  BY <1>11 DEF vars, store, local
<1> QED
  BY <1>1, <1>2, <1>3, <1>4, <1>5, <1>6, <1>7, <1>8, <1>9, <1>10, <1>11 DEF Next, Begin, Step

(* Nobody removes an entry before its routes exist. *)
LEMMA KeptStep ==
    TypeOK /\ LocalsMatch /\ OwnIdPrivate /\ OneRegistration /\ NewEntryKept /\ [Next]_vars => NewEntryKept'
<1> SUFFICES ASSUME TypeOK, LocalsMatch, OwnIdPrivate, OneRegistration, NewEntryKept, [Next]_vars PROVE NewEntryKept'
  OBVIOUS
<1> USE DEF TypeOK, Steps, RegisterSteps, DeregisterSteps, OwnSteps, Idle, LocalsMatch, OwnIdPrivate, OneRegistration, NewEntryKept, Registering, registry, table, docs, ghosts
<1>1. ASSUME NEW h \in Handlers, NEW n \in Names, RegisterStart(h, n)
      PROVE  NewEntryKept'
  BY <1>1 DEF RegisterStart, IDsByName, store
<1>2. ASSUME NEW h \in Handlers, NEW id \in Ids,
             DeregisterStart(h, id) \/ AdminDeregisterStart(h, id)
      PROVE  NewEntryKept'
  BY <1>2 DEF DeregisterStart, AdminDeregisterStart, Remove, store
<1>3. ASSUME NEW h \in Handlers, EvictDeregister(h) \/ Deregister(h)
      PROVE  NewEntryKept'
  BY <1>3 DEF EvictDeregister, Deregister
<1>4. ASSUME NEW h \in Handlers, EvictRemoveRoutes(h) \/ RemoveRoutes(h)
      PROVE  NewEntryKept'
  BY <1>4 DEF EvictRemoveRoutes, RemoveRoutes
<1>5. ASSUME NEW h \in Handlers, RegisterEntry(h)
      PROVE  NewEntryKept'
  BY <1>5 DEF RegisterEntry
<1>6. ASSUME NEW h \in Handlers, AddRoutes(h)
      PROVE  NewEntryKept'
  BY <1>6 DEF AddRoutes
<1>7. ASSUME NEW h \in Handlers, AddSpec(h) \/ ReadLen(h) \/ RemoveSpec(h)
      PROVE  NewEntryKept'
  BY <1>7 DEF AddSpec, ReadLen, RemoveSpec, store
<1>8. ASSUME NEW h \in Handlers, Reply(h) \/ SetGauge(h)
      PROVE  NewEntryKept'
  BY <1>8 DEF Reply, SetGauge, Finish
<1>9. ASSUME NEW id \in Ids, Heartbeat(id) \/ MarkDead(id) \/ TokenExpires(id)
      PROVE  NewEntryKept'
  BY <1>9 DEF Heartbeat, MarkDead, TokenExpires, local
<1>10. CASE Restart
  BY <1>10, SomeType DEF Restart
<1>11. CASE UNCHANGED vars
  BY <1>11 DEF vars, store, local
<1> QED
  BY <1>1, <1>2, <1>3, <1>4, <1>5, <1>6, <1>7, <1>8, <1>9, <1>10, <1>11 DEF Next, Begin, Step

(* Registration replaces, and routes go with their entry. *)
LEMMA CleanStep ==
    TypeOK /\ LocalsMatch /\ EvictionComplete /\ NewEntryKept /\ CleanReplacement /\ [Next]_vars => CleanReplacement'
<1> SUFFICES ASSUME TypeOK, LocalsMatch, EvictionComplete, NewEntryKept, CleanReplacement, [Next]_vars PROVE CleanReplacement'
  OBVIOUS
<1> USE DEF TypeOK, Steps, RegisterSteps, DeregisterSteps, OwnSteps, Idle, LocalsMatch, EvictionComplete, NewEntryKept, CleanReplacement, Dropping, Routed, IDsByName, registry, table, docs, ghosts
<1>1. ASSUME NEW h \in Handlers, NEW n \in Names, RegisterStart(h, n)
      PROVE  CleanReplacement'
  BY <1>1 DEF RegisterStart, IDsByName, store
<1>2. ASSUME NEW h \in Handlers, NEW id \in Ids,
             DeregisterStart(h, id) \/ AdminDeregisterStart(h, id)
      PROVE  CleanReplacement'
  BY <1>2 DEF DeregisterStart, AdminDeregisterStart, Remove, store
<1>3. ASSUME NEW h \in Handlers, EvictDeregister(h) \/ Deregister(h)
      PROVE  CleanReplacement'
  BY <1>3 DEF EvictDeregister, Deregister
<1>4. ASSUME NEW h \in Handlers, EvictRemoveRoutes(h) \/ RemoveRoutes(h)
      PROVE  CleanReplacement'
  BY <1>4 DEF EvictRemoveRoutes, RemoveRoutes
<1>5. ASSUME NEW h \in Handlers, RegisterEntry(h)
      PROVE  CleanReplacement'
  BY <1>5 DEF RegisterEntry
<1>6. ASSUME NEW h \in Handlers, AddRoutes(h)
      PROVE  CleanReplacement'
  BY <1>6 DEF AddRoutes
<1>7. ASSUME NEW h \in Handlers, AddSpec(h) \/ ReadLen(h) \/ RemoveSpec(h)
      PROVE  CleanReplacement'
  BY <1>7 DEF AddSpec, ReadLen, RemoveSpec, store
<1>8. ASSUME NEW h \in Handlers, Reply(h) \/ SetGauge(h)
      PROVE  CleanReplacement'
  BY <1>8 DEF Reply, SetGauge, Finish
<1>9. ASSUME NEW id \in Ids, Heartbeat(id) \/ MarkDead(id) \/ TokenExpires(id)
      PROVE  CleanReplacement'
  BY <1>9 DEF Heartbeat, MarkDead, TokenExpires, local
<1>10. CASE Restart
  BY <1>10, SomeType DEF Restart
<1>11. CASE UNCHANGED vars
  BY <1>11 DEF vars, store, local
<1> QED
  BY <1>1, <1>2, <1>3, <1>4, <1>5, <1>6, <1>7, <1>8, <1>9, <1>10, <1>11 DEF Next, Begin, Step

(* An empty registry counts nothing. *)
LEMMA EmptyCount == Cardinality({}) = 0
BY FS_EmptySet

(* A call without company reads and sets the size that stands. *)
LEMMA GaugeStep ==
    TypeOK /\ GaugeInv /\ [Next]_vars => GaugeInv'
<1> SUFFICES ASSUME TypeOK, GaugeInv, [Next]_vars PROVE GaugeInv'
  OBVIOUS
<1> USE DEF TypeOK, Steps, RegisterSteps, DeregisterSteps, OwnSteps, Idle, GaugeInv, Quiet, registry, table, docs, ghosts
<1>1. ASSUME NEW h \in Handlers, NEW n \in Names, RegisterStart(h, n)
      PROVE  GaugeInv'
  BY <1>1 DEF RegisterStart, store
<1>2. ASSUME NEW h \in Handlers, NEW id \in Ids,
             DeregisterStart(h, id) \/ AdminDeregisterStart(h, id)
      PROVE  GaugeInv'
  <2>1. CASE DeregisterStart(h, id)
    BY <2>1 DEF DeregisterStart, Remove, store
  <2>2. CASE AdminDeregisterStart(h, id)
    BY <2>2 DEF AdminDeregisterStart, Remove, store
  <2>3. QED
    BY <1>2, <2>1, <2>2, Zenon
<1>3. ASSUME NEW h \in Handlers, EvictDeregister(h) \/ Deregister(h)
      PROVE  GaugeInv'
  BY <1>3 DEF EvictDeregister, Deregister
<1>4. ASSUME NEW h \in Handlers, EvictRemoveRoutes(h) \/ RemoveRoutes(h)
      PROVE  GaugeInv'
  BY <1>4 DEF EvictRemoveRoutes, RemoveRoutes
<1>5. ASSUME NEW h \in Handlers, RegisterEntry(h)
      PROVE  GaugeInv'
  BY <1>5 DEF RegisterEntry
<1>6. ASSUME NEW h \in Handlers, AddRoutes(h)
      PROVE  GaugeInv'
  BY <1>6 DEF AddRoutes
<1>7. ASSUME NEW h \in Handlers, AddSpec(h)
      PROVE  GaugeInv'
  BY <1>7 DEF AddSpec
<1>8. ASSUME NEW h \in Handlers, ReadLen(h)
      PROVE  GaugeInv'
  BY <1>8 DEF ReadLen, store
<1>9. ASSUME NEW h \in Handlers, RemoveSpec(h)
      PROVE  GaugeInv'
  BY <1>9 DEF RemoveSpec
<1>10. ASSUME NEW h \in Handlers, Reply(h) \/ SetGauge(h)
      PROVE  GaugeInv'
  BY <1>10 DEF Reply, SetGauge, Finish
<1>11. ASSUME NEW id \in Ids, Heartbeat(id) \/ MarkDead(id) \/ TokenExpires(id)
      PROVE  GaugeInv'
  BY <1>11 DEF Heartbeat, MarkDead, TokenExpires, local
<1>12. CASE Restart
  BY <1>12, SomeType, EmptyCount DEF Restart
<1>13. CASE UNCHANGED vars
  BY <1>13 DEF vars, store, local
<1> QED
  BY <1>1, <1>2, <1>3, <1>4, <1>5, <1>6, <1>7, <1>8, <1>9, <1>10, <1>11, <1>12, <1>13
     DEF Next, Begin, Step

(* A second call on a name crosses it. *)
LEMMA OneCallStep ==
    TypeOK /\ OneCall /\ [Next]_vars => OneCall'
<1> SUFFICES ASSUME TypeOK, OneCall, [Next]_vars PROVE OneCall'
  OBVIOUS
<1> USE DEF TypeOK, Steps, RegisterSteps, DeregisterSteps, OwnSteps, Idle, OneCall, WorkedOn, registry, table, docs, ghosts
<1>1. ASSUME NEW h \in Handlers, NEW n \in Names, RegisterStart(h, n)
      PROVE  OneCall'
  BY <1>1 DEF RegisterStart, store
<1>2. ASSUME NEW h \in Handlers, NEW id \in Ids,
             DeregisterStart(h, id) \/ AdminDeregisterStart(h, id)
      PROVE  OneCall'
  BY <1>2 DEF DeregisterStart, AdminDeregisterStart, Remove, store
<1>3. ASSUME NEW h \in Handlers, EvictDeregister(h) \/ Deregister(h)
      PROVE  OneCall'
  BY <1>3 DEF EvictDeregister, Deregister
<1>4. ASSUME NEW h \in Handlers, EvictRemoveRoutes(h) \/ RemoveRoutes(h)
      PROVE  OneCall'
  BY <1>4 DEF EvictRemoveRoutes, RemoveRoutes
<1>5. ASSUME NEW h \in Handlers, RegisterEntry(h)
      PROVE  OneCall'
  BY <1>5 DEF RegisterEntry
<1>6. ASSUME NEW h \in Handlers, AddRoutes(h)
      PROVE  OneCall'
  BY <1>6 DEF AddRoutes
<1>7. ASSUME NEW h \in Handlers, AddSpec(h)
      PROVE  OneCall'
  BY <1>7 DEF AddSpec
<1>8. ASSUME NEW h \in Handlers, ReadLen(h)
      PROVE  OneCall'
  BY <1>8 DEF ReadLen, store
<1>9. ASSUME NEW h \in Handlers, RemoveSpec(h)
      PROVE  OneCall'
  BY <1>9 DEF RemoveSpec
<1>10. ASSUME NEW h \in Handlers, Reply(h) \/ SetGauge(h)
      PROVE  OneCall'
  BY <1>10 DEF Reply, SetGauge, Finish
<1>11. ASSUME NEW id \in Ids, Heartbeat(id) \/ MarkDead(id) \/ TokenExpires(id)
      PROVE  OneCall'
  BY <1>11 DEF Heartbeat, MarkDead, TokenExpires, local
<1>12. CASE Restart
  BY <1>12, SomeType DEF Restart
<1>13. CASE UNCHANGED vars
  BY <1>13 DEF vars, store, local
<1> QED
  BY <1>1, <1>2, <1>3, <1>4, <1>5, <1>6, <1>7, <1>8, <1>9, <1>10, <1>11, <1>12, <1>13
     DEF Next, Begin, Step

(* A new id has no spec until its registration stores one. *)
LEMMA DocumentedStep ==
    TypeOK /\ LocalsMatch /\ OwnIdPrivate /\ NotYetDocumented /\ [Next]_vars => NotYetDocumented'
<1> SUFFICES ASSUME TypeOK, LocalsMatch, OwnIdPrivate, NotYetDocumented, [Next]_vars PROVE NotYetDocumented'
  OBVIOUS
<1> USE DEF TypeOK, Steps, RegisterSteps, DeregisterSteps, OwnSteps, Idle, LocalsMatch, OwnIdPrivate, NotYetDocumented, registry, table, docs, ghosts
<1>1. ASSUME NEW h \in Handlers, NEW n \in Names, RegisterStart(h, n)
      PROVE  NotYetDocumented'
  BY <1>1 DEF RegisterStart, store
<1>2. ASSUME NEW h \in Handlers, NEW id \in Ids,
             DeregisterStart(h, id) \/ AdminDeregisterStart(h, id)
      PROVE  NotYetDocumented'
  BY <1>2 DEF DeregisterStart, AdminDeregisterStart, Remove, store
<1>3. ASSUME NEW h \in Handlers, EvictDeregister(h) \/ Deregister(h)
      PROVE  NotYetDocumented'
  BY <1>3 DEF EvictDeregister, Deregister
<1>4. ASSUME NEW h \in Handlers, EvictRemoveRoutes(h) \/ RemoveRoutes(h)
      PROVE  NotYetDocumented'
  BY <1>4 DEF EvictRemoveRoutes, RemoveRoutes
<1>5. ASSUME NEW h \in Handlers, RegisterEntry(h)
      PROVE  NotYetDocumented'
  BY <1>5 DEF RegisterEntry
<1>6. ASSUME NEW h \in Handlers, AddRoutes(h)
      PROVE  NotYetDocumented'
  BY <1>6 DEF AddRoutes
<1>7. ASSUME NEW h \in Handlers, AddSpec(h)
      PROVE  NotYetDocumented'
  BY <1>7 DEF AddSpec
<1>8. ASSUME NEW h \in Handlers, ReadLen(h)
      PROVE  NotYetDocumented'
  BY <1>8 DEF ReadLen, store
<1>9. ASSUME NEW h \in Handlers, RemoveSpec(h)
      PROVE  NotYetDocumented'
  BY <1>9 DEF RemoveSpec
<1>10. ASSUME NEW h \in Handlers, Reply(h) \/ SetGauge(h)
      PROVE  NotYetDocumented'
  BY <1>10 DEF Reply, SetGauge, Finish
<1>11. ASSUME NEW id \in Ids, Heartbeat(id) \/ MarkDead(id) \/ TokenExpires(id)
      PROVE  NotYetDocumented'
  BY <1>11 DEF Heartbeat, MarkDead, TokenExpires, local
<1>12. CASE Restart
  BY <1>12, SomeType DEF Restart
<1>13. CASE UNCHANGED vars
  BY <1>13 DEF vars, store, local
<1> QED
  BY <1>1, <1>2, <1>3, <1>4, <1>5, <1>6, <1>7, <1>8, <1>9, <1>10, <1>11, <1>12, <1>13
     DEF Next, Begin, Step

(* The only call on a name knows every instance of it. *)
LEMMA InstancesStep ==
    TypeOK /\ LocalsMatch /\ OneCall /\ InstancesKnown /\ [Next]_vars => InstancesKnown'
<1> SUFFICES ASSUME TypeOK, LocalsMatch, OneCall, InstancesKnown, [Next]_vars PROVE InstancesKnown'
  OBVIOUS
<1> USE DEF TypeOK, Steps, RegisterSteps, DeregisterSteps, OwnSteps, Idle, LocalsMatch, OneCall, InstancesKnown, WorkedOn, IDsByName, registry, table, docs, ghosts
<1>1. ASSUME NEW h \in Handlers, NEW n \in Names, RegisterStart(h, n)
      PROVE  InstancesKnown'
  BY <1>1 DEF RegisterStart, store
<1>2. ASSUME NEW h \in Handlers, NEW id \in Ids,
             DeregisterStart(h, id) \/ AdminDeregisterStart(h, id)
      PROVE  InstancesKnown'
  <2> DEFINE m == Name(id)
  <2>1. /\ pc' = [pc EXCEPT ![h] = "deregister"] /\ nm' = [nm EXCEPT ![h] = m]
        /\ cur' = [cur EXCEPT ![h] = id] /\ todo' = todo /\ registered' = registered
        /\ crossed' = IF WorkedOn(m) THEN crossed \union {m} ELSE crossed
        /\ id \in registered /\ pc[h] = "idle"
    BY <1>2 DEF DeregisterStart, AdminDeregisterStart, Remove, store
  <2>2. \A n : (n \notin crossed' => n \notin crossed) /\ IDsByName(n)' = IDsByName(n)
    BY <2>1
  <2>3. ASSUME NEW n \in Names, n \notin crossed', ~WorkedOn(n)'
        PROVE \A a, b \in IDsByName(n)' : a = b
    BY <2>1, <2>2, <2>3
  <2>4. m \notin crossed' => IDsByName(m) \subseteq {id}
    BY <2>1, <2>2, NameType
  <2>5. ASSUME NEW g \in Handlers, nm'[g] \notin crossed'
        PROVE /\ pc'[g] \in {"evict", "evictRoutes"} => IDsByName(nm[g])' \subseteq todo'[g]
              /\ pc'[g] \in OwnSteps \union {"deregister"} => IDsByName(nm[g])' \subseteq {cur'[g]}
              /\ pc'[g] \in DeregisterSteps \ {"deregister"} => IDsByName(nm[g])' = {}
    <3>1. CASE g = h
      BY <2>1, <2>2, <2>4, <2>5, <3>1
    <3>2. CASE g # h
      BY <2>1, <2>2, <2>5, <3>2
    <3> QED
      BY <3>1, <3>2
  <2> QED
    BY <2>3, <2>5
<1>3. ASSUME NEW h \in Handlers, EvictDeregister(h) \/ Deregister(h)
      PROVE  InstancesKnown'
  BY <1>3 DEF EvictDeregister, Deregister
<1>4. ASSUME NEW h \in Handlers, EvictRemoveRoutes(h) \/ RemoveRoutes(h)
      PROVE  InstancesKnown'
  BY <1>4 DEF EvictRemoveRoutes, RemoveRoutes
<1>5. ASSUME NEW h \in Handlers, RegisterEntry(h)
      PROVE  InstancesKnown'
  BY <1>5 DEF RegisterEntry
<1>6. ASSUME NEW h \in Handlers, AddRoutes(h)
      PROVE  InstancesKnown'
  BY <1>6 DEF AddRoutes
<1>7. ASSUME NEW h \in Handlers, AddSpec(h)
      PROVE  InstancesKnown'
  BY <1>7 DEF AddSpec
<1>8. ASSUME NEW h \in Handlers, ReadLen(h)
      PROVE  InstancesKnown'
  BY <1>8 DEF ReadLen, store
<1>9. ASSUME NEW h \in Handlers, RemoveSpec(h)
      PROVE  InstancesKnown'
  BY <1>9 DEF RemoveSpec
<1>10. ASSUME NEW h \in Handlers, Reply(h) \/ SetGauge(h)
      PROVE  InstancesKnown'
  BY <1>10 DEF Reply, SetGauge, Finish
<1>11. ASSUME NEW id \in Ids, Heartbeat(id) \/ MarkDead(id) \/ TokenExpires(id)
      PROVE  InstancesKnown'
  BY <1>11 DEF Heartbeat, MarkDead, TokenExpires, local
<1>12. CASE Restart
  BY <1>12, SomeType DEF Restart
<1>13. CASE UNCHANGED vars
  BY <1>13 DEF vars, store, local
<1> QED
  BY <1>1, <1>2, <1>3, <1>4, <1>5, <1>6, <1>7, <1>8, <1>9, <1>10, <1>11, <1>12, <1>13
     DEF Next, Begin, Step

(* A stored spec stays until the removal of its own plugin. *)
LEMMA SpecsStep ==
    TypeOK /\ LocalsMatch /\ OneCall /\ NotYetDocumented /\ InstancesKnown /\ SpecsKept /\ [Next]_vars => SpecsKept'
<1> SUFFICES ASSUME TypeOK, LocalsMatch, OneCall, NotYetDocumented, InstancesKnown, SpecsKept, [Next]_vars PROVE SpecsKept'
  OBVIOUS
<1> USE DEF TypeOK, Steps, RegisterSteps, DeregisterSteps, OwnSteps, Idle, LocalsMatch, OneCall, NotYetDocumented, InstancesKnown, SpecsKept, DocsComplete, WorkedOn, IDsByName, SpecsOfOthers, registry, table, docs, ghosts
<1>1. ASSUME NEW h \in Handlers, NEW n \in Names, RegisterStart(h, n)
      PROVE  SpecsKept'
  BY <1>1 DEF RegisterStart, store
<1>2. ASSUME NEW h \in Handlers, NEW id \in Ids,
             DeregisterStart(h, id) \/ AdminDeregisterStart(h, id)
      PROVE  SpecsKept'
  BY <1>2 DEF DeregisterStart, AdminDeregisterStart, Remove, store
<1>3. ASSUME NEW h \in Handlers, EvictDeregister(h) \/ Deregister(h)
      PROVE  SpecsKept'
  BY <1>3 DEF EvictDeregister, Deregister
<1>4. ASSUME NEW h \in Handlers, EvictRemoveRoutes(h) \/ RemoveRoutes(h)
      PROVE  SpecsKept'
  BY <1>4 DEF EvictRemoveRoutes, RemoveRoutes
<1>5. ASSUME NEW h \in Handlers, RegisterEntry(h)
      PROVE  SpecsKept'
  BY <1>5 DEF RegisterEntry
<1>6. ASSUME NEW h \in Handlers, AddRoutes(h)
      PROVE  SpecsKept'
  BY <1>6 DEF AddRoutes
<1>7. ASSUME NEW h \in Handlers, AddSpec(h)
      PROVE  SpecsKept'
  BY <1>7 DEF AddSpec
<1>8. ASSUME NEW h \in Handlers, ReadLen(h)
      PROVE  SpecsKept'
  BY <1>8 DEF ReadLen, store
<1>9. ASSUME NEW h \in Handlers, RemoveSpec(h)
      PROVE  SpecsKept'
  BY <1>9 DEF RemoveSpec
<1>10. ASSUME NEW h \in Handlers, Reply(h) \/ SetGauge(h)
      PROVE  SpecsKept'
  BY <1>10 DEF Reply, SetGauge, Finish
<1>11. ASSUME NEW id \in Ids, Heartbeat(id) \/ MarkDead(id) \/ TokenExpires(id)
      PROVE  SpecsKept'
  BY <1>11 DEF Heartbeat, MarkDead, TokenExpires, local
<1>12. CASE Restart
  BY <1>12, SomeType DEF Restart
<1>13. CASE UNCHANGED vars
  BY <1>13 DEF vars, store, local
<1> QED
  BY <1>1, <1>2, <1>3, <1>4, <1>5, <1>6, <1>7, <1>8, <1>9, <1>10, <1>11, <1>12, <1>13
     DEF Next, Begin, Step

(* The invariant holds initially. *)
LEMMA IndInit == Init => IndInv
<1> SUFFICES ASSUME Init PROVE IndInv
  OBVIOUS
<1>1. TypeOK
  BY TypeInit
<1>2. LocalsMatch /\ DroppedAreGone /\ OwnIdPrivate /\ RegisteredRouted
  BY DEF Init, LocalsMatch, DroppedAreGone, OwnIdPrivate, OwnSteps, RegisteredRouted
<1>3. OneRegistration /\ EvictionComplete /\ NewEntryKept
  BY DEF Init, OneRegistration, EvictionComplete, NewEntryKept, OwnSteps, RegisterSteps
<1>4. CleanReplacement /\ RoutesOfUsed
  BY DEF Init, CleanReplacement, RoutesOfUsed, IDsByName, Routed
<1>5. GaugeInv
  BY EmptyCount DEF Init, GaugeInv, Idle
<1>6. OneCall /\ NotYetDocumented /\ InstancesKnown /\ SpecsKept
  BY DEF Init, OneCall, NotYetDocumented, InstancesKnown, SpecsKept, DocsComplete,
         IDsByName, Idle, OwnSteps, DeregisterSteps
<1> QED
  BY <1>1, <1>2, <1>3, <1>4, <1>5, <1>6 DEF IndInv

(* Every step of every handler, and every stuttering step, keeps it. *)
LEMMA IndStep == IndInv /\ [Next]_vars => IndInv'
BY TypeStep, LocalsStep, GoneStep, PrivateStep, RoutedStep, RoutesOfUsedStep,
   OneRegistrationStep, EvictionStep, KeptStep, CleanStep, GaugeStep, OneCallStep, DocumentedStep,
   InstancesStep, SpecsStep
   DEF IndInv

(* The inductive invariant holds in every reachable state. *)
THEOREM Invariant == Spec => []IndInv
BY IndInit, IndStep, PTL DEF Spec

(* Types, for every number of plugins and of concurrent control-plane calls. *)
THEOREM TypeCorrect == Spec => []TypeOK
<1>1. IndInv => TypeOK
  BY DEF IndInv
<1> QED
  BY Invariant, <1>1, PTL

(* A registered plugin has its routes, whatever calls run beside its own      *)
(* registration (handlers.go:283-382).                                        *)
THEOREM RegisteredPluginsAreRouted == Spec => []RegisteredRouted
<1>1. IndInv => RegisteredRouted
  BY DEF IndInv
<1> QED
  BY Invariant, <1>1, PTL

(* Registration replaces, and no route outlives its plugin, for every name    *)
(* whose registrations did not overlap (handlers.go:312-327).                 *)
THEOREM RegistrationReplaces == Spec => []CleanReplacement
<1>1. IndInv => CleanReplacement
  BY DEF IndInv
<1> QED
  BY Invariant, <1>1, PTL

(* The gauge is the size of the registry after any call that ran alone,       *)
(* whatever overlapping calls left in it before (handlers.go:273, 332, 379).       *)
THEOREM GaugeIsExact == Spec => []GaugeExact
<1>1. IndInv => GaugeExact
  BY DEF IndInv, GaugeInv, GaugeExact
<1> QED
  BY Invariant, <1>1, PTL

(* The documents cover every registered plugin with a spec, name by name,     *)
(* unless calls on that name crossed (injector.go:27-55).                     *)
THEOREM DocsAreComplete == Spec => []DocsComplete
<1>1. IndInv => DocsComplete
  BY DEF IndInv, SpecsKept
<1> QED
  BY Invariant, <1>1, PTL

(***************************************************************************)
(* The lifecycle of an instance.                                           *)
(***************************************************************************)
(* A step that changes nothing of an instance but for one id moves that id. *)
LEMMA OnlyOneMoves ==
    ASSUME NEW id \in Ids,
           \A other \in Ids \ {id} :
               /\ other \in registered' <=> other \in registered
               /\ other \in used' <=> other \in used
               /\ added'[other] = added[other]
    PROVE  Phase' = [Phase EXCEPT ![id] = Phase'[id]]
BY DEF Phase, Routed

(* A step that changes neither the registry's ids nor the table moves none. *)
LEMMA NobodyMoves ==
    ASSUME UNCHANGED <<registered, used, added>>
    PROVE  Phase' = Phase
BY DEF Phase, Routed

(* RegisterEntry: the id is new, and on an undisputed name nobody is listed.  *)
LEMMA RegisterIsLife ==
    ASSUME IndInv, NEW h \in Handlers, RegisterEntry(h)
    PROVE  Life!Next
<1>1. PICK id \in Ids \ used : /\ Name(id) = nm[h]
                               /\ used' = used \union {id}
                               /\ registered' = registered \union {id}
  BY DEF RegisterEntry
<1>2. added' = added /\ clash' = clash /\ pc[h] = "evict" /\ todo[h] = {}
  BY DEF RegisterEntry, table, ghosts
<1>3. Phase' = [Phase EXCEPT ![id] = Phase'[id]]
  BY <1>1, <1>2, OnlyOneMoves
<1>4. added \in [Ids -> Nat] /\ added[id] = 0 /\ registered \subseteq used
  BY <1>1 DEF IndInv, TypeOK, RoutesOfUsed, Routed
<1>5. Phase[id] = "new" /\ Phase'[id] = "registered"
  BY <1>1, <1>2, <1>4 DEF Phase, Routed
<1>6. ASSUME Name(id) \notin clash, NEW other \in Ids, Name(other) = Name(id)
      PROVE  Phase[other] \notin {"registered", "routed"}
  <2>1. IDsByName(nm[h]) \subseteq todo[h]
    BY <1>1, <1>2, <1>6 DEF IndInv, EvictionComplete
  <2>2. other \notin registered
    BY <1>1, <1>2, <1>6, <2>1 DEF IDsByName
  <2> QED
    BY <2>2 DEF Phase
<1> QED
  BY <1>1, <1>2, <1>3, <1>5, <1>6
     DEF Life!Next, Life!Register, Life!Move, Life!Listed, Life!Ids, Life!Name, Ids, Name

(* AddRoutes: of a registered id, or of one of a disputed name.               *)
LEMMA AddRoutesIsLife ==
    ASSUME IndInv, NEW h \in Handlers, AddRoutes(h)
    PROVE  Life!Next \/ UNCHANGED <<Phase, clash>>
<1> DEFINE id == cur[h]
<1>1. /\ id \in Ids /\ id \in used /\ Name(id) = nm[h] /\ calls \in Nat
      /\ added \in [Ids -> Nat] /\ pc[h] = "addRoutes"
  BY DEF IndInv, TypeOK, LocalsMatch, AddRoutes
<1>2. /\ added' = [added EXCEPT ![id] = calls + 1]
      /\ UNCHANGED <<registered, used, clash>>
  BY DEF AddRoutes, registry, ghosts
<1>3. added'[id] > 0
  BY <1>1, <1>2
<1> HIDE DEF id
<1>4. Phase' = [Phase EXCEPT ![id] = Phase'[id]]
  BY <1>1, <1>2, OnlyOneMoves
<1>5. CASE id \in registered
  <2>1. Phase'[id] = "routed" /\ Phase[id] \in {"registered", "routed"}
    BY <1>1, <1>2, <1>3, <1>5 DEF Phase, Routed
  <2>2. CASE Phase[id] = "registered"
    BY <1>1, <1>2, <1>4, <2>1, <2>2
       DEF Life!Next, Life!AddRoutes, Life!Move, Life!Ids, Ids
  <2>3. CASE Phase[id] = "routed"
    BY <1>2, <1>4, <2>1, <2>3 DEF Phase
  <2> QED
    BY <2>1, <2>2, <2>3
<1>6. CASE id \notin registered
  <2>1. Phase'[id] = "leaving" /\ Phase[id] \in {"gone", "leaving"}
    BY <1>1, <1>2, <1>3, <1>6 DEF Phase, Routed
  <2>2. Name(id) \in clash
    BY <1>1, <1>6 DEF IndInv, NewEntryKept, id
  <2>3. CASE Phase[id] = "gone"
    BY <1>1, <1>2, <1>4, <2>1, <2>2, <2>3
       DEF Life!Next, Life!AddRoutes, Life!Move, Life!Name, Name, Life!Ids, Ids
  <2>4. CASE Phase[id] = "leaving"
    BY <1>2, <1>4, <2>1, <2>4 DEF Phase
  <2> QED
    BY <2>1, <2>3, <2>4
<1> QED
  BY <1>5, <1>6

(* reg.Deregister of an id of the registry: it has its routes, unless its     *)
(* name is disputed, because nobody else removes what a registration has yet  *)
(* to finish.                                                                 *)
LEMMA LeavingIsLife ==
    ASSUME IndInv, NEW h \in Handlers, NEW id \in used,
           UNCHANGED <<added, used, clash>>, registered' = registered \ {id},
           \/ pc[h] = "evict" /\ id \in todo[h]
           \/ pc[h] = "deregister" /\ id = cur[h]
    PROVE  Life!Next \/ UNCHANGED <<Phase, clash>>
<1>1. id \in Ids /\ added \in [Ids -> Nat]
  BY DEF IndInv, TypeOK
<1>2. CASE id \notin registered
  BY <1>2, NobodyMoves
<1>3. CASE id \in registered
  <2>1. Phase' = [Phase EXCEPT ![id] = Phase'[id]]
    BY <1>1, OnlyOneMoves
  <2>2. CASE Routed(id)
    <3>1. Phase[id] = "routed" /\ Phase'[id] = "leaving"
      BY <1>1, <1>3, <2>2 DEF Phase, Routed
    <3> QED
      BY <1>1, <2>1, <3>1 DEF Life!Next, Life!Deregister, Life!Move, Life!Ids, Ids
  <2>3. CASE ~Routed(id)
    <3>1. Phase[id] = "registered" /\ Phase'[id] = "gone"
      BY <1>1, <1>3, <2>3 DEF Phase, Routed
    <3>2. PICK g \in Handlers : pc[g] = "addRoutes" /\ cur[g] = id
      BY <1>3, <2>3 DEF IndInv, RegisteredRouted
    <3>3. Name(id) = nm[g] /\ nm[g] \in Names
      BY <3>2 DEF IndInv, LocalsMatch, TypeOK
    <3>4. Name(id) \in clash
      <4>1. CASE pc[h] = "evict" /\ id \in todo[h]
        <5>1. Name(id) = nm[h]
          BY <4>1 DEF IndInv, LocalsMatch
        <5> QED
          BY <3>2, <3>3, <4>1, <5>1 DEF IndInv, OneRegistration, RegisterSteps
      <4>2. CASE pc[h] = "deregister" /\ id = cur[h]
        BY <3>2, <3>3, <4>2 DEF IndInv, NewEntryKept
      <4> QED
        BY <4>1, <4>2
    <3> QED
      BY <1>1, <2>1, <3>1, <3>4
         DEF Life!Next, Life!Deregister, Life!Move, Life!Name, Name, Life!Ids, Ids
  <2> QED
    BY <2>2, <2>3
<1> QED
  BY <1>2, <1>3

(* disp.RemoveRoutes of an id that has left the registry.                     *)
LEMMA UnroutingIsLife ==
    ASSUME IndInv, NEW h \in Handlers, pc[h] \in {"evictRoutes", "removeRoutes"},
           added' = [added EXCEPT ![cur[h]] = 0], UNCHANGED <<registered, used, clash>>
    PROVE  Life!Next \/ UNCHANGED <<Phase, clash>>
<1> DEFINE id == cur[h]
<1>1. id \in Ids /\ id \in used /\ id \notin registered /\ added \in [Ids -> Nat]
  BY DEF IndInv, TypeOK, LocalsMatch, DroppedAreGone
<1> HIDE DEF id
<1>2. added' = [added EXCEPT ![id] = 0]
  BY DEF id
<1>3. Phase' = [Phase EXCEPT ![id] = Phase'[id]]
  BY <1>1, <1>2, OnlyOneMoves
<1>4. Phase'[id] = "gone" /\ Phase[id] \in {"leaving", "gone"}
  BY <1>1, <1>2 DEF Phase, Routed
<1>5. CASE Phase[id] = "leaving"
  BY <1>1, <1>3, <1>4, <1>5 DEF Life!Next, Life!RemoveRoutes, Life!Move, Life!Ids, Ids
<1>6. CASE Phase[id] = "gone"
  BY <1>3, <1>4, <1>6 DEF Phase
<1> QED
  BY <1>4, <1>5, <1>6

(* A restart ends every life.                                                 *)
LEMMA RestartIsLife ==
    ASSUME IndInv, Restart
    PROVE  Life!Next
<1>1. /\ registered' = {} /\ used' = used /\ clash' = {}
      /\ added' = [id \in Ids |-> 0]
  BY DEF Restart
<1>2. registered \subseteq used /\ \A id \in Ids : Routed(id) => id \in used
  BY DEF IndInv, TypeOK, RoutesOfUsed
<1>3. Phase' = [id \in Ids |-> IF Phase[id] = "new" THEN "new" ELSE "gone"]
  BY <1>1, <1>2 DEF Phase, Routed
<1> QED
  BY <1>1, <1>3 DEF Life!Next, Life!Restart, Life!Ids, Ids

(* The handlers implement the lifecycle: every step of theirs is a step of it *)
(* for one instance, or leaves it where it is (handlers.go:283-382).          *)
THEOREM HandlersFollowLifecycle == Spec => FollowsLifecycle
<1>1. Init => Life!Init
  BY DEF Init, Life!Init, Phase, Routed, Life!Ids, Ids
<1>2. IndInv /\ [Next]_vars => [Life!Next]_<<Phase, clash>>
  <2> SUFFICES ASSUME IndInv, [Next]_vars
               PROVE  Life!Next \/ UNCHANGED <<Phase, clash>>
    OBVIOUS
  <2>1. ASSUME UNCHANGED <<registered, used, added>>, clash \subseteq clash'
        PROVE  Life!Next
    BY <2>1, NobodyMoves DEF Life!Next, Life!Dispute
  <2>2. ASSUME NEW h \in Handlers, Begin(h)
        PROVE  UNCHANGED <<registered, used, added>> /\ clash \subseteq clash'
    BY <2>2 DEF Begin, RegisterStart, DeregisterStart, AdminDeregisterStart, Remove,
                store, registry, table
  <2>3. ASSUME NEW h \in Handlers,
               AddSpec(h) \/ ReadLen(h) \/ Reply(h) \/ RemoveSpec(h) \/ SetGauge(h)
        PROVE  UNCHANGED <<registered, used, added>> /\ clash \subseteq clash'
    BY <2>3 DEF AddSpec, ReadLen, Reply, RemoveSpec, SetGauge, store, registry, table, ghosts
  <2>4. ASSUME NEW id \in Ids, Heartbeat(id) \/ MarkDead(id) \/ TokenExpires(id)
        PROVE  UNCHANGED <<registered, used, added>> /\ clash \subseteq clash'
    BY <2>4 DEF Heartbeat, MarkDead, TokenExpires, registry, table, ghosts
  <2>5. ASSUME NEW h \in Handlers, EvictDeregister(h)
        PROVE  Life!Next \/ UNCHANGED <<Phase, clash>>
    <3>1. PICK id \in todo[h] : registered' = registered \ {id}
      BY <2>5 DEF EvictDeregister
    <3>2. pc[h] = "evict" /\ id \in used /\ UNCHANGED <<added, used, clash>>
      BY <2>5 DEF EvictDeregister, IndInv, TypeOK, table, ghosts
    <3> QED
      BY <3>1, <3>2, LeavingIsLife
  <2>6. ASSUME NEW h \in Handlers, Deregister(h)
        PROVE  Life!Next \/ UNCHANGED <<Phase, clash>>
    <3>1. /\ pc[h] = "deregister" /\ cur[h] \in used
          /\ registered' = registered \ {cur[h]} /\ UNCHANGED <<added, used, clash>>
      BY <2>6 DEF Deregister, IndInv, LocalsMatch, table, ghosts
    <3> QED
      BY <3>1, LeavingIsLife
  <2>7. ASSUME NEW h \in Handlers, EvictRemoveRoutes(h) \/ RemoveRoutes(h)
        PROVE  Life!Next \/ UNCHANGED <<Phase, clash>>
    <3>1. /\ pc[h] \in {"evictRoutes", "removeRoutes"}
          /\ added' = [added EXCEPT ![cur[h]] = 0] /\ UNCHANGED <<registered, used, clash>>
      BY <2>7 DEF EvictRemoveRoutes, RemoveRoutes, registry, ghosts
    <3> QED
      BY <3>1, UnroutingIsLife
  <2>8. CASE UNCHANGED vars
    <3>1. UNCHANGED <<registered, used, added, clash>>
      BY <2>8 DEF vars, store, registry, table, ghosts
    <3> QED
      BY <2>1, <3>1
  <2> QED
    BY <2>1, <2>2, <2>3, <2>4, <2>5, <2>6, <2>7, <2>8,
       RegisterIsLife, AddRoutesIsLife, RestartIsLife DEF Next, Step
<1> QED
  BY Invariant, <1>1, <1>2, PTL DEF Spec, FollowsLifecycle, Life!Spec
=============================================================================
