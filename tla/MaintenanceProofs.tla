------------------------- MODULE MaintenanceProofs --------------------------
(***************************************************************************)
(* Proofs about Maintenance, for any plugins, requests and durations.      *)
(***************************************************************************)
EXTENDS Maintenance, TLAPS

(* The name of an idle goroutine is a name. *)
LEMMA SomeNameType == SomeName \in Names
BY MaintenanceAssumption DEF SomeName

(* Whatever was asked for, overflow included, a window lasts at least one    *)
(* unit and at most maxMaintenance (maintenance.go:55-57).                   *)
LEMMA ClampRange == \A s \in Int : Clamp(Duration(s)) \in 1..MaxWindow
<1> SUFFICES ASSUME NEW s \in Int PROVE Clamp(Duration(s)) \in 1..MaxWindow
  OBVIOUS
<1>1. s * Second + HalfRange \in Int /\ 2 * HalfRange \in Nat \ {0}
  BY MaintenanceAssumption
<1>2. (s * Second + HalfRange) % (2 * HalfRange) \in Int
  BY <1>1
<1>3. Duration(s) \in Int
  BY <1>2, MaintenanceAssumption DEF Duration
<1> QED
  BY <1>3, MaintenanceAssumption DEF Clamp

(* A window that is promised for some time yet is in the map for as long, and *)
(* whoever looks at it has seen how long.                                     *)
PromisesAreWindows ==
    \A n \in Names : promised[n] >= 0 /\ n \notin raced =>
        /\ n \in windows
        /\ left[n] = promised[n]
        /\ \A r \in Judging(n) : pc[r] \in {"read", "readListed"} /\ seen[r] = left[n]

(* Initially no window is promised. *)
LEMMA InvInit == Init => TypeOK /\ PromisesAreWindows
BY MaintenanceAssumption, SomeNameType DEF Init, TypeOK, PromisesAreWindows, Judging

(* Every step keeps the types. *)
LEMMA TypeStep == TypeOK /\ [Next]_vars => TypeOK'
<1> SUFFICES ASSUME TypeOK, [Next]_vars PROVE TypeOK'
  OBVIOUS
<1> USE MaintenanceAssumption, SomeNameType DEF TypeOK
<1>1. ASSUME NEW n \in Names, NEW s \in Seconds, SetMaintenance(n, s) PROVE TypeOK'
  <2>1. Clamp(Duration(s)) \in -1..MaxWindow
    BY ClampRange
  <2> QED
    BY <1>1, <2>1 DEF SetMaintenance
<1>2. ASSUME NEW n \in Names, ClearMaintenance(n) PROVE TypeOK'
  BY <1>2 DEF ClearMaintenance
<1>3. ASSUME NEW r \in Requests, NEW n \in Names, Admit(r, n) \/ Read(r, n)
      PROVE  TypeOK'
  BY <1>3 DEF Admit, Read
<1>4. ASSUME NEW r \in Requests, Judge(r) \/ Drop(r) \/ Done(r) PROVE TypeOK'
  BY <1>4 DEF Judge, Judged, Drop, Done
<1>5. ASSUME Tick PROVE TypeOK'
  BY <1>5 DEF Tick, Down
<1>6. CASE UNCHANGED vars
  BY <1>6 DEF vars
<1> QED
  BY <1>1, <1>2, <1>3, <1>4, <1>5, <1>6 DEF Next

(* A goroutine only sets out to delete a window that has expired, so a       *)
(* promised window has no one about to delete it unless it was opened under  *)
(* the eyes of one.                                                          *)
LEMMA PromisesStep == TypeOK /\ PromisesAreWindows /\ [Next]_vars => PromisesAreWindows'
<1> SUFFICES ASSUME TypeOK, PromisesAreWindows, [Next]_vars PROVE PromisesAreWindows'
  OBVIOUS
<1> USE MaintenanceAssumption DEF TypeOK, PromisesAreWindows, Judging
<1>1. ASSUME NEW n \in Names, NEW s \in Seconds, SetMaintenance(n, s)
      PROVE  PromisesAreWindows'
  <2>1. Clamp(Duration(s)) \in -1..MaxWindow
    BY ClampRange
  <2> QED
    BY <1>1, <2>1 DEF SetMaintenance
<1>2. ASSUME NEW n \in Names, ClearMaintenance(n) PROVE PromisesAreWindows'
  BY <1>2 DEF ClearMaintenance
<1>3. ASSUME NEW r \in Requests, NEW n \in Names, Admit(r, n) PROVE PromisesAreWindows'
  BY <1>3 DEF Admit
<1>4. ASSUME NEW r \in Requests, NEW n \in Names, Read(r, n)
      PROVE  PromisesAreWindows'
  BY <1>4 DEF Read
<1>5. ASSUME NEW r \in Requests, Drop(r) PROVE PromisesAreWindows'
  BY <1>5 DEF Drop
<1>6. ASSUME NEW r \in Requests, Judge(r) \/ Done(r) PROVE PromisesAreWindows'
  BY <1>6 DEF Judge, Judged, Done
<1>7. ASSUME Tick PROVE PromisesAreWindows'
  BY <1>7 DEF Tick, Down
<1>8. CASE UNCHANGED vars
  BY <1>8 DEF vars
<1> QED
  BY <1>1, <1>2, <1>3, <1>4, <1>5, <1>6, <1>7, <1>8 DEF Next

(* The inductive invariant. *)
THEOREM Invariant == Spec => [](TypeOK /\ PromisesAreWindows)
BY InvInit, TypeStep, PromisesStep, PTL DEF Spec

(* Types, and the cap on every window. *)
THEOREM TypeCorrect == Spec => []TypeOK
BY Invariant, PTL

(* A window is lost early only to a deletion decided before it was opened.   *)
THEOREM WindowsLostOnlyToLateDrop == Spec => []LostOnlyToLateDrop
<1>1. TypeOK /\ PromisesAreWindows => LostOnlyToLateDrop
  BY DEF TypeOK, PromisesAreWindows, LostOnlyToLateDrop, InMaintenance
<1> QED
  BY <1>1, Invariant, PTL

(* Nobody sets out for a plugin in its window, unless the window was opened   *)
(* under the eyes of someone with a copy of an earlier one.                   *)
THEOREM NobodyEntersAWindow == Spec => NoEntryInWindow
<1> DEFINE Enter == \A r \in Requests : pc[r] # "serving" /\ pc'[r] = "serving"
                      => promised[on'[r]] < 0 \/ on'[r] \in raced
<1>1. ASSUME TypeOK, PromisesAreWindows, [Next]_vars PROVE [Enter]_vars
  <2> USE <1>1 DEF TypeOK, PromisesAreWindows, Judging
  <2>1. ASSUME NEW r \in Requests, NEW n \in Names, Admit(r, n) PROVE Enter
    BY <2>1 DEF Admit
  <2>2. ASSUME NEW r \in Requests, NEW n \in Names, Read(r, n) PROVE Enter
    BY <2>2 DEF Read
  <2>3. ASSUME NEW r \in Requests, Judge(r) \/ Done(r) PROVE Enter
    BY <2>3 DEF Judge, Judged, Done
  <2>4. ASSUME NEW r \in Requests, Drop(r) PROVE Enter
    BY <2>4 DEF Drop
  <2>5. CASE \/ Tick
             \/ \E n \in Names : ClearMaintenance(n) \/ \E s \in Seconds : SetMaintenance(n, s)
    BY <2>5 DEF Tick, ClearMaintenance, SetMaintenance
  <2>6. CASE UNCHANGED vars
    BY <2>6
  <2> QED
    BY <2>1, <2>2, <2>3, <2>4, <2>5, <2>6 DEF Next
<1> QED
  BY Invariant, <1>1, PTL DEF Spec, NoEntryInWindow
=============================================================================
