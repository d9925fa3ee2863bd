--------------------------- MODULE ShutdownProofs ---------------------------
(***************************************************************************)
(* Proofs about Shutdown, for any requests, any plugins and any grace.     *)
(***************************************************************************)
EXTENDS Shutdown, TLAPS

(* Once the drain is over, either nobody was left or the whole grace has      *)
(* passed, which is then the group's error or comes after one.                *)
DrainInv ==
    /\ drain = "done" => waited = Grace \/ Active = {}
    /\ drain = "done" /\ err = "none" => Active = {}

(* A healthy plugin has no bad verdict coming either. *)
AlarmInv ==
    ~cancelled =>
        /\ well \subseteq alive
        /\ well \intersect tripped = {}
        /\ \A p \in well : verdict[p] \in {"none", "healthy"}

(* All of it holds when the process starts. *)
LEMMA InvInit == Init => TypeOK /\ DrainInv /\ CutOnlyAfterGrace /\ AlarmInv
<1> SUFFICES ASSUME Init PROVE TypeOK /\ DrainInv /\ CutOnlyAfterGrace /\ AlarmInv
  OBVIOUS
<1>1. cancelled \in BOOLEAN
  BY Zenon DEF Init
<1>2. TypeOK
  BY <1>1, ShutdownAssumption DEF Init, TypeOK, Running, Servers
<1>3. DrainInv /\ CutOnlyAfterGrace /\ AlarmInv
  BY DEF Init, DrainInv, CutOnlyAfterGrace, AlarmInv
<1> QED
  BY <1>2, <1>3

(* Every step keeps the types, and finishes what it began. *)
LEMMA TypeStep == TypeOK /\ [Next]_vars => TypeOK'
<1> SUFFICES ASSUME TypeOK, [Next]_vars PROVE TypeOK'
  OBVIOUS
<1> USE ShutdownAssumption DEF TypeOK, Running, group, checks, health, requests, AllReturned
<1>1. ASSUME Signal PROVE TypeOK'
  BY <1>1 DEF Signal
<1>2. ASSUME NEW s \in Servers, Listen(s) \/ ServerClosed(s) PROVE TypeOK'
  BY <1>2 DEF Listen, ServerClosed
<1>3. ASSUME NEW s \in Servers, ListenFails(s) PROVE TypeOK'
  BY <1>3 DEF ListenFails, Returns
<1>4. ASSUME DrainStart \/ Tick \/ Drained PROVE TypeOK'
  BY <1>4 DEF DrainStart, Tick, Drained
<1>5. ASSUME DrainTimeout PROVE TypeOK'
  BY <1>5 DEF DrainTimeout, Returns
<1>6. ASSUME RoundStarts \/ RoundEnds \/ MonitorStops \/ SweepStops PROVE TypeOK'
  BY <1>6 DEF RoundStarts, RoundEnds, MonitorStops, SweepStops
<1>7. ASSUME NEW p \in Plugins, Probe(p) PROVE TypeOK'
  BY <1>7 DEF Probe
<1>8. ASSUME NEW p \in Plugins, Apply(p) PROVE TypeOK'
  BY <1>8 DEF Apply
<1>9. ASSUME NEW r \in Requests, Arrive(r) \/ Admit(r) \/ Answer(r) \/ Leave(r) PROVE TypeOK'
  BY <1>9 DEF Arrive, Admit, Answer, Leave, Move
<1>10. ASSUME Exit PROVE TypeOK'
  BY <1>10 DEF Exit
<1>11. CASE Terminated \/ UNCHANGED vars
  BY <1>11 DEF Terminated, vars
<1> QED
  BY <1>1, <1>2, <1>3, <1>4, <1>5, <1>6, <1>7, <1>8, <1>9, <1>10, <1>11
     DEF Next

(* No request is accepted after the drain began. *)
LEMMA DrainStep == TypeOK /\ DrainInv /\ [Next]_vars => DrainInv'
<1> SUFFICES ASSUME TypeOK, DrainInv, [Next]_vars PROVE DrainInv'
  OBVIOUS
<1> USE ShutdownAssumption DEF TypeOK, Running, group, checks, health, requests, DrainInv, Active, Closing
<1>1. ASSUME Signal PROVE DrainInv'
  BY <1>1 DEF Signal
<1>2. ASSUME NEW s \in Servers, Listen(s) \/ ServerClosed(s) PROVE DrainInv'
  BY <1>2 DEF Listen, ServerClosed
<1>3. ASSUME NEW s \in Servers, ListenFails(s) PROVE DrainInv'
  BY <1>3 DEF ListenFails, Returns
<1>4. ASSUME DrainStart \/ Tick \/ Drained PROVE DrainInv'
  BY <1>4 DEF DrainStart, Tick, Drained
<1>5. ASSUME DrainTimeout PROVE DrainInv'
  BY <1>5 DEF DrainTimeout, Returns
<1>6. ASSUME RoundStarts \/ RoundEnds \/ MonitorStops \/ SweepStops PROVE DrainInv'
  BY <1>6 DEF RoundStarts, RoundEnds, MonitorStops, SweepStops
<1>7. ASSUME NEW p \in Plugins, Probe(p) PROVE DrainInv'
  BY <1>7 DEF Probe
<1>8. ASSUME NEW p \in Plugins, Apply(p) PROVE DrainInv'
  BY <1>8 DEF Apply
<1>9. ASSUME NEW r \in Requests, Arrive(r) \/ Admit(r) \/ Answer(r) \/ Leave(r) PROVE DrainInv'
  BY <1>9 DEF Arrive, Admit, Answer, Leave, Move
<1>10. ASSUME Exit PROVE DrainInv'
  BY <1>10 DEF Exit
<1>11. CASE Terminated \/ UNCHANGED vars
  BY <1>11 DEF Terminated, vars
<1> QED
  BY <1>1, <1>2, <1>3, <1>4, <1>5, <1>6, <1>7, <1>8, <1>9, <1>10, <1>11
     DEF Next

(* The exit cuts a request off only after the grace. *)
LEMMA CutStep == TypeOK /\ DrainInv /\ CutOnlyAfterGrace /\ [Next]_vars => CutOnlyAfterGrace'
<1> SUFFICES ASSUME TypeOK, DrainInv, CutOnlyAfterGrace, [Next]_vars PROVE CutOnlyAfterGrace'
  OBVIOUS
<1> USE ShutdownAssumption DEF TypeOK, Running, group, checks, health, requests, DrainInv, CutOnlyAfterGrace, AllReturned, Active
<1>1. ASSUME Signal PROVE CutOnlyAfterGrace'
  BY <1>1 DEF Signal
<1>2. ASSUME NEW s \in Servers, Listen(s) \/ ServerClosed(s) PROVE CutOnlyAfterGrace'
  BY <1>2 DEF Listen, ServerClosed
<1>3. ASSUME NEW s \in Servers, ListenFails(s) PROVE CutOnlyAfterGrace'
  BY <1>3 DEF ListenFails, Returns
<1>4. ASSUME DrainStart \/ Tick \/ Drained PROVE CutOnlyAfterGrace'
  BY <1>4 DEF DrainStart, Tick, Drained
<1>5. ASSUME DrainTimeout PROVE CutOnlyAfterGrace'
  BY <1>5 DEF DrainTimeout, Returns
<1>6. ASSUME RoundStarts \/ RoundEnds \/ MonitorStops \/ SweepStops PROVE CutOnlyAfterGrace'
  BY <1>6 DEF RoundStarts, RoundEnds, MonitorStops, SweepStops
<1>7. ASSUME NEW p \in Plugins, Probe(p) PROVE CutOnlyAfterGrace'
  BY <1>7 DEF Probe
<1>8. ASSUME NEW p \in Plugins, Apply(p) PROVE CutOnlyAfterGrace'
  BY <1>8 DEF Apply
<1>9. ASSUME NEW r \in Requests, Arrive(r) \/ Admit(r) \/ Answer(r) \/ Leave(r) PROVE CutOnlyAfterGrace'
  BY <1>9 DEF Arrive, Admit, Answer, Leave, Move
<1>10. ASSUME Exit PROVE CutOnlyAfterGrace'
  BY <1>10 DEF Exit
<1>11. CASE Terminated \/ UNCHANGED vars
  BY <1>11 DEF Terminated, vars
<1> QED
  BY <1>1, <1>2, <1>3, <1>4, <1>5, <1>6, <1>7, <1>8, <1>9, <1>10, <1>11
     DEF Next

(* A probe of a healthy plugin fails only after the cancellation. *)
LEMMA AlarmStep == TypeOK /\ AlarmInv /\ [Next]_vars => AlarmInv'
<1> SUFFICES ASSUME TypeOK, AlarmInv, [Next]_vars PROVE AlarmInv'
  OBVIOUS
<1> USE ShutdownAssumption DEF TypeOK, Running, group, checks, health, requests, AlarmInv
<1>1. ASSUME Signal PROVE AlarmInv'
  BY <1>1 DEF Signal
<1>2. ASSUME NEW s \in Servers, Listen(s) \/ ServerClosed(s) PROVE AlarmInv'
  BY <1>2 DEF Listen, ServerClosed
<1>3. ASSUME NEW s \in Servers, ListenFails(s) PROVE AlarmInv'
  BY <1>3 DEF ListenFails, Returns
<1>4. ASSUME DrainStart \/ Tick \/ Drained PROVE AlarmInv'
  BY <1>4 DEF DrainStart, Tick, Drained
<1>5. ASSUME DrainTimeout PROVE AlarmInv'
  BY <1>5 DEF DrainTimeout, Returns
<1>6. ASSUME RoundStarts \/ RoundEnds \/ MonitorStops \/ SweepStops PROVE AlarmInv'
  BY <1>6 DEF RoundStarts, RoundEnds, MonitorStops, SweepStops
<1>7. ASSUME NEW p \in Plugins, Probe(p) PROVE AlarmInv'
  BY <1>7 DEF Probe
<1>8. ASSUME NEW p \in Plugins, Apply(p) PROVE AlarmInv'
  BY <1>8 DEF Apply
<1>9. ASSUME NEW r \in Requests, Arrive(r) \/ Admit(r) \/ Answer(r) \/ Leave(r) PROVE AlarmInv'
  BY <1>9 DEF Arrive, Admit, Answer, Leave, Move
<1>10. ASSUME Exit PROVE AlarmInv'
  BY <1>10 DEF Exit
<1>11. CASE Terminated \/ UNCHANGED vars
  BY <1>11 DEF Terminated, vars
<1> QED
  BY <1>1, <1>2, <1>3, <1>4, <1>5, <1>6, <1>7, <1>8, <1>9, <1>10, <1>11
     DEF Next

(* The inductive invariant. *)
THEOREM Invariant == Spec => [](TypeOK /\ DrainInv /\ CutOnlyAfterGrace /\ AlarmInv)
BY InvInit, TypeStep, DrainStep, CutStep, AlarmStep, PTL DEF Spec

(* Types; main waits for every goroutine (main.go:110). *)
THEOREM TypeCorrect == Spec => []TypeOK
BY Invariant, PTL

(* No plain request is cut off before the grace is over, and no exit that cut *)
(* one off is reported as complete, for any number of requests in flight      *)
(* (main.go:103-113).                                                         *)
THEOREM RequestsAreDrained == Spec => []CutOnlyAfterGrace
BY Invariant, PTL

(* The monitor raises no false alarm before the shutdown begins               *)
(* (health_monitor.go:47-63).                                                 *)
THEOREM AlarmsAreTrue == Spec => []NoFalseAlarm
<1>1. AlarmInv => NoFalseAlarm
  BY DEF AlarmInv, NoFalseAlarm
<1> QED
  BY <1>1, Invariant, PTL
=============================================================================
