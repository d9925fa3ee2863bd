---------------------------- MODULE Maintenance -----------------------------
(***************************************************************************)
(* Maintenance windows (internal/registry/maintenance.go): a migration     *)
(* runner opens a window on a plugin name through the control plane        *)
(* (setMaintenance, handlers.go) and Dispatch refuses the plugin's         *)
(* requests while it lasts.  A window found expired is deleted by whoever  *)
(* finds it, in a second critical section: the read lock is released       *)
(* before ClearMaintenance takes the write lock.                           *)
(***************************************************************************)
EXTENDS Integers

CONSTANTS
    Names,      \* plugin names
    Requests,   \* goroutines serving a request or the listing
    Seconds,    \* the "seconds" values callers send
    Second,     \* time.Second, in time units
    MaxWindow,  \* maxMaintenance, in time units
    HalfRange   \* 2^63 scaled down: a time.Duration is in -HalfRange..HalfRange-1

ASSUME MaintenanceAssumption ==
    /\ Seconds \subseteq Int
    /\ Second \in Nat \ {0}
    /\ MaxWindow \in Nat \ {0}
    /\ HalfRange \in Nat \ {0}
    /\ Names # {}

VARIABLES
    windows,    \* the names with a window in the map
    left,       \* w.Until minus time.Now(), only compared with 0: saturated at -1
    pc, on,     \* each goroutine's position, and the name it is concerned with
    seen,       \* ... and the copy of the window it has read: its time left
    promised,   \* ghost: how long the last opener was told its window lasts, not
                \* yet elapsed and not closed by a caller; -1 when none is
    raced       \* ghost: the names whose last window was opened while some
                \* goroutine held a copy of the window before it

vars == <<windows, left, pc, on, seen, promised, raced>>

SomeName == CHOOSE n \in Names : TRUE

Init ==
    /\ windows = {}
    /\ left = [n \in Names |-> -1]
    /\ pc = [r \in Requests |-> "idle"]
    /\ on = [r \in Requests |-> SomeName]
    /\ seen = [r \in Requests |-> -1]
    /\ promised = [n \in Names |-> -1]
    /\ raced = {}

(* time.Duration(s) * time.Second, in two's complement *)
Duration(s) == ((s * Second + HalfRange) % (2 * HalfRange)) - HalfRange

(* Mutant: nothing caps an excessive duration. *)
Clamp_NoCap(d) == IF d <= 0 THEN MaxWindow ELSE d

(* if d <= 0 || d > maxMaintenance { d = maxMaintenance } *)
Clamp(d) == IF d <= 0 \/ d > MaxWindow THEN MaxWindow ELSE d

(* The goroutines that have looked at a window of n and not yet dealt with it. *)
Judging(n) ==
    {r \in Requests : pc[r] \in {"read", "readListed", "drop", "dropListed"} /\ on[r] = n}

(* setMaintenance with on = true: opens, extends or shortens the window. *)
SetMaintenance(n, s) ==
    /\ windows' = windows \union {n}
    /\ left' = [left EXCEPT ![n] = Clamp(Duration(s))]
    /\ promised' = [promised EXCEPT ![n] = Clamp(Duration(s))]
    /\ raced' = IF Judging(n) # {} THEN raced \union {n} ELSE raced \ {n}
    /\ UNCHANGED <<pc, on, seen>>

(* setMaintenance with on = false: ClearMaintenance, "the normal ending". *)
ClearMaintenance(n) ==
    /\ windows' = windows \ {n}
    /\ left' = [left EXCEPT ![n] = -1]
    /\ promised' = [promised EXCEPT ![n] = -1]
    /\ UNCHANGED <<pc, on, seen, raced>>

(* time.Now().Before(w.Until), up to the last instant *)
InMaintenance(n) == n \in windows /\ left[n] >= 0

(* MaintenanceFor, first half: the map is read under the read lock.  Without *)
(* a window the request goes on to the plugin.                               *)
Admit(r, n) ==
    /\ pc[r] = "idle"
    /\ n \notin windows
    /\ pc' = [pc EXCEPT ![r] = "serving"]
    /\ on' = [on EXCEPT ![r] = n]
    /\ UNCHANGED <<windows, left, seen, promised, raced>>

(* A request, or the listing (Maintenances), copies the window it finds. *)
Read(r, n) ==
    /\ pc[r] = "idle"
    /\ n \in windows
    /\ \E next \in {"read", "readListed"} : pc' = [pc EXCEPT ![r] = next]
    /\ on' = [on EXCEPT ![r] = n]
    /\ seen' = [seen EXCEPT ![r] = left[n]]
    /\ UNCHANGED <<windows, left, promised, raced>>

Judged(r, verdict) ==
    /\ pc[r] \in {"read", "readListed"}
    /\ pc' = [pc EXCEPT ![r] = verdict]
    /\ UNCHANGED <<windows, left, on, seen, promised, raced>>

(* Mutant: a window is expired at its last instant already. *)
Judge_Early(r) ==
    Judged(r, IF seen[r] > 0 THEN "idle"
              ELSE IF pc[r] = "read" THEN "drop" ELSE "dropListed")

(* Mutant: the 503 is written, but the handler does not return. *)
Judge_GoesOn(r) ==
    Judged(r, IF seen[r] >= 0 THEN (IF pc[r] = "read" THEN "serving" ELSE "idle")
              ELSE IF pc[r] = "read" THEN "drop" ELSE "dropListed")

(* time.Now().After(w.Until), of the copy and without a lock: an open window *)
(* refuses the request (503), an expired one is to be dropped.               *)
Judge(r) ==
    Judged(r, IF seen[r] >= 0 THEN "idle"
              ELSE IF pc[r] = "read" THEN "drop" ELSE "dropListed")

(* Second half: ClearMaintenance deletes whatever window the name has now.   *)
Drop(r) ==
    /\ pc[r] \in {"drop", "dropListed"}
    /\ windows' = windows \ {on[r]}
    /\ left' = [left EXCEPT ![on[r]] = -1]
    /\ pc' = [pc EXCEPT ![r] = IF @ = "drop" THEN "serving" ELSE "idle"]
    /\ UNCHANGED <<on, seen, promised, raced>>

(* The plugin has answered the request. *)
Done(r) ==
    /\ pc[r] = "serving"
    /\ pc' = [pc EXCEPT ![r] = "idle"]
    /\ on' = [on EXCEPT ![r] = SomeName]
    /\ UNCHANGED <<windows, left, seen, promised, raced>>

Down(n) == IF n < 0 THEN -1 ELSE n - 1

Tick ==
    /\ left' = [n \in Names |-> Down(left[n])]
    /\ seen' = [r \in Requests |-> Down(seen[r])]
    /\ promised' = [n \in Names |-> Down(promised[n])]
    /\ UNCHANGED <<windows, pc, on, raced>>

Next ==
    \/ \E n \in Names : ClearMaintenance(n) \/ \E s \in Seconds : SetMaintenance(n, s)
    \/ \E r \in Requests :
          \/ \E n \in Names : Admit(r, n) \/ Read(r, n)
          \/ Judge(r)
          \/ Drop(r)
          \/ Done(r)
    \/ Tick

Spec == Init /\ [][Next]_vars

(***************************************************************************)
(* Properties                                                              *)
(***************************************************************************)
(* Types; no window lasts longer than maxMaintenance.                       *)
TypeOK ==
    /\ windows \subseteq Names
    /\ left \in [Names -> -1..MaxWindow]
    /\ pc \in [Requests -> {"idle", "read", "readListed", "drop", "dropListed", "serving"}]
    /\ on \in [Requests -> Names]
    /\ seen \in [Requests -> -1..MaxWindow]
    /\ promised \in [Names -> -1..MaxWindow]
    /\ raced \subseteq Names

(* A window is there for as long as its opener was told, up to and including *)
(* its last instant, however many requests and listings run beside it,       *)
(* unless it was opened while a goroutine held a copy of an earlier window   *)
(* of the same name, which it may still find expired (maintenance.go:54-94). *)
LostOnlyToLateDrop ==
    \A n \in Names : promised[n] >= 0 => InMaintenance(n) \/ n \in raced

(* While a window lasts nobody sets out for the plugin: the requests that    *)
(* run against its tables are those that passed the check before the window  *)
(* was opened ("only safe with nothing serving requests", maintenance.go:11).*)
NoEntryInWindow ==
    [][\A r \in Requests : pc[r] # "serving" /\ pc'[r] = "serving"
          => promised[on'[r]] < 0 \/ on'[r] \in raced]_vars

(* "An expired window is treated as absent and dropped on the way past"      *)
(* (maintenance.go:80): only an expired one, so an open window is there      *)
(* until it expires or is closed.                                            *)
WindowHolds == \A n \in Names : promised[n] >= 0 => InMaintenance(n)
=============================================================================
