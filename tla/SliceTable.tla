---------------------------- MODULE SliceTable ----------------------------
(***************************************************************************)
(* The dispatch table as the code keeps it: a slice of route entries that  *)
(* removeRoutes compacts in place and append grows, and requests that hold *)
(* a pointer into its backing array.  match returns the pointer under the  *)
(* read lock; Dispatch reads through it at every later step, with no lock. *)
(*                                                                         *)
(* Source: internal/dispatcher/dispatcher.go, with the registry and the    *)
(* bulkhead as far as their keys come from the entry.                      *)
(*                                                                         *)
(* A read that races with a compaction is modelled as one of the two       *)
(* values; no property relies on what a torn read gives.  The reads of     *)
(* pluginName, public and permission are taken together with match.        *)
(***************************************************************************)
EXTENDS Integers, Sequences, SequencesExt, FiniteSets

CONSTANTS
  Ids,        \* plugin instances; an id is used once (uuid)
  Manifest,   \* the routes each instance declares, in order: a method and a
              \* pattern, the sequence of its segments
  Params,     \* the segments that begin with ":"
  Extends,    \* the pairs of segments of which the first begins with the second
  Queries,    \* the methods and paths clients ask for; a path that ends in "/"
              \* ends in the segment ""
  Requests,
  MaxConc,    \* bulkhead limit per plugin
  NoEntry     \* a cell of an array that was never written

ASSUME TableAssumption ==
  /\ MaxConc \in Nat \ {0}
  /\ IsFiniteSet(Requests)
  /\ \A id \in Ids : Manifest[id] \in Seq([method : STRING, pattern : Seq(STRING)])

VARIABLES
  heap,     \* backing arrays, in the order they were allocated
  len,      \* length of d.routes; its array is the newest one
  phase,    \* of each instance: "new", "registered", "routed", "leaving", "gone",
            \* or "ousted": removed from the registry before it had its routes
  active,   \* Bulkhead.active
  req       \* requests in Dispatch

vars == <<heap, len, phase, active, req>>

Entries(id) == [i \in 1..Len(Manifest[id]) |-> [id |-> id, route |-> Manifest[id][i]]]

Newest == Len(heap)
Routes == SubSeq(heap[Newest], 1, len)

\* The abstract list, with the slice for its table.
List == INSTANCE RouteTable WITH table <- Routes

Idle == [at |-> "idle", arr |-> 1, pos |-> 0, matched |-> NoEntry,
         shaken |-> FALSE, target |-> NoEntry, key |-> NoEntry, release |-> NoEntry,
         recorded |-> NoEntry]

Init ==
  /\ heap = << << >> >>
  /\ len = 0
  /\ phase = [id \in Ids |-> "new"]
  /\ active = [id \in Ids |-> 0]
  /\ req = [r \in Requests |-> Idle]

----------------------------------------------------------------------------
(* Writers: a registration or a removal, in its two critical sections      *)

\* reg.Register, before AddRoutes.
Register(id) ==
  /\ phase[id] = "new"
  /\ phase' = [phase EXCEPT ![id] = "registered"]
  /\ UNCHANGED <<heap, len, active, req>>

\* Mutant: the slice keeps its length.
Compact_KeepsLength(t, id) ==
  LET array == Last(t.heap)
      kept  == List!Without(SubSeq(array, 1, t.len), id)
  IN [t EXCEPT !.heap[Len(t.heap)] = kept \o SubSeq(array, Len(kept) + 1, Len(array))]

\* Mutant: the cells left free are cleared, as slices.DeleteFunc does.
Compact_ClearsTail(t, id) ==
  LET array == Last(t.heap)
      kept  == List!Without(SubSeq(array, 1, t.len), id)
  IN [heap |-> [t.heap EXCEPT ![Len(t.heap)] =
                  kept \o [i \in 1..(Len(array) - Len(kept)) |-> NoEntry]],
      len  |-> Len(kept)]

\* removeRoutes: the entries kept are written to the front of the same
\* array, what is behind them stays.
Compact(t, id) ==
  LET array == Last(t.heap)
      kept  == List!Without(SubSeq(array, 1, t.len), id)
  IN [heap |-> [t.heap EXCEPT ![Len(t.heap)] = kept \o SubSeq(array, Len(kept) + 1, Len(array))],
      len  |-> Len(kept)]

\* Mutant: an array that is outgrown is reused at once, as from a pool.
AppendEntry_Recycles(t, e) ==
  LET array == Last(t.heap)
  IN [heap |-> IF t.len < Len(array)
                 THEN [t.heap EXCEPT ![Len(t.heap)][t.len + 1] = e]
                 ELSE Append([t.heap EXCEPT ![Len(t.heap)] = [i \in DOMAIN @ |-> e]],
                             array \o <<e>> \o [i \in 1..(t.len - 1) |-> NoEntry]),
      len  |-> t.len + 1]

\* append: in place while there is room, else a copy of twice the size.
AppendEntry(t, e) ==
  LET array == Last(t.heap)
  IN [heap |-> IF t.len < Len(array)
                 THEN [t.heap EXCEPT ![Len(t.heap)][t.len + 1] = e]
                 ELSE Append(t.heap, array \o <<e>> \o [i \in 1..(t.len - 1) |-> NoEntry]),
      len  |-> t.len + 1]

\* The loop of AddRoutes: the slice after its first n routes.
AppendAll(t, entries) ==
  LET after[n \in 0..Len(entries)] ==
        IF n = 0 THEN t ELSE AppendEntry(after[n - 1], entries[n])
  IN after[Len(entries)]

\* AddRoutes, under the lock; nothing looks whether id is still registered.
AddRoutes(id) ==
  /\ phase[id] \in {"registered", "ousted"}
  /\ LET t == AppendAll(Compact([heap |-> heap, len |-> len], id), Entries(id))
     IN heap' = t.heap /\ len' = t.len
  /\ phase' = [phase EXCEPT ![id] = IF @ = "registered" THEN "routed" ELSE "leaving"]
  /\ UNCHANGED <<active, req>>

Registered(id) == phase[id] \in {"registered", "routed"}

\* reg.Deregister, before RemoveRoutes, by whoever evicts or removes id.  A
\* RemoveRoutes that comes before the AddRoutes of an ousted id finds nothing.
Deregister(id) ==
  /\ Registered(id)
  /\ phase' = [phase EXCEPT ![id] = IF @ = "routed" THEN "leaving" ELSE "ousted"]
  /\ UNCHANGED <<heap, len, active, req>>

\* RemoveRoutes, under the lock; shaken records it for the requests in
\* Dispatch.
RemoveRoutes(id) ==
  /\ phase[id] = "leaving"
  /\ LET t == Compact([heap |-> heap, len |-> len], id)
     IN heap' = t.heap /\ len' = t.len
  /\ phase' = [phase EXCEPT ![id] = "gone"]
  /\ req' = [r \in Requests |->
       IF req[r].at = "idle" THEN req[r] ELSE [req[r] EXCEPT !.shaken = TRUE]]
  /\ UNCHANGED active

----------------------------------------------------------------------------
(* Readers: Dispatch                                                       *)

MethodMatch(pattern, method) == pattern \in {"*", method}

\* strings.Trim(path, "/")
Trim(path) == IF path # << >> /\ Last(path) = "" THEN Front(path) ELSE path

\* patternMatch: as many segments, each a parameter or the same.
PatternMatch(pattern, path) ==
  /\ Len(Trim(pattern)) = Len(Trim(path))
  /\ \A i \in DOMAIN Trim(pattern) : Trim(pattern)[i] \in Params \cup {Trim(path)[i]}

\* A pattern that ends in "/*" covers every path its text before that begins:
\* the last segment of the prefix may go on, and a parameter in it is not one.
WildcardMatch(pattern, path) ==
  /\ pattern # << >> /\ Last(pattern) = "*"
  /\ LET prefix == Front(pattern)
         n == Len(prefix)
     IN n > 0 => /\ n <= Len(path)
                 /\ SubSeq(prefix, 1, n - 1) = SubSeq(path, 1, n - 1)
                 /\ <<path[n], prefix[n]>> \in Extends

Exact(e, q) == MethodMatch(e.route.method, q.method) /\ e.route.pattern = q.path

Covers(e, q) ==
  /\ MethodMatch(e.route.method, q.method)
  /\ PatternMatch(e.route.pattern, q.path) \/ WildcardMatch(e.route.pattern, q.path)

\* Mutant: one pass, the first route that covers the path.
MatchIndex_OnePass(s, q) == SelectInSeq(s, LAMBDA e : Exact(e, q) \/ Covers(e, q))

\* Mutant: of the routes that cover the path the last one is taken.
MatchIndex_LastWins(s, q) ==
  LET exact == SelectInSeq(s, LAMBDA e : Exact(e, q))
  IN IF exact # 0 THEN exact ELSE SelectLastInSeq(s, LAMBDA e : Covers(e, q))

\* match: the first route with the very path, else the first that covers it.
MatchIndex(s, q) ==
  LET exact == SelectInSeq(s, LAMBDA e : Exact(e, q))
  IN IF exact # 0 THEN exact ELSE SelectInSeq(s, LAMBDA e : Covers(e, q))

Match(r, q) ==
  /\ req[r].at = "idle"
  /\ MatchIndex(Routes, q) # 0
  /\ req' = [req EXCEPT ![r] = [Idle EXCEPT !.at = "get", !.arr = Newest,
               !.pos = MatchIndex(Routes, q), !.matched = Routes[MatchIndex(Routes, q)]]]
  /\ UNCHANGED <<heap, len, phase, active>>

\* *entry, as it is now.
Entry(r) == heap[req[r].arr][req[r].pos]

\* reg.Get(entry.pluginID): 503 when it is gone.
Get(r) ==
  /\ req[r].at = "get"
  /\ req' = IF Registered(Entry(r).id)
       THEN [req EXCEPT ![r].at = "acquire", ![r].target = Entry(r).id]
       ELSE [req EXCEPT ![r] = Idle]
  /\ UNCHANGED <<heap, len, phase, active>>

\* bh.Acquire(entry.pluginID): 503 at the limit.
Acquire(r) ==
  /\ req[r].at = "acquire"
  /\ IF active[Entry(r).id] < MaxConc
       THEN /\ active' = [active EXCEPT ![Entry(r).id] = @ + 1]
            /\ req' = [req EXCEPT ![r].at = "defer", ![r].key = Entry(r).id]
       ELSE /\ req' = [req EXCEPT ![r] = Idle]
            /\ UNCHANGED active
  /\ UNCHANGED <<heap, len, phase>>

\* The argument of defer d.bh.Release(entry.pluginID) is evaluated here.
DeferRelease(r) ==
  /\ req[r].at = "defer"
  /\ req' = [req EXCEPT ![r].at = "serve", ![r].release = Entry(r).id]
  /\ UNCHANGED <<heap, len, phase, active>>

\* The breaker refuses (Allow), or the plugin answers and its outcome is
\* recorded for entry.pluginID.
Refuse(r) ==
  /\ req[r].at = "serve"
  /\ req' = [req EXCEPT ![r].at = "release"]
  /\ UNCHANGED <<heap, len, phase, active>>

Record(r) ==
  /\ req[r].at = "serve"
  /\ req' = [req EXCEPT ![r].at = "release", ![r].recorded = Entry(r).id]
  /\ UNCHANGED <<heap, len, phase, active>>

Release(r) ==
  /\ req[r].at = "release"
  /\ active' = [active EXCEPT ![req[r].release] = IF @ > 0 THEN @ - 1 ELSE @]
  /\ req' = [req EXCEPT ![r] = Idle]
  /\ UNCHANGED <<heap, len, phase>>

Next ==
  \/ \E id \in Ids : Register(id) \/ AddRoutes(id) \/ Deregister(id) \/ RemoveRoutes(id)
  \/ \E r \in Requests : \/ \E q \in Queries : Match(r, q)
                         \/ Get(r) \/ Acquire(r) \/ DeferRelease(r)
                         \/ Refuse(r) \/ Record(r) \/ Release(r)

Spec == Init /\ [][Next]_vars

----------------------------------------------------------------------------
(* Properties                                                              *)

AllEntries == UNION {Range(Entries(id)) : id \in Ids}

Phases == {"new", "registered", "routed", "ousted", "leaving", "gone"}
Stages == {"idle", "get", "acquire", "defer", "serve", "release"}

\* Types: slots within the limit, and a pointer never reads a cell that was
\* never written, wherever compaction and growth left it.
TypeOK ==
  /\ \A a \in DOMAIN heap : Range(heap[a]) \subseteq AllEntries \cup {NoEntry}
  /\ len \in 0..Len(heap[Newest])
  /\ active \in [Ids -> 0..MaxConc]
  /\ \A r \in Requests : req[r].at # "idle" => Entry(r) \in AllEntries

\* The slice is the ordered list AddRoutes and RemoveRoutes are documented to
\* keep, whatever array it is in: no route is lost, doubled or reordered by
\* the compaction in place or by growing.
IsRouteList == List!Spec

\* A request whose table lost no routes under it reads the entry it matched,
\* and all it does is for that entry's plugin.
EntriesSteady ==
  \A r \in Requests :
    req[r].at # "idle" /\ ~req[r].shaken =>
      /\ Entry(r) = req[r].matched
      /\ {req[r].target, req[r].key, req[r].release, req[r].recorded}
           \subseteq {req[r].matched.id, NoEntry}

NoRemovals == \A id \in Ids : phase[id] # "gone"

\* The requests that took a slot of id's bulkhead and have not given it back.
Holders(id) == {r \in Requests : /\ req[r].at \in {"defer", "serve", "release"}
                                  /\ req[r].key = id}

\* Registrations alone never disturb a request in Dispatch: until some
\* plugin's routes are removed, the entry it reads is the one it matched, its
\* slot is counted and given back for that plugin, and its outcome is
\* recorded for it (match, Dispatch); until the first removal of all, the
\* bulkhead counts exactly the requests that hold a slot.
SteadyWithoutRemovals ==
  /\ EntriesSteady
  /\ NoRemovals => \A id \in Ids : active[id] = Cardinality(Holders(id))

\* What is known of a request.
RequestRecord ==
  [at : Stages, arr : Nat, pos : Nat, matched : AllEntries \cup {NoEntry},
   shaken : BOOLEAN, target : Ids \cup {NoEntry}, key : Ids \cup {NoEntry},
   release : Ids \cup {NoEntry}, recorded : Ids \cup {NoEntry}]

RequestTypes == phase \in [Ids -> Phases] /\ req \in [Requests -> RequestRecord]

\* There is an array, and it has room for the slice.
HeapTypes ==
  /\ heap \in Seq(Seq(AllEntries \cup {NoEntry})) /\ heap # << >>
  /\ len \in 0..Len(heap[Newest])

\* The slice holds routes of instances that have theirs in the table.
SliceOwned ==
  \A i \in 1..len : /\ heap[Newest][i] \in AllEntries
                     /\ phase[heap[Newest][i].id] \in {"routed", "leaving"}

\* A request points to a cell that was written; until routes are removed it
\* is one of the slice's, or of an array the slice has left.
PointersGood ==
  \A r \in Requests : req[r].at # "idle" =>
    /\ req[r].arr \in DOMAIN heap
    /\ req[r].pos \in DOMAIN heap[req[r].arr]
    /\ Entry(r) \in AllEntries
    /\ req[r].at \in {"serve", "release"} => req[r].release \in Ids
    /\ ~req[r].shaken /\ req[r].arr = Newest => req[r].pos <= len

IndInv ==
  /\ HeapTypes
  /\ RequestTypes
  /\ active \in [Ids -> 0..MaxConc]
  /\ SliceOwned
  /\ PointersGood
  /\ EntriesSteady

\* Before the first removal every slot is held, and will be given back, under
\* the plugin whose entry was matched.
SlotsCounted ==
  NoRemovals =>
    /\ \A r \in Requests :
         /\ ~req[r].shaken
         /\ req[r].at \in {"defer", "serve", "release"} => req[r].key = req[r].matched.id
         /\ req[r].at \in {"serve", "release"} => req[r].release = req[r].matched.id
    /\ \A id \in Ids : active[id] = Cardinality(Holders(id))

\* A route with the very path asked for is never passed over for a wildcard
\* or a parameter of an earlier plugin (match looks for it first).
ExactFirst ==
  [][\A r \in Requests, q \in Queries :
       Match(r, q) /\ (\E e \in Range(Routes) : Exact(e, q))
         => req'[r].matched.route.pattern = q.path]_vars

\* A plugin that registers takes a request over from the plugin that served
\* it only by declaring the very path, where the other covered it by a
\* parameter or a wildcard ("Only these routes are proxied by Core",
\* PLUGIN_GUIDE.md:57; match, dispatcher.go:238-261).
NoTakeover ==
  [][\A id \in Ids, q \in Queries :
       AddRoutes(id) /\ MatchIndex(Routes, q) # 0 =>
         LET before == Routes[MatchIndex(Routes, q)]
             after  == Routes'[MatchIndex(Routes', q)]
         IN after = before \/ (after.id = id /\ Exact(after, q) /\ ~Exact(before, q))]_vars

\* "A successful Acquire must be paired with a Release": with no request in
\* Dispatch no slot is taken.
SlotsReturned ==
  (\A r \in Requests : req[r].at = "idle") => \A id \in Ids : active[id] = 0
=============================================================================
