------------------------------- MODULE Menu -------------------------------
(***************************************************************************)
(* The suite's sidebar: which entries of the registered plugins a caller   *)
(* sees, in which order, and whether the list travels at all.              *)
(*                                                                         *)
(* Source: internal/dispatcher/nav.go, internal/middleware/authz.go.       *)
(*                                                                         *)
(* Labels, icons and group labels are carried and never looked at: left    *)
(* out.  Plugin and group names stand for their rank in the order of       *)
(* strings.  A permission or a feature is the sequence of its parts on     *)
(* either side of ":", << >> when it is empty.  A menu entry stands for    *)
(* the item it was made of: <<id, i>> is item i of plugin id's manifest.   *)
(***************************************************************************)
EXTENDS Integers, Sequences, FiniteSets, SequencesExt

CONSTANTS
  Ids,        \* registered instances (plugin ids)
  Name,       \* Info.PluginName of each
  Nav,        \* Manifest.Nav of each: a sequence of items
  MaxNav      \* how many entries fit into maxNavHeaderBytes

ASSUME MenuAssumption ==
  /\ Name \in [Ids -> Nat]
  /\ DOMAIN Nav = Ids
  /\ \A id \in Ids : /\ Len(Nav[id]) \in Nat /\ DOMAIN Nav[id] = 1..Len(Nav[id])
                    /\ \A i \in DOMAIN Nav[id] :
                         Nav[id][i].group \in Nat /\ Nav[id][i].groupSort \in Int /\ Nav[id][i].sort \in Int
  /\ MaxNav \in Nat

----------------------------------------------------------------------------
(* PermissionAllowed and qualify                                           *)

Wildcard == <<"*", "*">>

\* Mutant: grants are compared as they stand.
permMatch_Equal(granted, required) == granted = required

permMatch(granted, required) ==
  \/ granted = required
  \/ granted = Wildcard
  \/ /\ Len(granted) = 2 /\ Len(required) = 2
     /\ \A part \in 1..2 : granted[part] \in {"*", required[part]}

PermissionAllowed(granted, required) ==
  required = << >> \/ \E g \in granted : permMatch(g, required)

qualify(name, feature) == IF Len(feature) = 2 THEN feature ELSE <<name>> \o feature

----------------------------------------------------------------------------
(* buildNav                                                                *)

Entries(ids) == UNION {{id} \X DOMAIN Nav[id] : id \in ids}
Plugin(e)    == Name[e[1]]
Item(e)      == Nav[e[1]][e[2]]

\* Whether an item is shown to the caller.
Shown(e, caller) ==
  /\ Item(e).href # "" /\ Item(e).key # ""
  /\ PermissionAllowed(caller.perms, Item(e).permission)
  /\ Item(e).feature # << >> => qualify(Plugin(e), Item(e).feature) \in caller.features

\* What the loops append, of the plugins found alive.
Collected(found, caller) == {e \in Entries(found) : Shown(e, caller)}

\* The order the loops come by: plugins as they are listed, items as declared.
Earlier(plugins, a, b) ==
  \/ a[1] = b[1] /\ a[2] < b[2]
  \/ \E p, q \in DOMAIN plugins : p < q /\ plugins[p] = a[1] /\ plugins[q] = b[1]

First(plugins, entries) ==
  CHOOSE e \in entries : \A o \in entries : o = e \/ Earlier(plugins, e, o)

\* Mutant: the entry is looked up by its key alone.
sortOf_ByKey(plugins, e) ==
  Item(First(plugins, {o \in Entries(ToSet(plugins)) : Item(o).key = Item(e).key})).sort

\* The Sort of the first item with e's key, over the plugins with e's name.
sortOf(plugins, e) ==
  LET named == {o \in Entries(ToSet(plugins)) : Plugin(o) = Plugin(e) /\ Item(o).key = Item(e).key}
  IN IF named = {} THEN 0 ELSE Item(First(plugins, named)).sort

\* The comparison: group order, group name, the plugin's order, plugin name.
Key(plugins, e) == <<Item(e).groupSort, Item(e).group, sortOf(plugins, e), Plugin(e)>>

less(x, y) == \E i \in 1..4 : x[i] < y[i] /\ \A j \in 1..(i - 1) : x[j] = y[j]

\* sort.SliceStable: entries that compare equal keep the order they came in.
Before(plugins, a, b) ==
  LET x == Key(plugins, a)
      y == Key(plugins, b)
  IN less(x, y) \/ (x = y /\ Earlier(plugins, a, b))

\* An entry's place in the sorted list is told by the entries before it.
Place(plugins, entries, e) == 1 + Cardinality({o \in entries : Before(plugins, o, e)})

sorted(plugins, entries) ==
  LET placed == {<<Place(plugins, entries, e), e>> : e \in entries}
  IN [i \in 1..Cardinality(entries) |-> (CHOOSE x \in placed : x[1] = i)[2]]

\* Mutant: the header is sent whatever its size.
encodeNav_NoCap(entries) == entries

\* encodeNav: the whole list, or no header at all.
encodeNav(entries) == IF Len(entries) > MaxNav THEN << >> ELSE entries
=============================================================================
