------------------------------ MODULE ApiDocs ------------------------------
(***************************************************************************)
(* The merged OpenAPI document: Core's own specification and the plugins', *)
(* folded together in the order of a map iteration.                        *)
(*                                                                         *)
(* Source: internal/openapi/injector.go, MergedSpec.                       *)
(*                                                                         *)
(* What a document says about a path or a component is represented by who  *)
(* said it.  Specifications have the shape OpenAPI gives them, except that *)
(* one may not parse.                                                      *)
(***************************************************************************)
EXTENDS Integers, Sequences, SequencesExt

CONSTANTS
  Core,       \* who speaks for the gateway itself
  Declared    \* for Core and each plugin instance, what its document declares:
              \* paths, components (by section), security; and whether it parses

ASSUME DocsAssumption ==
  /\ Core \in DOMAIN Declared
  /\ \A who \in DOMAIN Declared : Declared[who].security \in Seq(STRING)
  /\ \A i, j \in DOMAIN Declared[Core].security :
       Declared[Core].security[i] = Declared[Core].security[j] => i = j

\* What one document says, by itself.
Document(who) ==
  [paths |-> [p \in Declared[who].paths |-> who],
   components |-> [s \in DOMAIN Declared[who].components |->
                     [k \in Declared[who].components[s] |-> who]],
   security |-> Declared[who].security]

\* What the loop has put out after n requirements.
mergeSecurityRequirements(base, add) ==
  LET all == base \o add
      out[n \in 0..Len(all)] ==
        IF n = 0 THEN << >>
        ELSE IF Contains(out[n - 1], all[n]) THEN out[n - 1] ELSE Append(out[n - 1], all[n])
  IN out[Len(all)]

\* for k, v := range add { base[k] = v }
Overlay(base, add) ==
  [k \in DOMAIN base \cup DOMAIN add |-> IF k \in DOMAIN add THEN add[k] ELSE base[k]]

\* Mutant: a section of the plugin's components replaces the section.
MergeComponents_Replace(base, add) == Overlay(base, add)

\* Section by section, key by key: the later document wins a key.
MergeComponents(base, add) ==
  [s \in DOMAIN base \cup DOMAIN add |->
     IF s \notin DOMAIN add THEN base[s]
     ELSE IF s \notin DOMAIN base THEN add[s]
     ELSE Overlay(base[s], add[s])]

\* One turn of the loop; a specification that does not parse is passed over.
MergeOne(doc, who) ==
  LET add == Document(who)
  IN IF ~Declared[who].parses THEN doc
     ELSE [paths |-> Overlay(doc.paths, add.paths),
           components |-> MergeComponents(doc.components, add.components),
           security |-> IF add.security = << >> THEN doc.security
                        ELSE mergeSecurityRequirements(doc.security, add.security)]

\* order: the plugins whose specifications are stored, as the map gives them.
MergedSpec(order) ==
  LET merged[n \in 0..Len(order)] ==
        IF n = 0 THEN Document(Core) ELSE MergeOne(merged[n - 1], order[n])
  IN merged[Len(order)]

----------------------------------------------------------------------------
(* What a merged document should be                                        *)

\* Whose documents are in it.
Voices(from) == {Core} \cup {who \in from : Declared[who].parses}

\* Every path and component of the voices is told, by one that declares it;
\* every security requirement is there, once.
Faithful(text, voices) ==
  /\ DOMAIN text.paths = UNION {Declared[who].paths : who \in voices}
  /\ \A p \in DOMAIN text.paths : text.paths[p] \in voices /\ p \in Declared[text.paths[p]].paths
  /\ \A who \in voices : \A s \in DOMAIN Declared[who].components :
       /\ s \in DOMAIN text.components
       /\ Declared[who].components[s] \subseteq DOMAIN text.components[s]
  /\ \A s \in DOMAIN text.components : \A k \in DOMAIN text.components[s] :
       /\ text.components[s][k] \in voices
       /\ s \in DOMAIN Declared[text.components[s][k]].components
       /\ k \in Declared[text.components[s][k]].components[s]
  /\ ToSet(text.security) = UNION {ToSet(Declared[who].security) : who \in voices}
  /\ \A i, j \in DOMAIN text.security : text.security[i] = text.security[j] => i = j
=============================================================================
