---------------------------- MODULE PagesProofs ----------------------------
(***************************************************************************)
(* Proofs about Pages: the dashboard's sessions, for any TTL, any clock    *)
(* and any delay of an answer; what a session opens, the merged API        *)
(* documents, for any documents in any order; and the suite's menu, for    *)
(* any manifests, any users and any order the registry is listed in.       *)
(***************************************************************************)
EXTENDS Pages, SequenceTheorems, FiniteSetTheorems, WellFoundedInduction, TLAPS

(***************************************************************************)
(* The dashboard's sessions.                                               *)
(***************************************************************************)
Life == TTL * Sub

(* Ticks from the second a token was issued in to the end of the second in  *)
(* which it has d of its TTL left.                                          *)
Spent(d) == (TTL - d) * Sub

SessionTokens == [left : -1..TTL, age : Nat]

(* A token that verifies is as old as its expiry says, give or take what had *)
(* passed of the second it was issued in; one that does not is older than    *)
(* the TTL.                                                                  *)
Dated(t) ==
    /\ t \in SessionTokens
    /\ t.left >= 0 => Spent(t.left) + tick - (Sub - 1) <= t.age /\ t.age <= Spent(t.left) + tick
    /\ t.left < 0 => t.age > Life

(* Behind CookieOpens: cookie and token age together from the answer on,     *)
(* which had taken no longer than Delay.                                     *)
SessionInv ==
    /\ tick \in 0..(Sub - 1)
    /\ cookie \in Nat
    /\ Dated(sent) /\ Dated(token)
    /\ sent # NoToken => sent.age <= Delay
    /\ cookie > 0 => cookie + token.age <= Life + Delay

(* The products of a session. *)
LEMMA SessionNumbers ==
    /\ Life \in Nat /\ Sub \in Nat \ {0}
    /\ Spent(TTL) = 0 /\ Spent(0) = Life
    /\ \A d \in 0..TTL : /\ Spent(d) \in Nat /\ Spent(d) <= Life
                         /\ Spent(d - 1) = Spent(d) + Sub
    /\ MaxAge = Life + Sub + Delay
<1> USE SessionAssumption
<1>1. \A a, b \in Nat : a * b \in Nat /\ (a + 1) * b = a * b + b /\ 0 * b = 0
  OBVIOUS
<1>2. Life \in Nat /\ (TTL + 1) * Sub = Life + Sub
  BY <1>1 DEF Life
<1>3. Spent(TTL) = 0 /\ Spent(0) = Life
  BY <1>1 DEF Spent, Life
<1>4. ASSUME NEW d \in 0..TTL
      PROVE  Spent(d) \in Nat /\ Spent(d) <= Life /\ Spent(d - 1) = Spent(d) + Sub
  <2>1. PICK e \in Nat : e = TTL - d
    OBVIOUS
  <2>2. Spent(d) = e * Sub /\ Spent(d - 1) = (e + 1) * Sub
    BY <2>1 DEF Spent
  <2>3. Life = e * Sub + d * Sub /\ d * Sub \in Nat /\ e * Sub \in Nat
    BY <2>1, <1>1 DEF Life
  <2> QED
    BY <1>1, <2>2, <2>3
<1> QED
  BY <1>2, <1>3, <1>4 DEF MaxAge

(* The tick within the second. *)
LEMMA TickNumbers ==
    ASSUME tick \in 0..(Sub - 1)
    PROVE  (tick + 1) % Sub = IF tick = Sub - 1 THEN 0 ELSE tick + 1
BY SessionAssumption

(* A browser without a token has one that ran out long ago. *)
LEMMA NoTokenDated == Dated(NoToken) /\ Dated(NoToken)'
<1>1. MaxAge \in Nat /\ MaxAge > Life
  BY SessionAssumption, SessionNumbers
<1> QED
  BY SessionAssumption, <1>1 DEF Dated, NoToken, SessionTokens

(* A token made older by a tick keeps its date. *)
LEMMA OlderDated ==
    ASSUME tick \in 0..(Sub - 1), tick' = (tick + 1) % Sub,
           NEW t, Dated(t), t # NoToken
    PROVE  /\ Older(t, tick' = 0).age = t.age + 1
           /\ LET o == Older(t, tick' = 0)
              IN /\ o \in SessionTokens
                 /\ o.left >= 0 => /\ Spent(o.left) + tick' - (Sub - 1) <= o.age
                                   /\ o.age <= Spent(o.left) + tick'
                 /\ o.left < 0 => o.age > Life
<1> DEFINE o == Older(t, tick' = 0)
<1>1. /\ t.left \in -1..TTL /\ t.age \in Nat /\ TTL \in Nat
      /\ Sub \in Nat \ {0} /\ Life \in Nat /\ tick \in Int
  BY SessionAssumption, SessionNumbers DEF Dated, SessionTokens
<1>2. tick' = IF tick = Sub - 1 THEN 0 ELSE tick + 1
  BY TickNumbers
<1>3. o = [left |-> IF tick = Sub - 1 /\ t.left >= 0 THEN t.left - 1 ELSE t.left,
           age |-> t.age + 1]
  BY <1>1, <1>2 DEF Older
<1>4. CASE t.left < 0
  <2>1. o = [left |-> t.left, age |-> t.age + 1] /\ t.age > Life
    BY <1>1, <1>3, <1>4 DEF Dated
  <2> HIDE DEF o
  <2> QED
    BY <1>1, <1>4, <2>1 DEF SessionTokens, o
<1>5. CASE t.left >= 0
  <2>1. /\ Spent(t.left) + tick - (Sub - 1) <= t.age /\ t.age <= Spent(t.left) + tick
        /\ Spent(t.left) \in Nat /\ Spent(t.left - 1) = Spent(t.left) + Sub
    BY <1>1, <1>5, SessionNumbers DEF Dated
  <2>2. CASE tick # Sub - 1
    <3>1. o.left = t.left /\ o.age = t.age + 1 /\ o \in SessionTokens /\ tick' = tick + 1
      BY <1>1, <1>2, <1>3, <2>2 DEF SessionTokens
    <3> HIDE DEF o
    <3> QED
      BY <1>1, <1>5, <2>1, <3>1 DEF o
  <2>3. CASE tick = Sub - 1
    <3>1. o.left = t.left - 1 /\ o.age = t.age + 1 /\ o \in SessionTokens /\ tick' = 0
      BY <1>1, <1>2, <1>3, <1>5, <2>3 DEF SessionTokens
    <3>2. /\ Spent(o.left) = Spent(t.left) + Sub
          /\ Spent(t.left) <= t.age /\ t.age + 1 <= Spent(t.left) + Sub
      BY <1>1, <2>1, <2>3, <3>1
    <3>3. o.left < 0 => t.left = 0 /\ Spent(t.left) = Life
      BY <1>1, <1>5, <3>1, SessionNumbers
    <3> HIDE DEF o
    <3> QED
      BY <1>1, <2>1, <3>1, <3>2, <3>3 DEF o
  <2> QED
    BY <2>2, <2>3
<1> QED
  BY <1>1, <1>4, <1>5

(* Time passes for the token on its way, the token kept and the cookie alike. *)
LEMMA TickStep ==
    ASSUME SessionInv, Tick
    PROVE  SessionInv'
<1> DEFINE none == NoToken
           s == Older(sent, tick' = 0)
           t == Older(token, tick' = 0)
<1>1. /\ tick \in 0..(Sub - 1) /\ cookie \in Nat /\ Dated(sent) /\ Dated(token)
      /\ sent # none => sent.age <= Delay
      /\ cookie > 0 => cookie + token.age <= Life + Delay
      /\ sent \in SessionTokens /\ token \in SessionTokens
  BY DEF SessionInv, Dated
<1>2. /\ sent # none => sent.age < Delay
      /\ tick' = (tick + 1) % Sub
      /\ sent' = s
      /\ token' = IF t.age >= MaxAge THEN none ELSE t
      /\ cookie' = IF cookie = 0 THEN 0 ELSE cookie - 1
  BY DEF Tick
<1>3. Life \in Nat /\ Sub \in Nat \ {0} /\ Delay \in Nat /\ MaxAge = Life + Sub + Delay
  BY SessionAssumption, SessionNumbers
<1>4. tick' \in 0..(Sub - 1) /\ cookie' \in Nat
  BY <1>1, <1>2, <1>3, TickNumbers
<1>5. Dated(sent)' /\ (sent' # none => sent'.age <= Delay)
  <2>1. CASE sent = none
    <3>1. sent' = none
      BY <1>2, <2>1 DEF Older
    <3> QED
      BY <3>1, NoTokenDated DEF Dated
  <2>2. CASE sent # none
    <3>1. Dated(sent)' /\ sent'.age = sent.age + 1
      BY <1>1, <1>2, <2>2, OlderDated DEF Dated
    <3> QED
      BY <1>1, <1>2, <1>3, <2>2, <3>1 DEF SessionTokens
  <2> QED
    BY <2>1, <2>2
<1>6. Dated(token)' /\ (cookie' > 0 => cookie' + token'.age <= Life + Delay)
  <2>1. CASE token = none
    <3>1. t = none /\ token' = none
      BY <1>2, <2>1 DEF Older
    <3>2. token.age = MaxAge
      BY <2>1 DEF NoToken
    <3>3. cookie = 0
      BY <1>1, <1>3, <3>2
    <3> QED
      BY <1>2, <3>1, <3>3, NoTokenDated DEF Dated
  <2>2. CASE token # none
    <3>1. t.age = token.age + 1 /\ token.age \in Nat
      BY <1>1, <1>2, <2>2, OlderDated DEF SessionTokens
    <3>2. CASE t.age >= MaxAge
      <4>1. token' = none
        BY <1>2, <3>2
      <4>2. ~(cookie > 1)
        BY <1>1, <1>3, <3>1, <3>2
      <4>3. cookie' = 0
        BY <1>1, <1>2, <4>2
      <4> QED
        BY <4>1, <4>3, NoTokenDated DEF Dated
    <3>3. CASE ~(t.age >= MaxAge)
      <4>1. token' = t
        BY <1>2, <3>3
      <4>2. Dated(token)'
        BY <1>1, <1>2, <2>2, <4>1, OlderDated DEF Dated
      <4> HIDE DEF t
      <4> QED
        BY <1>1, <1>2, <1>3, <3>1, <4>1, <4>2
    <3> QED
      BY <3>2, <3>3
  <2> QED
    BY <2>1, <2>2
<1> QED
  BY <1>4, <1>5, <1>6 DEF SessionInv

(* No browser has a session at the start. *)
LEMMA SessionInit == Init => SessionInv
<1> SUFFICES ASSUME Init PROVE SessionInv
  OBVIOUS
<1>1. tick = 0 /\ sent = NoToken /\ token = NoToken /\ cookie = 0
  BY DEF Init
<1> QED
  BY SessionAssumption, <1>1, NoTokenDated DEF SessionInv

(* Every step keeps the dates. *)
LEMMA SessionStep == SessionInv /\ [Next]_vars => SessionInv'
<1> SUFFICES ASSUME SessionInv, [Next]_vars PROVE SessionInv'
  OBVIOUS
<1> USE DEF stores, panel, session
<1>1. ASSUME UNCHANGED <<tick, sent, token, cookie>> PROVE SessionInv'
  BY <1>1 DEF SessionInv, Dated
<1>2. CASE Login
  <2>1. /\ sent' = [left |-> TTL, age |-> 0] /\ UNCHANGED <<tick, token, cookie>>
    BY <1>2 DEF Login, Issued
  <2>2. Dated(sent)'
    BY SessionAssumption, <2>1, SessionNumbers DEF SessionInv, Dated, SessionTokens
  <2>3. Dated(token)'
    BY <2>1 DEF SessionInv, Dated
  <2> QED
    BY SessionAssumption, <2>1, <2>2, <2>3 DEF SessionInv
<1>3. CASE LoggedIn
  <2>1. /\ sent # NoToken /\ token' = sent /\ sent' = NoToken
        /\ cookie' = Life /\ UNCHANGED tick
    BY <1>3 DEF LoggedIn, Life
  <2>2. Dated(token)' /\ Dated(sent)'
    BY <2>1, NoTokenDated DEF SessionInv, Dated
  <2>3. sent.age <= Delay /\ sent.age \in Nat /\ Life \in Nat
    BY <2>1, SessionNumbers DEF SessionInv, Dated, SessionTokens
  <2> QED
    BY SessionAssumption, <2>1, <2>2, <2>3 DEF SessionInv
<1>4. CASE Logout
  BY <1>4 DEF Logout, SessionInv, Dated
<1>5. CASE Tick
  BY <1>5, TickStep
<1>6. ASSUME NEW id \in Ids,
             \/ Register(id) \/ Deregister(id) \/ MarkDead(id)
             \/ Heartbeat(id) \/ AddSpec(id)
             \/ AdminDeregister(id) \/ RemoveSpec(Name[id])
      PROVE  UNCHANGED <<tick, sent, token, cookie>>
  BY <1>6 DEF Register, Deregister, MarkDead,
              Heartbeat, AddSpec, AdminDeregister,
              RemoveSpec
<1>7. ASSUME \/ \E u \in Users : List(u)
             \/ Collect \/ Inject \/ DocsPage \/ Restart
      PROVE  UNCHANGED <<tick, sent, token, cookie>>
  BY <1>7 DEF List, Collect, Inject, DocsPage,
              Restart
<1>8. CASE UNCHANGED vars
  BY <1>1, <1>8 DEF vars
<1> QED
  BY <1>1, <1>2, <1>3, <1>4, <1>5, <1>6, <1>7, <1>8 DEF Next

(* A cookie the browser still has opens the documents, but for the last      *)
(* Delay ticks, whatever the TTL is and wherever in a second the login fell  *)
(* (handlers.go, setSessionCookie; plugintoken.go:44-85).                    *)
THEOREM CookiesOpen == Spec => []CookieOpens
<1>1. SessionInv => CookieOpens
  <2> SUFFICES ASSUME SessionInv, cookie > 0, ~(token.left >= 0) PROVE cookie < Delay
    BY DEF CookieOpens, Verify
  <2>1. /\ cookie \in Nat /\ token.age \in Nat /\ Life \in Nat /\ Delay \in Nat
        /\ cookie + token.age <= Life + Delay /\ token.left \in Int
    BY SessionAssumption, SessionNumbers DEF SessionInv, Dated, SessionTokens
  <2>2. token.age > Life
    BY <2>1 DEF SessionInv, Dated
  <2> QED
    BY <2>1, <2>2
<1> QED
  BY <1>1, SessionInit, SessionStep, PTL DEF Spec

(* No page is shown and no plugin is removed for a token a second older than *)
(* its TTL, for every TTL (plugintoken.go, verify; handlers.go,              *)
(* requireSession).                                                          *)
THEOREM SessionsEnd == Spec => SessionsLapse
<1> DEFINE Used == DocsPage \/ (\E id \in Ids : AdminDeregister(id))
           Young == Used => token.age < (TTL + 1) * Sub
<1>1. ASSUME SessionInv PROVE Young
  <2> SUFFICES ASSUME Used PROVE token.age < (TTL + 1) * Sub
    OBVIOUS
  <2>1. token.left >= 0
    BY DEF DocsPage, AdminDeregister, Verify
  <2>2. /\ token.left \in 0..TTL /\ token.age \in Nat
        /\ token.age <= Spent(token.left) + tick /\ tick \in 0..(Sub - 1)
    BY SessionAssumption, <1>1, <2>1 DEF SessionInv, Dated, SessionTokens
  <2>3. Spent(token.left) \in Nat /\ Spent(token.left) <= Life /\ Life \in Nat /\ Sub \in Nat
    BY <2>2, SessionNumbers
  <2>4. (TTL + 1) * Sub = Life + Sub
    BY SessionAssumption DEF Life
  <2> QED
    BY <2>2, <2>3, <2>4
<1> QED
  BY <1>1, SessionInit, SessionStep, PTL DEF Spec, SessionsLapse

(***************************************************************************)
(* The merged API documents: two loops, so two inductions on how much has  *)
(* been read.                                                              *)
(***************************************************************************)

(* A set of natural numbers that is not empty has a least element. *)
LEMMA LeastNumber ==
    ASSUME NEW S, S \subseteq Nat, S # {}
    PROVE  \E x \in S : \A y \in S : x <= y
<1>1. PICK x \in S : \A y \in S : ~ (<<y, x>> \in OpToRel(<, Nat))
  BY NatLessThanWellFounded, WFMin
<1>2. \A y \in S : ~ (y < x)
  BY <1>1 DEF OpToRel
<1> QED
  BY <1>2

(* A set with 0 and the successors of its numbers has every natural number. *)
LEMMA Induction ==
    ASSUME NEW S, 0 \in S, \A n \in Nat : n \in S => n + 1 \in S
    PROVE  Nat \subseteq S
<1> DEFINE T == Nat \ S
<1> SUFFICES ASSUME T # {} PROVE FALSE
  OBVIOUS
<1>1. PICK x \in T : \A y \in T : x <= y
  <2>1. T \subseteq Nat
    OBVIOUS
  <2> HIDE DEF T
  <2> QED
    BY <2>1, LeastNumber
<1>2. x # 0 /\ x - 1 \in Nat /\ x - 1 \notin T
  BY <1>1
<1> QED
  BY <1>2

Requirements == STRING

(* mergeSecurityRequirements, as the function of its loop. *)
Requiring(out, all, n) ==
    IF n = 0 THEN << >>
    ELSE IF Contains(out[n - 1], all[n]) THEN out[n - 1] ELSE Append(out[n - 1], all[n])

RequireLoop(out, all, m) == out = [n \in 0..m |-> Requiring(out, all, n)]

(* The function's values. *)
LEMMA RequireTurn ==
    ASSUME NEW out, NEW all, NEW m, RequireLoop(out, all, m), NEW n \in 0..m
    PROVE  out[n] = Requiring(out, all, n)
<1> DEFINE f == [k \in 0..m |-> Requiring(out, all, k)]
<1>1. f[n] = Requiring(out, all, n)
  OBVIOUS
<1>2. out = f
  BY DEF RequireLoop
<1> HIDE DEF f
<1> QED
  BY <1>1, <1>2

(* The loop's function exists, for any number of requirements. *)
LEMMA RequireLoopExists ==
    ASSUME NEW all
    PROVE  \A m \in Nat : \E out : RequireLoop(out, all, m)
<1> DEFINE S == {m \in Nat : \E out : RequireLoop(out, all, m)}
<1>1. 0 \in S
  <2>1. RequireLoop([n \in 0..0 |-> << >>], all, 0)
    <3>1. ASSUME NEW n \in 0..0 PROVE Requiring([k \in 0..0 |-> << >>], all, n) = << >>
      BY DEF Requiring
    <3> QED
      BY <3>1 DEF RequireLoop
  <2> QED
    BY <2>1
<1>2. ASSUME NEW m \in Nat, m \in S PROVE m + 1 \in S
  <2>1. PICK out : RequireLoop(out, all, m)
    BY <1>2
  <2> DEFINE more == [n \in 0..(m + 1) |-> IF n \in 0..m THEN out[n] ELSE Requiring(out, all, n)]
  <2>2. ASSUME NEW n \in 0..(m + 1) PROVE more[n] = Requiring(more, all, n)
    <3>1. n # 0 => more[n - 1] = out[n - 1]
      OBVIOUS
    <3>2. more[n] = Requiring(out, all, n)
      BY <2>1, RequireTurn
    <3> HIDE DEF more
    <3> QED
      BY <3>1, <3>2 DEF Requiring
  <2>3. RequireLoop(more, all, m + 1)
    <3> DEFINE other == [n \in 0..(m + 1) |-> Requiring(more, all, n)]
    <3>1. \A n \in 0..(m + 1) : more[n] = other[n]
      BY <2>2
    <3>2. more = other
      BY <3>1
    <3> QED
      BY <3>2 DEF RequireLoop
  <2> QED
    BY <2>3
<1> QED
  <2> HIDE DEF S
  <2>1. Nat \subseteq S
    BY <1>1, <1>2, Induction
  <2> QED
    BY <2>1 DEF S

Distinct(seq) == \A i, j \in DOMAIN seq : seq[i] = seq[j] => i = j

(* What ToSet has. *)
LEMMA Members ==
    ASSUME NEW seq, DOMAIN seq = 1..Len(seq), NEW x
    PROVE  x \in ToSet(seq) <=> \E i \in 1..Len(seq) : seq[i] = x
BY DEF ToSet

(* A requirement that is not there yet is put at the end. *)
LEMMA NewRequirement ==
    ASSUME NEW E, NEW old \in Seq(E), NEW x \in E, NEW new, new = Append(old, x),
           \A i \in 1..Len(old) : old[i] # x,
           \A i, j \in 1..Len(old) : old[i] = old[j] => i = j
    PROVE  /\ new \in Seq(E) /\ Len(old) \in Nat /\ Len(new) = Len(old) + 1
           /\ \A i \in 1..Len(old) : new[i] = old[i]
           /\ new[Len(old) + 1] = x
           /\ \A i, j \in 1..Len(new) : new[i] = new[j] => i = j
<1>1. /\ new \in Seq(E) /\ Len(old) \in Nat /\ Len(new) = Len(old) + 1
      /\ \A i \in 1..Len(old) : new[i] = old[i]
      /\ new[Len(old) + 1] = x
  OBVIOUS
<1>2. ASSUME NEW i \in 1..Len(new), NEW j \in 1..Len(new), new[i] = new[j] PROVE i = j
  <2>1. \A k \in 1..Len(new) : k \in 1..Len(old) \/ k = Len(old) + 1
    BY <1>1
  <2> QED
    BY <1>1, <1>2, <2>1
<1> QED
  BY <1>1, <1>2

(* Merging requirements keeps every one of both sides, once. *)
LEMMA RequirementsMerged ==
    ASSUME NEW base \in Seq(Requirements), NEW add \in Seq(Requirements)
    PROVE  LET m == mergeSecurityRequirements(base, add)
           IN /\ m \in Seq(Requirements)
              /\ ToSet(m) = ToSet(base) \cup ToSet(add)
              /\ Distinct(m)
<1> DEFINE all == base \o add
           out == CHOOSE f : RequireLoop(f, all, Len(all))
           m   == mergeSecurityRequirements(base, add)
<1>1. /\ all \in Seq(Requirements) /\ Len(all) \in Nat /\ Len(base) \in Nat /\ Len(add) \in Nat
      /\ Len(all) = Len(base) + Len(add)
      /\ \A i \in 1..Len(base) : all[i] = base[i]
      /\ \A i \in 1..Len(add) : all[Len(base) + i] = add[i]
  OBVIOUS
<1>2. RequireLoop(out, all, Len(all))
  <2> HIDE DEF all
  <2> QED
    BY <1>1, RequireLoopExists
<1>3. m = out[Len(all)]
  BY DEF mergeSecurityRequirements, RequireLoop, Requiring
<1> HIDE DEF all, out, m
<1> DEFINE Said(o, n) == /\ \A i \in 1..n : \E j \in 1..Len(o) : o[j] = all[i]
                         /\ \A j \in 1..Len(o) : \E i \in 1..n : o[j] = all[i]
           Good(o, n) == /\ o \in Seq(Requirements)
                         /\ Said(o, n)
                         /\ \A i, j \in 1..Len(o) : o[i] = o[j] => i = j
           S == {n \in Nat : n <= Len(all) => Good(out[n], n)}
<1>4. 0 \in S
  <2>1. out[0] = << >>
    BY <1>1, <1>2, RequireTurn, 0 \in 0..Len(all) DEF Requiring
  <2> DEFINE none == out[0]
  <2>2. none \in Seq(Requirements) /\ Len(none) = 0
    BY <2>1
  <2>3. 1..0 = {}
    OBVIOUS
  <2>4. Good(none, 0)
    <3> HIDE DEF none
    <3> QED
      BY <2>2, <2>3
  <2> QED
    BY <2>4
<1>5. ASSUME NEW n \in Nat, n \in S PROVE n + 1 \in S
  <2> SUFFICES ASSUME n + 1 <= Len(all) PROVE Good(out[n + 1], n + 1)
    OBVIOUS
  <2> DEFINE old == out[n]
             new == out[n + 1]
             x   == all[n + 1]
  <2>1. Good(old, n)
    BY <1>1, <1>5
  <2>2. x \in Requirements
    BY <1>1
  <2>3. n + 1 \in 0..Len(all) /\ n + 1 # 0 /\ (n + 1) - 1 = n
    BY <1>1
  <2>4. new = IF Contains(old, x) THEN old ELSE Append(old, x)
    BY <1>2, <2>3, RequireTurn DEF Requiring
  <2>5. CASE Contains(old, x)
    <3>1. new = old
      BY <2>4, <2>5
    <3>2. PICK k \in 1..Len(old) : old[k] = x
      BY <2>5 DEF Contains
    <3> HIDE DEF old
    <3>3. \A i \in 1..(n + 1) : i \in 1..n \/ i = n + 1
      OBVIOUS
    <3>4. \A i \in 1..n : i \in 1..(n + 1)
      OBVIOUS
    <3>5. Said(old, n + 1)
      BY <2>1, <3>2, <3>3, <3>4
    <3>6. Good(old, n + 1)
      BY <2>1, <3>5
    <3> QED
      BY <3>1, <3>6
  <2>6. CASE ~Contains(old, x)
    <3>1. new = Append(old, x)
      BY <2>4, <2>6
    <3>2. \A i \in 1..Len(old) : old[i] # x
      BY <2>6 DEF Contains
    <3>3. /\ new \in Seq(Requirements) /\ Len(old) \in Nat /\ Len(new) = Len(old) + 1
          /\ \A i \in 1..Len(old) : new[i] = old[i]
          /\ new[Len(old) + 1] = x
          /\ \A i, j \in 1..Len(new) : new[i] = new[j] => i = j
      <4>1. old \in Seq(Requirements) /\ \A i, j \in 1..Len(old) : old[i] = old[j] => i = j
        BY <2>1
      <4> HIDE DEF old, new, x
      <4> QED
        BY <2>2, <3>1, <3>2, <4>1, NewRequirement
    <3>4. /\ \A i \in 1..(n + 1) : i \in 1..n \/ i = n + 1
          /\ \A i \in 1..n : i \in 1..(n + 1)
          /\ n + 1 \in 1..(n + 1)
      OBVIOUS
    <3> HIDE DEF old, new
    <3>5. /\ \A i \in 1..Len(new) : i \in 1..Len(old) \/ i = Len(old) + 1
          /\ \A i \in 1..Len(old) : i \in 1..Len(new)
          /\ Len(old) + 1 \in 1..Len(new)
      BY <3>3
    <3>6. \A i \in 1..(n + 1) : \E j \in 1..Len(new) : new[j] = all[i]
      BY <2>1, <3>3, <3>4, <3>5, SMTT(30)
    <3>7. \A j \in 1..Len(new) : \E i \in 1..(n + 1) : new[j] = all[i]
      BY <2>1, <3>3, <3>4, <3>5, SMTT(30)
    <3>8. Good(new, n + 1)
      BY <3>3, <3>6, <3>7
    <3> QED
      BY <3>8 DEF new
  <2> QED
    BY <2>5, <2>6
<1>6. Good(m, Len(all))
  <2>1. Nat \subseteq S
    <3> HIDE DEF S
    <3> QED
      BY <1>4, <1>5, Induction
  <2>2. Len(all) \in S
    <3> HIDE DEF S
    <3> QED
      BY <1>1, <2>1
  <2> QED
    BY <1>1, <1>3, <2>2
<1>7. m \in Seq(Requirements) /\ Said(m, Len(all)) /\ Distinct(m)
  <2>1. m \in Seq(Requirements) /\ Said(m, Len(all)) /\ DOMAIN m = 1..Len(m)
    BY <1>6
  <2> QED
    BY <1>6, <2>1 DEF Distinct
<1>8. ASSUME NEW x
      PROVE  x \in ToSet(m)
                <=> x \in ToSet(base) \/ x \in ToSet(add)
  <2>1. /\ DOMAIN m = 1..Len(m) /\ DOMAIN base = 1..Len(base) /\ DOMAIN add = 1..Len(add)
    BY <1>7
  <2>2. x \in ToSet(m) <=> \E i \in 1..Len(all) : all[i] = x
    BY <1>7, <2>1, Members
  <2>3. ASSUME NEW i \in 1..Len(all), all[i] = x
        PROVE  (\E k \in 1..Len(base) : base[k] = x) \/ (\E k \in 1..Len(add) : add[k] = x)
    <3>1. CASE i <= Len(base)
      BY <1>1, <2>3, <3>1
    <3>2. CASE i > Len(base)
      <4>1. i - Len(base) \in 1..Len(add) /\ Len(base) + (i - Len(base)) = i
        BY <1>1, <3>2
      <4> QED
        BY <1>1, <2>3, <4>1
    <3> QED
      BY <1>1, <3>1, <3>2
  <2>4. \A k \in 1..Len(base) : k \in 1..Len(all) /\ all[k] = base[k]
    BY <1>1
  <2>5. \A k \in 1..Len(add) : Len(base) + k \in 1..Len(all) /\ all[Len(base) + k] = add[k]
    BY <1>1
  <2>6. (\E i \in 1..Len(all) : all[i] = x)
           <=> (\E k \in 1..Len(base) : base[k] = x) \/ (\E k \in 1..Len(add) : add[k] = x)
    BY <2>3, <2>4, <2>5
  <2> QED
    BY <2>1, <2>2, <2>6, Members
<1>9. ToSet(m) = ToSet(base) \cup ToSet(add)
  BY <1>8
<1> QED
  BY <1>7, <1>9 DEF m

----------------------------------------------------------------------------

(* A document that may be merged further. *)
Merged(doc, voices) == doc.security \in Seq(Requirements) /\ Faithful(doc, voices)

(* Core's own document. *)
LEMMA CoreMerged == Merged(Document(Core), {Core})
<1> DEFINE doc == Document(Core)
<1>1. /\ doc.paths = [p \in Declared[Core].paths |-> Core]
      /\ doc.components = [s \in DOMAIN Declared[Core].components |->
                             [k \in Declared[Core].components[s] |-> Core]]
      /\ doc.security = Declared[Core].security
  BY DEF Document
<1> HIDE DEF doc
<1>2. UNION {Declared[who].paths : who \in {Core}} = Declared[Core].paths
  OBVIOUS
<1>3. UNION {ToSet(Declared[who].security) : who \in {Core}}
        = ToSet(Declared[Core].security)
  OBVIOUS
<1>4. Faithful(doc, {Core})
  BY DocsAssumption, <1>1, <1>2, <1>3 DEF Faithful
<1> QED
  BY DocsAssumption, <1>1, <1>4 DEF Merged, Requirements, doc

(* One more document: what Overlay and MergeComponents do to what was told. *)
LEMMA OneMerged ==
    ASSUME NEW doc, NEW voices, Merged(doc, voices),
           NEW who \in DOMAIN Declared, Declared[who].parses
    PROVE  Merged(MergeOne(doc, who), voices \cup {who})
<1> DEFINE new == MergeOne(doc, who)
           all == voices \cup {who}
           said == Declared[who]
           add == Document(who)
<1>1. /\ add.paths = [p \in said.paths |-> who]
      /\ add.components = [s \in DOMAIN said.components |-> [k \in said.components[s] |-> who]]
      /\ add.security = said.security
  BY DEF Document
<1>2. /\ new.paths = Overlay(doc.paths, add.paths)
      /\ new.components = MergeComponents(doc.components, add.components)
      /\ new.security = IF add.security = << >> THEN doc.security
                        ELSE mergeSecurityRequirements(doc.security, add.security)
  BY DEF MergeOne
<1> HIDE DEF new, add
<1>3. /\ DOMAIN new.paths = DOMAIN doc.paths \cup said.paths
      /\ \A p \in DOMAIN new.paths :
           new.paths[p] = IF p \in said.paths THEN who ELSE doc.paths[p]
  BY <1>1, <1>2 DEF Overlay
<1>4. DOMAIN new.components = DOMAIN doc.components \cup DOMAIN said.components
  BY <1>1, <1>2 DEF MergeComponents
<1>5. ASSUME NEW s \in DOMAIN new.components
      PROVE  /\ s \notin DOMAIN said.components => new.components[s] = doc.components[s]
             /\ s \in DOMAIN said.components /\ s \notin DOMAIN doc.components
                  => new.components[s] = [k \in said.components[s] |-> who]
             /\ s \in DOMAIN said.components /\ s \in DOMAIN doc.components
                  => new.components[s] = Overlay(doc.components[s],
                                            [k \in said.components[s] |-> who])
  BY <1>1, <1>2, <1>4, ZenonT(60) DEF MergeComponents
<1>6. ASSUME NEW s \in DOMAIN new.components
      PROVE  /\ s \in DOMAIN doc.components
                  => DOMAIN doc.components[s] \subseteq DOMAIN new.components[s]
             /\ s \in DOMAIN said.components
                  => said.components[s] \subseteq DOMAIN new.components[s]
             /\ \A k \in DOMAIN new.components[s] :
                  \/ /\ s \in DOMAIN said.components /\ k \in said.components[s]
                     /\ new.components[s][k] = who
                  \/ /\ s \in DOMAIN doc.components /\ k \in DOMAIN doc.components[s]
                     /\ new.components[s][k] = doc.components[s][k]
  <2>1. CASE s \notin DOMAIN said.components
    BY <1>4, <1>5, <2>1
  <2>2. CASE s \in DOMAIN said.components /\ s \notin DOMAIN doc.components
    <3>1. new.components[s] = [k \in said.components[s] |-> who]
      BY <1>5, <2>2
    <3>2. /\ DOMAIN new.components[s] = said.components[s]
          /\ \A k \in said.components[s] : new.components[s][k] = who
      BY <3>1
    <3> QED
      BY <2>2, <3>2
  <2>3. CASE s \in DOMAIN said.components /\ s \in DOMAIN doc.components
    <3> DEFINE mine == [k \in said.components[s] |-> who]
    <3>1. new.components[s] = Overlay(doc.components[s], mine)
      BY <1>5, <2>3
    <3>2. DOMAIN mine = said.components[s] /\ \A k \in said.components[s] : mine[k] = who
      OBVIOUS
    <3> HIDE DEF mine
    <3>3. /\ DOMAIN new.components[s] = DOMAIN doc.components[s] \cup DOMAIN mine
          /\ \A k \in DOMAIN new.components[s] :
               new.components[s][k] = IF k \in DOMAIN mine THEN mine[k] ELSE doc.components[s][k]
      BY <3>1 DEF Overlay
    <3> QED
      BY <2>3, <3>2, <3>3
  <2> QED
    BY <2>1, <2>2, <2>3
<1>7. /\ new.security \in Seq(Requirements)
      /\ ToSet(new.security) = ToSet(doc.security) \cup ToSet(said.security)
      /\ Distinct(new.security)
  <2>1. said.security \in Seq(Requirements) /\ doc.security \in Seq(Requirements)
    BY DocsAssumption DEF Merged, Requirements
  <2>2. CASE said.security = << >>
    <3>1. ToSet(said.security) = {}
      BY <2>2 DEF ToSet
    <3>2. Distinct(doc.security)
      BY DEF Merged, Faithful, Distinct
    <3> QED
      BY <1>1, <1>2, <2>1, <2>2, <3>1, <3>2
  <2>3. CASE said.security # << >>
    <3>1. new.security = mergeSecurityRequirements(doc.security, said.security)
      BY <1>1, <1>2, <2>3
    <3> QED
      BY <2>1, <3>1, RequirementsMerged
  <2> QED
    BY <2>2, <2>3
<1> USE DEF Merged, Faithful
<1>8. DOMAIN new.paths = UNION {Declared[w].paths : w \in all}
  BY <1>3
<1>9. \A p \in DOMAIN new.paths : new.paths[p] \in all /\ p \in Declared[new.paths[p]].paths
  BY <1>3
<1>10. ASSUME NEW w \in all, NEW s \in DOMAIN Declared[w].components
       PROVE  /\ s \in DOMAIN new.components
              /\ Declared[w].components[s] \subseteq DOMAIN new.components[s]
  <2>1. CASE w = who
    BY <1>4, <1>6, <2>1
  <2>2. CASE w \in voices
    <3>1. s \in DOMAIN doc.components /\ Declared[w].components[s] \subseteq DOMAIN doc.components[s]
      BY <2>2
    <3> QED
      BY <1>4, <1>6, <3>1
  <2> QED
    BY <2>1, <2>2
<1>11. ASSUME NEW s \in DOMAIN new.components, NEW k \in DOMAIN new.components[s]
       PROVE  /\ new.components[s][k] \in all
              /\ s \in DOMAIN Declared[new.components[s][k]].components
              /\ k \in Declared[new.components[s][k]].components[s]
  BY <1>6
<1>12. ToSet(new.security) = UNION {ToSet(Declared[w].security) : w \in all}
  BY <1>7
<1>13. \A i, j \in DOMAIN new.security : new.security[i] = new.security[j] => i = j
  BY <1>7 DEF Distinct
<1> QED
  BY <1>7, <1>8, <1>9, <1>10, <1>11, <1>12, <1>13 DEF new

(* MergedSpec, as the function of its loop. *)
Merging(merged, order, n) ==
    IF n = 0 THEN Document(Core) ELSE MergeOne(merged[n - 1], order[n])

MergeLoop(merged, order, m) == merged = [n \in 0..m |-> Merging(merged, order, n)]

(* The function's values. *)
LEMMA MergeTurn ==
    ASSUME NEW merged, NEW order, NEW m, MergeLoop(merged, order, m), NEW n \in 0..m
    PROVE  merged[n] = Merging(merged, order, n)
<1> DEFINE f == [k \in 0..m |-> Merging(merged, order, k)]
<1>1. f[n] = Merging(merged, order, n)
  OBVIOUS
<1>2. merged = f
  BY DEF MergeLoop
<1> HIDE DEF f
<1> QED
  BY <1>1, <1>2

(* The loop's function exists, for any number of documents. *)
LEMMA MergeLoopExists ==
    ASSUME NEW order
    PROVE  \A m \in Nat : \E merged : MergeLoop(merged, order, m)
<1> DEFINE S == {m \in Nat : \E merged : MergeLoop(merged, order, m)}
           core == Document(Core)
<1>1. 0 \in S
  <2>1. MergeLoop([n \in 0..0 |-> core], order, 0)
    <3>1. ASSUME NEW n \in 0..0 PROVE Merging([k \in 0..0 |-> core], order, n) = core
      BY DEF Merging
    <3> HIDE DEF core
    <3> QED
      BY <3>1 DEF MergeLoop
  <2> QED
    BY <2>1
<1>2. ASSUME NEW m \in Nat, m \in S PROVE m + 1 \in S
  <2>1. PICK merged : MergeLoop(merged, order, m)
    BY <1>2
  <2> DEFINE more == [n \in 0..(m + 1) |->
                        IF n \in 0..m THEN merged[n] ELSE Merging(merged, order, n)]
  <2>2. ASSUME NEW n \in 0..(m + 1) PROVE more[n] = Merging(more, order, n)
    <3>1. n # 0 => more[n - 1] = merged[n - 1]
      OBVIOUS
    <3>2. more[n] = Merging(merged, order, n)
      BY <2>1, MergeTurn
    <3> HIDE DEF more
    <3> QED
      BY <3>1, <3>2 DEF Merging
  <2>3. MergeLoop(more, order, m + 1)
    <3> DEFINE other == [n \in 0..(m + 1) |-> Merging(more, order, n)]
    <3>1. \A n \in 0..(m + 1) : more[n] = other[n]
      BY <2>2
    <3>2. more = other
      BY <3>1
    <3> QED
      BY <3>2 DEF MergeLoop
  <2> QED
    BY <2>3
<1> QED
  <2> HIDE DEF S
  <2>1. Nat \subseteq S
    BY <1>1, <1>2, Induction
  <2> QED
    BY <2>1 DEF S

(* Whatever the order is, the loop's document is faithful to all it read. *)
LEMMA AllMerged ==
    ASSUME NEW order \in Seq(DOMAIN Declared)
    PROVE  Faithful(MergedSpec(order),
                              Voices(ToSet(order)))
<1> DEFINE merged == CHOOSE f : MergeLoop(f, order, Len(order))
           text   == MergedSpec(order)
           Read(n) == {order[i] : i \in 1..n}
           S == {n \in Nat : n <= Len(order) => Merged(merged[n], Voices(Read(n)))}
<1>1. Len(order) \in Nat /\ DOMAIN order = 1..Len(order)
  OBVIOUS
<1>2. MergeLoop(merged, order, Len(order))
  BY <1>1, MergeLoopExists
<1>3. text = merged[Len(order)]
  BY DEF MergedSpec, MergeLoop, Merging
<1> HIDE DEF merged, text
<1>4. 0 \in S
  <2>1. merged[0] = Document(Core)
    BY <1>1, <1>2, MergeTurn, 0 \in 0..Len(order) DEF Merging
  <2>2. Voices(Read(0)) = {Core}
    BY DEF Voices
  <2> QED
    BY <2>1, <2>2, CoreMerged
<1>5. ASSUME NEW n \in Nat, n \in S PROVE n + 1 \in S
  <2> SUFFICES ASSUME n + 1 <= Len(order)
               PROVE  Merged(merged[n + 1], Voices(Read(n + 1)))
    OBVIOUS
  <2> DEFINE who == order[n + 1]
             old == merged[n]
             new == merged[n + 1]
  <2>1. Merged(old, Voices(Read(n)))
    BY <1>1, <1>5
  <2>2. who \in DOMAIN Declared
    BY <1>1
  <2>3. n + 1 \in 0..Len(order) /\ n + 1 # 0 /\ (n + 1) - 1 = n
    BY <1>1
  <2>4. new = MergeOne(old, who)
    BY <1>2, <2>3, MergeTurn DEF Merging
  <2>5. Read(n + 1) = Read(n) \cup {who}
    <3>1. /\ \A i \in 1..(n + 1) : i \in 1..n \/ i = n + 1
          /\ \A i \in 1..n : i \in 1..(n + 1)
          /\ n + 1 \in 1..(n + 1)
      OBVIOUS
    <3> QED
      BY <3>1
  <2> HIDE DEF old, new, who, Read
  <2>6. CASE Declared[who].parses
    <3>1. Voices(Read(n + 1)) = Voices(Read(n)) \cup {who}
      BY <2>5, <2>6 DEF Voices
    <3> QED
      BY <2>1, <2>2, <2>4, <2>6, <3>1, OneMerged DEF new
  <2>7. CASE ~Declared[who].parses
    <3>1. Voices(Read(n + 1)) = Voices(Read(n))
      BY <2>5, <2>7 DEF Voices
    <3>2. new = old
      BY <2>4, <2>7 DEF MergeOne
    <3> QED
      BY <2>1, <3>1, <3>2 DEF new
  <2> QED
    BY <2>6, <2>7
<1>6. Len(order) \in S
  <2> HIDE DEF S
  <2>1. Nat \subseteq S
    BY <1>4, <1>5, Induction
  <2> QED
    BY <1>1, <2>1
<1>7. Merged(text, Voices(Read(Len(order))))
  BY <1>1, <1>3, <1>6
<1>8. Read(Len(order)) = ToSet(order)
  BY <1>1 DEF ToSet
<1> QED
  BY <1>7, <1>8 DEF Merged, text

(* The instances whose documents are stored. *)
Stored == {specs[n] : n \in DOMAIN specs}

(* Behind DocsFaithful: finitely many documents are stored, all of plugins. *)
DocsInv == Stored \subseteq Ids /\ IsFiniteSet(Stored) /\ DocsFaithful

(* Nothing is stored at the start, and the page has Core's document. *)
LEMMA DocsInit == Init => DocsInv
<1> SUFFICES ASSUME Init PROVE DocsInv
  OBVIOUS
<1>1. specs = << >> /\ docs = [from |-> {}, text |-> Document(Core)]
  BY DEF Init, NoDocs
<1>2. Stored = {}
  BY <1>1 DEF Stored
<1>3. Voices({}) = {Core}
  BY DEF Voices
<1>4. DocsFaithful
  BY <1>1, <1>3, CoreMerged DEF DocsFaithful, Merged
<1> QED
  BY <1>2, <1>4, FS_EmptySet DEF DocsInv

(* Every step keeps the stored documents, and the page, in order. *)
LEMMA DocsStep == DocsInv /\ [Next]_vars => DocsInv'
<1> SUFFICES ASSUME DocsInv, [Next]_vars PROVE DocsInv'
  OBVIOUS
<1> USE DEF stores, panel, session
<1>1. ASSUME UNCHANGED docs, NEW id \in Ids, Stored' \subseteq Stored \cup {id} PROVE DocsInv'
  <2>1. IsFiniteSet(Stored \cup {id})
    BY FS_AddElement DEF DocsInv
  <2>2. IsFiniteSet(Stored')
    BY <1>1, <2>1, FS_Subset
  <2> QED
    BY <1>1, <2>2 DEF DocsInv, DocsFaithful
<1>2. ASSUME UNCHANGED docs, Stored' \subseteq Stored PROVE DocsInv'
  <2>1. IsFiniteSet(Stored')
    BY <1>2, FS_Subset DEF DocsInv
  <2> QED
    BY <1>2, <2>1 DEF DocsInv, DocsFaithful
<1>3. ASSUME NEW id \in Ids, AddSpec(id) PROVE DocsInv'
  <2>1. specs' = Overlay(specs, [n \in {Name[id]} |-> id]) /\ UNCHANGED docs
    BY <1>3 DEF AddSpec
  <2>2. Stored' \subseteq Stored \cup {id}
    BY <2>1 DEF Stored, Overlay
  <2> QED
    BY <1>1, <2>1, <2>2
<1>4. ASSUME NEW name, specs' = Without(name) PROVE Stored' \subseteq Stored
  BY <1>4 DEF Stored, Without
<1>5. ASSUME NEW id \in Ids, AdminDeregister(id) \/ RemoveSpec(Name[id])
      PROVE  DocsInv'
  BY <1>2, <1>4, <1>5 DEF AdminDeregister, RemoveSpec
<1>6. ASSUME Restart PROVE DocsInv'
  <2>1. specs' = << >> /\ UNCHANGED docs
    BY <1>6 DEF Restart
  <2> QED
    BY <1>2, <2>1 DEF Stored
<1>7. ASSUME DocsPage PROVE DocsInv'
  <2>1. PICK order \in SetToSeqs(Stored) :
          docs' = [from |-> ToSet(order), text |-> MergedSpec(order)]
    BY <1>7 DEF DocsPage, Stored
  <2>2. Cardinality(Stored) \in Nat
    BY FS_CardinalityType DEF DocsInv
  <2>3. order \in [1..Cardinality(Stored) -> Stored]
    BY DEF SetToSeqs
  <2>4. Stored \subseteq DOMAIN Declared
    BY PluginsAssumption DEF DocsInv
  <2>5. order \in Seq(DOMAIN Declared)
    BY <2>2, <2>3, <2>4, SeqDef
  <2>6. DocsFaithful'
    BY <2>1, <2>5, AllMerged DEF DocsFaithful
  <2>7. UNCHANGED specs
    BY <1>7 DEF DocsPage
  <2> QED
    BY <2>6, <2>7 DEF DocsInv, Stored
<1>8. ASSUME NEW id \in Ids,
             \/ Register(id) \/ Deregister(id)
             \/ MarkDead(id) \/ Heartbeat(id)
      PROVE  UNCHANGED <<specs, docs>>
  BY <1>8 DEF Register, Deregister, MarkDead, Heartbeat
<1>9. ASSUME \/ \E u \in Users : List(u)
             \/ Collect \/ Inject \/ Login \/ LoggedIn
             \/ Logout \/ Tick
      PROVE  UNCHANGED <<specs, docs>>
  BY <1>9 DEF List, Collect, Inject, Login,
              LoggedIn, Logout, Tick
<1>10. ASSUME UNCHANGED <<specs, docs>> PROVE DocsInv'
  BY <1>10 DEF DocsInv, Stored, DocsFaithful
<1>11. CASE UNCHANGED vars
  BY <1>10, <1>11 DEF vars
<1> QED
  BY <1>3, <1>5, <1>6, <1>7, <1>8, <1>9, <1>10, <1>11 DEF Next

(* Whatever documents the plugins declare, however many are stored and in    *)
(* whichever order the map gives them, the merged document tells every path  *)
(* and component of each readable one, by one that declares it, and every    *)
(* security requirement once (injector.go, MergedSpec).                      *)
THEOREM DocsAreFaithful == Spec => []DocsFaithful
<1>1. DocsInv => DocsFaithful
  BY DEF DocsInv
<1> QED
  BY <1>1, DocsInit, DocsStep, PTL DEF Spec

(***************************************************************************)
(* The suite's menu.  Its entries are put in order by a comparison of four *)
(* numbers and by the order they came in: together a strict total order,   *)
(* so an entry's place is the number of those before it, and every place   *)
(* is taken by one entry.                                                  *)
(***************************************************************************)
Keys == Int \X Int \X Int \X Int

(* The comparison, number by number. *)
LEMMA LessUnfolded ==
    ASSUME NEW x \in Keys, NEW y \in Keys
    PROVE  less(x, y) <=> \/ x[1] < y[1]
                          \/ x[1] = y[1] /\ x[2] < y[2]
                          \/ x[1] = y[1] /\ x[2] = y[2] /\ x[3] < y[3]
                          \/ x[1] = y[1] /\ x[2] = y[2] /\ x[3] = y[3] /\ x[4] < y[4]
<1> DEFINE P(i) == x[i] < y[i] /\ \A j \in 1..(i - 1) : x[j] = y[j]
<1>1. less(x, y) <=> P(1) \/ P(2) \/ P(3) \/ P(4)
  <2>1. 1..4 = {1, 2, 3, 4}
    OBVIOUS
  <2>2. less(x, y) <=> \E i \in {1, 2, 3, 4} : P(i)
    BY <2>1, Zenon DEF less
  <2> HIDE DEF P
  <2> QED
    BY <2>2
<1>2. P(1) <=> x[1] < y[1]
  OBVIOUS
<1>3. P(2) <=> x[1] = y[1] /\ x[2] < y[2]
  <2>1. 1..(2 - 1) = {1}
    OBVIOUS
  <2> QED
    BY <2>1
<1>4. P(3) <=> x[1] = y[1] /\ x[2] = y[2] /\ x[3] < y[3]
  <2>1. 1..(3 - 1) = {1, 2}
    OBVIOUS
  <2> QED
    BY <2>1
<1>5. P(4) <=> x[1] = y[1] /\ x[2] = y[2] /\ x[3] = y[3] /\ x[4] < y[4]
  <2>1. 1..(4 - 1) = {1, 2, 3}
    OBVIOUS
  <2> QED
    BY <2>1
<1> HIDE DEF P
<1> QED
  BY <1>1, <1>2, <1>3, <1>4, <1>5

(* It orders keys strictly and totally. *)
LEMMA LessOrder ==
    ASSUME NEW x \in Keys, NEW y \in Keys
    PROVE  /\ ~(less(x, y) /\ less(y, x))
           /\ less(x, y) \/ less(y, x) \/ x = y
           /\ \A z \in Keys : less(x, y) /\ less(y, z) => less(x, z)
<1>1. \A k \in Keys : /\ k[1] \in Int /\ k[2] \in Int /\ k[3] \in Int /\ k[4] \in Int
                      /\ k = <<k[1], k[2], k[3], k[4]>>
  BY DEF Keys
<1>2. ~(less(x, y) /\ less(y, x))
  BY <1>1, LessUnfolded
<1>3. less(x, y) \/ less(y, x) \/ x = y
  <2>1. x[1] = y[1] /\ x[2] = y[2] /\ x[3] = y[3] /\ x[4] = y[4] => x = y
    BY <1>1, Zenon
  <2> QED
    BY <1>1, <2>1, LessUnfolded
<1>4. ASSUME NEW z \in Keys, less(x, y), less(y, z) PROVE less(x, z)
  BY <1>1, <1>4, LessUnfolded
<1> QED
  BY <1>2, <1>3, <1>4

(* The registry's list: every entry once. *)
Lists == {l \in Seq(Ids) : \A p, q \in 1..Len(l) : l[p] = l[q] => p = q}

(* What an entry is. *)
LEMMA EntryFacts ==
    ASSUME NEW ids, ids \subseteq Ids, NEW e \in Entries(ids)
    PROVE  /\ e = <<e[1], e[2]>> /\ e[1] \in ids /\ e[2] \in DOMAIN Nav[e[1]] /\ e[2] \in Nat
           /\ Item(e).group \in Int /\ Item(e).groupSort \in Int /\ Item(e).sort \in Int
           /\ Plugin(e) \in Int
<1>1. PICK id \in ids : e \in {id} \X DOMAIN Nav[id]
  BY DEF Entries
<1>2. e = <<e[1], e[2]>> /\ e[1] = id /\ e[2] \in DOMAIN Nav[id]
  BY <1>1
<1>3. id \in Ids
  BY <1>1
<1> QED
  BY <1>2, <1>3, MenuAssumption DEF Item, Plugin

(* An entry of some plugins is one of any others that have its plugin. *)
LEMMA EntriesOf ==
    ASSUME NEW ids, ids \subseteq Ids, NEW others, NEW e \in Entries(ids)
    PROVE  e \in Entries(others) <=> e[1] \in others
<1>1. e = <<e[1], e[2]>> /\ e[2] \in DOMAIN Nav[e[1]]
  BY EntryFacts
<1>2. e \in {e[1]} \X DOMAIN Nav[e[1]]
  BY <1>1
<1>3. ASSUME NEW id \in others, e \in {id} \X DOMAIN Nav[id] PROVE e[1] \in others
  BY <1>3
<1> QED
  BY <1>2, <1>3 DEF Entries

(* Where an entry's plugin stands in the list. *)
LEMMA Listed ==
    ASSUME NEW l \in Lists
    PROVE  /\ Len(l) \in Nat /\ DOMAIN l = 1..Len(l) /\ ToSet(l) \subseteq Ids
           /\ \A id \in ToSet(l) : \E p \in 1..Len(l) : l[p] = id
           /\ \A p \in 1..Len(l) : l[p] \in ToSet(l)
           /\ \A p, q \in 1..Len(l) : l[p] = l[q] => p = q
BY DEF Lists, ToSet

(* The order of arrival is strict and total. *)
LEMMA EarlierOrder ==
    ASSUME NEW l \in Lists,
           NEW a \in Entries(ToSet(l)), NEW b \in Entries(ToSet(l))
    PROVE  /\ ~(Earlier(l, a, b) /\ Earlier(l, b, a))
           /\ Earlier(l, a, b) \/ Earlier(l, b, a) \/ a = b
           /\ \A c \in Entries(ToSet(l)) :
                Earlier(l, a, b) /\ Earlier(l, b, c) => Earlier(l, a, c)
           /\ a[1] = b[1] => (Earlier(l, a, b) <=> a[2] < b[2])
<1> DEFINE At(e, p) == p \in 1..Len(l) /\ l[p] = e[1]
<1>1. \A e \in Entries(ToSet(l)) :
        e = <<e[1], e[2]>> /\ e[1] \in ToSet(l) /\ e[2] \in Nat /\ \E p \in Nat : At(e, p)
  BY Listed, EntryFacts
<1>2. ASSUME NEW d \in Entries(ToSet(l)), NEW e \in Entries(ToSet(l)),
             NEW p \in Nat, NEW q \in Nat, At(d, p), At(e, q)
      PROVE  /\ Earlier(l, d, e) <=> (p = q /\ d[2] < e[2]) \/ p < q
             /\ p = q <=> d[1] = e[1]
  BY <1>2, Listed DEF Earlier
<1>3. PICK p \in Nat, q \in Nat : At(a, p) /\ At(b, q)
  BY <1>1
<1> HIDE DEF At
<1>4. ~(Earlier(l, a, b) /\ Earlier(l, b, a))
  BY <1>1, <1>2, <1>3
<1>5. Earlier(l, a, b) \/ Earlier(l, b, a) \/ a = b
  <2>1. a[1] = b[1] /\ a[2] = b[2] => a = b
    BY <1>1, Zenon
  <2> QED
    BY <1>1, <1>2, <1>3, <2>1
<1>6. ASSUME NEW c \in Entries(ToSet(l)), Earlier(l, a, b), Earlier(l, b, c)
      PROVE  Earlier(l, a, c)
  <2>1. PICK r \in Nat : At(c, r)
    BY <1>1
  <2>2. /\ (p = q /\ a[2] < b[2]) \/ p < q
        /\ (q = r /\ b[2] < c[2]) \/ q < r
    BY <1>2, <1>3, <1>6, <2>1
  <2>3. (p = r /\ a[2] < c[2]) \/ p < r
    BY <1>1, <2>2
  <2> QED
    BY <1>2, <1>3, <2>1, <2>3
<1>7. a[1] = b[1] => (Earlier(l, a, b) <=> a[2] < b[2])
  BY <1>2, <1>3
<1> QED
  BY <1>4, <1>5, <1>6, <1>7

(* Among some entries one came first. *)
LEMMA FirstFacts ==
    ASSUME NEW l \in Lists, NEW S, S \subseteq Entries(ToSet(l)), S # {}
    PROVE  /\ First(l, S) \in S
           /\ \A o \in S : o = First(l, S) \/ Earlier(l, First(l, S), o)
<1> DEFINE places == {p \in 1..Len(l) : \E e \in S : e[1] = l[p]}
<1>1. places \subseteq Nat /\ places # {}
  <2>1. PICK e \in S : TRUE
    OBVIOUS
  <2>2. e[1] \in ToSet(l)
    BY Listed, EntryFacts
  <2> QED
    BY <2>2, Listed
<1>2. PICK p \in places : \A q \in places : p <= q
  <2> HIDE DEF places
  <2> QED
    BY <1>1, LeastNumber
<1> DEFINE items == {i \in Nat : \E e \in S : e[1] = l[p] /\ e[2] = i}
<1>3. items \subseteq Nat /\ items # {}
  BY Listed, EntryFacts
<1>4. PICK i \in items : \A j \in items : i <= j
  <2> HIDE DEF items
  <2> QED
    BY <1>3, LeastNumber
<1>5. PICK e \in S : e[1] = l[p] /\ e[2] = i
  OBVIOUS
<1>6. ASSUME NEW o \in S PROVE o = e \/ Earlier(l, e, o)
  <2>1. /\ o = <<o[1], o[2]>> /\ o[2] \in Nat /\ e = <<e[1], e[2]>> /\ e[2] \in Nat
        /\ o[1] \in ToSet(l)
    BY Listed, EntryFacts
  <2>2. PICK q \in 1..Len(l) : l[q] = o[1]
    BY <2>1, Listed
  <2>3. q \in places /\ p \in Nat /\ q \in Nat /\ p <= q
    BY <1>2, <2>2, Listed
  <2>4. CASE p < q
    <3>1. p \in DOMAIN l /\ q \in DOMAIN l
      BY <2>2, Listed
    <3> QED
      BY <1>5, <2>2, <2>4, <3>1 DEF Earlier
  <2>5. CASE p = q
    <3>1. o[2] \in items
      BY <2>1, <2>2, <2>5
    <3>2. e[2] <= o[2]
      BY <1>4, <1>5, <3>1
    <3>3. e[1] = o[1]
      BY <1>5, <2>2, <2>5
    <3>4. CASE e[2] = o[2]
      BY <2>1, <3>3, <3>4, Zenon
    <3>5. CASE e[2] < o[2]
      BY <3>3, <3>5 DEF Earlier
    <3> QED
      BY <2>1, <3>2, <3>4, <3>5
  <2> QED
    BY <2>3, <2>4, <2>5
<1>7. \E x \in S : \A o \in S : o = x \/ Earlier(l, x, o)
  BY <1>6
<1> QED
  BY <1>7, Zenon DEF First

(* The items sortOf looks for. *)
Named(l, e) == {o \in Entries(ToSet(l)) : Plugin(o) = Plugin(e) /\ Item(o).key = Item(e).key}

(* An entry of a listed plugin is compared by four numbers. *)
LEMMA KeyType ==
    ASSUME NEW l \in Lists, NEW e \in Entries(ToSet(l))
    PROVE  /\ Key(l, e) \in Keys
           /\ sortOf(l, e) = Item(First(l, Named(l, e))).sort
<1>1. e \in Named(l, e)
  BY DEF Named
<1>2. sortOf(l, e) = Item(First(l, Named(l, e))).sort
  BY <1>1 DEF sortOf, Named
<1>3. First(l, Named(l, e)) \in Entries(ToSet(l))
  BY <1>1, FirstFacts DEF Named
<1>4. sortOf(l, e) \in Int
  BY <1>2, <1>3, Listed, EntryFacts
<1>5. Item(e).groupSort \in Int /\ Item(e).group \in Int /\ Plugin(e) \in Int
  BY Listed, EntryFacts
<1> QED
  BY <1>2, <1>4, <1>5 DEF Key, Keys

(* The order of the menu is strict and total. *)
LEMMA BeforeOrder ==
    ASSUME NEW l \in Lists,
           NEW a \in Entries(ToSet(l)), NEW b \in Entries(ToSet(l))
    PROVE  /\ ~(Before(l, a, b) /\ Before(l, b, a))
           /\ Before(l, a, b) \/ Before(l, b, a) \/ a = b
           /\ \A c \in Entries(ToSet(l)) : Before(l, a, b) /\ Before(l, b, c) => Before(l, a, c)
<1>1. Key(l, a) \in Keys /\ Key(l, b) \in Keys
  BY KeyType
<1>2. ~(Before(l, a, b) /\ Before(l, b, a))
  BY <1>1, LessOrder, EarlierOrder DEF Before
<1>3. Before(l, a, b) \/ Before(l, b, a) \/ a = b
  BY <1>1, LessOrder, EarlierOrder DEF Before
<1>4. ASSUME NEW c \in Entries(ToSet(l)), Before(l, a, b), Before(l, b, c)
      PROVE  Before(l, a, c)
  <2>1. Key(l, c) \in Keys
    BY KeyType
  <2> DEFINE x == Key(l, a)
             y == Key(l, b)
             z == Key(l, c)
  <2>2. /\ less(x, y) \/ (x = y /\ Earlier(l, a, b))
        /\ less(y, z) \/ (y = z /\ Earlier(l, b, c))
    BY <1>4 DEF Before
  <2>3. less(x, y) /\ less(y, z) => less(x, z)
    BY <1>1, <2>1, LessOrder
  <2>4. Earlier(l, a, b) /\ Earlier(l, b, c) => Earlier(l, a, c)
    BY EarlierOrder
  <2>5. less(x, z) \/ (x = z /\ Earlier(l, a, c))
    <3> HIDE DEF x, y, z
    <3> QED
      BY <2>2, <2>3, <2>4, Zenon
  <2> QED
    BY <2>5 DEF Before
<1> QED
  BY <1>2, <1>3, <1>4

(* Finitely many plugins have finitely many entries. *)
LEMMA EntriesFinite ==
    ASSUME NEW ids, ids \subseteq Ids, IsFiniteSet(ids)
    PROVE  IsFiniteSet(Entries(ids))
<1> DEFINE T == {{id} \X DOMAIN Nav[id] : id \in ids}
           f == [id \in ids |-> {id} \X DOMAIN Nav[id]]
<1>1. f \in Surjection(ids, T)
  BY DEF Surjection
<1>2. IsFiniteSet(T)
  <2> HIDE DEF f, T
  <2> QED
    BY <1>1, FS_Surjection
<1>3. ASSUME NEW id \in ids PROVE IsFiniteSet({id} \X DOMAIN Nav[id])
  <2>1. DOMAIN Nav[id] = 1..Len(Nav[id]) /\ Len(Nav[id]) \in Int
    BY MenuAssumption
  <2>2. IsFiniteSet({id})
    BY FS_Singleton, Zenon
  <2>3. IsFiniteSet(DOMAIN Nav[id])
    BY <2>1, FS_Interval
  <2> QED
    BY <2>2, <2>3, FS_Product
<1>4. \A t \in T : IsFiniteSet(t)
  BY <1>3
<1> HIDE DEF T
<1>5. IsFiniteSet(UNION T)
  BY <1>2, <1>4, FS_UNION
<1> QED
  BY <1>5 DEF Entries, T

(* A list is finite. *)
LEMMA ListFinite ==
    ASSUME NEW l \in Lists
    PROVE  IsFiniteSet(ToSet(l))
<1>1. l \in Surjection(1..Len(l), ToSet(l))
  BY Listed DEF Surjection, Lists
<1>2. IsFiniteSet(1..Len(l))
  BY Listed, FS_Interval
<1> QED
  BY <1>1, <1>2, FS_Surjection

(* The places are 1 to the number of entries, each taken once, in order. *)
LEMMA PlaceFacts ==
    ASSUME NEW l \in Lists, NEW S, S \subseteq Entries(ToSet(l)), IsFiniteSet(S)
    PROVE  /\ Cardinality(S) \in Nat
           /\ \A e \in S : Place(l, S, e) \in 1..Cardinality(S)
           /\ \A a, b \in S : Before(l, a, b) <=> Place(l, S, a) < Place(l, S, b)
           /\ \A a, b \in S : Place(l, S, a) = Place(l, S, b) => a = b
           /\ \A i \in 1..Cardinality(S) : \E e \in S : Place(l, S, e) = i
<1> DEFINE Ahead(e) == {o \in S : Before(l, o, e)}
           n == Cardinality(S)
<1>1. n \in Nat
  BY FS_CardinalityType
<1>2. \A a, b \in S : /\ ~(Before(l, a, b) /\ Before(l, b, a))
                      /\ Before(l, a, b) \/ Before(l, b, a) \/ a = b
                      /\ \A c \in S : Before(l, a, b) /\ Before(l, b, c) => Before(l, a, c)
  BY BeforeOrder
<1>3. ASSUME NEW e \in S
      PROVE  /\ IsFiniteSet(Ahead(e)) /\ Cardinality(Ahead(e)) \in Nat
             /\ Cardinality(Ahead(e)) < n
             /\ Place(l, S, e) = 1 + Cardinality(Ahead(e))
  <2>1. Ahead(e) \in SUBSET S /\ e \notin Ahead(e)
    BY <1>2
  <2>2. Place(l, S, e) = 1 + Cardinality(Ahead(e))
    BY DEF Place
  <2> HIDE DEF Ahead
  <2>3. /\ IsFiniteSet(Ahead(e)) /\ Cardinality(Ahead(e)) <= n
        /\ n = Cardinality(Ahead(e)) => S = Ahead(e)
    BY <2>1, FS_Subset
  <2>4. Cardinality(Ahead(e)) \in Nat
    BY <2>3, FS_CardinalityType
  <2> QED
    BY <1>1, <2>1, <2>2, <2>3, <2>4
<1>4. ASSUME NEW a \in S, NEW b \in S, Before(l, a, b)
      PROVE  Place(l, S, a) < Place(l, S, b)
  <2>1. Ahead(a) \in SUBSET Ahead(b) /\ a \in Ahead(b) /\ a \notin Ahead(a)
    BY <1>2, <1>4
  <2> HIDE DEF Ahead
  <2>2. /\ Cardinality(Ahead(a)) <= Cardinality(Ahead(b))
        /\ Cardinality(Ahead(b)) = Cardinality(Ahead(a)) => Ahead(b) = Ahead(a)
    BY <1>3, <2>1, FS_Subset
  <2>3. Cardinality(Ahead(b)) # Cardinality(Ahead(a))
    BY <2>1, <2>2
  <2> QED
    BY <1>3, <2>2, <2>3
<1>5. \A e \in S : Place(l, S, e) \in 1..n
  <2> HIDE DEF Ahead, n
  <2> QED
    BY <1>1, <1>3
<1>6. \A a, b \in S : Before(l, a, b) <=> Place(l, S, a) < Place(l, S, b)
  <2>1. ASSUME NEW a \in S, NEW b \in S, ~Before(l, a, b) PROVE ~(Place(l, S, a) < Place(l, S, b))
    <3>1. CASE a = b
      BY <1>5, <3>1
    <3>2. CASE Before(l, b, a)
      BY <1>4, <1>5, <3>2
    <3> QED
      BY <1>2, <2>1, <3>1, <3>2
  <2> QED
    BY <1>4, <2>1
<1>7. \A a, b \in S : Place(l, S, a) = Place(l, S, b) => a = b
  BY <1>2, <1>5, <1>6
<1>8. \A i \in 1..n : \E e \in S : Place(l, S, e) = i
  <2> DEFINE f == [e \in S |-> Place(l, S, e)]
  <2>1. f \in Injection(S, 1..n)
    BY <1>5, <1>7 DEF Injection, IsInjective
  <2>2. IsFiniteSet(1..n) /\ Cardinality(1..n) = n
    BY <1>1, FS_Interval
  <2>3. f \in Surjection(S, 1..n)
    <3> HIDE DEF f
    <3> QED
      BY <2>1, <2>2, FS_Injection
  <2> QED
    BY <2>3 DEF Surjection
<1> QED
  BY <1>1, <1>5, <1>6, <1>7, <1>8

(* The sorted list has every entry once, in the order of the menu. *)
LEMMA SortedFacts ==
    ASSUME NEW l \in Lists, NEW S, S \subseteq Entries(ToSet(l)), IsFiniteSet(S)
    PROVE  LET h == sorted(l, S)
           IN /\ h \in Seq(S) /\ Len(h) = Cardinality(S) /\ DOMAIN h = 1..Len(h)
              /\ ToSet(h) = S
              /\ \A i, j \in 1..Len(h) : h[i] = h[j] => i = j
              /\ \A a, b \in S : Before(l, a, b)
                                   <=> \E i, j \in DOMAIN h : i < j /\ h[i] = a /\ h[j] = b
<1> DEFINE h == sorted(l, S)
           n == Cardinality(S)
           placed == {<<Place(l, S, e), e>> : e \in S}
<1>1. /\ n \in Nat
      /\ \A e \in S : Place(l, S, e) \in 1..n
      /\ \A a, b \in S : Before(l, a, b) <=> Place(l, S, a) < Place(l, S, b)
      /\ \A a, b \in S : Place(l, S, a) = Place(l, S, b) => a = b
      /\ \A i \in 1..n : \E e \in S : Place(l, S, e) = i
  BY PlaceFacts
<1>2. ASSUME NEW i \in 1..n
      PROVE  h[i] \in S /\ Place(l, S, h[i]) = i
  <2> DEFINE x == CHOOSE x \in placed : x[1] = i
  <2>1. \E y \in placed : y[1] = i
    <3>1. PICK e \in S : Place(l, S, e) = i
      BY <1>1, Zenon
    <3>2. <<i, e>> \in placed
      BY <3>1
    <3> HIDE DEF placed
    <3> QED
      BY <3>2
  <2>2. x \in placed /\ x[1] = i
    <3> HIDE DEF placed
    <3> QED
      BY <2>1
  <2>3. h[i] = x[2]
    BY DEF sorted
  <2> HIDE DEF x, h
  <2> QED
    BY <2>2, <2>3
<1>3. h = [i \in 1..n |-> h[i]]
  BY DEF sorted
<1> HIDE DEF h
<1>4. h \in Seq(S) /\ Len(h) = n /\ DOMAIN h = 1..Len(h)
  BY <1>1, <1>2, <1>3
<1>5. \A e \in S : \E i \in 1..n : h[i] = e
  BY <1>1, <1>2
<1>6. ToSet(h) = S
  BY <1>2, <1>4, <1>5 DEF ToSet
<1>7. \A i, j \in 1..Len(h) : h[i] = h[j] => i = j
  BY <1>2, <1>4
<1>8. ASSUME NEW a \in S, NEW b \in S
      PROVE  Before(l, a, b) <=> \E i, j \in DOMAIN h : i < j /\ h[i] = a /\ h[j] = b
  <2>1. PICK i \in 1..n, j \in 1..n : h[i] = a /\ h[j] = b
    BY <1>5
  <2>2. Place(l, S, a) = i /\ Place(l, S, b) = j
    BY <1>2, <2>1
  <2>3. Before(l, a, b) <=> i < j
    BY <1>1, <2>2
  <2>4. \A p, q \in DOMAIN h : h[p] = a /\ h[q] = b => p = i /\ q = j
    BY <1>4, <1>7, <2>1
  <2> QED
    BY <1>4, <2>1, <2>3, <2>4
<1> QED
  BY <1>4, <1>6, <1>7, <1>8 DEF h

(* A clear name is one instance's. *)
LEMMA ClearName ==
    ASSUME NEW l \in Lists, NEW id \in ToSet(l), NEW other \in ToSet(l),
           Name[id] = Name[other], Name[id] \in Clear(l)
    PROVE  id = other
<1>1. PICK i \in ToSet(l) : /\ Name[i] = Name[id]
                            /\ \A o \in ToSet(l) : Name[o] = Name[i] => o = i
  BY DEF Clear
<1> QED
  BY <1>1

(* The key of an entry whose plugin's name is clear does not depend on who   *)
(* else is listed, or in which order.                                        *)
LEMMA KeyIsOwn ==
    ASSUME NEW l \in Lists, NEW k \in Lists,
           NEW e \in Entries(ToSet(l)), e \in Entries(ToSet(k)),
           Plugin(e) \in Clear(l), Plugin(e) \in Clear(k)
    PROVE  Key(l, e) = Key(k, e)
<1> DEFINE N == Named(l, e)
<1>1. ASSUME NEW m \in Lists, e \in Entries(ToSet(m)), Plugin(e) \in Clear(m),
             NEW o \in Named(m, e)
      PROVE  o[1] = e[1]
  <2>1. o \in Entries(ToSet(m)) /\ Plugin(o) = Plugin(e)
    BY DEF Named
  <2>2. o[1] \in ToSet(m) /\ e[1] \in ToSet(m)
    BY <1>1, <2>1, Listed, EntryFacts
  <2> QED
    BY <1>1, <2>1, <2>2, ClearName DEF Plugin
<1>2. ASSUME NEW m \in Lists, NEW n \in Lists, NEW o \in Named(m, e),
             e \in Entries(ToSet(m)), e \in Entries(ToSet(n)), Plugin(e) \in Clear(m)
      PROVE  o \in Named(n, e)
  <2>1. o[1] = e[1]
    BY <1>1, <1>2
  <2>2. e[1] \in ToSet(n)
    BY <1>2, Listed, EntryFacts
  <2>3. o \in Entries(ToSet(n))
    BY <2>1, <2>2, Listed, EntriesOf DEF Named
  <2> QED
    BY <2>3 DEF Named
<1>3. Named(k, e) = N
  BY <1>2
<1>4. e \in N /\ N \subseteq Entries(ToSet(l)) /\ N \subseteq Entries(ToSet(k))
  BY <1>3 DEF Named
<1> DEFINE f == First(l, N)
           g == First(k, N)
<1>5. /\ f \in N /\ g \in N
      /\ g = f \/ Earlier(l, f, g)
      /\ f = g \/ Earlier(k, g, f)
  <2> HIDE DEF N
  <2> QED
    BY <1>4, FirstFacts
<1>6. f[1] = g[1]
  BY <1>1, <1>5
<1>7. f[2] \in Nat /\ g[2] \in Nat
  BY <1>4, <1>5, Listed, EntryFacts
<1>8. /\ Earlier(l, f, g) <=> f[2] < g[2]
      /\ Earlier(k, g, f) <=> g[2] < f[2]
  <2> HIDE DEF f, g, N
  <2> QED
    BY <1>4, <1>5, <1>6, EarlierOrder
<1>9. f = g
  BY <1>5, <1>7, <1>8
<1>10. sortOf(l, e) = sortOf(k, e)
  BY <1>3, <1>9, KeyType
<1> QED
  BY <1>10 DEF Key

(* Two such entries are in the same order in every menu. *)
LEMMA OrderIsOwn ==
    ASSUME NEW l \in Lists, NEW k \in Lists,
           NEW a \in Entries(ToSet(l)), a \in Entries(ToSet(k)),
           NEW b \in Entries(ToSet(l)), b \in Entries(ToSet(k)),
           Plugin(a) \in Clear(l), Plugin(a) \in Clear(k),
           Plugin(b) \in Clear(l), Plugin(b) \in Clear(k)
    PROVE  Before(l, a, b) <=> Before(k, a, b)
<1>1. Key(l, a) = Key(k, a) /\ Key(l, b) = Key(k, b)
  BY KeyIsOwn
<1>2. ASSUME Key(l, a) = Key(l, b)
      PROVE  Earlier(l, a, b) <=> Earlier(k, a, b)
  <2>1. Plugin(a) = Plugin(b)
    BY <1>2 DEF Key
  <2>2. a[1] \in ToSet(l) /\ b[1] \in ToSet(l)
    BY Listed, EntryFacts
  <2>3. a[1] = b[1]
    BY <2>1, <2>2, ClearName DEF Plugin
  <2> QED
    BY <2>3, EarlierOrder
<1> QED
  BY <1>1, <1>2 DEF Before

(* Whoever may do more is shown more. *)
LEMMA WiderShown ==
    ASSUME NEW c, NEW d, Wider(c, d), NEW e, Shown(e, d)
    PROVE  Shown(e, c)
<1>1. PermissionAllowed(c.perms, Item(e).permission)
  BY DEF Wider, Shown, PermissionAllowed, permMatch
<1> QED
  BY <1>1 DEF Wider, Shown

(* How a menu was built: from a list, of the plugins found alive. *)
Built(m, l) ==
    /\ l \in Lists
    /\ m.found \subseteq ToSet(l)
    /\ m.clear = Clear(l)
    /\ m.header = encodeNav(sorted(l, Collected(m.found, m.caller)))

(* What its entries are. *)
LEMMA BuiltFacts ==
    ASSUME NEW m, NEW l, Built(m, l)
    PROVE  /\ m.found \subseteq Ids
           /\ Len(m.header) <= MaxNav /\ IsInjective(m.header)
           /\ ToSet(m.header) \subseteq Entries(m.found)
           /\ Collected(m.found, m.caller) \subseteq Entries(ToSet(l))
           /\ HasMenu(m) =>
                /\ ToSet(m.header) = Collected(m.found, m.caller)
                /\ \A a, b \in ToSet(m.header) : Precedes(m, a, b) <=> Before(l, a, b)
<1> DEFINE S == Collected(m.found, m.caller)
           h == sorted(l, S)
<1>1. l \in Lists /\ m.found \subseteq ToSet(l) /\ m.header = encodeNav(h)
  BY DEF Built
<1>2. ToSet(l) \subseteq Ids /\ m.found \subseteq Ids
  BY <1>1, Listed
<1>3. S \subseteq Entries(m.found) /\ S \subseteq Entries(ToSet(l))
  BY <1>1, <1>2 DEF Collected, Entries
<1>4. IsFiniteSet(S)
  <2>1. IsFiniteSet(Entries(ToSet(l)))
    BY <1>1, <1>2, ListFinite, EntriesFinite
  <2> HIDE DEF S
  <2> QED
    BY <1>3, <2>1, FS_Subset
<1>5. /\ Len(h) \in Nat /\ DOMAIN h = 1..Len(h) /\ ToSet(h) = S
      /\ \A i, j \in 1..Len(h) : h[i] = h[j] => i = j
      /\ \A a, b \in S : Before(l, a, b)
                           <=> \E i, j \in DOMAIN h : i < j /\ h[i] = a /\ h[j] = b
  <2> HIDE DEF S
  <2> QED
    BY <1>1, <1>3, <1>4, SortedFacts
<1> HIDE DEF S, h
<1>6. CASE m.header = << >>
  <2>1. DOMAIN m.header = {} /\ Len(m.header) = 0
    BY <1>6
  <2> QED
    BY <1>2, <1>3, <1>6, <2>1, MenuAssumption DEF ToSet, IsInjective, HasMenu, S
<1>7. CASE m.header # << >>
  <2>1. m.header = h /\ Len(h) <= MaxNav
    BY <1>1, <1>5, <1>7, MenuAssumption DEF encodeNav
  <2>2. \A a, b \in S : Precedes(m, a, b) <=> Before(l, a, b)
    BY <1>5, <2>1 DEF Precedes
  <2>3. IsInjective(m.header)
    BY <1>5, <2>1 DEF IsInjective
  <2> QED
    BY <1>2, <1>3, <1>5, <2>1, <2>2, <2>3 DEF S
<1> QED
  BY <1>6, <1>7

(* The plugins two menus have kept: the same instance, found both times. *)
LEMMA KeptFacts ==
    ASSUME NEW m, NEW l, Built(m, l), NEW n, NEW k, Built(n, k),
           NEW e \in Entries(m.found), Plugin(e) \in Kept(m, n)
    PROVE  /\ e[1] \in n.found /\ e \in Entries(n.found)
           /\ e \in Entries(ToSet(l)) /\ e \in Entries(ToSet(k))
           /\ Plugin(e) \in Clear(l) /\ Plugin(e) \in Clear(k)
<1>1. /\ l \in Lists /\ m.found \subseteq ToSet(l) /\ m.clear = Clear(l)
      /\ k \in Lists /\ n.found \subseteq ToSet(k) /\ n.clear = Clear(k)
  BY DEF Built
<1>2. ToSet(l) \subseteq Ids /\ m.found \subseteq Ids
  BY <1>1, Listed
<1>3. Plugin(e) \in Clear(l) /\ Plugin(e) \in Clear(k)
  BY <1>1 DEF Kept
<1>4. PICK id \in m.found \cap n.found : Name[id] = Plugin(e)
  BY DEF Kept
<1>5. e[1] \in m.found
  BY <1>2, EntryFacts
<1>6. id = e[1]
  BY <1>1, <1>3, <1>4, <1>5, ClearName DEF Plugin
<1> QED
  BY <1>1, <1>2, <1>3, <1>4, <1>5, <1>6, EntriesOf

(* Two menus for one caller agree about the plugins they have kept. *)
LEMMA MenusAgree ==
    ASSUME NEW m, NEW l, Built(m, l), NEW n, NEW k, Built(n, k),
           HasMenu(m), HasMenu(n), m.caller = n.caller, NEW names, names = Kept(m, n)
    PROVE  Of(names, m) = Of(names, n) /\ SameOrder(m, n, Of(names, m))
<1>1. /\ ToSet(m.header) = Collected(m.found, m.caller)
      /\ ToSet(n.header) = Collected(n.found, n.caller)
  BY BuiltFacts
<1>2. Kept(n, m) = Kept(m, n)
  BY DEF Kept
<1>3. ASSUME NEW e \in Of(names, m) PROVE e \in Of(names, n)
  BY <1>1, <1>3, KeptFacts DEF Of, Collected
<1>4. ASSUME NEW e \in Of(names, n) PROVE e \in Of(names, m)
  BY <1>1, <1>2, <1>4, KeptFacts DEF Of, Collected
<1>5. ASSUME NEW a \in Of(names, m), NEW b \in Of(names, m)
      PROVE  Precedes(m, a, b) <=> Precedes(n, a, b)
  <2>1. /\ a \in ToSet(m.header) /\ b \in ToSet(m.header)
        /\ a \in ToSet(n.header) /\ b \in ToSet(n.header)
        /\ Plugin(a) \in Kept(m, n) /\ Plugin(b) \in Kept(m, n)
    BY <1>3 DEF Of
  <2>2. a \in Entries(m.found) /\ b \in Entries(m.found)
    BY <1>1, <2>1 DEF Collected
  <2>3. (Precedes(m, a, b) <=> Before(l, a, b)) /\ (Precedes(n, a, b) <=> Before(k, a, b))
    BY <2>1, BuiltFacts
  <2>4. Before(l, a, b) <=> Before(k, a, b)
    <3>1. l \in Lists /\ k \in Lists
      BY DEF Built
    <3> QED
      BY <2>1, <2>2, <3>1, KeptFacts, OrderIsOwn
  <2> QED
    BY <2>3, <2>4
<1> QED
  BY <1>3, <1>4, <1>5 DEF SameOrder

(* ... and a wider grant loses none of theirs. *)
LEMMA WiderMenu ==
    ASSUME NEW m, NEW l, Built(m, l), NEW n, NEW k, Built(n, k),
           HasMenu(m), HasMenu(n), Wider(n.caller, m.caller), NEW names, names = Kept(m, n)
    PROVE  Of(names, m) \subseteq Of(names, n)
<1>1. /\ ToSet(m.header) = Collected(m.found, m.caller)
      /\ ToSet(n.header) = Collected(n.found, n.caller)
  BY BuiltFacts
<1> SUFFICES ASSUME NEW e \in Of(names, m) PROVE e \in Of(names, n)
  OBVIOUS
<1>2. e \in Entries(m.found) /\ Shown(e, m.caller) /\ Plugin(e) \in names
  BY <1>1 DEF Of, Collected
<1>3. e \in Entries(n.found) /\ Shown(e, n.caller)
  BY <1>2, KeptFacts, WiderShown
<1> QED
  BY <1>1, <1>2, <1>3 DEF Of, Collected

(***************************************************************************)
(* The panel: every page load holds a list of the registry, and the menu   *)
(* the browser got last was built from one.                                *)
(***************************************************************************)
PageLoads == [list : Lists, read : Nat, found : SUBSET Ids, caller : Users \cup {NoPage.caller}]

PanelInv ==
    /\ registered \subseteq Ids /\ IsFiniteSet(registered)
    /\ alive \subseteq registered \cup Held
    /\ page \in PageLoads
    /\ page.read <= Len(page.list) /\ page.found \subseteq Held
    /\ \E l : Built(menu, l)

(* The empty list is a list; nothing is found on it. *)
LEMMA NoList ==
    /\ << >> \in Lists /\ ToSet(<< >>) = {} /\ NoPage \in PageLoads
    /\ NoPage.list = << >> /\ NoPage.read = 0 /\ NoPage.found = {}
    /\ Built(NoMenu, << >>)
<1>1. << >> \in Lists /\ ToSet(<< >>) = {}
  BY DEF Lists, ToSet
<1>2. NoPage \in PageLoads /\ NoPage.list = << >> /\ NoPage.read = 0 /\ NoPage.found = {}
  BY <1>1 DEF NoPage, PageLoads
<1>3. Clear(<< >>) = {}
  BY <1>1 DEF Clear
<1>4. Entries({}) = {}
  BY DEF Entries
<1>5. ASSUME NEW c PROVE encodeNav(sorted(<< >>, Collected({}, c))) = << >>
  <2>1. Collected({}, c) = {}
    BY <1>4 DEF Collected
  <2>2. Cardinality({}) = 0
    BY FS_EmptySet
  <2> DEFINE h == sorted(<< >>, {})
  <2>3. h \in Seq({}) /\ Len(h) = 0
    BY <1>1, <1>4, <2>2, FS_EmptySet, SortedFacts
  <2>4. h = << >>
    <3> HIDE DEF h
    <3> QED
      BY <2>3, EmptySeq
  <2> HIDE DEF h
  <2> QED
    BY <2>1, <2>3, <2>4, MenuAssumption DEF encodeNav, h
<1>6. /\ NoMenu.found = {} /\ NoMenu.clear = {} /\ NoMenu.header = << >>
  BY DEF NoMenu
<1>7. Built(NoMenu, << >>)
  BY <1>1, <1>3, <1>5, <1>6 DEF Built
<1> QED
  BY <1>1, <1>2, <1>7

(* No page and no menu at the start. *)
LEMMA PanelInit == Init => PanelInv
<1> SUFFICES ASSUME Init PROVE PanelInv
  OBVIOUS
<1>1. registered = {} /\ alive = {} /\ page = NoPage /\ menu = NoMenu
  BY DEF Init
<1> QED
  BY <1>1, NoList, FS_EmptySet DEF PanelInv, Held

(* The list of the registry is a list. *)
LEMMA OrderListed ==
    ASSUME IsFiniteSet(registered), registered \subseteq Ids, NEW order \in SetToSeqs(registered)
    PROVE  order \in Lists /\ ToSet(order) = registered /\ Len(order) \in Nat
<1> DEFINE n == Cardinality(registered)
<1>1. n \in Nat
  BY FS_CardinalityType
<1>2. order \in [1..n -> registered] /\ \A i, j \in 1..n : i # j => order[i] # order[j]
  BY DEF SetToSeqs
<1>3. order \in Seq(Ids) /\ Len(order) = n /\ DOMAIN order = 1..n
  BY <1>1, <1>2
<1>4. order \in Lists
  BY <1>2, <1>3 DEF Lists
<1>5. order \in Surjection(1..n, registered)
  <2>1. order \in Injection(1..n, registered)
    BY <1>2 DEF Injection, IsInjective
  <2>2. Cardinality(1..n) = n
    BY <1>1, FS_Interval
  <2> QED
    BY <2>1, <2>2, FS_Injection
<1>6. ToSet(order) = registered
  BY <1>2, <1>3, <1>5 DEF ToSet, Surjection
<1> QED
  BY <1>1, <1>3, <1>4, <1>6

(* Every step keeps the panel in order. *)
LEMMA PanelStep == PanelInv /\ [Next]_vars => PanelInv'
<1> SUFFICES ASSUME PanelInv, [Next]_vars PROVE PanelInv'
  OBVIOUS
<1> USE DEF stores, panel, session
<1>1. ASSUME UNCHANGED panel, registered' \subseteq Ids, IsFiniteSet(registered'),
             alive' \subseteq registered' \cup Held
      PROVE  PanelInv'
  BY <1>1 DEF PanelInv, Held, Built
<1>2. ASSUME UNCHANGED <<registered, alive, panel>> PROVE PanelInv'
  BY <1>1, <1>2 DEF PanelInv
<1>3. ASSUME NEW id \in Ids, Register(id) PROVE PanelInv'
  <2>1. IsFiniteSet(registered \cup {id})
    BY FS_AddElement DEF PanelInv
  <2> QED
    BY <1>1, <1>3, <2>1 DEF Register, PanelInv
<1>4. ASSUME NEW id \in Ids, Deregister(id) \/ AdminDeregister(id) PROVE PanelInv'
  <2>1. IsFiniteSet(registered \ {id})
    BY FS_RemoveElement DEF PanelInv
  <2>2. registered' = registered \ {id} /\ UNCHANGED panel
    BY <1>4 DEF Deregister, AdminDeregister
  <2>3. alive' = alive \ {id} \/ (alive' = alive /\ id \in Held)
    BY <1>4 DEF Deregister, AdminDeregister
  <2> QED
    BY <1>1, <2>1, <2>2, <2>3 DEF PanelInv
<1>5. ASSUME NEW id \in Ids, MarkDead(id) \/ Heartbeat(id) PROVE PanelInv'
  BY <1>1, <1>5 DEF MarkDead, Heartbeat, PanelInv
<1>6. ASSUME NEW id \in Ids, AddSpec(id) \/ RemoveSpec(Name[id]) PROVE PanelInv'
  BY <1>2, <1>6 DEF AddSpec, RemoveSpec
<1>7. ASSUME NEW caller \in Users, List(caller) PROVE PanelInv'
  <2>1. PICK order \in SetToSeqs(registered) :
          page' = [NoPage EXCEPT !.list = order, !.caller = caller]
    BY <1>7 DEF List
  <2>2. order \in Lists /\ ToSet(order) = registered /\ Len(order) \in Nat
    BY OrderListed DEF PanelInv
  <2>3. page' = [list |-> order, read |-> 0, found |-> {}, caller |-> caller]
    BY <2>1 DEF NoPage
  <2>4. page' \in PageLoads
    BY <2>2, <2>3 DEF PageLoads
  <2>5. page = NoPage /\ UNCHANGED <<registered, alive, menu>>
    BY <1>7 DEF List, Idle
  <2>6. alive \subseteq registered
    BY <2>5, NoList DEF PanelInv, Held
  <2> QED
    BY <2>2, <2>3, <2>4, <2>5, <2>6 DEF PanelInv, Held
<1>8. ASSUME Collect PROVE PanelInv'
  <2> DEFINE id == page.list[page.read + 1]
  <2>1. /\ page \in PageLoads /\ page.list \in Lists /\ page.read \in Nat /\ page.found \subseteq Held
    BY DEF PanelInv, PageLoads
  <2>2. page.read < Len(page.list) /\ UNCHANGED <<registered, alive, menu>>
    BY <1>8 DEF Collect
  <2>3. Len(page.list) \in Nat /\ id \in Held /\ Held \subseteq Ids
    BY <2>1, <2>2, Listed DEF Held
  <2>4. \/ page' = [page EXCEPT !.read = @ + 1, !.found = @ \cup {id}]
        \/ page' = [page EXCEPT !.read = @ + 1]
    BY <1>8 DEF Collect
  <2> HIDE DEF id
  <2>5. /\ page' \in PageLoads /\ page'.list = page.list
        /\ page'.read = page.read + 1 /\ page'.found \subseteq Held
    <3>1. page.found \cup {id} \subseteq Held /\ page.found \cup {id} \in SUBSET Ids
      BY <2>1, <2>3
    <3>2. CASE page' = [page EXCEPT !.read = @ + 1, !.found = @ \cup {id}]
      <4> DEFINE more == page.found \cup {id}
      <4>1. page' = [list |-> page.list, read |-> page.read + 1, found |-> more,
                     caller |-> page.caller]
        BY <2>1, <3>2 DEF PageLoads
      <4>2. page.caller \in Users \cup {NoPage.caller}
        BY <2>1 DEF PageLoads
      <4>3. more \in SUBSET Ids /\ more \subseteq Held
        BY <3>1
      <4> HIDE DEF more
      <4> QED
        BY <2>1, <4>1, <4>2, <4>3 DEF PageLoads
    <3>3. CASE page' = [page EXCEPT !.read = @ + 1]
      BY <2>1, <3>3 DEF PageLoads
    <3> QED
      BY <2>4, <3>2, <3>3
  <2> QED
    BY <2>1, <2>2, <2>3, <2>5 DEF PanelInv, Held
<1>9. ASSUME Inject PROVE PanelInv'
  <2>1. /\ menu' = [found |-> page.found, clear |-> Clear(page.list),
                    header |-> encodeNav(sorted(page.list, Collected(page.found, page.caller))),
                    caller |-> page.caller]
        /\ page' = NoPage /\ alive' = alive \cap registered /\ registered' = registered
    BY <1>9 DEF Inject
  <2>2. page.list \in Lists /\ page.found \subseteq ToSet(page.list)
    BY DEF PanelInv, PageLoads, Held
  <2>3. Built(menu', page.list)
    BY <2>1, <2>2 DEF Built
  <2> QED
    BY <2>1, <2>3, NoList DEF PanelInv, Held
<1>10. ASSUME Restart PROVE PanelInv'
  BY <1>10, NoList, FS_EmptySet DEF Restart, PanelInv, Held
<1>11. ASSUME Login \/ LoggedIn \/ Logout \/ Tick \/ DocsPage PROVE PanelInv'
  BY <1>2, <1>11 DEF Login, LoggedIn, Logout, Tick, DocsPage
<1>12. CASE UNCHANGED vars
  BY <1>2, <1>12 DEF vars
<1> QED
  BY <1>3, <1>4, <1>5, <1>6, <1>7, <1>8, <1>9, <1>10, <1>11, <1>12 DEF Next

(* The rest of the types. *)
DashboardTypes ==
    /\ browser \in {"panel", "dashboard"}
    /\ \A n \in DOMAIN specs : specs[n] \in Ids /\ Name[specs[n]] = n
    /\ cookie <= Life
    /\ bearer \in BOOLEAN

(* They hold initially, ... *)
LEMMA DashboardInit == Init => DashboardTypes
<1> SUFFICES ASSUME Init PROVE DashboardTypes
  OBVIOUS
<1>1. cookie <= Life
  BY SessionNumbers DEF Init
<1>2. \A n \in DOMAIN specs : specs[n] \in Ids /\ Name[specs[n]] = n
  BY DEF Init
<1>3. browser \in {"panel", "dashboard"} /\ bearer \in BOOLEAN
  BY Zenon DEF Init
<1> QED
  BY <1>1, <1>2, <1>3 DEF DashboardTypes

(* ... and every step keeps them. *)
LEMMA DashboardStep == DashboardTypes /\ SessionInv /\ [Next]_vars => DashboardTypes'
<1> SUFFICES ASSUME DashboardTypes, SessionInv, [Next]_vars PROVE DashboardTypes'
  OBVIOUS
<1> USE DEF stores, panel, session
<1>1. browser' = browser
  BY DEF Next, Register, Deregister, MarkDead, Heartbeat, AddSpec, AdminDeregister, RemoveSpec,
         List, Collect, Inject, Login, LoggedIn, Logout, Tick, DocsPage, Restart, vars
<1>2. bearer' \in BOOLEAN
  <2>1. bearer' = bearer \/ bearer' = TRUE \/ bearer' = FALSE
    BY DEF Next, Register, Deregister, MarkDead, Heartbeat, AddSpec, AdminDeregister, RemoveSpec,
           List, Collect, Inject, Login, LoggedIn, Logout, Tick, DocsPage, Restart, vars
  <2> QED
    BY <2>1, Zenon DEF DashboardTypes
<1>3. cookie' <= Life
  <2>1. cookie' = cookie \/ cookie' = 0 \/ cookie' = Life \/ cookie' = cookie - 1
    BY DEF Next, Register, Deregister, MarkDead, Heartbeat, AddSpec, AdminDeregister, RemoveSpec,
           List, Collect, Inject, Login, LoggedIn, Logout, Tick, DocsPage, Restart, vars, Life
  <2>2. Life \in Nat /\ cookie \in Nat
    BY SessionNumbers DEF SessionInv
  <2> QED
    BY <2>1, <2>2 DEF DashboardTypes
<1>4. \A n \in DOMAIN specs' : specs'[n] \in Ids /\ Name[specs'[n]] = n
  <2>1. \/ UNCHANGED specs
        \/ specs' = << >>
        \/ \E id \in Ids : specs' = Overlay(specs, [n \in {Name[id]} |-> id])
        \/ \E id \in Ids : specs' = Without(Name[id])
    BY DEF Next, Register, Deregister, MarkDead, Heartbeat, AddSpec, AdminDeregister, RemoveSpec,
           List, Collect, Inject, Login, LoggedIn, Logout, Tick, DocsPage, Restart, vars
  <2>2. CASE UNCHANGED specs
    BY <2>2 DEF DashboardTypes
  <2>3. CASE specs' = << >>
    BY <2>3
  <2>4. ASSUME NEW id \in Ids, specs' = Overlay(specs, [n \in {Name[id]} |-> id])
        PROVE  \A n \in DOMAIN specs' : specs'[n] \in Ids /\ Name[specs'[n]] = n
    BY <2>4 DEF DashboardTypes, Overlay
  <2>5. ASSUME NEW id \in Ids, specs' = Without(Name[id])
        PROVE  \A n \in DOMAIN specs' : specs'[n] \in Ids /\ Name[specs'[n]] = n
    BY <2>5 DEF DashboardTypes, Without
  <2> QED
    BY <2>1, <2>2, <2>3, <2>4, <2>5
<1> QED
  BY <1>1, <1>2, <1>3, <1>4 DEF DashboardTypes

(* Types of the stores, the page loads, the menu and the session: a menu has *)
(* items of plugins found alive on a list, each once, and fits its header    *)
(* (nav.go, buildNav and encodeNav).                                         *)
THEOREM PagesTypeCorrect == Spec => []TypeOK
<1>1. PanelInv /\ SessionInv /\ DashboardTypes => TypeOK
  <2> SUFFICES ASSUME PanelInv, SessionInv, DashboardTypes PROVE TypeOK
    OBVIOUS
  <2>1. PICK l : Built(menu, l)
    BY DEF PanelInv
  <2>2. /\ menu.found \subseteq Ids /\ Len(menu.header) <= MaxNav
        /\ ToSet(menu.header) \subseteq Entries(menu.found) /\ IsInjective(menu.header)
    BY <2>1, BuiltFacts
  <2>3. page.read \in 0..Len(page.list) /\ page.found \subseteq Held
    <3>1. page.list \in Lists /\ page.read \in Nat /\ page.read <= Len(page.list)
          /\ page.found \subseteq Held
      BY DEF PanelInv, PageLoads
    <3> QED
      BY <3>1, Listed
  <2>4. /\ tick \in 0..(Sub - 1) /\ sent.left \in -1..TTL /\ token.left \in -1..TTL
    BY DEF SessionInv, Dated, SessionTokens
  <2>5. cookie \in 0..(TTL * Sub)
    BY SessionNumbers DEF SessionInv, DashboardTypes, Life
  <2>6. registered \subseteq Ids /\ alive \subseteq registered \cup Held
    BY DEF PanelInv
  <2> QED
    BY <2>2, <2>3, <2>4, <2>5, <2>6 DEF TypeOK, DashboardTypes
<1> QED
  BY <1>1, PanelInit, PanelStep, SessionInit, SessionStep, DashboardInit, DashboardStep, PTL
  DEF Spec

(* Whatever the manifests declare, in whichever order the registry is listed *)
(* and whoever comes, dies or goes between two page loads, the entries of    *)
(* the plugins that stayed are the same, in the same order (nav.go,          *)
(* buildNav: "so the result is stable").                                     *)
THEOREM MenuIsSteady == Spec => MenuSteady
<1> DEFINE Steady == (HasMenu(menu) /\ HasMenu(menu') /\ menu.caller = menu'.caller)
                       => LET kept == Kept(menu, menu')
                          IN Of(kept, menu) = Of(kept, menu') /\ SameOrder(menu, menu', Of(kept, menu))
<1>1. ASSUME PanelInv, PanelInv' PROVE Steady
  <2>1. PICK l : Built(menu, l)
    BY <1>1 DEF PanelInv
  <2>2. PICK k : Built(menu', k)
    BY <1>1 DEF PanelInv
  <2> QED
    BY <2>1, <2>2, MenusAgree
<1> QED
  BY <1>1, PanelInit, PanelStep, PTL DEF Spec, MenuSteady

(* A caller who may do more sees every entry of the plugins that stayed that *)
(* one who may do less sees, "*:*" being every permission (authz.go,         *)
(* permMatch; nav.go, buildNav).                                             *)
THEOREM WiderGrantsSeeMore == Spec => WiderSeesMore
<1> DEFINE More == (HasMenu(menu) /\ HasMenu(menu') /\ Wider(menu'.caller, menu.caller))
                     => LET kept == Kept(menu, menu') IN Of(kept, menu) \subseteq Of(kept, menu')
<1>1. ASSUME PanelInv, PanelInv' PROVE More
  <2>1. PICK l : Built(menu, l)
    BY <1>1 DEF PanelInv
  <2>2. PICK k : Built(menu', k)
    BY <1>1 DEF PanelInv
  <2> QED
    BY <2>1, <2>2, WiderMenu
<1> QED
  BY <1>1, PanelInit, PanelStep, PTL DEF Spec, WiderSeesMore
=============================================================================
