------------------------------- MODULE Pages -------------------------------
(***************************************************************************)
(* What the gateway itself puts together for a browser while plugins come, *)
(* die and go: the suite's menu, injected into a panel's page loads, and   *)
(* the dashboard's session with the merged API documents behind it.        *)
(*                                                                         *)
(* Source: internal/dispatcher/dispatcher.go (where the menu is built),    *)
(* internal/controlplane/handlers.go and plugintoken.go (sessions),        *)
(* server/http.go (/docs), internal/registry and internal/openapi.         *)
(*                                                                         *)
(* The registry and the injector change through their own operations, in   *)
(* any order: whatever the control plane's handlers do to them is among    *)
(* these behaviours (module ControlPlane has the handlers).                *)
(*                                                                         *)
(* Time passes in ticks, Sub to a second; a token's expiry is a whole      *)
(* second and is kept relative to the current one.  One browser, open      *)
(* either on a panel, whose pages do not depend on the injector, or on the *)
(* dashboard, whose pages do not depend on which plugins are alive: what a *)
(* browser's pages do not depend on stays still.                           *)
(***************************************************************************)
EXTENDS Menu, ApiDocs, FiniteSets

CONSTANTS
  Users,    \* the permissions and features a panel's user may have
  TTL,        \* seconds a session lasts (12 h)
  Sub,        \* ticks in a second
  Delay       \* ticks an answer may take to reach the browser

ASSUME SessionAssumption == TTL \in Nat \ {0} /\ Sub \in Nat \ {0} /\ Delay \in Nat

\* A specification comes with the registration.
ASSUME PluginsAssumption == Ids \subseteq DOMAIN Declared

VARIABLES
  browser,    \* "panel" or "dashboard"
  registered, \* Registry.plugins
  alive,      \* the instances whose entry says Alive
  specs,      \* Injector.specs: the instance whose document a name has
  page,       \* the panel's page load in progress
  menu,       \* the last page the panel got
  tick,       \* ticks since the second began
  sent,       \* the token on its way to the browser
  token,      \* the token the browser got last
  cookie,     \* ticks until the browser drops the cookie; 0: it has none
  bearer,     \* whether the dashboard keeps the token for its own calls
  docs        \* the last API document the browser got

stores  == <<registered, alive, specs>>
panel   == <<page, menu>>
session == <<tick, sent, token, cookie, bearer>>
vars    == <<browser, stores, panel, session, docs>>

\* Ages are not told apart past this one, when every token has expired.
MaxAge == (TTL + 1) * Sub + Delay

NoToken == [left |-> -1, age |-> MaxAge]
NoPage  == [list |-> << >>, read |-> 0, found |-> {},
            caller |-> [perms |-> {}, features |-> {}]]
NoMenu  == [found |-> {}, clear |-> {}, header |-> << >>, caller |-> NoPage.caller]
NoDocs  == [from |-> {}, text |-> Document(Core)]

Init ==
  /\ browser \in {"panel", "dashboard"}
  /\ registered = {} /\ alive = {} /\ specs = << >>
  /\ page = NoPage /\ menu = NoMenu
  /\ tick = 0 /\ sent = NoToken /\ token = NoToken /\ cookie = 0
  /\ bearer = FALSE
  /\ docs = NoDocs

----------------------------------------------------------------------------
(* The registry and the injector                                           *)

Held == ToSet(page.list)

\* A new entry; an id is not drawn again while somebody holds its entry.
Register(id) ==
  /\ id \notin registered \cup Held
  /\ registered' = registered \cup {id}
  /\ alive' = alive \cup {id}
  /\ UNCHANGED <<browser, specs, panel, session, docs>>

\* A page load that has listed the entry keeps it, as it was.
Deregister(id) ==
  /\ id \in registered
  /\ registered' = registered \ {id}
  /\ alive' = IF id \in Held THEN alive ELSE alive \ {id}
  /\ UNCHANGED <<browser, specs, panel, session, docs>>

MarkDead(id) ==
  /\ browser = "panel"
  /\ id \in registered
  /\ alive' = alive \ {id}
  /\ UNCHANGED <<browser, registered, specs, panel, session, docs>>

Heartbeat(id) ==
  /\ browser = "panel"
  /\ id \in registered
  /\ alive' = alive \cup {id}
  /\ UNCHANGED <<browser, registered, specs, panel, session, docs>>

AddSpec(id) ==
  /\ browser = "dashboard"
  /\ specs' = Overlay(specs, [n \in {Name[id]} |-> id])
  /\ UNCHANGED <<browser, registered, alive, panel, session, docs>>

Without(name) == [n \in DOMAIN specs \ {name} |-> specs[n]]

RemoveSpec(name) ==
  /\ browser = "dashboard"
  /\ name \in DOMAIN specs
  /\ specs' = Without(name)
  /\ UNCHANGED <<browser, registered, alive, panel, session, docs>>

----------------------------------------------------------------------------
(* A panel's page load: reg.List, then buildNav's loop, one entry a time   *)

Idle == page = NoPage

\* The entries come in the order of a map iteration: any.
List(caller) ==
  /\ browser = "panel" /\ Idle
  /\ \E order \in SetToSeqs(registered) :
        page' = [NoPage EXCEPT !.list = order, !.caller = caller]
  /\ registered # {}
  /\ UNCHANGED <<browser, stores, menu, session, docs>>

\* Alive is read from the entry itself, with no lock, when its turn comes.
Collect ==
  /\ page.read < Len(page.list)
  /\ LET id == page.list[page.read + 1]
     IN page' = IF id \in alive
                THEN [page EXCEPT !.read = @ + 1, !.found = @ \cup {id}]
                ELSE [page EXCEPT !.read = @ + 1]
  /\ UNCHANGED <<browser, stores, menu, session, docs>>

\* The names only one of the listed instances has.
Clear(list) == {Name[id] : id \in {i \in ToSet(list) :
                  \A other \in ToSet(list) : Name[other] = Name[i] => other = i}}

\* The sort, the header, and the page is the browser's.
Inject ==
  /\ ~Idle /\ page.read = Len(page.list)
  /\ menu' = [found |-> page.found, clear |-> Clear(page.list),
              header |-> encodeNav(sorted(page.list, Collected(page.found, page.caller))),
              caller |-> page.caller]
  /\ page' = NoPage
  /\ alive' = alive \cap registered
  /\ UNCHANGED <<browser, registered, specs, session, docs>>

----------------------------------------------------------------------------
(* The dashboard's session                                                 *)

\* tokenSigner.issue: the expiry is TTL later, cut to its second.
Issued == [left |-> TTL, age |-> 0]

\* Mutant: a token is refused in the second it expires in.
Verify_LastSecond(t) == t.left > 0

\* Mutant: only the signature is looked at.
Verify_Signature(t) == t # NoToken

\* tokenSigner.verify: time.Now().Unix() > exp is the refusal.
Verify(t) == t.left >= 0

Login ==
  /\ browser = "dashboard" /\ sent = NoToken
  /\ sent' = Issued
  /\ UNCHANGED <<browser, stores, panel, tick, token, cookie, bearer, docs>>

\* The answer: Set-Cookie with the session's TTL, and the token for the SPA.
LoggedIn ==
  /\ sent # NoToken
  /\ token' = sent /\ sent' = NoToken
  /\ cookie' = TTL * Sub
  /\ bearer' = TRUE
  /\ UNCHANGED <<browser, stores, panel, tick, docs>>

\* The cookie is cleared; the SPA drops its token in the tab that logs out.
Logout ==
  /\ cookie > 0
  /\ cookie' = 0
  /\ bearer' \in {FALSE, bearer}
  /\ UNCHANGED <<browser, stores, panel, tick, sent, token, docs>>

Older(t, newSecond) ==
  IF t = NoToken THEN t
  ELSE [left |-> IF newSecond /\ t.left >= 0 THEN t.left - 1 ELSE t.left,
        age |-> t.age + 1]

Tick ==
  /\ browser = "dashboard"
  /\ sent # NoToken => sent.age < Delay
  /\ tick' = (tick + 1) % Sub
  /\ sent' = Older(sent, tick' = 0)
  /\ token' = LET t == Older(token, tick' = 0)
              IN IF t.age >= MaxAge THEN NoToken ELSE t
  /\ cookie' = IF cookie = 0 THEN 0 ELSE cookie - 1
  /\ UNCHANGED <<browser, stores, panel, bearer, docs>>

\* /docs/openapi.json behind RequireDashboardSession.
DocsPage ==
  /\ cookie > 0 /\ Verify(token)
  /\ \E order \in SetToSeqs({specs[n] : n \in DOMAIN specs}) :
        docs' = [from |-> ToSet(order), text |-> MergedSpec(order)]
  /\ UNCHANGED <<browser, stores, panel, tick, sent, token, cookie, bearer>>

\* adminDeregister behind requireSession: the entry, then the document.
AdminDeregister(id) ==
  /\ bearer /\ Verify(token)
  /\ id \in registered
  /\ registered' = registered \ {id}
  /\ alive' = alive \ {id}
  /\ specs' = Without(Name[id])
  /\ UNCHANGED <<browser, panel, tick, sent, token, cookie, bearer, docs>>

\* A restart with the same secret: the stores are empty, tokens still verify.
Restart ==
  /\ registered' = {} /\ alive' = {} /\ specs' = << >>
  /\ page' = NoPage
  /\ UNCHANGED <<browser, menu, session, docs>>

Next ==
  \/ \E id \in Ids : \/ Register(id) \/ Deregister(id) \/ MarkDead(id) \/ Heartbeat(id)
                     \/ AddSpec(id) \/ AdminDeregister(id)
  \/ \E id \in Ids : RemoveSpec(Name[id])
  \/ \E caller \in Users : List(caller)
  \/ Collect \/ Inject
  \/ Login \/ LoggedIn \/ Logout \/ Tick \/ DocsPage
  \/ Restart

Spec == Init /\ [][Next]_vars

----------------------------------------------------------------------------
(* Properties                                                              *)

\* Type invariant: the stores, the page loads and the session have their shape,
\* and a menu shows items of plugins that were listed, each once.
TypeOK ==
  /\ browser \in {"panel", "dashboard"}
  /\ registered \subseteq Ids
  /\ alive \subseteq registered \cup Held
  /\ \A n \in DOMAIN specs : specs[n] \in Ids /\ Name[specs[n]] = n
  /\ page.read \in 0..Len(page.list) /\ page.found \subseteq Held
  /\ menu.found \subseteq Ids /\ Len(menu.header) <= MaxNav
  /\ ToSet(menu.header) \subseteq Entries(menu.found) /\ IsInjective(menu.header)
  /\ tick \in 0..(Sub - 1)
  /\ sent.left \in -1..TTL /\ token.left \in -1..TTL
  /\ cookie \in 0..(TTL * Sub)
  /\ bearer \in BOOLEAN

HasMenu(m) == m.header # << >>

\* The names both pages had from the same, only, live instance.
Kept(m, n) == {Name[id] : id \in m.found \cap n.found} \cap m.clear \cap n.clear

Of(names, m) == {e \in ToSet(m.header) : Plugin(e) \in names}

Precedes(m, a, b) ==
  \E i, j \in DOMAIN m.header : i < j /\ m.header[i] = a /\ m.header[j] = b

SameOrder(m, n, entries) == \A a, b \in entries : Precedes(m, a, b) <=> Precedes(n, a, b)

\* A user's menu does not reorder itself between page loads: whatever order the
\* registry is listed in, and whoever came, died or went in between, the entries
\* of the plugins that stayed are the same and in the same order (nav.go,
\* buildNav: "so the result is stable"; manifest.go, NavItem: a plugin "cannot
\* reorder anyone else's").
MenuSteady ==
  [][(HasMenu(menu) /\ HasMenu(menu') /\ menu.caller = menu'.caller)
        => LET kept == Kept(menu, menu')
           IN Of(kept, menu) = Of(kept, menu') /\ SameOrder(menu, menu', Of(kept, menu))]_menu

\* c may do what d may: "*:*" is the owner's grant.
Wider(c, d) ==
  /\ Wildcard \in c.perms \/ d.perms \subseteq c.perms
  /\ d.features \subseteq c.features

\* A caller who may do more sees more: no entry of a plugin that stayed is lost
\* to a caller with a wider grant (nav.go, buildNav: a matcher of its own "missed
\* '*:*'" and the owner's menu had one entry).
WiderSeesMore ==
  [][(HasMenu(menu) /\ HasMenu(menu') /\ Wider(menu'.caller, menu.caller))
        => LET kept == Kept(menu, menu') IN Of(kept, menu) \subseteq Of(kept, menu')]_menu

\* A cookie the browser still has opens /docs, up to the last ticks, by which the
\* login's answer was late (handlers.go, setSessionCookie: "matching the
\* sessionSigner's TTL"; plugintoken.go cuts the expiry to its second).
CookieOpens == cookie > 0 /\ ~Verify(token) => cookie < Delay

\* A session lapses: no page is shown and no plugin is removed for a token a full
\* second older than the TTL, logged out or not, whatever the dashboard has kept
\* (plugintoken.go, verify; handlers.go, requireSession).
SessionsLapse ==
  [][DocsPage \/ (\E id \in Ids : AdminDeregister(id)) => token.age < (TTL + 1) * Sub]_vars

\* The merged document is complete and nobody speaks for others: every path and
\* component of Core and of each stored, readable specification is there, told by
\* one that declares it, and each security requirement is there once, whichever
\* order the map gives (injector.go, MergedSpec).
DocsFaithful == Faithful(docs.text, Voices(docs.from))
=============================================================================
