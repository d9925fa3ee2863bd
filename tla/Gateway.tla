------------------------------ MODULE Gateway ------------------------------
(***************************************************************************)
(* The way of a proxied request through the middleware chain: spoofed      *)
(* headers are stripped, host-based rewrites applied, the request is       *)
(* classified as public or not, authenticated, compared with its host's    *)
(* tenant, matched again and authorised, and its headers are injected.     *)
(* Plugins register and leave between any two of these steps, and while a  *)
(* request reads the entry it was matched with.                            *)
(*                                                                         *)
(* Source: server/http.go, server/product_host.go, server/                 *)
(* domain_resolve.go, internal/middleware/auth.go, tenant.go, authz.go,    *)
(* internal/dispatcher/dispatcher.go (IsPublic, IsRoutable, Dispatch up to *)
(* the protection layers, which are in Protection and RateLimiter).        *)
(*                                                                         *)
(* A path is its sequence of segments, without a trailing slash.           *)
(***************************************************************************)
EXTENDS Integers, Sequences

CONSTANTS
  Requests,
  Hosts,
  Paths,         \* paths clients ask for
  Tenants,       \* a tenant is its own slug
  NoTenant,
  Forged,        \* what a client makes up for a header
  ProductHosts,  \* PRODUCT_HOSTS: a function from some hosts to prefixes
  Claims,        \* Identity's table of custom domains: some hosts to records
                 \* of a tenant and a surface
  Surfaces,      \* the surfaces manifests declare: names to records of a
                 \* prefix and whether it is session-scoped
  CorePaths,     \* paths the auth middleware skips (/health, /docs..., /_core...)
  Blocked,       \* paths the firewall blocks
  PluginRoutes,  \* the routes plugins register and drop: some paths to sets of
                 \* kinds
  AuthEnabled    \* PLUGIN_API_KEY is set: introspector and resolver are not nil

NoPrefix == << >>
Prefixes == {ProductHosts[h] : h \in DOMAIN ProductHosts}
              \cup {Surfaces[s].prefix : s \in DOMAIN Surfaces}

\* A path put under a prefix.
Under(prefix, path) == prefix \o path

\* A path put under a tenant's slug.
UnderSlug(tenant, path) == <<tenant>> \o path

\* What the rewrites can make of the paths in P.
Rewrites(P) ==
  {Under(x, p) : x \in Prefixes, p \in P}
    \cup {Under(Surfaces[s].prefix, UnderSlug(t, p)) : s \in DOMAIN Surfaces, t \in Tenants, p \in P}

OncePaths == Paths \cup Rewrites(Paths)
AllPaths  == OncePaths \cup Rewrites(OncePaths)

\* The first route that matches a path: none, or an entry of one of three kinds.
EntryKinds == {"public", "authenticated", "guarded"}
RouteKinds == EntryKinds \cup {"none"}

\* What introspection tells of a caller: tenant, platform_admin, and whether
\* PermissionAllowed holds for the permission a guarded route declares.
Identities == [known : {TRUE}, tenant : Tenants \cup {NoTenant},
               admin : BOOLEAN, granted : BOOLEAN]
Nil == [known |-> FALSE, tenant |-> NoTenant, admin |-> FALSE, granted |-> FALSE]

\* "a host cannot be both" (http.go), and a product host has a prefix.
ASSUME HostAssumption ==
  /\ Hosts # {}
  /\ DOMAIN ProductHosts \subseteq Hosts /\ DOMAIN Claims \subseteq Hosts
  /\ DOMAIN ProductHosts \cap DOMAIN Claims = {}
  /\ NoPrefix \notin Prefixes
  /\ \A h \in DOMAIN Claims : Claims[h] \in [tenant : Tenants, surface : DOMAIN Surfaces]
  /\ \A s \in DOMAIN Surfaces : Surfaces[s].scoped \in BOOLEAN
  /\ DOMAIN PluginRoutes \subseteq AllPaths
  /\ \A p \in DOMAIN PluginRoutes : PluginRoutes[p] \subseteq EntryKinds
  /\ NoTenant \notin Tenants /\ Forged \notin Tenants \cup {NoTenant}
  /\ <<Forged>> \notin Prefixes
  /\ AuthEnabled \in BOOLEAN

VARIABLES
  routes,    \* what Dispatcher.match finds for each path
  declared,  \* surfaces that some live plugin declares
  req        \* the context of each request; entry: the kinds of the entries
             \* that have been in the cell its pointer leads to since the match,
             \* torn: that cell was written since; split: what the split read;
             \* kind: of the entry that named the plugin it is forwarded to

vars == <<routes, declared, req>>

\* "none": no token, or one that is not of the right form.
Credentials == {"none", "device", "platform"}

Init ==
  /\ routes = [p \in AllPaths |-> "none"]
  /\ declared = {}
  /\ req = [r \in Requests |->
       [at |-> "idle", host |-> CHOOSE h \in Hosts : TRUE, orig |-> << >>, path |-> << >>,
        cred |-> "none", acting |-> FALSE, hostPrefix |-> NoPrefix, tenantHeader |-> NoTenant,
        hostTenant |-> NoTenant, id |-> Nil, split |-> "none", entry |-> {}, torn |-> FALSE,
        kind |-> "none"]]

----------------------------------------------------------------------------
(* The middleware chain                                                    *)

\* A client sends a request; nothing it sends can be trusted.
Arrive(r, h, p, c, a, forged) ==
  /\ req[r].at = "idle"
  /\ req' = [req EXCEPT ![r] =
       [at |-> "strip", host |-> h, orig |-> p, path |-> p, cred |-> c, acting |-> a,
        hostPrefix |-> IF forged THEN <<Forged>> ELSE NoPrefix,
        tenantHeader |-> IF forged THEN Forged ELSE NoTenant,
        hostTenant |-> NoTenant, id |-> Nil, split |-> "none", entry |-> {}, torn |-> FALSE,
        kind |-> "none"]]
  /\ UNCHANGED <<routes, declared>>

\* Mutant: the header added last is missing from apicorexHeaders.
StripSpoofedHeaders_Incomplete(r) ==
  /\ req[r].at = "strip"
  /\ req' = [req EXCEPT ![r].at = "product", ![r].tenantHeader = NoTenant]
  /\ UNCHANGED <<routes, declared>>

StripSpoofedHeaders(r) ==
  /\ req[r].at = "strip"
  /\ req' = [req EXCEPT ![r].at = "product", ![r].hostPrefix = NoPrefix,
                        ![r].tenantHeader = NoTenant]
  /\ UNCHANGED <<routes, declared>>

Routable(p) == routes[p] # "none"

ProductHostRewrite(r) ==
  /\ req[r].at = "product"
  /\ IF /\ ~Routable(req[r].path)
        /\ req[r].path \notin Blocked
        /\ req[r].host \in DOMAIN ProductHosts
       THEN LET prefix == ProductHosts[req[r].host] IN
            req' = [req EXCEPT ![r].at = "domain", ![r].path = Under(prefix, @),
                               ![r].hostPrefix = prefix]
       ELSE req' = [req EXCEPT ![r].at = "domain"]
  /\ UNCHANGED <<routes, declared>>

\* resolveCustomDomain, up to its call of DomainResolver.Resolve.
ResolveCustomDomain(r) ==
  /\ req[r].at = "domain"
  /\ req' = [req EXCEPT ![r].at =
        IF ~AuthEnabled \/ Routable(req[r].path) THEN "split" ELSE "resolving"]
  /\ UNCHANGED <<routes, declared>>

\* The host is not claimed, Identity cannot be reached, or no live plugin
\* declares the surface: the request goes on as it is.
NotResolved(r) ==
  /\ req[r].at = "resolving"
  /\ req' = [req EXCEPT ![r].at = "split"]
  /\ UNCHANGED <<routes, declared>>

\* Mutant: the slug is put in front of the prefix.
RewriteToSurface_SlugFirst(r) ==
  /\ req[r].at = "resolving"
  /\ req[r].host \in DOMAIN Claims
  /\ LET claim == Claims[req[r].host]
         s == Surfaces[claim.surface]
     IN /\ claim.surface \in declared
        /\ req' = [req EXCEPT ![r].at = "split",
                     ![r].path = UnderSlug(claim.tenant, Under(s.prefix, @))]
  /\ UNCHANGED <<routes, declared>>

\* The host is claimed and its surface is declared now.
RewriteToSurface(r) ==
  /\ req[r].at = "resolving"
  /\ req[r].host \in DOMAIN Claims
  /\ LET claim == Claims[req[r].host]
         s == Surfaces[claim.surface]
     IN /\ claim.surface \in declared
        /\ req' = IF s.scoped
             THEN [req EXCEPT ![r].at = "split", ![r].path = Under(s.prefix, @),
                              ![r].hostPrefix = s.prefix, ![r].hostTenant = claim.tenant]
             ELSE [req EXCEPT ![r].at = "split",
                              ![r].path = Under(s.prefix, UnderSlug(claim.tenant, @))]
  /\ UNCHANGED <<routes, declared>>

\* match returns a pointer to the entry in the table and gives up the lock.
Matched(q, stage) == [q EXCEPT !.at = stage, !.entry = {routes[q.path]}, !.torn = FALSE]

\* The public/auth split, up to the match in IsPublic.
Split(r) ==
  /\ req[r].at = "split"
  /\ req' = [req EXCEPT ![r] =
        IF req[r].path \in CorePaths THEN [@ EXCEPT !.at = "tenant"]
        ELSE IF Routable(req[r].path) THEN Matched(@, "classify")
        ELSE [@ EXCEPT !.at = "auth"]]
  /\ UNCHANGED <<routes, declared>>

\* Mutant: a route without a permission is taken for public.
IsPublic_EmptyPermission(r) ==
  /\ req[r].at = "classify"
  /\ \E k \in req[r].entry :
       req' = [req EXCEPT ![r].at = IF k \in {"public", "authenticated"} THEN "optional" ELSE "auth",
                          ![r].split = k, ![r].entry = {}]
  /\ UNCHANGED <<routes, declared>>

\* IsPublic reads public through the pointer: of the entry it matched or of
\* one written over it since.
IsPublic(r) ==
  /\ req[r].at = "classify"
  /\ \E k \in req[r].entry :
       req' = [req EXCEPT ![r].at = IF k = "public" THEN "optional" ELSE "auth",
                          ![r].split = k, ![r].entry = {}]
  /\ UNCHANGED <<routes, declared>>

\* The identities Identity may answer with for a credential: a device token
\* belongs to a tenant, a platform session to none.
Resolves(c) ==
  {id \in Identities :
     \/ c = "device" /\ id.tenant # NoTenant
     \/ c = "platform" /\ id.tenant = NoTenant /\ id.admin /\ ~id.granted}

\* AuthWithLogin and OptionalAuth when the credential resolves.
Authenticate(r, id) ==
  /\ req[r].at \in {"auth", "optional"}
  /\ AuthEnabled
  /\ id \in Resolves(req[r].cred)
  /\ req' = [req EXCEPT ![r].at = "tenant", ![r].id = id]
  /\ UNCHANGED <<routes, declared>>

\* 401, 503 or a redirect to the login.
RejectUnauthenticated(r) == [req EXCEPT ![r].at = "refused"]

\* AuthWithLogin when there is no usable token or it does not resolve
\* (invalid, revoked, Identity unavailable).  Without an introspector it
\* lets everything pass.
AuthWithLogin(r) ==
  /\ req[r].at = "auth"
  /\ req' = IF AuthEnabled THEN RejectUnauthenticated(r) ELSE [req EXCEPT ![r].at = "tenant"]
  /\ UNCHANGED <<routes, declared>>

\* OptionalAuth in the same cases: the identity stays unset.
OptionalAuth(r) ==
  /\ req[r].at = "optional"
  /\ req' = [req EXCEPT ![r].at = "tenant"]
  /\ UNCHANGED <<routes, declared>>

\* Mutant: platform administrators are let through.
RequireHostTenant_AdminPasses(r) ==
  /\ req[r].at = "tenant"
  /\ req' = [req EXCEPT ![r].at =
        IF /\ req[r].hostTenant # NoTenant
           /\ req[r].id # Nil
           /\ ~req[r].id.admin
           /\ req[r].id.tenant # req[r].hostTenant
        THEN "refused" ELSE "dispatch"]
  /\ UNCHANGED <<routes, declared>>

RequireHostTenant(r) ==
  /\ req[r].at = "tenant"
  /\ req' = [req EXCEPT ![r].at =
        IF /\ req[r].hostTenant # NoTenant
           /\ req[r].id # Nil
           /\ req[r].id.tenant # req[r].hostTenant
        THEN "refused" ELSE "dispatch"]
  /\ UNCHANGED <<routes, declared>>

\* Dispatch: the firewall and the match.
Match(r) ==
  /\ req[r].at = "dispatch"
  /\ req' = [req EXCEPT ![r] =
        IF req[r].path \in Blocked \/ ~Routable(req[r].path)
          THEN [@ EXCEPT !.at = "refused"] ELSE Matched(@, "matched")]
  /\ UNCHANGED <<routes, declared>>

\* authorized, for the permission of the matched entry; when the cell has been
\* written the permission it reads may be another's, which the identity may or
\* may not have.
MayAuthorize(q) == q.id # Nil /\ (q.id.admin \/ q.id.granted \/ q.torn)
MayForbid(q)    == q.id = Nil \/ (~q.id.admin /\ (~q.id.granted \/ q.torn))

\* Dispatch's authorisation lets the request through.  public and permission
\* are read one after the other through the pointer, each of any entry that
\* has been in the cell; a public entry may declare a permission or none.
Authorize(r) ==
  /\ req[r].at = "matched"
  /\ \E a, b \in req[r].entry : a = "public" \/ b # "guarded" \/ MayAuthorize(req[r])
  /\ req' = [req EXCEPT ![r].at = "get"]
  /\ UNCHANGED <<routes, declared>>

\* A refused request lets go of its pointer.
Refused(q) == [q EXCEPT !.at = "refused", !.entry = {}, !.torn = FALSE]

\* It refuses the request: 403.
Forbid(r) ==
  /\ req[r].at = "matched"
  /\ \E a, b \in req[r].entry : a # "public" /\ b # "authenticated" /\ MayForbid(req[r])
  /\ req' = [req EXCEPT ![r] = Refused(@)]
  /\ UNCHANGED <<routes, declared>>

\* InjectTenantHeaders: nothing without an identity, else its tenant, and
\* X-Acting-User is deleted.
InjectTenantHeaders(q) ==
  [tenant |-> IF q.id # Nil THEN q.id.tenant ELSE q.tenantHeader,
   acting |-> IF q.id # Nil THEN FALSE ELSE q.acting]

\* pluginID is read through the pointer, the plugin it names is alive and no
\* layer refuses: the headers are injected and the request is forwarded.
Forward(r) ==
  /\ req[r].at = "get"
  /\ LET injected == InjectTenantHeaders(req[r]) IN
     \E k \in req[r].entry :
       req' = [req EXCEPT ![r].at = "forwarded", ![r].kind = k, ![r].entry = {},
                 ![r].tenantHeader = injected.tenant, ![r].acting = injected.acting]
  /\ UNCHANGED <<routes, declared>>

\* The plugin is gone or not alive, or a protection layer refuses.
TurnAway(r) ==
  /\ req[r].at = "get"
  /\ req' = [req EXCEPT ![r] = Refused(@)]
  /\ UNCHANGED <<routes, declared>>

----------------------------------------------------------------------------
(* The plugins: AddRoutes and RemoveRoutes change what a path matches, and *)
(* a plugin that comes or goes changes the declared surfaces.              *)

RouteChanges(p, kind) ==
  /\ routes[p] # kind
  /\ routes' = [routes EXCEPT ![p] = kind]
  /\ UNCHANGED <<declared, req>>

\* The compaction in place of removeRoutes, or an append into the cells it
\* freed, writes another entry, of any path, into the cell that a request is
\* reading.  The readers hold no lock: a read may give any of these entries.
CellWritten(r, kind) ==
  /\ req[r].at \in {"classify", "matched", "get"}
  /\ req' = [req EXCEPT ![r].entry = @ \cup {kind}, ![r].torn = TRUE]
  /\ UNCHANGED <<routes, declared>>

SurfaceChanges(s) ==
  /\ declared' = IF s \in declared THEN declared \ {s} ELSE declared \cup {s}
  /\ UNCHANGED <<routes, req>>

Step(r) ==
  \/ StripSpoofedHeaders(r) \/ ProductHostRewrite(r) \/ ResolveCustomDomain(r)
  \/ NotResolved(r) \/ RewriteToSurface(r) \/ Split(r) \/ IsPublic(r)
  \/ \E id \in Identities : Authenticate(r, id)
  \/ AuthWithLogin(r) \/ OptionalAuth(r) \/ RequireHostTenant(r)
  \/ Match(r) \/ Authorize(r) \/ Forbid(r) \/ Forward(r) \/ TurnAway(r)

Next ==
  \/ \E r \in Requests, h \in Hosts, p \in Paths, c \in Credentials, a, f \in BOOLEAN :
       Arrive(r, h, p, c, a, f)
  \/ \E r \in Requests : Step(r)
  \/ \E p \in DOMAIN PluginRoutes : \E k \in PluginRoutes[p] \cup {"none"} : RouteChanges(p, k)
  \/ \E r \in Requests, k \in EntryKinds : CellWritten(r, k)
  \/ \E s \in DOMAIN Surfaces : SurfaceChanges(s)

Spec == Init /\ [][Next]_vars

----------------------------------------------------------------------------
(* Properties                                                              *)

Stages == {"idle", "strip", "product", "domain", "resolving", "split", "classify", "optional",
           "auth", "tenant", "dispatch", "matched", "get", "forwarded", "refused"}

\* Types.
TypeOK ==
  /\ routes \in [AllPaths -> RouteKinds]
  /\ declared \subseteq DOMAIN Surfaces
  /\ req \in [Requests -> [at : Stages, host : Hosts, orig : AllPaths \cup {<< >>},
        path : AllPaths \cup {<< >>}, cred : Credentials, acting : BOOLEAN,
        hostPrefix : Prefixes \cup {NoPrefix, <<Forged>>},
        tenantHeader : Tenants \cup {NoTenant, Forged}, hostTenant : Tenants \cup {NoTenant},
        id : Identities \cup {Nil}, split : RouteKinds, entry : SUBSET EntryKinds,
        torn : BOOLEAN, kind : RouteKinds]]

Forwarded(r) == req[r].at = "forwarded"

\* The entry that names the plugin a request is forwarded to is the one it was
\* authorised for, unless the cell was written between Dispatch's match and the
\* read of pluginID: then it may need a permission the caller does not have.
\* Whatever is registered or removed meanwhile, a request without an identity
\* is forwarded for an entry that is not public only if the split read a public
\* one (http.go:186, dispatcher.go:348-364).
Authorised ==
  \A r \in Requests : Forwarded(r) =>
    /\ req[r].kind = "guarded" /\ ~req[r].torn
         => req[r].id # Nil /\ (req[r].id.admin \/ req[r].id.granted)
    /\ AuthEnabled /\ req[r].path \notin CorePaths /\ req[r].id = Nil
         => req[r].kind = "public" \/ req[r].split = "public"

\* The headers a plugin trusts say what Core found out: the tenant is the
\* identity's; a caller's X-Acting-User reaches the plugin only when nobody
\* resolved an identity from it, which takes a split that read a public route
\* (tenant.go:130-133 returns before it deletes the header); and a host prefix
\* is exactly what was put in front of the path the client asked for
\* (product_host.go, domain_resolve.go).
HeadersTrusted ==
  \A r \in Requests : Forwarded(r) =>
    /\ req[r].tenantHeader = req[r].id.tenant
    /\ req[r].acting => /\ req[r].id = Nil
                        /\ AuthEnabled /\ req[r].path \notin CorePaths => req[r].split = "public"
    /\ req[r].hostPrefix # NoPrefix => req[r].path = Under(req[r].hostPrefix, req[r].orig)

\* On a session-scoped custom domain a rewritten request carries no identity
\* or one of the tenant that claimed the domain (requireHostTenant).
TenantOfHost ==
  \A r \in Requests :
    Forwarded(r) /\ req[r].host \in DOMAIN Claims /\ req[r].hostPrefix # NoPrefix /\ req[r].id # Nil
      => req[r].tenantHeader = Claims[req[r].host].tenant
=============================================================================
