---------------------------- MODULE GatewayProofs ----------------------------
(***************************************************************************)
(* Proofs about the chain a request goes through and the caches its        *)
(* authentication asks:                                                    *)
(*   - Gateway, for any hosts, paths, tenants, surfaces and number of      *)
(*     requests;                                                           *)
(*   - VerdictCache, for any keys, any number of callers and any TTL and   *)
(*     timeout.                                                            *)
(***************************************************************************)
EXTENDS Gateway, VerdictCache, TLAPS

\* Where the path of a request can be at each stage of the rewrites.
Located(q) ==
  /\ q.at \in {"strip", "product"} => q.path \in Paths /\ q.path = q.orig
  /\ q.at \in {"domain", "resolving"} => q.path \in OncePaths
  /\ q.at # "idle" => q.path \in AllPaths

Rewriting == {"product", "domain", "resolving"}
Rewritten == {"split", "classify", "optional", "auth", "tenant", "dispatch", "matched", "get",
    "forwarded"}

\* The host prefix header tells what the rewrites did.
PrefixTold(q) ==
  /\ q.at = "product" => q.hostPrefix = NoPrefix
  /\ q.at \in Rewriting \cup Rewritten /\ q.hostPrefix # NoPrefix
       => q.path = Under(q.hostPrefix, q.orig)
  /\ q.at \in Rewriting /\ q.host \in DOMAIN Claims
       => q.hostPrefix = NoPrefix /\ q.path = q.orig
  /\ q.at \in Rewritten /\ q.host \in DOMAIN Claims /\ q.hostPrefix # NoPrefix
       => q.hostTenant = Claims[q.host].tenant

\* The tenant header is Core's, and agrees with the host's tenant.
TenantTold(q) ==
  /\ q.at \in Rewriting \cup (Rewritten \ {"forwarded"}) => q.tenantHeader = NoTenant
  /\ q.at = "forwarded" => q.tenantHeader = q.id.tenant /\ (q.acting => q.id = Nil)
  /\ q.at \in {"dispatch", "matched", "get", "forwarded"} /\ q.hostTenant # NoTenant /\ q.id # Nil
       => q.id.tenant = q.hostTenant

\* A request without an identity was classified as public or is on a path that
\* needs none; and as long as the cell it reads is not written, the entry it
\* goes on with is the one it was authorised for.
Classified(q) ==
  /\ q.at = "optional" => q.split = "public"
  /\ q.at \in {"tenant", "dispatch", "matched", "get", "forwarded"} =>
       q.id # Nil \/ q.split = "public" \/ ~AuthEnabled \/ q.path \in CorePaths
  /\ q.at \in {"matched", "get"} /\ ~q.torn => \A a, b \in q.entry : a = b
  /\ q.at = "get" /\ ~q.torn /\ "guarded" \in q.entry => q.id # Nil /\ (q.id.admin \/ q.id.granted)
  /\ q.at = "forwarded" /\ ~q.torn /\ q.kind = "guarded"
       => q.id # Nil /\ (q.id.admin \/ q.id.granted)

IndInv ==
  /\ TypeOK
  /\ \A r \in Requests : /\ Located(req[r])
                         /\ PrefixTold(req[r])
                         /\ TenantTold(req[r])
                         /\ Classified(req[r])

----------------------------------------------------------------------------
\* The rewrites stay within the paths the model knows: one from Paths to
\* OncePaths, a second one to AllPaths.
LEMMA Rewritable ==
  /\ Paths \subseteq OncePaths /\ OncePaths \subseteq AllPaths
  /\ \A x \in Prefixes, p \in Paths : Under(x, p) \in OncePaths
  /\ \A x \in Prefixes, p \in OncePaths : Under(x, p) \in AllPaths
  /\ \A s \in DOMAIN Surfaces, t \in Tenants, p \in OncePaths :
       Under(Surfaces[s].prefix, UnderSlug(t, p)) \in AllPaths
  /\ \A s \in DOMAIN Surfaces : Surfaces[s].prefix \in Prefixes
  /\ \A h \in DOMAIN ProductHosts : ProductHosts[h] \in Prefixes
<1>1. Paths \subseteq OncePaths /\ OncePaths \subseteq AllPaths
  BY DEF OncePaths, AllPaths
<1>2. \A x \in Prefixes, p \in Paths : Under(x, p) \in OncePaths
  BY DEF OncePaths, Rewrites
<1>3. \A x \in Prefixes, p \in OncePaths : Under(x, p) \in AllPaths
  BY DEF AllPaths, Rewrites
<1>4. \A s \in DOMAIN Surfaces, t \in Tenants, p \in OncePaths :
        Under(Surfaces[s].prefix, UnderSlug(t, p)) \in AllPaths
  BY DEF AllPaths, Rewrites
<1>5. \A s \in DOMAIN Surfaces : Surfaces[s].prefix \in Prefixes
  BY Zenon DEF Prefixes
<1>6. \A h \in DOMAIN ProductHosts : ProductHosts[h] \in Prefixes
  BY Zenon DEF Prefixes
<1> QED BY <1>1, <1>2, <1>3, <1>4, <1>5, <1>6

\* A request without an identity is told from every identity.
LEMMA NilKnown == Nil \notin Identities /\ Nil.tenant = NoTenant
BY DEF Nil, Identities

\* The inductive invariant holds before any request arrives.
LEMMA IndInit == Init => IndInv
<1> SUFFICES ASSUME Init PROVE IndInv
  OBVIOUS
<1>1. TypeOK
  BY HostAssumption DEF Init, TypeOK, Stages, RouteKinds, EntryKinds, Credentials, NoPrefix
<1> QED BY <1>1 DEF Init, IndInv, Located, PrefixTold, TenantTold, Classified,
                     Rewriting, Rewritten

----------------------------------------------------------------------------
(* A step of request r replaces its context by q and leaves the others.    *)

Contexts == [at : Stages, host : Hosts, orig : AllPaths \cup {<< >>},
        path : AllPaths \cup {<< >>}, cred : Credentials, acting : BOOLEAN,
        hostPrefix : Prefixes \cup {NoPrefix, <<Forged>>},
        tenantHeader : Tenants \cup {NoTenant, Forged}, hostTenant : Tenants \cup {NoTenant},
        id : Identities \cup {Nil}, split : RouteKinds, entry : SUBSET EntryKinds,
        torn : BOOLEAN, kind : RouteKinds]

Good(q) == /\ q \in Contexts
           /\ Located(q) /\ PrefixTold(q) /\ TenantTold(q)
           /\ Classified(q)

\* A step that replaces the context of one request by a good one, and leaves
\* the routes alone, keeps the invariant.
LEMMA StepOf ==
  ASSUME IndInv, NEW r \in Requests, NEW q,
         req' = [req EXCEPT ![r] = q], UNCHANGED <<routes, declared>>, Good(q)
  PROVE  IndInv'
<1>1. TypeOK'
  BY DEF IndInv, TypeOK, Good, Contexts
<1>2. \A s \in Requests : req'[s] = IF s = r THEN q ELSE req[s]
  BY DEF IndInv, TypeOK
<1>3. \A s \in Requests : /\ Located(req'[s]) /\ PrefixTold(req'[s]) /\ TenantTold(req'[s])
                          /\ Classified(req'[s])
  BY <1>2, Zenon DEF IndInv, Good
<1> QED BY <1>1, <1>3 DEF IndInv, Located, PrefixTold, TenantTold, Classified

\* The invariant says of each request that its context is good.
LEMMA GoodNow ==
  ASSUME IndInv, NEW r \in Requests
  PROVE  Good(req[r])
BY DEF IndInv, TypeOK, Good, Contexts

\* After the stripping no header of the client's is left.
LEMMA StripSpoofedHeadersStep ==
  ASSUME IndInv, NEW r \in Requests, StripSpoofedHeaders(r)
  PROVE  IndInv'
<1> DEFINE q == [req[r] EXCEPT !.at = "product", !.hostPrefix = NoPrefix, !.tenantHeader = NoTenant]
<1>1. req' = [req EXCEPT ![r] = q] /\ UNCHANGED <<routes, declared>>
  BY DEF StripSpoofedHeaders
<1>2. /\ q.at = "product" /\ q.hostPrefix = NoPrefix
      /\ q.tenantHeader = NoTenant /\ q.host = req[r].host
      /\ q.orig = req[r].orig /\ q.path = req[r].path /\ q.cred = req[r].cred
      /\ q.acting = req[r].acting /\ q.hostTenant = req[r].hostTenant
      /\ q.id = req[r].id /\ q.kind = req[r].kind /\ q.split = req[r].split
      /\ q.entry = req[r].entry /\ q.torn = req[r].torn
  BY GoodNow DEF Good, Contexts
<1>3. q \in Contexts
  <2>1. /\ "product" \in Stages
        /\ NoPrefix \in Prefixes \cup {NoPrefix, <<Forged>>}
        /\ NoTenant \in Tenants \cup {NoTenant, Forged}
    BY GoodNow, HostAssumption, Rewritable DEF StripSpoofedHeaders, Good, Contexts, Located, Stages
  <2>2. req[r] \in Contexts
    BY GoodNow DEF Good
  <2> QED BY <2>1, <2>2 DEF Contexts
<1> HIDE DEF q
<1>4. Located(q)
  BY <1>2, GoodNow, HostAssumption, Rewritable DEF StripSpoofedHeaders, Good, Located, PrefixTold,
      Rewriting
<1>5. PrefixTold(q)
  BY <1>2, GoodNow, HostAssumption, Rewritable
  DEF StripSpoofedHeaders, Good, Located, PrefixTold, Rewriting, Rewritten
<1>6. TenantTold(q)
  BY <1>2, GoodNow, HostAssumption, NilKnown DEF StripSpoofedHeaders, Good, TenantTold, Rewriting,
      Rewritten
<1>7. Classified(q)
  BY <1>2, GoodNow, NilKnown DEF StripSpoofedHeaders, Good, Classified
<1> QED BY <1>1, <1>3, <1>4, <1>5, <1>6, <1>7, StepOf DEF Good

\* Whatever a client sends, the request begins in a good context.
LEMMA ArriveStep ==
  ASSUME IndInv, NEW r \in Requests, NEW h \in Hosts, NEW p \in Paths,
         NEW c \in Credentials, NEW a \in BOOLEAN, NEW f \in BOOLEAN, Arrive(r, h, p, c, a, f)
  PROVE  IndInv'
<1> DEFINE q == [at |-> "strip", host |-> h, orig |-> p, path |-> p, cred |-> c, acting |-> a,
        hostPrefix |-> IF f THEN <<Forged>> ELSE NoPrefix,
        tenantHeader |-> IF f THEN Forged ELSE NoTenant,
        hostTenant |-> NoTenant, id |-> Nil, split |-> "none", entry |-> {}, torn |-> FALSE,
        kind |-> "none"]
<1>1. req' = [req EXCEPT ![r] = q] /\ UNCHANGED <<routes, declared>>
  BY DEF Arrive
<1>2. /\ q.at = "strip" /\ q.host = h /\ q.orig = p /\ q.path = p /\ q.cred = c
      /\ q.acting = a /\ q.hostPrefix = IF f THEN <<Forged>> ELSE NoPrefix
      /\ q.tenantHeader = IF f THEN Forged ELSE NoTenant
      /\ q.hostTenant = NoTenant /\ q.id = Nil /\ q.kind = "none"
      /\ q.split = "none" /\ q.entry = {} /\ q.torn = FALSE
  BY GoodNow DEF Good, Contexts
<1>3. q \in Contexts
  BY GoodNow, HostAssumption, Rewritable DEF Arrive, Good, Contexts, Located, Stages,
       RouteKinds
<1> HIDE DEF q
<1>4. Located(q)
  BY <1>2, GoodNow, HostAssumption, Rewritable DEF Arrive, Good, Located, PrefixTold, Rewriting
<1>5. PrefixTold(q)
  BY <1>2, GoodNow, HostAssumption, Rewritable
  DEF Arrive, Good, Located, PrefixTold, Rewriting, Rewritten
<1>6. TenantTold(q)
  BY <1>2, GoodNow, HostAssumption, NilKnown DEF Arrive, Good, TenantTold, Rewriting, Rewritten
<1>7. Classified(q)
  BY <1>2, GoodNow, NilKnown DEF Arrive, Good, Classified
<1> QED BY <1>1, <1>3, <1>4, <1>5, <1>6, <1>7, StepOf DEF Good

\* The product-host rewrite announces the prefix it puts in front, and leaves
\* custom domains alone: a host is not both.
LEMMA ProductHostRewriteStep ==
  ASSUME IndInv, NEW r \in Requests, ProductHostRewrite(r)
  PROVE  IndInv'
<1> DEFINE Prefixed == /\ ~Routable(req[r].path)
                       /\ req[r].path \notin Blocked
                       /\ req[r].host \in DOMAIN ProductHosts
<1>1. CASE Prefixed
  <2> DEFINE q == [req[r] EXCEPT !.at = "domain", !.path = Under(ProductHosts[req[r].host],
      req[r].path), !.hostPrefix = ProductHosts[req[r].host]]
  <2>1. req' = [req EXCEPT ![r] = q] /\ UNCHANGED <<routes, declared>>
    BY <1>1 DEF ProductHostRewrite
  <2>2. /\ q.at = "domain"
        /\ q.path = Under(ProductHosts[req[r].host], req[r].path)
        /\ q.hostPrefix = ProductHosts[req[r].host] /\ q.host = req[r].host
        /\ q.orig = req[r].orig /\ q.cred = req[r].cred
        /\ q.acting = req[r].acting /\ q.tenantHeader = req[r].tenantHeader
        /\ q.hostTenant = req[r].hostTenant /\ q.id = req[r].id
        /\ q.kind = req[r].kind /\ q.split = req[r].split
        /\ q.entry = req[r].entry /\ q.torn = req[r].torn
    BY GoodNow DEF Good, Contexts
  <2>3. q \in Contexts
    <3>1. /\ "domain" \in Stages
          /\ Under(ProductHosts[req[r].host], req[r].path) \in AllPaths
          /\ ProductHosts[req[r].host] \in Prefixes \cup {NoPrefix, <<Forged>>}
      BY <1>1, GoodNow, HostAssumption, Rewritable DEF ProductHostRewrite, Good, Contexts, Located,
          Stages
    <3>2. req[r] \in Contexts
      BY GoodNow DEF Good
    <3> QED BY <3>1, <3>2 DEF Contexts
  <2> HIDE DEF q
  <2>4. Located(q)
    BY <1>1, <2>2, GoodNow, HostAssumption, Rewritable DEF ProductHostRewrite, Good, Located,
        PrefixTold, Rewriting
  <2>5. PrefixTold(q)
    BY <1>1, <2>2, GoodNow, HostAssumption, Rewritable
    DEF ProductHostRewrite, Good, Located, PrefixTold, Rewriting, Rewritten
  <2>6. TenantTold(q)
    BY <1>1, <2>2, GoodNow, HostAssumption, NilKnown DEF ProductHostRewrite, Good, TenantTold,
        Rewriting, Rewritten
  <2>7. Classified(q)
    BY <1>1, <2>2, GoodNow, NilKnown DEF ProductHostRewrite, Good, Classified
  <2> QED BY <2>1, <2>3, <2>4, <2>5, <2>6, <2>7, StepOf DEF Good
<1>2. CASE ~Prefixed
  <2> DEFINE q == [req[r] EXCEPT !.at = "domain"]
  <2>1. req' = [req EXCEPT ![r] = q] /\ UNCHANGED <<routes, declared>>
    BY <1>2 DEF ProductHostRewrite
  <2>2. /\ q.at = "domain" /\ q.host = req[r].host /\ q.orig = req[r].orig
        /\ q.path = req[r].path /\ q.cred = req[r].cred
        /\ q.acting = req[r].acting /\ q.hostPrefix = req[r].hostPrefix
        /\ q.tenantHeader = req[r].tenantHeader
        /\ q.hostTenant = req[r].hostTenant /\ q.id = req[r].id
        /\ q.kind = req[r].kind /\ q.split = req[r].split
        /\ q.entry = req[r].entry /\ q.torn = req[r].torn
    BY GoodNow DEF Good, Contexts
  <2>3. q \in Contexts
    <3>1. /\ "domain" \in Stages
      BY <1>2, GoodNow, HostAssumption, Rewritable DEF ProductHostRewrite, Good, Contexts, Located,
          Stages
    <3>2. req[r] \in Contexts
      BY GoodNow DEF Good
    <3> QED BY <3>1, <3>2 DEF Contexts
  <2> HIDE DEF q
  <2>4. Located(q)
    BY <1>2, <2>2, GoodNow, HostAssumption, Rewritable DEF ProductHostRewrite, Good, Located,
        PrefixTold, Rewriting
  <2>5. PrefixTold(q)
    BY <1>2, <2>2, GoodNow, HostAssumption, Rewritable
    DEF ProductHostRewrite, Good, Located, PrefixTold, Rewriting, Rewritten
  <2>6. TenantTold(q)
    BY <1>2, <2>2, GoodNow, HostAssumption, NilKnown DEF ProductHostRewrite, Good, TenantTold,
        Rewriting, Rewritten
  <2>7. Classified(q)
    BY <1>2, <2>2, GoodNow, NilKnown DEF ProductHostRewrite, Good, Classified
  <2> QED BY <2>1, <2>3, <2>4, <2>5, <2>6, <2>7, StepOf DEF Good
<1> QED BY <1>1, <1>2

\* Deciding whether to resolve the domain changes the stage only.
LEMMA ResolveCustomDomainStep ==
  ASSUME IndInv, NEW r \in Requests, ResolveCustomDomain(r)
  PROVE  IndInv'
<1> DEFINE q == [req[r] EXCEPT !.at = IF ~AuthEnabled \/ Routable(req[r].path) THEN "split" ELSE "resolving"]
<1>1. req' = [req EXCEPT ![r] = q] /\ UNCHANGED <<routes, declared>>
  BY DEF ResolveCustomDomain
<1>2. /\ q.at = IF ~AuthEnabled \/ Routable(req[r].path) THEN "split" ELSE "resolving"
      /\ q.host = req[r].host /\ q.orig = req[r].orig /\ q.path = req[r].path
      /\ q.cred = req[r].cred /\ q.acting = req[r].acting
      /\ q.hostPrefix = req[r].hostPrefix
      /\ q.tenantHeader = req[r].tenantHeader
      /\ q.hostTenant = req[r].hostTenant /\ q.id = req[r].id
      /\ q.kind = req[r].kind /\ q.split = req[r].split
      /\ q.entry = req[r].entry /\ q.torn = req[r].torn
  BY GoodNow DEF Good, Contexts
<1>3. q \in Contexts
  <2>1. /\ (IF ~AuthEnabled \/ Routable(req[r].path) THEN "split" ELSE "resolving") \in Stages
    BY GoodNow, HostAssumption, Rewritable DEF ResolveCustomDomain, Good, Contexts, Located, Stages
  <2>2. req[r] \in Contexts
    BY GoodNow DEF Good
  <2> QED BY <2>1, <2>2 DEF Contexts
<1> HIDE DEF q
<1>4. Located(q)
  BY <1>2, GoodNow, HostAssumption, Rewritable DEF ResolveCustomDomain, Good, Located, PrefixTold,
      Rewriting
<1>5. PrefixTold(q)
  BY <1>2, GoodNow, HostAssumption, Rewritable
  DEF ResolveCustomDomain, Good, Located, PrefixTold, Rewriting, Rewritten
<1>6. TenantTold(q)
  BY <1>2, GoodNow, HostAssumption, NilKnown DEF ResolveCustomDomain, Good, TenantTold, Rewriting,
      Rewritten
<1>7. Classified(q)
  BY <1>2, GoodNow, NilKnown DEF ResolveCustomDomain, Good, Classified
<1> QED BY <1>1, <1>3, <1>4, <1>5, <1>6, <1>7, StepOf DEF Good

\* A host that does not resolve leaves the path as it is.
LEMMA NotResolvedStep ==
  ASSUME IndInv, NEW r \in Requests, NotResolved(r)
  PROVE  IndInv'
<1> DEFINE q == [req[r] EXCEPT !.at = "split"]
<1>1. req' = [req EXCEPT ![r] = q] /\ UNCHANGED <<routes, declared>>
  BY DEF NotResolved
<1>2. /\ q.at = "split" /\ q.host = req[r].host /\ q.orig = req[r].orig
      /\ q.path = req[r].path /\ q.cred = req[r].cred
      /\ q.acting = req[r].acting /\ q.hostPrefix = req[r].hostPrefix
      /\ q.tenantHeader = req[r].tenantHeader
      /\ q.hostTenant = req[r].hostTenant /\ q.id = req[r].id
      /\ q.kind = req[r].kind /\ q.split = req[r].split
      /\ q.entry = req[r].entry /\ q.torn = req[r].torn
  BY GoodNow DEF Good, Contexts
<1>3. q \in Contexts
  <2>1. /\ "split" \in Stages
    BY GoodNow, HostAssumption, Rewritable DEF NotResolved, Good, Contexts, Located, Stages
  <2>2. req[r] \in Contexts
    BY GoodNow DEF Good
  <2> QED BY <2>1, <2>2 DEF Contexts
<1> HIDE DEF q
<1>4. Located(q)
  BY <1>2, GoodNow, HostAssumption, Rewritable DEF NotResolved, Good, Located, PrefixTold, Rewriting
<1>5. PrefixTold(q)
  BY <1>2, GoodNow, HostAssumption, Rewritable
  DEF NotResolved, Good, Located, PrefixTold, Rewriting, Rewritten
<1>6. TenantTold(q)
  BY <1>2, GoodNow, HostAssumption, NilKnown DEF NotResolved, Good, TenantTold, Rewriting, Rewritten
<1>7. Classified(q)
  BY <1>2, GoodNow, NilKnown DEF NotResolved, Good, Classified
<1> QED BY <1>1, <1>3, <1>4, <1>5, <1>6, <1>7, StepOf DEF Good

\* The rewrite to a surface announces a prefix only together with the tenant
\* of the domain.
LEMMA RewriteToSurfaceStep ==
  ASSUME IndInv, NEW r \in Requests, RewriteToSurface(r)
  PROVE  IndInv'
<1> DEFINE claim == Claims[req[r].host]
           s == Surfaces[claim.surface]
<1>0. /\ req[r].at = "resolving" /\ req[r].host \in DOMAIN Claims
      /\ claim.tenant \in Tenants /\ claim.surface \in DOMAIN Surfaces
      /\ s.prefix \in Prefixes /\ s.prefix # NoPrefix
  BY HostAssumption, Rewritable DEF RewriteToSurface
<1>1. CASE s.scoped
  <2> DEFINE q == [req[r] EXCEPT !.at = "split", !.path = Under(s.prefix, req[r].path),
      !.hostPrefix = s.prefix, !.hostTenant = claim.tenant]
  <2>1. req' = [req EXCEPT ![r] = q] /\ UNCHANGED <<routes, declared>>
    BY <1>0, <1>1 DEF RewriteToSurface
  <2>2. /\ q.at = "split" /\ q.path = Under(s.prefix, req[r].path)
        /\ q.hostPrefix = s.prefix /\ q.hostTenant = claim.tenant
        /\ q.host = req[r].host /\ q.orig = req[r].orig /\ q.cred = req[r].cred
        /\ q.acting = req[r].acting /\ q.tenantHeader = req[r].tenantHeader
        /\ q.id = req[r].id /\ q.kind = req[r].kind /\ q.split = req[r].split
        /\ q.entry = req[r].entry /\ q.torn = req[r].torn
    BY GoodNow DEF Good, Contexts
  <2>3. q \in Contexts
    <3>1. /\ "split" \in Stages
          /\ Under(s.prefix, req[r].path) \in AllPaths
          /\ s.prefix \in Prefixes \cup {NoPrefix, <<Forged>>}
          /\ claim.tenant \in Tenants \cup {NoTenant}
      BY <1>0, <1>1, GoodNow, HostAssumption, Rewritable DEF RewriteToSurface, Good, Contexts,
          Located, Stages
    <3>2. req[r] \in Contexts
      BY GoodNow DEF Good
    <3> QED BY <3>1, <3>2 DEF Contexts
  <2> HIDE DEF q
  <2>4. Located(q)
    BY <1>0, <1>1, <2>2, GoodNow, HostAssumption, Rewritable DEF RewriteToSurface, Good, Located,
        PrefixTold, Rewriting
  <2>5. PrefixTold(q)
    BY <1>0, <1>1, <2>2, GoodNow, HostAssumption, Rewritable
    DEF RewriteToSurface, Good, Located, PrefixTold, Rewriting, Rewritten
  <2>6. TenantTold(q)
    BY <1>0, <1>1, <2>2, GoodNow, HostAssumption, NilKnown DEF RewriteToSurface, Good, TenantTold,
        Rewriting, Rewritten
  <2>7. Classified(q)
    BY <1>0, <1>1, <2>2, GoodNow, NilKnown DEF RewriteToSurface, Good, Classified
  <2> QED BY <2>1, <2>3, <2>4, <2>5, <2>6, <2>7, StepOf DEF Good
<1>2. CASE ~s.scoped
  <2> DEFINE q == [req[r] EXCEPT !.at = "split", !.path = Under(s.prefix, UnderSlug(claim.tenant,
      req[r].path))]
  <2>1. req' = [req EXCEPT ![r] = q] /\ UNCHANGED <<routes, declared>>
    BY <1>0, <1>2 DEF RewriteToSurface
  <2>2. /\ q.at = "split"
        /\ q.path = Under(s.prefix, UnderSlug(claim.tenant, req[r].path))
        /\ q.host = req[r].host /\ q.orig = req[r].orig /\ q.cred = req[r].cred
        /\ q.acting = req[r].acting /\ q.hostPrefix = req[r].hostPrefix
        /\ q.tenantHeader = req[r].tenantHeader
        /\ q.hostTenant = req[r].hostTenant /\ q.id = req[r].id
        /\ q.kind = req[r].kind /\ q.split = req[r].split
        /\ q.entry = req[r].entry /\ q.torn = req[r].torn
    BY GoodNow DEF Good, Contexts
  <2>3. q \in Contexts
    <3>1. /\ "split" \in Stages
          /\ Under(s.prefix, UnderSlug(claim.tenant, req[r].path)) \in AllPaths
      BY <1>0, <1>2, GoodNow, HostAssumption, Rewritable DEF RewriteToSurface, Good, Contexts,
          Located, Stages
    <3>2. req[r] \in Contexts
      BY GoodNow DEF Good
    <3> QED BY <3>1, <3>2 DEF Contexts
  <2> HIDE DEF q
  <2>4. Located(q)
    BY <1>0, <1>2, <2>2, GoodNow, HostAssumption, Rewritable DEF RewriteToSurface, Good, Located,
        PrefixTold, Rewriting
  <2>5. PrefixTold(q)
    BY <1>0, <1>2, <2>2, GoodNow, HostAssumption, Rewritable
    DEF RewriteToSurface, Good, Located, PrefixTold, Rewriting, Rewritten
  <2>6. TenantTold(q)
    BY <1>0, <1>2, <2>2, GoodNow, HostAssumption, NilKnown DEF RewriteToSurface, Good, TenantTold,
        Rewriting, Rewritten
  <2>7. Classified(q)
    BY <1>0, <1>2, <2>2, GoodNow, NilKnown DEF RewriteToSurface, Good, Classified
  <2> QED BY <2>1, <2>3, <2>4, <2>5, <2>6, <2>7, StepOf DEF Good
<1> QED BY <1>1, <1>2

\* The split leaves the paths Core answers itself alone; the others are matched
\* or, without a route, must authenticate.
LEMMA SplitStep ==
  ASSUME IndInv, NEW r \in Requests, Split(r)
  PROVE  IndInv'
<1> DEFINE p == req[r].path
<1>1. CASE p \in CorePaths
  <2> DEFINE q == [req[r] EXCEPT !.at = "tenant"]
  <2>1. req' = [req EXCEPT ![r] = q] /\ UNCHANGED <<routes, declared>>
    BY <1>1 DEF Split, Matched, Refused, InjectTenantHeaders
  <2>2. /\ q.at = "tenant" /\ q.host = req[r].host /\ q.orig = req[r].orig
        /\ q.path = req[r].path /\ q.cred = req[r].cred /\ q.acting = req[r].acting
        /\ q.hostPrefix = req[r].hostPrefix /\ q.tenantHeader = req[r].tenantHeader
        /\ q.hostTenant = req[r].hostTenant /\ q.id = req[r].id
        /\ q.split = req[r].split /\ q.entry = req[r].entry /\ q.torn = req[r].torn
        /\ q.kind = req[r].kind
    BY GoodNow DEF Good, Contexts
  <2>3. q \in Contexts
    <3>1. /\ "tenant" \in Stages
      BY <1>1, GoodNow, HostAssumption DEF Split, IndInv, TypeOK, Good, Contexts, Located,
          Routable, Stages, RouteKinds, EntryKinds, Identities
    <3>2. req[r] \in Contexts
      BY GoodNow DEF Good
    <3> QED BY <3>1, <3>2 DEF Contexts
  <2> HIDE DEF q
  <2>4. Located(q)
    BY <1>1, <2>2, GoodNow DEF Split, Good, Located
  <2>5. PrefixTold(q)
    BY <1>1, <2>2, GoodNow DEF Split, Good, PrefixTold, Rewriting, Rewritten
  <2>6. TenantTold(q)
    BY <1>1, <2>2, GoodNow, NilKnown DEF Split, Good, TenantTold, Rewriting, Rewritten
  <2>7. Classified(q)
    BY <1>1, <2>2, GoodNow, NilKnown DEF Split, Good, Classified
  <2> QED BY <2>1, <2>3, <2>4, <2>5, <2>6, <2>7, StepOf DEF Good
<1>2. CASE p \notin CorePaths /\ Routable(p)
  <2> DEFINE q == [req[r] EXCEPT !.at = "classify", !.entry = {routes[req[r].path]}, !.torn = FALSE]
  <2>1. req' = [req EXCEPT ![r] = q] /\ UNCHANGED <<routes, declared>>
    BY <1>2 DEF Split, Matched, Refused, InjectTenantHeaders
  <2>2. /\ q.at = "classify" /\ q.entry = {routes[req[r].path]} /\ q.torn = FALSE
        /\ q.host = req[r].host /\ q.orig = req[r].orig /\ q.path = req[r].path
        /\ q.cred = req[r].cred /\ q.acting = req[r].acting
        /\ q.hostPrefix = req[r].hostPrefix /\ q.tenantHeader = req[r].tenantHeader
        /\ q.hostTenant = req[r].hostTenant /\ q.id = req[r].id
        /\ q.split = req[r].split /\ q.kind = req[r].kind
    BY GoodNow DEF Good, Contexts
  <2>3. q \in Contexts
    <3>1. /\ "classify" \in Stages
          /\ {routes[req[r].path]} \in SUBSET EntryKinds
          /\ FALSE \in BOOLEAN
      BY <1>2, GoodNow, HostAssumption DEF Split, IndInv, TypeOK, Good, Contexts, Located,
          Routable, Stages, RouteKinds, EntryKinds, Identities
    <3>2. req[r] \in Contexts
      BY GoodNow DEF Good
    <3> QED BY <3>1, <3>2 DEF Contexts
  <2> HIDE DEF q
  <2>4. Located(q)
    BY <1>2, <2>2, GoodNow DEF Split, Good, Located
  <2>5. PrefixTold(q)
    BY <1>2, <2>2, GoodNow DEF Split, Good, PrefixTold, Rewriting, Rewritten
  <2>6. TenantTold(q)
    BY <1>2, <2>2, GoodNow, NilKnown DEF Split, Good, TenantTold, Rewriting, Rewritten
  <2>7. Classified(q)
    BY <1>2, <2>2, GoodNow, NilKnown DEF Split, Good, Classified
  <2> QED BY <2>1, <2>3, <2>4, <2>5, <2>6, <2>7, StepOf DEF Good
<1>3. CASE p \notin CorePaths /\ ~Routable(p)
  <2> DEFINE q == [req[r] EXCEPT !.at = "auth"]
  <2>1. req' = [req EXCEPT ![r] = q] /\ UNCHANGED <<routes, declared>>
    BY <1>3 DEF Split, Matched, Refused, InjectTenantHeaders
  <2>2. /\ q.at = "auth" /\ q.host = req[r].host /\ q.orig = req[r].orig
        /\ q.path = req[r].path /\ q.cred = req[r].cred /\ q.acting = req[r].acting
        /\ q.hostPrefix = req[r].hostPrefix /\ q.tenantHeader = req[r].tenantHeader
        /\ q.hostTenant = req[r].hostTenant /\ q.id = req[r].id
        /\ q.split = req[r].split /\ q.entry = req[r].entry /\ q.torn = req[r].torn
        /\ q.kind = req[r].kind
    BY GoodNow DEF Good, Contexts
  <2>3. q \in Contexts
    <3>1. /\ "auth" \in Stages
      BY <1>3, GoodNow, HostAssumption DEF Split, IndInv, TypeOK, Good, Contexts, Located,
          Routable, Stages, RouteKinds, EntryKinds, Identities
    <3>2. req[r] \in Contexts
      BY GoodNow DEF Good
    <3> QED BY <3>1, <3>2 DEF Contexts
  <2> HIDE DEF q
  <2>4. Located(q)
    BY <1>3, <2>2, GoodNow DEF Split, Good, Located
  <2>5. PrefixTold(q)
    BY <1>3, <2>2, GoodNow DEF Split, Good, PrefixTold, Rewriting, Rewritten
  <2>6. TenantTold(q)
    BY <1>3, <2>2, GoodNow, NilKnown DEF Split, Good, TenantTold, Rewriting, Rewritten
  <2>7. Classified(q)
    BY <1>3, <2>2, GoodNow, NilKnown DEF Split, Good, Classified
  <2> QED BY <2>1, <2>3, <2>4, <2>5, <2>6, <2>7, StepOf DEF Good
<1> QED BY <1>1, <1>2, <1>3

\* A request goes on without authentication only if the split read a public
\* entry.
LEMMA IsPublicStep ==
  ASSUME IndInv, NEW r \in Requests, IsPublic(r)
  PROVE  IndInv'
<1>1. PICK k \in req[r].entry : req' = [req EXCEPT ![r].at = IF k = "public" THEN "optional" ELSE "auth",
                                            ![r].split = k, ![r].entry = {}]
  BY DEF IsPublic
<1>2. CASE k = "public"
  <2> DEFINE q == [req[r] EXCEPT !.at = "optional", !.split = k, !.entry = {}]
  <2>1. req' = [req EXCEPT ![r] = q] /\ UNCHANGED <<routes, declared>>
    BY <1>1, <1>2 DEF IsPublic, Matched, Refused, InjectTenantHeaders
  <2>2. /\ q.at = "optional" /\ q.split = k /\ q.entry = {} /\ q.host = req[r].host
        /\ q.orig = req[r].orig /\ q.path = req[r].path /\ q.cred = req[r].cred
        /\ q.acting = req[r].acting /\ q.hostPrefix = req[r].hostPrefix
        /\ q.tenantHeader = req[r].tenantHeader /\ q.hostTenant = req[r].hostTenant
        /\ q.id = req[r].id /\ q.torn = req[r].torn /\ q.kind = req[r].kind
    BY GoodNow DEF Good, Contexts
  <2>3. q \in Contexts
    <3>1. /\ "optional" \in Stages
          /\ k \in RouteKinds
          /\ {} \in SUBSET EntryKinds
      BY <1>1, <1>2, GoodNow, HostAssumption DEF IsPublic, IndInv, TypeOK, Good, Contexts, Located,
          Routable, Stages, RouteKinds, EntryKinds, Identities
    <3>2. req[r] \in Contexts
      BY GoodNow DEF Good
    <3> QED BY <3>1, <3>2 DEF Contexts
  <2> HIDE DEF q
  <2>4. Located(q)
    BY <1>1, <1>2, <2>2, GoodNow DEF IsPublic, Good, Located
  <2>5. PrefixTold(q)
    BY <1>1, <1>2, <2>2, GoodNow DEF IsPublic, Good, PrefixTold, Rewriting, Rewritten
  <2>6. TenantTold(q)
    BY <1>1, <1>2, <2>2, GoodNow, NilKnown DEF IsPublic, Good, TenantTold, Rewriting, Rewritten
  <2>7. Classified(q)
    BY <1>1, <1>2, <2>2, GoodNow, NilKnown DEF IsPublic, Good, Classified
  <2> QED BY <2>1, <2>3, <2>4, <2>5, <2>6, <2>7, StepOf DEF Good
<1>3. CASE k # "public"
  <2> DEFINE q == [req[r] EXCEPT !.at = "auth", !.split = k, !.entry = {}]
  <2>1. req' = [req EXCEPT ![r] = q] /\ UNCHANGED <<routes, declared>>
    BY <1>1, <1>3 DEF IsPublic, Matched, Refused, InjectTenantHeaders
  <2>2. /\ q.at = "auth" /\ q.split = k /\ q.entry = {} /\ q.host = req[r].host
        /\ q.orig = req[r].orig /\ q.path = req[r].path /\ q.cred = req[r].cred
        /\ q.acting = req[r].acting /\ q.hostPrefix = req[r].hostPrefix
        /\ q.tenantHeader = req[r].tenantHeader /\ q.hostTenant = req[r].hostTenant
        /\ q.id = req[r].id /\ q.torn = req[r].torn /\ q.kind = req[r].kind
    BY GoodNow DEF Good, Contexts
  <2>3. q \in Contexts
    <3>1. /\ "auth" \in Stages
          /\ k \in RouteKinds
          /\ {} \in SUBSET EntryKinds
      BY <1>1, <1>3, GoodNow, HostAssumption DEF IsPublic, IndInv, TypeOK, Good, Contexts, Located,
          Routable, Stages, RouteKinds, EntryKinds, Identities
    <3>2. req[r] \in Contexts
      BY GoodNow DEF Good
    <3> QED BY <3>1, <3>2 DEF Contexts
  <2> HIDE DEF q
  <2>4. Located(q)
    BY <1>1, <1>3, <2>2, GoodNow DEF IsPublic, Good, Located
  <2>5. PrefixTold(q)
    BY <1>1, <1>3, <2>2, GoodNow DEF IsPublic, Good, PrefixTold, Rewriting, Rewritten
  <2>6. TenantTold(q)
    BY <1>1, <1>3, <2>2, GoodNow, NilKnown DEF IsPublic, Good, TenantTold, Rewriting, Rewritten
  <2>7. Classified(q)
    BY <1>1, <1>3, <2>2, GoodNow, NilKnown DEF IsPublic, Good, Classified
  <2> QED BY <2>1, <2>3, <2>4, <2>5, <2>6, <2>7, StepOf DEF Good
<1> QED BY <1>2, <1>3

\* An authenticated request has an identity.
LEMMA AuthenticateStep ==
  ASSUME IndInv, NEW r \in Requests, NEW id \in Identities, Authenticate(r, id)
  PROVE  IndInv'
<1> DEFINE q == [req[r] EXCEPT !.at = "tenant", !.id = id]
<1>1. req' = [req EXCEPT ![r] = q] /\ UNCHANGED <<routes, declared>>
  BY DEF Authenticate
<1>2. /\ q.at = "tenant" /\ q.id = id /\ q.host = req[r].host
      /\ q.orig = req[r].orig /\ q.path = req[r].path /\ q.cred = req[r].cred
      /\ q.acting = req[r].acting /\ q.hostPrefix = req[r].hostPrefix
      /\ q.tenantHeader = req[r].tenantHeader
      /\ q.hostTenant = req[r].hostTenant /\ q.kind = req[r].kind
      /\ q.split = req[r].split
      /\ q.entry = req[r].entry /\ q.torn = req[r].torn
  BY GoodNow DEF Good, Contexts
<1>3. q \in Contexts
  <2>1. /\ "tenant" \in Stages
        /\ id \in Identities \cup {Nil}
    BY GoodNow, HostAssumption, Rewritable DEF Authenticate, Good, Contexts, Located, Stages
  <2>2. req[r] \in Contexts
    BY GoodNow DEF Good
  <2> QED BY <2>1, <2>2 DEF Contexts
<1> HIDE DEF q
<1>4. Located(q)
  BY <1>2, GoodNow, HostAssumption, Rewritable DEF Authenticate, Good, Located, PrefixTold, Rewriting
<1>5. PrefixTold(q)
  BY <1>2, GoodNow, HostAssumption, Rewritable
  DEF Authenticate, Good, Located, PrefixTold, Rewriting, Rewritten
<1>6. TenantTold(q)
  BY <1>2, GoodNow, HostAssumption, NilKnown DEF Authenticate, Good, TenantTold, Rewriting, Rewritten
<1>7. Classified(q)
  BY <1>2, GoodNow, NilKnown DEF Authenticate, Good, Classified
<1> QED BY <1>1, <1>3, <1>4, <1>5, <1>6, <1>7, StepOf DEF Good

\* A request that must authenticate does not go on without an identity.
LEMMA AuthWithLoginStep ==
  ASSUME IndInv, NEW r \in Requests, AuthWithLogin(r)
  PROVE  IndInv'
<1> DEFINE q == [req[r] EXCEPT !.at = IF AuthEnabled THEN "refused" ELSE "tenant"]
<1>1. req' = [req EXCEPT ![r] = q] /\ UNCHANGED <<routes, declared>>
  BY DEF AuthWithLogin, RejectUnauthenticated
<1>2. /\ q.at = IF AuthEnabled THEN "refused" ELSE "tenant"
      /\ q.host = req[r].host /\ q.orig = req[r].orig /\ q.path = req[r].path
      /\ q.cred = req[r].cred /\ q.acting = req[r].acting
      /\ q.hostPrefix = req[r].hostPrefix
      /\ q.tenantHeader = req[r].tenantHeader
      /\ q.hostTenant = req[r].hostTenant /\ q.id = req[r].id
      /\ q.kind = req[r].kind /\ q.split = req[r].split
      /\ q.entry = req[r].entry /\ q.torn = req[r].torn
  BY GoodNow DEF Good, Contexts
<1>3. q \in Contexts
  <2>1. /\ (IF AuthEnabled THEN "refused" ELSE "tenant") \in Stages
    BY GoodNow, HostAssumption, Rewritable DEF AuthWithLogin, Good, Contexts, Located, Stages
  <2>2. req[r] \in Contexts
    BY GoodNow DEF Good
  <2> QED BY <2>1, <2>2 DEF Contexts
<1> HIDE DEF q
<1>4. Located(q)
  BY <1>2, GoodNow, HostAssumption, Rewritable DEF AuthWithLogin, Good, Located, PrefixTold, Rewriting
<1>5. PrefixTold(q)
  BY <1>2, GoodNow, HostAssumption, Rewritable
  DEF AuthWithLogin, Good, Located, PrefixTold, Rewriting, Rewritten
<1>6. TenantTold(q)
  BY <1>2, GoodNow, HostAssumption, NilKnown DEF AuthWithLogin, Good, TenantTold, Rewriting, Rewritten
<1>7. Classified(q)
  BY <1>2, GoodNow, NilKnown DEF AuthWithLogin, Good, Classified
<1> QED BY <1>1, <1>3, <1>4, <1>5, <1>6, <1>7, StepOf DEF Good

\* A request goes on without an identity only from a route that was public.
LEMMA OptionalAuthStep ==
  ASSUME IndInv, NEW r \in Requests, OptionalAuth(r)
  PROVE  IndInv'
<1> DEFINE q == [req[r] EXCEPT !.at = "tenant"]
<1>1. req' = [req EXCEPT ![r] = q] /\ UNCHANGED <<routes, declared>>
  BY DEF OptionalAuth
<1>2. /\ q.at = "tenant" /\ q.host = req[r].host /\ q.orig = req[r].orig
      /\ q.path = req[r].path /\ q.cred = req[r].cred
      /\ q.acting = req[r].acting /\ q.hostPrefix = req[r].hostPrefix
      /\ q.tenantHeader = req[r].tenantHeader
      /\ q.hostTenant = req[r].hostTenant /\ q.id = req[r].id
      /\ q.kind = req[r].kind /\ q.split = req[r].split
      /\ q.entry = req[r].entry /\ q.torn = req[r].torn
  BY GoodNow DEF Good, Contexts
<1>3. q \in Contexts
  <2>1. /\ "tenant" \in Stages
    BY GoodNow, HostAssumption, Rewritable DEF OptionalAuth, Good, Contexts, Located, Stages
  <2>2. req[r] \in Contexts
    BY GoodNow DEF Good
  <2> QED BY <2>1, <2>2 DEF Contexts
<1> HIDE DEF q
<1>4. Located(q)
  BY <1>2, GoodNow, HostAssumption, Rewritable DEF OptionalAuth, Good, Located, PrefixTold, Rewriting
<1>5. PrefixTold(q)
  BY <1>2, GoodNow, HostAssumption, Rewritable
  DEF OptionalAuth, Good, Located, PrefixTold, Rewriting, Rewritten
<1>6. TenantTold(q)
  BY <1>2, GoodNow, HostAssumption, NilKnown DEF OptionalAuth, Good, TenantTold, Rewriting, Rewritten
<1>7. Classified(q)
  BY <1>2, GoodNow, NilKnown DEF OptionalAuth, Good, Classified
<1> QED BY <1>1, <1>3, <1>4, <1>5, <1>6, <1>7, StepOf DEF Good

\* Past this step an identity belongs to the tenant of the host.
LEMMA RequireHostTenantStep ==
  ASSUME IndInv, NEW r \in Requests, RequireHostTenant(r)
  PROVE  IndInv'
<1> DEFINE q == [req[r] EXCEPT !.at = IF /\ req[r].hostTenant # NoTenant
             /\ req[r].id # Nil
             /\ req[r].id.tenant # req[r].hostTenant
          THEN "refused" ELSE "dispatch"]
<1>1. req' = [req EXCEPT ![r] = q] /\ UNCHANGED <<routes, declared>>
  BY DEF RequireHostTenant
<1>2. /\ q.at = IF /\ req[r].hostTenant # NoTenant
             /\ req[r].id # Nil
             /\ req[r].id.tenant # req[r].hostTenant
          THEN "refused" ELSE "dispatch"
      /\ q.host = req[r].host /\ q.orig = req[r].orig /\ q.path = req[r].path
      /\ q.cred = req[r].cred /\ q.acting = req[r].acting
      /\ q.hostPrefix = req[r].hostPrefix
      /\ q.tenantHeader = req[r].tenantHeader
      /\ q.hostTenant = req[r].hostTenant /\ q.id = req[r].id
      /\ q.kind = req[r].kind /\ q.split = req[r].split
      /\ q.entry = req[r].entry /\ q.torn = req[r].torn
  BY GoodNow DEF Good, Contexts
<1>3. q \in Contexts
  <2>1. /\ (IF /\ req[r].hostTenant # NoTenant
             /\ req[r].id # Nil
             /\ req[r].id.tenant # req[r].hostTenant
          THEN "refused" ELSE "dispatch") \in Stages
    BY GoodNow, HostAssumption, Rewritable DEF RequireHostTenant, Good, Contexts, Located, Stages
  <2>2. req[r] \in Contexts
    BY GoodNow DEF Good
  <2> QED BY <2>1, <2>2 DEF Contexts
<1> HIDE DEF q
<1>4. Located(q)
  BY <1>2, GoodNow, HostAssumption, Rewritable DEF RequireHostTenant, Good, Located, PrefixTold,
      Rewriting
<1>5. PrefixTold(q)
  BY <1>2, GoodNow, HostAssumption, Rewritable
  DEF RequireHostTenant, Good, Located, PrefixTold, Rewriting, Rewritten
<1>6. TenantTold(q)
  BY <1>2, GoodNow, HostAssumption, NilKnown DEF RequireHostTenant, Good, TenantTold, Rewriting,
      Rewritten
<1>7. Classified(q)
  BY <1>2, GoodNow, NilKnown DEF RequireHostTenant, Good, Classified
<1> QED BY <1>1, <1>3, <1>4, <1>5, <1>6, <1>7, StepOf DEF Good

\* The entry of a matched request is the one the match found.
LEMMA MatchStep ==
  ASSUME IndInv, NEW r \in Requests, Match(r)
  PROVE  IndInv'
<1>1. CASE req[r].path \in Blocked \/ ~Routable(req[r].path)
  <2> DEFINE q == [req[r] EXCEPT !.at = "refused"]
  <2>1. req' = [req EXCEPT ![r] = q] /\ UNCHANGED <<routes, declared>>
    BY <1>1 DEF Match, Matched, Refused, InjectTenantHeaders
  <2>2. /\ q.at = "refused" /\ q.host = req[r].host /\ q.orig = req[r].orig
        /\ q.path = req[r].path /\ q.cred = req[r].cred /\ q.acting = req[r].acting
        /\ q.hostPrefix = req[r].hostPrefix /\ q.tenantHeader = req[r].tenantHeader
        /\ q.hostTenant = req[r].hostTenant /\ q.id = req[r].id
        /\ q.split = req[r].split /\ q.entry = req[r].entry /\ q.torn = req[r].torn
        /\ q.kind = req[r].kind
    BY GoodNow DEF Good, Contexts
  <2>3. q \in Contexts
    <3>1. /\ "refused" \in Stages
      BY <1>1, GoodNow, HostAssumption DEF Match, IndInv, TypeOK, Good, Contexts, Located,
          Routable, Stages, RouteKinds, EntryKinds, Identities
    <3>2. req[r] \in Contexts
      BY GoodNow DEF Good
    <3> QED BY <3>1, <3>2 DEF Contexts
  <2> HIDE DEF q
  <2>4. Located(q)
    BY <1>1, <2>2, GoodNow DEF Match, Good, Located
  <2>5. PrefixTold(q)
    BY <1>1, <2>2, GoodNow DEF Match, Good, PrefixTold, Rewriting, Rewritten
  <2>6. TenantTold(q)
    BY <1>1, <2>2, GoodNow, NilKnown DEF Match, Good, TenantTold, Rewriting, Rewritten
  <2>7. Classified(q)
    BY <1>1, <2>2, GoodNow, NilKnown DEF Match, Good, Classified
  <2> QED BY <2>1, <2>3, <2>4, <2>5, <2>6, <2>7, StepOf DEF Good
<1>2. CASE ~(req[r].path \in Blocked \/ ~Routable(req[r].path))
  <2> DEFINE q == [req[r] EXCEPT !.at = "matched", !.entry = {routes[req[r].path]}, !.torn = FALSE]
  <2>1. req' = [req EXCEPT ![r] = q] /\ UNCHANGED <<routes, declared>>
    BY <1>2 DEF Match, Matched, Refused, InjectTenantHeaders
  <2>2. /\ q.at = "matched" /\ q.entry = {routes[req[r].path]} /\ q.torn = FALSE
        /\ q.host = req[r].host /\ q.orig = req[r].orig /\ q.path = req[r].path
        /\ q.cred = req[r].cred /\ q.acting = req[r].acting
        /\ q.hostPrefix = req[r].hostPrefix /\ q.tenantHeader = req[r].tenantHeader
        /\ q.hostTenant = req[r].hostTenant /\ q.id = req[r].id
        /\ q.split = req[r].split /\ q.kind = req[r].kind
    BY GoodNow DEF Good, Contexts
  <2>3. q \in Contexts
    <3>1. /\ "matched" \in Stages
          /\ {routes[req[r].path]} \in SUBSET EntryKinds
          /\ FALSE \in BOOLEAN
      BY <1>2, GoodNow, HostAssumption DEF Match, IndInv, TypeOK, Good, Contexts, Located,
          Routable, Stages, RouteKinds, EntryKinds, Identities
    <3>2. req[r] \in Contexts
      BY GoodNow DEF Good
    <3> QED BY <3>1, <3>2 DEF Contexts
  <2> HIDE DEF q
  <2>4. Located(q)
    BY <1>2, <2>2, GoodNow DEF Match, Good, Located
  <2>5. PrefixTold(q)
    BY <1>2, <2>2, GoodNow DEF Match, Good, PrefixTold, Rewriting, Rewritten
  <2>6. TenantTold(q)
    BY <1>2, <2>2, GoodNow, NilKnown DEF Match, Good, TenantTold, Rewriting, Rewritten
  <2>7. Classified(q)
    BY <1>2, <2>2, GoodNow, NilKnown DEF Match, Good, Classified
  <2> QED BY <2>1, <2>3, <2>4, <2>5, <2>6, <2>7, StepOf DEF Good
<1> QED BY <1>1, <1>2

\* What is let through has been authorised for the entry, as long as the cell
\* was not written.
LEMMA AuthorizeStep ==
  ASSUME IndInv, NEW r \in Requests, Authorize(r)
  PROVE  IndInv'
<1> DEFINE q == [req[r] EXCEPT !.at = "get"]
<1>1. req' = [req EXCEPT ![r] = q] /\ UNCHANGED <<routes, declared>>
  BY DEF Authorize, MayAuthorize, Matched, Refused, InjectTenantHeaders
<1>2. /\ q.at = "get" /\ q.host = req[r].host /\ q.orig = req[r].orig
      /\ q.path = req[r].path /\ q.cred = req[r].cred /\ q.acting = req[r].acting
      /\ q.hostPrefix = req[r].hostPrefix /\ q.tenantHeader = req[r].tenantHeader
      /\ q.hostTenant = req[r].hostTenant /\ q.id = req[r].id
      /\ q.split = req[r].split /\ q.entry = req[r].entry /\ q.torn = req[r].torn
      /\ q.kind = req[r].kind
  BY GoodNow DEF Good, Contexts
<1>3. q \in Contexts
  <2>1. /\ "get" \in Stages
    BY GoodNow, HostAssumption DEF Authorize, MayAuthorize, IndInv, TypeOK, Good, Contexts,
        Located, Routable, Stages, RouteKinds, EntryKinds, Identities
  <2>2. req[r] \in Contexts
    BY GoodNow DEF Good
  <2> QED BY <2>1, <2>2 DEF Contexts
<1> HIDE DEF q
<1>4. Located(q)
  BY <1>2, GoodNow DEF Authorize, Good, Located
<1>5. PrefixTold(q)
  BY <1>2, GoodNow DEF Authorize, Good, PrefixTold, Rewriting, Rewritten
<1>6. TenantTold(q)
  BY <1>2, GoodNow, NilKnown DEF Authorize, Good, TenantTold, Rewriting, Rewritten
<1>7. Classified(q)
  BY <1>2, GoodNow, NilKnown DEF Authorize, MayAuthorize, Good, Classified
<1> QED BY <1>1, <1>3, <1>4, <1>5, <1>6, <1>7, StepOf DEF Good

\* A refused request is done.
LEMMA ForbidStep ==
  ASSUME IndInv, NEW r \in Requests, Forbid(r)
  PROVE  IndInv'
<1> DEFINE q == [req[r] EXCEPT !.at = "refused", !.entry = {}, !.torn = FALSE]
<1>1. req' = [req EXCEPT ![r] = q] /\ UNCHANGED <<routes, declared>>
  BY DEF Forbid, Matched, Refused, InjectTenantHeaders
<1>2. /\ q.at = "refused" /\ q.entry = {} /\ q.torn = FALSE /\ q.host = req[r].host
      /\ q.orig = req[r].orig /\ q.path = req[r].path /\ q.cred = req[r].cred
      /\ q.acting = req[r].acting /\ q.hostPrefix = req[r].hostPrefix
      /\ q.tenantHeader = req[r].tenantHeader /\ q.hostTenant = req[r].hostTenant
      /\ q.id = req[r].id /\ q.split = req[r].split /\ q.kind = req[r].kind
  BY GoodNow DEF Good, Contexts
<1>3. q \in Contexts
  <2>1. /\ "refused" \in Stages
        /\ {} \in SUBSET EntryKinds
        /\ FALSE \in BOOLEAN
    BY GoodNow, HostAssumption DEF Forbid, IndInv, TypeOK, Good, Contexts, Located, Routable,
        Stages, RouteKinds, EntryKinds, Identities
  <2>2. req[r] \in Contexts
    BY GoodNow DEF Good
  <2> QED BY <2>1, <2>2 DEF Contexts
<1> HIDE DEF q
<1>4. Located(q)
  BY <1>2, GoodNow DEF Forbid, Good, Located
<1>5. PrefixTold(q)
  BY <1>2, GoodNow DEF Forbid, Good, PrefixTold, Rewriting, Rewritten
<1>6. TenantTold(q)
  BY <1>2, GoodNow, NilKnown DEF Forbid, Good, TenantTold, Rewriting, Rewritten
<1>7. Classified(q)
  BY <1>2, GoodNow, NilKnown DEF Forbid, Good, Classified
<1> QED BY <1>1, <1>3, <1>4, <1>5, <1>6, <1>7, StepOf DEF Good

\* What is forwarded was authorised for the entry that names its plugin, or
\* the cell was written.
LEMMA ForwardStep ==
  ASSUME IndInv, NEW r \in Requests, Forward(r)
  PROVE  IndInv'
<1>0. PICK k \in req[r].entry :
        req' = [req EXCEPT ![r].at = "forwarded", ![r].kind = k, ![r].entry = {},
                  ![r].tenantHeader = IF req[r].id # Nil THEN req[r].id.tenant ELSE req[r].tenantHeader,
                  ![r].acting = IF req[r].id # Nil THEN FALSE ELSE req[r].acting]
  BY DEF Forward, InjectTenantHeaders
<1> DEFINE q == [req[r] EXCEPT !.at = "forwarded", !.kind = k, !.entry = {},
    !.tenantHeader = IF req[r].id # Nil THEN req[r].id.tenant ELSE req[r].tenantHeader,
    !.acting = IF req[r].id # Nil THEN FALSE ELSE req[r].acting]
<1>1. req' = [req EXCEPT ![r] = q] /\ UNCHANGED <<routes, declared>>
  BY <1>0 DEF Forward, Matched, Refused, InjectTenantHeaders
<1>2. /\ q.at = "forwarded" /\ q.kind = k /\ q.entry = {}
      /\ q.tenantHeader = (IF req[r].id # Nil THEN req[r].id.tenant ELSE req[r].tenantHeader)
      /\ q.acting = (IF req[r].id # Nil THEN FALSE ELSE req[r].acting)
      /\ q.host = req[r].host /\ q.orig = req[r].orig /\ q.path = req[r].path
      /\ q.cred = req[r].cred /\ q.hostPrefix = req[r].hostPrefix
      /\ q.hostTenant = req[r].hostTenant /\ q.id = req[r].id
      /\ q.split = req[r].split /\ q.torn = req[r].torn
  BY GoodNow DEF Good, Contexts
<1>3. q \in Contexts
  <2>1. /\ "forwarded" \in Stages
        /\ k \in RouteKinds
        /\ {} \in SUBSET EntryKinds
        /\ (IF req[r].id # Nil THEN req[r].id.tenant ELSE req[r].tenantHeader) \in Tenants \cup {NoTenant, Forged}
        /\ (IF req[r].id # Nil THEN FALSE ELSE req[r].acting) \in BOOLEAN
    BY <1>0, GoodNow, HostAssumption DEF Forward, IndInv, TypeOK, Good, Contexts, Located,
        Routable, Stages, RouteKinds, EntryKinds, Identities
  <2>2. req[r] \in Contexts
    BY GoodNow DEF Good
  <2> QED BY <2>1, <2>2 DEF Contexts
<1> HIDE DEF q
<1>4. Located(q)
  BY <1>0, <1>2, GoodNow DEF Forward, Good, Located
<1>5. PrefixTold(q)
  BY <1>0, <1>2, GoodNow DEF Forward, Good, PrefixTold, Rewriting, Rewritten
<1>6. TenantTold(q)
  BY <1>0, <1>2, GoodNow, NilKnown DEF Forward, Good, TenantTold, Rewriting, Rewritten
<1>7. Classified(q)
  BY <1>0, <1>2, GoodNow, NilKnown DEF Forward, Good, Classified
<1> QED BY <1>1, <1>3, <1>4, <1>5, <1>6, <1>7, StepOf DEF Good

\* So is one that is turned away.
LEMMA TurnAwayStep ==
  ASSUME IndInv, NEW r \in Requests, TurnAway(r)
  PROVE  IndInv'
<1> DEFINE q == [req[r] EXCEPT !.at = "refused", !.entry = {}, !.torn = FALSE]
<1>1. req' = [req EXCEPT ![r] = q] /\ UNCHANGED <<routes, declared>>
  BY DEF TurnAway, Matched, Refused, InjectTenantHeaders
<1>2. /\ q.at = "refused" /\ q.entry = {} /\ q.torn = FALSE /\ q.host = req[r].host
      /\ q.orig = req[r].orig /\ q.path = req[r].path /\ q.cred = req[r].cred
      /\ q.acting = req[r].acting /\ q.hostPrefix = req[r].hostPrefix
      /\ q.tenantHeader = req[r].tenantHeader /\ q.hostTenant = req[r].hostTenant
      /\ q.id = req[r].id /\ q.split = req[r].split /\ q.kind = req[r].kind
  BY GoodNow DEF Good, Contexts
<1>3. q \in Contexts
  <2>1. /\ "refused" \in Stages
        /\ {} \in SUBSET EntryKinds
        /\ FALSE \in BOOLEAN
    BY GoodNow, HostAssumption DEF TurnAway, IndInv, TypeOK, Good, Contexts, Located, Routable,
        Stages, RouteKinds, EntryKinds, Identities
  <2>2. req[r] \in Contexts
    BY GoodNow DEF Good
  <2> QED BY <2>1, <2>2 DEF Contexts
<1> HIDE DEF q
<1>4. Located(q)
  BY <1>2, GoodNow DEF TurnAway, Good, Located
<1>5. PrefixTold(q)
  BY <1>2, GoodNow DEF TurnAway, Good, PrefixTold, Rewriting, Rewritten
<1>6. TenantTold(q)
  BY <1>2, GoodNow, NilKnown DEF TurnAway, Good, TenantTold, Rewriting, Rewritten
<1>7. Classified(q)
  BY <1>2, GoodNow, NilKnown DEF TurnAway, Good, Classified
<1> QED BY <1>1, <1>3, <1>4, <1>5, <1>6, <1>7, StepOf DEF Good

----------------------------------------------------------------------------
\* A write of the cell is remembered.
LEMMA CellWrittenStep ==
  ASSUME IndInv, NEW r \in Requests, NEW k \in EntryKinds, CellWritten(r, k)
  PROVE  IndInv'
<1> DEFINE q == [req[r] EXCEPT !.entry = req[r].entry \cup {k}, !.torn = TRUE]
<1>1. req' = [req EXCEPT ![r] = q] /\ UNCHANGED <<routes, declared>>
  BY DEF CellWritten, Matched, Refused, InjectTenantHeaders
<1>2. /\ q.entry = req[r].entry \cup {k} /\ q.torn = TRUE /\ q.at = req[r].at
      /\ q.host = req[r].host /\ q.orig = req[r].orig /\ q.path = req[r].path
      /\ q.cred = req[r].cred /\ q.acting = req[r].acting
      /\ q.hostPrefix = req[r].hostPrefix /\ q.tenantHeader = req[r].tenantHeader
      /\ q.hostTenant = req[r].hostTenant /\ q.id = req[r].id
      /\ q.split = req[r].split /\ q.kind = req[r].kind
  BY GoodNow DEF Good, Contexts
<1>3. q \in Contexts
  <2>1. /\ (req[r].entry \cup {k}) \in SUBSET EntryKinds
        /\ TRUE \in BOOLEAN
    BY GoodNow, HostAssumption DEF CellWritten, IndInv, TypeOK, Good, Contexts, Located, Routable,
        Stages, RouteKinds, EntryKinds, Identities
  <2>2. req[r] \in Contexts
    BY GoodNow DEF Good
  <2> QED BY <2>1, <2>2 DEF Contexts
<1> HIDE DEF q
<1>4. Located(q)
  BY <1>2, GoodNow DEF CellWritten, Good, Located
<1>5. PrefixTold(q)
  BY <1>2, GoodNow DEF CellWritten, Good, PrefixTold, Rewriting, Rewritten
<1>6. TenantTold(q)
  BY <1>2, GoodNow, NilKnown DEF CellWritten, Good, TenantTold, Rewriting, Rewritten
<1>7. Classified(q)
  BY <1>2, GoodNow, NilKnown DEF CellWritten, Good, Classified
<1> QED BY <1>1, <1>3, <1>4, <1>5, <1>6, <1>7, StepOf DEF Good

\* What a path matches is read by the steps of a request only.
LEMMA RouteChangesStep ==
  ASSUME IndInv, NEW p \in DOMAIN PluginRoutes, NEW k \in PluginRoutes[p] \cup {"none"},
         RouteChanges(p, k)
  PROVE  IndInv'
<1>1. p \in AllPaths /\ k \in RouteKinds
  BY HostAssumption DEF RouteKinds
<1>2. TypeOK'
  BY <1>1 DEF RouteChanges, IndInv, TypeOK
<1> QED BY <1>2 DEF RouteChanges, IndInv, Located, PrefixTold, TenantTold, Classified

\* Every step of the chain and of the plugins keeps the invariant.
LEMMA IndStep == IndInv /\ [Next]_vars => IndInv'
<1> SUFFICES ASSUME IndInv, [Next]_vars PROVE IndInv'
  OBVIOUS
<1>1. ASSUME NEW r \in Requests, NEW h \in Hosts, NEW p \in Paths, NEW c \in Credentials,
             NEW a \in BOOLEAN, NEW f \in BOOLEAN, Arrive(r, h, p, c, a, f)
      PROVE  IndInv'
  BY <1>1, ArriveStep
<1>2. ASSUME NEW r \in Requests, Step(r) PROVE IndInv'
  BY <1>2, StripSpoofedHeadersStep, ProductHostRewriteStep, ResolveCustomDomainStep,
     NotResolvedStep, RewriteToSurfaceStep, SplitStep, AuthenticateStep, AuthWithLoginStep,
     OptionalAuthStep, RequireHostTenantStep, IsPublicStep, MatchStep, AuthorizeStep, ForbidStep,
     ForwardStep, TurnAwayStep DEF Step
<1>3. ASSUME NEW p \in DOMAIN PluginRoutes, NEW k \in PluginRoutes[p] \cup {"none"},
             RouteChanges(p, k)
      PROVE  IndInv'
  BY <1>3, RouteChangesStep
<1>7. ASSUME NEW r \in Requests, NEW k \in EntryKinds, CellWritten(r, k) PROVE IndInv'
  BY <1>7, CellWrittenStep
<1>4. ASSUME UNCHANGED <<routes, req>>, declared' \subseteq DOMAIN Surfaces PROVE IndInv'
  BY <1>4 DEF IndInv, TypeOK, Located, PrefixTold, TenantTold, Classified
<1>5. ASSUME NEW s \in DOMAIN Surfaces, SurfaceChanges(s) PROVE IndInv'
  <2>1. declared' \subseteq DOMAIN Surfaces
    BY <1>5 DEF SurfaceChanges, IndInv, TypeOK
  <2> QED BY <1>4, <1>5, <2>1 DEF SurfaceChanges
<1>6. CASE UNCHANGED vars
  BY <1>4, <1>6 DEF vars, IndInv, TypeOK
<1> QED BY <1>1, <1>2, <1>3, <1>5, <1>6, <1>7 DEF Next

\* The inductive invariant holds in every reachable state.
LEMMA Inductive == Spec => []IndInv
BY IndInit, IndStep, PTL DEF Spec

----------------------------------------------------------------------------
\* Type correctness of every request's context (server/http.go).
THEOREM TypeCorrect == Spec => []TypeOK
<1>1. IndInv => TypeOK
  BY DEF IndInv
<1> QED BY <1>1, Inductive, PTL

\* No request is forwarded for a guarded entry without the permission, unless
\* the cell of the table was written while Dispatch was reading it; and none
\* without an identity for an entry that is not public, unless the split read
\* a public one (http.go's split, Dispatch's second match).
THEOREM RequestsAuthorised == Spec => []Authorised
<1>1. IndInv => Authorised
  BY DEF IndInv, Authorised, Forwarded, Classified
<1> QED BY <1>1, Inductive, PTL

\* The tenant and prefix headers a plugin receives are Core's, and a client's
\* X-Acting-User reaches it only on a request that has no identity because the
\* split read a public route (tenant.go, product_host.go, domain_resolve.go).
THEOREM HeadersAreCores == Spec => []HeadersTrusted
<1>1. IndInv => HeadersTrusted
  BY DEF IndInv, HeadersTrusted, Forwarded, TenantTold, PrefixTold, Classified, Rewriting, Rewritten
<1> QED BY <1>1, Inductive, PTL

\* A session-scoped custom domain serves its own tenant's sessions only, for
\* the paths it rewrites (requireHostTenant).
THEOREM DomainsKeepTenants == Spec => []TenantOfHost
<1>1. IndInv => TenantOfHost
  <2> SUFFICES ASSUME IndInv, NEW r \in Requests, Forwarded(r), req[r].host \in DOMAIN Claims,
                      req[r].hostPrefix # NoPrefix, req[r].id # Nil
               PROVE  req[r].tenantHeader = Claims[req[r].host].tenant
    BY DEF TenantOfHost
  <2>1. PrefixTold(req[r]) /\ TenantTold(req[r]) /\ req[r].at = "forwarded"
    BY DEF IndInv, Forwarded
  <2>2. req[r].hostTenant = Claims[req[r].host].tenant
    BY <2>1 DEF PrefixTold, Rewritten
  <2>3. req[r].hostTenant # NoTenant
    BY <2>2, HostAssumption
  <2> QED BY <2>1, <2>2, <2>3 DEF TenantTold
<1> QED BY <1>1, Inductive, PTL

(***************************************************************************)
(* The caches in front of Identity.                                        *)
(***************************************************************************)

(* The key of an idle caller is a key. *)
LEMMA SomeKeyType == SomeKey \in Keys
BY CacheAssumption DEF SomeKey

(* The types hold initially. *)
LEMMA CacheTypeInit == CacheInit => CacheTypeOK
BY CacheAssumption, SomeKeyType DEF CacheInit, CacheTypeOK, Verdicts

(* The resolving calls differ in their keys only. *)
LEMMA CacheNextCases ==
    ASSUME CacheNext
    PROVE  \/ \E c \in Callers, k \in Keys : Miss(c, k)
           \/ \E c \in Callers : Answer(c) \/ Store(c) \/ Unavailable(c)
           \/ \E k \in Keys : Change(k)
           \/ CacheTick
BY DEF CacheNext, Resolve, ResolveDomain, Keys

(* Every step keeps the types. *)
LEMMA CacheTypeStep == CacheTypeOK /\ [CacheNext]_cacheVars => CacheTypeOK'
<1> SUFFICES ASSUME CacheTypeOK, [CacheNext]_cacheVars PROVE CacheTypeOK'
  OBVIOUS
<1> USE CacheAssumption, SomeKeyType DEF CacheTypeOK, identity, cache, caller
<1>1. ASSUME NEW c \in Callers, NEW k \in Keys, Miss(c, k) PROVE CacheTypeOK'
  BY <1>1 DEF Miss
<1>2. ASSUME NEW c \in Callers, Answer(c) PROVE CacheTypeOK'
  BY <1>2 DEF Answer
<1>3. ASSUME NEW c \in Callers, Store(c) PROVE CacheTypeOK'
  BY <1>3 DEF Store, Return, Verdicts
<1>4. ASSUME NEW c \in Callers, Unavailable(c) PROVE CacheTypeOK'
  BY <1>4 DEF Unavailable, Return, Verdicts
<1>5. ASSUME NEW k \in Keys, Change(k) PROVE CacheTypeOK'
  BY <1>5 DEF Change, Answers, Verdicts
<1>6. ASSUME CacheTick PROVE CacheTypeOK'
  BY <1>6 DEF CacheTick, Upto
<1>7. CASE UNCHANGED cacheVars
  BY <1>7 DEF cacheVars
<1> QED
  BY <1>1, <1>2, <1>3, <1>4, <1>5, <1>6, <1>7, CacheNextCases

(* A response in flight was overruled, if at all, since its fetch began. *)
LEMMA ResponsesStep == CacheTypeOK /\ ResponsesRecent /\ [CacheNext]_cacheVars => ResponsesRecent'
<1> SUFFICES ASSUME CacheTypeOK, ResponsesRecent, [CacheNext]_cacheVars PROVE ResponsesRecent'
  OBVIOUS
<1> USE CacheAssumption, SomeKeyType DEF CacheTypeOK, ResponsesRecent, identity, cache, caller
<1>1. ASSUME NEW c \in Callers, NEW k \in Keys, Miss(c, k) PROVE ResponsesRecent'
  BY <1>1 DEF Miss
<1>2. ASSUME NEW c \in Callers, Answer(c) PROVE ResponsesRecent'
  BY <1>2 DEF Answer
<1>3. ASSUME NEW c \in Callers, Store(c) \/ Unavailable(c) PROVE ResponsesRecent'
  BY <1>3 DEF Store, Unavailable, Return
<1>4. ASSUME NEW k \in Keys, Change(k) PROVE ResponsesRecent'
  BY <1>4 DEF Change, Answers, Verdicts
<1>5. ASSUME CacheTick PROVE ResponsesRecent'
  BY <1>5 DEF CacheTick, Upto
<1>6. CASE UNCHANGED cacheVars
  BY <1>6 DEF cacheVars
<1> QED
  BY <1>1, <1>2, <1>3, <1>4, <1>5, <1>6, CacheNextCases

(* A cache entry was a response when it was stored. *)
LEMMA EntriesStep ==
    CacheTypeOK /\ ResponsesRecent /\ EntriesRecent /\ [CacheNext]_cacheVars => EntriesRecent'
<1> SUFFICES ASSUME CacheTypeOK, ResponsesRecent, EntriesRecent, [CacheNext]_cacheVars
             PROVE  EntriesRecent'
  OBVIOUS
<1> USE CacheAssumption DEF CacheTypeOK, EntriesRecent, identity, cache, caller
<1>1. ASSUME NEW c \in Callers, NEW k \in Keys, Miss(c, k) PROVE EntriesRecent'
  BY <1>1 DEF Miss
<1>2. ASSUME NEW c \in Callers, Answer(c) \/ Unavailable(c) PROVE EntriesRecent'
  BY <1>2 DEF Answer, Unavailable
<1>3. ASSUME NEW c \in Callers, Store(c) PROVE EntriesRecent'
  <2>1. got[c] = truth[key[c]] \/ gone[key[c]][got[c]] <= Timeout
    BY <1>3 DEF Store, ResponsesRecent
  <2> QED
    BY <1>3, <2>1 DEF Store
<1>4. ASSUME NEW k \in Keys, Change(k) PROVE EntriesRecent'
  BY <1>4 DEF Change, Answers, Verdicts
<1>5. ASSUME CacheTick PROVE EntriesRecent'
  <2> SUFFICES ASSUME NEW k \in Keys, left'[k] >= 0, val'[k] # truth'[k]
               PROVE  gone'[k][val'[k]] <= (cacheTTL - left'[k]) + Timeout
    OBVIOUS
  <2>1. left[k] >= 0 /\ left'[k] = left[k] - 1 /\ val'[k] = val[k] /\ truth'[k] = truth[k]
    BY <1>5 DEF CacheTick
  <2>2. gone[k][val[k]] <= (cacheTTL - left[k]) + Timeout
    BY <2>1
  <2>3. gone'[k][val[k]] = Upto(gone[k][val[k]] + 1, cacheTTL + Timeout)
    BY <1>5, <2>1 DEF CacheTick
  <2>4. gone[k][val[k]] \in Nat /\ left[k] \in Int
    OBVIOUS
  <2> QED
    BY <2>1, <2>2, <2>3, <2>4 DEF Upto
<1>6. CASE UNCHANGED cacheVars
  BY <1>6 DEF cacheVars
<1> QED
  BY <1>1, <1>2, <1>3, <1>4, <1>5, <1>6, CacheNextCases

(* The inductive invariant. *)
THEOREM CacheInvariant == CacheSpec => [](CacheTypeOK /\ ResponsesRecent /\ EntriesRecent)
<1>1. CacheInit => ResponsesRecent /\ EntriesRecent
  BY DEF CacheInit, ResponsesRecent, EntriesRecent
<1> QED
  BY <1>1, CacheTypeInit, CacheTypeStep, ResponsesStep, EntriesStep, PTL DEF CacheSpec

(* Types of the cache and of its callers. *)
THEOREM CacheTypeCorrect == CacheSpec => []CacheTypeOK
BY CacheInvariant, PTL

(* A revocation takes effect within the TTL and one timeout, for every TTL    *)
(* and timeout, any number of concurrent callers and any order of their       *)
(* answers.                                                                   *)
THEOREM RevocationTakesEffect == CacheSpec => []RevocationWindow
<1>1. ASSUME CacheTypeOK, ResponsesRecent, EntriesRecent PROVE RevocationWindow
  <2> SUFFICES ASSUME NEW k \in Keys, NEW v \in Told(k), v # truth[k]
               PROVE  gone[k][v] < cacheTTL + Timeout
    BY DEF RevocationWindow
  <2> USE CacheAssumption DEF CacheTypeOK
  <2>1. CASE Fresh(k) /\ v = val[k]
    BY <1>1, <2>1 DEF Fresh, EntriesRecent
  <2>2. ASSUME NEW c \in Callers, pc[c] = "answered", key[c] = k, v = got[c]
        PROVE  gone[k][v] < cacheTTL + Timeout
    BY <1>1, <2>2 DEF ResponsesRecent
  <2> QED
    BY <2>1, <2>2 DEF Told
<1> QED
  BY <1>1, CacheInvariant, PTL

(* No certificate is allowed for a host that nobody has claimed within the   *)
(* window, for any number of handshakes and requests that ask at once.       *)
THEOREM CertificatesAreClaimed == CacheSpec => []NoStrayCertificate
<1>1. ASSUME RevocationWindow PROVE NoStrayCertificate
  <2> SUFFICES ASSUME NEW h \in Domains, NEW o \in Outcomes(h), askHandler(o) = 200
               PROVE  truth[h] = "valid" \/ gone[h]["valid"] < cacheTTL + Timeout
    BY DEF NoStrayCertificate
  <2>1. o = "valid"
    BY DEF askHandler
  <2>2. o \in Told(h)
    BY <2>1 DEF Outcomes
  <2> QED
    BY <1>1, <2>1, <2>2 DEF RevocationWindow, Keys
<1> QED
  BY <1>1, RevocationTakesEffect, PTL
=============================================================================
