---------------------------- MODULE VerdictCache ----------------------------
(***************************************************************************)
(* The caches in front of the Identity plugin: Introspector                *)
(* (internal/auth/introspect.go: device tokens and platform sessions, one  *)
(* map) and DomainResolver (internal/auth/domain.go: host names, a map of  *)
(* its own).  All three lookups follow one pattern: look under the lock,   *)
(* ask Identity WITHOUT the lock, store the answer under the lock again.   *)
(* Several callers may ask for the same key at once, and what Identity     *)
(* would say can change at any moment.                                     *)
(***************************************************************************)
EXTENDS Integers

CONSTANTS
    Tokens,     \* cache keys "token hash|acting user"
    Sessions,   \* cache keys "platform|raw token"
    Domains,    \* normalised host names
    Callers,    \* goroutines that resolve a key
    cacheTTL,   \* in ticks
    Timeout     \* the http.Client timeout, in ticks

Keys == Tokens \union Sessions \union Domains

(* Definitive answers: an identity (or a tenant), 401 (or 404), and for      *)
(* device tokens also "membership revoked".                                  *)
Verdicts == {"valid", "invalid", "revoked"}
Answers(k) == IF k \in Tokens THEN Verdicts ELSE {"valid", "invalid"}

ASSUME CacheAssumption ==
    /\ cacheTTL \in Nat \ {0}
    /\ Timeout \in Nat
    /\ Keys # {}

VARIABLES
    truth,      \* external: what Identity would answer for a key
    gone,       \* ghost: for how long a verdict has not been the truth,
                \* saturated at cacheTTL + Timeout
    val,        \* the cache entries' verdicts
    left,       \* e.exp minus time.Now(), which the code only compares with 0:
                \* saturated at -1, where a key without an entry is too
    pc,         \* "idle", "fetch" (request sent), "answered" (response coming)
    key,        \* the key a caller resolves
    elapsed,    \* how long its fetch has been going on
    got         \* the verdict in the response

identity == <<truth, gone>>
cache    == <<val, left>>
caller   == <<pc, key, elapsed, got>>
cacheVars     == <<identity, cache, caller>>

SomeKey == CHOOSE k \in Keys : TRUE

CacheInit ==
    /\ truth \in [Keys -> {"valid", "invalid"}]
    /\ gone = [k \in Keys |-> [v \in Verdicts |-> 0]]
    /\ val = [k \in Keys |-> "invalid"]
    /\ left = [k \in Keys |-> -1]
    /\ pc = [c \in Callers |-> "idle"]
    /\ key = [c \in Callers |-> SomeKey]
    /\ elapsed = [c \in Callers |-> 0]
    /\ got = [c \in Callers |-> "invalid"]

(* Mutant: an entry is served up to and including its expiry. *)
Fresh_Inclusive(k) == left[k] >= 0

(* ok && time.Now().Before(e.exp).  A lookup that finds a fresh entry returns *)
(* its verdict and changes nothing.                                          *)
Fresh(k) == left[k] > 0

(* Otherwise the lock is released and a fetch begins. *)
Miss(c, k) ==
    /\ pc[c] = "idle"
    /\ ~Fresh(k)
    /\ pc' = [pc EXCEPT ![c] = "fetch"]
    /\ key' = [key EXCEPT ![c] = k]
    /\ UNCHANGED <<identity, cache, elapsed, got>>

(* Introspector.Resolve and ResolvePlatform, which share a map. *)
Resolve(c) == \E k \in Tokens \union Sessions : Miss(c, k)

ResolveDomain(c) == \E k \in Domains : Miss(c, k)

(* Identity reads its database and answers 200 or 401/404. *)
Answer(c) ==
    /\ pc[c] = "fetch"
    /\ got' = [got EXCEPT ![c] = truth[key[c]]]
    /\ pc' = [pc EXCEPT ![c] = "answered"]
    /\ UNCHANGED <<identity, cache, key, elapsed>>

(* The caller returns what it has. *)
Return(c) ==
    /\ pc' = [pc EXCEPT ![c] = "idle"]
    /\ key' = [key EXCEPT ![c] = SomeKey]
    /\ elapsed' = [elapsed EXCEPT ![c] = 0]
    /\ got' = [got EXCEPT ![c] = "invalid"]

(* The response is read and its verdict stored for cacheTTL from now, over   *)
(* whatever another caller stored meanwhile.  The sweep of expired entries   *)
(* (left = -1) removes nothing a lookup would serve.                         *)
Store(c) ==
    /\ pc[c] = "answered"
    /\ val' = [val EXCEPT ![key[c]] = got[c]]
    /\ left' = [left EXCEPT ![key[c]] = cacheTTL]
    /\ Return(c)
    /\ UNCHANGED identity

(* ErrUnavailable: no Identity, a transport failure, the timeout, another    *)
(* status, a body that does not decode.  Nothing is cached.                  *)
Unavailable(c) ==
    /\ pc[c] \in {"fetch", "answered"}
    /\ Return(c)
    /\ UNCHANGED <<identity, cache>>

(* external: a revocation, a role change, a domain that is claimed. *)
Change(k) ==
    /\ \E v \in Answers(k) \ {truth[k]} : truth' = [truth EXCEPT ![k] = v]
    /\ gone' = [gone EXCEPT ![k] = [@ EXCEPT ![truth[k]] = 0]]
    /\ UNCHANGED <<cache, caller>>

Upto(n, max) == IF n < max THEN n ELSE max

(* Mutant: an HTTP client without a timeout. *)
CacheTick_NoTimeout ==
    /\ elapsed' = [c \in Callers |-> IF pc[c] = "idle" THEN 0 ELSE elapsed[c] + 1]
    /\ left' = [k \in Keys |-> IF left[k] < 0 THEN -1 ELSE left[k] - 1]
    /\ gone' = [k \in Keys |-> [v \in Verdicts |->
                    IF v = truth[k] THEN 0 ELSE Upto(gone[k][v] + 1, cacheTTL + Timeout)]]
    /\ UNCHANGED <<truth, val, pc, key, got>>

(* client.Do and the read of the body end within the client's timeout. *)
CacheTick ==
    /\ \A c \in Callers : pc[c] # "idle" => elapsed[c] < Timeout
    /\ elapsed' = [c \in Callers |-> IF pc[c] = "idle" THEN 0 ELSE elapsed[c] + 1]
    /\ left' = [k \in Keys |-> IF left[k] < 0 THEN -1 ELSE left[k] - 1]
    /\ gone' = [k \in Keys |-> [v \in Verdicts |->
                    IF v = truth[k] THEN 0 ELSE Upto(gone[k][v] + 1, cacheTTL + Timeout)]]
    /\ UNCHANGED <<truth, val, pc, key, got>>

CacheNext ==
    \/ \E c \in Callers :
          \/ Resolve(c) \/ ResolveDomain(c)
          \/ Answer(c) \/ Store(c) \/ Unavailable(c)
    \/ \E k \in Keys : Change(k)
    \/ CacheTick

CacheSpec == CacheInit /\ [][CacheNext]_cacheVars

(***************************************************************************)
(* Properties                                                              *)
(***************************************************************************)
(* Types; no fetch outlasts the client's timeout, no entry its cacheTTL. *)
CacheTypeOK ==
    /\ truth \in [Keys -> Verdicts]
    /\ gone \in [Keys -> [Verdicts -> 0..(cacheTTL + Timeout)]]
    /\ val \in [Keys -> Verdicts]
    /\ left \in [Keys -> -1..cacheTTL]
    /\ pc \in [Callers -> {"idle", "fetch", "answered"}]
    /\ key \in [Callers -> Keys]
    /\ elapsed \in [Callers -> 0..Timeout]
    /\ got \in [Callers -> Verdicts]

(* The verdicts a caller may be handed in this state: a fresh cache entry, or *)
(* the response to its own fetch.                                            *)
Told(k) ==
    {v \in Verdicts : \/ Fresh(k) /\ v = val[k]
                      \/ \E c \in Callers : pc[c] = "answered" /\ key[c] = k /\ v = got[c]}

(* Resolve's outcomes at this moment; a fetch of the key may still fail. *)
Outcomes(k) ==
    Told(k) \union
    (IF \E c \in Callers : pc[c] # "idle" /\ key[c] = k THEN {"unavailable"} ELSE {})

(* Mutant: the proxy is told yes while Identity cannot be asked. *)
askHandler_FailsOpen(outcome) ==
    CASE outcome \in {"valid", "unavailable"} -> 200
      [] OTHER                               -> 404

(* The on-demand TLS listener's answer to "may this host have a certificate". *)
askHandler(outcome) ==
    CASE outcome = "valid"       -> 200
      [] outcome = "unavailable" -> 503
      [] OTHER                   -> 404

(* A revocation or role change takes effect within the cache's window plus   *)
(* the time one fetch may take: no caller is told a verdict that was         *)
(* overruled longer ago, however fetches of the same key overlap and in      *)
(* whatever order their answers are stored (introspect.go:116-169,           *)
(* domain.go:64-87).                                                         *)
RevocationWindow ==
    \A k \in Keys : \A v \in Told(k) : v = truth[k] \/ gone[k][v] < cacheTTL + Timeout

(* The reverse proxy is only told to get a certificate for a host a tenant   *)
(* has claimed, or had until the cache's window ago: neither an outage of    *)
(* Identity nor an answer that is overtaken makes it ask for another's       *)
(* (ondemand.go:74-102, with domain.go's cache).                             *)
NoStrayCertificate ==
    \A h \in Domains : \A o \in Outcomes(h) :
        askHandler(o) = 200 => truth[h] = "valid" \/ gone[h]["valid"] < cacheTTL + Timeout

(***************************************************************************)
(* The inductive invariant behind RevocationWindow.                        *)
(***************************************************************************)
(* A response was true when it was computed, after its fetch began ... *)
ResponsesRecent ==
    \A c \in Callers : pc[c] = "answered" =>
        got[c] = truth[key[c]] \/ gone[key[c]][got[c]] <= elapsed[c]

(* ... and an entry was a response when it was stored. *)
EntriesRecent ==
    \A k \in Keys : left[k] >= 0 =>
        val[k] = truth[k] \/ gone[k][val[k]] <= (cacheTTL - left[k]) + Timeout
=============================================================================
