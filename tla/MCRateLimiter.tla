--------------------------- MODULE MCRateLimiter ---------------------------
(* Instances of RateLimiter for TLC.  One token is ten units.              *)
EXTENDS RateLimiter, TLC

Symmetry == Permutations(Requests) \cup Permutations(Tenants)

\* One token per tick for the plugin and a burst of two, which overrides the
\* default three; half a token per tick and a burst of one for a tenant.
MCDefault == [rate |-> 10, burst |-> 30, tenantRate |-> 0, tenantBurst |-> 0]
MCOverride == [rate |-> 0, burst |-> 20, tenantRate |-> 5, tenantBurst |-> 10]

=============================================================================
