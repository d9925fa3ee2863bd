------------------------------ MODULE Shutdown ------------------------------
(***************************************************************************)
(* The life of the gateway's process (cmd/apicorex/main.go): an errgroup   *)
(* runs the HTTP server, the on-demand TLS server, the health monitor, the *)
(* tenant limiter sweep and a goroutine that shuts the HTTP server down.   *)
(* A signal, or an error returned by one of them, cancels the context they *)
(* share; main waits for all five and exits.  Requests are in flight       *)
(* meanwhile, and the monitor may be in the middle of a round of checks.   *)
(***************************************************************************)
EXTENDS Naturals

CONSTANTS
    Requests,   \* client requests
    Plugins,    \* registered plugin ids
    Grace       \* the 10 s of httpSrv.Shutdown's context, in ticks

ASSUME ShutdownAssumption == Grace \in Nat

Servers == {"http", "ask"}

VARIABLES
    cancelled,  \* gCtx is done
    err,        \* the error the group keeps: the first one returned
    server,     \* where each server's ListenAndServe is
    drain,      \* the goroutine that calls httpSrv.Shutdown
    waited,     \* how long it has been draining, saturated at Grace
    monitor, todo, verdict, \* HealthMonitor.Run: its position, the plugins the
                \* round has still to check, what the last probe leads to
    sweep,      \* RunTenantLimiterSweep
    exit,       \* how main ended: "complete" (returned) or "fatal" (log.Fatalf)
    req, tgt,   \* each request's position and plugin
    alive,      \* PluginEntry.Alive
    tripped,    \* the plugins whose breaker the monitor has forced open
    well,       \* external: the plugins that answer; the others hang
    failed      \* ghost: the servers whose listener failed

group == <<cancelled, err, drain, waited, sweep, exit>>
checks == <<monitor, todo, verdict>>
health == <<alive, tripped>>
requests == <<req, tgt>>
vars == <<group, server, checks, health, requests, well, failed>>

(* The requests an http.Server waits for in Shutdown: a hijacked connection *)
(* ("piped", a WebSocket) is not one of them.                               *)
Active == {r \in Requests : req[r] \in {"arrived", "admitted", "proxying"}}

Running == exit = "none"

Init ==
    /\ cancelled = FALSE
    /\ err = "none"
    \* without ONDEMAND_TLS_ADDR there is no ask server, and its goroutine returns
    /\ \E askAddr \in BOOLEAN :
          server = [s \in Servers |->
                      IF s = "ask" /\ ~askAddr THEN "returned" ELSE "starting"]
    /\ drain = "waiting" /\ waited = 0
    /\ monitor = "select" /\ todo = {} /\ verdict = [p \in Plugins |-> "none"]
    /\ sweep = "running"
    /\ exit = "none"
    /\ req = [r \in Requests |-> "none"]
    /\ tgt \in [Requests -> Plugins]
    /\ alive = Plugins /\ tripped = {}
    /\ well \in SUBSET Plugins
    /\ failed = {}

(* A goroutine returns an error: the first cancels the group's context. *)
Returns(e) ==
    /\ err' = IF err = "none" THEN e ELSE err
    /\ cancelled' = TRUE

(* signal.NotifyContext: later signals are caught too and change nothing. *)
Signal ==
    /\ Running
    /\ cancelled' = TRUE
    /\ UNCHANGED <<err, drain, waited, sweep, exit, server, checks, health, requests, well, failed>>

(***************************************************************************)
(* The servers                                                             *)
(***************************************************************************)
(* srv.Shutdown has been called: by the drain goroutine, or by the one       *)
(* RunOnDemandTLS starts and nobody waits for.                               *)
Closing(s) == IF s = "http" THEN drain # "waiting" ELSE cancelled

Listen(s) ==
    /\ Running
    /\ server[s] = "starting"
    /\ ~(s = "http" /\ Closing(s))
    /\ server' = [server EXCEPT ![s] = "listening"]
    /\ UNCHANGED <<group, checks, health, requests, well, failed>>

(* Mutant: the error of the on-demand listener is dropped. *)
ListenFails_AskIgnored(s) ==
    /\ Running
    /\ server[s] \in {"starting", "listening"}
    /\ ~(s = "http" /\ Closing(s))
    /\ server' = [server EXCEPT ![s] = "returned"]
    /\ failed' = failed \union {s}
    /\ IF s = "http" THEN Returns("listen") ELSE UNCHANGED <<err, cancelled>>
    /\ UNCHANGED <<drain, waited, sweep, exit, checks, health, requests, well>>

(* The port is taken, or accepting breaks down. *)
ListenFails(s) ==
    /\ Running
    /\ server[s] \in {"starting", "listening"}
    /\ ~(s = "http" /\ Closing(s))
    /\ server' = [server EXCEPT ![s] = "returned"]
    /\ failed' = failed \union {s}
    /\ Returns("listen")
    /\ UNCHANGED <<drain, waited, sweep, exit, checks, health, requests, well>>

(* ErrServerClosed, as soon as Shutdown is called and long before it is done; *)
(* on a server that has not begun to listen it is returned at once.           *)
ServerClosed(s) ==
    /\ Running
    /\ server[s] # "returned"
    /\ Closing(s)
    /\ server' = [server EXCEPT ![s] = "returned"]
    /\ UNCHANGED <<group, checks, health, requests, well, failed>>

(***************************************************************************)
(* httpSrv.Shutdown, under a context of its own with a timeout             *)
(***************************************************************************)
DrainStart ==
    /\ Running
    /\ cancelled
    /\ drain = "waiting"
    /\ drain' = "draining"
    /\ UNCHANGED <<cancelled, err, waited, sweep, exit, server, checks, health, requests, well, failed>>

Tick ==
    /\ Running
    /\ drain = "draining"
    /\ waited < Grace
    /\ waited' = waited + 1
    /\ UNCHANGED <<cancelled, err, drain, sweep, exit, server, checks, health, requests, well, failed>>

(* A poll of the connections finds them all idle. *)
Drained ==
    /\ Running
    /\ drain = "draining"
    /\ Active = {}
    /\ drain' = "done"
    /\ UNCHANGED <<cancelled, err, waited, sweep, exit, server, checks, health, requests, well, failed>>

(* Mutant: httpSrv.Shutdown is given a context without a timeout. *)
DrainTimeout_Never == Drained

(* The timeout comes before such a poll: DeadlineExceeded. *)
DrainTimeout ==
    /\ Running
    /\ drain = "draining"
    /\ waited = Grace
    /\ drain' = "done"
    /\ Returns("deadline")
    /\ UNCHANGED <<waited, sweep, exit, server, checks, health, requests, well, failed>>

(***************************************************************************)
(* HealthMonitor.Run and RunTenantLimiterSweep                             *)
(***************************************************************************)
(* select: a due ticker is as good a choice as a cancelled context. *)
RoundStarts ==
    /\ Running
    /\ monitor = "select"
    /\ monitor' = "round"
    /\ todo' = Plugins
    /\ UNCHANGED <<group, verdict, server, health, requests, well, failed>>

(* Mutant: one timeout for the whole round, which a plugin that hangs uses up. *)
Probe_SharedTimeout(p) ==
    /\ Running
    /\ monitor = "round"
    /\ p \in todo
    /\ \A q \in Plugins : verdict[q] = "none"
    /\ todo' = todo \ {p}
    /\ verdict' = [verdict EXCEPT ![p] =
          IF p \in well /\ Plugins \ todo \subseteq well /\ ~cancelled
          THEN "healthy" ELSE "markDead"]
    /\ UNCHANGED <<group, monitor, server, health, requests, well, failed>>

(* client.Do under the group's context: once that is cancelled every probe   *)
(* fails, whatever the plugin would have answered.  One that was answered    *)
(* before may be judged after.                                               *)
Probe(p) ==
    /\ Running
    /\ monitor = "round"
    /\ p \in todo
    /\ \A q \in Plugins : verdict[q] = "none"
    /\ todo' = todo \ {p}
    /\ verdict' = [verdict EXCEPT ![p] =
          IF p \in well /\ ~cancelled THEN "healthy" ELSE "markDead"]
    /\ UNCHANGED <<group, monitor, server, health, requests, well, failed>>

(* reg.Heartbeat; or reg.MarkDead, and then cb.ForceOpen *)
Apply(p) ==
    /\ Running
    /\ \/ /\ verdict[p] = "healthy"
          /\ alive' = alive \union {p}
          /\ verdict' = [verdict EXCEPT ![p] = "none"]
          /\ UNCHANGED tripped
       \/ /\ verdict[p] = "markDead"
          /\ alive' = alive \ {p}
          /\ verdict' = [verdict EXCEPT ![p] = "forceOpen"]
          /\ UNCHANGED tripped
       \/ /\ verdict[p] = "forceOpen"
          /\ tripped' = tripped \union {p}
          /\ verdict' = [verdict EXCEPT ![p] = "none"]
          /\ UNCHANGED alive
    /\ UNCHANGED <<group, monitor, todo, server, requests, well, failed>>

(* Mutant: the round does not wait for the result of its last probe. *)
RoundEnds_NoWait ==
    /\ Running
    /\ monitor = "round"
    /\ todo = {}
    /\ monitor' = "select"
    /\ UNCHANGED <<group, todo, verdict, server, health, requests, well, failed>>

RoundEnds ==
    /\ Running
    /\ monitor = "round"
    /\ todo = {}
    /\ \A p \in Plugins : verdict[p] = "none"
    /\ monitor' = "select"
    /\ UNCHANGED <<group, todo, verdict, server, health, requests, well, failed>>

MonitorStops ==
    /\ Running
    /\ monitor = "select"
    /\ cancelled
    /\ monitor' = "stopped"
    /\ UNCHANGED <<group, todo, verdict, server, health, requests, well, failed>>

SweepStops ==
    /\ Running
    /\ cancelled
    /\ sweep' = "stopped"
    /\ UNCHANGED <<cancelled, err, drain, waited, exit, server, checks, health, requests, well, failed>>

(***************************************************************************)
(* Requests: what Dispatch asks of them on the way (the rest is in         *)
(* Protection)                                                             *)
(***************************************************************************)
Move(r, to) ==
    /\ Running
    /\ req' = [req EXCEPT ![r] = to]
    /\ UNCHANGED <<group, server, checks, health, tgt, well, failed>>

Arrive(r) ==
    /\ req[r] = "none"
    /\ server["http"] = "listening"
    /\ ~Closing("http")
    /\ Move(r, "arrived")

(* reg.Get, then cb.Allow *)
Admit(r) ==
    \/ req[r] = "arrived" /\ Move(r, IF tgt[r] \in alive THEN "admitted" ELSE "refused")
    \/ /\ req[r] = "admitted"
       /\ IF tgt[r] \in tripped THEN Move(r, "refused")
          ELSE \E to \in {"proxying", "piped"} : Move(r, to)

Answer(r) ==
    /\ req[r] = "proxying"
    /\ tgt[r] \in well
    /\ Move(r, "done")

(* Either side closes a WebSocket; a client gives a plain request up. *)
Leave(r) ==
    /\ req[r] \in {"proxying", "piped"}
    /\ Move(r, "done")

(* Mutant: main does not wait for the drain (its g.Go is forgotten). *)
AllReturned_NoDrain ==
    /\ \A s \in Servers : server[s] = "returned"
    /\ monitor = "stopped"
    /\ sweep = "stopped"

(* g.Wait *)
AllReturned ==
    /\ \A s \in Servers : server[s] = "returned"
    /\ monitor = "stopped"
    /\ sweep = "stopped"
    /\ drain = "done"

(* main ends, and with it the connections that are still open. *)
Exit ==
    /\ Running
    /\ AllReturned
    /\ exit' = IF err = "none" THEN "complete" ELSE "fatal"
    /\ req' = [r \in Requests |->
          IF r \in Active THEN "cut" ELSE IF req[r] = "piped" THEN "dropped" ELSE req[r]]
    /\ UNCHANGED <<cancelled, err, drain, waited, sweep, server, checks, health, tgt, well, failed>>

Terminated == ~Running /\ UNCHANGED vars

Next ==
    \/ Signal
    \/ \E s \in Servers : Listen(s) \/ ListenFails(s) \/ ServerClosed(s)
    \/ DrainStart \/ Tick \/ Drained \/ DrainTimeout
    \/ RoundStarts \/ RoundEnds \/ MonitorStops \/ SweepStops
    \/ \E p \in Plugins : Probe(p) \/ Apply(p)
    \/ \E r \in Requests : Arrive(r) \/ Admit(r) \/ Answer(r) \/ Leave(r)
    \/ Exit
    \/ Terminated

Spec == Init /\ [][Next]_vars

(***************************************************************************)
(* Fairness: the goroutines run and time passes.  Strong fairness for the  *)
(* monitor's return: select picks a ready case at random, so a cancelled   *)
(* context is chosen sooner or later however often the ticker is due too.  *)
(***************************************************************************)
FairSpec ==
    /\ Spec
    /\ \A s \in Servers : WF_vars(ServerClosed(s))
    /\ WF_vars(DrainStart) /\ WF_vars(Tick) /\ WF_vars(Drained \/ DrainTimeout)
    /\ \A p \in Plugins : WF_vars(Probe(p)) /\ WF_vars(Apply(p))
    /\ WF_vars(RoundEnds) /\ SF_vars(MonitorStops)
    /\ WF_vars(SweepStops) /\ WF_vars(Exit)

(***************************************************************************)
(* Properties                                                              *)
(***************************************************************************)
(* Types; between two rounds the monitor has no result left to apply, and    *)
(* main ends only when the five goroutines have (main.go:110).               *)
TypeOK ==
    /\ cancelled \in BOOLEAN
    /\ err \in {"none", "listen", "deadline"}
    /\ server \in [Servers -> {"starting", "listening", "returned"}]
    /\ drain \in {"waiting", "draining", "done"}
    /\ waited \in 0..Grace
    /\ monitor \in {"select", "round", "stopped"}
    /\ todo \subseteq Plugins
    /\ verdict \in [Plugins -> {"none", "healthy", "markDead", "forceOpen"}]
    /\ sweep \in {"running", "stopped"}
    /\ exit \in {"none", "complete", "fatal"}
    /\ req \in [Requests -> {"none", "arrived", "admitted", "proxying", "piped",
                             "done", "refused", "cut", "dropped"}]
    /\ tgt \in [Requests -> Plugins]
    /\ alive \subseteq Plugins
    /\ tripped \subseteq Plugins
    /\ well \subseteq Plugins
    /\ failed \subseteq Servers
    /\ monitor # "round" => todo = {} /\ \A p \in Plugins : verdict[p] = "none"
    /\ ~Running => AllReturned

(* A plain HTTP request is cut off by the exit only when the whole grace     *)
(* period was over, and then the process says so: it never claims "shutdown  *)
(* complete" (main.go:113) over an unanswered request, although the servers  *)
(* return as soon as the shutdown begins (main.go:103-113).                  *)
CutOnlyAfterGrace ==
    \A r \in Requests : req[r] = "cut" => waited = Grace /\ exit = "fatal"

(* Until the shutdown begins, a plugin that answers its health checks is not *)
(* marked dead and its breaker is not forced open, however its neighbours    *)
(* hang (health_monitor.go:47-63).                                           *)
NoFalseAlarm == ~cancelled => well \subseteq alive /\ well \intersect tripped = {}

(* A shutdown that has begun ends, with plugins that hang and requests that  *)
(* wait for them, and with the monitor in the middle of a round              *)
(* (main.go:103-113).                                                        *)
Exits == cancelled ~> ~Running

(* A listener that fails, the on-demand one included, takes the process down *)
(* with an error (main.go:89-90, 110-112).                                   *)
FailureReported == failed # {} ~> exit = "fatal"
=============================================================================
