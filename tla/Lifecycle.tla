------------------------------ MODULE Lifecycle ------------------------------
(***************************************************************************)
(* The life of the server process: pkg/daemon's Run, Shutdown and signal     *)
(* goroutine with the OnStart and OnStop of cmd/oathkeeper/serve.go, which    *)
(* drain the HTTP server and then stop the transcript poller and the grace   *)
(* period, while requests are being handled and the poller posts to the      *)
(* server of its own process. The re-check loop, whose Stop waits for         *)
(* nothing, is in module Recheck.                                           *)
(***************************************************************************)
EXTENDS Naturals, FiniteSets

CONSTANTS Requests,   \* POSTs to the analyze endpoint, by clients or the poller
          Shutdowns,  \* the calls of Daemon.Shutdown
          MaxSignals  \* bound: SIGINT and SIGTERM

ASSUME LifecycleAssumption == MaxSignals \in Nat

VARIABLES
  main,       \* where Run is: see MainStages
  ctx,        \* the context of Run: "none", "live" or "cancelled"
  hasCancel,  \* d.cancel is set
  requested,  \* d.shutdownRequested
  sig,        \* signals are left to the runtime, caught, or one waits in sigCh
  shut,       \* how far each Shutdown call is
  server,     \* OnStart's goroutine
  request,    \* how far each request is
  poller,     \* the poller's goroutine
  call,       \* the request whose answer it waits for, as a set
  promise,    \* what became of the promise of each request
  dead,       \* killed by a signal
  signals,
  overrun,    \* history: Run gave up waiting for OnStart
  unwaited,   \* history: requests in progress when waiting for them ended
  late        \* history: requests whose promise came after gracePeriod.Stop

daemonVars == <<main, ctx, hasCancel, requested, sig, shut, dead, signals, overrun>>
aroundVars == <<server, request, poller, call, promise, unwaited, late>>
vars == <<daemonVars, aroundVars>>

MainStages == {"new", "armed", "serving", "waiting", "cleanup",
               "stop poller", "stop grace", "stopped", "returned"}

Alive == ~dead /\ main # "returned"

\* The poller was started before Run.
Init ==
  /\ main = "new" /\ ctx = "none"
  /\ hasCancel = FALSE /\ requested = FALSE
  /\ sig = "default"
  /\ shut = [s \in Shutdowns |-> "idle"]
  /\ server = "none"
  /\ request = [r \in Requests |-> "none"]
  /\ poller = "idle" /\ call = {}
  /\ promise = [r \in Requests |-> "none"]
  /\ dead = FALSE /\ signals = 0 /\ overrun = FALSE
  /\ unwaited = {} /\ late = {}

InProgress == {r \in Requests : request[r] = "handled"}

-----------------------------------------------------------------------------
(* Run. A definition called Bug... is a seeded fault in the one after it.     *)

\* Forgetting a Shutdown that came before Run.
BugForgetRequest == "live"

FirstCtx == IF requested THEN "cancelled" ELSE "live"

RunRegister ==
  /\ Alive
  /\ main = "new"
  /\ main' = "armed"
  /\ hasCancel' = TRUE
  /\ ctx' = FirstCtx
  /\ UNCHANGED <<requested, sig, shut, dead, signals, overrun, aroundVars>>

\* signal.Notify and the goroutines.
RunStart ==
  /\ Alive
  /\ main = "armed"
  /\ main' = "serving"
  /\ sig' = "caught"
  /\ server' = "listening"
  /\ UNCHANGED <<ctx, hasCancel, requested, shut, dead, signals, overrun, request, poller, call,
                 promise, unwaited, late>>

ServerReturned == server \in {"returned", "failed"}

\* The two selects: the error of OnStart, or the context and then OnStart ...
RunWait ==
  /\ Alive
  /\ \/ main = "serving" /\ ServerReturned /\ main' = "cleanup"
     \/ main = "serving" /\ ctx = "cancelled" /\ main' = "waiting"
     \/ main = "waiting" /\ ServerReturned /\ main' = "cleanup"
  /\ UNCHANGED <<ctx, hasCancel, requested, sig, shut, dead, signals, overrun, aroundVars>>

\* ... or the end of ShutdownTimeout, which startServer's OnStart never needs.
RunTimeout ==
  /\ Alive
  /\ main = "waiting" /\ ~ServerReturned
  /\ main' = "cleanup"
  /\ overrun' = TRUE
  /\ UNCHANGED <<ctx, hasCancel, requested, sig, shut, dead, signals, aroundVars>>

\* The deferred function, up to OnStop; there the poller's stopCh is closed.
RunCleanup ==
  /\ Alive
  /\ main = "cleanup"
  /\ main' = "stop poller"
  /\ ctx' = "cancelled"
  /\ hasCancel' = FALSE
  /\ requested' = FALSE
  /\ UNCHANGED <<sig, shut, dead, signals, overrun, aroundVars>>

\* poller.Stop waits for the scan in progress.
StopPoller ==
  /\ Alive
  /\ main = "stop poller"
  /\ poller = "exited"
  /\ main' = "stop grace"
  /\ UNCHANGED <<ctx, hasCancel, requested, sig, shut, dead, signals, overrun, aroundVars>>

\* gracePeriod.Stop withdraws what waits; then the process ends.
StopGrace ==
  /\ Alive
  /\ main = "stop grace"
  /\ main' = "stopped"
  /\ promise' = [r \in Requests |-> IF promise[r] = "waiting" THEN "withdrawn" ELSE promise[r]]
  /\ UNCHANGED <<ctx, hasCancel, requested, sig, shut, dead, signals, overrun, server, request, poller,
                 call, unwaited, late>>

ExitProcess ==
  /\ Alive
  /\ main = "stopped"
  /\ main' = "returned"
  /\ UNCHANGED <<ctx, hasCancel, requested, sig, shut, dead, signals, overrun, aroundVars>>

-----------------------------------------------------------------------------
(* Signals and Shutdown *)

\* A signal that nobody catches kills the process; sigCh holds one.
Signal ==
  /\ Alive
  /\ signals < MaxSignals
  /\ signals' = signals + 1
  /\ dead' = (sig \in {"default", "restored"})
  /\ sig' = IF sig = "caught" THEN "queued" ELSE sig
  /\ UNCHANGED <<main, ctx, hasCancel, requested, shut, overrun, aroundVars>>

\* Leaving without cancelling.
BugNoCancel == ctx

CtxAfterWatch == "cancelled"

\* The goroutine that waits for a signal or the context, and then lets go of the
\* signals.
Watch ==
  /\ Alive
  /\ sig = "queued" \/ (sig = "caught" /\ ctx = "cancelled")
  /\ sig' = "restored"
  /\ ctx' = CtxAfterWatch
  /\ UNCHANGED <<main, hasCancel, requested, shut, dead, signals, overrun, aroundVars>>

\* Shutdown: the section of d.mu, then the call of cancel.
ShutdownAsk(s) ==
  /\ Alive
  /\ shut[s] = "idle"
  /\ requested' = TRUE
  /\ shut' = [shut EXCEPT ![s] = IF hasCancel THEN "asked" ELSE "done"]
  /\ UNCHANGED <<main, ctx, hasCancel, sig, dead, signals, overrun, aroundVars>>

ShutdownCancel(s) ==
  /\ Alive
  /\ shut[s] = "asked"
  /\ shut' = [shut EXCEPT ![s] = "done"]
  /\ ctx' = "cancelled"
  /\ UNCHANGED <<main, hasCancel, requested, sig, dead, signals, overrun, aroundVars>>

-----------------------------------------------------------------------------
(* OnStart: the HTTP server *)

\* ListenAndServe fails, at once or later; handlers in progress are left alone.
ListenFails ==
  /\ Alive
  /\ server = "listening"
  /\ server' = "failed"
  /\ unwaited' = unwaited \cup InProgress
  /\ UNCHANGED <<daemonVars, request, poller, call, promise, late>>

\* server.Shutdown closes the listener ...
Drain ==
  /\ Alive
  /\ server = "listening"
  /\ ctx = "cancelled"
  /\ server' = "draining"
  /\ UNCHANGED <<daemonVars, request, poller, call, promise, unwaited, late>>

\* Closing the server without waiting.
BugClose == TRUE

Drained == InProgress = {}

\* ... and waits for the requests in progress ...
DrainEnds ==
  /\ Alive
  /\ server = "draining"
  /\ Drained
  /\ server' = "returned"
  /\ UNCHANGED <<daemonVars, request, poller, call, promise, unwaited, late>>

\* ... for five seconds.
DrainTimeout ==
  /\ Alive
  /\ server = "draining"
  /\ InProgress # {}
  /\ server' = "returned"
  /\ unwaited' = unwaited \cup InProgress
  /\ UNCHANGED <<daemonVars, request, poller, call, promise, late>>

-----------------------------------------------------------------------------
(* Requests and their promises *)

Accept(r) ==
  /\ server = "listening"
  /\ request[r] = "none"
  /\ request' = [request EXCEPT ![r] = "handled"]

ClientPosts(r) ==
  /\ Alive
  /\ Accept(r)
  /\ UNCHANGED <<daemonVars, server, poller, call, promise, unwaited, late>>

\* handleAnalyze hands a promise to the grace period.
Promise(r) ==
  /\ Alive
  /\ request[r] = "handled"
  /\ promise[r] = "none"
  /\ promise' = [promise EXCEPT ![r] = "waiting"]
  /\ late' = IF main = "stopped" THEN late \cup {r} ELSE late
  /\ UNCHANGED <<daemonVars, server, request, poller, call, unwaited>>

\* Waiting on for an answer that came.
BugStillWaiting(r) == call

CallAfter(r) == call \ {r}

Respond(r) ==
  /\ Alive
  /\ request[r] = "handled"
  /\ request' = [request EXCEPT ![r] = "done"]
  /\ call' = CallAfter(r)
  /\ UNCHANGED <<daemonVars, server, poller, promise, unwaited, late>>

\* The grace period ends: the promise is verified and called back.
Fire(r) ==
  /\ Alive
  /\ promise[r] = "waiting"
  /\ promise' = [promise EXCEPT ![r] = "fired"]
  /\ UNCHANGED <<daemonVars, server, request, poller, call, unwaited, late>>

-----------------------------------------------------------------------------
(* The poller *)

\* A scan posts a message, and waits for the answer ...
PollerPosts(r) ==
  /\ Alive
  /\ poller = "scanning" /\ call = {}
  /\ Accept(r)
  /\ call' = {r}
  /\ UNCHANGED <<daemonVars, server, poller, promise, unwaited, late>>

\* ... for three seconds.
PollerGivesUp ==
  /\ Alive
  /\ call # {}
  /\ call' = {}
  /\ UNCHANGED <<daemonVars, server, request, poller, promise, unwaited, late>>

PollerScans ==
  /\ Alive
  /\ \/ poller = "idle" /\ poller' = "scanning"
     \/ poller = "scanning" /\ call = {} /\ poller' = "idle"
  /\ UNCHANGED <<daemonVars, server, request, call, promise, unwaited, late>>

PollerExits ==
  /\ Alive
  /\ poller = "idle"
  /\ main = "stop poller"
  /\ poller' = "exited"
  /\ UNCHANGED <<daemonVars, server, request, call, promise, unwaited, late>>

-----------------------------------------------------------------------------
Run == RunRegister \/ RunStart \/ RunWait \/ RunTimeout \/ RunCleanup \/ StopPoller
       \/ StopGrace \/ ExitProcess

OnStart == ListenFails \/ Drain \/ DrainEnds \/ DrainTimeout

Handler(r) == Promise(r) \/ Respond(r)

Poller == (\E r \in Requests : PollerPosts(r)) \/ PollerGivesUp \/ PollerScans \/ PollerExits

Next ==
  \/ Run \/ Signal \/ Watch \/ OnStart \/ Poller
  \/ \E s \in Shutdowns : ShutdownAsk(s) \/ ShutdownCancel(s)
  \/ \E r \in Requests : ClientPosts(r) \/ Handler(r) \/ Fire(r)

Spec == Init /\ [][Next]_vars

\* The goroutines run on and timeouts end; select does not pass the closed stopCh
\* over for ever. Handlers may take as long as they like.
Fairness ==
  /\ WF_vars(Run)
  /\ WF_vars(Watch)
  /\ WF_vars(Drain \/ DrainEnds \/ DrainTimeout)
  /\ WF_vars(PollerGivesUp)
  /\ WF_vars(PollerScans)
  /\ SF_vars(PollerExits)
  /\ \A s \in Shutdowns : WF_vars(ShutdownCancel(s))

FairSpec == Spec /\ Fairness

-----------------------------------------------------------------------------
TypeOK ==
  /\ main \in MainStages /\ ctx \in {"none", "live", "cancelled"}
  /\ hasCancel \in BOOLEAN /\ requested \in BOOLEAN /\ dead \in BOOLEAN
  /\ overrun \in BOOLEAN
  /\ sig \in {"default", "caught", "queued", "restored"}
  /\ shut \in [Shutdowns -> {"idle", "asked", "done"}]
  /\ server \in {"none", "listening", "draining", "returned", "failed"}
  /\ request \in [Requests -> {"none", "handled", "done"}]
  /\ poller \in {"idle", "scanning", "exited"}
  /\ call \in SUBSET Requests /\ call \subseteq InProgress
  /\ promise \in [Requests -> {"none", "waiting", "fired", "withdrawn"}]
  /\ signals \in 0..MaxSignals
  /\ unwaited \in SUBSET Requests /\ late \in SUBSET Requests

\* A promise comes too late for gracePeriod.Stop, and is lost with the process, only
\* if its request outlasted the drain or the failure of the server, or Run did not
\* wait for OnStart: else OnStop runs when all requests are through (serve.go:336-368).
LateOnlyIfUnwaited == overrun \/ late \subseteq unwaited

\* Once signals are caught, one kills the process only if it is shutting down
\* already: the first of all is always graceful (daemon.go:82-93).
FirstSignalIsGraceful ==
  dead => main \in {"new", "armed"} \/ ctx = "cancelled"

\* A Shutdown before, at the start of or during Run, a signal, or a server that
\* fails ends the process, whatever handlers do (daemon.go:61-74, 128-139, 142-151).
Asked == ctx = "cancelled" \/ server = "failed" \/ \E s \in Shutdowns : shut[s] = "done"

EventuallyEnds == Asked ~> ~Alive
=============================================================================
