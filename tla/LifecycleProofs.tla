--------------------------- MODULE LifecycleProofs ---------------------------
(***************************************************************************)
(* Theorems about module Lifecycle, for any set of requests and Shutdown     *)
(* calls and any number of signals.                                         *)
(***************************************************************************)
EXTENDS Lifecycle, TLAPS

Stopping == {"cleanup", "stop poller", "stop grace", "stopped", "returned"}

\* OnStop runs after OnStart returned, unless Run gave up waiting for it.
OrderInv == main \in Stopping => overrun \/ ServerReturned

\* Requests that go on when OnStart has returned are those it did not wait for.
DrainInv == ServerReturned => InProgress \subseteq unwaited

\* Signals are left to the runtime before Run catches them, and again only after the
\* context was cancelled.
SignalInv ==
  /\ sig = "default" <=> main \in {"new", "armed"}
  /\ sig = "restored" => ctx = "cancelled"

Inv == OrderInv /\ DrainInv /\ SignalInv /\ LateOnlyIfUnwaited /\ FirstSignalIsGraceful

\* The types but for the requests and the poller's, ...
DaemonTypes ==
  /\ main \in MainStages /\ ctx \in {"none", "live", "cancelled"}
  /\ hasCancel \in BOOLEAN /\ requested \in BOOLEAN /\ dead \in BOOLEAN
  /\ overrun \in BOOLEAN
  /\ sig \in {"default", "caught", "queued", "restored"}
  /\ shut \in [Shutdowns -> {"idle", "asked", "done"}]
  /\ signals \in 0..MaxSignals

\* ... and these.
AroundTypes ==
  /\ server \in {"none", "listening", "draining", "returned", "failed"}
  /\ request \in [Requests -> {"none", "handled", "done"}]
  /\ poller \in {"idle", "scanning", "exited"}
  /\ promise \in [Requests -> {"none", "waiting", "fired", "withdrawn"}]
  /\ unwaited \in SUBSET Requests /\ late \in SUBSET Requests

\* The poller waits for requests that are in progress.
CallInv == \A r \in call : r \in Requests /\ request[r] = "handled"

LEMMA TypeParts == TypeOK <=> DaemonTypes /\ AroundTypes /\ CallInv
<1>1. CallInv <=> call \in SUBSET Requests /\ call \subseteq InProgress
  BY DEF CallInv, InProgress
<1> QED BY <1>1 DEF TypeOK, DaemonTypes, AroundTypes

LEMMA TypePartsNext == TypeOK' <=> DaemonTypes' /\ AroundTypes' /\ CallInv'
<1>1. CallInv' <=> call' \in SUBSET Requests /\ call' \subseteq InProgress'
  BY DEF CallInv, InProgress
<1> QED BY <1>1 DEF TypeOK, DaemonTypes, AroundTypes

LEMMA SignalEffect ==
  ASSUME Signal
  PROVE  /\ Alive /\ signals < MaxSignals /\ signals' = signals + 1
         /\ dead' \in BOOLEAN
         /\ dead' => sig \in {"default", "restored"}
         /\ sig' = IF sig = "caught" THEN "queued" ELSE sig
         /\ UNCHANGED <<main, ctx, hasCancel, requested, shut, overrun, aroundVars>>
<1>1. dead' = (sig \in {"default", "restored"}) BY DEF Signal
<1>2. CASE sig \in {"default", "restored"} BY <1>1, <1>2, Zenon DEF Signal
<1>3. CASE sig \notin {"default", "restored"}
  <2>1. (sig \in {"default", "restored"}) = FALSE BY <1>3
  <2>2. dead' = FALSE BY <1>1, <2>1, Zenon
  <2>3. dead' \in BOOLEAN BY <2>2
  <2> QED BY <2>2, <2>3, Zenon DEF Signal
<1> QED BY <1>2, <1>3

LEMMA CountStep ==
  ASSUME MaxSignals \in Nat, signals \in 0..MaxSignals, signals < MaxSignals, signals' = signals + 1
  PROVE  signals' \in 0..MaxSignals
OBVIOUS

LEMMA DaemonStep == DaemonTypes /\ [Next]_vars => DaemonTypes'
<1> SUFFICES ASSUME DaemonTypes, [Next]_vars PROVE DaemonTypes'
  OBVIOUS
<1> USE LifecycleAssumption DEF DaemonTypes, MainStages, daemonVars
<1>1. CASE RunRegister BY <1>1 DEF RunRegister, FirstCtx
<1>2. CASE RunStart BY <1>2 DEF RunStart
<1>3. CASE RunWait \/ RunTimeout BY <1>3 DEF RunWait, RunTimeout
<1>4. CASE RunCleanup BY <1>4 DEF RunCleanup
<1>5. CASE StopPoller \/ StopGrace \/ ExitProcess
  BY <1>5 DEF StopPoller, StopGrace, ExitProcess
<1>6. CASE Signal
  <2>1. signals \in 0..MaxSignals /\ signals < MaxSignals /\ signals' = signals + 1
    BY <1>6, SignalEffect, Zenon
  <2>2. signals' \in 0..MaxSignals BY <2>1, CountStep
  <2> QED BY <1>6, <2>2, SignalEffect
<1>7. CASE Watch BY <1>7 DEF Watch, CtxAfterWatch
<1>8. ASSUME NEW s \in Shutdowns, ShutdownAsk(s) \/ ShutdownCancel(s) PROVE DaemonTypes'
  BY <1>8 DEF ShutdownAsk, ShutdownCancel
<1>9. CASE UNCHANGED daemonVars BY <1>9
<1>10. OnStart \/ Poller \/ (\E r \in Requests : ClientPosts(r) \/ Handler(r) \/ Fire(r))
         => UNCHANGED daemonVars
  BY DEF OnStart, ListenFails, Drain, DrainEnds, DrainTimeout, Poller, PollerPosts, PollerGivesUp,
         PollerScans, PollerExits, ClientPosts, Handler, Promise, Respond, Fire
<1> QED
  BY <1>1, <1>2, <1>3, <1>4, <1>5, <1>6, <1>7, <1>8, <1>9, <1>10 DEF Next, Run, vars

LEMMA AroundStep == AroundTypes /\ CallInv /\ [Next]_vars => AroundTypes' /\ CallInv'
<1> SUFFICES ASSUME AroundTypes, CallInv, [Next]_vars PROVE AroundTypes' /\ CallInv'
  OBVIOUS
<1> USE DEF AroundTypes, CallInv, aroundVars
<1>1. CASE UNCHANGED aroundVars BY <1>1
<1>2. CASE RunStart BY <1>2 DEF RunStart
<1>3. CASE StopGrace BY <1>3 DEF StopGrace
<1>4. CASE OnStart
  <2>1. InProgress \subseteq Requests BY DEF InProgress
  <2> QED BY <1>4, <2>1 DEF OnStart, ListenFails, Drain, DrainEnds, DrainTimeout
<1>5. ASSUME NEW r \in Requests, ClientPosts(r) PROVE AroundTypes' /\ CallInv'
  BY <1>5 DEF ClientPosts, Accept
<1>6. ASSUME NEW r \in Requests, Promise(r) PROVE AroundTypes' /\ CallInv'
  BY <1>6 DEF Promise
<1>7. ASSUME NEW r \in Requests, Respond(r) PROVE AroundTypes' /\ CallInv'
  BY <1>7 DEF Respond, CallAfter
<1>8. ASSUME NEW r \in Requests, Fire(r) PROVE AroundTypes' /\ CallInv'
  BY <1>8 DEF Fire
<1>9. ASSUME NEW r \in Requests, PollerPosts(r) PROVE AroundTypes' /\ CallInv'
  BY <1>9 DEF PollerPosts, Accept
<1>10. CASE PollerGivesUp BY <1>10 DEF PollerGivesUp
<1>11. CASE PollerScans \/ PollerExits BY <1>11 DEF PollerScans, PollerExits
<1>12. RunRegister \/ RunWait \/ RunTimeout \/ RunCleanup \/ StopPoller \/ ExitProcess \/ Signal \/ Watch
         \/ (\E s \in Shutdowns : ShutdownAsk(s) \/ ShutdownCancel(s)) => UNCHANGED aroundVars
  BY DEF RunRegister, RunWait, RunTimeout, RunCleanup, StopPoller, ExitProcess, Signal, Watch,
         ShutdownAsk, ShutdownCancel
<1> QED
  BY <1>1, <1>2, <1>3, <1>4, <1>5, <1>6, <1>7, <1>8, <1>9, <1>10, <1>11, <1>12
     DEF Next, Run, Poller, Handler, vars

\* The variables of the process keep their types (daemon.go:62-139, serve.go:340-373).
THEOREM TypeCorrect == Spec => []TypeOK
<1>1. Init => DaemonTypes
  <2>1. 0 \in 0..MaxSignals BY LifecycleAssumption DEF LifecycleAssumption
  <2>2. [s \in Shutdowns |-> "idle"] \in [Shutdowns -> {"idle", "asked", "done"}] OBVIOUS
  <2> QED BY <2>1, <2>2, Zenon DEF Init, DaemonTypes, MainStages
<1>2. Init => AroundTypes /\ CallInv
  BY DEF Init, AroundTypes, CallInv
<1>3. TypeOK /\ [Next]_vars => TypeOK'
  BY DaemonStep, AroundStep, TypeParts, TypePartsNext
<1> QED BY <1>1, <1>2, <1>3, TypeParts, PTL DEF Spec

LEMMA InvInit == Init => Inv
BY DEF Init, Inv, OrderInv, DrainInv, SignalInv, LateOnlyIfUnwaited, FirstSignalIsGraceful,
       Stopping, ServerReturned

LEMMA InvStep == TypeOK /\ Inv /\ [Next]_vars => Inv'
<1> SUFFICES ASSUME TypeOK, Inv, [Next]_vars PROVE Inv'
  OBVIOUS
<1> USE DEF Inv, OrderInv, DrainInv, SignalInv, LateOnlyIfUnwaited, FirstSignalIsGraceful,
            Stopping, ServerReturned, InProgress, Alive, aroundVars, daemonVars
<1>1. CASE RunRegister BY <1>1 DEF RunRegister, FirstCtx
<1>2. CASE RunStart BY <1>2 DEF RunStart
<1>3. CASE RunWait BY <1>3 DEF RunWait
<1>4. CASE RunTimeout BY <1>4 DEF RunTimeout
<1>5. CASE RunCleanup BY <1>5 DEF RunCleanup
<1>6. CASE StopPoller BY <1>6 DEF StopPoller
<1>7. CASE StopGrace BY <1>7 DEF StopGrace
<1>8. CASE ExitProcess BY <1>8 DEF ExitProcess
<1>9. CASE Signal BY <1>9, SignalEffect
<1>10. CASE Watch BY <1>10 DEF Watch, CtxAfterWatch
<1>11. CASE OnStart
  <2>1. CASE ListenFails BY <2>1 DEF ListenFails
  <2>2. CASE Drain BY <2>2 DEF Drain
  <2>3. CASE DrainEnds BY <2>3 DEF DrainEnds, Drained
  <2>4. CASE DrainTimeout BY <2>4 DEF DrainTimeout
  <2> QED BY <1>11, <2>1, <2>2, <2>3, <2>4 DEF OnStart
<1>12. ASSUME NEW s \in Shutdowns, ShutdownAsk(s) \/ ShutdownCancel(s) PROVE Inv'
  <2>1. CASE ShutdownAsk(s) BY <2>1 DEF ShutdownAsk
  <2>2. CASE ShutdownCancel(s) BY <2>2 DEF ShutdownCancel
  <2> QED BY <1>12, <2>1, <2>2
<1>13. ASSUME NEW r \in Requests, ClientPosts(r) \/ PollerPosts(r) PROVE Inv'
  <2>1. CASE ClientPosts(r) BY <2>1 DEF ClientPosts, Accept
  <2>2. CASE PollerPosts(r) BY <2>2 DEF PollerPosts, Accept
  <2> QED BY <1>13, <2>1, <2>2
\* A promise that comes too late belongs to a request that goes on after OnStart.
<1>14. ASSUME NEW r \in Requests, Promise(r) PROVE Inv'
  <2>1. main = "stopped" => overrun \/ r \in unwaited BY <1>14 DEF Promise
  <2>2. LateOnlyIfUnwaited' BY <1>14, <2>1 DEF Promise
  <2> QED BY <1>14, <2>2 DEF Promise
<1>15. ASSUME NEW r \in Requests, Respond(r) PROVE Inv'
  <2>1. \A q \in Requests : request'[q] = "handled" => request[q] = "handled"
    BY <1>15 DEF Respond, TypeOK
  <2> QED BY <1>15, <2>1 DEF Respond
<1>16. ASSUME NEW r \in Requests, Fire(r) PROVE Inv'
  BY <1>16 DEF Fire
<1>17. CASE PollerGivesUp \/ PollerScans \/ PollerExits
  <2>1. CASE PollerGivesUp BY <2>1 DEF PollerGivesUp
  <2>2. CASE PollerScans BY <2>2 DEF PollerScans
  <2>3. CASE PollerExits BY <2>3 DEF PollerExits
  <2> QED BY <1>17, <2>1, <2>2, <2>3
<1>18. CASE UNCHANGED vars BY <1>18 DEF vars
<1> QED
  BY <1>1, <1>2, <1>3, <1>4, <1>5, <1>6, <1>7, <1>8, <1>9, <1>10, <1>11, <1>12, <1>13, <1>14,
     <1>15, <1>16, <1>17, <1>18 DEF Next, Run, Poller, Handler

LEMMA InvAlways == Spec => []Inv
BY InvInit, InvStep, TypeCorrect, PTL DEF Spec

\* A promise is lost with the process only if its request was not waited for
\* (serve.go:336-368).
THEOREM LostOnlyIfUnwaited == Spec => []LateOnlyIfUnwaited
<1>1. Inv => LateOnlyIfUnwaited BY DEF Inv
<1> QED BY <1>1, InvAlways, PTL

\* The first signal that Run catches never kills the process (daemon.go:76-87).
THEOREM SignalsAreGraceful == Spec => []FirstSignalIsGraceful
<1>1. Inv => FirstSignalIsGraceful BY DEF Inv
<1> QED BY <1>1, InvAlways, PTL
=============================================================================
