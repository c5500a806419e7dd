-------------------------------- MODULE Grace --------------------------------
(***************************************************************************)
(* The grace period scheduler, pkg/grace/grace.go: a map of pending         *)
(* verifications under one mutex, one timer per Schedule call, and Cancel   *)
(* and Stop racing with the timers.                                         *)
(*                                                                          *)
(* A lock section is one action. Everything the code does outside the lock  *)
(* is separate: starting the timer and storing it in the entry (line 67),   *)
(* each stage of the timer's function, and the close-and-stop half of       *)
(* Cancel and of Stop. An entry is identified with the Schedule call that   *)
(* made it; its key in the map is IdOf[s], and two calls may share a key.   *)
(***************************************************************************)
EXTENDS Naturals, FiniteSets

CONSTANTS Calls,     \* the Schedule calls of one run of the process
          Ids,       \* commitment ids
          IdOf,      \* the id each call is made with
          Cancels,   \* the Cancel calls
          CancelId,  \* the id each Cancel call is made with
          None       \* "no entry under this id"

ASSUME GraceAssumption ==
  /\ IdOf \in [Calls -> Ids]
  /\ CancelId \in [Cancels -> Ids]
  /\ None \notin Calls

VARIABLES
  pending,   \* gp.pending
  abandoned, \* TRUE once a panic between Lock and Unlock was recovered by the
             \* caller: gp.mu stays locked for ever
  sched,     \* how far each Schedule call is
  timer,     \* the runtime timer of each entry
  closes,    \* how many times each entry's cancelCh was closed
  fire,      \* how far each entry's timer function is
  outcome,   \* what each entry's verification concluded
  cancel,    \* how far each Cancel call is
  held,      \* the entry a Cancel call took out and has not closed yet
  stop,      \* how far Stop is
  toClose,   \* the entries Stop took out and has not closed yet
  atStop     \* history: the calls registered when Stop emptied the map

vars == <<pending, abandoned, sched, timer, closes, fire, outcome,
          cancel, held, stop, toClose, atStop>>

scheduleVars == <<sched, timer>>
runVars      == <<fire, outcome>>
cancelVars   == <<cancel, held>>
stopVars     == <<stop, toClose, atStop>>

(* A definition called Bug... is a seeded fault in the one after it: what a   *)
(* plausible mistake there would be. Nothing uses it; PROJECT.json names the  *)
(* property that notices it.                                                  *)

\* Iterating over nil entries; replacing the map before copying it.
BugNilEntries == {pending[i] : i \in Ids}
BugMapReplacedFirst == {}

\* The entries of the map, as Stop copies them.
Entries == {pending[i] : i \in Ids} \ {None}

\* The entry under an id, as a set: empty when there is none.
Found(id) == {pending[id]} \ {None}

\* A Schedule call that put its entry in the map.
Registered(s) == sched[s] \in {"registered", "started", "returned"}

\* entry.timer is written after the lock is released and may still be nil.
HasTimer(e) == sched[e] = "returned"

Cancelled(s) == closes[s] > 0

\* Stop runs in the daemon's OnStop, where a panic ends the process.
Alive == stop # "panicked"

Init ==
  /\ pending   = [i \in Ids |-> None]
  /\ abandoned = FALSE
  /\ sched     = [s \in Calls |-> "idle"]
  /\ timer     = [s \in Calls |-> "none"]
  /\ closes    = [s \in Calls |-> 0]
  /\ fire      = [s \in Calls |-> "idle"]
  /\ outcome   = [s \in Calls |-> "none"]
  /\ cancel    = [c \in Cancels |-> "idle"]
  /\ held      = [c \in Cancels |-> {}]
  /\ stop      = "idle"
  /\ toClose   = {}
  /\ atStop    = {}

-----------------------------------------------------------------------------
\* Stopping only the timer: a function that already fired runs on.
BugTimerOnly(e) == closes' = closes

\* close(entry.cancelCh); a second close of the same channel would panic.
CloseEntry(e) == closes' = [closes EXCEPT ![e] = @ + 1]

\* entry.timer.Stop(): no effect on a timer that fired, none if it is nil.
StopTimer(e) ==
  timer' = [timer EXCEPT ![e] = IF HasTimer(e) /\ @ = "running" THEN "stopped" ELSE @]

\* Cancelling without forgetting.
BugKeep(id) == pending' = pending

\* delete(gp.pending, id), whatever entry is there by now.
Delete(id) == pending' = [pending EXCEPT ![id] = None]

-----------------------------------------------------------------------------
(* Schedule *)

\* The id is free.
RegisterFresh(s) ==
  /\ Alive /\ ~abandoned
  /\ sched[s] = "idle"
  /\ Found(IdOf[s]) = {}
  /\ pending' = [pending EXCEPT ![IdOf[s]] = s]
  /\ sched' = [sched EXCEPT ![s] = "registered"]
  /\ UNCHANGED <<abandoned, timer, closes, runVars, cancelVars, stopVars>>

\* An older entry is pending under the id: it is cancelled and replaced.
RegisterOver(s) ==
  /\ Alive /\ ~abandoned
  /\ sched[s] = "idle"
  /\ \E old \in Found(IdOf[s]) :
       /\ HasTimer(old)
       /\ CloseEntry(old)
       /\ StopTimer(old)
  /\ pending' = [pending EXCEPT ![IdOf[s]] = s]
  /\ sched' = [sched EXCEPT ![s] = "registered"]
  /\ UNCHANGED <<abandoned, runVars, cancelVars, stopVars>>

\* The older entry's timer is still nil: old.timer.Stop() panics inside the
\* lock section, and net/http recovers the panic of the handler.
RegisterPanic(s) ==
  /\ Alive /\ ~abandoned
  /\ sched[s] = "idle"
  /\ \E old \in Found(IdOf[s]) : ~HasTimer(old) /\ CloseEntry(old)
  /\ abandoned' = TRUE
  /\ sched' = [sched EXCEPT ![s] = "panicked"]
  /\ UNCHANGED <<pending, timer, runVars, cancelVars, stopVars>>

\* time.AfterFunc starts the timer ...
StartTimer(s) ==
  /\ Alive
  /\ sched[s] = "registered"
  /\ sched' = [sched EXCEPT ![s] = "started"]
  /\ timer' = [timer EXCEPT ![s] = "running"]
  /\ UNCHANGED <<pending, abandoned, closes, runVars, cancelVars, stopVars>>

\* ... and its result is stored in the entry. Schedule returns.
AssignTimer(s) ==
  /\ Alive
  /\ sched[s] = "started"
  /\ sched' = [sched EXCEPT ![s] = "returned"]
  /\ UNCHANGED <<pending, abandoned, timer, closes, runVars, cancelVars, stopVars>>

-----------------------------------------------------------------------------
(* The timer function of the entry of s *)

Fire(s) ==
  /\ Alive
  /\ timer[s] = "running"
  /\ timer' = [timer EXCEPT ![s] = "fired"]
  /\ fire' = [fire EXCEPT ![s] = "begun"]
  /\ UNCHANGED <<pending, abandoned, sched, closes, outcome, cancelVars, stopVars>>

\* Relying on timer.Stop alone.
BugNoLook(s) == "verifying"

\* The only look at cancelCh: later cancellations go unnoticed.
Look(s) == IF Cancelled(s) THEN "skipped" ELSE "verifying"

CheckCancel(s) ==
  /\ Alive
  /\ fire[s] = "begun"
  /\ fire' = [fire EXCEPT ![s] = Look(s)]
  /\ UNCHANGED <<pending, abandoned, scheduleVars, closes, outcome, cancelVars, stopVars>>

Results == {"backed", "unbacked", "error", "nil"}

\* Returning early when the verifier fails.
BugErrorReturns(s, r) ==
  /\ Alive
  /\ fire[s] = "verifying"
  /\ outcome' = [outcome EXCEPT ![s] = IF r = "backed" THEN "backed" ELSE "unbacked"]
  /\ fire' = [fire EXCEPT ![s] = IF r = "error" THEN "skipped" ELSE "verified"]
  /\ UNCHANGED <<pending, abandoned, scheduleVars, closes, cancelVars, stopVars>>

\* verifyFn returns; an error and a nil outcome both count as unbacked.

Verify(s, r) ==
  /\ Alive
  /\ fire[s] = "verifying"
  /\ outcome' = [outcome EXCEPT ![s] = IF r = "backed" THEN "backed" ELSE "unbacked"]
  /\ fire' = [fire EXCEPT ![s] = "verified"]
  /\ UNCHANGED <<pending, abandoned, scheduleVars, closes, cancelVars, stopVars>>

Remove(s) ==
  /\ Alive /\ ~abandoned
  /\ fire[s] = "verified"
  /\ Delete(IdOf[s])
  /\ fire' = [fire EXCEPT ![s] = "removed"]
  /\ UNCHANGED <<abandoned, scheduleVars, closes, outcome, cancelVars, stopVars>>

Callback(s) ==
  /\ Alive
  /\ fire[s] = "removed"
  /\ fire' = [fire EXCEPT ![s] = "called"]
  /\ UNCHANGED <<pending, abandoned, scheduleVars, closes, outcome, cancelVars, stopVars>>

-----------------------------------------------------------------------------
(* Cancel *)

CancelTake(c) ==
  /\ Alive /\ ~abandoned
  /\ cancel[c] = "idle"
  /\ held' = [held EXCEPT ![c] = Found(CancelId[c])]
  /\ cancel' = [cancel EXCEPT ![c] = IF Found(CancelId[c]) = {} THEN "false" ELSE "took"]
  /\ Delete(CancelId[c])
  /\ UNCHANGED <<abandoned, scheduleVars, closes, runVars, stopVars>>

\* A nil timer panics in the caller, after the channel was closed.
CancelClose(c) ==
  /\ Alive
  /\ \E e \in held[c] :
       /\ CloseEntry(e)
       /\ StopTimer(e)
       /\ cancel' = [cancel EXCEPT ![c] = IF HasTimer(e) THEN "true" ELSE "panicked"]
  /\ held' = [held EXCEPT ![c] = {}]
  /\ UNCHANGED <<pending, abandoned, sched, runVars, stopVars>>

-----------------------------------------------------------------------------
(* Stop *)

StopTake ==
  /\ Alive /\ ~abandoned
  /\ stop = "idle"
  /\ stop' = "closing"
  /\ toClose' = Entries
  /\ pending' = [i \in Ids |-> None]
  /\ atStop' = {s \in Calls : Registered(s)}
  /\ UNCHANGED <<abandoned, scheduleVars, closes, runVars, cancelVars>>

StopClose(e) ==
  /\ stop = "closing"
  /\ e \in toClose
  /\ CloseEntry(e)
  /\ StopTimer(e)
  /\ toClose' = toClose \ {e}
  /\ stop' = IF HasTimer(e) THEN stop ELSE "panicked"
  /\ UNCHANGED <<pending, abandoned, sched, runVars, cancelVars, atStop>>

StopReturn ==
  /\ stop = "closing"
  /\ toClose = {}
  /\ stop' = "done"
  /\ UNCHANGED <<pending, abandoned, scheduleVars, closes, runVars, cancelVars, toClose, atStop>>

-----------------------------------------------------------------------------
Schedule(s) ==
  RegisterFresh(s) \/ RegisterOver(s) \/ RegisterPanic(s) \/ StartTimer(s) \/ AssignTimer(s)

TimerFunction(s) ==
  \/ Fire(s) \/ CheckCancel(s)
  \/ \E r \in Results : Verify(s, r)
  \/ Remove(s) \/ Callback(s)

Cancel(c) == CancelTake(c) \/ CancelClose(c)

Stop == StopTake \/ (\E e \in Calls : StopClose(e)) \/ StopReturn

Next ==
  \/ \E s \in Calls : Schedule(s) \/ TimerFunction(s)
  \/ \E c \in Cancels : Cancel(c)
  \/ Stop

Spec == Init /\ [][Next]_vars

\* A call that has begun is run on by the Go runtime, an armed timer expires,
\* and the verifier returns: its commands and requests all have timeouts.
\* Nobody has to make a call.
Fairness ==
  \A s \in Calls :
    /\ WF_vars(StartTimer(s) \/ AssignTimer(s))
    /\ WF_vars(TimerFunction(s))

FairSpec == Spec /\ Fairness

-----------------------------------------------------------------------------
TypeOK ==
  /\ pending \in [Ids -> Calls \cup {None}]
  /\ abandoned \in BOOLEAN
  /\ sched \in [Calls -> {"idle", "registered", "started", "returned", "panicked"}]
  /\ timer \in [Calls -> {"none", "running", "fired", "stopped"}]
  /\ closes \in [Calls -> Nat]
  /\ fire \in [Calls -> {"idle", "begun", "verifying", "verified", "removed",
                         "called", "skipped"}]
  /\ outcome \in [Calls -> {"none", "backed", "unbacked"}]
  /\ cancel \in [Cancels -> {"idle", "took", "true", "false", "panicked"}]
  /\ held \in [Cancels -> SUBSET Calls]
  /\ stop \in {"idle", "closing", "done", "panicked"}
  /\ toClose \in SUBSET Calls
  /\ atStop \in SUBSET Calls

\* Schedule, Cancel, Stop and a fourth party, the timer's own delete, all take
\* entries out of the map, and only the taker may close: no interleaving of
\* them closes one cancelCh twice, which would panic (grace.go:61,121,137).
ClosedAtMostOnce == \A s \in Calls : closes[s] <= 1

\* Ids as the API makes them when no two commitments of a session are analyzed
\* in the same nanosecond.
UniqueIds == \A s, t \in Calls : IdOf[s] = IdOf[t] => s = t

\* With unique ids a verification that is neither cancelled nor delivered can
\* still be cancelled: somebody holds its entry (grace.go:59-65, 98-100, 110-115).
Reachable(s) ==
  \/ pending[IdOf[s]] = s
  \/ \E c \in Cancels : s \in held[c]
  \/ s \in toClose

NoOrphan ==
  UniqueIds =>
    \A s \in Calls :
      (Registered(s) /\ ~Cancelled(s) /\ fire[s] \notin {"removed", "called"}) => Reachable(s)

\* Stop cancels all pending verifications (grace.go:126): once it returned, no
\* verification that was registered before it starts, except one that a
\* concurrent Cancel took away from it and has not closed yet.
QuietAfterStop ==
  \A s \in atStop :
    (/\ stop = "done"
     /\ fire[s] = "begun" /\ fire'[s] # "begun"
     /\ \A c \in Cancels : s \notin held[c])
      => fire'[s] = "skipped"

StopCancelsAll == [][QuietAfterStop]_vars

\* Every registered verification is reported to its callback, unless it was
\* cancelled or the process died in Stop; needs unique ids, for which no
\* Schedule call can panic holding the lock.
EventuallyReported ==
  \A s \in Calls :
    Registered(s) ~> (fire[s] = "called" \/ Cancelled(s) \/ ~Alive)

-----------------------------------------------------------------------------
\* What the scheduler promises, seen through the map and the timers: an entry
\* is withdrawn when its channel is closed before its function looked at it.
StatusOf(s) ==
  CASE fire[s] = "called" -> "delivered"
    [] fire[s] \in {"verifying", "verified", "removed"} -> "verifying"
    [] fire[s] \in {"idle", "begun", "skipped"} /\ Cancelled(s) -> "withdrawn"
    [] fire[s] \in {"idle", "begun", "skipped"} /\ ~Cancelled(s) ->
         IF Registered(s) THEN "waiting" ELSE "new"

statusOf == [s \in Calls |-> StatusOf(s)]

Contract == INSTANCE GraceContract WITH status <- statusOf

\* The scheduler implements its contract: a verification cancelled in time never
\* runs, and every other one is delivered at most once, with the outcome it
\* concluded, also when ids collide.
ImplementsContract == Contract!ContractSpec
=============================================================================
