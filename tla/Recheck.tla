------------------------------- MODULE Recheck -------------------------------
(***************************************************************************)
(* The periodic re-check of open beads: pkg/recheck's loop with the fetch,  *)
(* verify, update and alert functions that serve.go gives it. The loop works *)
(* on a list it took at the start of a cycle while the API, the br command   *)
(* and the grace period go on opening and closing beads, and its alert       *)
(* counts live in memory only.                                               *)
(***************************************************************************)
EXTENDS Integers, FiniteSets, BeadStore

CONSTANTS MaxAlerts,   \* general.max_alerts, zero replaced by the default
          AutoExpire,  \* storage.auto_expire_hours > 0
          MaxRestarts, \* bound: how often the process dies
          NoticeCap    \* bound: how far the notices of a bead are counted

ASSUME RecheckAssumption ==
  /\ MaxAlerts \in Nat \ {0}
  /\ AutoExpire \in BOOLEAN
  /\ MaxRestarts \in Nat /\ NoticeCap \in Nat

VARIABLES
  old,         \* beads whose expiry time has passed
  alertCounts, \* serve.go's map; an absent key counts as 0
  pc,          \* where the loop is: see Stages
  todo,        \* the listed beads this cycle has not reached
  cur,         \* the bead in hand, as a set of at most one
  seenCount,   \* AlertCount of each listed bead, as of the listing
  seenOld,     \* the listed beads that were expired at the start of the cycle
  stopped,     \* Rechecker.Stop was called
  restarts,
  alerts,      \* history: alerts sent for each bead by this process
  lateAlerts,  \* history: alerts sent for each bead when it was closed
  notified,    \* history: resolution notices sent for each bead after a close
  reclosed,    \* history: beads closed once more with success
  presumed     \* history: a bead was announced although its close failed

loopVars    == <<pc, todo, cur, seenCount, seenOld>>
processVars == <<stopped, restarts, dryRun>>
historyVars == <<alerts, lateAlerts, notified, reclosed, presumed>>
vars == <<bead, old, alertCounts, loopVars, processVars, historyVars>>

Stages == {"idle", "cycle", "check", "expire", "resolve", "forget", "alert", "count", "exited"}

\* The process may find beads an earlier one left open.
Init ==
  /\ bead \in [Beads -> {"absent", "open"}]
  /\ dryRun \in BOOLEAN
  /\ old = {}
  /\ alertCounts = [b \in Beads |-> 0]
  /\ pc = "idle"
  /\ todo = {} /\ cur = {} /\ seenOld = {}
  /\ seenCount = [b \in Beads |-> 0]
  /\ stopped = FALSE
  /\ restarts = 0
  /\ alerts = [b \in Beads |-> 0]
  /\ lateAlerts = [b \in Beads |-> 0]
  /\ notified = [b \in Beads |-> 0]
  /\ reclosed = {}
  /\ presumed = FALSE

Bump(f, b) == [f EXCEPT ![b] = @ + 1]

CountNotice(f, b) == [f EXCEPT ![b] = IF @ < NoticeCap THEN @ + 1 ELSE @]

Announce(b) == notified' = CountNotice(notified, b)

\* A close of bead b that reports success: was there anything left to close?
NoteReclose(b, ok) ==
  reclosed' = IF ok /\ ~dryRun /\ bead[b] = "closed" THEN reclosed \cup {b} ELSE reclosed

-----------------------------------------------------------------------------
(* The loop *)

(* A definition called Bug... is a seeded fault in the one after it.          *)

\* Listing the beads whatever their status.
BugListAll == {b \in Beads : bead[b] # "absent"}

\* FetchFunc's list.
Listed == Open

\* Comparing the times the wrong way round.
BugYoung == Listed \ old

\* ExpiresAt is before the time at which the cycle started.
Expired == Listed \cap old

\* The ticker fires and RunOnce lists the open beads; a cycle whose listing
\* fails does nothing. A tick that is already due wins over Stop half the time.
Fetch ==
  /\ pc = "idle"
  /\ pc' = "cycle"
  /\ todo' = Listed
  /\ seenCount' = [b \in Beads |-> IF b \in Listed THEN alertCounts[b] ELSE 0]
  /\ seenOld' = Expired
  /\ UNCHANGED <<bead, old, alertCounts, cur, processVars, historyVars>>

\* The next listed bead: expired, or to be verified.
Take(b) ==
  /\ pc = "cycle"
  /\ b \in todo
  /\ todo' = todo \ {b}
  /\ cur' = {b}
  /\ seenOld' = seenOld \ {b}
  /\ pc' = IF b \in seenOld THEN "expire" ELSE "check"
  /\ UNCHANGED <<bead, old, alertCounts, seenCount, processVars, historyVars>>

\* Going on to the next one, the cycle forgets what it knew of this one.
Leave(b) ==
  IF pc' = "cycle"
  THEN cur' = {} /\ seenCount' = [seenCount EXCEPT ![b] = 0]
  ELSE UNCHANGED <<cur, seenCount>>

EndCycle ==
  /\ pc = "cycle"
  /\ todo = {}
  /\ pc' = "idle"
  /\ UNCHANGED <<bead, old, alertCounts, todo, cur, seenCount, seenOld, processVars, historyVars>>

BugOneMore(b) == seenCount[b] <= MaxAlerts

\* shouldAlert: decided by the count as it was listed.
MayAlert(b) == seenCount[b] < MaxAlerts

\* VerifyFunc: an error counts as unbacked.
Verified(b, backed) ==
  /\ pc = "check"
  /\ b \in cur
  /\ pc' = IF backed THEN "resolve" ELSE IF MayAlert(b) THEN "alert" ELSE "cycle"
  /\ Leave(b)
  /\ UNCHANGED <<bead, old, alertCounts, todo, seenOld, processVars,
                 historyVars>>

\* Going on as if the close had succeeded.
BugNotifyAnyway(ok) == IF dryRun THEN "cycle" ELSE "forget"

AfterClose(ok) == IF ok /\ ~dryRun THEN "forget" ELSE "cycle"

\* UpdateFunc for a backed or an expired bead closes it, whatever its status
\* is by now. A failure is reported and the cycle goes on.
CloseBead(b, ok) ==
  /\ pc \in {"expire", "resolve"}
  /\ b \in cur
  /\ Resolve(b, ok)
  /\ NoteReclose(b, ok)
  /\ pc' = AfterClose(ok)
  /\ Leave(b)
  /\ UNCHANGED <<old, alertCounts, todo, seenOld, processVars,
                 alerts, lateAlerts, notified, presumed>>

\* ... then its alert count is deleted and the resolution is announced.
Forget(b) ==
  /\ pc = "forget"
  /\ b \in cur
  /\ alertCounts' = [alertCounts EXCEPT ![b] = 0]
  /\ Announce(b)
  /\ pc' = "cycle"
  /\ Leave(b)
  /\ UNCHANGED <<bead, old, todo, seenOld, processVars,
                 alerts, lateAlerts, reclosed, presumed>>

\* Counting an alert that was not sent.
BugCountFailure(ok) == "count"

AfterAlert(ok) == IF ok THEN "count" ELSE "cycle"

\* AlertFunc: look the bead up, then send, without a look at its status. The
\* lookup may fail; a failing webhook or relay still counts as an alert.
Alert(b, ok) ==
  /\ pc = "alert"
  /\ b \in cur
  /\ IF ok /\ ~dryRun
       THEN /\ alerts' = Bump(alerts, b)
            /\ lateAlerts' = IF bead[b] = "closed" THEN Bump(lateAlerts, b) ELSE lateAlerts
       ELSE UNCHANGED <<alerts, lateAlerts>>
  /\ pc' = AfterAlert(ok)
  /\ Leave(b)
  /\ UNCHANGED <<bead, old, alertCounts, todo, seenOld, processVars,
                 notified, reclosed, presumed>>

\* UpdateFunc with IncrementAlert.
Count(b) ==
  /\ pc = "count"
  /\ b \in cur
  /\ alertCounts' = Bump(alertCounts, b)
  /\ pc' = "cycle"
  /\ Leave(b)
  /\ UNCHANGED <<bead, old, todo, seenOld, processVars, historyVars>>

Stop ==
  /\ ~stopped
  /\ stopped' = TRUE
  /\ UNCHANGED <<bead, dryRun, old, alertCounts, loopVars, restarts, historyVars>>

Exit ==
  /\ pc = "idle"
  /\ stopped
  /\ pc' = "exited"
  /\ UNCHANGED <<bead, old, alertCounts, todo, cur, seenCount, seenOld, processVars, historyVars>>

-----------------------------------------------------------------------------
(* Everything around the loop *)

\* The grace period's callback, or a user, opens a bead.
OpenBead(b) ==
  /\ bead[b] = "absent"
  /\ bead' = [bead EXCEPT ![b] = "open"]
  /\ UNCHANGED <<old, alertCounts, loopVars, processVars, historyVars>>

\* The API closes a bead, on request or for a message that names it, and announces
\* that if the close succeeded.
ResolveByAPI(b, ok) ==
  /\ bead[b] # "absent"
  /\ Resolve(b, ok)
  /\ NoteReclose(b, ok)
  /\ IF ok /\ ~dryRun THEN Announce(b) ELSE UNCHANGED notified
  /\ UNCHANGED <<old, alertCounts, loopVars, processVars, alerts, lateAlerts, presumed>>

\* A message that fulfils a promise closes a bead of an old list, and announces
\* that whether the close succeeded or not.
CloseFulfilled(b, ok) ==
  /\ bead[b] # "absent"
  /\ Resolve(b, ok)
  /\ NoteReclose(b, ok)
  /\ IF ok /\ ~dryRun THEN Announce(b) ELSE UNCHANGED notified
  /\ presumed' = IF ok \/ dryRun THEN presumed ELSE TRUE
  /\ UNCHANGED <<old, alertCounts, loopVars, processVars, alerts, lateAlerts>>

\* A user closes it with br.
CloseByHand(b) ==
  /\ bead[b] = "open"
  /\ bead' = [bead EXCEPT ![b] = "closed"]
  /\ UNCHANGED <<old, alertCounts, loopVars, processVars, historyVars>>

\* auto_expire_hours pass; the age of a closed bead makes no difference.
Expire(b) ==
  /\ AutoExpire
  /\ bead[b] = "open"
  /\ b \notin old
  /\ old' = old \cup {b}
  /\ UNCHANGED <<bead, alertCounts, loopVars, processVars, historyVars>>

\* The process dies anywhere and the service manager starts a new one.
Restart ==
  /\ restarts < MaxRestarts
  /\ restarts' = restarts + 1
  /\ alertCounts' = [b \in Beads |-> 0]
  /\ alerts' = [b \in Beads |-> 0]
  /\ pc' = "idle"
  /\ todo' = {} /\ cur' = {} /\ seenOld' = {}
  /\ seenCount' = [b \in Beads |-> 0]
  /\ stopped' = FALSE
  /\ UNCHANGED <<bead, dryRun, old, lateAlerts, notified, reclosed, presumed>>

-----------------------------------------------------------------------------
Item(b) ==
  \/ Take(b)
  \/ \E backed \in BOOLEAN : Verified(b, backed)
  \/ \E ok \in BOOLEAN : CloseBead(b, ok) \/ Alert(b, ok)
  \/ Forget(b) \/ Count(b)

RunOnce == Fetch \/ (\E b \in Beads : Item(b)) \/ EndCycle

Around(b) ==
  \/ OpenBead(b) \/ CloseByHand(b) \/ Expire(b)
  \/ \E ok \in BOOLEAN : ResolveByAPI(b, ok) \/ CloseFulfilled(b, ok)

Next == RunOnce \/ Stop \/ Exit \/ (\E b \in Beads : Around(b)) \/ Restart

Spec == Init /\ [][Next]_vars

\* The ticker goes on ticking and the loop running; br does not fail for ever.
Fairness ==
  /\ WF_vars(RunOnce)
  /\ \A b \in Beads : SF_vars(CloseBead(b, TRUE)) /\ SF_vars(Alert(b, TRUE))

FairSpec == Spec /\ Fairness

-----------------------------------------------------------------------------
TypeOK ==
  /\ bead \in [Beads -> BeadStates]
  /\ old \in SUBSET Beads
  /\ alertCounts \in [Beads -> Nat]
  /\ pc \in Stages
  /\ todo \in SUBSET Beads /\ cur \in SUBSET Beads /\ seenOld \in SUBSET Beads
  /\ seenCount \in [Beads -> Nat]
  /\ stopped \in BOOLEAN /\ dryRun \in BOOLEAN
  /\ restarts \in 0..MaxRestarts
  /\ alerts \in [Beads -> Nat] /\ lateAlerts \in [Beads -> Nat]
  /\ notified \in [Beads -> 0..NoticeCap]
  /\ reclosed \in SUBSET Beads /\ presumed \in BOOLEAN

\* One process sends at most max_alerts re-check alerts for a commitment, whichever
\* of its lookups and closes fail and though closing deletes the count
\* (recheck.go:148, serve.go:198,241,256).
AlertBudget == \A b \in Beads : alerts[b] <= MaxAlerts

\* The cycle works from an old list and AlertFunc does not look at the status
\* (serve.go:281): a bead closed by somebody else may be alerted once more, but
\* only once, restarts included.
OneLateAlert == \A b \in Beads : lateAlerts[b] <= 1

\* What is announced after a close is closed: a close that failed may have taken
\* effect and one that succeeded may have found the bead closed, and the process
\* may die in between (serve.go:252-258, v2.go:240, 281). Only a fulfilled message
\* announces a bead that it could not close, which `presumed` notes and this leaves out.
AnnouncedIsClosed == \A b \in Beads : notified[b] > 0 => bead[b] = "closed"

\* The loop, the API, fulfilled messages and users together close and announce a
\* bead at most once, unless br said of the closed bead that it closed it
\* (serve.go:252-258, v2.go:235-242, 281-286).
AnnouncedOnce == \A b \in Beads : b \notin reclosed => notified[b] <= 1

\* In dry-run mode a cycle changes no bead and sends nothing, to whatever point
\* it goes (serve.go:248,261,276, beads.go:110).
DryRunIsSilent ==
  [][dryRun => /\ RunOnce => UNCHANGED bead
               /\ UNCHANGED <<alerts, notified, presumed>>]_vars

\* An open bead does not stay unsettled: it gets all its alerts or is closed,
\* unless re-checking is stopped or the process is only rehearsing.
EventuallySettled ==
  \A b \in Beads :
    (bead[b] = "open" /\ ~dryRun) ~> (alerts[b] = MaxAlerts \/ bead[b] = "closed" \/ stopped)

\* An expired bead is closed in the end.
EventuallyExpired ==
  \A b \in Beads : (b \in old /\ ~dryRun) ~> (bead[b] = "closed" \/ stopped)
=============================================================================
