----------------------------- MODULE Verification -----------------------------
(***************************************************************************)
(* What becomes of promises, told by their verifications: the grace period   *)
(* (through its contract) runs the verifier and files a bead for an unbacked *)
(* promise, and the re-check loop runs a verifier of its own for every open  *)
(* bead, as cmd/oathkeeper/serve.go wires them, while cron jobs, files and   *)
(* other beads come and go between the questions a verifier asks. The bead    *)
(* of a promise is identified with the promise.                              *)
(***************************************************************************)
EXTENDS Verify, FiniteSets

CONSTANTS Promises,
          DryRuns,    \* the settings of general.dry_run that are considered
          MaxRestarts, \* bound: crashes of the process
          MaxChanges   \* bound: changes of cron jobs, files and beads by others

ASSUME VerificationAssumption ==
  /\ Beads = Promises \cup OtherBeads
  /\ Promises \cap OtherBeads = {}
  /\ "re-check" \notin Promises
  /\ Crons \cap Files = {} /\ (Crons \cup Files) \cap Beads = {}
  /\ CronFlags # {}
  /\ DryRuns \subseteq BOOLEAN
  /\ MaxRestarts \in Nat /\ MaxChanges \in Nat

VARIABLES
  status,   \* the grace period's status of each promise
  outcome,  \* what its verification concluded
  filed,    \* how far its callback is
  lost,     \* the promises whose process died before their callback
  restarts, \* counters, for the bounds only
  changes,
  listed,   \* the beads the loop has not come to, with the time it asks about
  item,     \* the bead the loop is at, as a set of at most one
  phase,    \* where the loop is
  since,    \* for each verification: the time it asks about,
  left,     \* the sources it has yet to ask,
  found,    \* what it found,
  failed,   \* the sources that failed,
  unread,   \* and the files that were passed over
  steady    \* history: what backed a promise ever since its verification began

Grace == INSTANCE GraceContract WITH Calls <- Promises

Loop == "re-check"
Verifications == Promises \cup {Loop}

graceVars  == <<status, outcome>>
loopVars   == <<listed, item, phase>>
verifyVars == <<since, left, found, failed, unread>>
vars == <<now, labels, dryRun, sourceVars, graceVars, filed, lost, restarts, changes, loopVars,
          verifyVars, steady>>

Init ==
  /\ SourcesInit
  /\ bead = [b \in Beads |-> "absent"]
  /\ dryRun \in DryRuns
  /\ Grace!ContractInit
  /\ filed = [p \in Promises |-> "no"]
  /\ lost = {} /\ restarts = 0 /\ changes = 0
  /\ listed = {} /\ item = {} /\ phase = "idle"
  /\ since = [v \in Verifications |-> 0]
  /\ left = [v \in Verifications |-> <<>>]
  /\ found = [v \in Verifications |-> {}]
  /\ failed = [v \in Verifications |-> {}]
  /\ unread = [v \in Verifications |-> {}]
  /\ steady = [v \in Verifications |-> {}]

-----------------------------------------------------------------------------
(* The history of what backs a promise, without the verifier's eyes *)

External(m, t) ==
  \/ m \in Crons /\ cron[m].since \in t .. MaxTime /\ IsEnabled(cron[m].flags)
  \/ m \in Files /\ mtime[m] \in t .. MaxTime

InForce(v, t) ==
  {m \in Crons \cup Files : External(m, t)}
    \cup {b \in Promises : v # Loop /\ bead[b] = "open" /\ made[b] >= t}

Alive(v) ==
  IF v = Loop THEN phase # "idle" ELSE v \notin lost /\ status[v] = "verifying"

\* Every step ends with this: B are the verifications that it begins.
Observe(B) ==
  steady' = [v \in Verifications |->
               IF ~Alive(v)' THEN {}
               ELSE IF v \in B THEN InForce(v, since[v])'
               ELSE steady[v] \cap InForce(v, since[v])']

-----------------------------------------------------------------------------
(* A verification *)

StartAsking(v, t, checkers) ==
  /\ since' = [since EXCEPT ![v] = t]
  /\ left' = [left EXCEPT ![v] = checkers]
  /\ found' = [found EXCEPT ![v] = {}]
  /\ failed' = [failed EXCEPT ![v] = {}]
  /\ unread' = [unread EXCEPT ![v] = {}]

\* Its variables go out of scope.
EndLoopVerification ==
  /\ since' = [since EXCEPT ![Loop] = 0]
  /\ left' = [left EXCEPT ![Loop] = <<>>]
  /\ found' = [found EXCEPT ![Loop] = {}]
  /\ failed' = [failed EXCEPT ![Loop] = {}]
  /\ unread' = [unread EXCEPT ![Loop] = {}]

\* Giving up when a source fails.
BugStopAtFailure(v, ok) == IF ok THEN Tail(left[v]) ELSE <<>>

LeftAfter(v, ok) == Tail(left[v])

\* Verify's loop: one source answers, but for the files it passes over, or fails and
\* is passed over itself.
Ask(v, ok, skipped) ==
  /\ v \notin lost
  /\ left[v] # <<>>
  /\ LET checker == Head(left[v])
     IN  /\ ok \/ MayFail(checker)
         /\ skipped \in MayOverlook(checker, since[v])
         /\ found' = [found EXCEPT ![v] =
                       IF ok THEN @ \cup Findings(checker, since[v], skipped) ELSE @]
         /\ failed' = [failed EXCEPT ![v] = IF ok THEN @ ELSE @ \cup {checker}]
  /\ unread' = [unread EXCEPT ![v] = @ \cup skipped]
  /\ left' = [left EXCEPT ![v] = LeftAfter(v, ok)]
  /\ UNCHANGED <<now, labels, dryRun, sourceVars, graceVars, filed, lost, restarts, changes, loopVars, since>>
  /\ Observe({})

-----------------------------------------------------------------------------
(* The grace period *)

\* The time of the detection is kept for the verification.
Accept(p) ==
  /\ Grace!Accept(p, {})
  /\ since' = [since EXCEPT ![p] = now]
  /\ UNCHANGED <<now, labels, dryRun, sourceVars, filed, lost, restarts, changes, loopVars,
                 left, found, failed, unread>>
  /\ Observe({})

Begin(p) ==
  /\ p \notin lost
  /\ Grace!Begin(p)
  /\ StartAsking(p, since[p], Verifier)
  /\ UNCHANGED <<now, labels, dryRun, sourceVars, filed, lost, restarts, changes, loopVars>>
  /\ Observe({p})

\* The verifier itself never returns an error.
Conclude(p) ==
  /\ p \notin lost
  /\ left[p] = <<>>
  /\ Grace!Conclude(p)
  /\ outcome'[p] = IF found[p] # {} THEN "backed" ELSE "unbacked"
  /\ UNCHANGED <<now, labels, dryRun, sourceVars, filed, lost, restarts, changes, loopVars, verifyVars>>
  /\ Observe({})

\* Forgetting the verdict.
BugFileNever(p) == FALSE

MustFile(p) == outcome[p] = "unbacked" /\ ~dryRun

NothingToFile(p) ==
  /\ p \notin lost
  /\ ~MustFile(p)
  /\ Grace!Deliver(p)
  /\ filed' = [filed EXCEPT ![p] = "not needed"]
  /\ failed' = [failed EXCEPT ![p] = {}]
  /\ unread' = [unread EXCEPT ![p] = {}]
  /\ UNCHANGED <<now, labels, dryRun, sourceVars, lost, restarts, changes, loopVars, since, left, found>>
  /\ Observe({})

\* br create writes the bead or does not, and says so or not.
FileBead(p, ok, wrote) ==
  /\ p \notin lost
  /\ MustFile(p)
  /\ ok => wrote
  /\ Grace!Deliver(p)
  /\ bead' = IF wrote THEN [bead EXCEPT ![p] = "open"] ELSE bead
  /\ made' = IF wrote THEN [made EXCEPT ![p] = now] ELSE made
  /\ filed' = [filed EXCEPT ![p] = IF ok THEN "created" ELSE "failed"]
  /\ failed' = [failed EXCEPT ![p] = {}]
  /\ unread' = [unread EXCEPT ![p] = {}]
  /\ UNCHANGED <<now, labels, dryRun, cron, mtime, lost, restarts, changes, loopVars, since, left, found>>
  /\ Observe({})

-----------------------------------------------------------------------------
(* The re-check loop; its alerts, their counts and the expiry are module Recheck *)

\* The open oathkeeper beads, each with the time it was created, or now.
Fetch ==
  /\ phase = "idle" /\ listed = {}
  /\ listed' = {<<b, IF b \in Undated THEN now ELSE made[b]>> : b \in Open \ OtherBeads}
  /\ listed' # {}
  /\ UNCHANGED <<now, labels, dryRun, sourceVars, graceVars, filed, lost, restarts, changes, item, phase, verifyVars>>
  /\ Observe({})

Take(b, t) ==
  /\ phase = "idle"
  /\ <<b, t>> \in listed
  /\ listed' = listed \ {<<b, t>>}
  /\ item' = {b}
  /\ phase' = "asking"
  /\ StartAsking(Loop, t, RecheckVerifier)
  /\ UNCHANGED <<now, labels, dryRun, sourceVars, graceVars, filed, lost, restarts, changes>>
  /\ Observe({Loop})

Decide ==
  /\ phase = "asking" /\ left[Loop] = <<>>
  /\ phase' = IF found[Loop] # {} THEN "backed" ELSE "unbacked"
  /\ UNCHANGED <<now, labels, dryRun, sourceVars, graceVars, filed, lost, restarts, changes, listed, item, verifyVars>>
  /\ Observe({})

\* A backed bead is closed; the reason names the mechanisms.
CloseBacked(b, ok) ==
  /\ phase = "backed"
  /\ b \in item
  /\ Resolve(b, ok)
  /\ phase' = "idle" /\ item' = {}
  /\ EndLoopVerification
  /\ UNCHANGED <<now, labels, dryRun, cron, mtime, made, graceVars, filed, lost, restarts, changes, listed>>
  /\ Observe({})

\* An unbacked one may be alerted for.
Alert ==
  /\ phase = "unbacked"
  /\ phase' = "idle" /\ item' = {}
  /\ EndLoopVerification
  /\ UNCHANGED <<now, labels, dryRun, sourceVars, graceVars, filed, lost, restarts, changes, listed>>
  /\ Observe({})

-----------------------------------------------------------------------------
\* The process dies and another one starts: what was pending is forgotten.
Restart ==
  /\ restarts < MaxRestarts
  /\ restarts' = restarts + 1
  /\ lost' = lost \cup {p \in Promises : status[p] \in {"waiting", "verifying"}}
  /\ listed' = {} /\ item' = {} /\ phase' = "idle"
  /\ since' = [v \in Verifications |-> IF v \in lost' \cup {Loop} THEN 0 ELSE since[v]]
  /\ left' = [v \in Verifications |-> <<>>]
  /\ found' = [v \in Verifications |-> IF v \in lost' \cup {Loop} THEN {} ELSE found[v]]
  /\ failed' = [v \in Verifications |-> {}]
  /\ unread' = [v \in Verifications |-> {}]
  /\ UNCHANGED <<now, labels, dryRun, sourceVars, graceVars, filed, changes>>
  /\ Observe({})

TimePasses ==
  /\ Tick
  /\ UNCHANGED <<graceVars, filed, lost, restarts, changes, loopVars, verifyVars>>
  /\ Observe({})

Others ==
  /\ changes < MaxChanges
  /\ changes' = changes + 1
  /\ World
  /\ UNCHANGED <<graceVars, filed, lost, restarts, loopVars, verifyVars>>
  /\ Observe({})

Next ==
  \/ TimePasses \/ Others
  \/ \E v \in Verifications, ok \in BOOLEAN, skipped \in SUBSET Files : Ask(v, ok, skipped)
  \/ \E p \in Promises :
       \/ Accept(p) \/ Begin(p) \/ Conclude(p) \/ NothingToFile(p)
       \/ \E ok, wrote \in BOOLEAN : FileBead(p, ok, wrote)
  \/ Fetch \/ Decide \/ Alert
  \/ \E b \in Beads, t \in 0 .. MaxTime : Take(b, t)
  \/ \E b \in Beads, ok \in BOOLEAN : CloseBacked(b, ok)
  \/ Restart

Spec == Init /\ [][Next]_vars

-----------------------------------------------------------------------------
\* A promise is found unbacked, or a bead alerted for, only if nothing backed it
\* all the while its sources were asked, but for what was in a source that failed
\* and files that the walk passed over: the questions come at different moments,
\* jobs count by the second and files by the nanosecond, and none of this loses a
\* mechanism that is there (verifier.go:99-112, 186-197, backends.go:75-82, 167).
SourceOf(m) == IF m \in Crons THEN "crons" ELSE IF m \in Files THEN "files" ELSE "beads"

Unbacked(v) == IF v = Loop THEN phase = "unbacked" ELSE outcome[v] = "unbacked"

NothingOverlooked ==
  \A v \in Verifications :
    Unbacked(v) => \A m \in steady[v] : SourceOf(m) \in failed[v] \/ m \in unread[v]

\* No bead satisfies a commitment of which it is the record: the loop closes a
\* bead as backed only for something outside oathkeeper that is younger than
\* the bead, up to the second (serve.go:55-62).
NoSelfSatisfaction ==
  [][\A b \in item :
       phase = "backed" /\ bead'[b] # bead[b] /\ phase' = "idle" =>
         \A m \in found[Loop] :
           \/ m \in Crons /\ cron[m].since \in made[b] - (made[b] % TicksPerSecond) .. MaxTime
           \/ m \in Files /\ mtime[m] \in made[b] .. MaxTime]_vars

\* A promise that was accepted is not forgotten: unless the process died over it,
\* its verification or its bead is under way, something outside backs it, a
\* bead was to be filed for it (by a br that may fail, or in a dry run), or the
\* bead of something else that was filed after it stands in for it. In
\* particular two promises never back each other (backends.go:133-172).
BackedFromOutside(p) == found[p] \cap (Crons \cup Files) # {}

StoodInFor(p) ==
  \E b \in found[p] \cap Beads : b # p /\ (b \in Undated \/ made[b] \in since[p] .. MaxTime)

AccountedFor ==
  \A p \in Promises :
    status[p] = "delivered" =>
      \/ bead[p] # "absent" \/ filed[p] = "failed" \/ dryRun
      \/ BackedFromOutside(p)
      \/ StoodInFor(p)
=============================================================================
