-------------------------------- MODULE Verify --------------------------------
(***************************************************************************)
(* The verifier, pkg/verifier: whether anything backs a promise made at a    *)
(* given time. It asks the cron API, br and the file system in turn, each    *)
(* at its own moment, and takes a source that fails for one that has nothing.*)
(*                                                                          *)
(* Time is counted in ticks. A cron job carries the second it was created in, *)
(* files and beads carry the tick.                                           *)
(***************************************************************************)
EXTENDS Naturals, Sequences, BeadStore

CONSTANTS Crons,      \* cron jobs
          CronFlags,  \* the [enabled, active, status] a job may show
          Files,      \* files in the state and memory directories
          OtherBeads, \* the beads that are not oathkeeper's
          Undated,    \* the beads that br shows without created_at
          LabelModes, \* what br list may do with --label
          TicksPerSecond,
          MaxTime     \* bound: the last tick

ASSUME VerifyAssumption ==
  /\ OtherBeads \subseteq Beads /\ Undated \subseteq Beads
  /\ LabelModes \subseteq {"filters", "ignores"}
  /\ TicksPerSecond \in Nat \ {0}
  /\ MaxTime \in Nat

VARIABLES
  now,    \* the clock
  cron,   \* the jobs: since when, and their flags
  mtime,  \* when each file was last modified
  made,   \* when each bead was created
  labels  \* what this br does with --label

sourceVars == <<cron, mtime, made, bead>>

Never == MaxTime + 1

Second(t) == t \div TicksPerSecond

SourcesInit ==
  /\ now = 0
  /\ cron = [c \in Crons |-> [since |-> Never, flags |-> CHOOSE f \in CronFlags : TRUE]]
  /\ mtime = [f \in Files |-> Never]
  /\ made = [b \in Beads |-> Never]
  /\ labels \in LabelModes

-----------------------------------------------------------------------------
(* A definition called Bug... is a seeded fault in the one after it.          *)

\* isEnabled: the first of the three fields that is present decides, and a
\* status that is not known counts as enabled.
IsEnabled(flags) ==
  IF flags.enabled # "unset" THEN flags.enabled = "true"
  ELSE IF flags.active # "unset" THEN flags.active = "true"
  ELSE flags.status \notin {"disabled", "paused", "inactive"}

\* Comparing the second of a job with the moment of the promise.
BugMomentOfJob(c, since) == Second(cron[c].since) * TicksPerSecond >= since

\* A job made in the second of the promise counts, before or after it.
IsRecentJob(c, since) == Second(cron[c].since) >= Second(since)

CronFindings(since) ==
  {c \in Crons : cron[c].since # Never /\ IsRecentJob(c, since) /\ IsEnabled(cron[c].flags)}

\* A walk that passes over the files it cannot read: they, or a directory above
\* them, are not allowed, or went away meanwhile. At most 25 files are noted; how many
\* does not matter.
FileFindings(since, unread) == {f \in Files \ unread : mtime[f] # Never /\ mtime[f] >= since}

\* What br list --label oathkeeper --status open shows.
Shown == IF labels = "ignores" THEN Open ELSE Open \ OtherBeads

\* A bead without a readable date counts as new.
BeadFindings(since) == {b \in Shown : b \in Undated \/ made[b] >= since}

Findings(checker, since, unread) ==
  CASE checker = "crons" -> CronFindings(since)
    [] checker = "beads" -> BeadFindings(since)
    [] checker = "files" -> FileFindings(since, unread)

\* A request that fails, a command that fails (as with a br that refuses --label),
\* output that is no JSON. The walk over the directories never fails: an error passes
\* over a file, or all that is below a directory, and nobody is told.
MayFail(checker) == checker # "files"

\* The files it may pass over; to pass over one that is too old makes no difference.
MayOverlook(checker, since) ==
  IF checker = "files" THEN SUBSET FileFindings(since, {}) ELSE {{}}

\* NewVerifierFromConfig: the cron API always, the others if configured.
Verifier == <<"crons", "beads", "files">>

\* Giving the re-check loop the verifier of the grace period.
BugSameVerifier == Verifier

RecheckVerifier == <<"crons", "files">>

-----------------------------------------------------------------------------
(* The world the sources show *)

Tick ==
  /\ now < MaxTime
  /\ now' = now + 1
  /\ UNCHANGED <<dryRun, labels, sourceVars>>

MakeCron(c, f) ==
  /\ cron[c].since = Never
  /\ cron' = [cron EXCEPT ![c] = [since |-> now, flags |-> f]]
  /\ UNCHANGED <<dryRun, labels, now, mtime, made, bead>>

SwitchCron(c, f) ==
  /\ cron[c].since # Never
  /\ cron[c].flags # f
  /\ cron' = [cron EXCEPT ![c].flags = f]
  /\ UNCHANGED <<dryRun, labels, now, mtime, made, bead>>

WriteFile(f) ==
  /\ mtime[f] # now
  /\ mtime' = [mtime EXCEPT ![f] = now]
  /\ UNCHANGED <<dryRun, labels, now, cron, made, bead>>

\* Another tool, or a user, files a bead of its own.
MakeOtherBead(b) ==
  /\ b \in OtherBeads
  /\ bead[b] = "absent"
  /\ bead' = [bead EXCEPT ![b] = "open"]
  /\ made' = [made EXCEPT ![b] = now]
  /\ UNCHANGED <<dryRun, labels, now, cron, mtime>>

\* Anybody but the re-check loop.
CloseElsewhere(b) ==
  /\ bead[b] = "open"
  /\ bead' = [bead EXCEPT ![b] = "closed"]
  /\ UNCHANGED <<dryRun, labels, now, cron, mtime, made>>

World ==
  \/ \E c \in Crons, f \in CronFlags : MakeCron(c, f) \/ SwitchCron(c, f)
  \/ \E f \in Files : WriteFile(f)
  \/ \E b \in Beads : MakeOtherBead(b) \/ CloseElsewhere(b)
=============================================================================
