# Oathkeeper in TLA+

Oathkeeper watches what agents say. A message that contains a promise ("I'll
check the logs") is given a grace period; if no mechanism then backs it, a bead
is filed with the external `br` tracker and somebody is told. Later messages may
fulfil the promise and close the bead, and a loop re-checks the open ones.

This directory models the parts of the program in which goroutines, timers, an
unreliable command and lists that grow old interact, model-checks them with TLC
on small instances, and proves what matters most with TLAPS for all instances.
Paths below are relative to the root of the repository.

## The system

| Component | State it keeps | Operations | Hard because |
|---|---|---|---|
| Grace period scheduler, `pkg/grace` | `pending`: id -> entry (timer, cancel channel), under `mu` | `Schedule`, the timer function, `Cancel`, `Stop` | four parties take entries out of one map; the timer is stored outside the lock |
| Re-check loop, `pkg/recheck` and its functions in `cmd/oathkeeper/serve.go` | `alertCounts`, in memory | a cycle: list, verify, close, alert, count; `Stop` | a cycle works on an old list and old counts; restarts |
| Transcript poller, `pkg/ingest` | `offsets`, `seen`, `order` | scan, tail a file, `Stop` | files are written while they are read, truncated, created |
| Analysis API, `pkg/api/v2.go` | one window of messages per session | `POST analyze`, `POST resolve`; reads | concurrent requests; beads closed one by one from a list; the rest of the work happens after the answer |
| Bead store, `pkg/beads` | none: every call runs `br` | create, close, list, show, auto-resolve | a call that is killed by its timeout may have taken effect |
| Context analyzer and detector, `pkg/detector` | none | which messages promise, which fulfil | rules that hide each other below a threshold; promises and fulfilments that slide out of the window |
| Verifier, `pkg/verifier` | none | asks cron, beads and files | three sources, asked at different moments, each may fail; clocks of different grain |
| Notifications, `pkg/hooks`, `pkg/relaypub` | none | send with retries | at-least-once |
| Daemon, `pkg/daemon` | `cancel`, `shutdownRequested` | `Run`, `Shutdown` | signals, timeouts and `Shutdown` race |
| Runtime health, `serve.go` | failures in a time window | record, ready | window, threshold and cap |
| Command line and scanner, `cmd/oathkeeper/main.go`, `pkg/scanner` | none | `scan`, `list`, `stats`, `resolve` | several readers of one set of tags; flags in any place |
| Configuration, doctor | none | sequential | - |

How they interact. The poller posts each new message to the analysis endpoint of
its own process. The endpoint appends it to the session's window; a promise goes
to the scheduler, whose timer calls the verifier, which counts the beads of other promises too, and then a callback that
creates a bead and notifies; any other message may auto-resolve beads of the
session; then the window is searched for fulfilled promises, which close beads
too. The re-check loop lists the open beads on its own clock, closes those that
are backed (it has a verifier of its own, which looks at no bead) or expired and alerts for
the others. The command line reads and closes the same beads, and scans transcripts with the
detector of the daemon. On shutdown `OnStop` stops the
poller, the loop and the scheduler, in this order, after the HTTP server was drained. Every failing
call is recorded in the runtime health, which decides what `/readyz` answers.

What makes them correct:

* scheduler: no channel closed twice, no entry lost, a verification that was
  cancelled in time never runs, every other one is reported once;
* loop: the alert budget, no alerts for closed beads beyond the one a stale list
  makes possible, one announcement of a close that `br` reported, and only one, and
  every open bead settled in the end;
* poller: no history replayed, each message handed on, not twice, a bounded
  window whose two halves agree, silence after `Stop`;
* analysis: a message touches only its session's beads and only for a cause, what
  the answer calls resolved is closed, every promise settled;
* verification: a mechanism that is there is found unless its source fails or its file cannot be
  read, promises do not back each other, and a bead never backs itself;
* detector, context, command line: a threshold only filters, a scan hears what the daemon hears, what is
  fulfilled stays so, the reports agree with each other and with what was filed, a dry run changes nothing;
* notifications: nothing lost silently, no needless duplicate; health: ready exactly when
  few enough failures are recent;
* lifecycle: whoever asks for the end gets it, gracefully the first time, and promises are lost
  only with requests that were not waited for.

The full list of hazards, each at its line, is in `PROJECT.json`.

## The modules

| Module | Models | Composes |
|---|---|---|
| `GraceContract` | what the scheduler promises to its callers, abstractly | |
| `Grace` | `pkg/grace/grace.go` | refines `GraceContract` |
| `GraceProofs` | theorems about `Grace` | |
| `BeadStore` | `br` through `pkg/beads`: beads that are absent, open or closed, and dry-run mode | |
| `Recheck` | `pkg/recheck/recheck.go` with the functions of `serve.go:183-315` | `BeadStore` |
| `RecheckProofs` | theorems about `Recheck` | |
| `Poller` | `pkg/ingest/transcript_poller.go` | |
| `PollerProofs` | theorems about `Poller` | |
| `Analyze` | `pkg/api/v2.go`, `AutoResolve`, the callbacks of `serve.go:101-158` | `BeadStore`, `GraceContract` |
| `AnalyzeProofs` | theorems about `Analyze` | |
| `Verify` | `pkg/verifier`, and the cron jobs, files and beads it looks at | `BeadStore` |
| `Verification` | the verifications of promises and of open beads, `serve.go:48-124`, `183-260` | `Verify`, `GraceContract` |
| `VerificationProofs` | theorems about `Verification` | |
| `Detector` | `pkg/detector/detector.go` as operators | |
| `Conversation` | `pkg/detector/context.go`, `pkg/scanner`, and what the poller reads out of a line, as operators | `Detector` |
| `Commands` | `list`, `stats`, `resolve`, `scan` of `main.go` beside the daemon that hears the same transcript, the list and the statistics of `v2.go`, tags and filters of `pkg/beads` | `Conversation` |
| `CommandsProofs` | theorems about `Detector`, `Conversation` and `Commands` | |
| `Health` | `runtimeHealth` of `serve.go:500-577` | |
| `Notify` | `pkg/hooks`, `pkg/relaypub` as `serve.go` calls them | `Health` |
| `NotifyProofs` | theorems about `Notify` and `Health` | |
| `Lifecycle` | `pkg/daemon` with `OnStart`, `OnStop` and the poller's dispatch of `serve.go:318-411` | |
| `LifecycleProofs` | theorems about `Lifecycle` | |
| `MCGrace`, `MCRecheck`, `MCPoller`, `MCAnalyze`, `MCVerification`, `MCCommands`, `MCNotify`, `MCLifecycle` | constants and symmetries for TLC | |

The grain is the same everywhere: a lock section, a call of `br`, a hand-over to
another goroutine or one step outside any lock is an action. A definition named
`Bug...` is a plausible fault of the definition that follows it. No specification uses
it; it shows that a property would notice the fault (`PROJECT.json`, "mutants").

**Grace.** An entry is identified with the `Schedule` call that made it; `IdOf`
gives the id, and two calls may share one. `Schedule` is `RegisterFresh`,
`RegisterOver` (an older entry is closed and replaced) or `RegisterPanic` (its
timer is still nil), then `StartTimer` and `AssignTimer`, which the code does in
one statement outside the lock (line 67). The timer function is `Fire`,
`CheckCancel`, `Verify`, `Remove`, `Callback`. `Cancel` and `Stop` take entries
under the lock and close them outside it. A panic inside `Schedule` is recovered
by net/http and leaves the mutex locked (`abandoned`); one inside `Stop` ends the
process. `GraceContract` knows only waiting, withdrawn, verifying and delivered
calls; `statusOf` is the refinement mapping, and a call counts as withdrawn when its
channel is closed before its function looked.

**Recheck.** `Fetch` copies the open beads, their alert counts and the expired
ones; `Take`, `Verified`, `CloseBead`, `Forget`, `Alert` and `Count` follow one bead
through `RunOnce`. Around the loop, the grace callback opens beads, users close them
(`CloseByHand`), the API does on request or for a message that indicates a resolution (`ResolveByAPI`, which
announces only what `br` reported as closed), and a fulfilled message does too (`CloseFulfilled`, which announces also what could
not be closed, `v2.go:281-286`). Time passes (`Expire`), and `Restart` kills the process anywhere
and loses `alertCounts`. History variables count alerts and announcements: `notified` those that follow a reported
close; `presumed` says whether there was one after a failed close. `AnnouncedIsClosed` and `AnnouncedOnce` are about `notified`; of
all announcements they would be false. That a user opens a closed bead again is not modelled here.

**Poller.** A line is two half lines, so that a scan may meet a torn one. `StatFile`,
`ReadLine`, `EndOfFile` and `ReadError` are `processFile`; `Handle` is `processLine`
with `markSeen`, down to the pruning of the older half. Agents append whole
or torn lines, create files and truncate them. An opaque pair of session and message stands
for a fingerprint: collisions of the 64-bit hash are not modelled.

**Analyze.** A request is received (window and copy under the lock), then follows
one of two ways: a promise is accepted by the scheduler (`GraceContract!Accept`);
any other message runs `AutoResolve`, one close at a time. Both end in
`addContextResults`. Meanwhile `GraceRuns` and the callback take promises further, and
users close beads. The bead of a promise is identified with its request. Which messages are
promises, which indicate a resolution and which fulfil a promise are constants,
so that the regular expressions play no part. `TagOf` and `LowerTag` are the two
normalisations of a session key, which agree or differ as the instance says.

**Verify and Verification.** A verification asks its sources one by one (`Ask`), and the
world may change between two questions; a source that fails is passed over and noted in
`failed`. The walk over the directories never fails: what it cannot read, it passes over without a word
(`backends.go:75-82`), any of the files that it would have found; they are noted in `unread`. Time is in ticks, of which a second has several: jobs carry their second, files
and beads their tick, and both the promise and the bead that is re-checked theirs. The grace period is
`GraceContract`, here without `Cancel` and `Stop`, so that a promise is accepted, verified at
the end of its period and filed or not. The re-check loop lists the open beads with their times (`Fetch`) and
verifies them with `RecheckVerifier`. `labels` is what this `br` does with the `--label` that the
checker passes: filters, or ignores it, and a `br` that refuses it is a source that fails. `steady` is the history
against which verdicts are judged: what backed a promise ever since its verification began. A
restart loses what waits.

**Detector, Conversation, Commands.** A message is told by the groups of patterns it
matches, with the verb it promises and the verbs it says were done: the regular expressions are
data. `DetectCommitment` tries eight rules in order; the first that matches decides, and only
then its confidence meets the threshold. `Conversation` has the context analyzer's window, and
two readings of the same lines. The scanner's (`Scan`) takes the role "assistant" to the letter and stops at a line that is too
long; the poller's (`SpokenTexts`, `Messages`) takes "Assistant" as well and drops what it handed on before,
of the same id and text (`SameFingerprint`, `Repeats`). In `Commands` a transcript grows, `said` is what the poller handed on of it
(which repeats it remembers is the subject of `Poller`, so any of them may be dropped), the daemon and other
tools file beads, statuses and ages change to any that `br` may know, and the commands are operators on that state. The daemon is
assumed to know the transcript from its first line and to read whole lines; what is skipped or torn
is in `Poller`. Tags are strings
as the code compares them, with and without case; `extraTags` is the value of `serve --tag`, and `sorts` is whether `br` gives
labels back in the order of the alphabet. The arguments of `resolve` are folded word by word,
first for the global flags (`Globals`, with `--config` in its two forms), then as Go's flag package does (`ResolveFlags`).

**BeadStore.** `Resolve(b, ok)` closes a bead or does not, and says so or not: a
failure may have taken effect. Whether `br` refuses to close a closed bead the
repository does not tell, so that either may happen. `dryRun` is chosen at the start
and never changes; in a dry run `Resolve` succeeds and does nothing.

**Health and Notify.** `failures` is the list of failure times, pruned by age on every
call and cut to `Keep` when it exceeds `Cap`; `recorded` remembers all of them.
A notification goes through the webhook and then the relay, in `Send` and `Publish`,
one attempt per action: a refusal (no 2xx, below 500) ends the webhook's attempts, other failures are tried again, and a
channel that fails for good is recorded in `failures`. An attempt that fails may have
been received (`lost`). The clock of `Health` does not go back. `Ready` is the answer of the runtime state; the handler
that `/readyz` asks after it (`serve.go:601-607`, which looks for `br`) is not part of it.

**Lifecycle.** `main` walks through `Run` (`RunRegister` to `RunCleanup`) and `OnStop`
(`StopPoller`, `StopGrace`) to the end of the process; `Watch` is the signal
goroutine; `server` is `OnStart`, with its drain of at most five seconds.
Requests come from clients or from the poller, hand over a promise and end, as slowly as
they like. `Shutdown` is two steps, as the call of `cancel` is outside the lock. A
daemon runs once in a process, as `startServer` has it; `rechecker.Stop` waits for
nothing and is part of `Recheck`.

## What the runs check

Passing runs:

| Run | Instance | Shows |
|---|---|---|
| `grace_collide` | 3 calls of one id, 1 `Cancel`, 1 `Stop` | `TypeOK`, `ClosedAtMostOnce`, `ImplementsContract` |
| `grace_unique` | 2 calls with own ids, 1 `Cancel`, 1 `Stop`, fair | `NoOrphan`, `StopCancelsAll`, `EventuallyReported` |
| `recheck` | 2 beads, 1 alert, 1 restart, announcements counted to 2, dry run or not, fair | `AlertBudget`, `OneLateAlert`, `AnnouncedIsClosed`, `AnnouncedOnce`, `DryRunIsSilent`, `EventuallySettled`, `EventuallyExpired` |
| `poller_tail` | 2 files, window 2, torn writes, 1 truncation, 1 read error | `NoHistory`, `RepeatsAreFarApart`, `WindowConsistent`, `QuietAfterStop` |
| `poller_live` | 2 files, whole lines, fair | `StopReturns`, `EventuallyHandled` |
| `analyze_sessions` | 3 messages, 2 sessions, window 2, 1 older bead | `TypeOK`, `ClosedWithCause`, `ResolvedIsClosed` |
| `analyze_live` | 2 messages, one of the two session keys empty, dry run or not, fair | `DryRunIsSilent`, `EventuallyReported` |
| `verification` | 2 promises, 1 cron job, 1 file, 1 bead of another tool without a date, a `br` that ignores `--label`, 2 changes by others, 2 ticks, 1 restart | `NothingOverlooked`, `AccountedFor`, `NoSelfSatisfaction` |
| `commands` | 3 lines (of 8 kinds) and beads altogether, 2 beads, 4 statuses, 2 session keys, 3 values of `--tag`, every `resolve` of up to 3 words out of 7 | `ScanFilters`, `HeardAlike`, `ReportsAgree`, `StaysFulfilled`, `DryRunWins` |
| `notify` | 3 notifications, 3 and 2 attempts, list cut at 4, clock to 2 | `TypeOK`, `DeliveredOrRecorded`, `DuplicateOnlyIfLost`, `ReadyIsRight` |
| `lifecycle` | 2 requests, 1 `Shutdown`, 2 signals, fair | `TypeOK`, `LateOnlyIfUnwaited`, `FirstSignalIsGraceful`, `EventuallyEnds` |

One run ends in a violation, because the README says what the code does not do:

| Run | The counterexample |
|---|---|
| `poller_torn` | the README lets transcripts be tailed (`README.md:35`); a line of a known file that is met half written is consumed in two halves, and lost (`transcript_poller.go:171`) |

Other places where the code and its documents, or two parts of the code, do not agree, met while modelling. The
models do as the code does, unless the line says that the matter is left out; no run is spent on them:

* `Stop` "cancels all pending verifications" (`grace.go:126`), but the timer function of a
  replaced call deletes the new call's entry (`:99`), which `Stop` then does not see. Hence
  `NoOrphan` and `StopCancelsAll` are about unique ids.
* `Cancel` may return true while the verification runs, and the callback comes all the
  same (`grace.go:108`, `:49`).
* A second `Schedule` of an id between lines 65 and 67 of the first calls `Stop` on a nil timer
  while it holds the lock (`RegisterPanic`).
* A promise that is repeated does not replace the waiting one (`README.md:146`), as its id
  contains the time (`v2.go:202`). For the same reason the collisions above need two promises of a
  session in one nanosecond in the running program.
* `commitment.resolved` is sent "when a tracked commitment is resolved" (`README.md:258`) and `onResolve` is "called when a commitment
  bead is resolved" (`v2.go:112`); after a fulfilled message whose close failed it is, too, though the bead is open (`v2.go:281-286`).
* The alert budget starts afresh with the process (`README.md:169`, `serve.go:183`).
* A transcript that appears later is skipped to its end like an old one
  (`transcript_poller.go:33`, `:147`).
* `AutoResolve` that fails at its second bead announces none, though the first one is closed
  (`v2.go:112`, `:234`).
* Two fulfilments in one window close the same bead (`v2.go:258`, `:279`).
* Fulfilled promises close "matching open beads" (`README.md:157`), but a session key with a
  character that tags rewrite, such as a colon, never matches the beads filed under it (`v2.go:306`,
  `beads.go:288-310`). Such a bead is still read back with a key that gives the same tag.
* A mechanism that appears between the verification of a promise and the creation of its bead counts
  for neither: the loop asks about the time of the bead (`serve.go:212`).
* The checker of beads passes `--label` (`backends.go:141`), which the list "does not support"
  (`beads.go:176`); if `br` refuses it, the checker finds nothing, ever, and if `br` ignores it, beads
  that are not oathkeeper's back promises.
* `oathkeeper resolve <bead-id> --reason "..."` (`docs/OPERATIONS_RUNBOOK.md:69`) has too many
  arguments, as Go's flags end at the first word; `scan <file> --json` (`README.md:55`) and the usage texts
  (`main.go:47`, `:50`) have the same order. `resolve b1 --json` closes b1 for the reason "--json".
* `--config --dry-run` reads a file of that name, and is no dry run (`main.go:161-174`).
* `resolve` and `GET /api/v2/commitments/<id>` act on any bead, oathkeeper's or not.
* `list --category` respects case, `list --tag` does not (`beads.go:225`, `main.go:860`), and `stats` counts categories in lower case
  (`main.go:412`): with another tool's bead labelled "Temporal", it counts more under "temporal" than the list of that category has.
* The scanner wants the role "assistant" exactly and fails on a line of more than 2 MiB (`scanner.go:89`,
  `:111`); the poller, reading the same file, does neither (`transcript_poller.go:196`). `HeardAlike` is what they agree on
  nevertheless.
* A status of "resolved" counts as resolved in `stats` (`main.go:387`) and not in the API (`v2.go:502`). `ReportsAgree` says by how much
  they differ.
* A `--tag` of `serve` that looks like a session's tag is read back as the bead's session, and one that is a category may be read back as
  its category when `br` sorts labels (`serve.go:446-474`, `beads.go:242-256`). `ReportsAgree` excepts them.
* The checker of files reports neither a directory that is not there nor one it may not read (`backends.go:75-77`); a promise
  backed by such a file is filed as unbacked. `NothingOverlooked` excepts the files it passed over.
* A create that fails is recorded and not tried again (`serve.go:118`): the promise has no bead. `AccountedFor` excepts it.

### Bounds

* Three calls of one id are the fewest in which a replaced call, the replacing one
  and a third that meets the damage coexist; a fourth adds no party to a race.
  Two beads make one cycle carry a stale item past another's close. `NoticeCap` counts the announcements of a bead
  up to one more than there may be. Three
  messages let one session promise and another fulfil.
* `MaxWrites`, `MaxTruncates` and `MaxErrors` bound what agents and the disk do: enough
  for a window of two to overflow and for a file to be read again. `MaxAlerts` is 1 in
  the run, so that the budget is reached at once; the theorems are about every limit.
  `MaxRestarts` bounds crashes; the theorems hold for any number of them.
* `Cap` 4 and `Keep` 2 stand for 2048 and 1024: six possible failures overflow the list
  with every age of entries in it, and the threshold of 2 is the largest the cut
  leaves intact. `ReadyIsRight` assumes `Threshold <= Keep`: with a threshold above 1024
  the cut could hide failures, which nobody would configure.
* Two requests are one of the poller and one of a client, or two at once; the second of
  two signals is the one that may kill.
* Two promises and one job, file and foreign bead each are what it takes for one promise to stand in
  for another, and for a source to change while another is asked. `MaxTime` 1 with two ticks a second
  makes a job older than the promise of its own second. `MaxChanges` bounds what others change, not what oathkeeper does.
  The foreign bead has no date, so that it always counts; where `br` filters labels it is invisible, which this
  instance includes.
* Three lines let a promise, its fulfilment and one more promise meet in a window of three, and a message be written
  down twice; some lines have two texts, so that the window also slides. A line with two promises is enough to file two beads of
  different categories, and two beads for reports to differ. `Statuses` are the two that commands tell apart from all others, with
  "resolved", on which they differ, and "backed", which stands for those that are only counted by name. The values of
  `--tag` are none, one that is sorted before the categories beside one that looks like a session's, and a category. Three words are the
  fewest for a flag, a bead and a value that one of them swallows; `ConfigIn` has a `--config=` with a value and a blank one.
* Symmetry (of calls with one id, messages, sessions, promises, requests and notifications) is
  used in runs without liveness only.
* Deadlock is not checked: every system here may come to rest, when all calls
  returned, the loop was stopped, the process ended, or the bounds are used up.

### Fairness

Weak fairness of a goroutine's own steps: the Go scheduler runs it on, an armed timer
fires, and `br` and HTTP calls have timeouts and return. No fairness on callers,
users, agents, `Stop`, signals or, in `Lifecycle`, the request handlers: the drain and
the poller's call have timeouts of their own. Strong fairness in three places: in
`Recheck`, `br` does not fail for ever (`CloseBead` and `Alert` with success); in
`Poller` and `Lifecycle`, `select` does not prefer the ticker to a closed `stopCh` for ever, as Go
chooses among ready cases at random.

## What is proved

TLAPS checks these for all sets of calls, ids, beads, messages, files and sources, for all limits and for
transcripts and argument lists of any length, from the named `ASSUME`s of the modules only. What these say beyond the
types of the constants: windows, attempts and the alert budget are positive; `Keep <= Cap` (1024 and 2048 in the code);
beads, jobs and files are different things; the texts of a line are a sequence. `TagsAssumption` says what
normalising does to tags: lower-casing twice is lower-casing once; "oathkeeper" and the categories are in lower case and look like no
session's tag; an empty session key has no tag, and the key read back from a tag (`beads.go:388`) has that same tag (`beads.go:288`). Of the
values of `--tag` and of other tools' labels it assumes nothing. The bounds on writes, restarts, errors and the clock
are arbitrary numbers, so that no theorem depends on them.

`GraceProofs`

* `TypeCorrect`, by itself inductive.
* `ClosedOnce`. "Closed at most once" is not inductive: nothing in it stops `Cancel`
  from closing an entry a second time. The invariant adds who may close:
  `PendingInv` (an entry in the map is under its own id and open, except after a panic
  in the lock section), `TakenInv` (an entry that `Cancel` or `Stop` took is open,
  out of the map, and has one taker), `IdleInv`, `CloseInv` and `RunInv` (how
  timer, function and outcome go together).
* `NothingOrphaned`, with unique ids, on top of it: removal by id then removes
  one's own entry.
* `Implements`: every step of `Grace` is one of `GraceContract`, or a stutter, under
  `statusOf`. Closing a channel is withdrawal if the function has not looked
  yet, and nothing otherwise; this needs that a closed channel belongs to a registered
  call.
* `StopIsFinal`, with unique ids: what was registered before `Stop` and is in nobody's
  hands is cancelled when `Stop` returns, from `NothingOrphaned`.

`RecheckProofs`, one inductive invariant of four parts: `CycleInv` (the bead in hand is no
longer listed), `BudgetInv` (the count a cycle saw is still the current one for a bead
ahead of it, and is behind the alerts only between an alert and its counting),
`LateInv` (a bead that is not closed, or is still ahead, had no late alert) and
`NoticeInv` (what is about to be announced after a reported close is closed, and unless `br` closed it a second
time nobody else announced it after a close; what is announced after a failed close sets `presumed` and does not enter). From it `TypeCorrect`, `WithinBudget`, `LateOnlyOnce`, `AnnouncementsTrue`
and `AnnouncementsUnique`. `DryRunChangesNothing` needs one more fact: a restart forgets the alerts of the old process, and
changes nothing only because a dry run never sent any (`NoneSent`).

`PollerProofs`: `WindowBounded`, `RepeatsRare`, `HistorySkipped` and `StoppedIsQuiet` from one invariant. The bounded window
alone (`OrderInv`) does not say what was forgotten; `SuffixInv` does: the window is a suffix of all that was handed on, and
either nothing was forgotten or it is at least half full. A message that is not in `seen` was therefore
handed on before at most where the window does not reach, which is far enough away. `OffsetInv` and `HandledInv` keep
offsets and what was handed on behind the place at which a file was first seen, torn lines included.

`AnalyzeProofs`: `TypeCorrect`, `EveryCloseHasACause`, `AnswersAreTrue` and `DryRunChangesNothing`. The cause of a close is in the
log of the session, the closer has only an old copy of the window: `WindowInv` and `BufInv` say that the window is the end of
the log, and a copy a stretch of it (`StandsAt`), so that a promise and its fulfilment in the copy are less than a window apart in
the log, whatever came since. `CloseInv` carries the match with the session from the listing to each close; `FiledInv` and
`CloserInv` say that a bead that is filed later is nobody's yet.

`VerificationProofs`: `NothingIsOverlooked`, `EveryPromiseAccountedFor` and `NoBeadBacksItself`. For every verification in
progress `SteadyInv` divides what backed it all along (`Covered`): found, in a source that failed, a file that was passed over, or in a source that is
yet to be asked; when nothing is left to ask (`AskedInv`) the theorem remains. `FoundInv` says of every bead a promise's verification
found that it is another's and was filed in time, and `LoopInv` that the loop finds only jobs and files younger than its bead, to the second.

`NotifyProofs`: `TypeCorrect`, `NothingLostSilently`, `DuplicatesExplained` (by itself inductive) and `ReadinessExact`, for any
number of attempts. `ReadinessExact` compares a list that is pruned and cut with all the failures there were: the list is a suffix of
them (`SuffixInv`), they are sorted (`SortedInv`), and what is missing is stale or there are `Keep` others (`DropInv`); the recent ones are then counted
alike up to a threshold of `Keep`.

`CommandsProofs` are about definitions that recur over sequences of any length. The induction they need is an
instance of the least element that every set of naturals has (`Induction`):

* `FulfilledForGood`: what was said before a line is a prefix of what was said after it (`FlattenAppend`, `SaidGrows`);
  in a longer conversation the window does not begin earlier, the first fulfilment of a promise stays the first, and the pending
  promises of a category that nobody repeated can only become fewer.
* `DryRunIsObeyed`: the fold over the arguments goes from one prefix to the next (`GlobalsStepwise`), and while nothing is
  wrong only a `--config` wants a value.
* `ThresholdFilters`: the detector's answer under a threshold is its answer without one, filtered.
* `ScanOnlyFilters` carries that from one text to a transcript of any length. A text has at most one result; results are appended to
  results text by text and line by line; and the members of a sequence that satisfy a condition, in their order (`At`), are
  those of its first part followed by those of its second (`AtConcat`).
* `ScanHearsAlike`, from `SaidInv`: what was handed on is a text of its line, and of every text of every line some message of the
  same id and text was handed on, for that line or an earlier one. A line keeps that (`HeardStep`), though any of its repeats may be
  dropped, because the first of the messages that are alike is none. `ScanSet` says which results a scan has, so that the two can be compared.
* `ReportsAlwaysAgree`, from `BeadsInv`: a bead that the daemon filed has the labels that `br` made of what it was filed under, and
  the beads are finitely many at any time. The beads that are closed and those that are "resolved" are disjoint, so that their numbers add up to what
  `stats` counts. Only the first tag that looks like a session's is read back, and the labels may
  come back in another order: `CreateTagsFacts` says that there is only one such tag, and which one, if no `--tag` looks like one; likewise for the
  category. `UniqueFacts` and `LabelsFacts` say that neither `uniqueStrings` nor `br` adds or loses a tag.

`LifecycleProofs`: `TypeCorrect`, whose part about the poller is inductive only with the
requests in progress (`CallInv`); `LostOnlyIfUnwaited` and `SignalsAreGraceful` from one invariant,
as a late promise is impossible only because `OnStop` runs after `OnStart` returned
(`OrderInv`) and the requests that are still in progress then are those it did not wait for
(`DrainInv`), and `SignalInv` says when signals are left to the runtime.

Only proved is the type invariant of `Recheck`, which the others rest on. Only model-checked are the liveness properties `EventuallyReported` (twice), `EventuallySettled`, `EventuallyExpired`, `StopReturns`,
`EventuallyHandled` and `EventuallyEnds`: leads-to under fairness needs `ENABLED`, which is beyond TLAPS. `SelectSeq` is defined by
recursion and `SortSeq` has no definition for the prover; so the members of a sequence that satisfy a condition are taken with
`At`, and sorted labels are the permutations of them that are in order of `Rank`.

## What is not modelled

The regular expressions and the list of irregular verbs, the syntax of JSON and dates: a message is the groups of patterns it
matches, a date is recent, old, absent or unreadable. The configuration file, whose values are constants. The doctor, the texts of errors,
exports and dashboards, which keep no state. The contents of notifications. That no more than 25 files are noted, as
their number decides nothing. Network failures of the poller's own dispatch: a message is marked as
seen and then not delivered (`transcript_poller.go:208`), which no document denies. Users who open closed beads again are in `Commands` only. `Verification`
leaves to `Grace` what `Cancel` and `Stop` do, and to `Recheck` alerts, their counts and expiry.

## Plan

Every part of the program that keeps state or decides something has its module, and every safety invariant and action property that a
run checks has its theorem. What is left:

1. The invariants on which the liveness properties rest, such as that a scan that has begun is at the end of its file after finitely many steps.
2. `Verification` and `Analyze` change the status of a promise with the actions of `GraceContract` themselves, so that a refinement of it
   would hold by construction; it becomes worth stating when either is composed with `Grace` instead.
