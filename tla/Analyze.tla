------------------------------- MODULE Analyze -------------------------------
(***************************************************************************)
(* The analysis of messages by the HTTP API, pkg/api/v2.go with the bead     *)
(* store's AutoResolve and the callbacks that serve.go wires: concurrent      *)
(* requests share the per-session windows and the beads, a promise is         *)
(* verified by the grace period after its request was answered, and beads     *)
(* are closed one by one from a list that grows old meanwhile.                *)
(*                                                                          *)
(* Each call to br, each lock section and each hand-over to another goroutine *)
(* is one action. The grace period is seen through its contract. The bead a   *)
(* request's promise may be filed as is identified with the request.          *)
(***************************************************************************)
EXTENDS Naturals, Sequences, FiniteSets, BeadStore

CONSTANTS Requests,   \* the POSTs to /api/v2/analyze
          OldBeads,   \* beads left open by earlier processes
          Sessions,   \* session keys
          EmptyKey,   \* the sessions among them whose key is ""
          TagOf,      \* sessionTag of each session
          LowerTag,   \* what matchesSession looks for
          OldTag,     \* the session tag of each old bead
          NoTag,
          Messages,
          Promises,   \* the messages the detector reports
          Indicating, \* the messages with one of AutoResolve's indicators
          Fulfils,    \* the promises each message fulfils
          WindowSize,
          DryRuns     \* the settings of general.dry_run that are considered

ASSUME AnalyzeAssumption ==
  /\ Requests \cap OldBeads = {}
  /\ Beads = Requests \cup OldBeads
  /\ EmptyKey \subseteq Sessions
  /\ \A s \in EmptyKey : TagOf[s] = NoTag
  /\ Promises \subseteq Messages
  /\ Indicating \subseteq Messages
  /\ Fulfils \in [Messages -> SUBSET Promises]
  /\ WindowSize \in Nat \ {0}
  /\ DryRuns \subseteq BOOLEAN

VARIABLES
  window,  \* v2.sessions: the last messages of each session
  stage,   \* how far each request is
  sess,    \* its session, as a set: empty until it arrives
  buf,     \* its bufferCopy
  todo,    \* the listed beads it may still close
  matches, \* the beads AutoResolve closed for it, and put in its answer
  target,  \* the first listed bead that matches, for all fulfilments the same
  due,     \* the fulfilments it still acts upon
  status,  \* the grace period's status of its promise
  outcome, \* what the verification of its promise concluded
  filed,   \* how far the callback of its promise is
  log,     \* history: all messages of each session
  closer,  \* history: the session whose message closed a bead, as a set
  announced  \* history: the beads onResolve was called for

Grace == INSTANCE GraceContract WITH Calls <- Requests

requestVars == <<stage, sess, buf, todo, matches, target, due>>
graceVars   == <<status, outcome, filed>>
historyVars == <<log, closer, announced>>
vars == <<bead, dryRun, window, requestVars, graceVars, historyVars>>

Stages == {"idle", "received", "closing", "context", "fulfil", "answered", "failed", "ignored"}

Init ==
  /\ bead = [b \in Beads |-> IF b \in OldBeads THEN "open" ELSE "absent"]
  /\ dryRun \in DryRuns
  /\ window = [s \in Sessions |-> <<>>]
  /\ stage = [r \in Requests |-> "idle"]
  /\ sess = [r \in Requests |-> {}]
  /\ buf = [r \in Requests |-> <<>>]
  /\ todo = [r \in Requests |-> {}]
  /\ matches = [r \in Requests |-> {}]
  /\ target = [r \in Requests |-> {}]
  /\ due = [r \in Requests |-> 0]
  /\ Grace!ContractInit
  /\ filed = [r \in Requests |-> "no"]
  /\ log = [s \in Sessions |-> <<>>]
  /\ closer = [b \in Beads |-> {}]
  /\ announced = {}

-----------------------------------------------------------------------------
(* Helpers. A definition called Bug... is a seeded fault in the one after it. *)

\* createTags: a bead carries the tag of the session that promised it.
BeadTag(b) ==
  IF b \in OldBeads THEN OldTag[b]
  ELSE IF sess[b] = {} THEN NoTag ELSE TagOf[CHOOSE s \in sess[b] : TRUE]

\* Taking any open bead for the session's.
BugAnySession(b, s) == b \in Beads

\* matchesSession: an untagged bead matches every session.
MatchesSession(b, s) ==
  s \in EmptyKey \/ BeadTag(b) \in {NoTag, LowerTag[s]}

\* Trimming only once the window is longer by one more.
BugTrimLate(w) ==
  IF Len(w) > WindowSize + 1 THEN SubSeq(w, Len(w) - WindowSize + 1, Len(w)) ELSE w

\* The last WindowSize messages.
Trim(w) ==
  IF Len(w) > WindowSize THEN SubSeq(w, Len(w) - WindowSize + 1, Len(w)) ELSE w

\* Analyze: the promises of a window that a later message of it fulfils.
Fulfilled(w) ==
  {i \in DOMAIN w : w[i] \in Promises /\ \E j \in i + 1 .. Len(w) : w[i] \in Fulfils[w[j]]}

Message(r) == buf[r][Len(buf[r])]

\* onResolve, in a goroutine of its own: notifyResolved, silent in a dry run.
Announce(B) == announced' = IF dryRun THEN announced ELSE announced \cup B

ClosedBy(b, s) ==
  closer' = IF bead'[b] = bead[b] THEN closer ELSE [closer EXCEPT ![b] = {s}]

-----------------------------------------------------------------------------
(* handleAnalyze *)

\* Not a POST, not JSON, or not an assistant's message: nothing happens.
Ignore(r) ==
  /\ stage[r] = "idle"
  /\ stage' = [stage EXCEPT ![r] = "ignored"]
  /\ UNCHANGED <<bead, dryRun, window, sess, buf, todo, matches, target, due, graceVars, historyVars>>

\* Append to the session's window and copy it, under v2.mu.
Receive(r, s, m) ==
  /\ stage[r] = "idle"
  /\ window' = [window EXCEPT ![s] = Trim(Append(@, m))]
  /\ buf' = [buf EXCEPT ![r] = window'[s]]
  /\ sess' = [sess EXCEPT ![r] = {s}]
  /\ stage' = [stage EXCEPT ![r] = "received"]
  /\ log' = [log EXCEPT ![s] = Append(@, m)]
  /\ UNCHANGED <<bead, dryRun, todo, matches, target, due, graceVars, closer, announced>>

\* A promise: scheduleGrace. The id is the session's key and the nanosecond, so
\* that it may replace a pending promise of the session, W, of the same instant.
SchedulePromise(r, s, W) ==
  /\ stage[r] = "received" /\ s \in sess[r]
  /\ Message(r) \in Promises
  /\ W = {} \/ \E q \in Requests \ {r} : W = {q} /\ sess[q] = sess[r]
  /\ Grace!Accept(r, W)
  /\ stage' = [stage EXCEPT ![r] = "context"]
  /\ UNCHANGED <<bead, dryRun, window, sess, buf, todo, matches, target, due, filed, historyVars>>

MayAutoResolve(r, s) == TagOf[s] # NoTag /\ Message(r) \in Indicating

\* AutoResolve has nothing to look for.
NoAutoResolve(r, s) ==
  /\ stage[r] = "received" /\ s \in sess[r]
  /\ Message(r) \notin Promises
  /\ ~MayAutoResolve(r, s)
  /\ stage' = [stage EXCEPT ![r] = "context"]
  /\ UNCHANGED <<bead, dryRun, window, sess, buf, todo, matches, target, due, graceVars, historyVars>>

\* AutoResolve lists the open beads, and keeps those with the session's tag.
ListOwn(r, s, ok) ==
  /\ stage[r] = "received" /\ s \in sess[r]
  /\ Message(r) \notin Promises
  /\ MayAutoResolve(r, s)
  /\ stage' = [stage EXCEPT ![r] = IF ok THEN "closing" ELSE "failed"]
  /\ todo' = [todo EXCEPT ![r] = IF ok THEN {b \in Open : BeadTag(b) = TagOf[s]} ELSE {}]
  /\ UNCHANGED <<bead, dryRun, window, sess, buf, matches, target, due, graceVars, historyVars>>

\* Noting a bead as resolved before asking br.
BugMatchFirst(r, b, ok) == [matches EXCEPT ![r] = @ \cup {b}]

MatchesWith(r, b, ok) == IF ok THEN [matches EXCEPT ![r] = @ \cup {b}] ELSE matches

\* AutoResolve closes the next bead; an error ends the request, and what was
\* closed before it is neither announced nor answered.
CloseOwn(r, s, b, ok) ==
  /\ stage[r] = "closing" /\ s \in sess[r]
  /\ b \in todo[r]
  /\ Resolve(b, ok)
  /\ ClosedBy(b, s)
  /\ matches' = MatchesWith(r, b, ok)
  /\ todo' = [todo EXCEPT ![r] = IF ok THEN @ \ {b} ELSE {}]
  /\ stage' = [stage EXCEPT ![r] = IF ok THEN @ ELSE "failed"]
  /\ UNCHANGED <<dryRun, window, sess, buf, target, due, graceVars, log, announced>>

AnnounceOwn(r) ==
  /\ stage[r] = "closing"
  /\ todo[r] = {}
  /\ Announce(matches[r])
  /\ stage' = [stage EXCEPT ![r] = "context"]
  /\ UNCHANGED <<bead, dryRun, window, sess, buf, todo, matches, target, due, graceVars, log, closer>>

-----------------------------------------------------------------------------
(* addContextResults *)

\* Nothing was fulfilled; or no open bead matches; or the list cannot be had, which is not reported.
NoneFulfilled(r) ==
  /\ stage[r] = "context"
  /\ stage' = [stage EXCEPT ![r] = "answered"]
  /\ UNCHANGED <<bead, dryRun, window, sess, buf, todo, matches, target, due, graceVars, historyVars>>

\* The open beads are listed once; b is the first of those that match.
ListMatching(r, s, b) ==
  /\ stage[r] = "context" /\ s \in sess[r]
  /\ Fulfilled(buf[r]) # {}
  /\ b \in Open /\ MatchesSession(b, s)
  /\ target' = [target EXCEPT ![r] = {b}]
  /\ due' = [due EXCEPT ![r] = Cardinality(Fulfilled(buf[r]))]
  /\ stage' = [stage EXCEPT ![r] = "fulfil"]
  /\ UNCHANGED <<bead, dryRun, window, sess, buf, todo, matches, graceVars, historyVars>>

\* One fulfilment: close the bead and announce it, whether or not that worked.
CloseMatching(r, s, b, ok) ==
  /\ stage[r] = "fulfil" /\ s \in sess[r]
  /\ due[r] > 0
  /\ b \in target[r]
  /\ Resolve(b, ok)
  /\ ClosedBy(b, s)
  /\ Announce({b})
  /\ due' = [due EXCEPT ![r] = @ - 1]
  /\ UNCHANGED <<dryRun, window, stage, sess, buf, todo, matches, target, graceVars, log>>

Answer(r) ==
  /\ stage[r] = "fulfil"
  /\ due[r] = 0
  /\ stage' = [stage EXCEPT ![r] = "answered"]
  /\ UNCHANGED <<bead, dryRun, window, sess, buf, todo, matches, target, due, graceVars, historyVars>>

-----------------------------------------------------------------------------
(* The grace period, and the callback that serve.go gives it *)

GraceRuns(r) ==
  /\ Grace!Begin(r) \/ Grace!Conclude(r)
  /\ UNCHANGED <<bead, dryRun, window, requestVars, filed, historyVars>>

\* gracePeriod.Stop withdraws all that wait.
StopGrace ==
  /\ \E r \in Requests : status[r] = "waiting"
  /\ Grace!Withdraw(Requests)
  /\ UNCHANGED <<bead, dryRun, window, requestVars, filed, historyVars>>

MustFile(r) == outcome[r] = "unbacked" /\ ~dryRun

\* The callback returns at once ...
NothingToFile(r) ==
  /\ ~MustFile(r)
  /\ Grace!Deliver(r)
  /\ filed' = [filed EXCEPT ![r] = "not needed"]
  /\ UNCHANGED <<bead, dryRun, window, requestVars, historyVars>>

\* ... or creates a bead. br create may fail, and may be killed after it wrote.
FileBead(r, ok, wrote) ==
  /\ MustFile(r)
  /\ ok => wrote
  /\ Grace!Deliver(r)
  /\ bead' = IF wrote THEN [bead EXCEPT ![r] = "open"] ELSE bead
  /\ filed' = [filed EXCEPT ![r] = IF ok THEN "created" ELSE "failed"]
  /\ UNCHANGED <<dryRun, window, requestVars, historyVars>>

\* Returning early when the webhook fails.
BugGiveUp(ok) == IF ok THEN "told" ELSE "given up"

AfterWebhook(ok) == "told"

\* The webhook first, best effort ...
TellWebhook(r, ok) ==
  /\ filed[r] = "created"
  /\ filed' = [filed EXCEPT ![r] = AfterWebhook(ok)]
  /\ UNCHANGED <<bead, dryRun, window, requestVars, status, outcome, historyVars>>

\* ... then Relay.
TellRelay(r) ==
  /\ filed[r] = "told"
  /\ filed' = [filed EXCEPT ![r] = "reported"]
  /\ UNCHANGED <<bead, dryRun, window, requestVars, status, outcome, historyVars>>

-----------------------------------------------------------------------------
(* Other ways to close a bead *)

\* handleResolveCommitment of a bead that there is.
ResolveByHand(b, ok) ==
  /\ bead[b] # "absent"
  /\ Resolve(b, ok)
  /\ Announce(IF ok THEN {b} ELSE {})
  /\ UNCHANGED <<dryRun, window, requestVars, graceVars, log, closer>>

\* A user with br, or the re-check loop.
CloseElsewhere(b) ==
  /\ bead[b] = "open"
  /\ bead' = [bead EXCEPT ![b] = "closed"]
  /\ UNCHANGED <<dryRun, window, requestVars, graceVars, historyVars>>

-----------------------------------------------------------------------------
Handle(r) ==
  \/ \E s \in Sessions :
       \/ \E W \in SUBSET Requests : SchedulePromise(r, s, W)
       \/ NoAutoResolve(r, s)
       \/ \E ok \in BOOLEAN : ListOwn(r, s, ok)
       \/ \E b \in Beads : ListMatching(r, s, b)
       \/ \E b \in Beads, ok \in BOOLEAN : CloseOwn(r, s, b, ok) \/ CloseMatching(r, s, b, ok)
  \/ AnnounceOwn(r) \/ NoneFulfilled(r) \/ Answer(r)

Callback(r) ==
  \/ NothingToFile(r)
  \/ \E ok, wrote \in BOOLEAN : FileBead(r, ok, wrote)
  \/ \E ok \in BOOLEAN : TellWebhook(r, ok)
  \/ TellRelay(r)

Next ==
  \/ \E r \in Requests :
       \/ Ignore(r)
       \/ \E s \in Sessions, m \in Messages : Receive(r, s, m)
       \/ Handle(r) \/ GraceRuns(r) \/ Callback(r)
  \/ StopGrace
  \/ \E b \in Beads : CloseElsewhere(b) \/ \E ok \in BOOLEAN : ResolveByHand(b, ok)

Spec == Init /\ [][Next]_vars

\* net/http runs a handler on, br returns within its timeout, and the grace
\* period keeps its promise (module Grace). Nobody has to send a message.
Fairness ==
  \A r \in Requests : WF_vars(Handle(r)) /\ WF_vars(GraceRuns(r)) /\ WF_vars(Callback(r))

FairSpec == Spec /\ Fairness

-----------------------------------------------------------------------------
TypeOK ==
  /\ bead \in [Beads -> BeadStates] /\ dryRun \in BOOLEAN
  /\ \A s \in Sessions : window[s] \in Seq(Messages) /\ Len(window[s]) <= WindowSize
  /\ stage \in [Requests -> Stages]
  /\ sess \in [Requests -> SUBSET Sessions]
  /\ \A r \in Requests : buf[r] \in Seq(Messages)
  /\ todo \in [Requests -> SUBSET Beads]
  /\ matches \in [Requests -> SUBSET Beads]
  /\ target \in [Requests -> SUBSET Beads]
  /\ due \in [Requests -> 0..WindowSize]
  /\ status \in [Requests -> Grace!Statuses]
  /\ outcome \in [Requests -> Grace!Outcomes]
  /\ filed \in [Requests -> {"no", "not needed", "failed", "created", "told", "reported"}]
  /\ \A s \in Sessions : log[s] \in Seq(Messages)
  /\ closer \in [Beads -> SUBSET Sessions]
  /\ announced \in SUBSET Beads

\* A message closes a bead only with a cause in its own session: the bead is the
\* session's or nobody's (or the key is empty), and the session's messages
\* hold an indicator or a promise with its later fulfilment less than a window
\* away (v2.go:165-181, 232, 278-289, resolve.go:34-50).
Caused(s) ==
  \/ \E j \in DOMAIN log[s] : log[s][j] \in Indicating
  \/ \E i, j \in DOMAIN log[s] : i < j /\ j < i + WindowSize /\ log[s][i] \in Fulfils[log[s][j]]

ClosedWithCause ==
  \A b \in Beads : \A s \in closer[b] :
    Caused(s) /\ (s \in EmptyKey \/ BeadTag(b) \in {NoTag, TagOf[s], LowerTag[s]})

\* What the answer calls resolved is closed, though the list is old by the time
\* its beads are closed and others close them meanwhile (v2.go:232-248).
ResolvedIsClosed ==
  \A r \in Requests : \A b \in matches[r] : bead[b] = "closed" \/ dryRun

\* In dry-run mode nothing a message leads to changes a bead or is announced
\* (serve.go:106-109,140-143, beads.go:110).
DryRunIsSilent ==
  [][(dryRun /\ \A b \in Beads : ~CloseElsewhere(b)) => UNCHANGED <<bead, announced>>]_vars

\* Every accepted promise is withdrawn, needs no bead, could not be filed, or is
\* filed and reported; errors of the webhook do not stop the report.
EventuallyReported ==
  \A r \in Requests :
    status[r] = "waiting" ~>
      (status[r] = "withdrawn" \/ filed[r] \in {"not needed", "failed", "reported"})
=============================================================================
