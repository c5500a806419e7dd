-------------------------------- MODULE Notify --------------------------------
(***************************************************************************)
(* The delivery of notifications, as the grace callback, notifyResolved and  *)
(* the re-check loop's alerts do it: first the webhook, pkg/hooks, then the  *)
(* relay command, pkg/relaypub, each with its own retries; a channel that    *)
(* gives up is recorded as a runtime failure. Notifications run side by side *)
(* in goroutines of their own.                                              *)
(***************************************************************************)
EXTENDS Health, FiniteSets

CONSTANTS Notices,
          WebhookOn,   \* a webhook is configured
          RelayOn,     \* relay.enabled
          MaxRetries,  \* attempts of the webhook
          Retries      \* attempts of the relay, at least 1

ASSUME NotifyAssumption ==
  /\ WebhookOn \in BOOLEAN /\ RelayOn \in BOOLEAN
  /\ MaxRetries \in Nat \ {0} /\ Retries \in Nat \ {0}

VARIABLES
  stage,     \* how far each notification is
  tries,     \* attempts made on the channel in hand
  taken,     \* history: how often each channel's other side got the notice
  lost,      \* history: how often it did so and the answer did not say so
  told,      \* history: the channels that answered with success
  gaveUp     \* history: the channels that were recorded as failed

noticeVars == <<stage, tries, taken, lost, told, gaveUp>>
vars == <<now, healthVars, noticeVars>>

Channels == {"webhook", "relay"}

Init ==
  /\ HealthInit
  /\ stage = [n \in Notices |-> "idle"]
  /\ tries = [n \in Notices |-> 0]
  /\ taken = [n \in Notices |-> [c \in Channels |-> 0]]
  /\ lost = [n \in Notices |-> [c \in Channels |-> 0]]
  /\ told = [n \in Notices |-> {}]
  /\ gaveUp = [n \in Notices |-> {}]

-----------------------------------------------------------------------------
(* A definition called Bug... is a seeded fault in the one after it.          *)

AfterWebhook == IF RelayOn THEN "relay" ELSE "done"
First == IF WebhookOn THEN "webhook" ELSE AfterWebhook
After(c) == IF c = "webhook" THEN AfterWebhook ELSE "done"

Attempts(c) == IF c = "webhook" THEN MaxRetries ELSE Retries

\* Trying again after a success that is not the first.
BugAsksAgain(c, answer, k) == k = Attempts(c) \/ (answer = "success" /\ k = 1)

\* Trying until there is a success.
BugInsists(c, answer, k) == answer = "success"

\* The last attempt: success, a refusal below 500, or no attempts left.
Final(c, answer, k) ==
  answer \in {"success", "refused"} \/ k = Attempts(c)

\* Recording nothing for a refusal.
BugRefusedIsFine(answer) == answer \in {"success", "refused"}

Delivered(answer) == answer = "success"

\* serve.go starts the notification.
Begin(n) ==
  /\ stage[n] = "idle"
  /\ stage' = [stage EXCEPT ![n] = First]
  /\ UNCHANGED <<now, healthVars, tries, taken, lost, told, gaveUp>>

\* Going on after an attempt: the next one, or the next channel and, if this one
\* has failed for good, recordRuntimeError.
GoOn(n, c, answer) ==
  IF Final(c, answer, tries[n] + 1)
    THEN /\ stage' = [stage EXCEPT ![n] = After(c)]
         /\ tries' = [tries EXCEPT ![n] = 0]
         /\ IF Delivered(answer)
              THEN UNCHANGED <<gaveUp, healthVars>>
              ELSE gaveUp' = [gaveUp EXCEPT ![n] = @ \cup {c}] /\ RecordFailure
    ELSE /\ tries' = [tries EXCEPT ![n] = @ + 1]
         /\ UNCHANGED <<stage, gaveUp, healthVars>>

\* The other side may have taken a notice whose attempt fails: the answer was lost to
\* a timeout, or it was an error afterwards.
Attempt(n, c, answer, took) ==
  /\ stage[n] = c
  /\ answer = "success" => took
  /\ taken' = IF took THEN [taken EXCEPT ![n][c] = @ + 1] ELSE taken
  /\ lost' = IF took /\ answer # "success" THEN [lost EXCEPT ![n][c] = @ + 1] ELSE lost
  /\ told' = IF answer = "success" THEN [told EXCEPT ![n] = @ \cup {c}] ELSE told
  /\ GoOn(n, c, answer)
  /\ UNCHANGED now

\* Webhook.send posts; a URL that is none is like a refusal.
Send(n, answer, took) ==
  /\ answer = "refused" => ~took
  /\ Attempt(n, "webhook", answer, took)

\* Publisher.publish runs the relay command, which knows success and failure only.
Publish(n, answer, took) ==
  /\ answer # "refused"
  /\ Attempt(n, "relay", answer, took)

\* GET /readyz.
GetReady == Probe /\ UNCHANGED noticeVars

Clock == Tick /\ UNCHANGED noticeVars

-----------------------------------------------------------------------------
Deliver(n) ==
  \/ Begin(n)
  \/ \E answer \in {"success", "refused", "failed"}, took \in BOOLEAN :
       Send(n, answer, took) \/ Publish(n, answer, took)

Next == (\E n \in Notices : Deliver(n)) \/ GetReady \/ Clock

Spec == Init /\ [][Next]_vars

-----------------------------------------------------------------------------
TypeOK ==
  /\ now \in 0..MaxTime
  /\ failures \in Seq(0..now) /\ Len(failures) <= Cap
  /\ recorded \in Seq(0..now)
  /\ stage \in [Notices -> {"idle", "webhook", "relay", "done"}]
  /\ tries \in [Notices -> Nat]
  /\ \A n \in Notices : tries[n] < (IF stage[n] \in Channels THEN Attempts(stage[n]) ELSE 1)
  /\ taken \in [Notices -> [Channels -> Nat]] /\ lost \in [Notices -> [Channels -> Nat]]
  /\ told \in [Notices -> SUBSET Channels] /\ gaveUp \in [Notices -> SUBSET Channels]

\* No notification gets lost silently: when it is over, each configured channel has
\* answered with success, and has the notice, or is recorded as failed (webhook.go:82,
\* publisher.go:104, serve.go:127-136).
Configured == {c \in Channels : IF c = "webhook" THEN WebhookOn ELSE RelayOn}

DeliveredOrRecorded ==
  \A n \in Notices : stage[n] = "done" =>
    \A c \in Configured : (c \in told[n] /\ taken[n][c] > 0) \/ c \in gaveUp[n]

\* The other side gets a notice twice only because an answer to it was lost: nothing
\* is sent again after an answer of success (webhook.go:82-104, publisher.go:103-123).
DuplicateOnlyIfLost ==
  \A n \in Notices, c \in Channels :
    taken[n][c] = lost[n][c] + (IF c \in told[n] THEN 1 ELSE 0)

\* The service is ready exactly as long as fewer than Threshold failures happened within
\* the window, although the list is pruned by time and cut by length, as long as the
\* threshold is not above what a cut leaves (serve.go:530-575).
Recent == Cardinality({i \in DOMAIN recorded : ~Stale(recorded[i])})

ReadyIsRight == Threshold <= Keep => (Ready <=> Recent < Threshold)
=============================================================================
