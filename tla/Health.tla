-------------------------------- MODULE Health --------------------------------
(***************************************************************************)
(* runtimeHealth of cmd/oathkeeper/serve.go: the failures of the last while, *)
(* oldest first, that decide what /readyz answers. Every operation is one    *)
(* section of its lock. The clock does not go back.                          *)
(***************************************************************************)
EXTENDS Naturals, Sequences

CONSTANTS Threshold,  \* general.readiness_error_threshold, at least 1
          Window,     \* general.readiness_error_window
          Cap,        \* 2048: the list may not grow longer
          Keep,       \* 1024: what is left of it when it would
          MaxTime     \* bound: how far the clock goes

ASSUME HealthAssumption ==
  /\ Threshold \in Nat \ {0}
  /\ Window \in Nat \ {0}
  /\ Keep \in Nat \ {0} /\ Cap \in Nat /\ Keep <= Cap
  /\ MaxTime \in Nat

VARIABLES
  now,
  failures,  \* the times of the remembered failures
  recorded   \* history: the times of all failures, none forgotten

healthVars == <<failures, recorded>>

HealthInit ==
  /\ now = 0
  /\ failures = <<>>
  /\ recorded = <<>>

\* Before(cutoff).
Stale(at) == at + Window < now

\* pruneLocked: the stale failures at the front go.
Pruned ==
  LET fresh == {i \in DOMAIN failures : ~Stale(failures[i])}
  IN  IF fresh = {} THEN <<>>
      ELSE SubSeq(failures, CHOOSE i \in fresh : \A j \in fresh : i <= j, Len(failures))

\* Keeping the oldest.
BugKeepOld(s) == IF Len(s) > Cap THEN SubSeq(s, 1, Keep) ELSE s

Cut(s) == IF Len(s) > Cap THEN SubSeq(s, Len(s) - Keep + 1, Len(s)) ELSE s

RecordFailure ==
  /\ failures' = Cut(Append(Pruned, now))
  /\ recorded' = Append(recorded, now)

\* Ready prunes, and answers by what is left.
Ready == Len(Pruned) < Threshold

Probe ==
  /\ failures' = Pruned
  /\ UNCHANGED <<now, recorded>>

Tick ==
  /\ now < MaxTime
  /\ now' = now + 1
  /\ UNCHANGED healthVars
=============================================================================
