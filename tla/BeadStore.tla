------------------------------ MODULE BeadStore ------------------------------
(***************************************************************************)
(* The bead tracker as oathkeeper sees it: pkg/beads runs the external br   *)
(* command, one process per call, with a five second timeout. Only the      *)
(* status of the beads matters here. A call may fail; a close that is        *)
(* reported as failed may have taken effect all the same, when br was       *)
(* killed by the timeout after it had written.                              *)
(***************************************************************************)
CONSTANT Beads

VARIABLES
  bead,   \* the status of every bead
  dryRun  \* general.dry_run, SetDryRun: br is never asked to change anything

BeadStates == {"absent", "open", "closed"}

Open == {b \in Beads : bead[b] = "open"}

\* Forgetting that the store may be in dry-run mode.
BugAlwaysClose(b, ok) ==
  \/ bead[b] = "open" /\ bead' = [bead EXCEPT ![b] = "closed"]
  \/ bead[b] # "open" /\ ok = (bead[b] = "closed") /\ UNCHANGED bead

\* Resolve: close one bead; ok says whether the caller is told it succeeded. A
\* bead that is closed already may be closed again with success or refused: that
\* is up to br, and nothing here depends on it.
Resolve(b, ok) ==
  \/ dryRun /\ ok /\ UNCHANGED bead
  \/ /\ ~dryRun /\ bead[b] = "open"
     /\ bead' = [bead EXCEPT ![b] = "closed"]
  \/ /\ ~dryRun /\ ~ok
     /\ UNCHANGED bead
  \/ /\ ~dryRun /\ bead[b] = "closed" /\ ok
     /\ UNCHANGED bead
=============================================================================
