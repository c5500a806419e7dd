------------------------------- MODULE MCPoller -------------------------------
(* Small instances of the transcript poller. *)
EXTENDS Poller, TLC

MessageSymmetry == Permutations(Messages)

PollerSymmetry == MessageSymmetry \cup Permutations(Files)
=============================================================================
