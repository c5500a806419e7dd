---------------------------- MODULE MCVerification ----------------------------
(* Small instances of the verification of promises. *)
EXTENDS Verification, TLC

CONSTANTS p1, p2

\* A job that its first field enables whatever the second says, and one that has
\* a status only.
Flags == {[enabled |-> "true",  active |-> "false", status |-> "ok"],
          [enabled |-> "unset", active |-> "unset", status |-> "paused"]}

PromiseSymmetry == Permutations(Promises)
=============================================================================
