------------------------------- MODULE MCGrace -------------------------------
(* Small instances of the grace period scheduler. *)
EXTENDS Grace, TLC

CONSTANTS c1, c2, c3, a, b, k1

\* Three commitments with one id: they are interchangeable.
CollidingIdOf == c1 :> a @@ c2 :> a @@ c3 :> a

CallSymmetry == Permutations({c1, c2, c3})

\* Every commitment has its own id.
UniqueIdOf == c1 :> a @@ c2 :> b

CancelOfA == k1 :> a
=============================================================================
