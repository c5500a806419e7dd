------------------------------ MODULE MCNotify ------------------------------
(* A small instance of the notifications. *)
EXTENDS Notify, TLC

NoticeSymmetry == Permutations(Notices)
=============================================================================
