------------------------------ MODULE MCRecheck ------------------------------
(* A small instance of the re-check loop. *)
EXTENDS Recheck
=============================================================================
