---------------------------- MODULE MCLifecycle ----------------------------
(* A small instance of the process: its constants need no definitions. *)
EXTENDS Lifecycle
=============================================================================
