---------------------------- MODULE GraceContract ----------------------------
(***************************************************************************)
(* What the grace period scheduler promises to whoever calls Schedule, with *)
(* no map, no lock and no timers: each accepted verification is either      *)
(* withdrawn before it starts, and then stays silent for ever, or it runs   *)
(* and its outcome is delivered to the callback exactly once.               *)
(***************************************************************************)
CONSTANT Calls

VARIABLES status,    \* [Calls -> Statuses]
          outcome    \* what the verification of a call concluded

cvars == <<status, outcome>>

Statuses == {"new", "waiting", "withdrawn", "verifying", "delivered"}
Outcomes == {"none", "backed", "unbacked"}

ContractInit ==
  /\ status = [s \in Calls |-> "new"]
  /\ outcome = [s \in Calls |-> "none"]

\* A set of waiting calls is withdrawn, and perhaps a new one accepted.
Withdrawn(W) ==
  [s \in Calls |-> IF s \in W /\ status[s] = "waiting" THEN "withdrawn" ELSE status[s]]

Accept(s, W) ==
  /\ status[s] = "new"
  /\ s \notin W
  /\ status' = [Withdrawn(W) EXCEPT ![s] = "waiting"]
  /\ UNCHANGED outcome

Withdraw(W) ==
  /\ status' = Withdrawn(W)
  /\ UNCHANGED outcome

Begin(s) ==
  /\ status[s] = "waiting"
  /\ status' = [status EXCEPT ![s] = "verifying"]
  /\ UNCHANGED outcome

Conclude(s) ==
  /\ status[s] = "verifying"
  /\ outcome[s] = "none"
  /\ \E o \in Outcomes \ {"none"} : outcome' = [outcome EXCEPT ![s] = o]
  /\ UNCHANGED status

Deliver(s) ==
  /\ status[s] = "verifying"
  /\ outcome[s] # "none"
  /\ status' = [status EXCEPT ![s] = "delivered"]
  /\ UNCHANGED outcome

ContractNext ==
  \/ \E s \in Calls, W \in SUBSET Calls : Accept(s, W)
  \/ \E W \in SUBSET Calls : Withdraw(W)
  \/ \E s \in Calls : Begin(s) \/ Conclude(s) \/ Deliver(s)

ContractSpec == ContractInit /\ [][ContractNext]_cvars
=============================================================================
