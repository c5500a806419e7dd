----------------------------- MODULE GraceProofs -----------------------------
(***************************************************************************)
(* What holds of the grace period scheduler for every set of calls, ids and *)
(* cancellations: its type, that no channel is closed twice, that unique    *)
(* ids leave no verification out of reach, and that it implements           *)
(* GraceContract.                                                           *)
(***************************************************************************)
EXTENDS Grace, TLAPS

-----------------------------------------------------------------------------
(* The inductive invariant *)

\* An entry in the map is under its own id, was registered, and is open unless
\* a panic left the lock section half way.
PendingInv ==
  \A i \in Ids : pending[i] # None =>
    /\ IdOf[pending[i]] = i
    /\ Registered(pending[i])
    /\ ~abandoned => closes[pending[i]] = 0

\* An entry taken out to be closed: open, and no longer in the map.
Taken(e) ==
  /\ Registered(e)
  /\ closes[e] = 0
  /\ \A i \in Ids : pending[i] # e

\* Each taken entry has one taker, and a Cancel takes one entry.
TakenInv ==
  /\ \A c \in Cancels : \A e \in held[c] : Taken(e)
  /\ \A e \in toClose : Taken(e)
  /\ \A c, d \in Cancels : c # d => held[c] \cap held[d] = {}
  /\ \A c \in Cancels : held[c] \cap toClose = {}
  /\ \A c \in Cancels : \A e, f \in held[c] : e = f

\* A Cancel that has taken nothing holds nothing, and neither does Stop.
IdleInv ==
  /\ \A c \in Cancels : cancel[c] = "idle" => held[c] = {}
  /\ stop = "idle" => toClose = {}

CloseInv ==
  \A s \in Calls : closes[s] <= 1 /\ (~Registered(s) => closes[s] = 0)

\* The timer is there once StartTimer ran; its function runs once it fired, and
\* has an outcome once the verifier returned.
RunInv ==
  \A s \in Calls :
    /\ timer[s] # "none" => sched[s] \in {"started", "returned"}
    /\ timer[s] # "fired" => fire[s] = "idle"
    /\ outcome[s] = "none" <=> fire[s] \in {"idle", "begun", "verifying", "skipped"}

IInv == TypeOK /\ PendingInv /\ TakenInv /\ IdleInv /\ CloseInv /\ RunInv

-----------------------------------------------------------------------------
(* Type correctness: every variable of the scheduler keeps its range. *)
LEMMA TypeInit == Init => TypeOK
<1> SUFFICES ASSUME Init PROVE TypeOK
  OBVIOUS
<1>1. pending \in [Ids -> Calls \cup {None}] /\ abandoned \in BOOLEAN
  BY DEF Init
<1>2. /\ sched \in [Calls -> {"idle", "registered", "started", "returned", "panicked"}]
      /\ timer \in [Calls -> {"none", "running", "fired", "stopped"}]
      /\ closes \in [Calls -> Nat]
  BY DEF Init
<1>3. /\ fire \in [Calls -> {"idle", "begun", "verifying", "verified", "removed",
                             "called", "skipped"}]
      /\ outcome \in [Calls -> {"none", "backed", "unbacked"}]
  BY DEF Init
<1>4. /\ cancel \in [Cancels -> {"idle", "took", "true", "false", "panicked"}]
      /\ held \in [Cancels -> SUBSET Calls]
  BY DEF Init
<1>5. /\ stop \in {"idle", "closing", "done", "panicked"}
      /\ toClose \in SUBSET Calls /\ atStop \in SUBSET Calls
  BY DEF Init
<1> QED BY <1>1, <1>2, <1>3, <1>4, <1>5 DEF TypeOK

LEMMA TypeStep == TypeOK /\ [Next]_vars => TypeOK'
<1> SUFFICES ASSUME TypeOK, [Next]_vars PROVE TypeOK'
  OBVIOUS
<1> USE GraceAssumption DEF TypeOK
<1>1. ASSUME NEW s \in Calls, Schedule(s) PROVE TypeOK'
  <2>1. CASE RegisterFresh(s)
    BY <2>1 DEF RegisterFresh, runVars, cancelVars, stopVars
  <2>2. CASE RegisterOver(s)
    BY <2>2 DEF RegisterOver, Found, CloseEntry, StopTimer, runVars, cancelVars, stopVars
  <2>3. CASE RegisterPanic(s)
    BY <2>3 DEF RegisterPanic, Found, CloseEntry, runVars, cancelVars, stopVars
  <2>4. CASE StartTimer(s)
    BY <2>4 DEF StartTimer, runVars, cancelVars, stopVars
  <2>5. CASE AssignTimer(s)
    BY <2>5 DEF AssignTimer, runVars, cancelVars, stopVars
  <2> QED BY <1>1, <2>1, <2>2, <2>3, <2>4, <2>5 DEF Schedule
<1>2. ASSUME NEW s \in Calls, TimerFunction(s) PROVE TypeOK'
  <2>1. CASE Fire(s)
    BY <2>1 DEF Fire, cancelVars, stopVars
  <2>2. CASE CheckCancel(s)
    BY <2>2 DEF CheckCancel, Look, scheduleVars, cancelVars, stopVars
  <2>3. ASSUME NEW r \in Results, Verify(s, r) PROVE TypeOK'
    BY <2>3 DEF Verify, scheduleVars, cancelVars, stopVars
  <2>4. CASE Remove(s)
    BY <2>4 DEF Remove, Delete, scheduleVars, cancelVars, stopVars
  <2>5. CASE Callback(s)
    BY <2>5 DEF Callback, scheduleVars, cancelVars, stopVars
  <2> QED BY <1>2, <2>1, <2>2, <2>3, <2>4, <2>5 DEF TimerFunction
<1>3. ASSUME NEW c \in Cancels, Cancel(c) PROVE TypeOK'
  <2>1. CASE CancelTake(c)
    BY <2>1 DEF CancelTake, Delete, Found, scheduleVars, runVars, stopVars
  <2>2. CASE CancelClose(c)
    BY <2>2 DEF CancelClose, CloseEntry, StopTimer, runVars, stopVars
  <2> QED BY <1>3, <2>1, <2>2 DEF Cancel
<1>4. ASSUME Stop PROVE TypeOK'
  <2>1. CASE StopTake
    BY <2>1 DEF StopTake, Entries, scheduleVars, runVars, cancelVars
  <2>2. ASSUME NEW e \in Calls, StopClose(e) PROVE TypeOK'
    BY <2>2 DEF StopClose, CloseEntry, StopTimer, runVars, cancelVars
  <2>3. CASE StopReturn
    BY <2>3 DEF StopReturn, scheduleVars, runVars, cancelVars
  <2> QED BY <1>4, <2>1, <2>2, <2>3 DEF Stop
<1>5. ASSUME UNCHANGED vars PROVE TypeOK'
  BY <1>5 DEF vars
<1> QED BY <1>1, <1>2, <1>3, <1>4, <1>5 DEF Next

\* Every variable keeps its type in every reachable state.
THEOREM TypeCorrect == Spec => []TypeOK
  BY TypeInit, TypeStep, PTL DEF Spec

-----------------------------------------------------------------------------
(* The invariant is inductive: one lemma per group of actions. *)

LEMMA InvInit == Init => IInv
<1> SUFFICES ASSUME Init PROVE IInv
  OBVIOUS
<1>1. TypeOK
  BY TypeInit
<1>2. PendingInv
  BY DEF Init, PendingInv
<1>3. TakenInv
  BY DEF Init, TakenInv
<1>4. IdleInv /\ CloseInv /\ RunInv
  BY DEF Init, IdleInv, CloseInv, RunInv, Registered
<1> QED BY <1>1, <1>2, <1>3, <1>4 DEF IInv

LEMMA ScheduleStep ==
  ASSUME IInv, NEW s \in Calls, Schedule(s)
  PROVE  PendingInv' /\ TakenInv' /\ IdleInv' /\ CloseInv' /\ RunInv'
<1> USE GraceAssumption DEF IInv, TypeOK, Registered
<1>1. CASE RegisterFresh(s)
  <2>1. PendingInv' BY <1>1 DEF RegisterFresh, PendingInv, CloseInv, runVars, cancelVars, stopVars
  <2>2. TakenInv' BY <1>1 DEF RegisterFresh, TakenInv, Taken, runVars, cancelVars, stopVars
  <2>3. IdleInv' /\ CloseInv' /\ RunInv'
    BY <1>1 DEF RegisterFresh, IdleInv, CloseInv, RunInv, runVars, cancelVars, stopVars
  <2> QED BY <2>1, <2>2, <2>3
<1>2. CASE RegisterOver(s)
  <2> PICK old \in Found(IdOf[s]) : HasTimer(old) /\ CloseEntry(old) /\ StopTimer(old)
    BY <1>2 DEF RegisterOver
  <2>1. /\ old \in Calls /\ old = pending[IdOf[s]] /\ old # s
        /\ closes[old] = 0 /\ sched[old] = "returned"
    BY <1>2 DEF RegisterOver, Found, HasTimer, PendingInv
  <2>2. PendingInv'
    BY <1>2, <2>1 DEF RegisterOver, PendingInv, CloseInv, CloseEntry, runVars, cancelVars, stopVars
  <2>3. TakenInv'
    BY <1>2, <2>1 DEF RegisterOver, TakenInv, Taken, CloseEntry, runVars, cancelVars, stopVars
  <2>4. IdleInv' /\ CloseInv' /\ RunInv'
    BY <1>2, <2>1 DEF RegisterOver, IdleInv, CloseInv, RunInv, CloseEntry, StopTimer, runVars, cancelVars, stopVars
  <2> QED BY <2>2, <2>3, <2>4
<1>3. CASE RegisterPanic(s)
  <2> PICK old \in Found(IdOf[s]) : ~HasTimer(old) /\ CloseEntry(old)
    BY <1>3 DEF RegisterPanic
  <2>1. old \in Calls /\ old = pending[IdOf[s]] /\ old # s /\ closes[old] = 0
    BY <1>3 DEF RegisterPanic, Found, PendingInv
  <2>2. PendingInv'
    BY <1>3, <2>1 DEF RegisterPanic, PendingInv, CloseEntry, runVars, cancelVars, stopVars
  <2>3. TakenInv'
    BY <1>3, <2>1 DEF RegisterPanic, TakenInv, Taken, CloseEntry, runVars, cancelVars, stopVars
  <2>4. IdleInv' /\ CloseInv' /\ RunInv'
    BY <1>3, <2>1 DEF RegisterPanic, IdleInv, CloseInv, RunInv, PendingInv, CloseEntry, runVars, cancelVars, stopVars
  <2> QED BY <2>2, <2>3, <2>4
<1>4. CASE StartTimer(s)
  <2>1. PendingInv' /\ CloseInv'
    BY <1>4 DEF StartTimer, PendingInv, CloseInv, runVars, cancelVars, stopVars
  <2>2. TakenInv' BY <1>4 DEF StartTimer, TakenInv, Taken, runVars, cancelVars, stopVars
  <2>3. IdleInv' /\ RunInv' BY <1>4 DEF StartTimer, IdleInv, RunInv, runVars, cancelVars, stopVars
  <2> QED BY <2>1, <2>2, <2>3
<1>5. CASE AssignTimer(s)
  <2>1. PendingInv' /\ CloseInv'
    BY <1>5 DEF AssignTimer, PendingInv, CloseInv, runVars, cancelVars, stopVars
  <2>2. TakenInv' BY <1>5 DEF AssignTimer, TakenInv, Taken, runVars, cancelVars, stopVars
  <2>3. IdleInv' /\ RunInv' BY <1>5 DEF AssignTimer, IdleInv, RunInv, runVars, cancelVars, stopVars
  <2> QED BY <2>1, <2>2, <2>3
<1> QED BY <1>1, <1>2, <1>3, <1>4, <1>5 DEF Schedule

LEMMA TimerFunctionStep ==
  ASSUME IInv, NEW s \in Calls, TimerFunction(s)
  PROVE  PendingInv' /\ TakenInv' /\ IdleInv' /\ CloseInv' /\ RunInv'
<1> USE GraceAssumption DEF IInv, TypeOK, Registered
<1>1. CASE Fire(s)
  <2>1. PendingInv' /\ CloseInv' BY <1>1 DEF Fire, PendingInv, CloseInv, cancelVars, stopVars
  <2>2. TakenInv' BY <1>1 DEF Fire, TakenInv, Taken, cancelVars, stopVars
  <2>3. IdleInv' /\ RunInv' BY <1>1 DEF Fire, IdleInv, RunInv, cancelVars, stopVars
  <2> QED BY <2>1, <2>2, <2>3
<1>2. CASE CheckCancel(s)
  <2>1. PendingInv' /\ CloseInv'
    BY <1>2 DEF CheckCancel, Look, PendingInv, CloseInv, scheduleVars, cancelVars, stopVars
  <2>2. TakenInv' BY <1>2 DEF CheckCancel, Look, TakenInv, Taken, scheduleVars, cancelVars, stopVars
  <2>3. IdleInv' /\ RunInv' BY <1>2 DEF CheckCancel, Look, IdleInv, RunInv, scheduleVars, cancelVars, stopVars
  <2> QED BY <2>1, <2>2, <2>3
<1>3. ASSUME NEW r \in Results, Verify(s, r)
      PROVE  PendingInv' /\ TakenInv' /\ IdleInv' /\ CloseInv' /\ RunInv'
  <2>1. PendingInv' /\ CloseInv'
    BY <1>3 DEF Verify, PendingInv, CloseInv, scheduleVars, cancelVars, stopVars
  <2>2. TakenInv' BY <1>3 DEF Verify, TakenInv, Taken, scheduleVars, cancelVars, stopVars
  <2>3. IdleInv' /\ RunInv' BY <1>3 DEF Verify, IdleInv, RunInv, scheduleVars, cancelVars, stopVars
  <2> QED BY <2>1, <2>2, <2>3
<1>4. CASE Remove(s)
  <2>1. PendingInv' /\ CloseInv'
    BY <1>4 DEF Remove, Delete, PendingInv, CloseInv, scheduleVars, cancelVars, stopVars
  <2>2. TakenInv' BY <1>4 DEF Remove, Delete, TakenInv, Taken, scheduleVars, cancelVars, stopVars
  <2>3. IdleInv' /\ RunInv' BY <1>4 DEF Remove, Delete, IdleInv, RunInv, scheduleVars, cancelVars, stopVars
  <2> QED BY <2>1, <2>2, <2>3
<1>5. CASE Callback(s)
  <2>1. PendingInv' /\ CloseInv'
    BY <1>5 DEF Callback, PendingInv, CloseInv, scheduleVars, cancelVars, stopVars
  <2>2. TakenInv' BY <1>5 DEF Callback, TakenInv, Taken, scheduleVars, cancelVars, stopVars
  <2>3. IdleInv' /\ RunInv' BY <1>5 DEF Callback, IdleInv, RunInv, scheduleVars, cancelVars, stopVars
  <2> QED BY <2>1, <2>2, <2>3
<1> QED BY <1>1, <1>2, <1>3, <1>4, <1>5 DEF TimerFunction

LEMMA CancelStep ==
  ASSUME IInv, NEW c \in Cancels, Cancel(c)
  PROVE  PendingInv' /\ TakenInv' /\ IdleInv' /\ CloseInv' /\ RunInv'
<1> USE GraceAssumption DEF IInv, TypeOK, Registered
<1>1. CASE CancelTake(c)
  <2>1. PendingInv' /\ IdleInv' /\ CloseInv' /\ RunInv'
    BY <1>1 DEF CancelTake, Delete, IdleInv, PendingInv, CloseInv, RunInv, scheduleVars, runVars, stopVars
  <2>2. \A e \in held'[c] : Taken(e)'
    BY <1>1 DEF CancelTake, Delete, Found, PendingInv, Taken, scheduleVars, runVars, stopVars
  <2>3. /\ \A d \in Cancels : d # c => held'[d] = held[d]
        /\ held'[c] = {pending[CancelId[c]]} \ {None}
        /\ toClose' = toClose
    BY <1>1 DEF CancelTake, Delete, Found, stopVars
  <2>4. \A e \in Calls : Taken(e) => Taken(e)'
    BY <1>1 DEF CancelTake, Delete, Taken, scheduleVars
  <2>5. /\ \A d \in Cancels : \A e \in held'[d] : Taken(e)'
        /\ \A e \in toClose' : Taken(e)'
    BY <2>2, <2>3, <2>4 DEF TakenInv, Taken
  <2>6. \A e \in held'[c] : e = pending[CancelId[c]] /\ e \in Calls
    BY <2>3
  <2>7. \A e \in held'[c] : ~Taken(e)
    BY <2>6 DEF Taken
  <2>8. /\ held'[c] \cap toClose' = {}
        /\ \A d \in Cancels : d # c => held'[c] \cap held'[d] = {}
    BY <2>3, <2>7 DEF TakenInv
  <2> QED BY <2>1, <2>3, <2>5, <2>6, <2>8 DEF TakenInv
<1>2. CASE CancelClose(c)
  <2> PICK e \in held[c] : CloseEntry(e) /\ StopTimer(e)
    BY <1>2 DEF CancelClose
  <2>1. e \in Calls /\ Taken(e)
    BY DEF TakenInv
  <2>2. PendingInv'
    BY <1>2, <2>1 DEF CancelClose, PendingInv, Taken, CloseEntry, runVars, stopVars
  <2>3. TakenInv'
    BY <1>2, <2>1 DEF CancelClose, TakenInv, Taken, CloseEntry, runVars, stopVars
  <2>4. IdleInv' /\ CloseInv' /\ RunInv'
    BY <1>2, <2>1 DEF CancelClose, IdleInv, CloseInv, RunInv, Taken, CloseEntry, StopTimer, runVars, stopVars
  <2> QED BY <2>2, <2>3, <2>4
<1> QED BY <1>1, <1>2 DEF Cancel

LEMMA StopStep ==
  ASSUME IInv, Stop
  PROVE  PendingInv' /\ TakenInv' /\ IdleInv' /\ CloseInv' /\ RunInv'
<1> USE GraceAssumption DEF IInv, TypeOK, Registered
<1>1. CASE StopTake
  <2>1. PendingInv' /\ IdleInv' /\ CloseInv' /\ RunInv'
    BY <1>1 DEF StopTake, IdleInv, PendingInv, CloseInv, RunInv, scheduleVars, runVars, cancelVars
  <2>2. \A e \in toClose' : Taken(e)'
    BY <1>1 DEF StopTake, Entries, PendingInv, Taken, scheduleVars, runVars, cancelVars
  <2>3. held' = held /\ toClose' = {pending[i] : i \in Ids} \ {None}
    BY <1>1 DEF StopTake, Entries, cancelVars
  <2>4. \A e \in Calls : Taken(e) => Taken(e)'
    BY <1>1 DEF StopTake, Taken, scheduleVars
  <2> QED BY <2>1, <2>2, <2>3, <2>4 DEF TakenInv, Taken
<1>2. ASSUME NEW e \in Calls, StopClose(e)
      PROVE  PendingInv' /\ TakenInv' /\ IdleInv' /\ CloseInv' /\ RunInv'
  <2>1. e \in toClose /\ Taken(e)
    BY <1>2 DEF StopClose, TakenInv
  <2>2. PendingInv'
    BY <1>2, <2>1 DEF StopClose, PendingInv, Taken, CloseEntry, runVars, cancelVars
  <2>3. TakenInv'
    BY <1>2, <2>1 DEF StopClose, TakenInv, Taken, CloseEntry, runVars, cancelVars
  <2>4. IdleInv' /\ CloseInv' /\ RunInv'
    BY <1>2, <2>1 DEF StopClose, IdleInv, CloseInv, RunInv, Taken, CloseEntry, StopTimer, runVars, cancelVars
  <2> QED BY <2>2, <2>3, <2>4
<1>3. CASE StopReturn
  <2>1. PendingInv' /\ IdleInv' /\ CloseInv' /\ RunInv'
    BY <1>3 DEF StopReturn, IdleInv, PendingInv, CloseInv, RunInv, scheduleVars, runVars, cancelVars
  <2>2. TakenInv' BY <1>3 DEF StopReturn, TakenInv, Taken, scheduleVars, runVars, cancelVars
  <2> QED BY <2>1, <2>2
<1> QED BY <1>1, <1>2, <1>3 DEF Stop

LEMMA InvStep == IInv /\ [Next]_vars => IInv'
<1> SUFFICES ASSUME IInv, [Next]_vars PROVE IInv'
  OBVIOUS
<1>1. TypeOK'
  BY TypeStep DEF IInv
<1>2. CASE Next
  BY <1>1, <1>2, ScheduleStep, TimerFunctionStep, CancelStep, StopStep DEF Next, IInv
<1>3. CASE UNCHANGED vars
  BY <1>1, <1>3 DEF vars, IInv, PendingInv, TakenInv, Taken, IdleInv, CloseInv, RunInv, Registered
<1> QED BY <1>2, <1>3

LEMMA Invariance == Spec => []IInv
  BY InvInit, InvStep, PTL DEF Spec

\* No interleaving of Schedule, Cancel, Stop and the timers' own deletes closes
\* one entry's channel twice, colliding ids included.
THEOREM ClosedOnce == Spec => []ClosedAtMostOnce
<1>1. IInv => ClosedAtMostOnce
  BY DEF IInv, CloseInv, ClosedAtMostOnce
<1> QED BY <1>1, Invariance, PTL

-----------------------------------------------------------------------------
(* With unique ids every open verification stays within reach. *)

LEMMA NoOrphanStep == IInv /\ NoOrphan /\ [Next]_vars => NoOrphan'
<1> SUFFICES ASSUME IInv, NoOrphan, [Next]_vars, UniqueIds,
                    NEW t \in Calls, Registered(t)', ~Cancelled(t)',
                    fire'[t] \notin {"removed", "called"}
             PROVE  Reachable(t)'
  BY DEF NoOrphan, UniqueIds
<1> USE GraceAssumption DEF IInv, TypeOK, Registered, Cancelled, Reachable
<1>1. ASSUME NEW s \in Calls, Schedule(s) PROVE Reachable(t)'
  <2>1. CASE RegisterFresh(s)
    BY <2>1 DEF RegisterFresh, NoOrphan, UniqueIds, cancelVars, stopVars, runVars
  <2>2. CASE RegisterOver(s)
    BY <2>2 DEF RegisterOver, Found, HasTimer, PendingInv, UniqueIds
  <2>3. CASE RegisterPanic(s)
    BY <2>3 DEF RegisterPanic, Found, PendingInv, UniqueIds
  <2>4. CASE StartTimer(s)
    BY <2>4 DEF StartTimer, NoOrphan, runVars, cancelVars, stopVars
  <2>5. CASE AssignTimer(s)
    BY <2>5 DEF AssignTimer, NoOrphan, runVars, cancelVars, stopVars
  <2> QED BY <1>1, <2>1, <2>2, <2>3, <2>4, <2>5 DEF Schedule
<1>2. ASSUME NEW s \in Calls, TimerFunction(s) PROVE Reachable(t)'
  <2>1. CASE Fire(s)
    BY <2>1 DEF Fire, NoOrphan, RunInv, cancelVars, stopVars
  <2>2. CASE CheckCancel(s)
    BY <2>2 DEF CheckCancel, Look, NoOrphan, scheduleVars, cancelVars, stopVars
  <2>3. ASSUME NEW r \in Results, Verify(s, r) PROVE Reachable(t)'
    BY <2>3 DEF Verify, NoOrphan, scheduleVars, cancelVars, stopVars
  <2>4. CASE Remove(s)
    BY <2>4 DEF Remove, Delete, NoOrphan, UniqueIds, scheduleVars, cancelVars, stopVars
  <2>5. CASE Callback(s)
    BY <2>5 DEF Callback, NoOrphan, scheduleVars, cancelVars, stopVars
  <2> QED BY <1>2, <2>1, <2>2, <2>3, <2>4, <2>5 DEF TimerFunction
<1>3. ASSUME NEW c \in Cancels, Cancel(c) PROVE Reachable(t)'
  <2>1. CASE CancelTake(c)
    <3>1. Reachable(t)
      BY <2>1 DEF CancelTake, Delete, NoOrphan, scheduleVars, runVars
    <3>2. held[c] = {}
      BY <2>1 DEF CancelTake, Delete, IdleInv
    <3> QED BY <2>1, <3>1, <3>2 DEF CancelTake, Delete, Found, stopVars
  <2>2. CASE CancelClose(c)
    <3>1. Reachable(t) /\ t \notin held[c]
      BY <2>2 DEF CancelClose, CloseEntry, NoOrphan, TakenInv, runVars
    <3> QED BY <2>2, <3>1 DEF CancelClose, stopVars
  <2> QED BY <1>3, <2>1, <2>2 DEF Cancel
<1>4. ASSUME Stop PROVE Reachable(t)'
  <2>1. CASE StopTake
    BY <2>1 DEF StopTake, Entries, NoOrphan, IdleInv, scheduleVars, runVars, cancelVars
  <2>2. ASSUME NEW e \in Calls, StopClose(e) PROVE Reachable(t)'
    BY <2>2 DEF StopClose, CloseEntry, NoOrphan, runVars, cancelVars
  <2>3. CASE StopReturn
    BY <2>3 DEF StopReturn, NoOrphan, scheduleVars, runVars, cancelVars
  <2> QED BY <1>4, <2>1, <2>2, <2>3 DEF Stop
<1>5. ASSUME UNCHANGED vars PROVE Reachable(t)'
  BY <1>5 DEF vars, NoOrphan
<1> QED BY <1>1, <1>2, <1>3, <1>4, <1>5 DEF Next

\* With unique ids every registered verification that is neither cancelled nor
\* over is in the map or in the hands of a Cancel or of Stop.
THEOREM NothingOrphaned == Spec => []NoOrphan
<1>1. Init => NoOrphan
  BY DEF Init, NoOrphan, Registered
<1> QED BY <1>1, NoOrphanStep, Invariance, PTL DEF Spec

-----------------------------------------------------------------------------
(* The scheduler implements GraceContract, step by step. Closing an entry    *)
(* withdraws it if it still waits; Register, CheckCancel, Look, Verify and         *)
(* Callback are Accept, Begin, Conclude and Deliver; the rest stutters.      *)

LEMMA ContractInitStep == Init => Contract!ContractInit
  BY DEF Init, Contract!ContractInit, statusOf, StatusOf, Registered, Cancelled

\* The contract sees a call whose own variables do not change where it was.
LEMMA StatusStable ==
  ASSUME NEW t \in Calls, fire'[t] = fire[t], closes'[t] = closes[t],
         Registered(t)' = Registered(t)
  PROVE  StatusOf(t)' = StatusOf(t)
  BY DEF StatusOf, Cancelled

\* Closing one entry withdraws it, and nothing else changes.
LEMMA ClosingWithdraws ==
  ASSUME IInv, NEW e \in Calls, Registered(e), CloseEntry(e), fire' = fire,
         NEW t \in Calls, Registered(t)' = Registered(t)
  PROVE  StatusOf(t)' = Contract!Withdrawn({e})[t]
<1>1. CASE t = e
  <2>1. closes'[t] > 0
    BY <1>1 DEF CloseEntry, IInv, TypeOK
  <2> QED
    BY <1>1, <2>1 DEF StatusOf, statusOf, Cancelled, Contract!Withdrawn, IInv, TypeOK, Registered
<1>2. CASE t # e
  <2>1. closes'[t] = closes[t]
    BY <1>2 DEF CloseEntry, IInv, TypeOK
  <2> QED
    BY <1>2, <2>1, StatusStable DEF Contract!Withdrawn, statusOf
<1> QED BY <1>1, <1>2

LEMMA ContractStep == IInv /\ [Next]_vars => [Contract!ContractNext]_(Contract!cvars)
<1> SUFFICES ASSUME IInv, [Next]_vars
             PROVE  [Contract!ContractNext]_(Contract!cvars)
  OBVIOUS
<1> DEFINE Same(t) == StatusOf(t)' = StatusOf(t)
<1> USE GraceAssumption DEF IInv, TypeOK, Registered
<1>a. ASSUME outcome' = outcome, \A t \in Calls : Same(t)
      PROVE  UNCHANGED Contract!cvars
  BY <1>a DEF statusOf, Contract!cvars
<1>1. ASSUME NEW s \in Calls, Schedule(s)
      PROVE  [Contract!ContractNext]_(Contract!cvars)
  <2>0. ASSUME sched[s] = "idle" PROVE StatusOf(s) = "new"
    BY <2>0 DEF StatusOf, RunInv, CloseInv, Cancelled
  <2>1. CASE RegisterFresh(s)
    <3>1. statusOf[s] = "new" /\ StatusOf(s)' = "waiting" /\ outcome' = outcome
      BY <2>1, <2>0 DEF RegisterFresh, StatusOf, statusOf, RunInv, CloseInv, Cancelled, runVars
    <3>2. \A t \in Calls : t # s => Same(t)
      BY <2>1, StatusStable DEF RegisterFresh, runVars
    <3>3. statusOf' = [Contract!Withdrawn({}) EXCEPT ![s] = "waiting"]
      BY <3>1, <3>2 DEF statusOf, Contract!Withdrawn
    <3>4. Contract!Accept(s, {})
      BY <3>1, <3>3 DEF Contract!Accept
    <3>5. {} \in SUBSET Calls
      OBVIOUS
    <3> QED BY <3>4, <3>5 DEF Contract!ContractNext
  <2>2. CASE RegisterOver(s)
    <3> PICK old \in Found(IdOf[s]) : HasTimer(old) /\ CloseEntry(old) /\ StopTimer(old)
      BY <2>2 DEF RegisterOver
    <3>1. old \in Calls /\ old # s /\ Registered(old)
      BY <2>2 DEF RegisterOver, Found, HasTimer
    <3>2. statusOf[s] = "new" /\ StatusOf(s)' = "waiting" /\ outcome' = outcome
      BY <2>2, <2>0, <3>1
      DEF RegisterOver, CloseEntry, StatusOf, statusOf, RunInv, CloseInv, Cancelled, runVars
    <3>3. \A t \in Calls : t # s => StatusOf(t)' = Contract!Withdrawn({old})[t]
      BY <2>2, <3>1, ClosingWithdraws DEF RegisterOver, runVars
    <3>4. statusOf' = [Contract!Withdrawn({old}) EXCEPT ![s] = "waiting"]
      BY <3>2, <3>3 DEF statusOf, Contract!Withdrawn
    <3>5. Contract!Accept(s, {old})
      BY <3>1, <3>2, <3>4 DEF Contract!Accept
    <3>6. {old} \in SUBSET Calls
      BY <3>1
    <3> QED BY <3>5, <3>6 DEF Contract!ContractNext
  <2>3. CASE RegisterPanic(s)
    <3> PICK old \in Found(IdOf[s]) : ~HasTimer(old) /\ CloseEntry(old)
      BY <2>3 DEF RegisterPanic
    <3>1. old \in Calls /\ Registered(old)
      BY <2>3 DEF Found, PendingInv
    <3>2. \A t \in Calls : StatusOf(t)' = Contract!Withdrawn({old})[t]
      BY <2>3, <3>1, ClosingWithdraws DEF RegisterPanic, runVars
    <3>3. statusOf' = Contract!Withdrawn({old}) /\ outcome' = outcome
      BY <2>3, <3>2 DEF statusOf, Contract!Withdrawn, RegisterPanic, runVars
    <3> QED BY <3>1, <3>3 DEF Contract!Withdraw, Contract!ContractNext
  <2>4. CASE StartTimer(s) \/ AssignTimer(s)
    <3>1. outcome' = outcome /\ \A t \in Calls : Same(t)
      BY <2>4, StatusStable DEF StartTimer, AssignTimer, runVars
    <3> QED BY <3>1, <1>a
  <2> QED BY <1>1, <2>1, <2>2, <2>3, <2>4 DEF Schedule
<1>2. ASSUME NEW s \in Calls, TimerFunction(s)
      PROVE  [Contract!ContractNext]_(Contract!cvars)
  <2>1. CASE Fire(s)
    <3>1. fire[s] = "idle" /\ \A t \in Calls : t # s => Same(t)
      BY <2>1, StatusStable DEF Fire, RunInv
    <3>2. Same(s) /\ outcome' = outcome
      BY <2>1, <3>1 DEF Fire, StatusOf, Cancelled
    <3> QED BY <3>1, <3>2, <1>a
  <2>2. CASE CheckCancel(s)
    <3>1. outcome' = outcome /\ \A t \in Calls : t # s => Same(t)
      BY <2>2, StatusStable DEF CheckCancel, Look, scheduleVars
    <3>2. CASE Cancelled(s)
      <4>1. Same(s)
        BY <2>2, <3>2 DEF CheckCancel, Look, StatusOf, Cancelled, scheduleVars
      <4> QED BY <3>1, <4>1, <1>a
    <3>3. CASE ~Cancelled(s)
      <4>1. statusOf[s] = "waiting" /\ StatusOf(s)' = "verifying"
        BY <2>2, <3>3 DEF CheckCancel, Look, StatusOf, statusOf, Cancelled, RunInv, scheduleVars
      <4>2. statusOf' = [statusOf EXCEPT ![s] = "verifying"]
        BY <3>1, <4>1 DEF statusOf
      <4> QED BY <3>1, <4>1, <4>2 DEF Contract!Begin, Contract!ContractNext
    <3> QED BY <3>2, <3>3
  <2>3. ASSUME NEW r \in Results, Verify(s, r)
        PROVE  [Contract!ContractNext]_(Contract!cvars)
    <3>1. \A t \in Calls : t # s => Same(t)
      BY <2>3, StatusStable DEF Verify, scheduleVars
    <3>2. Same(s) /\ statusOf[s] = "verifying" /\ outcome[s] = "none"
      BY <2>3 DEF Verify, StatusOf, statusOf, RunInv, Cancelled, scheduleVars
    <3>3. statusOf' = statusOf
      BY <3>1, <3>2 DEF statusOf
    <3>4. \E o \in Contract!Outcomes \ {"none"} : outcome' = [outcome EXCEPT ![s] = o]
      <4> DEFINE o == IF r = "backed" THEN "backed" ELSE "unbacked"
      <4>1. o \in Contract!Outcomes \ {"none"}
        BY DEF Contract!Outcomes
      <4>2. outcome' = [outcome EXCEPT ![s] = o]
        BY <2>3 DEF Verify
      <4> QED BY <4>1, <4>2
    <3> QED BY <3>2, <3>3, <3>4 DEF Contract!Conclude, Contract!ContractNext
  <2>4. CASE Remove(s)
    <3>1. outcome' = outcome /\ \A t \in Calls : t # s => Same(t)
      BY <2>4, StatusStable DEF Remove, Delete, scheduleVars
    <3>2. Same(s)
      BY <2>4 DEF Remove, Delete, StatusOf, Cancelled, scheduleVars
    <3> QED BY <3>1, <3>2, <1>a
  <2>5. CASE Callback(s)
    <3>1. outcome' = outcome /\ \A t \in Calls : t # s => Same(t)
      BY <2>5, StatusStable DEF Callback, scheduleVars
    <3>2. statusOf[s] = "verifying" /\ outcome[s] # "none" /\ StatusOf(s)' = "delivered"
      BY <2>5 DEF Callback, StatusOf, statusOf, RunInv, Cancelled
    <3>3. statusOf' = [statusOf EXCEPT ![s] = "delivered"]
      BY <3>1, <3>2 DEF statusOf
    <3> QED BY <3>1, <3>2, <3>3 DEF Contract!Deliver, Contract!ContractNext
  <2> QED BY <1>2, <2>1, <2>2, <2>3, <2>4, <2>5 DEF TimerFunction
<1>3. ASSUME NEW e \in Calls, Taken(e), CloseEntry(e), sched' = sched, fire' = fire,
             outcome' = outcome
      PROVE  [Contract!ContractNext]_(Contract!cvars)
  <2>1. \A t \in Calls : StatusOf(t)' = Contract!Withdrawn({e})[t]
    BY <1>3, ClosingWithdraws DEF Taken
  <2>2. statusOf' = Contract!Withdrawn({e})
    BY <2>1 DEF statusOf, Contract!Withdrawn
  <2> QED BY <1>3, <2>2 DEF Contract!Withdraw, Contract!ContractNext
<1>4. ASSUME NEW c \in Cancels, Cancel(c)
      PROVE  [Contract!ContractNext]_(Contract!cvars)
  <2>1. CASE CancelTake(c)
    <3>1. outcome' = outcome /\ \A t \in Calls : Same(t)
      BY <2>1, StatusStable DEF CancelTake, Delete, scheduleVars, runVars
    <3> QED BY <3>1, <1>a
  <2>2. CASE CancelClose(c)
    <3> PICK e \in held[c] : CloseEntry(e)
      BY <2>2 DEF CancelClose
    <3>1. e \in Calls /\ Taken(e)
      BY DEF TakenInv
    <3> QED BY <2>2, <3>1, <1>3 DEF CancelClose, runVars
  <2> QED BY <1>4, <2>1, <2>2 DEF Cancel
<1>5. ASSUME Stop PROVE [Contract!ContractNext]_(Contract!cvars)
  <2>1. CASE StopTake \/ StopReturn
    <3>1. outcome' = outcome /\ \A t \in Calls : Same(t)
      BY <2>1, StatusStable DEF StopTake, StopReturn, scheduleVars, runVars
    <3> QED BY <3>1, <1>a
  <2>2. ASSUME NEW e \in Calls, StopClose(e)
        PROVE  [Contract!ContractNext]_(Contract!cvars)
    BY <2>2, <1>3 DEF StopClose, TakenInv, runVars
  <2> QED BY <1>5, <2>1, <2>2 DEF Stop
<1>6. ASSUME UNCHANGED vars PROVE [Contract!ContractNext]_(Contract!cvars)
  <2>1. outcome' = outcome /\ \A t \in Calls : Same(t)
    BY <1>6, StatusStable DEF vars
  <2> QED BY <2>1, <1>a
<1> QED BY <1>1, <1>2, <1>4, <1>5, <1>6 DEF Next

\* The scheduler keeps the contract for any number of calls, also when ids
\* collide and when a panic abandons the lock.
THEOREM Implements == Spec => ImplementsContract
<1>1. Spec => []IInv
  BY Invariance
<1> QED
  BY <1>1, ContractInitStep, ContractStep, PTL DEF Spec, ImplementsContract, Contract!ContractSpec

-----------------------------------------------------------------------------
(* What Stop saw is out of the map for good. *)

StopInv ==
  /\ stop # "idle" => \A s \in atStop : Registered(s) /\ \A i \in Ids : pending[i] # s
  /\ stop = "done" => toClose = {}

LEMMA StopInvStep == IInv /\ StopInv /\ [Next]_vars => StopInv'
<1> SUFFICES ASSUME IInv, StopInv, [Next]_vars PROVE StopInv'
  OBVIOUS
<1> USE GraceAssumption DEF IInv, TypeOK, Registered, StopInv
<1>1. ASSUME NEW s \in Calls, Schedule(s) PROVE StopInv'
  BY <1>1 DEF Schedule, RegisterFresh, RegisterOver, RegisterPanic, StartTimer, AssignTimer,
              stopVars
<1>2. ASSUME NEW s \in Calls, TimerFunction(s) PROVE StopInv'
  BY <1>2 DEF TimerFunction, Fire, CheckCancel, Look, Verify, Remove, Delete, Callback, scheduleVars, stopVars
<1>3. ASSUME NEW c \in Cancels, Cancel(c) PROVE StopInv'
  BY <1>3 DEF Cancel, CancelTake, Delete, CancelClose, scheduleVars, stopVars
<1>4. ASSUME Stop PROVE StopInv'
  <2>1. CASE StopTake
    BY <2>1 DEF StopTake, scheduleVars
  <2>2. ASSUME NEW e \in Calls, StopClose(e) PROVE StopInv'
    BY <2>2 DEF StopClose
  <2>3. CASE StopReturn
    BY <2>3 DEF StopReturn, scheduleVars
  <2> QED BY <1>4, <2>1, <2>2, <2>3 DEF Stop
<1>5. ASSUME UNCHANGED vars PROVE StopInv'
  BY <1>5 DEF vars
<1> QED BY <1>1, <1>2, <1>3, <1>4, <1>5 DEF Next

\* With unique ids Stop keeps the promise of its comment (grace.go:126): nothing
\* it found registered starts its verification afterwards.
THEOREM StopIsFinal == UniqueIds => (Spec => StopCancelsAll)
<1> SUFFICES ASSUME UniqueIds PROVE Spec => StopCancelsAll
  OBVIOUS
<1>1. IInv /\ NoOrphan /\ StopInv /\ [Next]_vars => [QuietAfterStop]_vars
  <2> SUFFICES ASSUME IInv, NoOrphan, StopInv, [Next]_vars, NEW s \in atStop,
                      stop = "done", fire[s] = "begun", fire'[s] # "begun",
                      \A c \in Cancels : s \notin held[c]
               PROVE  fire'[s] = "skipped"
    BY DEF QuietAfterStop
  <2>1. s \in Calls /\ Registered(s) /\ pending[IdOf[s]] # s /\ toClose = {}
    BY GraceAssumption DEF IInv, TypeOK, StopInv
  <2>2. Cancelled(s)
    BY <2>1 DEF NoOrphan, Reachable
  <2>3. PICK t \in Calls : TimerFunction(t)
    BY <2>1 DEF Next, vars, Schedule, RegisterFresh, RegisterOver, RegisterPanic, StartTimer,
       AssignTimer, Cancel, CancelTake, Delete, CancelClose, Stop, StopTake, StopClose, StopReturn, runVars
  <2>4. CASE t = s
    BY <2>1, <2>2, <2>3, <2>4
    DEF TimerFunction, Fire, CheckCancel, Look, Verify, Remove, Delete, Callback, IInv, TypeOK, RunInv
  <2>5. CASE t # s
    BY <2>1, <2>3, <2>5
    DEF TimerFunction, Fire, CheckCancel, Look, Verify, Remove, Delete, Callback, IInv, TypeOK
  <2> QED BY <2>4, <2>5
<1>2. Init => StopInv
  BY DEF Init, StopInv
<1>3. Spec => []StopInv
  BY <1>2, StopInvStep, Invariance, PTL DEF Spec
<1>4. Spec => [][QuietAfterStop]_vars
  BY <1>1, <1>3, Invariance, NothingOrphaned, PTL DEF Spec
<1> QED BY <1>4, PTL DEF StopCancelsAll
=============================================================================
