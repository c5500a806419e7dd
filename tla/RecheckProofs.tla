---------------------------- MODULE RecheckProofs ----------------------------
(***************************************************************************)
(* What holds of the re-check loop for every set of beads, every alert      *)
(* limit and any number of restarts: the alert budget of a process, the one *)
(* late alert a stale list allows, and when a resolution is announced.      *)
(***************************************************************************)
EXTENDS Recheck, TLAPS

-----------------------------------------------------------------------------
(* The inductive invariant *)

\* Where a listed bead is still to be dealt with: before its alert or close.
Ahead(b) == b \in todo \/ (b \in cur /\ pc \in {"check", "expire", "resolve", "alert"})

CycleInv ==
  /\ \A a, b \in cur : a = b
  /\ \A b \in cur : b \notin todo
  /\ pc \in {"idle", "exited"} => todo = {}
  /\ pc \in {"idle", "exited", "cycle"} => cur = {}

\* The count is behind the alerts only between an alert and its counting, and
\* after a close, when it is no longer needed; the count seen at the listing is
\* the current one until then.
BudgetInv ==
  \A b \in Beads :
    /\ alerts[b] <= MaxAlerts
    /\ (Ahead(b) \/ (bead[b] # "closed" /\ ~(pc = "count" /\ b \in cur)))
         => alerts[b] <= alertCounts[b]
    /\ (pc = "count" /\ b \in cur) => alerts[b] <= alertCounts[b] + 1
    /\ Ahead(b) => seenCount[b] = alertCounts[b]
    /\ (pc = "alert" /\ b \in cur) => seenCount[b] < MaxAlerts

\* An alert can be late only if the bead was closed after the listing.
LateInv ==
  \A b \in Beads :
    /\ lateAlerts[b] <= 1
    /\ (bead[b] # "closed" \/ Ahead(b)) => lateAlerts[b] = 0

\* A close that is about to be announced has happened, and nobody else announces
\* it unless br has said of the closed bead that it closed it.
NoticeInv ==
  \A b \in Beads :
    /\ (pc = "forget" /\ b \in cur) => bead[b] = "closed" /\ ~dryRun
    /\ notified[b] > 0 => bead[b] = "closed"
    /\ b \notin reclosed =>
         /\ notified[b] <= 1
         /\ (pc = "forget" /\ b \in cur) => notified[b] = 0

IInv == TypeOK /\ CycleInv /\ BudgetInv /\ LateInv /\ NoticeInv

-----------------------------------------------------------------------------
LEMMA InvInit == Init => IInv
<1> SUFFICES ASSUME Init PROVE IInv
  OBVIOUS
<1> USE RecheckAssumption
<1>1. /\ bead \in [Beads -> BeadStates]
      /\ old \in SUBSET Beads
      /\ alertCounts \in [Beads -> Nat]
      /\ pc \in Stages
  BY DEF Init, BeadStates, Stages
<1>2. /\ todo \in SUBSET Beads /\ cur \in SUBSET Beads /\ seenOld \in SUBSET Beads
      /\ seenCount \in [Beads -> Nat]
      /\ stopped \in BOOLEAN /\ dryRun \in BOOLEAN
      /\ restarts \in 0..MaxRestarts
  <2>1. 0 \in Nat /\ 0 \in 0..MaxRestarts
    OBVIOUS
  <2> QED BY <2>1 DEF Init
<1>3. /\ alerts \in [Beads -> Nat]
      /\ lateAlerts \in [Beads -> Nat]
      /\ notified \in [Beads -> 0..NoticeCap]
      /\ reclosed \in SUBSET Beads /\ presumed \in BOOLEAN
  <2>1. 0 \in Nat /\ 0 \in 0..NoticeCap
    OBVIOUS
  <2> QED BY <2>1 DEF Init
<1>4. TypeOK
  BY <1>1, <1>2, <1>3 DEF TypeOK
<1>5. CycleInv /\ BudgetInv
  BY DEF Init, CycleInv, BudgetInv, Ahead
<1>6. LateInv /\ NoticeInv
  BY DEF Init, LateInv, NoticeInv, Ahead
<1> QED BY <1>4, <1>5, <1>6 DEF IInv

\* What Resolve does to the beads: one may become closed, none is reopened, and a
\* success outside dry-run mode leaves the bead closed.
LEMMA ResolveCloses ==
  ASSUME TypeOK, NEW b \in Beads, NEW ok \in BOOLEAN, Resolve(b, ok)
  PROVE  /\ bead' \in [Beads -> BeadStates]
         /\ \A a \in Beads : bead[a] = "closed" => bead'[a] = "closed"
         /\ \A a \in Beads : a # b => bead'[a] = bead[a]
         /\ (ok /\ ~dryRun) => bead'[b] = "closed"
         /\ NoteReclose(b, ok) =>
              /\ reclosed' \in SUBSET Beads
              /\ \A a \in Beads : a # b => (a \in reclosed' <=> a \in reclosed)
              /\ b \in reclosed => b \in reclosed'
              /\ (ok /\ ~dryRun /\ b \notin reclosed') => bead[b] = "open"
  BY DEF Resolve, NoteReclose, TypeOK, BeadStates

\* Counting a notice adds one, up to the bound.
LEMMA NoticeCounted ==
  ASSUME NEW f \in [Beads -> 0..NoticeCap], NEW b \in Beads
  PROVE  /\ CountNotice(f, b) \in [Beads -> 0..NoticeCap]
         /\ CountNotice(f, b)[b] \in {f[b], f[b] + 1}
         /\ \A a \in Beads : a # b => CountNotice(f, b)[a] = f[a]
BY RecheckAssumption DEF CountNotice

\* The API and a fulfilled message close alike: what differs is when they announce it.
ClosedByOthers(b, ok) ==
  /\ Resolve(b, ok)
  /\ NoteReclose(b, ok)
  /\ notified' = IF ok /\ ~dryRun THEN CountNotice(notified, b) ELSE notified
  /\ presumed' \in BOOLEAN
  /\ dryRun => presumed' = presumed
  /\ UNCHANGED <<old, alertCounts, loopVars, processVars, alerts, lateAlerts>>

LEMMA OthersClose ==
  ASSUME TypeOK, NEW b \in Beads, NEW ok \in BOOLEAN, ResolveByAPI(b, ok) \/ CloseFulfilled(b, ok)
  PROVE  ClosedByOthers(b, ok)
BY DEF TypeOK, ResolveByAPI, CloseFulfilled, ClosedByOthers, Announce

LEMMA TypeStep == TypeOK /\ [Next]_vars => TypeOK'
<1> SUFFICES ASSUME TypeOK, [Next]_vars PROVE TypeOK'
  OBVIOUS
<1> USE RecheckAssumption DEF TypeOK, Stages, BeadStates
<1>1. ASSUME RunOnce PROVE TypeOK'
  <2>1. CASE Fetch
    BY <2>1 DEF Fetch, Listed, Open, Expired, historyVars, processVars
  <2>2. ASSUME NEW b \in Beads, Take(b) PROVE TypeOK'
    BY <2>2 DEF Take, historyVars, processVars
  <2>3. ASSUME NEW b \in Beads, NEW backed \in BOOLEAN, Verified(b, backed) PROVE TypeOK'
    BY <2>3 DEF Verified, Leave, historyVars, processVars
  <2>4. ASSUME NEW b \in Beads, NEW ok \in BOOLEAN, CloseBead(b, ok) PROVE TypeOK'
    <3>1. bead' \in [Beads -> BeadStates] /\ reclosed' \in SUBSET Beads
      BY <2>4, ResolveCloses DEF CloseBead, Leave
    <3> QED BY <2>4, <3>1 DEF CloseBead, Leave, AfterClose, historyVars, processVars
  <2>5. ASSUME NEW b \in Beads, NEW ok \in BOOLEAN, Alert(b, ok) PROVE TypeOK'
    BY <2>5 DEF Alert, Leave, AfterAlert, Bump, processVars
  <2>6. ASSUME NEW b \in Beads, Forget(b) PROVE TypeOK'
    BY <2>6, NoticeCounted DEF Forget, Leave, Announce, processVars
  <2>7. ASSUME NEW b \in Beads, Count(b) PROVE TypeOK'
    BY <2>7 DEF Count, Leave, Bump, historyVars, processVars
  <2>8. CASE EndCycle
    BY <2>8 DEF EndCycle, historyVars, processVars
  <2> QED BY <1>1, <2>1, <2>2, <2>3, <2>4, <2>5, <2>6, <2>7, <2>8 DEF RunOnce, Item
<1>2. ASSUME Stop \/ Exit PROVE TypeOK'
  BY <1>2 DEF Stop, Exit, loopVars, historyVars, processVars
<1>3. ASSUME NEW b \in Beads, Around(b) PROVE TypeOK'
  <2>1. CASE OpenBead(b) \/ CloseByHand(b) \/ Expire(b)
    BY <2>1 DEF OpenBead, CloseByHand, Expire, loopVars, historyVars, processVars
  <2>2. ASSUME NEW ok \in BOOLEAN, ResolveByAPI(b, ok) \/ CloseFulfilled(b, ok) PROVE TypeOK'
    <3>1. ClosedByOthers(b, ok)
      BY <2>2, OthersClose
    <3>2. bead' \in [Beads -> BeadStates] /\ reclosed' \in SUBSET Beads
      BY <3>1, ResolveCloses DEF ClosedByOthers
    <3>3. notified' \in [Beads -> 0..NoticeCap] /\ presumed' \in BOOLEAN
      BY <3>1, NoticeCounted DEF ClosedByOthers
    <3> QED BY <3>1, <3>2, <3>3 DEF ClosedByOthers, loopVars, processVars
  <2> QED BY <1>3, <2>1, <2>2 DEF Around
<1>4. ASSUME Restart PROVE TypeOK'
  <2>1. restarts' \in 0..MaxRestarts
    BY <1>4 DEF Restart
  <2>2. /\ alertCounts' \in [Beads -> Nat] /\ alerts' \in [Beads -> Nat]
        /\ seenCount' \in [Beads -> Nat]
    BY <1>4 DEF Restart
  <2> QED BY <1>4, <2>1, <2>2 DEF Restart
<1>5. ASSUME UNCHANGED vars PROVE TypeOK'
  BY <1>5 DEF vars, loopVars, historyVars, processVars
<1> QED BY <1>1, <1>2, <1>3, <1>4, <1>5 DEF Next

LEMMA LoopStep ==
  ASSUME IInv, RunOnce
  PROVE  CycleInv' /\ BudgetInv' /\ LateInv' /\ NoticeInv'
<1> USE RecheckAssumption DEF IInv, TypeOK, Ahead
<1>1. CASE Fetch
  <2>1. CycleInv' BY <1>1 DEF Fetch, CycleInv
  <2>2. BudgetInv'
    BY <1>1 DEF Fetch, CycleInv, BudgetInv, Listed, Open, historyVars, processVars
  <2>3. LateInv' BY <1>1 DEF Fetch, CycleInv, LateInv, Listed, Open, historyVars, processVars
  <2>4. NoticeInv' BY <1>1 DEF Fetch, NoticeInv, historyVars, processVars
  <2> QED BY <2>1, <2>2, <2>3, <2>4
<1>2. ASSUME NEW b \in Beads, Take(b)
      PROVE  CycleInv' /\ BudgetInv' /\ LateInv' /\ NoticeInv'
  <2>1. CycleInv' BY <1>2 DEF Take, CycleInv
  <2>2. BudgetInv' BY <1>2 DEF Take, CycleInv, BudgetInv, historyVars, processVars
  <2>3. LateInv' BY <1>2 DEF Take, LateInv, historyVars, processVars
  <2>4. NoticeInv' BY <1>2 DEF Take, NoticeInv, historyVars, processVars
  <2> QED BY <2>1, <2>2, <2>3, <2>4
<1>3. ASSUME NEW b \in Beads, NEW backed \in BOOLEAN, Verified(b, backed)
      PROVE  CycleInv' /\ BudgetInv' /\ LateInv' /\ NoticeInv'
  <2>1. CycleInv' BY <1>3 DEF Verified, Leave, CycleInv
  <2>2. BudgetInv' BY <1>3 DEF Verified, Leave, CycleInv, BudgetInv, MayAlert, historyVars, processVars
  <2>3. LateInv' BY <1>3 DEF Verified, Leave, LateInv, historyVars, processVars
  <2>4. NoticeInv' BY <1>3 DEF Verified, Leave, NoticeInv, historyVars, processVars
  <2> QED BY <2>1, <2>2, <2>3, <2>4
<1>4. ASSUME NEW b \in Beads, NEW ok \in BOOLEAN, CloseBead(b, ok)
      PROVE  CycleInv' /\ BudgetInv' /\ LateInv' /\ NoticeInv'
  <2>0. /\ \A a \in Beads : bead[a] = "closed" => bead'[a] = "closed"
        /\ (ok /\ ~dryRun) => bead'[b] = "closed"
        /\ \A a \in Beads : a # b => (a \in reclosed' <=> a \in reclosed)
        /\ b \in reclosed => b \in reclosed'
        /\ (ok /\ ~dryRun /\ b \notin reclosed') => bead[b] = "open"
    BY <1>4, ResolveCloses DEF CloseBead, Leave
  <2>1. CycleInv' BY <1>4 DEF CloseBead, Leave, AfterClose, CycleInv
  <2>2. BudgetInv' BY <1>4, <2>0 DEF CloseBead, Leave, AfterClose, CycleInv, BudgetInv, historyVars, processVars
  <2>3. LateInv' BY <1>4, <2>0 DEF CloseBead, Leave, AfterClose, LateInv, historyVars, processVars
  <2>4. NoticeInv'
    BY <1>4, <2>0 DEF CloseBead, Leave, AfterClose, CycleInv, NoticeInv, historyVars, processVars
  <2> QED BY <2>1, <2>2, <2>3, <2>4
<1>5. ASSUME NEW b \in Beads, NEW ok \in BOOLEAN, Alert(b, ok)
      PROVE  CycleInv' /\ BudgetInv' /\ LateInv' /\ NoticeInv'
  <2>1. CycleInv' BY <1>5 DEF Alert, Leave, AfterAlert, CycleInv
  <2>2. BudgetInv' BY <1>5 DEF Alert, Leave, AfterAlert, Bump, CycleInv, BudgetInv
  <2>3. LateInv' BY <1>5 DEF Alert, Leave, AfterAlert, Bump, CycleInv, LateInv
  <2>4. NoticeInv' BY <1>5 DEF Alert, Leave, AfterAlert, NoticeInv
  <2> QED BY <2>1, <2>2, <2>3, <2>4
<1>6. ASSUME NEW b \in Beads, Forget(b)
      PROVE  CycleInv' /\ BudgetInv' /\ LateInv' /\ NoticeInv'
  <2>1. CycleInv' BY <1>6 DEF Forget, Leave, CycleInv
  <2>2. BudgetInv' BY <1>6 DEF Forget, Leave, CycleInv, BudgetInv, NoticeInv
  <2>3. LateInv' BY <1>6 DEF Forget, Leave, LateInv
  <2>4. /\ notified'[b] \in {notified[b], notified[b] + 1}
        /\ \A a \in Beads : a # b => notified'[a] = notified[a]
    BY <1>6, NoticeCounted DEF Forget, Leave, Announce
  <2>5. pc' = "cycle" /\ bead[b] = "closed" /\ (b \notin reclosed => notified[b] = 0)
    BY <1>6 DEF Forget, Leave, NoticeInv
  <2>6. bead' = bead /\ reclosed' = reclosed
    BY <1>6 DEF Forget, Leave
  <2>7. \A a \in Beads : a # b => NoticeInv!(a)'
    BY <2>4, <2>5, <2>6 DEF NoticeInv
  <2>8. NoticeInv!(b)'
    BY <2>4, <2>5, <2>6 DEF NoticeInv
  <2>9. NoticeInv'
    BY <2>7, <2>8 DEF NoticeInv
  <2> QED BY <2>1, <2>2, <2>3, <2>9
<1>7. ASSUME NEW b \in Beads, Count(b)
      PROVE  CycleInv' /\ BudgetInv' /\ LateInv' /\ NoticeInv'
  <2>1. CycleInv' BY <1>7 DEF Count, Leave, CycleInv
  <2>2. BudgetInv' BY <1>7 DEF Count, Leave, Bump, CycleInv, BudgetInv, historyVars, processVars
  <2>3. LateInv' BY <1>7 DEF Count, Leave, LateInv, historyVars, processVars
  <2>4. NoticeInv' BY <1>7 DEF Count, Leave, NoticeInv, historyVars, processVars
  <2> QED BY <2>1, <2>2, <2>3, <2>4
<1>8. CASE EndCycle
  <2>1. CycleInv' BY <1>8 DEF EndCycle, CycleInv
  <2>2. BudgetInv' BY <1>8 DEF EndCycle, BudgetInv, historyVars, processVars
  <2>3. LateInv' BY <1>8 DEF EndCycle, LateInv, historyVars, processVars
  <2>4. NoticeInv' BY <1>8 DEF EndCycle, NoticeInv, historyVars, processVars
  <2> QED BY <2>1, <2>2, <2>3, <2>4
<1> QED BY <1>1, <1>2, <1>3, <1>4, <1>5, <1>6, <1>7, <1>8 DEF RunOnce, Item

LEMMA AroundStep ==
  ASSUME IInv, NEW b \in Beads, Around(b)
  PROVE  CycleInv' /\ BudgetInv' /\ LateInv' /\ NoticeInv'
<1> USE RecheckAssumption DEF IInv, TypeOK, Ahead
<1>1. CASE OpenBead(b) \/ CloseByHand(b) \/ Expire(b)
  <2>1. CycleInv' /\ BudgetInv'
    BY <1>1 DEF OpenBead, CloseByHand, Expire, CycleInv, BudgetInv, loopVars, historyVars, processVars
  <2>2. LateInv' BY <1>1 DEF OpenBead, CloseByHand, Expire, LateInv, loopVars, historyVars, processVars
  <2>3. NoticeInv' BY <1>1 DEF OpenBead, CloseByHand, Expire, NoticeInv, loopVars, historyVars, processVars
  <2> QED BY <2>1, <2>2, <2>3
<1>2. ASSUME NEW ok \in BOOLEAN, ResolveByAPI(b, ok) \/ CloseFulfilled(b, ok)
      PROVE  CycleInv' /\ BudgetInv' /\ LateInv' /\ NoticeInv'
  <2>1. ClosedByOthers(b, ok)
    BY <1>2, OthersClose
  <2>2. /\ \A a \in Beads : bead[a] = "closed" => bead'[a] = "closed"
        /\ (ok /\ ~dryRun) => bead'[b] = "closed"
        /\ \A a \in Beads : a # b => (a \in reclosed' <=> a \in reclosed)
        /\ b \in reclosed => b \in reclosed'
        /\ (ok /\ ~dryRun /\ b \notin reclosed') => bead[b] = "open"
    BY <2>1, ResolveCloses DEF ClosedByOthers
  <2>3. CycleInv' BY <2>1 DEF ClosedByOthers, CycleInv, loopVars, processVars
  <2>4. BudgetInv' BY <2>1, <2>2 DEF ClosedByOthers, BudgetInv, loopVars, processVars
  <2>5. LateInv' BY <2>1, <2>2 DEF ClosedByOthers, LateInv, loopVars, processVars
  <2>6. NoticeInv'
    BY <2>1, <2>2, NoticeCounted DEF ClosedByOthers, NoticeInv, loopVars, processVars
  <2> QED BY <2>3, <2>4, <2>5, <2>6
<1> QED BY <1>1, <1>2 DEF Around

LEMMA InvStep == IInv /\ [Next]_vars => IInv'
<1> SUFFICES ASSUME IInv, [Next]_vars PROVE IInv'
  OBVIOUS
<1>1. TypeOK'
  BY TypeStep DEF IInv
<1>2. ASSUME Stop \/ Exit PROVE CycleInv' /\ BudgetInv' /\ LateInv' /\ NoticeInv'
  BY <1>2 DEF Stop, Exit, IInv, CycleInv, BudgetInv, LateInv, NoticeInv, Ahead, loopVars, historyVars, processVars
<1>3. ASSUME Restart PROVE CycleInv' /\ BudgetInv' /\ LateInv' /\ NoticeInv'
  <2>1. CycleInv' /\ BudgetInv'
    BY <1>3, RecheckAssumption DEF Restart, CycleInv, BudgetInv, Ahead
  <2>2. LateInv' /\ NoticeInv'
    BY <1>3 DEF Restart, IInv, LateInv, NoticeInv, Ahead
  <2> QED BY <2>1, <2>2
<1>4. ASSUME UNCHANGED vars PROVE CycleInv' /\ BudgetInv' /\ LateInv' /\ NoticeInv'
  BY <1>4 DEF vars, IInv, CycleInv, BudgetInv, LateInv, NoticeInv, Ahead, loopVars, historyVars, processVars
<1> QED BY <1>1, <1>2, <1>3, <1>4, LoopStep, AroundStep DEF Next, IInv

LEMMA Invariance == Spec => []IInv
  BY InvInit, InvStep, PTL DEF Spec

-----------------------------------------------------------------------------
\* The loop's state has its type in every reachable state.
THEOREM TypeCorrect == Spec => []TypeOK
<1>1. IInv => TypeOK
  BY DEF IInv
<1> QED BY <1>1, Invariance, PTL

\* A process sends at most MaxAlerts re-check alerts for any bead.
THEOREM WithinBudget == Spec => []AlertBudget
<1>1. IInv => AlertBudget
  BY DEF IInv, BudgetInv, AlertBudget
<1> QED BY <1>1, Invariance, PTL

\* A bead that somebody else closes is alerted at most once afterwards.
THEOREM LateOnlyOnce == Spec => []OneLateAlert
<1>1. IInv => OneLateAlert
  BY DEF IInv, LateInv, OneLateAlert
<1> QED BY <1>1, Invariance, PTL

\* What the loop, the API or a fulfilled message announces after a close that succeeded
\* is closed, and stays so.
THEOREM AnnouncementsTrue == Spec => []AnnouncedIsClosed
<1>1. IInv => AnnouncedIsClosed
  BY DEF IInv, NoticeInv, AnnouncedIsClosed
<1> QED BY <1>1, Invariance, PTL

\* No bead is closed and announced twice, by whomever, unless br has closed a closed bead.
THEOREM AnnouncementsUnique == Spec => []AnnouncedOnce
<1>1. IInv => AnnouncedOnce
  BY DEF IInv, NoticeInv, AnnouncedOnce
<1> QED BY <1>1, Invariance, PTL

-----------------------------------------------------------------------------
(* Dry-run mode *)

\* A restart forgets the alerts a process has sent; that this changes nothing in a dry
\* run is because there are none to forget.
NoneSent == dryRun => alerts = [b \in Beads |-> 0]

Quiet == dryRun => /\ RunOnce => UNCHANGED bead
                   /\ UNCHANGED <<alerts, notified, presumed>>

LEMMA DryStep == ASSUME IInv, NoneSent, [Next]_vars
                 PROVE  /\ NoneSent'
                        /\ [Quiet]_vars
<1>1. dryRun' = dryRun
  BY DEF Next, RunOnce, Item, Fetch, Take, Verified, CloseBead, Alert, Forget, Count, EndCycle, Stop, Exit,
     Around, OpenBead, ResolveByAPI, CloseFulfilled, CloseByHand, Expire, Restart, vars, processVars
<1>2. ASSUME Next, dryRun PROVE /\ RunOnce => UNCHANGED bead
                                /\ UNCHANGED <<alerts, notified, presumed>>
  <2>1. CASE RunOnce
    <3>1. ASSUME NEW b \in Beads, NEW ok \in BOOLEAN, CloseBead(b, ok)
          PROVE  UNCHANGED <<bead, alerts, notified, presumed>>
      BY <1>2, <3>1 DEF CloseBead, Leave, Resolve
    <3>2. ASSUME NEW b \in Beads, NEW ok \in BOOLEAN, Alert(b, ok)
          PROVE  UNCHANGED <<bead, alerts, notified, presumed>>
      BY <1>2, <3>2 DEF Alert, Leave
    <3>3. ASSUME NEW b \in Beads, Forget(b)
          PROVE  FALSE
      BY <1>2, <3>3 DEF Forget, Leave, IInv, NoticeInv
    <3> QED
      BY <2>1, <3>1, <3>2, <3>3 DEF RunOnce, Item, Fetch, Take, Verified, Count, EndCycle, historyVars
  <2>2. ASSUME ~RunOnce
        PROVE  UNCHANGED <<alerts, notified, presumed>>
    <3>1. ASSUME NEW b \in Beads, Around(b) PROVE UNCHANGED <<alerts, notified, presumed>>
      BY <1>2, <3>1 DEF Around, OpenBead, ResolveByAPI, CloseFulfilled, CloseByHand, Expire, historyVars
    <3>2. CASE Restart
      BY <1>2, <3>2 DEF Restart, NoneSent
    <3> QED BY <1>2, <2>2, <3>1, <3>2 DEF Next, Stop, Exit, historyVars
  <2> QED BY <2>1, <2>2
<1>3. NoneSent'
  BY <1>1, <1>2 DEF NoneSent, vars, historyVars
<1> QED BY <1>2, <1>3 DEF Quiet

\* In dry-run mode no step of a cycle changes a bead, and nothing is sent or announced,
\* by the loop or by anybody else in the process.
THEOREM DryRunChangesNothing == Spec => DryRunIsSilent
<1>1. Init => NoneSent
  BY DEF Init, NoneSent
<1>2. IInv /\ NoneSent /\ [Next]_vars => NoneSent' /\ [Quiet]_vars
  BY DryStep
<1>3. [][Quiet]_vars => DryRunIsSilent
  BY DEF Quiet, DryRunIsSilent
<1> QED BY <1>1, <1>2, <1>3, Invariance, PTL DEF Spec
=============================================================================
