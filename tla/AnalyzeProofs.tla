----------------------------- MODULE AnalyzeProofs -----------------------------
(***************************************************************************)
(* Theorems about module Analyze, for any requests, sessions, messages and   *)
(* beads, and any size of the window.                                        *)
(***************************************************************************)
EXTENDS Analyze, SequenceTheorems, FiniteSetTheorems, TLAPS

-----------------------------------------------------------------------------
(* The inductive invariant *)

Typing ==
  /\ bead \in [Beads -> BeadStates] /\ dryRun \in BOOLEAN
  /\ window \in [Sessions -> Seq(Messages)]
  /\ stage \in [Requests -> Stages]
  /\ sess \in [Requests -> SUBSET Sessions]
  /\ buf \in [Requests -> Seq(Messages)]
  /\ todo \in [Requests -> SUBSET Beads]
  /\ matches \in [Requests -> SUBSET Beads]
  /\ target \in [Requests -> SUBSET Beads]
  /\ due \in [Requests -> 0..WindowSize]
  /\ status \in [Requests -> Grace!Statuses]
  /\ outcome \in [Requests -> Grace!Outcomes]
  /\ filed \in [Requests -> {"no", "not needed", "failed", "created", "told", "reported"}]
  /\ log \in [Sessions -> Seq(Messages)]
  /\ closer \in [Beads -> SUBSET Sessions]
  /\ announced \in SUBSET Beads

\* w stands in l after the first k messages.
StandsAt(w, l, k) ==
  k + Len(w) <= Len(l) /\ \A i \in 1 .. Len(w) : w[i] = l[k + i]

\* A window holds the last messages of its session.
WindowInv ==
  \A s \in Sessions :
    /\ Len(window[s]) <= WindowSize /\ Len(window[s]) <= Len(log[s])
    /\ StandsAt(window[s], log[s], Len(log[s]) - Len(window[s]))

\* A request's copy of the window holds messages that follow each other in its session.
BufInv ==
  \A r \in Requests :
    /\ Len(buf[r]) <= WindowSize
    /\ stage[r] \in {"idle", "ignored"} => todo[r] = {} /\ target[r] = {}
    /\ stage[r] \notin {"idle", "ignored"} => buf[r] # <<>> /\ sess[r] # {}
    /\ \A s \in sess[r] : sess[r] = {s} /\ \E k \in 0 .. Len(log[s]) : StandsAt(buf[r], log[s], k)

\* A request's bead is filed when its verification is delivered, and that is accepted
\* when the message was received.
FiledInv ==
  \A r \in Requests :
    /\ bead[r] # "absent" => status[r] = "delivered"
    /\ status[r] # "new" => stage[r] \notin {"idle", "ignored", "received"}

\* What a request still closes matches its session, and there is a cause.
CloseInv ==
  \A r \in Requests : \A s \in sess[r] :
    /\ stage[r] = "closing" => MayAutoResolve(r, s)
    /\ \A b \in todo[r] : bead[b] # "absent" /\ BeadTag(b) = TagOf[s]
    /\ \A b \in target[r] :
         bead[b] # "absent" /\ MatchesSession(b, s) /\ Fulfilled(buf[r]) # {}

\* Only a bead that is there was closed by anybody.
CloserInv == \A b \in Beads : closer[b] # {} => bead[b] # "absent"

IInv == /\ Typing /\ WindowInv /\ BufInv /\ FiledInv /\ CloseInv /\ CloserInv
        /\ ClosedWithCause /\ ResolvedIsClosed

-----------------------------------------------------------------------------
(* Lemmas about windows *)

LEMMA TrimAppend ==
  ASSUME NEW w \in Seq(Messages), NEW m \in Messages, Len(w) <= WindowSize
  PROVE  \E d \in 0 .. 1 :
           /\ Trim(Append(w, m)) \in Seq(Messages)
           /\ Len(Trim(Append(w, m))) = Len(w) + 1 - d
           /\ Len(Trim(Append(w, m))) \in 1 .. WindowSize
           /\ \A i \in 1 .. Len(Trim(Append(w, m))) : Trim(Append(w, m))[i] = Append(w, m)[d + i]
<1> DEFINE a == Append(w, m)
<1>1. /\ a \in Seq(Messages) /\ Len(a) = Len(w) + 1 /\ Len(w) \in Nat
      /\ \A i \in 1 .. Len(a) : a[i] \in Messages
  <2>1. a \in Seq(Messages) /\ Len(a) = Len(w) + 1
    BY AppendProperties
  <2> QED BY <2>1, LenProperties, ElementOfSeq
<1>2. WindowSize \in Nat /\ WindowSize >= 1
  BY AnalyzeAssumption
<1> HIDE DEF a
<1>3. CASE Len(a) > WindowSize
  <2>1. Len(w) = WindowSize /\ Len(a) = WindowSize + 1
    BY <1>1, <1>2, <1>3
  <2>2. Trim(a) = SubSeq(a, 2, WindowSize + 1)
    BY <1>2, <1>3, <2>1 DEF Trim
  <2>3. /\ SubSeq(a, 2, WindowSize + 1) \in Seq(Messages)
        /\ Len(SubSeq(a, 2, WindowSize + 1)) = WindowSize
        /\ \A i \in 1 .. WindowSize : SubSeq(a, 2, WindowSize + 1)[i] = a[2 + i - 1]
    BY <1>1, <1>2, <2>1, SubSeqProperties
  <2>4. \A i \in 1 .. Len(Trim(a)) : Trim(a)[i] = a[1 + i]
    BY <1>2, <2>2, <2>3
  <2> QED BY <1>2, <2>1, <2>2, <2>3, <2>4 DEF a
<1>4. CASE Len(a) <= WindowSize
  <2>1. Trim(a) = a
    BY <1>1, <1>2, <1>4 DEF Trim
  <2>2. \A i \in 1 .. Len(Trim(a)) : Trim(a)[i] = a[0 + i]
    BY <1>1, <2>1
  <2> QED BY <1>1, <1>2, <1>4, <2>1, <2>2 DEF a
<1> QED BY <1>1, <1>2, <1>3, <1>4

\* A further message leaves what stood where it stood.
LEMMA AppendStands ==
  ASSUME NEW l \in Seq(Messages), NEW m \in Messages, NEW w \in Seq(Messages), NEW k \in Nat,
         StandsAt(w, l, k)
  PROVE  StandsAt(w, Append(l, m), k)
<1>1. /\ Len(Append(l, m)) = Len(l) + 1 /\ \A i \in 1 .. Len(l) : Append(l, m)[i] = l[i]
      /\ Len(l) \in Nat /\ Len(w) \in Nat
  BY AppendProperties, LenProperties
<1>2. \A i \in 1 .. Len(w) : k + i \in 1 .. Len(l)
  BY <1>1 DEF StandsAt
<1> QED BY <1>1, <1>2 DEF StandsAt

LEMMA WindowExtends ==
  ASSUME NEW l \in Seq(Messages), NEW m \in Messages, NEW w \in Seq(Messages),
         Len(w) <= WindowSize, Len(w) <= Len(l), StandsAt(w, l, Len(l) - Len(w))
  PROVE  /\ Len(Trim(Append(w, m))) <= Len(Append(l, m))
         /\ StandsAt(Trim(Append(w, m)), Append(l, m), Len(Append(l, m)) - Len(Trim(Append(w, m))))
<1> DEFINE a == Append(w, m)
           t == Trim(a)
           g == Append(l, m)
<1>1. PICK d \in 0 .. 1 : /\ Len(t) = Len(w) + 1 - d
                           /\ \A i \in 1 .. Len(t) : t[i] = a[d + i]
  BY TrimAppend
<1>2. /\ Len(g) = Len(l) + 1 /\ Len(a) = Len(w) + 1
      /\ Len(l) \in Nat /\ Len(w) \in Nat
  BY AppendProperties, LenProperties
<1>3. /\ \A i \in 1 .. Len(l) : g[i] = l[i]
      /\ \A i \in 1 .. Len(w) : a[i] = w[i]
      /\ g[Len(l) + 1] = m /\ a[Len(w) + 1] = m
  BY AppendProperties
<1>4. \A i \in 1 .. Len(w) : w[i] = l[(Len(l) - Len(w)) + i]
  BY DEF StandsAt
<1> HIDE DEF a, t, g
<1>5. ASSUME NEW i \in 1 .. Len(t) PROVE t[i] = g[(Len(g) - Len(t)) + i]
  <2> DEFINE j == d + i
  <2>1. j \in 1 .. Len(w) + 1 /\ t[i] = a[j]
    BY <1>1, <1>2
  <2>2. (Len(g) - Len(t)) + i = (Len(l) - Len(w)) + j
    BY <1>1, <1>2
  <2> HIDE DEF j
  <2>3. CASE j = Len(w) + 1
    <3>1. (Len(l) - Len(w)) + j = Len(l) + 1
      BY <1>2, <2>3
    <3> QED BY <1>3, <2>1, <2>2, <2>3, <3>1
  <2>4. CASE j \in 1 .. Len(w)
    <3>1. (Len(l) - Len(w)) + j \in 1 .. Len(l)
      BY <1>2, <2>4
    <3>2. a[j] = w[j] /\ w[j] = l[(Len(l) - Len(w)) + j]
      BY <1>3, <1>4, <2>4
    <3> QED BY <1>3, <2>1, <2>2, <3>1, <3>2
  <2> QED BY <1>2, <2>1, <2>3, <2>4
<1>6. Len(t) <= Len(g) /\ (Len(g) - Len(t)) + Len(t) <= Len(g)
  BY <1>1, <1>2
<1> QED BY <1>5, <1>6 DEF StandsAt, a, t, g

LEMMA FulfilledBound ==
  ASSUME NEW w \in Seq(Messages), Len(w) <= WindowSize
  PROVE  Cardinality(Fulfilled(w)) \in 0 .. WindowSize
<1>1. Len(w) \in Nat /\ DOMAIN w = 1 .. Len(w)
  BY LenProperties
<1>2. IsFiniteSet(1 .. Len(w)) /\ Cardinality(1 .. Len(w)) = Len(w)
  <2>1. 1 \in Int /\ Len(w) \in Int
    BY <1>1
  <2>2. /\ IsFiniteSet(1 .. Len(w))
        /\ Cardinality(1 .. Len(w)) = IF 1 > Len(w) THEN 0 ELSE Len(w) - 1 + 1
    BY <2>1, FS_Interval, Zenon
  <2> QED BY <1>1, <2>2
<1>3. Fulfilled(w) \in SUBSET (1 .. Len(w))
  BY <1>1 DEF Fulfilled
<1>4. IsFiniteSet(Fulfilled(w)) /\ Cardinality(Fulfilled(w)) <= Len(w)
  BY <1>2, <1>3, FS_Subset
<1>5. Cardinality(Fulfilled(w)) \in Nat
  BY <1>4, FS_CardinalityType
<1> QED BY <1>1, <1>4, <1>5, AnalyzeAssumption

-----------------------------------------------------------------------------
(* Lemmas about causes *)

LEMMA FulfilledCauses ==
  ASSUME NEW s \in Sessions, NEW k \in Nat, NEW w \in Seq(Messages), log[s] \in Seq(Messages),
         StandsAt(w, log[s], k), Len(w) <= WindowSize, Fulfilled(w) # {}
  PROVE  Caused(s)
<1>1. /\ Len(w) \in Nat /\ DOMAIN w = 1 .. Len(w)
      /\ Len(log[s]) \in Nat /\ DOMAIN log[s] = 1 .. Len(log[s])
  BY LenProperties
<1>2. PICK i \in 1 .. Len(w) : \E j \in i + 1 .. Len(w) : w[i] \in Fulfils[w[j]]
  BY <1>1 DEF Fulfilled
<1>3. PICK j \in i + 1 .. Len(w) : w[i] \in Fulfils[w[j]]
  BY <1>2
<1>4. /\ k + i \in DOMAIN log[s] /\ k + j \in DOMAIN log[s]
      /\ k + i < k + j /\ k + j < k + i + WindowSize
  BY <1>1, <1>3, AnalyzeAssumption DEF StandsAt
<1>5. j \in 1 .. Len(w)
  BY <1>1, <1>3
<1>6. log[s][k + i] = w[i] /\ log[s][k + j] = w[j]
  BY <1>5 DEF StandsAt
<1> QED BY <1>3, <1>4, <1>6 DEF Caused

LEMMA IndicatorCauses ==
  ASSUME NEW s \in Sessions, NEW k \in Nat, NEW w \in Seq(Messages), log[s] \in Seq(Messages),
         StandsAt(w, log[s], k), w # <<>>, w[Len(w)] \in Indicating
  PROVE  Caused(s)
<1>1. /\ Len(w) \in Nat /\ Len(w) # 0
      /\ Len(log[s]) \in Nat /\ DOMAIN log[s] = 1 .. Len(log[s])
  BY LenProperties, EmptySeq
<1>2. k + Len(w) \in DOMAIN log[s] /\ Len(w) \in 1 .. Len(w)
  BY <1>1 DEF StandsAt
<1>3. log[s][k + Len(w)] = w[Len(w)]
  BY <1>2 DEF StandsAt
<1> QED BY <1>2, <1>3 DEF Caused

LEMMA CausedStays ==
  ASSUME NEW s \in Sessions, log[s] \in Seq(Messages), Caused(s),
         log'[s] = log[s] \/ \E m \in Messages : log'[s] = Append(log[s], m)
  PROVE  Caused(s)'
<1>1. CASE log'[s] = log[s]
  BY <1>1 DEF Caused
<1>2. CASE \E m \in Messages : log'[s] = Append(log[s], m)
  <2>1. PICK m \in Messages : log'[s] = Append(log[s], m)
    BY <1>2
  <2>2. /\ Len(log'[s]) = Len(log[s]) + 1 /\ log'[s] \in Seq(Messages)
        /\ \A i \in 1 .. Len(log[s]) : log'[s][i] = log[s][i]
    BY <2>1, AppendProperties
  <2>3. /\ Len(log[s]) \in Nat /\ DOMAIN log[s] = 1 .. Len(log[s])
        /\ DOMAIN (log'[s]) = 1 .. Len(log'[s])
    BY <2>2, LenProperties
  <2>4. \A i \in DOMAIN log[s] : i \in DOMAIN (log'[s]) /\ log'[s][i] = log[s][i]
    BY <2>2, <2>3
  <2> QED BY <2>4 DEF Caused
<1> QED BY <1>1, <1>2

-----------------------------------------------------------------------------
(* Lemmas about the parts of a step *)

\* Resolve may close the one bead, and does so if it says so outside a dry run.
LEMMA ResolveMoves ==
  ASSUME Typing, NEW b \in Beads, NEW ok \in BOOLEAN, Resolve(b, ok)
  PROVE  /\ bead' \in [Beads -> BeadStates]
         /\ \A c \in Beads : bead'[c] = bead[c] \/ (c = b /\ bead[c] = "open" /\ bead'[c] = "closed")
         /\ ok => dryRun \/ bead'[b] = "closed"
         /\ dryRun => bead' = bead
BY DEF Resolve, Typing, BeadStates

LEMMA ClosedByMoves ==
  ASSUME Typing, NEW b \in Beads, NEW s \in Sessions, ClosedBy(b, s)
  PROVE  /\ closer' \in [Beads -> SUBSET Sessions]
         /\ \A c \in Beads : closer'[c] = closer[c] \/ (c = b /\ closer'[c] = {s} /\ bead'[b] # bead[b])
BY DEF ClosedBy, Typing

\* What the grace period's steps leave of the other verifications.
GraceMoves(r) ==
  /\ status' \in [Requests -> Grace!Statuses] /\ outcome' \in [Requests -> Grace!Outcomes]
  /\ \A q \in Requests : status[q] = "delivered" => status'[q] = "delivered"
  /\ \A q \in Requests \ {r} : status'[q] # "new" => status[q] # "new"

LEMMA GraceSteps ==
  ASSUME Typing, NEW r \in Requests
  PROVE  /\ \A W \in SUBSET Requests : Grace!Accept(r, W) => GraceMoves(r)
         /\ Grace!Begin(r) \/ Grace!Conclude(r) => GraceMoves(r) /\ status'[r] # "new" /\ status[r] # "new"
         /\ Grace!Deliver(r) => /\ GraceMoves(r) /\ status[r] = "verifying" /\ status'[r] = "delivered"
         /\ Grace!Withdraw(Requests) => GraceMoves(r) /\ (status'[r] # "new" => status[r] # "new")
<1>1. status \in [Requests -> Grace!Statuses] /\ outcome \in [Requests -> Grace!Outcomes]
  BY DEF Typing
<1>2. \A W \in SUBSET Requests :
        /\ Grace!Withdrawn(W) \in [Requests -> Grace!Statuses]
        /\ \A q \in Requests : /\ status[q] = "delivered" => Grace!Withdrawn(W)[q] = "delivered"
                               /\ Grace!Withdrawn(W)[q] # "new" => status[q] # "new"
  BY <1>1 DEF Grace!Withdrawn, Grace!Statuses
<1>3. ASSUME NEW W \in SUBSET Requests, Grace!Accept(r, W) PROVE GraceMoves(r)
  <2>1. status[r] = "new" /\ status' = [Grace!Withdrawn(W) EXCEPT ![r] = "waiting"] /\ outcome' = outcome
    BY <1>3 DEF Grace!Accept
  <2>2. PICK f \in [Requests -> Grace!Statuses] :
          /\ f = Grace!Withdrawn(W)
          /\ \A q \in Requests : /\ status[q] = "delivered" => f[q] = "delivered"
                                 /\ f[q] # "new" => status[q] # "new"
    BY <1>2
  <2>3. status' = [f EXCEPT ![r] = "waiting"]
    BY <2>1, <2>2
  <2>4. status' \in [Requests -> Grace!Statuses]
    BY <2>3 DEF Grace!Statuses
  <2>5. \A q \in Requests \ {r} : status'[q] = f[q]
    BY <2>3
  <2>6. outcome' \in [Requests -> Grace!Outcomes]
    BY <1>1, <2>1
  <2>7. \A q \in Requests : status[q] = "delivered" => status'[q] = "delivered"
    BY <2>1, <2>2, <2>5
  <2>8. \A q \in Requests \ {r} : status'[q] # "new" => status[q] # "new"
    BY <2>2, <2>5
  <2> QED BY <2>4, <2>6, <2>7, <2>8 DEF GraceMoves
<1>4. Grace!Begin(r) \/ Grace!Conclude(r) => GraceMoves(r) /\ status'[r] # "new" /\ status[r] # "new"
  BY <1>1 DEF Grace!Begin, Grace!Conclude, Grace!Statuses, Grace!Outcomes, GraceMoves
<1>5. Grace!Deliver(r) => /\ GraceMoves(r) /\ status[r] = "verifying" /\ status'[r] = "delivered"
  BY <1>1 DEF Grace!Deliver, Grace!Statuses, GraceMoves
<1>6. Grace!Withdraw(Requests) => GraceMoves(r) /\ (status'[r] # "new" => status[r] # "new")
  <2>1. PICK f \in [Requests -> Grace!Statuses] :
          /\ f = Grace!Withdrawn(Requests)
          /\ \A q \in Requests : /\ status[q] = "delivered" => f[q] = "delivered"
                                 /\ f[q] # "new" => status[q] # "new"
    BY <1>2
  <2>2. Grace!Withdraw(Requests) => outcome' \in [Requests -> Grace!Outcomes] /\ status' = f
    BY <1>1, <2>1 DEF Grace!Withdraw
  <2>3. status' = f => /\ status' \in [Requests -> Grace!Statuses]
                       /\ \A q \in Requests : status[q] = "delivered" => status'[q] = "delivered"
                       /\ \A q \in Requests : status'[q] # "new" => status[q] # "new"
    BY <2>1
  <2> QED BY <2>2, <2>3 DEF GraceMoves
<1> QED BY <1>3, <1>4, <1>5, <1>6

-----------------------------------------------------------------------------
(* The types *)

LEMMA TypeReceive ==
  ASSUME Typing, WindowInv, NEW r \in Requests, NEW s \in Sessions, NEW m \in Messages, Receive(r, s, m)
  PROVE  Typing'
<1> DEFINE t == Trim(Append(window[s], m))
<1>1. t \in Seq(Messages)
  BY TrimAppend DEF Typing, WindowInv
<1>2. Append(log[s], m) \in Seq(Messages)
  BY AppendProperties DEF Typing
<1>3. /\ window' = [window EXCEPT ![s] = t] /\ buf' = [buf EXCEPT ![r] = window'[s]]
      /\ log' = [log EXCEPT ![s] = Append(log[s], m)]
  BY DEF Receive
<1> HIDE DEF t
<1>4. window' \in [Sessions -> Seq(Messages)] /\ window'[s] = t
  BY <1>1, <1>3 DEF Typing
<1>5. buf' \in [Requests -> Seq(Messages)] /\ log' \in [Sessions -> Seq(Messages)]
  BY <1>1, <1>2, <1>3, <1>4 DEF Typing
<1>6. sess' \in [Requests -> SUBSET Sessions] /\ stage' \in [Requests -> Stages]
  BY DEF Receive, Typing, Stages
<1> QED BY <1>4, <1>5, <1>6 DEF Receive, Typing, graceVars

LEMMA TypeHandle ==
  ASSUME Typing, BufInv, NEW r \in Requests, Handle(r)
  PROVE  Typing'
<1>1. ASSUME NEW s \in Sessions, NEW W \in SUBSET Requests, SchedulePromise(r, s, W) PROVE Typing'
  <2>1. GraceMoves(r)
    BY <1>1, GraceSteps DEF SchedulePromise
  <2> QED BY <1>1, <2>1 DEF SchedulePromise, GraceMoves, Typing, Stages, historyVars
<1>2. ASSUME NEW s \in Sessions, NoAutoResolve(r, s) PROVE Typing'
  BY <1>2 DEF NoAutoResolve, Typing, Stages, graceVars, historyVars
<1>3. ASSUME NEW s \in Sessions, NEW ok \in BOOLEAN, ListOwn(r, s, ok) PROVE Typing'
  BY <1>3 DEF ListOwn, Typing, Stages, Open, graceVars, historyVars
<1>4. ASSUME NEW s \in Sessions, NEW b \in Beads, ListMatching(r, s, b) PROVE Typing'
  <2>1. Cardinality(Fulfilled(buf[r])) \in 0 .. WindowSize
    BY FulfilledBound DEF Typing, BufInv
  <2>2. due' \in [Requests -> 0 .. WindowSize]
    BY <1>4, <2>1 DEF ListMatching, Typing
  <2> QED BY <1>4, <2>2 DEF ListMatching, Typing, Stages, graceVars, historyVars
<1>5. ASSUME NEW s \in Sessions, NEW b \in Beads, NEW ok \in BOOLEAN, CloseOwn(r, s, b, ok) PROVE Typing'
  <2>1. bead' \in [Beads -> BeadStates] /\ closer' \in [Beads -> SUBSET Sessions]
    BY <1>5, ResolveMoves, ClosedByMoves DEF CloseOwn
  <2>2. matches' \in [Requests -> SUBSET Beads]
    BY <1>5 DEF CloseOwn, MatchesWith, Typing
  <2>3. todo' \in [Requests -> SUBSET Beads] /\ stage' \in [Requests -> Stages]
    BY <1>5 DEF CloseOwn, Typing, Stages
  <2> QED BY <1>5, <2>1, <2>2, <2>3 DEF CloseOwn, Typing, graceVars
<1>6. ASSUME NEW s \in Sessions, NEW b \in Beads, NEW ok \in BOOLEAN, CloseMatching(r, s, b, ok)
      PROVE  Typing'
  <2>1. bead' \in [Beads -> BeadStates] /\ closer' \in [Beads -> SUBSET Sessions]
    BY <1>6, ResolveMoves, ClosedByMoves DEF CloseMatching
  <2>2. due[r] - 1 \in 0 .. WindowSize
    <3>1. due[r] \in 0 .. WindowSize /\ due[r] > 0
      BY <1>6 DEF CloseMatching, Typing
    <3> QED BY <3>1, AnalyzeAssumption
  <2>3. due' \in [Requests -> 0 .. WindowSize]
    BY <1>6, <2>2 DEF CloseMatching, Typing
  <2>4. announced' \in SUBSET Beads
    BY <1>6 DEF CloseMatching, Announce, Typing
  <2> QED BY <1>6, <2>1, <2>3, <2>4 DEF CloseMatching, Typing, graceVars
<1>7. CASE AnnounceOwn(r)
  <2>1. announced' \in SUBSET Beads
    BY <1>7 DEF AnnounceOwn, Announce, Typing
  <2> QED BY <1>7, <2>1 DEF AnnounceOwn, Typing, Stages, graceVars
<1>8. CASE NoneFulfilled(r) \/ Answer(r)
  BY <1>8 DEF NoneFulfilled, Answer, Typing, Stages, graceVars, historyVars
<1> QED BY <1>1, <1>2, <1>3, <1>4, <1>5, <1>6, <1>7, <1>8 DEF Handle

LEMMA TypeStep ==
  ASSUME Typing, WindowInv, BufInv, [Next]_vars
  PROVE  Typing'
<1>1. CASE UNCHANGED vars
  BY <1>1 DEF vars, requestVars, graceVars, historyVars, Typing
<1>2. ASSUME NEW r \in Requests, Ignore(r) PROVE Typing'
  BY <1>2 DEF Ignore, Typing, Stages, graceVars, historyVars
<1>3. ASSUME NEW r \in Requests, NEW s \in Sessions, NEW m \in Messages, Receive(r, s, m) PROVE Typing'
  BY <1>3, TypeReceive
<1>4. ASSUME NEW r \in Requests, Handle(r) PROVE Typing'
  BY <1>4, TypeHandle
<1>5. ASSUME NEW r \in Requests, GraceRuns(r) PROVE Typing'
  <2>1. GraceMoves(r)
    BY <1>5, GraceSteps DEF GraceRuns
  <2> QED BY <1>5, <2>1 DEF GraceRuns, GraceMoves, Typing, requestVars, historyVars
<1>6. ASSUME NEW r \in Requests, NothingToFile(r) PROVE Typing'
  <2>1. GraceMoves(r)
    BY <1>6, GraceSteps DEF NothingToFile
  <2> QED BY <1>6, <2>1 DEF NothingToFile, GraceMoves, Typing, requestVars, historyVars
<1>7. ASSUME NEW r \in Requests, NEW ok \in BOOLEAN, NEW wrote \in BOOLEAN, FileBead(r, ok, wrote)
      PROVE  Typing'
  <2>1. GraceMoves(r)
    BY <1>7, GraceSteps DEF FileBead
  <2>2. bead' \in [Beads -> BeadStates]
    BY <1>7 DEF FileBead, Typing, BeadStates
  <2>3. filed' \in [Requests -> {"no", "not needed", "failed", "created", "told", "reported"}]
    BY <1>7 DEF FileBead, Typing
  <2> QED BY <1>7, <2>1, <2>2, <2>3 DEF FileBead, GraceMoves, Typing, requestVars, historyVars
<1>8. ASSUME NEW r \in Requests, TellRelay(r) \/ \E ok \in BOOLEAN : TellWebhook(r, ok) PROVE Typing'
  BY <1>8 DEF TellRelay, TellWebhook, AfterWebhook, Typing, requestVars, historyVars
<1>9. CASE StopGrace
  <2>1. PICK r \in Requests : GraceMoves(r)
    BY <1>9, GraceSteps DEF StopGrace
  <2> QED BY <1>9, <2>1 DEF StopGrace, GraceMoves, Typing, requestVars, historyVars
<1>10. ASSUME NEW b \in Beads, CloseElsewhere(b) PROVE Typing'
  BY <1>10 DEF CloseElsewhere, Typing, BeadStates, requestVars, graceVars, historyVars
<1>11. ASSUME NEW b \in Beads, NEW ok \in BOOLEAN, ResolveByHand(b, ok) PROVE Typing'
  <2>1. bead' \in [Beads -> BeadStates]
    BY <1>11, ResolveMoves DEF ResolveByHand
  <2>2. announced' \in SUBSET Beads
    BY <1>11 DEF ResolveByHand, Announce, Typing
  <2> QED BY <1>11, <2>1, <2>2 DEF ResolveByHand, Typing, requestVars, graceVars
<1> QED BY <1>1, <1>2, <1>3, <1>4, <1>5, <1>6, <1>7, <1>8, <1>9, <1>10, <1>11 DEF Next, Callback

-----------------------------------------------------------------------------
(* What a step does to the beads, and to a request *)

\* A bead that is there stays, a closed one stays closed; a bead appears only when the
\* verification of its request is delivered.
BeadMoves ==
  /\ dryRun' = dryRun
  /\ \A b \in Beads : bead[b] # "absent" => bead'[b] # "absent"
  /\ \A b \in Beads : bead[b] = "closed" => bead'[b] = "closed"
  /\ \A r \in Requests : bead'[r] # "absent" => bead[r] # "absent" \/ status'[r] = "delivered"

\* The request's own variables stay as they are.
RequestFrame(r) ==
  /\ stage'[r] = stage[r] /\ sess'[r] = sess[r] /\ buf'[r] = buf[r]
  /\ todo'[r] = todo[r] /\ matches'[r] = matches[r] /\ target'[r] = target[r]

RequestStep(r) ==
  \/ RequestFrame(r)
  \/ Ignore(r)
  \/ \E s \in Sessions, m \in Messages : Receive(r, s, m)
  \/ Handle(r)

LEMMA ResolveBeadMoves ==
  ASSUME Typing, NEW b \in Beads, NEW ok \in BOOLEAN, Resolve(b, ok), dryRun' = dryRun
  PROVE  BeadMoves
<1>1. \A c \in Beads : bead'[c] = bead[c] \/ (bead[c] = "open" /\ bead'[c] = "closed")
  BY ResolveMoves
<1>2. Requests \subseteq Beads
  BY AnalyzeAssumption
<1> QED BY <1>1, <1>2 DEF BeadMoves

LEMMA BeadStep ==
  ASSUME Typing, FiledInv, [Next]_vars
  PROVE  BeadMoves
<1>1. CASE UNCHANGED <<bead, dryRun>>
  BY <1>1 DEF BeadMoves
<1>2. ASSUME NEW r \in Requests, NEW s \in Sessions, NEW b \in Beads, NEW ok \in BOOLEAN,
             CloseOwn(r, s, b, ok) \/ CloseMatching(r, s, b, ok)
      PROVE  BeadMoves
  BY <1>2, ResolveBeadMoves DEF CloseOwn, CloseMatching
<1>3. ASSUME NEW b \in Beads, NEW ok \in BOOLEAN, ResolveByHand(b, ok) PROVE BeadMoves
  BY <1>3, ResolveBeadMoves DEF ResolveByHand
<1>4. ASSUME NEW b \in Beads, CloseElsewhere(b) PROVE BeadMoves
  <2>1. \A c \in Beads : bead'[c] = bead[c] \/ (bead[c] = "open" /\ bead'[c] = "closed")
    BY <1>4 DEF CloseElsewhere, Typing
  <2> QED BY <1>4, <2>1, AnalyzeAssumption DEF CloseElsewhere, BeadMoves
<1>5. ASSUME NEW r \in Requests, NEW ok \in BOOLEAN, NEW wrote \in BOOLEAN, FileBead(r, ok, wrote)
      PROVE  BeadMoves
  <2>1. status[r] = "verifying" /\ status'[r] = "delivered"
    BY <1>5, GraceSteps DEF FileBead
  <2>2. bead[r] = "absent"
    BY <2>1 DEF FiledInv
  <2>3. \A c \in Beads : bead'[c] = bead[c] \/ (c = r /\ bead'[c] = "open")
    BY <1>5 DEF FileBead, Typing
  <2> QED BY <1>5, <2>1, <2>2, <2>3, AnalyzeAssumption DEF FileBead, BeadMoves
<1>6. ASSUME NEW r \in Requests, Handle(r) PROVE BeadMoves
  BY <1>1, <1>2, <1>6 DEF Handle, SchedulePromise, NoAutoResolve, ListOwn, ListMatching, AnnounceOwn,
     NoneFulfilled, Answer
<1>7. ASSUME NEW r \in Requests, Callback(r) PROVE BeadMoves
  BY <1>1, <1>5, <1>7 DEF Callback, NothingToFile, TellWebhook, TellRelay
<1> QED BY <1>1, <1>3, <1>4, <1>6, <1>7 DEF Next, vars, Ignore, Receive, GraceRuns, StopGrace

LEMMA HandleKeepsMessages ==
  ASSUME NEW r \in Requests, Handle(r)
  PROVE  UNCHANGED <<window, log, sess, buf>>
<1>1. ASSUME NEW s \in Sessions, NEW W \in SUBSET Requests, SchedulePromise(r, s, W)
      PROVE  UNCHANGED <<window, log, sess, buf>>
  BY <1>1 DEF SchedulePromise, historyVars
<1>2. ASSUME NEW s \in Sessions, NEW ok \in BOOLEAN, NoAutoResolve(r, s) \/ ListOwn(r, s, ok)
      PROVE  UNCHANGED <<window, log, sess, buf>>
  BY <1>2 DEF NoAutoResolve, ListOwn, historyVars
<1>3. ASSUME NEW s \in Sessions, NEW b \in Beads, NEW ok \in BOOLEAN,
             ListMatching(r, s, b) \/ CloseOwn(r, s, b, ok) \/ CloseMatching(r, s, b, ok)
      PROVE  UNCHANGED <<window, log, sess, buf>>
  BY <1>3 DEF ListMatching, CloseOwn, CloseMatching, historyVars
<1>4. CASE AnnounceOwn(r) \/ NoneFulfilled(r) \/ Answer(r)
  BY <1>4 DEF AnnounceOwn, NoneFulfilled, Answer, historyVars
<1> QED BY <1>1, <1>2, <1>3, <1>4 DEF Handle

LEMMA StepOfRequest ==
  ASSUME Typing, [Next]_vars, NEW r \in Requests
  PROVE  RequestStep(r)
<1>1. CASE UNCHANGED requestVars
  BY <1>1 DEF requestVars, RequestStep, RequestFrame
<1>2. ASSUME NEW q \in Requests, q # r,
             Ignore(q) \/ Handle(q) \/ \E s \in Sessions, m \in Messages : Receive(q, s, m)
      PROVE  RequestFrame(r)
  <2>1. CASE Ignore(q)
    BY <1>2, <2>1 DEF Ignore, Typing, RequestFrame
  <2>2. CASE \E s \in Sessions, m \in Messages : Receive(q, s, m)
    BY <1>2, <2>2 DEF Receive, Typing, RequestFrame
  <2>3. CASE Handle(q)
    <3> DEFINE Same == /\ stage'[r] = stage[r] /\ todo'[r] = todo[r] /\ matches'[r] = matches[r]
                       /\ target'[r] = target[r]
    <3>1. ASSUME NEW s \in Sessions, NEW W \in SUBSET Requests, SchedulePromise(q, s, W) PROVE Same
      BY <1>2, <3>1 DEF SchedulePromise, Typing
    <3>2. ASSUME NEW s \in Sessions, NEW ok \in BOOLEAN, NoAutoResolve(q, s) \/ ListOwn(q, s, ok) PROVE Same
      BY <1>2, <3>2 DEF NoAutoResolve, ListOwn, Typing
    <3>3. ASSUME NEW s \in Sessions, NEW b \in Beads, ListMatching(q, s, b) PROVE Same
      BY <1>2, <3>3 DEF ListMatching, Typing
    <3>4. ASSUME NEW s \in Sessions, NEW b \in Beads, NEW ok \in BOOLEAN,
                 CloseOwn(q, s, b, ok) \/ CloseMatching(q, s, b, ok)
          PROVE  Same
      BY <1>2, <3>4 DEF CloseOwn, MatchesWith, CloseMatching, Typing
    <3>5. ASSUME AnnounceOwn(q) \/ NoneFulfilled(q) \/ Answer(q) PROVE Same
      BY <1>2, <3>5 DEF AnnounceOwn, NoneFulfilled, Answer, Typing
    <3> HIDE DEF Same
    <3>6. Same
      BY <2>3, <3>1, <3>2, <3>3, <3>4, <3>5 DEF Handle
    <3> QED BY <2>3, <3>6, HandleKeepsMessages DEF Same, RequestFrame
  <2> QED BY <1>2, <2>1, <2>2, <2>3
<1>3. ASSUME NEW q \in Requests, Ignore(q) \/ Handle(q) \/ \E s \in Sessions, m \in Messages : Receive(q, s, m)
      PROVE  RequestStep(r)
  BY <1>2, <1>3 DEF RequestStep
<1> QED BY <1>1, <1>3 DEF Next, vars, GraceRuns, Callback, NothingToFile, FileBead, TellWebhook, TellRelay,
           StopGrace, CloseElsewhere, ResolveByHand

-----------------------------------------------------------------------------
(* The messages *)

\* Only a message that is received changes the sessions.
LEMMA SessionStep ==
  ASSUME [Next]_vars
  PROVE  \/ UNCHANGED <<window, log, sess, buf>>
         \/ \E r \in Requests, s \in Sessions, m \in Messages : Receive(r, s, m)
<1>1. ASSUME NEW r \in Requests, Callback(r) PROVE UNCHANGED <<window, log, sess, buf>>
  BY <1>1 DEF Callback, NothingToFile, FileBead, TellWebhook, TellRelay, requestVars, historyVars
<1>2. ASSUME NEW r \in Requests, Ignore(r) \/ GraceRuns(r) PROVE UNCHANGED <<window, log, sess, buf>>
  BY <1>2 DEF Ignore, GraceRuns, requestVars, historyVars
<1>3. CASE StopGrace \/ \E b \in Beads : CloseElsewhere(b) \/ \E ok \in BOOLEAN : ResolveByHand(b, ok)
  BY <1>3 DEF StopGrace, CloseElsewhere, ResolveByHand, requestVars, historyVars
<1>4. CASE UNCHANGED vars
  BY <1>4 DEF vars, requestVars, historyVars
<1> QED BY <1>1, <1>2, <1>3, <1>4, HandleKeepsMessages DEF Next

LogMoves == \A s \in Sessions : log'[s] = log[s] \/ \E m \in Messages : log'[s] = Append(log[s], m)

LEMMA LogStep ==
  ASSUME Typing, [Next]_vars
  PROVE  LogMoves
<1>1. ASSUME NEW r \in Requests, NEW s \in Sessions, NEW m \in Messages, Receive(r, s, m)
      PROVE  LogMoves
  BY <1>1 DEF Receive, Typing, LogMoves
<1> QED BY <1>1, SessionStep DEF LogMoves

LEMMA WindowStep ==
  ASSUME Typing, WindowInv, [Next]_vars
  PROVE  WindowInv'
<1>1. CASE UNCHANGED <<window, log>>
  BY <1>1 DEF WindowInv, StandsAt
<1>2. ASSUME NEW r \in Requests, NEW s \in Sessions, NEW m \in Messages, Receive(r, s, m)
      PROVE  WindowInv'
  <2>1. /\ window'[s] = Trim(Append(window[s], m)) /\ log'[s] = Append(log[s], m)
        /\ \A t \in Sessions \ {s} : window'[t] = window[t] /\ log'[t] = log[t]
    BY <1>2 DEF Receive, Typing
  <2>2. window[s] \in Seq(Messages) /\ log[s] \in Seq(Messages)
    BY DEF Typing
  <2>3. /\ Len(window[s]) <= WindowSize /\ Len(window[s]) <= Len(log[s])
        /\ StandsAt(window[s], log[s], Len(log[s]) - Len(window[s]))
    BY DEF WindowInv
  <2>4. Len(window'[s]) \in 1 .. WindowSize
    BY <2>1, <2>2, <2>3, TrimAppend
  <2>5. /\ Len(window'[s]) <= Len(log'[s])
        /\ StandsAt(window'[s], log'[s], Len(log'[s]) - Len(window'[s]))
    BY <2>1, <2>2, <2>3, WindowExtends
  <2>6. Len(window'[s]) <= WindowSize
    BY <2>4, AnalyzeAssumption
  <2>7. \A t \in Sessions \ {s} :
          /\ Len(window'[t]) <= WindowSize /\ Len(window'[t]) <= Len(log'[t])
          /\ StandsAt(window'[t], log'[t], Len(log'[t]) - Len(window'[t]))
    BY <2>1 DEF WindowInv
  <2>8. \A t \in Sessions : (/\ Len(window[t]) <= WindowSize /\ Len(window[t]) <= Len(log[t])
                            /\ StandsAt(window[t], log[t], Len(log[t]) - Len(window[t])))'
    BY <2>5, <2>6, <2>7 DEF StandsAt
  <2> QED BY <2>8 DEF WindowInv
<1> QED BY <1>1, <1>2, SessionStep

\* A request that is being handled was received, and goes on.
LEMMA HandleStages ==
  ASSUME Typing, NEW r \in Requests, Handle(r)
  PROVE  stage[r] \notin {"idle", "ignored"} /\ stage'[r] \notin {"idle", "ignored", "received"}
<1>1. ASSUME NEW s \in Sessions, NEW W \in SUBSET Requests, SchedulePromise(r, s, W)
      PROVE  stage[r] = "received" /\ stage'[r] = "context"
  BY <1>1 DEF SchedulePromise, Typing
<1>2. ASSUME NEW s \in Sessions, NEW ok \in BOOLEAN, NoAutoResolve(r, s) \/ ListOwn(r, s, ok)
      PROVE  stage[r] = "received" /\ stage'[r] \in {"context", "closing", "failed"}
  BY <1>2 DEF NoAutoResolve, ListOwn, Typing
<1>3. ASSUME NEW s \in Sessions, NEW b \in Beads, NEW ok \in BOOLEAN,
             ListMatching(r, s, b) \/ CloseOwn(r, s, b, ok) \/ CloseMatching(r, s, b, ok)
      PROVE  stage[r] \in {"context", "closing", "fulfil"} /\ stage'[r] \in {"fulfil", "closing", "failed"}
  BY <1>3 DEF ListMatching, CloseOwn, CloseMatching, Typing
<1>4. ASSUME AnnounceOwn(r) \/ NoneFulfilled(r) \/ Answer(r)
      PROVE  stage[r] \in {"context", "closing", "fulfil"} /\ stage'[r] \in {"context", "answered"}
  BY <1>4 DEF AnnounceOwn, NoneFulfilled, Answer, Typing
<1> QED BY <1>1, <1>2, <1>3, <1>4 DEF Handle

LEMMA BufReceive ==
  ASSUME Typing, WindowInv, BufInv, NEW r \in Requests, NEW s \in Sessions, NEW m \in Messages,
         Receive(r, s, m)
  PROVE  BufInv!(r)'
<1> DEFINE t == Trim(Append(window[s], m))
<1>1. /\ buf'[r] = t /\ sess'[r] = {s} /\ log'[s] = Append(log[s], m)
      /\ todo'[r] = {} /\ target'[r] = {} /\ stage'[r] = "received"
  BY DEF Receive, Typing, BufInv
<1>2. /\ window[s] \in Seq(Messages) /\ log[s] \in Seq(Messages)
      /\ Len(window[s]) <= WindowSize /\ Len(window[s]) <= Len(log[s])
      /\ StandsAt(window[s], log[s], Len(log[s]) - Len(window[s]))
  BY DEF Typing, WindowInv
<1>3. t \in Seq(Messages) /\ Len(t) \in 1 .. WindowSize
  BY <1>2, TrimAppend
<1>4. Append(log[s], m) \in Seq(Messages)
  BY <1>2, AppendProperties
<1>5. /\ Len(t) <= Len(Append(log[s], m))
      /\ StandsAt(t, Append(log[s], m), Len(Append(log[s], m)) - Len(t))
  BY <1>2, WindowExtends
<1>6. Len(Append(log[s], m)) \in Nat
  BY <1>4, LenProperties
<1> HIDE DEF t
<1>7. Len(Append(log[s], m)) - Len(t) \in 0 .. Len(Append(log[s], m))
  BY <1>3, <1>5, <1>6
<1>8. t # <<>> /\ Len(t) <= WindowSize
  BY <1>3, AnalyzeAssumption, EmptySeq
<1>9. \A u \in sess'[r] : u = s
  BY <1>1
<1>10. \A u \in sess'[r] : sess'[r] = {u} /\ \E k \in 0 .. Len(log'[u]) : StandsAt(buf'[r], log'[u], k)
  BY <1>1, <1>5, <1>7, <1>9
<1> QED BY <1>1, <1>8, <1>10 DEF StandsAt

LEMMA BufStep ==
  ASSUME Typing, WindowInv, BufInv, LogMoves, NEW r \in Requests, RequestStep(r)
  PROVE  BufInv!(r)'
<1>1. CASE \E s \in Sessions, m \in Messages : Receive(r, s, m)
  BY <1>1, BufReceive
<1>2. ASSUME buf'[r] = buf[r], sess'[r] = sess[r]
      PROVE  /\ Len(buf'[r]) <= WindowSize
             /\ \A s \in sess'[r] :
                  sess'[r] = {s} /\ \E k \in 0 .. Len(log'[s]) : StandsAt(buf'[r], log'[s], k)
  <2>1. ASSUME NEW s \in sess[r]
        PROVE  sess[r] = {s} /\ \E k \in 0 .. Len(log'[s]) : StandsAt(buf[r], log'[s], k)
    <3>1. sess[r] = {s} /\ s \in Sessions /\ log[s] \in Seq(Messages) /\ buf[r] \in Seq(Messages)
      BY <2>1 DEF BufInv, Typing
    <3>2. PICK k \in 0 .. Len(log[s]) : StandsAt(buf[r], log[s], k)
      BY <2>1 DEF BufInv
    <3>3. CASE log'[s] = log[s]
      BY <3>1, <3>2, <3>3
    <3>4. CASE \E m \in Messages : log'[s] = Append(log[s], m)
      <4>1. PICK m \in Messages : log'[s] = Append(log[s], m)
        BY <3>4
      <4>2. StandsAt(buf[r], log'[s], k)
        BY <3>1, <3>2, <4>1, AppendStands
      <4>3. k \in 0 .. Len(log'[s])
        BY <3>1, <3>2, <4>1, AppendProperties, LenProperties
      <4> QED BY <3>1, <4>2, <4>3
    <3> QED BY <3>1, <3>3, <3>4 DEF LogMoves
  <2> QED BY <1>2, <2>1 DEF BufInv
<1>3. ASSUME RequestFrame(r) \/ Ignore(r) \/ Handle(r)
      PROVE  buf'[r] = buf[r] /\ sess'[r] = sess[r]
  BY <1>3, HandleKeepsMessages DEF RequestFrame, Ignore
<1>4. CASE RequestFrame(r) \/ Ignore(r)
  <2>1. /\ stage'[r] \in {"idle", "ignored"} <=> stage[r] \in {"idle", "ignored"}
        /\ todo'[r] = todo[r] /\ target'[r] = target[r]
    BY <1>4 DEF RequestFrame, Ignore, Typing
  <2> QED BY <1>2, <1>3, <1>4, <2>1 DEF BufInv, StandsAt
<1>5. CASE Handle(r)
  <2>1. stage[r] \notin {"idle", "ignored"} /\ stage'[r] \notin {"idle", "ignored"}
    BY <1>5, HandleStages
  <2>2. buf'[r] # <<>> /\ sess'[r] # {}
    BY <1>3, <1>5, <2>1 DEF BufInv
  <2> QED BY <1>2, <1>3, <1>5, <2>1, <2>2 DEF BufInv, StandsAt
<1> QED BY <1>1, <1>4, <1>5 DEF RequestStep

-----------------------------------------------------------------------------
(* The verifications and the beads *)

LEMMA StatusStep ==
  ASSUME Typing, [Next]_vars, NEW r \in Requests
  PROVE  /\ status[r] = "delivered" => status'[r] = "delivered"
         /\ status'[r] # "new" => status[r] # "new" \/ (Handle(r) /\ stage'[r] = "context")
<1>1. CASE UNCHANGED status
  BY <1>1
<1>2. ASSUME NEW q \in Requests, NEW s \in Sessions, NEW W \in SUBSET Requests, SchedulePromise(q, s, W)
      PROVE  /\ status[r] = "delivered" => status'[r] = "delivered"
             /\ status'[r] # "new" => status[r] # "new" \/ (q = r /\ stage'[r] = "context")
  BY <1>2, GraceSteps DEF SchedulePromise, GraceMoves, Typing
<1>3. ASSUME NEW q \in Requests, Handle(q)
      PROVE  /\ status[r] = "delivered" => status'[r] = "delivered"
             /\ status'[r] # "new" => status[r] # "new" \/ (Handle(r) /\ stage'[r] = "context")
  <2>1. UNCHANGED status \/ \E s \in Sessions, W \in SUBSET Requests : SchedulePromise(q, s, W)
    BY <1>3 DEF Handle, NoAutoResolve, ListOwn, CloseOwn, AnnounceOwn, NoneFulfilled, ListMatching,
       CloseMatching, Answer, graceVars
  <2> QED BY <1>2, <1>3, <2>1
<1>4. ASSUME NEW q \in Requests,
             GraceRuns(q) \/ NothingToFile(q) \/ \E ok, wrote \in BOOLEAN : FileBead(q, ok, wrote)
      PROVE  /\ status[r] = "delivered" => status'[r] = "delivered"
             /\ status'[r] # "new" => status[r] # "new"
  BY <1>4, GraceSteps DEF GraceRuns, NothingToFile, FileBead, GraceMoves
<1>5. CASE StopGrace
  BY <1>5, GraceSteps DEF StopGrace, GraceMoves
<1> QED BY <1>1, <1>3, <1>4, <1>5 DEF Next, vars, graceVars, Ignore, Receive, Callback, TellWebhook,
           TellRelay, CloseElsewhere, ResolveByHand

LEMMA FiledStep ==
  ASSUME Typing, FiledInv, BeadMoves, [Next]_vars
  PROVE  FiledInv'
<1> SUFFICES ASSUME NEW r \in Requests
             PROVE  /\ bead'[r] # "absent" => status'[r] = "delivered"
                    /\ status'[r] # "new" => stage'[r] \notin {"idle", "ignored", "received"}
  BY DEF FiledInv
<1>1. RequestStep(r)
  BY StepOfRequest
<1>2. bead'[r] # "absent" => status'[r] = "delivered"
  BY StatusStep DEF FiledInv, BeadMoves
<1>3. ASSUME status[r] # "new" PROVE stage'[r] \notin {"idle", "ignored", "received"}
  BY <1>1, <1>3, HandleStages DEF FiledInv, RequestStep, RequestFrame, Ignore, Receive
<1> QED BY <1>2, <1>3, StatusStep

\* The tag of a bead that is there does not change any more.
LEMMA TagStays ==
  ASSUME FiledInv, NEW b \in Beads, bead[b] # "absent", b \in Requests => RequestStep(b)
  PROVE  BeadTag(b)' = BeadTag(b)
<1>1. CASE b \in OldBeads
  BY <1>1 DEF BeadTag
<1>2. CASE b \in Requests
  <2>1. stage[b] \notin {"idle", "ignored", "received"}
    BY <1>2 DEF FiledInv
  <2>2. RequestFrame(b) \/ Handle(b)
    BY <1>2, <2>1 DEF RequestStep, Ignore, Receive
  <2>3. sess'[b] = sess[b]
    BY <1>2, <2>2, HandleKeepsMessages DEF RequestFrame
  <2> QED BY <2>3 DEF BeadTag
<1> QED BY <1>1, <1>2, AnalyzeAssumption

\* Where the beads that a request still closes, and those it has closed, come from.
HandleEffect(r) ==
  /\ stage'[r] = "closing" => stage[r] = "closing" \/ \E s \in Sessions : ListOwn(r, s, TRUE)
  /\ todo'[r] \subseteq todo[r] \/ \E s \in Sessions : ListOwn(r, s, TRUE)
  /\ target'[r] = target[r] \/ \E s \in Sessions, b \in Beads : ListMatching(r, s, b)
  /\ \/ matches'[r] = matches[r]
     \/ \E s \in Sessions, b \in Beads : CloseOwn(r, s, b, TRUE) /\ matches'[r] = matches[r] \cup {b}

LEMMA HandleMoves ==
  ASSUME Typing, NEW r \in Requests, Handle(r)
  PROVE  HandleEffect(r)
<1>1. ASSUME NEW s \in Sessions, NEW W \in SUBSET Requests, SchedulePromise(r, s, W) \/ NoAutoResolve(r, s)
      PROVE  HandleEffect(r)
  BY <1>1 DEF SchedulePromise, NoAutoResolve, Typing, HandleEffect
<1>2. ASSUME NEW s \in Sessions, ListOwn(r, s, FALSE) PROVE HandleEffect(r)
  BY <1>2 DEF ListOwn, Typing, HandleEffect
<1>3. ASSUME NEW s \in Sessions, ListOwn(r, s, TRUE) PROVE HandleEffect(r)
  <2>1. UNCHANGED <<target, matches>>
    BY <1>3 DEF ListOwn
  <2> QED BY <1>3, <2>1 DEF HandleEffect
<1>4. ASSUME NEW s \in Sessions, NEW b \in Beads, ListMatching(r, s, b) PROVE HandleEffect(r)
  <2>1. stage'[r] # "closing" /\ UNCHANGED <<todo, matches>>
    BY <1>4 DEF ListMatching, Typing
  <2> QED BY <1>4, <2>1 DEF HandleEffect
<1>5. ASSUME NEW s \in Sessions, NEW b \in Beads, NEW ok \in BOOLEAN, CloseOwn(r, s, b, ok)
      PROVE  HandleEffect(r)
  <2>1. /\ stage[r] = "closing" /\ todo'[r] \subseteq todo[r] /\ target' = target
        /\ ~ok => matches'[r] = matches[r]
        /\ ok => matches'[r] = matches[r] \cup {b}
    BY <1>5 DEF CloseOwn, MatchesWith, Typing
  <2>2. CASE ok
    <3>1. CloseOwn(r, s, b, TRUE)
      BY <1>5, <2>2
    <3> QED BY <2>1, <2>2, <3>1 DEF HandleEffect
  <2>3. CASE ~ok
    BY <2>1, <2>3 DEF HandleEffect
  <2> QED BY <2>2, <2>3
<1>6. ASSUME NEW s \in Sessions, NEW b \in Beads, NEW ok \in BOOLEAN, CloseMatching(r, s, b, ok)
      PROVE  HandleEffect(r)
  BY <1>6 DEF CloseMatching, HandleEffect
<1>7. ASSUME AnnounceOwn(r) \/ NoneFulfilled(r) \/ Answer(r) PROVE HandleEffect(r)
  BY <1>7 DEF AnnounceOwn, NoneFulfilled, Answer, Typing, HandleEffect
<1>8. ASSUME NEW s \in Sessions, NEW ok \in BOOLEAN, ListOwn(r, s, ok) PROVE HandleEffect(r)
  BY <1>2, <1>3, <1>8
<1> QED BY <1>1, <1>4, <1>5, <1>6, <1>7, <1>8 DEF Handle

\* What a request still closes matches its session, also when other requests and other
\* tools close beads meanwhile.
LEMMA CloseStep ==
  ASSUME Typing, BufInv, FiledInv, CloseInv, BeadMoves, [Next]_vars
  PROVE  CloseInv'
<1> SUFFICES ASSUME NEW r \in Requests, NEW s \in sess'[r]
             PROVE  /\ stage'[r] = "closing" => MayAutoResolve(r, s)'
                    /\ \A b \in todo'[r] : bead'[b] # "absent" /\ BeadTag(b)' = TagOf[s]
                    /\ \A b \in target'[r] :
                         bead'[b] # "absent" /\ MatchesSession(b, s)' /\ Fulfilled(buf'[r]) # {}
  BY DEF CloseInv, MatchesSession, Fulfilled
<1>1. RequestStep(r) /\ \A b \in Beads : bead[b] # "absent" => BeadTag(b)' = BeadTag(b)
  BY StepOfRequest, TagStays
<1>2. todo[r] \subseteq Beads /\ target[r] \subseteq Beads
  BY DEF Typing
<1>3. CASE Ignore(r) \/ \E t \in Sessions, m \in Messages : Receive(r, t, m)
  <2>1. stage'[r] # "closing"
    BY <1>3 DEF Ignore, Receive, Typing
  <2>2. stage[r] = "idle" /\ todo'[r] = todo[r] /\ target'[r] = target[r]
    BY <1>3 DEF Ignore, Receive
  <2>3. todo'[r] = {} /\ target'[r] = {}
    BY <2>2 DEF BufInv
  <2> QED BY <2>1, <2>3
<1>4. CASE RequestFrame(r) \/ Handle(r)
  <2>1. sess'[r] = sess[r] /\ buf'[r] = buf[r] /\ s \in sess[r]
    BY <1>4, HandleKeepsMessages DEF RequestFrame
  <2>2. \A t \in sess[r] : t = s
    BY <2>1 DEF BufInv
  <2>3. MayAutoResolve(r, s)' = MayAutoResolve(r, s)
    BY <2>1 DEF MayAutoResolve, Message
  <2>4. ASSUME NEW b \in Beads, bead[b] # "absent"
        PROVE  bead'[b] # "absent" /\ BeadTag(b)' = BeadTag(b) /\ (MatchesSession(b, s) => MatchesSession(b, s)')
    BY <1>1, <2>4 DEF BeadMoves, MatchesSession
  <2>5. stage'[r] = "closing" => MayAutoResolve(r, s)
    <3>1. CASE stage[r] = "closing"
      BY <2>1, <3>1 DEF CloseInv
    <3>2. CASE \E t \in Sessions : ListOwn(r, t, TRUE)
      BY <2>2, <3>2 DEF ListOwn
    <3> QED BY <1>4, <3>1, <3>2, HandleMoves DEF RequestFrame, HandleEffect
  <2>6. \A b \in todo'[r] : bead[b] # "absent" /\ BeadTag(b) = TagOf[s] /\ b \in Beads
    <3>1. CASE todo'[r] \subseteq todo[r]
      BY <1>2, <2>1, <3>1 DEF CloseInv
    <3>2. ASSUME NEW t \in Sessions, ListOwn(r, t, TRUE)
          PROVE  \A b \in todo'[r] : bead[b] # "absent" /\ BeadTag(b) = TagOf[s] /\ b \in Beads
      <4>1. t = s /\ todo'[r] = {b \in Open : BeadTag(b) = TagOf[t]}
        BY <2>2, <3>2 DEF ListOwn, Typing
      <4> QED BY <4>1 DEF Open
    <3> QED BY <1>4, <3>1, <3>2, HandleMoves DEF RequestFrame, HandleEffect
  <2>7. \A b \in target'[r] :
          bead[b] # "absent" /\ MatchesSession(b, s) /\ Fulfilled(buf[r]) # {} /\ b \in Beads
    <3>1. CASE target'[r] = target[r]
      BY <1>2, <2>1, <3>1 DEF CloseInv
    <3>2. ASSUME NEW t \in Sessions, NEW c \in Beads, ListMatching(r, t, c)
          PROVE  \A b \in target'[r] :
                   bead[b] # "absent" /\ MatchesSession(b, s) /\ Fulfilled(buf[r]) # {} /\ b \in Beads
      <4>1. t = s /\ target'[r] = {c} /\ c \in Open /\ MatchesSession(c, t) /\ Fulfilled(buf[r]) # {}
        BY <2>2, <3>2 DEF ListMatching, Typing
      <4> QED BY <4>1 DEF Open
    <3> QED BY <1>4, <3>1, <3>2, HandleMoves DEF RequestFrame, HandleEffect
  <2> QED BY <2>1, <2>3, <2>4, <2>5, <2>6, <2>7
<1> QED BY <1>1, <1>3, <1>4 DEF RequestStep

\* A bead gets a closer only by the two ways in which a message closes beads.
LEMMA WhoCloses ==
  ASSUME Typing, [Next]_vars, NEW b \in Beads, NEW s \in closer'[b], s \notin closer[b]
  PROVE  \E r \in Requests, ok \in BOOLEAN : s \in Sessions /\ (CloseOwn(r, s, b, ok) \/ CloseMatching(r, s, b, ok))
<1>1. ASSUME UNCHANGED closer PROVE FALSE
  BY <1>1
<1>2. ASSUME NEW r \in Requests, NEW t \in Sessions, NEW c \in Beads, NEW ok \in BOOLEAN,
             CloseOwn(r, t, c, ok) \/ CloseMatching(r, t, c, ok)
      PROVE  b = c /\ s = t
  BY <1>2, ClosedByMoves DEF CloseOwn, CloseMatching
<1>3. ASSUME NEW r \in Requests, Handle(r)
      PROVE  \E t \in Sessions, c \in Beads, ok \in BOOLEAN : CloseOwn(r, t, c, ok) \/ CloseMatching(r, t, c, ok)
  BY <1>1, <1>3 DEF Handle, SchedulePromise, NoAutoResolve, ListOwn, ListMatching, AnnounceOwn,
     NoneFulfilled, Answer, historyVars
<1>4. \E r \in Requests : Handle(r)
  <2>1. ASSUME NEW r \in Requests, Callback(r) \/ GraceRuns(r) \/ Ignore(r) PROVE FALSE
    BY <1>1, <2>1 DEF Callback, NothingToFile, FileBead, TellWebhook, TellRelay, GraceRuns, Ignore, historyVars
  <2> QED BY <1>1, <2>1 DEF Next, vars, historyVars, Receive, StopGrace, CloseElsewhere, ResolveByHand
<1>5. PICK r \in Requests, t \in Sessions, c \in Beads, ok \in BOOLEAN :
        CloseOwn(r, t, c, ok) \/ CloseMatching(r, t, c, ok)
  BY <1>3, <1>4
<1> QED BY <1>2, <1>5

\* What a message closes is there, matches the session, and has its cause in it.
LEMMA CauseOfClose ==
  ASSUME Typing, BufInv, CloseInv, NEW r \in Requests, NEW s \in Sessions, NEW b \in Beads,
         NEW ok \in BOOLEAN, CloseOwn(r, s, b, ok) \/ CloseMatching(r, s, b, ok)
  PROVE  /\ bead[b] # "absent" /\ Caused(s)
         /\ s \in EmptyKey \/ BeadTag(b) \in {NoTag, TagOf[s], LowerTag[s]}
<1>1. s \in sess[r] /\ stage[r] \notin {"idle", "ignored"}
  BY DEF CloseOwn, CloseMatching
<1>2. /\ buf[r] \in Seq(Messages) /\ log[s] \in Seq(Messages) /\ buf[r] # <<>> /\ Len(buf[r]) <= WindowSize
  BY <1>1 DEF Typing, BufInv
<1>3. PICK k \in 0 .. Len(log[s]) : StandsAt(buf[r], log[s], k)
  BY <1>1 DEF BufInv
<1>4. k \in Nat
  BY <1>2, <1>3, LenProperties
<1>5. CASE CloseOwn(r, s, b, ok)
  <2>1. MayAutoResolve(r, s) /\ bead[b] # "absent" /\ BeadTag(b) = TagOf[s]
    BY <1>1, <1>5 DEF CloseOwn, CloseInv
  <2>2. Caused(s)
    BY <1>2, <1>3, <1>4, <2>1, IndicatorCauses DEF MayAutoResolve, Message
  <2> QED BY <2>1, <2>2
<1>6. CASE CloseMatching(r, s, b, ok)
  <2>1. Fulfilled(buf[r]) # {} /\ bead[b] # "absent" /\ MatchesSession(b, s)
    BY <1>1, <1>6 DEF CloseMatching, CloseInv
  <2>2. Caused(s)
    BY <1>2, <1>3, <1>4, <2>1, FulfilledCauses
  <2> QED BY <2>1, <2>2 DEF MatchesSession
<1> QED BY <1>5, <1>6

LEMMA CloserStep ==
  ASSUME Typing, BufInv, FiledInv, CloseInv, CloserInv, ClosedWithCause, BeadMoves, [Next]_vars
  PROVE  CloserInv' /\ ClosedWithCause'
<1> SUFFICES ASSUME NEW b \in Beads, NEW s \in closer'[b]
             PROVE  /\ bead'[b] # "absent" /\ Caused(s)'
                    /\ s \in EmptyKey \/ BeadTag(b)' \in {NoTag, TagOf[s], LowerTag[s]}
  BY DEF CloserInv, ClosedWithCause, Caused
<1>1. /\ s \in Sessions /\ bead[b] # "absent" /\ Caused(s)
      /\ s \in EmptyKey \/ BeadTag(b) \in {NoTag, TagOf[s], LowerTag[s]}
  <2>1. CASE s \in closer[b]
    BY <2>1 DEF CloserInv, ClosedWithCause, Typing
  <2>2. CASE s \notin closer[b]
    <3>1. PICK r \in Requests, ok \in BOOLEAN :
            s \in Sessions /\ (CloseOwn(r, s, b, ok) \/ CloseMatching(r, s, b, ok))
      BY <2>2, WhoCloses
    <3> QED BY <3>1, CauseOfClose
  <2> QED BY <2>1, <2>2
<1>2. BeadTag(b)' = BeadTag(b)
  BY <1>1, StepOfRequest, TagStays
<1>3. Caused(s)'
  <2>1. log[s] \in Seq(Messages) /\ (log'[s] = log[s] \/ \E m \in Messages : log'[s] = Append(log[s], m))
    BY <1>1, LogStep DEF Typing, LogMoves
  <2> QED BY <1>1, <2>1, CausedStays
<1> QED BY <1>1, <1>2, <1>3 DEF BeadMoves

LEMMA ResolvedStep ==
  ASSUME Typing, ResolvedIsClosed, BeadMoves, [Next]_vars
  PROVE  ResolvedIsClosed'
<1> SUFFICES ASSUME NEW r \in Requests, NEW b \in matches'[r] PROVE bead'[b] = "closed" \/ dryRun'
  BY DEF ResolvedIsClosed
<1>1. ASSUME b \in matches[r] PROVE bead'[b] = "closed" \/ dryRun'
  <2>1. b \in Beads
    BY <1>1 DEF Typing
  <2> QED BY <1>1, <2>1 DEF ResolvedIsClosed, BeadMoves
<1>2. ASSUME NEW s \in Sessions, CloseOwn(r, s, b, TRUE), b \in Beads
      PROVE  bead'[b] = "closed" \/ dryRun'
  <2>1. Resolve(b, TRUE)
    BY <1>2 DEF CloseOwn
  <2>2. dryRun \/ bead'[b] = "closed"
    BY <1>2, <2>1, ResolveMoves
  <2> QED BY <2>2 DEF BeadMoves
<1>3. CASE Handle(r)
  <2>1. CASE matches'[r] = matches[r]
    BY <1>1, <2>1
  <2>2. CASE \E s \in Sessions, c \in Beads : CloseOwn(r, s, c, TRUE) /\ matches'[r] = matches[r] \cup {c}
    <3>1. PICK s \in Sessions, c \in Beads : CloseOwn(r, s, c, TRUE) /\ matches'[r] = matches[r] \cup {c}
      BY <2>2
    <3>2. b \in matches[r] \/ b = c
      BY <3>1
    <3> QED BY <1>1, <1>2, <3>1, <3>2
  <2> QED BY <1>3, <2>1, <2>2, HandleMoves DEF HandleEffect
<1>4. CASE RequestFrame(r) \/ Ignore(r) \/ \E s \in Sessions, m \in Messages : Receive(r, s, m)
  BY <1>1, <1>4 DEF RequestFrame, Ignore, Receive
<1> QED BY <1>3, <1>4, StepOfRequest DEF RequestStep

-----------------------------------------------------------------------------
(* The inductive invariant *)

LEMMA InvInit == Init => IInv
<1> SUFFICES ASSUME Init PROVE IInv
  OBVIOUS
<1> USE AnalyzeAssumption DEF Init, Grace!ContractInit
<1>1. Typing
  BY EmptySeq DEF Typing, BeadStates, Stages, Grace!Statuses, Grace!Outcomes
<1>2. Len(<<>>) = 0
  OBVIOUS
<1>3. WindowInv /\ BufInv
  BY <1>2 DEF WindowInv, BufInv, StandsAt
<1>4. FiledInv /\ CloseInv /\ CloserInv /\ ClosedWithCause /\ ResolvedIsClosed
  BY DEF FiledInv, CloseInv, CloserInv, ClosedWithCause, ResolvedIsClosed
<1> QED BY <1>1, <1>3, <1>4 DEF IInv

LEMMA InvNext == IInv /\ [Next]_vars => IInv'
<1> SUFFICES ASSUME IInv, [Next]_vars PROVE IInv'
  OBVIOUS
<1>1. /\ Typing /\ WindowInv /\ BufInv /\ FiledInv /\ CloseInv /\ CloserInv
      /\ ClosedWithCause /\ ResolvedIsClosed
  BY DEF IInv
<1>2. Typing' /\ WindowInv' /\ BeadMoves /\ LogMoves
  BY <1>1, TypeStep, WindowStep, BeadStep, LogStep
<1>3. BufInv'
  <2>1. \A r \in Requests : BufInv!(r)'
    BY <1>1, <1>2, StepOfRequest, BufStep
  <2> QED BY <2>1 DEF BufInv
<1>4. FiledInv' /\ CloseInv'
  BY <1>1, <1>2, FiledStep, CloseStep
<1>5. CloserInv' /\ ClosedWithCause' /\ ResolvedIsClosed'
  BY <1>1, <1>2, CloserStep, ResolvedStep
<1> QED BY <1>2, <1>3, <1>4, <1>5 DEF IInv

LEMMA Invariance == Spec => []IInv
BY InvInit, InvNext, PTL DEF Spec

-----------------------------------------------------------------------------
\* The variables keep to their types; in particular no window and no copy of one is
\* longer than WindowSize, and no request acts upon more fulfilments than that.
THEOREM TypeCorrect == Spec => []TypeOK
<1>1. IInv => TypeOK
  BY DEF IInv, Typing, WindowInv, TypeOK
<1> QED BY <1>1, Invariance, PTL

\* A message closes a bead only with a cause in its own session, whatever other requests
\* do to the window and to the beads between its steps.
THEOREM EveryCloseHasACause == Spec => []ClosedWithCause
<1>1. IInv => ClosedWithCause
  BY DEF IInv
<1> QED BY <1>1, Invariance, PTL

\* What an answer calls resolved is closed, and stays so.
THEOREM AnswersAreTrue == Spec => []ResolvedIsClosed
<1>1. IInv => ResolvedIsClosed
  BY DEF IInv
<1> QED BY <1>1, Invariance, PTL

\* In a dry run nothing that a message or a request leads to changes a bead or is
\* announced.
THEOREM DryRunChangesNothing == Spec => DryRunIsSilent
<1> DEFINE Silent == (dryRun /\ \A b \in Beads : ~CloseElsewhere(b)) => UNCHANGED <<bead, announced>>
<1>1. IInv /\ [Next]_vars => [Silent]_vars
  <2> SUFFICES ASSUME IInv, Next, dryRun, \A b \in Beads : ~CloseElsewhere(b)
               PROVE  UNCHANGED <<bead, announced>>
    BY DEF vars
  <2>1. ASSUME NEW b \in Beads, NEW ok \in BOOLEAN, Resolve(b, ok) PROVE UNCHANGED bead
    BY <2>1 DEF Resolve
  <2>2. ASSUME NEW r \in Requests, NEW s \in Sessions, NEW b \in Beads, NEW ok \in BOOLEAN,
               CloseOwn(r, s, b, ok) \/ CloseMatching(r, s, b, ok)
        PROVE  UNCHANGED <<bead, announced>>
    BY <2>1, <2>2 DEF CloseOwn, CloseMatching, Announce
  <2>3. ASSUME NEW r \in Requests, Handle(r) PROVE UNCHANGED <<bead, announced>>
    BY <2>2, <2>3 DEF Handle, SchedulePromise, NoAutoResolve, ListOwn, ListMatching, AnnounceOwn, Announce,
       NoneFulfilled, Answer, historyVars
  <2>4. ASSUME NEW r \in Requests, Callback(r) PROVE UNCHANGED <<bead, announced>>
    BY <2>4 DEF Callback, NothingToFile, FileBead, MustFile, TellWebhook, TellRelay, historyVars
  <2>5. ASSUME NEW b \in Beads, NEW ok \in BOOLEAN, ResolveByHand(b, ok) PROVE UNCHANGED <<bead, announced>>
    BY <2>1, <2>5 DEF ResolveByHand, Announce
  <2> QED BY <2>3, <2>4, <2>5 DEF Next, Ignore, Receive, GraceRuns, StopGrace, historyVars
<1> QED BY <1>1, Invariance, PTL DEF Spec, DryRunIsSilent
===============================================================================
