--------------------------- MODULE VerificationProofs ---------------------------
(***************************************************************************)
(* What holds of promises and their verifications for any number of          *)
(* promises, jobs, files and beads, any length of a second, and any number of *)
(* changes and restarts: nothing that backs a promise is overlooked, no       *)
(* promise is dropped, and no bead backs itself.                             *)
(***************************************************************************)
EXTENDS Verification, TLAPS

Sources == {"crons", "beads", "files"}

\* What is left to ask of the verifiers' lists.
PromiseLists == {<<"crons", "beads", "files">>, <<"beads", "files">>, <<"files">>, <<>>}
LoopLists == {<<"crons", "files">>, <<"files">>, <<>>}

ToAsk(v) == {left[v][i] : i \in DOMAIN left[v]}

-----------------------------------------------------------------------------
(* The inductive invariant *)

WorldType ==
  /\ now \in 0 .. MaxTime
  /\ bead \in [Beads -> BeadStates]
  /\ cron \in [Crons -> [since : Nat, flags : CronFlags]]
  /\ mtime \in [Files -> Nat]
  /\ made \in [Beads -> Nat]
  /\ \A c \in Crons : cron[c].since # Never => cron[c].since <= now
  /\ \A f \in Files : mtime[f] # Never => mtime[f] <= now
  /\ \A b \in Beads : bead[b] # "absent" => made[b] <= now

VerificationType ==
  /\ status \in [Promises -> Grace!Statuses]
  /\ outcome \in [Promises -> Grace!Outcomes]
  /\ filed \in [Promises -> {"no", "not needed", "created", "failed"}]
  /\ lost \in SUBSET Promises
  /\ phase \in {"idle", "asking", "backed", "unbacked"}
  /\ since \in [Verifications -> Nat]
  /\ left \in [Verifications -> PromiseLists \cup LoopLists]
  /\ \A p \in Promises : left[p] \in PromiseLists
  /\ left[Loop] \in LoopLists
  /\ found \in [Verifications -> SUBSET (Crons \cup Files \cup Beads)]
  /\ failed \in [Verifications -> SUBSET Sources]
  /\ unread \in [Verifications -> SUBSET Files]
  /\ steady \in [Verifications -> SUBSET (Crons \cup Files \cup Beads)]

\* How far a promise is: until it is delivered it has no bead, and only while it is
\* being verified, and no outcome is known, is there anything left to ask.
ProgressInv ==
  \A p \in Promises :
    /\ status[p] # "delivered" => bead[p] = "absent"
    /\ status[p] \in {"new", "waiting", "withdrawn"} => outcome[p] = "none" /\ found[p] = {}
    /\ left[p] # <<>> => status[p] = "verifying" /\ outcome[p] = "none"
    /\ p \in lost => status[p] \in {"waiting", "verifying"}

\* A verdict is what was found.
VerdictInv ==
  /\ \A p \in Promises :
       /\ outcome[p] = "unbacked" => found[p] = {}
       /\ outcome[p] = "backed" /\ p \notin lost => found[p] # {}
  /\ phase = "unbacked" => found[Loop] = {}

\* What a promise's verification found is outside, or the bead of something else that
\* was there at the time.
FoundInv ==
  \A p \in Promises, b \in Beads :
    b \in found[p] =>
      b # p /\ bead[b] # "absent" /\ (b \in Undated \/ made[b] \in since[p] .. MaxTime)

\* The loop looks for what is younger than the bead it is at.
LoopInv ==
  /\ \A x \in listed : x[1] \in Promises /\ x[2] \in Nat /\ bead[x[1]] # "absent" /\ made[x[1]] <= x[2]
  /\ \A b \in item : b \in Promises /\ bead[b] # "absent" /\ made[b] <= since[Loop]
  /\ left[Loop] # <<>> => phase = "asking"
  /\ \A m \in found[Loop] :
       \/ m \in Crons /\ cron[m].since # Never /\ Second(cron[m].since) >= Second(since[Loop])
       \/ m \in Files /\ mtime[m] # Never /\ mtime[m] >= since[Loop]

\* What backed a verification all along is found, or a file that was passed over, or in a
\* source that failed, or in one that is yet to be asked.
Covered(v) ==
  \A m \in steady[v] : m \in found[v] \cup unread[v] \/ SourceOf(m) \in failed[v] \cup ToAsk(v)

SteadyInv ==
  \A v \in Verifications :
    /\ ~Alive(v) => steady[v] = {}
    /\ Alive(v) => steady[v] \subseteq InForce(v, since[v])
    /\ Covered(v)

\* When the verdict is there, everything was asked.
AskedInv ==
  /\ \A p \in Promises : outcome[p] # "none" => left[p] = <<>>
  /\ phase \in {"backed", "unbacked"} => left[Loop] = <<>>

IInv == /\ WorldType /\ VerificationType /\ ProgressInv /\ VerdictInv /\ FoundInv /\ LoopInv
        /\ SteadyInv /\ AskedInv /\ AccountedFor

-----------------------------------------------------------------------------
(* Lemmas about the clock, the lists of sources and the history *)

\* A later moment is in no earlier second.
LEMMA SecondMonotone ==
  ASSUME NEW a \in Nat, NEW b \in Nat, a <= b
  PROVE  Second(a) \in Nat /\ Second(b) \in Nat /\ Second(a) <= Second(b)
<1> DEFINE T == TicksPerSecond
<1>1. T \in Nat \ {0}
  BY VerifyAssumption
<1> QED BY <1>1 DEF Second

\* What is in the second of a moment, or a later one, is not before that second began.
LEMMA SecondBegins ==
  ASSUME NEW a \in Nat, NEW b \in Nat, Second(a) <= Second(b)
  PROVE  a - (a % TicksPerSecond) \in Nat /\ a - (a % TicksPerSecond) <= b
<1> DEFINE T == TicksPerSecond
<1>1. T \in Nat \ {0}
  BY VerifyAssumption
<1>2. /\ a = T * (a \div T) + (a % T)
      /\ b = T * (b \div T) + (b % T) /\ b % T \in Nat
      /\ a \div T \in Nat /\ b \div T \in Nat
  BY <1>1
<1>3. T * (a \div T) <= T * (b \div T)
  BY <1>1, <1>2 DEF Second
<1> QED BY <1>1, <1>2, <1>3

\* Asking takes the first source of the list.
LEMMA AskingTails ==
  /\ \A l \in PromiseLists \ {<<>>} :
       /\ Tail(l) \in PromiseLists /\ Head(l) \in Sources
       /\ {l[i] : i \in DOMAIN l} \subseteq {Head(l)} \cup {Tail(l)[i] : i \in DOMAIN Tail(l)}
  /\ \A l \in LoopLists \ {<<>>} :
       /\ Tail(l) \in LoopLists /\ Head(l) \in {"crons", "files"}
       /\ {l[i] : i \in DOMAIN l} \subseteq {Head(l)} \cup {Tail(l)[i] : i \in DOMAIN Tail(l)}
<1>1. /\ Head(<<"crons", "beads", "files">>) = "crons"
      /\ Tail(<<"crons", "beads", "files">>) = <<"beads", "files">>
      /\ Head(<<"beads", "files">>) = "beads" /\ Tail(<<"beads", "files">>) = <<"files">>
      /\ Head(<<"files">>) = "files" /\ Tail(<<"files">>) = <<>>
      /\ Head(<<"crons", "files">>) = "crons" /\ Tail(<<"crons", "files">>) = <<"files">>
  OBVIOUS
<1>2. /\ {<<"crons", "beads", "files">>[i] : i \in DOMAIN <<"crons", "beads", "files">>}
           = {"crons", "beads", "files"}
      /\ {<<"beads", "files">>[i] : i \in DOMAIN <<"beads", "files">>} = {"beads", "files"}
      /\ {<<"crons", "files">>[i] : i \in DOMAIN <<"crons", "files">>} = {"crons", "files"}
      /\ {<<"files">>[i] : i \in DOMAIN <<"files">>} = {"files"}
  OBVIOUS
<1> DEFINE Splits(l, H, L) ==
             /\ Tail(l) \in L /\ Head(l) \in H
             /\ {l[i] : i \in DOMAIN l} \subseteq {Head(l)} \cup {Tail(l)[i] : i \in DOMAIN Tail(l)}
<1>3. Splits(<<"crons", "beads", "files">>, Sources, PromiseLists)
  BY <1>1, <1>2 DEF PromiseLists, Sources
<1>4. Splits(<<"beads", "files">>, Sources, PromiseLists)
  BY <1>1, <1>2 DEF PromiseLists, Sources
<1>5. Splits(<<"files">>, Sources, PromiseLists) /\ Splits(<<"files">>, {"crons", "files"}, LoopLists)
  BY <1>1, <1>2 DEF PromiseLists, LoopLists, Sources
<1>6. Splits(<<"crons", "files">>, {"crons", "files"}, LoopLists)
  BY <1>1, <1>2 DEF LoopLists
<1> HIDE DEF Splits
<1>7. \A l \in PromiseLists \ {<<>>} : Splits(l, Sources, PromiseLists)
  BY <1>3, <1>4, <1>5 DEF PromiseLists
<1>8. \A l \in LoopLists \ {<<>>} : Splits(l, {"crons", "files"}, LoopLists)
  BY <1>5, <1>6 DEF LoopLists
<1> QED BY <1>7, <1>8 DEF Splits

\* What every step does to the history.
LEMMA Observed ==
  ASSUME NEW B \in SUBSET Verifications, Observe(B), NEW v \in Verifications,
         VerificationType
  PROVE  /\ ~Alive(v)' => steady'[v] = {}
         /\ Alive(v)' => steady'[v] \subseteq InForce(v, since[v])'
         /\ v \notin B => steady'[v] \subseteq steady[v]
BY DEF Observe, VerificationType

LEMMA ObservedType ==
  ASSUME NEW B, Observe(B)
  PROVE  steady' \in [Verifications -> SUBSET (Crons \cup Files \cup Beads)]
<1>1. \A v \in Verifications : InForce(v, since[v])' \subseteq Crons \cup Files \cup Beads
  BY VerificationAssumption DEF InForce, External
<1>2. \A v \in Verifications :
        (IF ~Alive(v)' THEN {} ELSE IF v \in B THEN InForce(v, since[v])'
         ELSE steady[v] \cap InForce(v, since[v])') \in SUBSET (Crons \cup Files \cup Beads)
  BY <1>1
<1> QED BY <1>2 DEF Observe

-----------------------------------------------------------------------------
(* The world *)

LEMMA Ingredients ==
  /\ Promises \subseteq Beads /\ OtherBeads \subseteq Beads /\ Promises \cap OtherBeads = {}
  /\ Loop \notin Promises /\ Promises \subseteq Verifications /\ Loop \in Verifications
  /\ \A v \in Verifications : v = Loop \/ v \in Promises
  /\ MaxTime \in Nat /\ Never \in Nat /\ Never = MaxTime + 1
BY VerificationAssumption, VerifyAssumption DEF Verifications, Loop, Never

\* What exists stays, with the date it has; a file only gets younger.
WorldMoves ==
  /\ now <= now' /\ dryRun' = dryRun
  /\ \A b \in Beads : bead[b] # "absent" => bead'[b] # "absent" /\ made'[b] = made[b]
  /\ \A c \in Crons : cron[c].since # Never => cron'[c].since = cron[c].since
  /\ \A f \in Files : mtime[f] # Never => mtime'[f] # Never /\ mtime'[f] >= mtime[f]

LEMMA OthersStep ==
  ASSUME WorldType, World
  PROVE  /\ WorldType' /\ WorldMoves
         /\ \A p \in Promises : bead[p] = "absent" => bead'[p] = "absent"
<1> USE Ingredients
<1>1. CASE \E c \in Crons, f \in CronFlags : MakeCron(c, f)
  <2>1. PICK c \in Crons, f \in CronFlags : MakeCron(c, f)
    BY <1>1
  <2>2. cron' \in [Crons -> [since : Nat, flags : CronFlags]]
    BY <2>1 DEF MakeCron, WorldType
  <2>3. cron'[c].since = now /\ \A d \in Crons \ {c} : cron'[d] = cron[d]
    BY <2>1 DEF MakeCron, WorldType
  <2> QED BY <2>1, <2>2, <2>3 DEF MakeCron, WorldType, WorldMoves
<1>2. CASE \E c \in Crons, f \in CronFlags : SwitchCron(c, f)
  <2>1. PICK c \in Crons, f \in CronFlags : SwitchCron(c, f)
    BY <1>2
  <2>2. cron' \in [Crons -> [since : Nat, flags : CronFlags]]
    BY <2>1 DEF SwitchCron, WorldType
  <2>3. \A d \in Crons : cron'[d].since = cron[d].since
    BY <2>1 DEF SwitchCron, WorldType
  <2> QED BY <2>1, <2>2, <2>3 DEF SwitchCron, WorldType, WorldMoves
<1>3. CASE \E f \in Files : WriteFile(f)
  BY <1>3 DEF WriteFile, WorldType, WorldMoves
<1>4. CASE \E b \in Beads : MakeOtherBead(b)
  BY <1>4 DEF MakeOtherBead, WorldType, WorldMoves, BeadStates
<1>5. CASE \E b \in Beads : CloseElsewhere(b)
  BY <1>5 DEF CloseElsewhere, WorldType, WorldMoves, BeadStates
<1> QED BY <1>1, <1>2, <1>3, <1>4, <1>5 DEF World

LEMMA WorldStep ==
  ASSUME WorldType, VerificationType, ProgressInv, [Next]_vars
  PROVE  WorldType' /\ WorldMoves
<1> USE Ingredients
<1>1. CASE UNCHANGED <<now, dryRun, sourceVars>>
  BY <1>1 DEF WorldType, WorldMoves, sourceVars
<1>2. CASE TimePasses
  BY <1>2 DEF TimePasses, Tick, WorldType, WorldMoves, sourceVars
<1>3. CASE Others
  BY <1>3, OthersStep DEF Others
<1>4. ASSUME NEW p \in Promises, NEW ok \in BOOLEAN, NEW wrote \in BOOLEAN, FileBead(p, ok, wrote)
      PROVE  WorldType' /\ WorldMoves
  <2>1. bead[p] = "absent"
    BY <1>4 DEF FileBead, Grace!Deliver, ProgressInv
  <2>2. bead' \in [Beads -> BeadStates] /\ made' \in [Beads -> Nat]
    BY <1>4 DEF FileBead, WorldType, BeadStates
  <2>3. \A b \in Beads : \/ bead'[b] = bead[b] /\ made'[b] = made[b]
                         \/ b = p /\ made'[b] = now
    BY <1>4 DEF FileBead, WorldType
  <2> QED BY <1>4, <2>1, <2>2, <2>3 DEF FileBead, WorldType, WorldMoves
<1>5. ASSUME NEW b \in Beads, NEW ok \in BOOLEAN, CloseBacked(b, ok)
      PROVE  WorldType' /\ WorldMoves
  <2>1. bead' = bead \/ (bead[b] = "open" /\ bead' = [bead EXCEPT ![b] = "closed"])
    BY <1>5 DEF CloseBacked, Resolve
  <2> QED BY <1>5, <2>1 DEF CloseBacked, WorldType, WorldMoves, BeadStates
<1> QED BY <1>1, <1>2, <1>3, <1>4, <1>5 DEF Next, vars, Ask, Accept, Begin, Conclude, NothingToFile,
           Fetch, Take, Decide, Alert, Restart

-----------------------------------------------------------------------------
(* The kinds of steps *)

LEMMA FindingsType ==
  ASSUME NEW t, NEW u
  PROVE  /\ Findings("crons", t, u) \subseteq Crons
         /\ Findings("beads", t, u) \subseteq Beads
         /\ Findings("files", t, u) \subseteq Files
BY DEF Findings, CronFindings, FileFindings, BeadFindings, Shown, Open

LEMMA AskType ==
  ASSUME WorldType, VerificationType, NEW v \in Verifications,
         NEW ok \in BOOLEAN, NEW skipped \in SUBSET Files, Ask(v, ok, skipped)
  PROVE  VerificationType'
<1> USE Ingredients
<1>1. left[v] # <<>> /\ Head(left[v]) \in Sources
  BY AskingTails DEF Ask, VerificationType, Sources
<1>2. Findings(Head(left[v]), since[v], skipped) \subseteq Crons \cup Files \cup Beads
  BY <1>1, FindingsType DEF Sources
<1>3. /\ v \in Promises => Tail(left[v]) \in PromiseLists
      /\ v = Loop => Tail(left[v]) \in LoopLists
  BY <1>1, AskingTails DEF VerificationType
<1>4. left' = [left EXCEPT ![v] = Tail(left[v])]
  BY DEF Ask, LeftAfter
<1>5. found' \in [Verifications -> SUBSET (Crons \cup Files \cup Beads)]
  BY <1>2 DEF Ask, VerificationType
<1>6. failed' \in [Verifications -> SUBSET Sources]
  BY <1>1 DEF Ask, VerificationType
<1>7. /\ steady' \in [Verifications -> SUBSET (Crons \cup Files \cup Beads)]
      /\ unread' \in [Verifications -> SUBSET Files]
  BY ObservedType DEF Ask, VerificationType
<1>8. /\ left' \in [Verifications -> PromiseLists \cup LoopLists]
      /\ \A p \in Promises : left'[p] \in PromiseLists
      /\ left'[Loop] \in LoopLists
  BY <1>3, <1>4 DEF VerificationType
<1> QED BY <1>5, <1>6, <1>7, <1>8 DEF Ask, VerificationType, graceVars, loopVars

LEMMA EmptyLists ==
  /\ <<>> \in PromiseLists /\ <<>> \in LoopLists
  /\ Verifier \in PromiseLists /\ RecheckVerifier \in LoopLists
BY DEF PromiseLists, LoopLists, Verifier, RecheckVerifier

LEMMA GraceType ==
  ASSUME VerificationType, NEW p \in Promises
  PROVE  /\ Grace!Accept(p, {}) => /\ status[p] = "new" /\ status' = [status EXCEPT ![p] = "waiting"]
                                 /\ outcome' = outcome
         /\ Grace!Begin(p) => /\ status[p] = "waiting" /\ status' = [status EXCEPT ![p] = "verifying"]
                            /\ outcome' = outcome
         /\ Grace!Conclude(p) => /\ status[p] = "verifying" /\ outcome[p] = "none" /\ status' = status
                               /\ \E o \in {"backed", "unbacked"} : outcome' = [outcome EXCEPT ![p] = o]
         /\ Grace!Deliver(p) => /\ status[p] = "verifying" /\ outcome[p] # "none"
                              /\ status' = [status EXCEPT ![p] = "delivered"] /\ outcome' = outcome
<1>1. status \in [Promises -> Grace!Statuses] /\ outcome \in [Promises -> Grace!Outcomes]
  BY DEF VerificationType
<1>2. Grace!Withdrawn({}) = status
  BY <1>1 DEF Grace!Withdrawn
<1>3. Grace!Conclude(p) => \E o \in {"backed", "unbacked"} : outcome' = [outcome EXCEPT ![p] = o]
  BY <1>1 DEF Grace!Conclude, Grace!Outcomes
<1> QED BY <1>2, <1>3 DEF Grace!Accept, Grace!Begin, Grace!Conclude, Grace!Deliver

LEMMA TypeStep ==
  ASSUME WorldType, VerificationType, [Next]_vars
  PROVE  VerificationType'
<1> USE Ingredients, EmptyLists
<1>1. CASE UNCHANGED vars
  BY <1>1 DEF VerificationType, vars, graceVars, loopVars, verifyVars
<1>2. ASSUME NEW v \in Verifications, NEW ok \in BOOLEAN, NEW skipped \in SUBSET Files, Ask(v, ok, skipped)
      PROVE VerificationType'
  BY <1>2, AskType
<1>3. ASSUME NEW p \in Promises, Accept(p) PROVE VerificationType'
  <2>1. now \in Nat /\ since' = [since EXCEPT ![p] = now]
    BY <1>3 DEF Accept, WorldType
  <2>2. status' \in [Promises -> Grace!Statuses] /\ outcome' = outcome
    BY <1>3, GraceType DEF Accept, VerificationType, Grace!Statuses
  <2>3. since' \in [Verifications -> Nat]
    BY <2>1 DEF VerificationType
  <2>4. steady' \in [Verifications -> SUBSET (Crons \cup Files \cup Beads)]
    BY <1>3, ObservedType DEF Accept
  <2> QED BY <1>3, <2>2, <2>3, <2>4 DEF Accept, VerificationType, loopVars
<1>4. ASSUME NEW p \in Promises, Begin(p) PROVE VerificationType'
  BY <1>4, GraceType, ObservedType DEF Begin, StartAsking, VerificationType, loopVars, Grace!Statuses
<1>5. ASSUME NEW p \in Promises, Conclude(p) PROVE VerificationType'
  BY <1>5, GraceType, ObservedType DEF Conclude, VerificationType, loopVars, verifyVars, Grace!Outcomes
<1>6. ASSUME NEW p \in Promises, NothingToFile(p) PROVE VerificationType'
  BY <1>6, GraceType, ObservedType DEF NothingToFile, VerificationType, loopVars, Grace!Statuses
<1>7. ASSUME NEW p \in Promises, NEW ok \in BOOLEAN, NEW wrote \in BOOLEAN, FileBead(p, ok, wrote)
      PROVE  VerificationType'
  BY <1>7, GraceType, ObservedType DEF FileBead, VerificationType, loopVars, Grace!Statuses
<1>8. CASE Fetch
  BY <1>8, ObservedType DEF Fetch, VerificationType, graceVars, verifyVars
<1>9. ASSUME NEW b \in Beads, NEW t \in 0 .. MaxTime, Take(b, t) PROVE VerificationType'
  <2>1. /\ phase' = "asking" /\ since' = [since EXCEPT ![Loop] = t] /\ t \in Nat
        /\ left' = [left EXCEPT ![Loop] = RecheckVerifier]
        /\ found' = [found EXCEPT ![Loop] = {}] /\ failed' = [failed EXCEPT ![Loop] = {}]
        /\ unread' = [unread EXCEPT ![Loop] = {}]
        /\ UNCHANGED <<status, outcome, filed, lost>>
    BY <1>9 DEF Take, StartAsking, graceVars
  <2>2. steady' \in [Verifications -> SUBSET (Crons \cup Files \cup Beads)]
    BY <1>9, ObservedType DEF Take
  <2> QED BY <2>1, <2>2 DEF VerificationType
<1>10. CASE Decide
  BY <1>10, ObservedType DEF Decide, VerificationType, graceVars, verifyVars
<1>11. ASSUME NEW b \in Beads, NEW ok \in BOOLEAN, CloseBacked(b, ok) PROVE VerificationType'
  BY <1>11, ObservedType DEF CloseBacked, EndLoopVerification, VerificationType, graceVars
<1>12. CASE Alert
  BY <1>12, ObservedType DEF Alert, EndLoopVerification, VerificationType, graceVars
<1>13. CASE Restart
  <2>1. /\ lost' \in SUBSET Promises /\ phase' = "idle" /\ status' = status /\ outcome' = outcome
        /\ filed' = filed /\ since' \in [Verifications -> Nat]
    BY <1>13 DEF Restart, VerificationType, graceVars
  <2>2. /\ left' \in [Verifications -> PromiseLists \cup LoopLists]
        /\ \A p \in Promises : left'[p] \in PromiseLists
        /\ left'[Loop] \in LoopLists
    BY <1>13 DEF Restart
  <2>3. /\ found' \in [Verifications -> SUBSET (Crons \cup Files \cup Beads)]
        /\ failed' \in [Verifications -> SUBSET Sources]
        /\ unread' \in [Verifications -> SUBSET Files]
    BY <1>13 DEF Restart, VerificationType
  <2>4. steady' \in [Verifications -> SUBSET (Crons \cup Files \cup Beads)]
    BY <1>13, ObservedType DEF Restart
  <2> QED BY <2>1, <2>2, <2>3, <2>4 DEF VerificationType
<1>14. CASE TimePasses
  BY <1>14, ObservedType DEF TimePasses, VerificationType, graceVars, loopVars, verifyVars
<1>15. CASE Others
  BY <1>15, ObservedType DEF Others, VerificationType, graceVars, loopVars, verifyVars
<1> QED BY <1>1, <1>2, <1>3, <1>4, <1>5, <1>6, <1>7, <1>8, <1>9, <1>10, <1>11, <1>12, <1>13,
           <1>14, <1>15 DEF Next

-----------------------------------------------------------------------------
(* The promises *)

\* What a step does to a promise: nothing, or what one of its actions does.
PromiseFrame(p) ==
  /\ status'[p] = status[p] /\ outcome'[p] = outcome[p] /\ filed'[p] = filed[p]
  /\ p \in lost' <=> p \in lost
  /\ since'[p] = since[p] /\ left'[p] = left[p] /\ found'[p] = found[p] /\ failed'[p] = failed[p]
  /\ unread'[p] = unread[p]
  /\ bead[p] = "absent" => bead'[p] = "absent"

Forgotten(p) ==
  /\ status'[p] = status[p] /\ outcome'[p] = outcome[p] /\ filed'[p] = filed[p]
  /\ status[p] \in {"waiting", "verifying"} => p \in lost'
  /\ p \in lost => p \in lost'
  /\ p \in lost' => p \in lost \/ status[p] \in {"waiting", "verifying"}
  /\ left'[p] = <<>>
  /\ p \in lost' => found'[p] = {}
  /\ p \notin lost' => found'[p] = found[p] /\ since'[p] = since[p]
  /\ bead'[p] = bead[p]

PromiseStep(p) ==
  \/ PromiseFrame(p)
  \/ \E ok \in BOOLEAN, skipped \in SUBSET Files : Ask(p, ok, skipped)
  \/ Accept(p) \/ Begin(p) \/ Conclude(p) \/ NothingToFile(p)
  \/ \E ok, wrote \in BOOLEAN : FileBead(p, ok, wrote)
  \/ Forgotten(p)

LEMMA StepOfPromise ==
  ASSUME WorldType, VerificationType, [Next]_vars, NEW p \in Promises
  PROVE  PromiseStep(p)
<1> USE Ingredients
<1>1. CASE UNCHANGED vars
  BY <1>1 DEF vars, graceVars, verifyVars, sourceVars, PromiseStep, PromiseFrame
<1>2. ASSUME NEW v \in Verifications, NEW ok \in BOOLEAN, NEW skipped \in SUBSET Files, Ask(v, ok, skipped)
      PROVE PromiseStep(p)
  <2>1. CASE v = p
    BY <1>2, <2>1 DEF PromiseStep
  <2>2. CASE v # p
    <3>1. /\ left'[p] = left[p] /\ found'[p] = found[p] /\ failed'[p] = failed[p]
          /\ unread'[p] = unread[p]
      BY <1>2, <2>2 DEF Ask, LeftAfter, VerificationType
    <3> QED BY <1>2, <3>1 DEF Ask, PromiseStep, PromiseFrame, graceVars, sourceVars
  <2> QED BY <2>1, <2>2
<1>3. ASSUME NEW q \in Promises, Accept(q) \/ Begin(q) \/ Conclude(q) \/ NothingToFile(q)
                                 \/ \E ok, wrote \in BOOLEAN : FileBead(q, ok, wrote)
      PROVE  PromiseStep(p)
  <2>1. CASE q = p
    BY <1>3, <2>1 DEF PromiseStep
  <2>2. CASE q # p
    <3>1. CASE Accept(q)
      <4>1. /\ status' = [status EXCEPT ![q] = "waiting"] /\ outcome' = outcome
            /\ since' = [since EXCEPT ![q] = now]
            /\ UNCHANGED <<bead, filed, lost, left, found, failed, unread>>
        BY <3>1, GraceType DEF Accept, sourceVars
      <4>2. status'[p] = status[p] /\ since'[p] = since[p]
        BY <2>2, <4>1 DEF VerificationType
      <4> QED BY <4>1, <4>2 DEF PromiseStep, PromiseFrame
    <3>2. CASE Begin(q)
      BY <2>2, <3>2, GraceType DEF Begin, StartAsking, VerificationType, PromiseStep, PromiseFrame, sourceVars
    <3>3. CASE Conclude(q)
      <4>1. PICK o \in {"backed", "unbacked"} : outcome' = [outcome EXCEPT ![q] = o]
        BY <3>3, GraceType DEF Conclude
      <4>2. outcome'[p] = outcome[p] /\ status' = status
        BY <2>2, <3>3, <4>1, GraceType DEF Conclude, VerificationType
      <4> QED BY <3>3, <4>2 DEF Conclude, PromiseStep, PromiseFrame, sourceVars, verifyVars
    <3>4. CASE NothingToFile(q)
      BY <2>2, <3>4, GraceType DEF NothingToFile, VerificationType, PromiseStep, PromiseFrame, sourceVars
    <3>5. CASE \E ok, wrote \in BOOLEAN : FileBead(q, ok, wrote)
      <4>1. PICK ok \in BOOLEAN, wrote \in BOOLEAN : FileBead(q, ok, wrote)
        BY <3>5
      <4>2. /\ bead'[p] = bead[p] /\ filed'[p] = filed[p] /\ failed'[p] = failed[p]
            /\ unread'[p] = unread[p]
        BY <2>2, <4>1 DEF FileBead, VerificationType, WorldType
      <4>3. status'[p] = status[p] /\ outcome' = outcome
        <5>1. status' = [status EXCEPT ![q] = "delivered"] /\ outcome' = outcome
          BY <4>1, GraceType DEF FileBead
        <5> QED BY <2>2, <5>1 DEF VerificationType
      <4> QED BY <4>1, <4>2, <4>3 DEF FileBead, PromiseStep, PromiseFrame
    <3> QED BY <1>3, <3>1, <3>2, <3>3, <3>4, <3>5
  <2> QED BY <2>1, <2>2
<1>4. ASSUME NEW b \in Beads, NEW t \in 0 .. MaxTime, Take(b, t) PROVE PromiseStep(p)
  BY <1>4 DEF Take, StartAsking, VerificationType, PromiseStep, PromiseFrame, graceVars, sourceVars
<1>5. CASE Fetch \/ Decide
  BY <1>5 DEF Fetch, Decide, PromiseStep, PromiseFrame, graceVars, verifyVars, sourceVars
<1>6. ASSUME NEW b \in Beads, NEW ok \in BOOLEAN, CloseBacked(b, ok) PROVE PromiseStep(p)
  <2>1. bead' = bead \/ (bead[b] = "open" /\ bead' = [bead EXCEPT ![b] = "closed"])
    BY <1>6 DEF CloseBacked, Resolve
  <2>2. bead[p] = "absent" => bead'[p] = "absent"
    BY <2>1 DEF WorldType
  <2> QED BY <1>6, <2>2 DEF CloseBacked, EndLoopVerification, VerificationType, PromiseStep, PromiseFrame,
             graceVars
<1>7. CASE Alert
  BY <1>7 DEF Alert, EndLoopVerification, VerificationType, PromiseStep, PromiseFrame, graceVars, sourceVars
<1>8. CASE Restart
  BY <1>8 DEF Restart, VerificationType, PromiseStep, Forgotten, graceVars, sourceVars
<1>9. CASE TimePasses
  BY <1>9 DEF TimePasses, Tick, PromiseStep, PromiseFrame, graceVars, verifyVars, sourceVars
<1>10. CASE Others
  BY <1>10, OthersStep DEF Others, PromiseStep, PromiseFrame, graceVars, verifyVars
<1> QED BY <1>1, <1>2, <1>3, <1>4, <1>5, <1>6, <1>7, <1>8, <1>9, <1>10 DEF Next

LEMMA ProgressStep ==
  ASSUME WorldType, VerificationType, ProgressInv, VerdictInv, AskedInv, [Next]_vars, NEW p \in Promises
  PROVE  /\ ProgressInv!(p)'
         /\ outcome'[p] = "unbacked" => found'[p] = {}
         /\ outcome'[p] = "backed" /\ p \notin lost' => found'[p] # {}
         /\ outcome'[p] # "none" => left'[p] = <<>>
<1> USE Ingredients
<1> USE DEF ProgressInv, VerdictInv, AskedInv
<1>1. PromiseStep(p)
  BY StepOfPromise
<1>2. status[p] \in Grace!Statuses /\ outcome[p] \in Grace!Outcomes
  BY DEF VerificationType
<1>3. CASE PromiseFrame(p)
  BY <1>3 DEF PromiseFrame
<1>4. ASSUME NEW ok \in BOOLEAN, NEW skipped \in SUBSET Files, Ask(p, ok, skipped)
      PROVE  /\ ProgressInv!(p)'
             /\ outcome'[p] = "unbacked" => found'[p] = {}
             /\ outcome'[p] = "backed" /\ p \notin lost' => found'[p] # {}
             /\ outcome'[p] # "none" => left'[p] = <<>>
  <2>1. /\ bead' = bead /\ status' = status /\ outcome' = outcome /\ lost' = lost
        /\ left[p] # <<>>
    BY <1>4 DEF Ask, sourceVars, graceVars
  <2> QED BY <2>1
<1>5. CASE Accept(p)
  BY <1>5, GraceType DEF Accept, VerificationType, sourceVars
<1>6. CASE Begin(p)
  <2>1. /\ status[p] = "waiting" /\ status' = [status EXCEPT ![p] = "verifying"]
        /\ p \notin lost /\ UNCHANGED <<bead, lost, outcome>>
    BY <1>6, GraceType DEF Begin, sourceVars
  <2>2. status'[p] = "verifying" /\ outcome'[p] = "none"
    BY <2>1 DEF VerificationType
  <2> QED BY <2>1, <2>2
<1>7. CASE Conclude(p)
  <2>1. /\ status[p] = "verifying" /\ left[p] = <<>> /\ p \notin lost
        /\ UNCHANGED <<bead, lost, left, found, status>>
        /\ outcome'[p] = IF found[p] # {} THEN "backed" ELSE "unbacked"
    BY <1>7, GraceType DEF Conclude, sourceVars, verifyVars
  <2> QED BY <2>1
<1>8. CASE NothingToFile(p)
  BY <1>8, GraceType DEF NothingToFile, VerificationType, sourceVars
<1>9. CASE \E ok, wrote \in BOOLEAN : FileBead(p, ok, wrote)
  <2>1. PICK ok \in BOOLEAN, wrote \in BOOLEAN : FileBead(p, ok, wrote)
    BY <1>9
  <2>2. Grace!Deliver(p) /\ p \notin lost /\ UNCHANGED <<lost, left, found>>
    BY <2>1 DEF FileBead
  <2>3. status \in [Promises -> Grace!Statuses]
    BY DEF VerificationType
  <2>4. /\ status[p] = "verifying" /\ outcome[p] # "none" /\ outcome' = outcome
        /\ status'[p] = "delivered"
    BY <2>2, <2>3, GraceType
  <2> QED BY <2>2, <2>4
<1>10. CASE Forgotten(p)
  BY <1>10 DEF Forgotten
<1> QED BY <1>1, <1>3, <1>4, <1>5, <1>6, <1>7, <1>8, <1>9, <1>10 DEF PromiseStep

\* Only a bead that is there, and is not the promise's, is found for a promise.
LEMMA AskFindsOthers ==
  ASSUME WorldType, VerificationType, ProgressInv, NEW p \in Promises,
         NEW ok \in BOOLEAN, NEW skipped \in SUBSET Files, Ask(p, ok, skipped),
         NEW b \in Beads, b \in found'[p], b \notin found[p]
  PROVE  b # p /\ bead[b] # "absent" /\ (b \in Undated \/ made[b] \in since[p] .. MaxTime)
<1> USE Ingredients
<1>1. /\ left[p] # <<>> /\ Head(left[p]) \in Sources
      /\ b \in Findings(Head(left[p]), since[p], skipped)
  BY AskingTails DEF Ask, VerificationType, Sources
<1>2. Head(left[p]) = "beads"
  BY <1>1, FindingsType, VerificationAssumption DEF Sources
<1>3. bead[b] = "open" /\ (b \in Undated \/ made[b] >= since[p])
  BY <1>1, <1>2 DEF Findings, BeadFindings, Shown, Open
<1>4. bead[p] = "absent"
  BY <1>1 DEF ProgressInv
<1>5. made[b] \in Nat /\ made[b] <= now /\ now <= MaxTime /\ now \in Nat
  BY <1>3 DEF WorldType
<1>6. since[p] \in Nat
  BY DEF VerificationType
<1> QED BY <1>3, <1>4, <1>5, <1>6

LEMMA FoundStep ==
  ASSUME WorldType, VerificationType, ProgressInv, FoundInv, [Next]_vars
  PROVE  FoundInv'
<1> USE Ingredients
<1> SUFFICES ASSUME NEW p \in Promises, NEW b \in Beads, b \in found'[p]
             PROVE  b # p /\ bead'[b] # "absent" /\ (b \in Undated \/ made'[b] \in since'[p] .. MaxTime)
  BY DEF FoundInv
<1>1. PromiseStep(p) /\ WorldMoves
  BY StepOfPromise, WorldStep
<1>2. CASE b \in found[p] /\ since'[p] = since[p]
  BY <1>1, <1>2 DEF FoundInv, WorldMoves
<1>3. CASE PromiseFrame(p) \/ Conclude(p) \/ NothingToFile(p)
            \/ \E ok, wrote \in BOOLEAN : FileBead(p, ok, wrote)
  BY <1>2, <1>3 DEF PromiseFrame, Conclude, NothingToFile, FileBead, verifyVars
<1>4. ASSUME NEW ok \in BOOLEAN, NEW skipped \in SUBSET Files, Ask(p, ok, skipped), b \notin found[p]
      PROVE  b # p /\ bead'[b] # "absent" /\ (b \in Undated \/ made'[b] \in since'[p] .. MaxTime)
  <2>1. UNCHANGED <<bead, made, since>>
    BY <1>4 DEF Ask, sourceVars
  <2> QED BY <1>4, <2>1, AskFindsOthers
<1>5. CASE \E ok \in BOOLEAN, skipped \in SUBSET Files : Ask(p, ok, skipped)
  BY <1>2, <1>4, <1>5 DEF Ask
<1>6. CASE Accept(p) \/ Begin(p)
  <2>1. found'[p] = {}
    BY <1>6, GraceType DEF Accept, Begin, StartAsking, VerificationType, ProgressInv
  <2> QED BY <2>1
<1>7. CASE Forgotten(p)
  BY <1>2, <1>7 DEF Forgotten
<1> QED BY <1>1, <1>3, <1>5, <1>6, <1>7 DEF PromiseStep

LEMMA AccountedStep ==
  ASSUME WorldType, VerificationType, ProgressInv, VerdictInv, FoundInv, AccountedFor, [Next]_vars
  PROVE  AccountedFor'
<1> USE Ingredients
<1> SUFFICES ASSUME NEW p \in Promises, status'[p] = "delivered"
             PROVE  (\/ bead[p] # "absent" \/ filed[p] = "failed" \/ dryRun
                     \/ BackedFromOutside(p) \/ StoodInFor(p))'
  BY DEF AccountedFor
<1>1. PromiseStep(p) /\ WorldMoves
  BY StepOfPromise, WorldStep
<1>2. ASSUME found'[p] = found[p], since'[p] = since[p]
      PROVE  /\ BackedFromOutside(p) => BackedFromOutside(p)'
             /\ StoodInFor(p) => StoodInFor(p)'
  BY <1>1, <1>2 DEF BackedFromOutside, StoodInFor, FoundInv, WorldMoves
<1>3. CASE status[p] = "delivered"
  <2>1. PromiseFrame(p) \/ Forgotten(p)
    <3>1. left[p] = <<>>
      BY <1>3 DEF ProgressInv
    <3> QED BY <1>1, <1>3, <3>1, GraceType DEF PromiseStep, Ask, Accept, Begin, Conclude, NothingToFile, FileBead
  <2>2. /\ found'[p] = found[p] /\ since'[p] = since[p] /\ filed'[p] = filed[p]
    BY <1>3, <2>1 DEF PromiseFrame, Forgotten, ProgressInv
  <2>3. bead[p] # "absent" => bead'[p] # "absent"
    BY <1>1 DEF WorldMoves
  <2> QED BY <1>1, <1>2, <1>3, <2>2, <2>3 DEF AccountedFor, WorldMoves
<1>4. CASE NothingToFile(p) /\ ~dryRun
  <2>1. /\ outcome[p] # "none" /\ outcome[p] # "unbacked" /\ p \notin lost
        /\ found'[p] = found[p] /\ since'[p] = since[p]
    BY <1>4, GraceType DEF NothingToFile, MustFile
  <2>2. PICK m \in found[p] : TRUE
    BY <2>1 DEF VerdictInv, VerificationType, Grace!Outcomes
  <2>3. CASE m \in Crons \cup Files
    BY <1>2, <2>1, <2>2, <2>3 DEF BackedFromOutside
  <2>4. CASE m \in Beads
    <3>1. StoodInFor(p)
      BY <2>2, <2>4 DEF FoundInv, StoodInFor
    <3> QED BY <1>2, <2>1, <3>1
  <2> QED BY <2>2, <2>3, <2>4 DEF VerificationType
<1>5. CASE \E ok, wrote \in BOOLEAN : FileBead(p, ok, wrote)
  <2>1. PICK ok \in BOOLEAN, wrote \in BOOLEAN : FileBead(p, ok, wrote)
    BY <1>5
  <2>2. wrote => bead'[p] = "open"
    BY <2>1 DEF FileBead, WorldType
  <2>3. ~wrote => filed'[p] = "failed"
    BY <2>1 DEF FileBead, VerificationType
  <2> QED BY <2>2, <2>3
<1>6. CASE NothingToFile(p) /\ dryRun
  BY <1>1, <1>6 DEF WorldMoves
<1>7. CASE status[p] # "delivered"
  <2>1. NothingToFile(p) \/ \E ok, wrote \in BOOLEAN : FileBead(p, ok, wrote)
    BY <1>1, <1>7, GraceType DEF PromiseStep, PromiseFrame, Forgotten, Ask, Accept, Begin, Conclude, graceVars,
       VerificationType
  <2> QED BY <1>4, <1>5, <1>6, <2>1
<1> QED BY <1>3, <1>7

-----------------------------------------------------------------------------
(* The re-check loop *)

\* What the loop's verifier finds is not older than the second it asks about.
Younger(m) ==
  \/ m \in Crons /\ cron[m].since # Never /\ Second(cron[m].since) >= Second(since[Loop])
  \/ m \in Files /\ mtime[m] # Never /\ mtime[m] >= since[Loop]

LEMMA YoungerStays ==
  ASSUME WorldType, WorldType', WorldMoves, VerificationType, since'[Loop] = since[Loop], NEW m, Younger(m)
  PROVE  Younger(m)'
<1>1. CASE m \in Crons /\ cron[m].since # Never /\ Second(cron[m].since) >= Second(since[Loop])
  <2>1. cron'[m].since = cron[m].since
    BY <1>1 DEF WorldMoves
  <2> QED BY <1>1, <2>1 DEF Younger
<1>2. CASE m \in Files /\ mtime[m] # Never /\ mtime[m] >= since[Loop]
  <2>1. mtime'[m] >= mtime[m] /\ mtime'[m] # Never
    BY <1>2 DEF WorldMoves
  <2>2. mtime[m] \in Nat /\ mtime'[m] \in Nat
    BY <1>2 DEF WorldType
  <2>3. since[Loop] \in Nat
    BY Ingredients DEF VerificationType
  <2>4. mtime'[m] >= since'[Loop]
    BY <1>2, <2>1, <2>2, <2>3
  <2> QED BY <1>2, <2>1, <2>4 DEF Younger
<1> QED BY <1>1, <1>2 DEF Younger

LEMMA AskFindsYounger ==
  ASSUME VerificationType,
         NEW ok \in BOOLEAN, NEW skipped \in SUBSET Files, Ask(Loop, ok, skipped),
         NEW m \in found'[Loop], m \notin found[Loop]
  PROVE  Younger(m)
<1> USE Ingredients
<1>1. /\ left[Loop] # <<>> /\ Head(left[Loop]) \in {"crons", "files"}
      /\ m \in Findings(Head(left[Loop]), since[Loop], skipped)
  BY AskingTails DEF Ask, VerificationType
<1> QED BY <1>1 DEF Findings, CronFindings, FileFindings, IsRecentJob, Younger

\* What a step does to the loop.
LoopFrame ==
  /\ UNCHANGED <<listed, item, phase>>
  /\ since'[Loop] = since[Loop] /\ left'[Loop] = left[Loop] /\ found'[Loop] = found[Loop]
  /\ failed'[Loop] = failed[Loop] /\ unread'[Loop] = unread[Loop]

Ended ==
  /\ listed' \subseteq listed /\ item' = {} /\ phase' = "idle"
  /\ left'[Loop] = <<>> /\ found'[Loop] = {}

LoopStep ==
  \/ LoopFrame \/ Fetch \/ Decide \/ Ended
  \/ \E ok \in BOOLEAN, skipped \in SUBSET Files : Ask(Loop, ok, skipped)
  \/ \E b \in Beads, t \in 0 .. MaxTime : Take(b, t)

LEMMA StepOfLoop ==
  ASSUME VerificationType, [Next]_vars
  PROVE  LoopStep
<1> USE Ingredients
<1>1. CASE UNCHANGED vars
  BY <1>1 DEF vars, loopVars, verifyVars, LoopStep, LoopFrame
<1>2. ASSUME NEW v \in Verifications, NEW ok \in BOOLEAN, NEW skipped \in SUBSET Files, Ask(v, ok, skipped)
      PROVE LoopStep
  <2>1. CASE v = Loop
    BY <1>2, <2>1 DEF LoopStep
  <2>2. CASE v # Loop
    <3>1. /\ left'[Loop] = left[Loop] /\ found'[Loop] = found[Loop] /\ failed'[Loop] = failed[Loop]
          /\ unread'[Loop] = unread[Loop]
      BY <1>2, <2>2 DEF Ask, LeftAfter, VerificationType
    <3> QED BY <1>2, <3>1 DEF Ask, LoopStep, LoopFrame, loopVars
  <2> QED BY <2>1, <2>2
<1>3. ASSUME NEW p \in Promises, Accept(p) \/ Begin(p) \/ Conclude(p) \/ NothingToFile(p)
                                 \/ \E ok, wrote \in BOOLEAN : FileBead(p, ok, wrote)
      PROVE  LoopStep
  <2>1. p # Loop
    OBVIOUS
  <2>2. UNCHANGED loopVars
    BY <1>3 DEF Accept, Begin, Conclude, NothingToFile, FileBead
  <2>3. /\ since'[Loop] = since[Loop] /\ left'[Loop] = left[Loop]
        /\ found'[Loop] = found[Loop] /\ failed'[Loop] = failed[Loop]
        /\ unread'[Loop] = unread[Loop]
    BY <1>3, <2>1 DEF Accept, Begin, StartAsking, Conclude, NothingToFile, FileBead, verifyVars, VerificationType
  <2> QED BY <2>2, <2>3 DEF LoopStep, LoopFrame, loopVars
<1>4. ASSUME NEW b \in Beads, NEW ok \in BOOLEAN, CloseBacked(b, ok) PROVE LoopStep
  BY <1>4 DEF CloseBacked, EndLoopVerification, VerificationType, LoopStep, Ended
<1>5. CASE Alert
  BY <1>5 DEF Alert, EndLoopVerification, VerificationType, LoopStep, Ended
<1>6. CASE Restart
  BY <1>6 DEF Restart, LoopStep, Ended
<1>7. CASE TimePasses \/ Others
  BY <1>7 DEF TimePasses, Others, LoopStep, LoopFrame, loopVars, verifyVars
<1>8. CASE Fetch \/ Decide \/ \E b \in Beads, t \in 0 .. MaxTime : Take(b, t)
  BY <1>8 DEF LoopStep
<1> QED BY <1>1, <1>2, <1>3, <1>4, <1>5, <1>6, <1>7, <1>8 DEF Next

LEMMA ListedStep ==
  ASSUME WorldType, VerificationType, WorldMoves, LoopInv, LoopStep, NEW x \in listed'
  PROVE  x[1] \in Promises /\ x[2] \in Nat /\ bead'[x[1]] # "absent" /\ made'[x[1]] <= x[2]
<1> USE Ingredients
<1>1. CASE x \in listed
  BY <1>1 DEF LoopInv, WorldMoves
<1>2. CASE Fetch
  <2>1. PICK b \in Open \ OtherBeads : x = <<b, IF b \in Undated THEN now ELSE made[b]>>
    BY <1>2 DEF Fetch
  <2>2. /\ b \in Promises /\ bead[b] = "open" /\ made[b] \in Nat /\ now \in Nat /\ made[b] <= now
        /\ bead' = bead /\ made' = made
    BY <1>2, <2>1, VerificationAssumption DEF Open, WorldType, Fetch, sourceVars
  <2> QED BY <2>1, <2>2
<1>3. CASE ~Fetch
  BY <1>1, <1>3 DEF LoopStep, LoopFrame, Decide, Ended, Ask, Take, loopVars
<1> QED BY <1>2, <1>3

LEMMA ItemStep ==
  ASSUME WorldType, VerificationType, WorldMoves, LoopInv, LoopStep, NEW b \in item'
  PROVE  b \in Promises /\ bead'[b] # "absent" /\ made'[b] <= since'[Loop]
<1> USE Ingredients
<1>1. CASE b \in item /\ since'[Loop] = since[Loop]
  BY <1>1 DEF LoopInv, WorldMoves
<1>2. ASSUME NEW a \in Beads, NEW t \in 0 .. MaxTime, Take(a, t)
      PROVE  b \in Promises /\ bead'[b] # "absent" /\ made'[b] <= since'[Loop]
  <2>1. b = a /\ <<a, t>> \in listed /\ since'[Loop] = t /\ bead' = bead /\ made' = made
    BY <1>2 DEF Take, StartAsking, VerificationType, sourceVars
  <2> QED BY <2>1 DEF LoopInv
<1>3. CASE LoopFrame \/ Fetch \/ Decide \/ Ended
            \/ \E ok \in BOOLEAN, skipped \in SUBSET Files : Ask(Loop, ok, skipped)
  BY <1>1, <1>3 DEF LoopFrame, Fetch, Decide, Ended, Ask, loopVars, verifyVars
<1> QED BY <1>2, <1>3 DEF LoopStep

LEMMA LoopFoundStep ==
  ASSUME WorldType, WorldType', VerificationType, WorldMoves, LoopInv, LoopStep, NEW m \in found'[Loop]
  PROVE  Younger(m)'
<1> USE Ingredients
<1>1. CASE m \in found[Loop] /\ since'[Loop] = since[Loop]
  BY <1>1, YoungerStays DEF LoopInv, Younger
<1>2. ASSUME NEW ok \in BOOLEAN, NEW skipped \in SUBSET Files, Ask(Loop, ok, skipped), m \notin found[Loop]
      PROVE Younger(m)'
  BY <1>2, AskFindsYounger, YoungerStays DEF Ask
<1>3. CASE \E b \in Beads, t \in 0 .. MaxTime : Take(b, t)
  BY <1>3 DEF Take, StartAsking, VerificationType
<1>4. CASE \E ok \in BOOLEAN, skipped \in SUBSET Files : Ask(Loop, ok, skipped)
  BY <1>1, <1>2, <1>4 DEF Ask
<1>5. CASE LoopFrame \/ Fetch \/ Decide \/ Ended
  BY <1>1, <1>5 DEF LoopFrame, Fetch, Decide, Ended, verifyVars
<1> QED BY <1>3, <1>4, <1>5 DEF LoopStep

LEMMA LoopInvStep ==
  ASSUME WorldType, WorldType', VerificationType, WorldMoves, VerdictInv, LoopInv, AskedInv, LoopStep
  PROVE  /\ LoopInv'
         /\ phase' = "unbacked" => found'[Loop] = {}
         /\ phase' \in {"backed", "unbacked"} => left'[Loop] = <<>>
<1> USE Ingredients
<1>1. \A m \in found'[Loop] : Younger(m)'
  BY LoopFoundStep
<1>2. /\ left'[Loop] # <<>> => phase' = "asking"
      /\ phase' = "unbacked" => found'[Loop] = {}
      /\ phase' \in {"backed", "unbacked"} => left'[Loop] = <<>>
  <2>1. CASE LoopFrame \/ Fetch \/ Decide \/ Ended
    BY <2>1 DEF LoopFrame, Fetch, Decide, Ended, LoopInv, VerdictInv, AskedInv, verifyVars
  <2>2. CASE \E ok \in BOOLEAN, skipped \in SUBSET Files : Ask(Loop, ok, skipped)
    BY <2>2 DEF Ask, LoopInv, loopVars
  <2>3. CASE \E b \in Beads, t \in 0 .. MaxTime : Take(b, t)
    BY <2>3 DEF Take
  <2> QED BY <2>1, <2>2, <2>3 DEF LoopStep
<1>3. \A x \in listed' : x[1] \in Promises /\ x[2] \in Nat /\ bead'[x[1]] # "absent" /\ made'[x[1]] <= x[2]
  BY ListedStep
<1>4. \A b \in item' : b \in Promises /\ bead'[b] # "absent" /\ made'[b] <= since'[Loop]
  BY ItemStep
<1> QED BY <1>1, <1>2, <1>3, <1>4 DEF LoopInv, Younger

-----------------------------------------------------------------------------
(* The history of what backed a promise *)

\* A source shows what is in force, but for the files that are passed over.
LEMMA InForceFound ==
  ASSUME WorldType, NEW v \in Verifications, NEW t \in Nat, NEW m \in InForce(v, t),
         NEW u, m \notin u
  PROVE  /\ m \in Findings(SourceOf(m), t, u) /\ SourceOf(m) \in Sources
         /\ v = Loop => SourceOf(m) \in {"crons", "files"}
<1> USE Ingredients
<1>1. CASE m \in Crons /\ External(m, t)
  <2>1. /\ cron[m].since \in Nat /\ cron[m].since # Never /\ t <= cron[m].since /\ IsEnabled(cron[m].flags)
    BY <1>1, VerificationAssumption DEF External, WorldType
  <2>2. Second(cron[m].since) >= Second(t)
    BY <2>1, SecondMonotone
  <2> QED BY <1>1, <2>1, <2>2 DEF SourceOf, Sources, Findings, CronFindings, IsRecentJob
<1>2. CASE m \in Files /\ External(m, t)
  <2>1. m \notin Crons /\ mtime[m] \in t .. MaxTime
    BY <1>2, VerificationAssumption DEF External
  <2>2. mtime[m] # Never /\ mtime[m] >= t
    BY <2>1
  <2> QED BY <1>2, <2>1, <2>2 DEF SourceOf, Sources, Findings, FileFindings
<1>3. CASE m \in Promises /\ v # Loop /\ bead[m] = "open" /\ made[m] >= t
  <2>1. m \notin Crons /\ m \notin Files /\ m \in Open \ OtherBeads
    BY <1>3, VerificationAssumption DEF Open
  <2> QED BY <1>3, <2>1 DEF SourceOf, Sources, Findings, BeadFindings, Shown
<1> QED BY <1>1, <1>2, <1>3 DEF InForce, External

LEMMA FullLists ==
  /\ {Verifier[i] : i \in DOMAIN Verifier} = Sources
  /\ {RecheckVerifier[i] : i \in DOMAIN RecheckVerifier} = {"crons", "files"}
BY DEF Verifier, RecheckVerifier, Sources

\* What a step does to the history.
HistoryMoves(v) ==
  /\ ~Alive(v)' => steady'[v] = {}
  /\ Alive(v)' => steady'[v] \subseteq InForce(v, since[v])'
  /\ \/ steady'[v] \subseteq steady[v]
     \/ v \in Promises /\ Begin(v)
     \/ v = Loop /\ \E b \in Beads, t \in 0 .. MaxTime : Take(b, t)

LEMMA StepOfHistory ==
  ASSUME VerificationType, SteadyInv, [Next]_vars, NEW v \in Verifications
  PROVE  HistoryMoves(v)
<1> USE Ingredients
<1>1. CASE UNCHANGED vars
  BY <1>1 DEF vars, graceVars, loopVars, verifyVars, sourceVars, SteadyInv, HistoryMoves, Alive, InForce,
     External
<1>2. ASSUME NEW p \in Promises, Begin(p) PROVE HistoryMoves(v)
  <2>1. Observe({p})
    BY <1>2 DEF Begin
  <2> QED BY <1>2, <2>1, Observed DEF HistoryMoves
<1>3. ASSUME NEW b \in Beads, NEW t \in 0 .. MaxTime, Take(b, t) PROVE HistoryMoves(v)
  <2>1. Observe({Loop})
    BY <1>3 DEF Take
  <2> QED BY <1>3, <2>1, Observed DEF HistoryMoves
<1>4. CASE Observe({})
  BY <1>4, Observed DEF HistoryMoves
<1> QED BY <1>1, <1>2, <1>3, <1>4 DEF Next, Ask, Accept, Conclude, NothingToFile, FileBead, Fetch, Decide,
           CloseBacked, Alert, Restart, TimePasses, Others

\* An answer of the source that has what is in force finds it; a failure is noted, and so
\* is a file that is passed over.
LEMMA CoveredAsk ==
  ASSUME WorldType, VerificationType, SteadyInv, NEW v \in Verifications,
         NEW ok \in BOOLEAN, NEW skipped \in SUBSET Files, Ask(v, ok, skipped),
         HistoryMoves(v), v \in Promises \/ v = Loop
  PROVE  Covered(v)'
<1> USE Ingredients
<1> SUFFICES ASSUME NEW m \in steady'[v], m \notin found'[v], m \notin unread'[v]
             PROVE  SourceOf(m) \in failed'[v] \cup ToAsk(v)'
  BY DEF Covered, SourceOf
<1> DEFINE h == Head(left[v])
<1>1. steady'[v] \subseteq steady[v]
  <2>1. left[v] # <<>> /\ left'[v] = Tail(left[v]) /\ status' = status /\ phase' = phase
    BY DEF Ask, LeftAfter, VerificationType, graceVars, loopVars
  <2>2. ~(v \in Promises /\ Begin(v))
    BY <2>1, GraceType DEF Begin, VerificationType
  <2>3. ~(v = Loop /\ \E b \in Beads, t \in 0 .. MaxTime : Take(b, t))
    BY <2>1 DEF Take
  <2> QED BY <2>2, <2>3 DEF HistoryMoves
<1>2. /\ found'[v] = IF ok THEN found[v] \cup Findings(h, since[v], skipped) ELSE found[v]
      /\ failed'[v] = IF ok THEN failed[v] ELSE failed[v] \cup {h}
      /\ unread'[v] = unread[v] \cup skipped
  BY DEF Ask, VerificationType
<1>3. ToAsk(v) \subseteq {h} \cup ToAsk(v)'
  <2>1. left[v] # <<>> /\ left'[v] = Tail(left[v])
    BY DEF Ask, LeftAfter, VerificationType
  <2>2. left[v] \in PromiseLists \/ left[v] \in LoopLists
    BY DEF VerificationType
  <2>3. \A l \in (PromiseLists \cup LoopLists) \ {<<>>} :
          {l[i] : i \in DOMAIN l} \subseteq {Head(l)} \cup {Tail(l)[i] : i \in DOMAIN Tail(l)}
    BY AskingTails
  <2>4. /\ ToAsk(v) = {left[v][i] : i \in DOMAIN left[v]}
        /\ ToAsk(v)' = {Tail(left[v])[i] : i \in DOMAIN Tail(left[v])}
    BY <2>1 DEF ToAsk
  <2>5. {left[v][i] : i \in DOMAIN left[v]}
          \subseteq {h} \cup {Tail(left[v])[i] : i \in DOMAIN Tail(left[v])}
    BY <2>1, <2>2, <2>3
  <2> QED BY <2>4, <2>5
<1>4. SourceOf(m) \in failed[v] \cup ToAsk(v)
  BY <1>1, <1>2 DEF SteadyInv, Covered
<1>5. ok => SourceOf(m) # h
  <2>1. m \in InForce(v, since[v])
    <3>1. Alive(v)
      BY <1>1 DEF SteadyInv
    <3> QED BY <1>1, <3>1 DEF SteadyInv
  <2>2. m \in Findings(SourceOf(m), since[v], skipped)
    BY <1>2, <2>1, InForceFound DEF VerificationType
  <2> QED BY <1>2, <2>2
<1> QED BY <1>2, <1>3, <1>4, <1>5

\* A verification begins with all its sources before it.
LEMMA CoveredStart ==
  ASSUME NEW v \in Verifications, HistoryMoves(v), Alive(v)',
         v # Loop => left'[v] = Verifier, v = Loop => left'[v] = RecheckVerifier
  PROVE  Covered(v)'
<1> SUFFICES ASSUME NEW m \in steady'[v] PROVE SourceOf(m) \in ToAsk(v)'
  BY DEF Covered, SourceOf
<1>1. m \in InForce(v, since[v])'
  BY DEF HistoryMoves
<1>2. SourceOf(m) \in Sources /\ (v = Loop => SourceOf(m) \in {"crons", "files"})
  BY <1>1 DEF InForce, External, SourceOf, Sources
<1> QED BY <1>2, FullLists DEF ToAsk

LEMMA CoveredStep ==
  ASSUME WorldType, VerificationType, WorldType', VerificationType', SteadyInv, NEW v \in Verifications,
         HistoryMoves(v), v \in Promises => PromiseStep(v), v = Loop => LoopStep
  PROVE  Covered(v)'
<1> USE Ingredients
<1>1. CASE /\ found'[v] = found[v] /\ failed'[v] = failed[v] /\ left'[v] = left[v]
           /\ unread'[v] = unread[v]
           /\ steady'[v] \subseteq steady[v]
  BY <1>1 DEF SteadyInv, Covered, ToAsk, SourceOf
<1>2. CASE ~Alive(v)'
  BY <1>2 DEF HistoryMoves, Covered
<1>3. CASE \E ok \in BOOLEAN, skipped \in SUBSET Files : Ask(v, ok, skipped)
  BY <1>3, CoveredAsk
<1>4. CASE v \in Promises /\ Begin(v)
  <2>1. left'[v] = Verifier
    BY <1>4 DEF Begin, StartAsking, VerificationType
  <2> QED BY <1>2, <1>4, <2>1, Ingredients, CoveredStart
<1>5. CASE v = Loop /\ \E b \in Beads, t \in 0 .. MaxTime : Take(b, t)
  <2>1. left'[v] = RecheckVerifier
    BY <1>5 DEF Take, StartAsking, VerificationType
  <2> QED BY <1>2, <1>5, <2>1, CoveredStart
<1>6. CASE v \in Promises
  <2>1. CASE PromiseFrame(v) \/ Conclude(v)
    <3>1. CASE Begin(v)
      BY <1>4, <1>6, <3>1
    <3>2. CASE ~Begin(v)
      <4>1. steady'[v] \subseteq steady[v]
        BY <1>6, <3>2 DEF HistoryMoves
      <4> QED BY <1>1, <2>1, <4>1 DEF PromiseFrame, Conclude, verifyVars
    <3> QED BY <3>1, <3>2
  <2>2. CASE Accept(v) \/ NothingToFile(v) \/ \E ok, wrote \in BOOLEAN : FileBead(v, ok, wrote)
    <3>1. Grace!Accept(v, {}) \/ Grace!Deliver(v)
      BY <2>2 DEF Accept, NothingToFile, FileBead
    <3>2. status \in [Promises -> Grace!Statuses]
      BY DEF VerificationType
    <3>3. status'[v] # "verifying"
      BY <1>6, <3>1, <3>2, GraceType
    <3> QED BY <1>2, <1>6, <3>3 DEF Alive
  <2>3. CASE Forgotten(v)
    <3>1. ~Alive(v)'
      BY <1>6, <2>3 DEF Forgotten, Alive
    <3> QED BY <1>2, <3>1
  <2> QED BY <1>3, <1>4, <1>6, <2>1, <2>2, <2>3 DEF PromiseStep
<1>7. CASE v = Loop
  <2>1. CASE LoopFrame \/ Decide
    <3>1. CASE \E b \in Beads, t \in 0 .. MaxTime : Take(b, t)
      BY <1>5, <1>7, <3>1
    <3>2. CASE ~\E b \in Beads, t \in 0 .. MaxTime : Take(b, t)
      <4>1. steady'[v] \subseteq steady[v]
        BY <1>7, <3>2 DEF HistoryMoves
      <4> QED BY <1>1, <1>7, <2>1, <4>1 DEF LoopFrame, Decide, verifyVars
    <3> QED BY <3>1, <3>2
  <2>2. CASE Fetch \/ Ended
    <3>1. ~Alive(v)'
      BY <1>7, <2>2 DEF Fetch, Ended, Alive
    <3> QED BY <1>2, <3>1
  <2> QED BY <1>3, <1>5, <1>7, <2>1, <2>2 DEF LoopStep
<1> QED BY <1>6, <1>7

-----------------------------------------------------------------------------
(* The inductive invariant *)

LEMMA InvInit == Init => IInv
<1> SUFFICES ASSUME Init PROVE IInv
  OBVIOUS
<1> USE Ingredients DEF Init
<1>1. WorldType
  <2>1. (CHOOSE f \in CronFlags : TRUE) \in CronFlags
    BY VerificationAssumption
  <2> QED BY <2>1 DEF SourcesInit, WorldType, BeadStates
<1>2. VerificationType
  BY EmptyLists DEF VerificationType, Grace!ContractInit, Grace!Statuses, Grace!Outcomes
<1>3. ProgressInv /\ VerdictInv /\ FoundInv /\ LoopInv /\ AskedInv /\ AccountedFor
  BY DEF ProgressInv, VerdictInv, FoundInv, LoopInv, AskedInv, AccountedFor, Grace!ContractInit
<1>4. SteadyInv
  BY DEF SteadyInv, Covered, Alive, Grace!ContractInit
<1> QED BY <1>1, <1>2, <1>3, <1>4 DEF IInv

LEMMA InvNext == IInv /\ [Next]_vars => IInv'
<1> SUFFICES ASSUME IInv, [Next]_vars PROVE IInv'
  OBVIOUS
<1> USE Ingredients
<1>1. WorldType /\ VerificationType /\ ProgressInv /\ VerdictInv /\ FoundInv /\ LoopInv /\ SteadyInv /\ AskedInv
      /\ AccountedFor
  BY DEF IInv
<1>2. WorldType' /\ WorldMoves /\ VerificationType'
  BY <1>1, WorldStep, TypeStep
<1>3. FoundInv' /\ AccountedFor'
  BY <1>1, FoundStep, AccountedStep
<1>4. LoopStep /\ \A p \in Promises : PromiseStep(p)
  BY <1>1, StepOfLoop, StepOfPromise
<1>5. /\ LoopInv'
      /\ phase' = "unbacked" => found'[Loop] = {}
      /\ phase' \in {"backed", "unbacked"} => left'[Loop] = <<>>
  BY <1>1, <1>2, <1>4, LoopInvStep
<1>6. ProgressInv'
  <2>1. \A p \in Promises : ProgressInv!(p)'
    BY <1>1, ProgressStep
  <2> QED BY <2>1 DEF ProgressInv
<1>7. VerdictInv' /\ AskedInv'
  <2>1. ASSUME NEW p \in Promises
        PROVE  /\ outcome'[p] = "unbacked" => found'[p] = {}
               /\ outcome'[p] = "backed" /\ p \notin lost' => found'[p] # {}
               /\ outcome'[p] # "none" => left'[p] = <<>>
    BY <1>1, ProgressStep
  <2> QED BY <1>5, <2>1 DEF VerdictInv, AskedInv
<1>8. SteadyInv'
  <2>1. \A v \in Verifications : HistoryMoves(v)
    BY <1>1, StepOfHistory
  <2>2. \A v \in Verifications : Covered(v)'
    BY <1>1, <1>2, <1>4, <2>1, CoveredStep
  <2> QED BY <2>1, <2>2 DEF SteadyInv, HistoryMoves
<1> QED BY <1>2, <1>3, <1>5, <1>6, <1>7, <1>8 DEF IInv

LEMMA Invariance == Spec => []IInv
BY InvInit, InvNext, PTL DEF Spec

-----------------------------------------------------------------------------
\* What backs a promise from before its first source is asked until the verdict is
\* found, unless the source it is in failed, or it is a file that the walk passed over;
\* the same for the beads of the loop.
THEOREM NothingIsOverlooked == Spec => []NothingOverlooked
<1>1. IInv => NothingOverlooked
  <2> SUFFICES ASSUME IInv, NEW v \in Verifications, Unbacked(v), NEW m \in steady[v]
               PROVE  SourceOf(m) \in failed[v] \/ m \in unread[v]
    BY DEF NothingOverlooked
  <2>1. found[v] = {} /\ left[v] = <<>>
    BY Ingredients DEF IInv, Unbacked, VerdictInv, AskedInv
  <2>2. ToAsk(v) = {}
    BY <2>1 DEF ToAsk
  <2> QED BY <2>1, <2>2 DEF IInv, SteadyInv, Covered
<1> QED BY <1>1, Invariance, PTL

\* A promise whose verification is delivered is backed from outside, or has a bead, or
\* was to have one, or another bead stands in for it.
THEOREM EveryPromiseAccountedFor == Spec => []AccountedFor
<1>1. IInv => AccountedFor
  BY DEF IInv
<1> QED BY <1>1, Invariance, PTL

\* The loop closes a bead as backed only for a job or a file that is younger than the
\* bead, up to the second in which the bead was made.
THEOREM NoBeadBacksItself == Spec => NoSelfSatisfaction
<1> DEFINE Closes(b) == phase = "backed" /\ bead'[b] # bead[b] /\ phase' = "idle"
           Backs(b, m) ==
             \/ m \in Crons /\ cron[m].since \in made[b] - (made[b] % TicksPerSecond) .. MaxTime
             \/ m \in Files /\ mtime[m] \in made[b] .. MaxTime
<1>1. ASSUME IInv, NEW b \in item, NEW m \in found[Loop] PROVE Backs(b, m)
  <2>1. /\ b \in Beads /\ made[b] \in Nat /\ since[Loop] \in Nat /\ made[b] <= since[Loop] /\ Younger(m)
    BY <1>1, Ingredients DEF IInv, LoopInv, WorldType, VerificationType, Younger
  <2>2. CASE m \in Files /\ mtime[m] # Never /\ mtime[m] >= since[Loop]
    <3>1. mtime[m] \in Nat /\ mtime[m] <= now /\ now \in Nat /\ now <= MaxTime
      BY <1>1, <2>2 DEF IInv, WorldType
    <3> QED BY <2>1, <2>2, <3>1, Ingredients
  <2>3. CASE m \in Crons /\ cron[m].since # Never /\ Second(cron[m].since) >= Second(since[Loop])
    <3>1. cron[m].since \in Nat /\ cron[m].since <= now /\ now \in Nat /\ now <= MaxTime
      BY <1>1, <2>3 DEF IInv, WorldType
    <3>2. Second(made[b]) <= Second(since[Loop]) /\ Second(made[b]) \in Nat /\ Second(since[Loop]) \in Nat
      BY <2>1, SecondMonotone
    <3>3. Second(cron[m].since) \in Nat
      BY <3>1, SecondMonotone
    <3>4. Second(made[b]) <= Second(cron[m].since)
      BY <2>3, <3>2, <3>3
    <3>5. /\ made[b] - (made[b] % TicksPerSecond) \in Nat
          /\ made[b] - (made[b] % TicksPerSecond) <= cron[m].since
      BY <2>1, <3>1, <3>4, SecondBegins
    <3> QED BY <2>3, <3>1, <3>5, Ingredients
  <2> QED BY <2>1, <2>2, <2>3 DEF Younger
<1>2. IInv /\ [Next]_vars => [\A b \in item : Closes(b) => \A m \in found[Loop] : Backs(b, m)]_vars
  BY <1>1
<1> QED BY <1>2, Invariance, PTL DEF Spec, NoSelfSatisfaction
=============================================================================
