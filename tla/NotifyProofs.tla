----------------------------- MODULE NotifyProofs -----------------------------
(***************************************************************************)
(* What holds of the notifications and of the readiness they end in, for any *)
(* number of notifications, any numbers of attempts, and every threshold,     *)
(* window, cap and cut of the list of failures.                              *)
(***************************************************************************)
EXTENDS Notify, SequenceTheorems, FiniteSetTheorems, WellFoundedInduction, TLAPS

-----------------------------------------------------------------------------
(* The list of failures *)

\* A nonempty set of numbers has a least element.
LEMMA LeastElement ==
  ASSUME NEW S \in SUBSET Nat, S # {}
  PROVE  \E i \in S : \A j \in S : i <= j
<1>1. PICK i \in S : \A j \in S : ~(<<j, i>> \in OpToRel(<, Nat))
  BY NatLessThanWellFounded, WFMin
<1>2. \A j \in S : ~(j < i)
  BY <1>1 DEF OpToRel
<1> QED BY <1>2

\* pruneLocked drops a prefix of stale entries, and stops at the first that is fresh.
LEMMA PrunedProperties ==
  ASSUME NEW T \in SUBSET Nat, failures \in Seq(T), now \in Nat
  PROVE  \E d \in 0 .. Len(failures) :
           /\ Pruned \in Seq(T)
           /\ Len(Pruned) = Len(failures) - d
           /\ \A i \in 1 .. Len(Pruned) : Pruned[i] = failures[d + i]
           /\ \A i \in 1 .. d : Stale(failures[i])
           /\ d < Len(failures) => ~Stale(failures[d + 1])
<1> DEFINE fresh == {i \in DOMAIN failures : ~Stale(failures[i])}
<1>1. /\ Len(failures) \in Nat /\ DOMAIN failures = 1 .. Len(failures)
      /\ \A i \in 1 .. Len(failures) : failures[i] \in T
  BY LenProperties, ElementOfSeq
<1>2. CASE fresh = {}
  <2>1. Pruned = <<>>
    BY <1>2 DEF Pruned
  <2>2. \A i \in 1 .. Len(failures) : Stale(failures[i])
    BY <1>1, <1>2
  <2>3. Pruned \in Seq(T) /\ Len(Pruned) = 0
    BY <2>1, EmptySeq
  <2> Len(failures) \in 0 .. Len(failures)
    BY <1>1
  <2> WITNESS Len(failures) \in 0 .. Len(failures)
  <2> QED BY <1>1, <2>2, <2>3
<1>3. CASE fresh # {}
  <2> DEFINE k == CHOOSE i \in fresh : \A j \in fresh : i <= j
  <2>1. fresh \in SUBSET Nat
    BY <1>1
  <2>2. \E i \in fresh : \A j \in fresh : i <= j
    BY <1>3, <2>1, LeastElement
  <2>3. k \in fresh /\ \A j \in fresh : k <= j
    BY <2>2
  <2>4. Pruned = SubSeq(failures, k, Len(failures))
    BY <1>3 DEF Pruned
  <2> HIDE DEF k
  <2>5. k \in 1 .. Len(failures) /\ ~Stale(failures[k])
    BY <1>1, <2>3
  <2>6. \A i \in 1 .. k - 1 : Stale(failures[i])
    BY <1>1, <2>3, <2>5
  <2>7. /\ Pruned \in Seq(T)
        /\ Len(Pruned) = Len(failures) - k + 1
        /\ \A i \in 1 .. Len(failures) - k + 1 : Pruned[i] = failures[k + i - 1]
    <3>1. \A i \in k .. Len(failures) : failures[i] \in T
      BY <1>1, <2>5
    <3> QED BY <1>1, <2>4, <2>5, <3>1, SubSeqProperties
  <2> k - 1 \in 0 .. Len(failures)
    BY <1>1, <2>5
  <2> WITNESS k - 1 \in 0 .. Len(failures)
  <2> QED BY <1>1, <2>5, <2>6, <2>7
<1> QED BY <1>2, <1>3

\* Cutting keeps a list within Cap, drops a prefix of it, and leaves Keep entries if it drops any.
LEMMA CutProperties ==
  ASSUME NEW T, NEW s \in Seq(T)
  PROVE  \E d \in 0 .. Len(s) :
           /\ Cut(s) \in Seq(T)
           /\ Len(Cut(s)) = Len(s) - d /\ Len(Cut(s)) <= Cap
           /\ \A i \in 1 .. Len(Cut(s)) : Cut(s)[i] = s[d + i]
           /\ d > 0 => Len(Cut(s)) = Keep
<1>1. /\ Len(s) \in Nat
      /\ \A i \in 1 .. Len(s) : s[i] \in T
  BY LenProperties, ElementOfSeq
<1>2. CASE Len(s) > Cap
  <2>1. Cut(s) = SubSeq(s, Len(s) - Keep + 1, Len(s))
    BY <1>2 DEF Cut
  <2>2. /\ Cut(s) \in Seq(T) /\ Len(Cut(s)) = Keep
        /\ \A i \in 1 .. Keep : Cut(s)[i] = s[Len(s) - Keep + 1 + i - 1]
    <3>1. \A i \in Len(s) - Keep + 1 .. Len(s) : s[i] \in T
      BY <1>1, <1>2, HealthAssumption
    <3> QED BY <1>1, <1>2, <2>1, <3>1, SubSeqProperties, HealthAssumption
  <2> Len(s) - Keep \in 0 .. Len(s)
    BY <1>1, <1>2, HealthAssumption
  <2> WITNESS Len(s) - Keep \in 0 .. Len(s)
  <2> QED BY <1>1, <1>2, <2>2, HealthAssumption
<1>3. CASE ~(Len(s) > Cap)
  <2>1. Cut(s) = s
    BY <1>3 DEF Cut
  <2> 0 \in 0 .. Len(s)
    BY <1>1
  <2> WITNESS 0 \in 0 .. Len(s)
  <2> QED BY <1>1, <1>3, <2>1, HealthAssumption
<1> QED BY <1>2, <1>3

-----------------------------------------------------------------------------
(* The inductive invariant *)

\* A channel is over exactly when it is told or given up, unless it was never asked.
ChannelInv ==
  \A n \in Notices :
    /\ stage[n] \in {"idle", "webhook"} => told[n] = {}
    /\ stage[n] = "relay" => "relay" \notin told[n]
    /\ stage[n] \in {"relay", "done"} /\ WebhookOn => "webhook" \in told[n] \cup gaveUp[n]
    /\ stage[n] = "done" /\ RelayOn => "relay" \in told[n] \cup gaveUp[n]

\* The remembered failures are the last ones recorded ...
Dropped == Len(recorded) - Len(failures)

SuffixInv ==
  /\ Dropped \in Nat
  /\ \A i \in 1 .. Len(failures) : failures[i] = recorded[Dropped + i]

\* ... which were recorded in the order of time ...
SortedInv ==
  \A i, j \in 1 .. Len(recorded) : i <= j => recorded[i] <= recorded[j]

\* ... and what is not remembered is stale, or there are Keep others.
DropInv == Len(failures) >= Keep \/ \A i \in 1 .. Dropped : Stale(recorded[i])

HealthInv == SuffixInv /\ SortedInv /\ DropInv

IInv == TypeOK /\ ChannelInv /\ DuplicateOnlyIfLost /\ HealthInv

-----------------------------------------------------------------------------
LEMMA InvInit == Init => IInv
<1> SUFFICES ASSUME Init PROVE IInv
  OBVIOUS
<1> USE HealthAssumption, NotifyAssumption
<1>1. /\ now \in 0 .. MaxTime /\ Len(failures) = 0 /\ Len(recorded) = 0
      /\ failures \in Seq(0 .. now) /\ recorded \in Seq(0 .. now)
  BY EmptySeq DEF Init, HealthInit
<1>2. TypeOK
  BY <1>1 DEF Init, TypeOK, Channels
<1>3. ChannelInv
  BY DEF Init, ChannelInv
<1>4. DuplicateOnlyIfLost
  BY DEF Init, DuplicateOnlyIfLost
<1>5. HealthInv
  BY <1>1 DEF HealthInv, SuffixInv, SortedInv, DropInv, Dropped
<1> QED BY <1>2, <1>3, <1>4, <1>5 DEF IInv

\* What the invariant says of the lists, in a form the steps below can cite: their
\* lengths, and their contents.
LEMMA ListLengths ==
  ASSUME IInv
  PROVE  /\ now \in Nat /\ Window \in Nat /\ Keep \in Nat
         /\ Len(failures) \in Nat /\ Len(recorded) \in Nat /\ Dropped \in Nat
         /\ Len(recorded) = Dropped + Len(failures)
<1>1. /\ now \in Nat /\ failures \in Seq(0 .. now) /\ recorded \in Seq(0 .. now)
      /\ Window \in Nat /\ Keep \in Nat
  BY HealthAssumption DEF IInv, TypeOK
<1>2. Len(failures) \in Nat /\ Len(recorded) \in Nat
  BY <1>1, LenProperties
<1> QED BY <1>1, <1>2 DEF IInv, HealthInv, SuffixInv, Dropped

LEMMA ListFacts ==
  ASSUME IInv
  PROVE  /\ 0 .. now \in SUBSET Nat
         /\ failures \in Seq(0 .. now) /\ recorded \in Seq(0 .. now)
         /\ \A i \in 1 .. Len(recorded) : recorded[i] \in 0 .. now
         /\ \A i \in 1 .. Len(failures) : failures[i] = recorded[Dropped + i]
         /\ \A i, j \in 1 .. Len(recorded) : i <= j => recorded[i] <= recorded[j]
         /\ Len(failures) >= Keep \/ \A i \in 1 .. Dropped : Stale(recorded[i])
<1>1. now \in Nat /\ failures \in Seq(0 .. now) /\ recorded \in Seq(0 .. now)
  BY ListLengths DEF IInv, TypeOK
<1>2. \A i \in 1 .. Len(recorded) : recorded[i] \in 0 .. now
  BY <1>1, ElementOfSeq
<1> QED BY <1>1, <1>2 DEF IInv, HealthInv, SuffixInv, SortedInv, DropInv

\* A list of failures that loses a stale prefix keeps its place in the history.
LEMMA PruneStep ==
  ASSUME IInv
  PROVE  \E gone \in Nat :
           /\ Pruned \in Seq(0 .. now) /\ Len(Pruned) \in Nat /\ Len(Pruned) <= Len(failures)
           /\ Len(recorded) = gone + Len(Pruned)
           /\ \A i \in 1 .. Len(Pruned) : Pruned[i] = recorded[gone + i]
           /\ Len(Pruned) >= Keep \/ \A i \in 1 .. gone : Stale(recorded[i])
           /\ Len(Pruned) > 0 => ~Stale(Pruned[1])
<1>1. PICK d \in 0 .. Len(failures) :
        /\ Pruned \in Seq(0 .. now)
        /\ Len(Pruned) = Len(failures) - d
        /\ \A i \in 1 .. Len(Pruned) : Pruned[i] = failures[d + i]
        /\ \A i \in 1 .. d : Stale(failures[i])
        /\ d < Len(failures) => ~Stale(failures[d + 1])
  BY ListFacts, ListLengths, PrunedProperties
<1>2. d \in Nat /\ Dropped + d \in Nat /\ Len(recorded) = (Dropped + d) + Len(Pruned)
  BY <1>1, ListLengths
<1>3. \A i \in 1 .. Len(Pruned) : Pruned[i] = recorded[(Dropped + d) + i]
  <2> TAKE i \in 1 .. Len(Pruned)
  <2>1. d + i \in 1 .. Len(failures) /\ Dropped + (d + i) = (Dropped + d) + i
    BY <1>1, ListLengths
  <2> QED BY <1>1, <2>1, ListFacts
<1>4. ASSUME d > 0 PROVE \A i \in 1 .. Dropped + d : Stale(recorded[i])
  <2> TAKE i \in 1 .. Dropped + d
  <2>1. d \in 1 .. d /\ d \in 1 .. Len(failures)
    BY <1>1, <1>4, ListLengths
  <2>2. Stale(recorded[Dropped + d])
    BY <1>1, <2>1, ListFacts
  <2>3. i \in 1 .. Len(recorded) /\ Dropped + d \in 1 .. Len(recorded) /\ i <= Dropped + d
    BY <1>2, <2>1, ListLengths
  <2>4. /\ recorded[i] <= recorded[Dropped + d]
        /\ recorded[i] \in 0 .. now /\ recorded[Dropped + d] \in 0 .. now
    BY <2>3, ListFacts
  <2>5. recorded[Dropped + d] + Window < now
    BY <2>2 DEF Stale
  <2>6. /\ now \in Nat /\ Window \in Nat
        /\ recorded[i] \in Nat /\ recorded[Dropped + d] \in Nat
    BY <2>4, ListLengths
  <2>7. recorded[i] + Window < now
    BY <2>4, <2>5, <2>6
  <2> QED BY <2>7 DEF Stale
<1>5. Len(Pruned) >= Keep \/ \A i \in 1 .. Dropped + d : Stale(recorded[i])
  <2>1. CASE d = 0
    <3>1. Len(Pruned) = Len(failures) /\ Dropped + d = Dropped
      BY <1>1, <2>1, ListLengths
    <3> QED BY <3>1, ListFacts
  <2> QED BY <1>1, <1>4, <2>1, ListLengths
<1>6. Len(Pruned) \in Nat /\ Len(Pruned) <= Len(failures)
  BY <1>1, ListLengths
<1>7. Len(Pruned) > 0 => ~Stale(Pruned[1])
  <2>1. ASSUME Len(Pruned) > 0 PROVE d < Len(failures) /\ 1 \in 1 .. Len(Pruned)
    BY <1>1, <1>6, <2>1, ListLengths
  <2> QED BY <1>1, <1>2, <2>1
<1> Dropped + d \in Nat
  BY <1>2
<1> WITNESS Dropped + d \in Nat
<1> QED BY <1>1, <1>2, <1>3, <1>5, <1>6, <1>7

\* Recording a failure.
LEMMA RecordStep ==
  ASSUME IInv, RecordFailure, UNCHANGED now
  PROVE  HealthInv' /\ failures' \in Seq(0 .. now) /\ Len(failures') <= Cap /\ recorded' \in Seq(0 .. now)
<1>1. PICK gone \in Nat :
        /\ Pruned \in Seq(0 .. now) /\ Len(Pruned) \in Nat
        /\ Len(recorded) = gone + Len(Pruned)
        /\ \A i \in 1 .. Len(Pruned) : Pruned[i] = recorded[gone + i]
        /\ Len(Pruned) >= Keep \/ \A i \in 1 .. gone : Stale(recorded[i])
  BY PruneStep
<1> DEFINE longer == Append(Pruned, now)
           history == Append(recorded, now)
<1>2. /\ longer \in Seq(0 .. now) /\ Len(longer) = Len(Pruned) + 1
      /\ \A i \in 1 .. Len(Pruned) : longer[i] = Pruned[i]
      /\ longer[Len(Pruned) + 1] = now
  BY <1>1, ListFacts, ListLengths, AppendProperties
<1>3. /\ history \in Seq(0 .. now) /\ Len(history) = Len(recorded) + 1
      /\ \A i \in 1 .. Len(recorded) : history[i] = recorded[i]
      /\ history[Len(recorded) + 1] = now
  BY ListFacts, ListLengths, AppendProperties
<1>4. failures' = Cut(longer) /\ recorded' = history
  BY DEF RecordFailure
<1> HIDE DEF longer, history
<1>5. PICK d \in 0 .. Len(longer) :
        /\ Cut(longer) \in Seq(0 .. now)
        /\ Len(Cut(longer)) = Len(longer) - d /\ Len(Cut(longer)) <= Cap
        /\ \A i \in 1 .. Len(Cut(longer)) : Cut(longer)[i] = longer[d + i]
        /\ d > 0 => Len(Cut(longer)) = Keep
  BY <1>2, CutProperties
<1> DEFINE cut == Cut(longer)
<1> HIDE DEF cut
<1>6. /\ d \in Nat /\ Len(cut) \in Nat /\ Len(cut) = Len(Pruned) + 1 - d
      /\ \A i \in 1 .. Len(cut) : cut[i] = longer[d + i]
      /\ d > 0 => Len(cut) = Keep
  BY <1>1, <1>2, <1>5 DEF cut
<1>7. \A i \in 1 .. Len(Pruned) + 1 : longer[i] = history[gone + i]
  <2> TAKE i \in 1 .. Len(Pruned) + 1
  <2>1. CASE i \in 1 .. Len(Pruned)
    <3>1. gone + i \in 1 .. Len(recorded)
      BY <1>1, <2>1, ListFacts, ListLengths
    <3> QED BY <1>1, <1>2, <1>3, <2>1, <3>1
  <2>2. CASE i = Len(Pruned) + 1
    <3>1. gone + i = Len(recorded) + 1
      BY <1>1, <2>2, ListFacts, ListLengths
    <3> QED BY <1>2, <1>3, <2>2, <3>1
  <2> QED BY <1>1, <2>1, <2>2
<1>8. Len(history) - Len(cut) = gone + d /\ gone + d \in Nat
  BY <1>1, <1>3, <1>6, ListFacts, ListLengths
<1>9. \A i \in 1 .. Len(cut) : cut[i] = history[(gone + d) + i]
  <2> TAKE i \in 1 .. Len(cut)
  <2>1. d + i \in 1 .. Len(Pruned) + 1 /\ gone + (d + i) = (gone + d) + i
    BY <1>1, <1>6
  <2> QED BY <1>6, <1>7, <2>1
<1>10. \A i, j \in 1 .. Len(history) : i <= j => history[i] <= history[j]
  <2> TAKE i, j \in 1 .. Len(history)
  <2> HAVE i <= j
  <2>1. CASE j \in 1 .. Len(recorded)
    <3>1. i \in 1 .. Len(recorded)
      BY <2>1, ListFacts, ListLengths
    <3> QED BY <1>3, <2>1, <3>1, ListFacts, ListLengths
  <2>2. CASE j = Len(recorded) + 1 /\ i \in 1 .. Len(recorded)
    BY <1>3, <2>2, ListFacts, ListLengths
  <2>3. CASE j = Len(recorded) + 1 /\ i = j
    BY <1>3, <2>3, ListFacts, ListLengths
  <2> QED BY <1>3, <2>1, <2>2, <2>3, ListFacts, ListLengths
<1>11. Len(cut) >= Keep \/ \A i \in 1 .. gone + d : Stale(history[i])
  <2>1. CASE d > 0
    BY <1>6, <2>1, ListFacts, ListLengths
  <2>2. CASE d = 0 /\ Len(Pruned) >= Keep
    BY <1>1, <1>6, <2>2, ListFacts, ListLengths
  <2>3. CASE d = 0 /\ \A i \in 1 .. gone : Stale(recorded[i])
    <3>1. \A i \in 1 .. gone + d : i \in 1 .. gone /\ i \in 1 .. Len(recorded)
      BY <1>1, <2>3
    <3> QED BY <1>3, <2>3, <3>1
  <2> QED BY <1>1, <1>6, <2>1, <2>2, <2>3
<1>12. failures' = cut /\ recorded' = history
  BY <1>4 DEF cut
<1>13. Dropped' = gone + d
  BY <1>8, <1>12 DEF Dropped
<1>14. SuffixInv'
  BY <1>8, <1>9, <1>12, <1>13 DEF SuffixInv
<1>15. SortedInv'
  BY <1>10, <1>12 DEF SortedInv
<1>16. DropInv'
  BY <1>11, <1>12, <1>13 DEF DropInv, Stale
<1> QED BY <1>3, <1>5, <1>12, <1>14, <1>15, <1>16 DEF HealthInv, cut

-----------------------------------------------------------------------------
(* The steps *)

\* What a step does to the list of failures, if anything.
HealthStep == RecordFailure \/ UNCHANGED healthVars

\* A delivery attempt in general.
LEMMA AttemptTypes ==
  ASSUME IInv, NEW n \in Notices, NEW c \in Channels,
         NEW answer \in {"success", "refused", "failed"}, NEW took \in BOOLEAN,
         Attempt(n, c, answer, took)
  PROVE  TypeOK' /\ HealthInv'
<1> USE DEF Channels
<1>1. TypeOK /\ HealthInv
  BY DEF IInv
<1>2. HealthStep /\ UNCHANGED now
  BY DEF Attempt, GoOn, HealthStep
<1>3. HealthInv' /\ failures' \in Seq(0 .. now') /\ Len(failures') <= Cap /\ recorded' \in Seq(0 .. now')
  <2>1. CASE RecordFailure
    BY <1>2, <2>1, RecordStep
  <2>2. CASE UNCHANGED healthVars
    BY <1>1, <1>2, <2>2
    DEF healthVars, TypeOK, HealthInv, SuffixInv, SortedInv, DropInv, Dropped, Stale
  <2> QED BY <1>2, <2>1, <2>2 DEF HealthStep
<1>4. /\ stage' \in [Notices -> {"idle", "webhook", "relay", "done"}]
      /\ tries' \in [Notices -> Nat]
      /\ gaveUp' \in [Notices -> SUBSET Channels]
  <2>0. After(c) \in {"relay", "done"}
    BY DEF After, AfterWebhook
  <2>1. stage' = [stage EXCEPT ![n] = After(c)] \/ stage' = stage
    BY DEF Attempt, GoOn
  <2>2. tries' = [tries EXCEPT ![n] = 0] \/ tries' = [tries EXCEPT ![n] = @ + 1]
    BY DEF Attempt, GoOn
  <2>3. gaveUp' = [gaveUp EXCEPT ![n] = @ \cup {c}] \/ gaveUp' = gaveUp
    BY DEF Attempt, GoOn
  <2>4. stage' \in [Notices -> {"idle", "webhook", "relay", "done"}]
    BY <1>1, <2>0, <2>1 DEF TypeOK
  <2>5. tries' \in [Notices -> Nat]
    <3>1. tries \in [Notices -> Nat]
      BY <1>1 DEF TypeOK
    <3> QED BY <2>2, <3>1
  <2>6. gaveUp' \in [Notices -> SUBSET Channels]
    <3>1. gaveUp \in [Notices -> SUBSET Channels]
      BY <1>1 DEF TypeOK
    <3> QED BY <2>3, <3>1
  <2> QED BY <2>4, <2>5, <2>6
<1>5. ASSUME NEW m \in Notices
      PROVE  tries'[m] < (IF stage'[m] \in Channels THEN Attempts(stage'[m]) ELSE 1)
  <2>1. Attempts("webhook") \in Nat \ {0} /\ Attempts("relay") \in Nat \ {0}
    BY NotifyAssumption DEF Attempts
  <2>2. CASE m # n
    BY <1>1, <2>2 DEF Attempt, GoOn, TypeOK
  <2>3. CASE m = n /\ Final(c, answer, tries[n] + 1)
    BY <1>1, <2>1, <2>3 DEF Attempt, GoOn, TypeOK, After, AfterWebhook
  <2>4. CASE m = n /\ ~Final(c, answer, tries[n] + 1)
    <3>1. tries'[n] = tries[n] + 1 /\ stage' = stage /\ tries[n] + 1 # Attempts(c)
      BY <1>1, <2>4 DEF Attempt, GoOn, TypeOK, Final
    <3>2. tries[n] \in Nat /\ tries[n] < Attempts(c) /\ stage[n] = c
      BY <1>1 DEF Attempt, TypeOK
    <3> QED BY <2>1, <2>4, <3>1, <3>2
  <2> QED BY <2>2, <2>3, <2>4
<1>6. /\ taken' \in [Notices -> [Channels -> Nat]] /\ lost' \in [Notices -> [Channels -> Nat]]
  <2>1. \A f \in [Notices -> [Channels -> Nat]] :
          [f EXCEPT ![n][c] = @ + 1] \in [Notices -> [Channels -> Nat]]
    OBVIOUS
  <2> QED BY <1>1, <2>1 DEF Attempt, TypeOK
<1>7. told' \in [Notices -> SUBSET Channels]
  BY <1>1 DEF Attempt, TypeOK
<1>8. now' \in 0 .. MaxTime
  BY <1>1, <1>2 DEF TypeOK
<1> QED BY <1>3, <1>4, <1>5, <1>6, <1>7, <1>8 DEF TypeOK

LEMMA AttemptChannels ==
  ASSUME IInv, NEW n \in Notices, NEW c \in Channels,
         NEW answer \in {"success", "refused", "failed"}, NEW took \in BOOLEAN,
         Attempt(n, c, answer, took)
  PROVE  ChannelInv' /\ DuplicateOnlyIfLost'
<1> USE DEF Channels
<1>1. TypeOK /\ ChannelInv /\ DuplicateOnlyIfLost
  BY DEF IInv
<1>2. stage[n] = c /\ c \notin told[n] /\ (answer = "success" => took)
  BY <1>1 DEF Attempt, ChannelInv
<1>3. ChannelInv'
  <2> SUFFICES ASSUME NEW m \in Notices
               PROVE  ChannelInv!(m)'
    BY DEF ChannelInv
  <2>1. CASE m # n
    BY <1>1, <2>1 DEF Attempt, GoOn, ChannelInv, TypeOK
  <2>2. CASE m = n /\ Final(c, answer, tries[n] + 1)
    BY <1>1, <1>2, <2>2 DEF Attempt, GoOn, Delivered, After, AfterWebhook, ChannelInv, TypeOK
  <2>3. CASE m = n /\ ~Final(c, answer, tries[n] + 1)
    BY <1>1, <1>2, <2>3 DEF Attempt, GoOn, Final, ChannelInv, TypeOK
  <2> QED BY <2>1, <2>2, <2>3
<1>4. DuplicateOnlyIfLost'
  <2> SUFFICES ASSUME NEW m \in Notices, NEW d \in Channels
               PROVE  taken'[m][d] = lost'[m][d] + (IF d \in told'[m] THEN 1 ELSE 0)
    BY DEF DuplicateOnlyIfLost
  <2>1. /\ taken[m][d] \in Nat /\ lost[m][d] \in Nat
        /\ taken[m][d] = lost[m][d] + (IF d \in told[m] THEN 1 ELSE 0)
    BY <1>1 DEF DuplicateOnlyIfLost, TypeOK
  <2>2. CASE m # n \/ d # c
    BY <1>1, <2>1, <2>2 DEF Attempt, TypeOK
  <2>3. CASE m = n /\ d = c
    BY <1>1, <1>2, <2>1, <2>3 DEF Attempt, TypeOK
  <2> QED BY <2>2, <2>3
<1> QED BY <1>3, <1>4

LEMMA BeginStep ==
  ASSUME IInv, NEW n \in Notices, Begin(n)
  PROVE  IInv'
<1> USE DEF Channels
<1>1. TypeOK /\ ChannelInv /\ DuplicateOnlyIfLost /\ HealthInv
  BY DEF IInv
<1>2. First \in {"webhook", "relay", "done"}
  BY DEF First, AfterWebhook
<1>3. TypeOK'
  <2>1. Attempts("webhook") \in Nat \ {0} /\ Attempts("relay") \in Nat \ {0}
    BY NotifyAssumption DEF Attempts
  <2>2. ASSUME NEW m \in Notices
        PROVE  tries'[m] < (IF stage'[m] \in Channels THEN Attempts(stage'[m]) ELSE 1)
    <3>1. tries' = tries /\ stage' = [stage EXCEPT ![n] = First] /\ stage[n] = "idle"
      BY DEF Begin
    <3>2. tries[m] \in Nat /\ tries[m] < (IF stage[m] \in Channels THEN Attempts(stage[m]) ELSE 1)
      BY <1>1 DEF TypeOK
    <3>3. CASE m = n
      <4>1. tries[n] = 0 /\ stage'[n] = First
        BY <1>1, <3>1, <3>2, <3>3 DEF TypeOK
      <4> QED BY <1>2, <2>1, <3>1, <3>3, <4>1
    <3>4. CASE m # n
      BY <1>1, <3>1, <3>2, <3>4 DEF TypeOK
    <3> QED BY <3>3, <3>4
  <2>3. stage' \in [Notices -> {"idle", "webhook", "relay", "done"}]
    BY <1>1, <1>2 DEF Begin, TypeOK
  <2> QED BY <1>1, <2>2, <2>3 DEF Begin, TypeOK, healthVars
<1>4. ChannelInv'
  BY <1>1 DEF Begin, ChannelInv, First, AfterWebhook, TypeOK
<1>5. DuplicateOnlyIfLost'
  BY <1>1 DEF Begin, DuplicateOnlyIfLost
<1>6. HealthInv'
  BY <1>1 DEF Begin, healthVars, HealthInv, SuffixInv, SortedInv, DropInv, Dropped, Stale
<1> QED BY <1>3, <1>4, <1>5, <1>6 DEF IInv

LEMMA ProbeStep ==
  ASSUME IInv, GetReady
  PROVE  IInv'
<1>1. PICK gone \in Nat :
        /\ Pruned \in Seq(0 .. now) /\ Len(Pruned) \in Nat /\ Len(Pruned) <= Len(failures)
        /\ Len(recorded) = gone + Len(Pruned)
        /\ \A i \in 1 .. Len(Pruned) : Pruned[i] = recorded[gone + i]
        /\ Len(Pruned) >= Keep \/ \A i \in 1 .. gone : Stale(recorded[i])
  BY PruneStep
<1> DEFINE kept == Pruned
<1> HIDE DEF kept
<1>2. /\ kept \in Seq(0 .. now) /\ Len(kept) \in Nat /\ Len(kept) <= Len(failures)
      /\ Len(recorded) = gone + Len(kept)
      /\ \A i \in 1 .. Len(kept) : kept[i] = recorded[gone + i]
      /\ Len(kept) >= Keep \/ \A i \in 1 .. gone : Stale(recorded[i])
      /\ failures' = kept /\ now' = now /\ recorded' = recorded /\ UNCHANGED noticeVars
  BY <1>1 DEF GetReady, Probe, kept
<1>3. TypeOK'
  <2>1. Len(kept) <= Cap
    BY <1>2, ListLengths, HealthAssumption DEF IInv, TypeOK
  <2> QED BY <1>2, <2>1 DEF IInv, TypeOK, noticeVars
<1>4. Dropped' = gone
  BY <1>2, ListLengths DEF Dropped
<1>5. HealthInv'
  BY <1>1, <1>2, <1>4 DEF IInv, HealthInv, SuffixInv, SortedInv, DropInv, Stale
<1>6. ChannelInv' /\ DuplicateOnlyIfLost'
  BY <1>2 DEF noticeVars, IInv, ChannelInv, DuplicateOnlyIfLost
<1> QED BY <1>3, <1>5, <1>6 DEF IInv

LEMMA ClockStep ==
  ASSUME IInv, Clock
  PROVE  IInv'
<1>1. now' = now + 1 /\ now' \in 0 .. MaxTime /\ UNCHANGED healthVars /\ UNCHANGED noticeVars
  BY HealthAssumption DEF IInv, TypeOK, Clock, Tick
<1>2. 0 .. now \subseteq 0 .. now'
  BY <1>1, ListLengths
<1>3. failures' \in Seq(0 .. now') /\ recorded' \in Seq(0 .. now')
  BY <1>1, <1>2, SeqMonotonic, ListFacts DEF healthVars
<1>4. TypeOK'
  BY <1>1, <1>3 DEF IInv, TypeOK, healthVars, noticeVars
<1>5. \A i \in 1 .. Dropped : Stale(recorded[i]) => Stale(recorded[i])'
  <2> TAKE i \in 1 .. Dropped
  <2>1. recorded[i] \in Nat /\ recorded'[i] = recorded[i]
    BY <1>1, ListFacts, ListLengths DEF healthVars
  <2> QED BY <1>1, <2>1, ListLengths DEF Stale
<1>6. Dropped' = Dropped /\ failures' = failures /\ recorded' = recorded
  BY <1>1 DEF Dropped, healthVars
<1>7. HealthInv'
  BY <1>5, <1>6 DEF IInv, HealthInv, SuffixInv, SortedInv, DropInv
<1>8. ChannelInv' /\ DuplicateOnlyIfLost'
  BY <1>1 DEF noticeVars, IInv, ChannelInv, DuplicateOnlyIfLost
<1> QED BY <1>4, <1>7, <1>8 DEF IInv

LEMMA InvStep == IInv /\ [Next]_vars => IInv'
<1> SUFFICES ASSUME IInv, [Next]_vars PROVE IInv'
  OBVIOUS
<1>1. ASSUME NEW n \in Notices, Deliver(n) PROVE IInv'
  <2>1. ASSUME NEW answer \in {"success", "refused", "failed"}, NEW took \in BOOLEAN,
               Send(n, answer, took)
        PROVE  IInv'
    BY <2>1, AttemptTypes, AttemptChannels DEF Send, IInv, Channels
  <2>2. ASSUME NEW answer \in {"success", "refused", "failed"}, NEW took \in BOOLEAN,
               Publish(n, answer, took)
        PROVE  IInv'
    BY <2>2, AttemptTypes, AttemptChannels DEF Publish, IInv, Channels
  <2> QED BY <1>1, <2>1, <2>2, BeginStep DEF Deliver
<1>2. ASSUME UNCHANGED vars PROVE IInv'
  BY <1>2 DEF vars, healthVars, noticeVars, IInv, TypeOK, ChannelInv, DuplicateOnlyIfLost,
              HealthInv, SuffixInv, SortedInv, DropInv, Dropped, Stale
<1> QED BY <1>1, <1>2, ProbeStep, ClockStep DEF Next

LEMMA Invariance == Spec => []IInv
  BY InvInit, InvStep, PTL DEF Spec

-----------------------------------------------------------------------------
\* The lists of failures and the state of the notifications have their types; in
\* particular the list never outgrows its cap.
THEOREM TypeCorrect == Spec => []TypeOK
<1>1. IInv => TypeOK
  BY DEF IInv
<1> QED BY <1>1, Invariance, PTL

\* No notification ends with a channel that neither has it nor is recorded as failed.
THEOREM NothingLostSilently == Spec => []DeliveredOrRecorded
<1>1. IInv => DeliveredOrRecorded
  <2> SUFFICES ASSUME IInv, NEW n \in Notices, stage[n] = "done", NEW c \in Configured
               PROVE  (c \in told[n] /\ taken[n][c] > 0) \/ c \in gaveUp[n]
    BY DEF DeliveredOrRecorded
  <2>1. c \in Channels /\ c \in told[n] \cup gaveUp[n]
    BY DEF IInv, ChannelInv, Configured, Channels
  <2>2. /\ taken[n][c] = lost[n][c] + (IF c \in told[n] THEN 1 ELSE 0)
        /\ lost[n][c] \in Nat
    BY <2>1 DEF IInv, TypeOK, DuplicateOnlyIfLost
  <2> QED BY <2>1, <2>2
<1> QED BY <1>1, Invariance, PTL

\* Each notice reaches the other side of a channel once per lost answer, and once more
\* if the channel answered with success.
THEOREM DuplicatesExplained == Spec => []DuplicateOnlyIfLost
<1>1. IInv => DuplicateOnlyIfLost
  BY DEF IInv
<1> QED BY <1>1, Invariance, PTL

\* However the list of failures was pruned and cut, /readyz answers as a service would
\* that counts all failures of the window.
THEOREM ReadinessExact == Spec => []ReadyIsRight
<1>1. IInv => ReadyIsRight
  <2> SUFFICES ASSUME IInv, Threshold <= Keep
               PROVE  Len(Pruned) < Threshold <=> Recent < Threshold
    BY DEF ReadyIsRight, Ready
  <2>1. PICK gone \in Nat :
          /\ Pruned \in Seq(0 .. now) /\ Len(Pruned) \in Nat /\ Len(Pruned) <= Len(failures)
          /\ Len(recorded) = gone + Len(Pruned)
          /\ \A i \in 1 .. Len(Pruned) : Pruned[i] = recorded[gone + i]
          /\ Len(Pruned) >= Keep \/ \A i \in 1 .. gone : Stale(recorded[i])
          /\ Len(Pruned) > 0 => ~Stale(Pruned[1])
    BY PruneStep
  <2> DEFINE fresh == {i \in DOMAIN recorded : ~Stale(recorded[i])}
             rest == gone + 1 .. Len(recorded)
  <2>2. DOMAIN recorded = 1 .. Len(recorded)
    BY ListFacts, LenProperties
  <2>3. rest \subseteq fresh
    <3> SUFFICES ASSUME NEW i \in rest PROVE i \in fresh
      OBVIOUS
    <3>1. /\ i \in 1 .. Len(recorded) /\ gone + 1 \in 1 .. Len(recorded) /\ gone + 1 <= i
          /\ Len(Pruned) > 0 /\ 1 \in 1 .. Len(Pruned)
      BY <2>1
    <3>2. recorded[gone + 1] <= recorded[i] /\ ~Stale(recorded[gone + 1])
      BY <2>1, <3>1, ListFacts
    <3>3. recorded[gone + 1] \in Nat /\ recorded[i] \in Nat
      BY <3>1, ListFacts, ListLengths
    <3>4. ~Stale(recorded[i])
      BY <3>2, <3>3, ListLengths DEF Stale
    <3> QED BY <2>2, <3>1, <3>4
  <2>4. IsFiniteSet(rest) /\ Cardinality(rest) = Len(Pruned)
    <3>1. gone + 1 \in Int /\ Len(recorded) \in Int
      BY <2>1
    <3>2. IsFiniteSet(rest) /\ Cardinality(rest) =
            IF gone + 1 > Len(recorded) THEN 0 ELSE Len(recorded) - (gone + 1) + 1
      BY <3>1, FS_Interval
    <3> QED BY <2>1, <3>2
  <2>5. IsFiniteSet(fresh) /\ Cardinality(rest) <= Cardinality(fresh)
    <3>1. IsFiniteSet(1 .. Len(recorded)) /\ fresh \in SUBSET (1 .. Len(recorded))
      BY <2>2, ListLengths, FS_Interval
    <3>2. IsFiniteSet(fresh)
      BY <3>1, FS_Subset
    <3> QED BY <2>3, <3>2, FS_Subset
  <2>6. CASE Len(Pruned) >= Keep
    <3>1. Cardinality(fresh) \in Nat /\ Keep \in Nat /\ Threshold \in Nat
      BY <2>5, FS_CardinalityType, HealthAssumption
    <3> QED BY <2>1, <2>4, <2>5, <2>6, <3>1 DEF Recent
  <2>7. CASE \A i \in 1 .. gone : Stale(recorded[i])
    <3>1. fresh = rest
      BY <2>1, <2>2, <2>3, <2>7
    <3> QED BY <2>4, <3>1 DEF Recent
  <2> QED BY <2>1, <2>6, <2>7
<1> QED BY <1>1, Invariance, PTL
=============================================================================
