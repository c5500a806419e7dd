----------------------------- MODULE PollerProofs -----------------------------
(***************************************************************************)
(* What holds of the transcript poller for any number of files and messages, *)
(* every size of the window of fingerprints, torn writes or not, and any      *)
(* number of writes, truncations and failed reads.                           *)
(***************************************************************************)
EXTENDS Poller, SequenceTheorems, FiniteSetTheorems, TLAPS

Fingerprints == Files \X Messages
Lines == Messages \X {"head", "tail"}

-----------------------------------------------------------------------------
(* The inductive invariant *)

TypeInv ==
  /\ content \in [Files -> Seq(Lines)]
  /\ exists \in SUBSET Files /\ todo \in SUBSET Files /\ file \in SUBSET Files
  /\ offsets \in [Files -> Nat \cup {Unknown}]
  /\ start \in [Files -> Nat]
  /\ pos \in Nat
  /\ truncates \in Nat
  /\ \A f, g \in file : f = g
  /\ order \in Seq(Fingerprints)
  /\ handled \in Seq(Fingerprints)

\* The window holds no fingerprint twice and stays within its bound ...
OrderInv ==
  /\ seen = Range(order)
  /\ \A i, j \in 1 .. Len(order) : order[i] = order[j] => i = j
  /\ Len(order) <= MaxSeen

\* ... and holds the last messages that were handed on: all of them, or the newer
\* half and what came after it.
Forgotten == Len(handled) - Len(order)

SuffixInv ==
  /\ Forgotten \in Nat
  /\ \A i \in 1 .. Len(order) : order[i] = handled[Forgotten + i]
  /\ Forgotten > 0 => Len(order) >= Window

\* A file is read from where it was when it was first seen, or behind.
OffsetInv ==
  \A f \in Files :
    /\ pc = "read" /\ f \in file => offsets[f] # Unknown
    /\ truncates = 0 /\ offsets[f] # Unknown =>
         /\ offsets[f] \in start[f] .. Len(content[f])
         /\ pc = "read" /\ f \in file => pos \in start[f] .. Len(content[f])

\* Only of a file that was seen is anything handed on.
HandledInv ==
  \A i \in 1 .. Len(handled) :
    /\ offsets[handled[i][1]] # Unknown
    /\ truncates = 0 => handled[i][2] \in WrittenSince(handled[i][1])

\* Stop returns to its caller only after the goroutine has ended.
StopInv == stop = "done" => pc = "exited"

IInv == TypeInv /\ OrderInv /\ SuffixInv /\ RepeatsAreFarApart /\ OffsetInv /\ HandledInv /\ StopInv

-----------------------------------------------------------------------------
(* Lemmas about windows: the last elements of a growing list *)

\* A list without repetitions has as many elements as it is long.
LEMMA DistinctCount ==
  ASSUME NEW S, NEW s \in Seq(S), \A i, j \in 1 .. Len(s) : s[i] = s[j] => i = j
  PROVE  IsFiniteSet(Range(s)) /\ Cardinality(Range(s)) = Len(s)
<1>1. Len(s) \in Nat /\ DOMAIN s = 1 .. Len(s) /\ s \in [1 .. Len(s) -> S]
  BY LenProperties
<1>2. s \in [1 .. Len(s) -> Range(s)]
  BY <1>1 DEF Range
<1>3. s \in Bijection(1 .. Len(s), Range(s))
  BY <1>1, <1>2 DEF Bijection, Injection, Surjection, IsInjective, Range
<1>4. ExistsBijection(1 .. Len(s), Range(s))
  BY <1>3 DEF ExistsBijection
<1>5. Cardinality(Range(s)) = Len(s)
  BY <1>1, <1>4, FS_CountingElements
<1>6. IsFiniteSet(Range(s))
  BY <1>1, <1>4, FS_NatBijection
<1> QED BY <1>5, <1>6

\* The elements of a stretch of a list are finitely many.
LEMMA StretchFinite ==
  ASSUME NEW s, NEW a \in Int, NEW b \in Int, NEW T,
         \A x \in T : \E k \in a .. b : x = s[k]
  PROVE  IsFiniteSet(T)
<1> DEFINE all == {s[k] : k \in a .. b}
           f == [k \in a .. b |-> s[k]]
<1>1. f \in Surjection(a .. b, all)
  BY DEF Surjection
<1>2. IsFiniteSet(a .. b)
  BY FS_Interval
<1>3. T \subseteq all
  OBVIOUS
<1> HIDE DEF f, all
<1>4. IsFiniteSet(all)
  BY <1>1, <1>2, FS_Surjection
<1> QED BY <1>3, <1>4, FS_Subset

\* How the window moves: the new fingerprint comes last, and what goes is the older
\* half, or nothing.
LEMMA WindowMoves ==
  ASSUME NEW S, order \in Seq(S), NEW p \in S, Len(order) <= MaxSeen
  PROVE  LET new == SubSeq(Extended(p), Overflow(p) + 1, Len(Extended(p)))
         IN  /\ new \in Seq(S)
             /\ Overflow(p) \in 0 .. Len(order)
             /\ Len(new) = Len(order) + 1 - Overflow(p)
             /\ Len(new) <= MaxSeen
             /\ \A i \in 1 .. Len(new) : new[i] = Extended(p)[Overflow(p) + i]
             /\ Overflow(p) > 0 => Len(new) = Window
             /\ Extended(p) \in Seq(S) /\ Len(Extended(p)) = Len(order) + 1
             /\ \A i \in 1 .. Len(order) : Extended(p)[i] = order[i]
             /\ Extended(p)[Len(order) + 1] = p
<1> DEFINE long == Extended(p)
           k == Overflow(p)
           new == SubSeq(long, k + 1, Len(long))
<1>1. Len(order) \in Nat /\ MaxSeen \in Nat \ {0}
  BY LenProperties, PollerAssumption
<1>2. /\ long \in Seq(S) /\ Len(long) = Len(order) + 1
      /\ \A i \in 1 .. Len(order) : long[i] = order[i]
      /\ long[Len(order) + 1] = p
  BY AppendProperties DEF Extended
<1>3. /\ k = IF Len(order) + 1 > MaxSeen THEN (Len(order) + 1) \div 2 ELSE 0
      /\ k > 0 => k = (MaxSeen + 1) \div 2 /\ Len(order) = MaxSeen
  BY <1>1, <1>2 DEF Overflow
<1>4. k \in 0 .. Len(order)
  BY <1>1, <1>3
<1>5. \A i \in 1 .. Len(long) : long[i] \in S
  BY <1>2, ElementOfSeq
<1> HIDE DEF long, k
<1>6. /\ new \in Seq(S) /\ Len(new) = Len(order) + 1 - k
      /\ \A i \in 1 .. Len(new) : new[i] = long[k + i]
  <2>1. \A i \in k + 1 .. Len(long) : long[i] \in S
    BY <1>1, <1>2, <1>4, <1>5
  <2>2. k + 1 \in Int /\ Len(long) \in Int /\ k + 1 <= Len(long)
    BY <1>1, <1>2, <1>4
  <2>3. /\ new \in Seq(S) /\ Len(new) = Len(long) - (k + 1) + 1
        /\ \A i \in 1 .. Len(long) - (k + 1) + 1 : new[i] = long[(k + 1) + i - 1]
    BY <2>1, <2>2, SubSeqProperties
  <2> QED BY <1>1, <1>2, <1>4, <2>3
<1>7. Len(new) = Len(order) + 1 - k
  BY <1>6
<1> HIDE DEF new
<1>8. Len(new) <= MaxSeen
  BY <1>1, <1>3, <1>4, <1>7
<1>9. k > 0 => Len(new) = Window
  <2>1. ASSUME k > 0 PROVE Len(new) = (MaxSeen + 1) - (MaxSeen + 1) \div 2
    <3>1. k = (MaxSeen + 1) \div 2 /\ Len(order) = MaxSeen
      BY <1>3, <2>1
    <3> QED BY <1>7, <3>1
  <2> QED BY <2>1 DEF Window
<1> QED BY <1>2, <1>4, <1>6, <1>8, <1>9 DEF long, k, new

-----------------------------------------------------------------------------
LEMMA InvInit == Init => IInv
<1> SUFFICES ASSUME Init PROVE IInv
  OBVIOUS
<1>1. /\ order = <<>> /\ handled = <<>> /\ seen = {}
      /\ <<>> \in Seq(Fingerprints) /\ Len(order) = 0 /\ Len(handled) = 0
      /\ MaxSeen \in Nat
  BY EmptySeq, PollerAssumption DEF Init
<1>2. TypeInv
  <2>1. ASSUME NEW f \in Files PROVE content[f] \in Seq(Lines)
    <3>1. content[f] \in {<<>>} \cup {<< <<m, "head">>, <<m, "tail">> >> : m \in Messages}
      BY DEF Init
    <3>2. CASE content[f] = <<>>
      BY <3>2, EmptySeq
    <3>3. ASSUME NEW m \in Messages, content[f] = << <<m, "head">>, <<m, "tail">> >>
          PROVE  content[f] \in Seq(Lines)
      <4>1. <<m, "head">> \in Lines /\ <<m, "tail">> \in Lines
        BY DEF Lines
      <4> QED BY <3>3, <4>1
    <3> QED BY <3>1, <3>2, <3>3
  <2>2. content \in [Files -> Seq(Lines)]
    <3>1. content = [f \in Files |-> content[f]]
      BY DEF Init
    <3> QED BY <2>1, <3>1
  <2> QED BY <1>1, <2>2 DEF Init, TypeInv
<1>3. OrderInv
  <2>1. Range(order) = {}
    BY <1>1 DEF Range
  <2> QED BY <1>1, <2>1 DEF OrderInv
<1>4. SuffixInv
  BY <1>1 DEF SuffixInv, Forgotten
<1>5. RepeatsAreFarApart
  BY <1>1 DEF RepeatsAreFarApart
<1>6. OffsetInv
  BY DEF Init, OffsetInv
<1>7. HandledInv
  BY <1>1 DEF HandledInv
<1>8. StopInv
  BY DEF Init, StopInv
<1> QED BY <1>2, <1>3, <1>4, <1>5, <1>6, <1>7, <1>8 DEF IInv

\* What the invariant says of the two lists: their lengths, and their contents.
LEMMA ListLengths ==
  ASSUME IInv
  PROVE  /\ MaxSeen \in Nat \ {0} /\ Len(order) <= MaxSeen
         /\ Len(order) \in Nat /\ Len(handled) \in Nat /\ Forgotten \in Nat
         /\ Len(handled) = Forgotten + Len(order)
         /\ Forgotten > 0 => Len(order) >= Window
<1>1. order \in Seq(Fingerprints) /\ handled \in Seq(Fingerprints)
  BY DEF IInv, TypeInv
<1>2. Len(order) \in Nat /\ Len(handled) \in Nat
  BY <1>1, LenProperties
<1> QED BY <1>2, PollerAssumption DEF IInv, OrderInv, SuffixInv, Forgotten

LEMMA ListFacts ==
  ASSUME IInv
  PROVE  /\ order \in Seq(Fingerprints) /\ handled \in Seq(Fingerprints)
         /\ DOMAIN order = 1 .. Len(order) /\ DOMAIN handled = 1 .. Len(handled)
         /\ \A i, j \in 1 .. Len(order) : order[i] = order[j] => i = j
         /\ \A i \in 1 .. Len(order) : order[i] = handled[Forgotten + i]
         /\ seen = Range(order)
<1>1. order \in Seq(Fingerprints) /\ handled \in Seq(Fingerprints)
  BY DEF IInv, TypeInv
<1>2. DOMAIN order = 1 .. Len(order) /\ DOMAIN handled = 1 .. Len(handled)
  BY <1>1, LenProperties
<1> QED BY <1>1, <1>2 DEF IInv, OrderInv, SuffixInv

\* The history with one more message.
LEMMA HistoryGrows ==
  ASSUME IInv, NEW p \in Fingerprints, handled' = Append(handled, p)
  PROVE  /\ handled' \in Seq(Fingerprints) /\ Len(handled') = Len(handled) + 1
         /\ DOMAIN handled' = 1 .. Len(handled) + 1
         /\ \A i \in 1 .. Len(handled) : handled'[i] = handled[i]
         /\ handled'[Len(handled) + 1] = p
<1> DEFINE h == Append(handled, p)
<1>1. /\ h \in Seq(Fingerprints) /\ Len(h) = Len(handled) + 1
      /\ \A i \in 1 .. Len(handled) : h[i] = handled[i]
      /\ h[Len(handled) + 1] = p
  BY ListFacts, AppendProperties
<1> HIDE DEF h
<1>2. DOMAIN h = 1 .. Len(handled) + 1
  BY <1>1, LenProperties
<1>3. handled' = h
  BY DEF h
<1> QED BY <1>1, <1>2, <1>3

\* A message that is new is handed on: the window stays right.
LEMMA NewWindow ==
  ASSUME IInv, NEW p \in Fingerprints, IsNew(p), Handle(p)
  PROVE  order' \in Seq(Fingerprints) /\ OrderInv' /\ SuffixInv'
<1> DEFINE long == Extended(p)
           k == Overflow(p)
           new == SubSeq(Extended(p), Overflow(p) + 1, Len(Extended(p)))
<1>1. /\ new \in Seq(Fingerprints)
      /\ k \in 0 .. Len(order)
      /\ Len(new) = Len(order) + 1 - k
      /\ Len(new) <= MaxSeen
      /\ \A i \in 1 .. Len(new) : new[i] = long[k + i]
      /\ k > 0 => Len(new) = Window
      /\ long \in Seq(Fingerprints) /\ Len(long) = Len(order) + 1
      /\ \A i \in 1 .. Len(order) : long[i] = order[i]
      /\ long[Len(order) + 1] = p
  BY ListFacts, ListLengths, WindowMoves
<1>2. /\ order' = new /\ handled' = Append(handled, p)
      /\ seen' = (seen \cup {p}) \ {long[i] : i \in 1 .. k}
  BY DEF Handle, SeenWith
<1> HIDE DEF long, k, new
<1>3. k \in Nat /\ k <= Len(order) /\ Len(new) \in Nat /\ Len(new) = Len(order) + 1 - k
  BY <1>1, ListLengths
<1>4. p \notin Range(order)
  BY ListFacts DEF IsNew
<1>5. \A i, j \in 1 .. Len(order) + 1 : long[i] = long[j] => i = j
  <2>1. \A i \in 1 .. Len(order) : long[i] # p
    <3>1. \A i \in 1 .. Len(order) : order[i] \in Range(order)
      BY ListFacts DEF Range
    <3> QED BY <1>1, <1>4, <3>1
  <2> TAKE i, j \in 1 .. Len(order) + 1
  <2>2. CASE i \in 1 .. Len(order) /\ j \in 1 .. Len(order)
    BY <1>1, <2>2, ListFacts
  <2>3. CASE i = Len(order) + 1 \/ j = Len(order) + 1
    <3>1. \A n \in 1 .. Len(order) + 1 : n \in 1 .. Len(order) \/ n = Len(order) + 1
      BY ListLengths
    <3> QED BY <1>1, <2>1, <2>3, <3>1
  <2> QED BY <2>2, <2>3, ListLengths
<1>6. \A i \in 1 .. Len(new) : k + i \in k + 1 .. Len(order) + 1 /\ k + i \in 1 .. Len(order) + 1
  BY <1>3, ListLengths
<1>7. Range(new) = {long[i] : i \in k + 1 .. Len(order) + 1}
  <2>1. Range(new) = {new[i] : i \in 1 .. Len(new)}
    BY <1>1, RangeEquality
  <2>2. \A i \in k + 1 .. Len(order) + 1 : i - k \in 1 .. Len(new) /\ k + (i - k) = i
    BY <1>3, ListLengths
  <2>3. ASSUME NEW i \in 1 .. Len(new) PROVE new[i] \in {long[j] : j \in k + 1 .. Len(order) + 1}
    BY <1>1, <1>6
  <2>4. ASSUME NEW i \in k + 1 .. Len(order) + 1 PROVE long[i] \in {new[j] : j \in 1 .. Len(new)}
    <3>1. new[i - k] = long[i]
      BY <1>1, <2>2
    <3> QED BY <2>2, <3>1
  <2> QED BY <2>1, <2>3, <2>4
<1>8. seen' = Range(new)
  <2>1. seen \cup {p} = {long[i] : i \in 1 .. Len(order) + 1}
    <3>1. Range(order) = {order[i] : i \in 1 .. Len(order)}
      BY ListFacts, RangeEquality
    <3>2. /\ Len(order) + 1 \in 1 .. Len(order) + 1
          /\ \A n \in 1 .. Len(order) + 1 : n \in 1 .. Len(order) \/ n = Len(order) + 1
          /\ \A n \in 1 .. Len(order) : n \in 1 .. Len(order) + 1
      BY ListLengths
    <3>3. seen = {long[i] : i \in 1 .. Len(order)}
      BY <1>1, <3>1, ListFacts
    <3>4. p = long[Len(order) + 1]
      BY <1>1
    <3>5. ASSUME NEW x \in seen \cup {p} PROVE x \in {long[i] : i \in 1 .. Len(order) + 1}
      BY <3>2, <3>3, <3>4
    <3>6. ASSUME NEW i \in 1 .. Len(order) + 1 PROVE long[i] \in seen \cup {p}
      BY <3>2, <3>3, <3>4
    <3> QED BY <3>5, <3>6
  <2>2. /\ \A i \in 1 .. Len(order) + 1 : i \in 1 .. k \/ i \in k + 1 .. Len(order) + 1
        /\ \A i \in k + 1 .. Len(order) + 1 : i \in 1 .. Len(order) + 1 /\ i \notin 1 .. k
        /\ \A i \in 1 .. k : i \in 1 .. Len(order) + 1
    BY <1>3, ListLengths
  <2>3. {long[i] : i \in 1 .. Len(order) + 1} \ {long[i] : i \in 1 .. k}
          = {long[i] : i \in k + 1 .. Len(order) + 1}
    <3>1. ASSUME NEW i \in 1 .. Len(order) + 1, long[i] \notin {long[j] : j \in 1 .. k}
          PROVE  long[i] \in {long[j] : j \in k + 1 .. Len(order) + 1}
      BY <2>2, <3>1
    <3>2. ASSUME NEW i \in k + 1 .. Len(order) + 1
          PROVE  /\ long[i] \in {long[j] : j \in 1 .. Len(order) + 1}
                 /\ long[i] \notin {long[j] : j \in 1 .. k}
      BY <1>5, <2>2
    <3> QED BY <3>1, <3>2
  <2> QED BY <1>2, <1>7, <2>1, <2>3
<1>9. \A i, j \in 1 .. Len(new) : new[i] = new[j] => i = j
  <2> TAKE i, j \in 1 .. Len(new)
  <2> HAVE new[i] = new[j]
  <2>1. k + i = k + j
    BY <1>1, <1>5, <1>6
  <2> QED BY <1>3, <2>1
<1>10. OrderInv'
  BY <1>1, <1>2, <1>8, <1>9 DEF OrderInv
<1>11. /\ Len(handled') = Len(handled) + 1
       /\ \A i \in 1 .. Len(handled) : handled'[i] = handled[i]
       /\ handled'[Len(handled) + 1] = p
  BY <1>2, HistoryGrows
<1>12. Forgotten' = Forgotten + k /\ Forgotten + k \in Nat
  BY <1>2, <1>3, <1>11, ListLengths DEF Forgotten
<1>13. \A i \in 1 .. Len(order) + 1 : long[i] = handled'[Forgotten + i]
  <2> TAKE i \in 1 .. Len(order) + 1
  <2>1. CASE i \in 1 .. Len(order)
    <3>1. Forgotten + i \in 1 .. Len(handled)
      BY <2>1, ListLengths
    <3> QED BY <1>1, <1>11, <2>1, <3>1, ListFacts
  <2>2. CASE i = Len(order) + 1
    <3>1. Forgotten + i = Len(handled) + 1
      BY <2>2, ListLengths
    <3> QED BY <1>1, <1>11, <2>2, <3>1
  <2> QED BY <2>1, <2>2, ListLengths
<1>14. \A i \in 1 .. Len(new) : new[i] = handled'[(Forgotten + k) + i]
  <2> TAKE i \in 1 .. Len(new)
  <2>1. Forgotten + (k + i) = (Forgotten + k) + i
    BY <1>3, ListLengths
  <2> QED BY <1>1, <1>6, <1>13, <2>1
<1>15. Forgotten + k > 0 => Len(new) >= Window
  <2>0. Window \in Nat
    BY ListLengths DEF Window
  <2>1. CASE k > 0
    <3>1. Len(new) = Window
      BY <1>1, <2>1
    <3> QED BY <2>0, <3>1
  <2>2. CASE k = 0
    BY <1>3, <2>0, <2>2, ListLengths
  <2> QED BY <1>3, <2>1, <2>2
<1>16. SuffixInv'
  BY <1>2, <1>12, <1>14, <1>15 DEF SuffixInv
<1> QED BY <1>1, <1>2, <1>10, <1>16

\* It was handed on before only in the distant past.
LEMMA FarApart ==
  ASSUME IInv, NEW p \in Fingerprints, IsNew(p), handled' = Append(handled, p)
  PROVE  RepeatsAreFarApart'
<1>1. /\ Len(handled') = Len(handled) + 1
      /\ DOMAIN handled' = 1 .. Len(handled) + 1
      /\ \A i \in 1 .. Len(handled) : handled'[i] = handled[i]
      /\ handled'[Len(handled) + 1] = p
  BY HistoryGrows
<1> SUFFICES ASSUME NEW i \in 1 .. Len(handled) + 1, NEW j \in 1 .. Len(handled) + 1,
                    i < j, handled'[i] = handled'[j]
             PROVE  Cardinality({handled'[n] : n \in i + 1 .. j - 1}) >= Window
  BY <1>1 DEF RepeatsAreFarApart, Window
<1>2. CASE j \in 1 .. Len(handled)
  <2>1. i \in 1 .. Len(handled)
    BY <1>2, ListLengths
  <2>2. \A n \in i + 1 .. j - 1 : n \in 1 .. Len(handled)
    BY <1>2, <2>1, ListLengths
  <2>3. {handled'[n] : n \in i + 1 .. j - 1} = {handled[n] : n \in i + 1 .. j - 1}
    BY <1>1, <2>2
  <2>4. handled[i] = handled[j]
    BY <1>1, <1>2, <2>1
  <2> QED BY <1>2, <2>1, <2>3, <2>4, ListFacts DEF IInv, RepeatsAreFarApart
<1>3. CASE j = Len(handled) + 1
  <2>1. i \in 1 .. Len(handled) /\ handled[i] = p
    BY <1>1, <1>3, ListLengths
  <2>2. i <= Forgotten
    <3> SUFFICES ASSUME ~(i <= Forgotten) PROVE FALSE
      OBVIOUS
    <3>1. i - Forgotten \in 1 .. Len(order) /\ Forgotten + (i - Forgotten) = i
      BY <2>1, ListLengths
    <3>2. order[i - Forgotten] = p
      BY <2>1, <3>1, ListFacts
    <3> QED BY <3>1, <3>2, ListFacts DEF IsNew, Range
  <2>3. Len(order) >= Window /\ Window \in Nat
    BY <2>1, <2>2, ListLengths DEF Window
  <2> DEFINE between == {handled'[n] : n \in i + 1 .. j - 1}
  <2>4. Range(order) \subseteq between
    <3>1. Range(order) = {order[n] : n \in 1 .. Len(order)}
      BY ListFacts, RangeEquality
    <3>2. ASSUME NEW n \in 1 .. Len(order) PROVE order[n] \in between
      <4>1. Forgotten + n \in i + 1 .. j - 1 /\ Forgotten + n \in 1 .. Len(handled)
        BY <1>3, <2>1, <2>2, ListLengths
      <4>2. order[n] = handled'[Forgotten + n]
        BY <1>1, <4>1, ListFacts
      <4> QED BY <4>1, <4>2
    <3> QED BY <3>1, <3>2
  <2>5. IsFiniteSet(between)
    <3>1. i + 1 \in Int /\ j - 1 \in Int
      BY ListLengths
    <3>2. \A x \in between : \E n \in i + 1 .. j - 1 : x = handled'[n]
      OBVIOUS
    <3> HIDE DEF between
    <3> QED BY <3>1, <3>2, StretchFinite
  <2>6. Cardinality(Range(order)) = Len(order)
    BY ListFacts, DistinctCount
  <2>7. Cardinality(Range(order)) <= Cardinality(between)
    BY <2>4, <2>5, FS_Subset
  <2>8. Cardinality(between) \in Nat
    BY <2>5, FS_CardinalityType
  <2> HIDE DEF between
  <2>9. Cardinality(between) >= Window
    BY <2>3, <2>6, <2>7, <2>8, ListLengths
  <2> QED BY <2>9 DEF between
<1>4. j \in 1 .. Len(handled) \/ j = Len(handled) + 1
  BY ListLengths
<1> QED BY <1>2, <1>3, <1>4

\* Whatever Handle does with a message, the typing and the two lists stay right.
LEMMA HandleStep ==
  ASSUME IInv, NEW p \in Fingerprints, Handle(p)
  PROVE  /\ order' \in Seq(Fingerprints) /\ handled' \in Seq(Fingerprints)
         /\ OrderInv' /\ SuffixInv' /\ RepeatsAreFarApart'
<1>1. CASE IsNew(p)
  <2>1. handled' = Append(handled, p)
    BY <1>1 DEF Handle
  <2> QED BY <1>1, <2>1, NewWindow, FarApart, HistoryGrows
<1>2. CASE ~IsNew(p)
  BY <1>2 DEF Handle, IInv, TypeInv, OrderInv, SuffixInv, Forgotten, RepeatsAreFarApart
<1> QED BY <1>1, <1>2

-----------------------------------------------------------------------------
(* The steps *)

LEMMA ListsUntouched ==
  ASSUME IInv, UNCHANGED <<seen, order, handled>>
  PROVE  OrderInv' /\ SuffixInv' /\ RepeatsAreFarApart'
<1>1. OrderInv'
  BY DEF IInv, OrderInv
<1>2. SuffixInv'
  BY DEF IInv, SuffixInv, Forgotten
<1>3. RepeatsAreFarApart'
  BY DEF IInv, RepeatsAreFarApart
<1> QED BY <1>1, <1>2, <1>3

\* What a step of the agents changes: the file it writes to is longer afterwards and
\* begins as before, or it is counted as truncated.
LEMMA WriteStep ==
  ASSUME IInv, NEW f \in Files, NEW lines \in Seq(Lines), Write(f, lines)
  PROVE  IInv'
<1>1. TypeInv /\ OrderInv /\ SuffixInv /\ RepeatsAreFarApart /\ OffsetInv /\ HandledInv /\ StopInv
  BY DEF IInv
<1>2. /\ content' = [content EXCEPT ![f] = content[f] \o lines] /\ exists' = exists \cup {f}
      /\ UNCHANGED <<truncates, offsets, seen, order, pc, todo, file, pos, errors, stop, start, handled>>
  BY DEF Write, loopVars
<1>3. content[f] \in Seq(Lines) /\ content \in [Files -> Seq(Lines)] /\ start \in [Files -> Nat]
  BY <1>1 DEF TypeInv
<1> DEFINE longer == content[f] \o lines
<1>4. /\ longer \in Seq(Lines) /\ Len(longer) = Len(content[f]) + Len(lines)
      /\ \A i \in 1 .. Len(content[f]) + Len(lines) :
           longer[i] = IF i <= Len(content[f]) THEN content[f][i] ELSE lines[i - Len(content[f])]
      /\ Len(content[f]) \in Nat /\ Len(lines) \in Nat
  BY <1>3, ConcatProperties, LenProperties
<1>5. content'[f] = longer /\ \A g \in Files : g # f => content'[g] = content[g]
  BY <1>2, <1>3
<1> HIDE DEF longer
<1>6. TypeInv'
  <2>1. content' \in [Files -> Seq(Lines)]
    BY <1>2, <1>3, <1>4 DEF longer
  <2> QED BY <1>1, <1>2, <2>1 DEF TypeInv
<1>7. \A g \in Files : /\ Len(content[g]) \in Nat /\ Len(content'[g]) \in Nat
                       /\ Len(content[g]) <= Len(content'[g])
                       /\ \A i \in 1 .. Len(content[g]) : content'[g][i] = content[g][i]
  <2> TAKE g \in Files
  <2>1. Len(content[g]) \in Nat
    BY <1>3, LenProperties
  <2>2. CASE g = f
    <3>1. \A i \in 1 .. Len(content[f]) : longer[i] = content[f][i]
      BY <1>4
    <3>2. Len(longer) \in Nat /\ Len(content[f]) <= Len(longer)
      BY <1>4
    <3> QED BY <1>5, <2>1, <2>2, <3>1, <3>2
  <2>3. CASE g # f
    BY <1>5, <2>1, <2>3
  <2> QED BY <2>2, <2>3
<1>8. OffsetInv'
  <2> SUFFICES ASSUME NEW g \in Files PROVE OffsetInv!(g)'
    BY DEF OffsetInv
  <2>1. /\ Len(content[g]) \in Nat /\ Len(content'[g]) \in Nat
        /\ Len(content[g]) <= Len(content'[g]) /\ start[g] \in Nat
    BY <1>3, <1>7
  <2>2. start[g] .. Len(content[g]) \subseteq start[g] .. Len(content'[g])
    BY <2>1
  <2> QED BY <1>1, <1>2, <2>2 DEF OffsetInv
<1>9. \A g \in Files : WrittenSince(g) \subseteq WrittenSince(g)'
  <2> SUFFICES ASSUME NEW g \in Files, NEW i \in start[g] + 1 .. Len(content[g])
               PROVE  content[g][i][1] \in WrittenSince(g)'
    BY DEF WrittenSince
  <2>1. i \in 1 .. Len(content[g]) /\ i \in start[g] + 1 .. Len(content'[g])
    BY <1>3, <1>7
  <2>2. content[g][i] = content'[g][i]
    BY <1>7, <2>1
  <2>3. start' = start
    BY <1>2
  <2> QED BY <2>1, <2>2, <2>3 DEF WrittenSince
<1>10. HandledInv'
  <2> SUFFICES ASSUME NEW i \in 1 .. Len(handled) PROVE HandledInv!(i)'
    BY <1>2 DEF HandledInv
  <2>1. handled[i] \in Fingerprints
    BY ListFacts, ElementOfSeq
  <2>2. handled[i][1] \in Files
    BY <2>1 DEF Fingerprints
  <2> QED BY <1>1, <1>2, <1>9, <2>2 DEF HandledInv
<1>11. OrderInv' /\ SuffixInv' /\ RepeatsAreFarApart' /\ StopInv'
  BY <1>1, <1>2, ListsUntouched DEF StopInv
<1> QED BY <1>6, <1>8, <1>10, <1>11 DEF IInv

LEMMA TruncateStep ==
  ASSUME IInv, NEW f \in Files, Truncate(f)
  PROVE  IInv'
<1>1. TypeInv /\ OrderInv /\ SuffixInv /\ RepeatsAreFarApart /\ OffsetInv /\ HandledInv /\ StopInv
  BY DEF IInv
<1>2. /\ content' = [content EXCEPT ![f] = <<>>] /\ truncates' = truncates + 1
      /\ UNCHANGED <<exists, offsets, seen, order, pc, todo, file, pos, errors, stop, start, handled>>
  BY DEF Truncate, loopVars
<1>3. truncates' \in Nat /\ truncates' # 0
  BY <1>1, <1>2 DEF TypeInv
<1>4. TypeInv'
  BY <1>1, <1>2, <1>3, EmptySeq DEF TypeInv
<1>5. OffsetInv' /\ HandledInv'
  BY <1>1, <1>2, <1>3 DEF OffsetInv, HandledInv
<1>6. OrderInv' /\ SuffixInv' /\ RepeatsAreFarApart' /\ StopInv'
  BY <1>1, <1>2, ListsUntouched DEF StopInv
<1> QED BY <1>4, <1>5, <1>6 DEF IInv

\* What the invariant says of a file, with its types.
LEMMA FileFacts ==
  ASSUME IInv, NEW f \in Files
  PROVE  /\ Len(content[f]) \in Nat /\ start[f] \in Nat /\ pos \in Nat
         /\ offsets[f] \in Nat \cup {Unknown} /\ Unknown \notin Nat
         /\ content[f] \in Seq(Lines)
<1>1. content[f] \in Seq(Lines)
  BY DEF IInv, TypeInv
<1> QED BY <1>1, LenProperties DEF IInv, TypeInv, Unknown

LEMMA StatStep ==
  ASSUME IInv, NEW f \in Files, StatFile(f)
  PROVE  IInv'
<1>1. TypeInv /\ OffsetInv /\ HandledInv /\ StopInv
  BY DEF IInv
<1>2. /\ pc = "scan" /\ todo' = todo \ {f}
      /\ UNCHANGED <<content, exists, truncates, seen, order, handled, stop>>
  BY DEF StatFile, fileVars
<1>3. OrderInv' /\ SuffixInv' /\ RepeatsAreFarApart'
  BY <1>2, ListsUntouched
<1>4. Len(content[f]) \in Nat
  BY FileFacts
<1>5. CASE offsets[f] = Unknown
  <2>1. /\ offsets' = [offsets EXCEPT ![f] = Len(content[f])]
        /\ start' = [start EXCEPT ![f] = Len(content[f])]
        /\ UNCHANGED <<pc, file, pos>>
    BY <1>5 DEF StatFile, FirstOffset
  <2>2. TypeInv'
    BY <1>1, <1>2, <1>4, <2>1 DEF TypeInv
  <2>3. Unknown # Len(content[f])
    BY <1>4 DEF Unknown
  <2>4. OffsetInv'
    <3> SUFFICES ASSUME NEW g \in Files PROVE OffsetInv!(g)'
      BY DEF OffsetInv
    <3>1. CASE g = f
      <4>1. offsets'[f] = Len(content[f]) /\ start'[f] = Len(content[f]) /\ pc' # "read"
        BY <1>1, <1>2, <2>1 DEF TypeInv
      <4>2. Len(content[f]) \in Len(content[f]) .. Len(content[f])
        BY <1>4
      <4> QED BY <1>2, <3>1, <4>1, <4>2
    <3>2. CASE g # f
      BY <1>1, <1>2, <2>1, <3>2 DEF OffsetInv, TypeInv
    <3> QED BY <3>1, <3>2
  <2>5. HandledInv'
    <3> SUFFICES ASSUME NEW i \in 1 .. Len(handled) PROVE HandledInv!(i)'
      BY <1>2 DEF HandledInv
    <3>1. handled[i] \in Fingerprints
      BY ListFacts, ElementOfSeq
    <3>2. handled[i][1] \in Files /\ handled[i][1] # f
      BY <1>1, <1>5, <3>1 DEF HandledInv, Fingerprints
    <3>3. /\ offsets'[handled[i][1]] = offsets[handled[i][1]]
          /\ WrittenSince(handled[i][1])' = WrittenSince(handled[i][1])
      BY <1>1, <1>2, <2>1, <3>2 DEF TypeInv, WrittenSince
    <3> QED BY <1>1, <1>2, <3>3 DEF HandledInv
  <2>6. StopInv'
    BY <1>1, <1>2, <2>1 DEF StopInv
  <2> QED BY <1>3, <2>2, <2>4, <2>5, <2>6 DEF IInv
<1>6. CASE offsets[f] # Unknown
  <2>1. /\ file' = {f} /\ pos' = StartAt(f, Len(content[f])) /\ pc' = "read"
        /\ UNCHANGED <<offsets, start>>
    BY <1>6 DEF StatFile
  <2>2. offsets[f] \in Nat
    BY <1>6, FileFacts
  <2>3. TypeInv'
    <3>1. pos' \in Nat
      BY <2>1, <2>2 DEF StartAt
    <3> QED BY <1>1, <1>2, <2>1, <3>1 DEF TypeInv
  <2>4. ASSUME truncates = 0 PROVE pos' \in start[f] .. Len(content[f])
    <3>1. offsets[f] \in start[f] .. Len(content[f])
      BY <1>1, <1>6, <2>4 DEF OffsetInv
    <3>2. ~(Len(content[f]) < offsets[f])
      BY <1>4, <2>2, <3>1, FileFacts
    <3> QED BY <2>1, <3>1, <3>2 DEF StartAt
  <2>5. OffsetInv'
    BY <1>1, <1>2, <1>6, <2>1, <2>4 DEF OffsetInv
  <2>6. HandledInv' /\ StopInv'
    BY <1>1, <1>2, <2>1 DEF HandledInv, WrittenSince, StopInv
  <2> QED BY <1>3, <2>3, <2>5, <2>6 DEF IInv
<1> QED BY <1>5, <1>6

LEMMA ReadStep ==
  ASSUME IInv, NEW f \in Files, ReadLine(f)
  PROVE  IInv'
<1>1. TypeInv /\ OffsetInv /\ HandledInv /\ StopInv
  BY DEF IInv
<1>2. /\ pc = "read" /\ f \in file
      /\ UNCHANGED <<content, exists, truncates, offsets, pc, todo, file, stop, start>>
  BY DEF ReadLine, fileVars
<1>3. PICK end \in LineEnds(f, pos) :
        /\ pos' = end
        /\ LET found == Parsed(SubSeq(content[f], pos + 1, end))
           IN  IF found = {} THEN UNCHANGED <<order, seen, handled>>
                             ELSE \E m \in found : Handle(Fingerprint(f, m))
  BY DEF ReadLine
<1> DEFINE line == SubSeq(content[f], pos + 1, end)
<1>4. end \in Nat /\ end \in pos + 1 .. Len(content[f]) /\ pos + 1 <= end
  BY FileFacts DEF LineEnds
<1>5. ASSUME UNCHANGED <<order, seen, handled>>
      PROVE  order' \in Seq(Fingerprints) /\ handled' \in Seq(Fingerprints)
             /\ OrderInv' /\ SuffixInv' /\ RepeatsAreFarApart' /\ HandledInv'
  <2>1. HandledInv'
    BY <1>1, <1>2, <1>5 DEF HandledInv, WrittenSince
  <2> QED BY <1>1, <1>5, <2>1, ListsUntouched DEF TypeInv
<1>6. ASSUME NEW m \in Parsed(line), Handle(Fingerprint(f, m))
      PROVE  order' \in Seq(Fingerprints) /\ handled' \in Seq(Fingerprints)
             /\ OrderInv' /\ SuffixInv' /\ RepeatsAreFarApart' /\ HandledInv'
  <2> DEFINE p == Fingerprint(f, m)
  <2>1. m \in Messages /\ line = << <<m, "head">>, <<m, "tail">> >>
    BY DEF Parsed
  <2>2. p \in Fingerprints /\ p[1] = f /\ p[2] = m
    BY <2>1 DEF Fingerprint, Fingerprints
  <2>3. content[f][pos + 1] = <<m, "head">>
    <3>1. \A i \in pos + 1 .. end : content[f][i] \in Lines
      BY <1>4, FileFacts, ElementOfSeq
    <3>2. line[1] = content[f][pos + 1 + 1 - 1]
      BY <1>4, <3>1, SubSeqProperties, FileFacts
    <3>3. pos + 1 + 1 - 1 = pos + 1
      BY FileFacts
    <3> HIDE DEF line
    <3>4. << <<m, "head">>, <<m, "tail">> >>[1] = <<m, "head">>
      OBVIOUS
    <3> QED BY <2>1, <3>2, <3>3, <3>4
  <2>4. truncates = 0 => m \in WrittenSince(f)
    <3> SUFFICES ASSUME truncates = 0 PROVE m \in WrittenSince(f)
      OBVIOUS
    <3>1. pos \in start[f] .. Len(content[f])
      BY <1>1, <1>2 DEF OffsetInv
    <3>2. pos + 1 \in start[f] + 1 .. Len(content[f])
      BY <1>4, <3>1, FileFacts
    <3> QED BY <2>3, <3>2 DEF WrittenSince
  <2>5. offsets[f] # Unknown
    BY <1>1, <1>2 DEF OffsetInv
  <2> HIDE DEF p
  <2>6. HandledInv'
    <3>1. CASE handled' = handled
      BY <1>1, <1>2, <3>1 DEF HandledInv, WrittenSince
    <3>2. CASE handled' = Append(handled, p)
      <4> SUFFICES ASSUME NEW i \in 1 .. Len(handled) + 1
                   PROVE  /\ offsets[handled'[i][1]] # Unknown
                          /\ truncates = 0 => handled'[i][2] \in WrittenSince(handled'[i][1])
        BY <1>2, <2>2, <3>2, HistoryGrows DEF HandledInv, WrittenSince
      <4>1. CASE i \in 1 .. Len(handled)
        BY <1>1, <2>2, <3>2, <4>1, HistoryGrows DEF HandledInv
      <4>2. CASE i = Len(handled) + 1
        BY <2>2, <2>4, <2>5, <3>2, <4>2, HistoryGrows
      <4> QED BY <4>1, <4>2, ListLengths
    <3> QED BY <1>6, <3>1, <3>2 DEF Handle, p
  <2> QED BY <1>6, <2>2, <2>6, HandleStep DEF p
<1>7. order' \in Seq(Fingerprints) /\ handled' \in Seq(Fingerprints)
      /\ OrderInv' /\ SuffixInv' /\ RepeatsAreFarApart' /\ HandledInv'
  BY <1>3, <1>5, <1>6
<1>8. TypeInv'
  BY <1>1, <1>2, <1>3, <1>4, <1>7 DEF TypeInv
<1>9. OffsetInv'
  <2> SUFFICES ASSUME NEW g \in Files PROVE OffsetInv!(g)'
    BY DEF OffsetInv
  <2>1. offsets[g] # Unknown /\ truncates = 0 /\ g \in file => pos' \in start[g] .. Len(content[g])
    <3> SUFFICES ASSUME offsets[g] # Unknown, truncates = 0, g \in file
                 PROVE  pos' \in start[g] .. Len(content[g])
      OBVIOUS
    <3>1. g = f
      BY <1>1, <1>2 DEF TypeInv
    <3>2. pos \in start[f] .. Len(content[f])
      BY <1>1, <1>2, <3>1 DEF OffsetInv
    <3> QED BY <1>3, <1>4, <3>1, <3>2, FileFacts
  <2> QED BY <1>1, <1>2, <2>1 DEF OffsetInv
<1>10. StopInv'
  BY <1>1, <1>2 DEF StopInv
<1> QED BY <1>7, <1>8, <1>9, <1>10 DEF IInv

\* The rest of the goroutine, and Stop.
LEMMA OtherStep ==
  ASSUME IInv,
         \/ Scan \/ EndScan \/ Exit \/ StopCall \/ StopReturn
         \/ \E f \in Files : EndOfFile(f) \/ ReadError(f)
         \/ UNCHANGED vars
  PROVE  IInv'
<1>1. TypeInv /\ OffsetInv /\ HandledInv /\ StopInv
  BY DEF IInv
<1>2. UNCHANGED <<content, exists, truncates, seen, order, start, handled>>
  BY DEF Scan, EndScan, Exit, StopCall, StopReturn, EndOfFile, ReadError, vars, fileVars
<1>3. OrderInv' /\ SuffixInv' /\ RepeatsAreFarApart'
  BY <1>2, ListsUntouched
<1>4. CASE Scan \/ EndScan \/ Exit \/ StopCall \/ StopReturn \/ UNCHANGED vars
  <2>1. UNCHANGED <<offsets, file, pos>> /\ (pc' = "read" => pc = "read")
    BY <1>4 DEF Scan, EndScan, Exit, StopCall, StopReturn, vars, loopVars
  <2>2. todo' \in SUBSET Files
    BY <1>1, <1>4 DEF TypeInv, Scan, EndScan, Exit, StopCall, StopReturn, vars, loopVars
  <2>3. TypeInv'
    BY <1>1, <1>2, <2>1, <2>2 DEF TypeInv
  <2>4. OffsetInv' /\ HandledInv'
    BY <1>1, <1>2, <2>1 DEF OffsetInv, HandledInv, WrittenSince
  <2>5. StopInv'
    BY <1>1, <1>4 DEF StopInv, Scan, EndScan, Exit, StopCall, StopReturn, Exited, vars, loopVars
  <2> QED BY <1>3, <2>3, <2>4, <2>5 DEF IInv
<1>5. ASSUME NEW f \in Files, EndOfFile(f) \/ ReadError(f) PROVE IInv'
  <2>1. /\ pc = "read" /\ f \in file /\ pc' = "scan" /\ file' = {} /\ pos' = 0
        /\ UNCHANGED <<todo, stop>>
    BY <1>5 DEF EndOfFile, ReadError
  <2>2. offsets' = offsets
        \/ offsets' = [offsets EXCEPT ![f] = IF Len(content[f]) > pos THEN Len(content[f]) ELSE pos]
    BY <1>5 DEF EndOfFile, ReadError
  <2> DEFINE end == IF Len(content[f]) > pos THEN Len(content[f]) ELSE pos
  <2>3. end \in Nat /\ end # Unknown
    BY FileFacts
  <2>4. truncates = 0 => end \in start[f] .. Len(content[f])
    <3> SUFFICES ASSUME truncates = 0 PROVE end \in start[f] .. Len(content[f])
      OBVIOUS
    <3>1. pos \in start[f] .. Len(content[f])
      BY <1>1, <2>1 DEF OffsetInv
    <3> QED BY <3>1, FileFacts
  <2>5. offsets' = offsets \/ offsets' = [offsets EXCEPT ![f] = end]
    BY <2>2
  <2> HIDE DEF end
  <2>6. TypeInv'
    BY <1>1, <1>2, <2>1, <2>3, <2>5 DEF TypeInv
  <2>7. OffsetInv'
    BY <1>1, <1>2, <2>1, <2>3, <2>4, <2>5 DEF OffsetInv, TypeInv
  <2>8. HandledInv'
    <3> SUFFICES ASSUME NEW i \in 1 .. Len(handled) PROVE HandledInv!(i)'
      BY <1>2 DEF HandledInv
    <3>1. handled[i] \in Fingerprints
      BY ListFacts, ElementOfSeq
    <3>2. handled[i][1] \in Files
      BY <3>1 DEF Fingerprints
    <3>3. offsets'[handled[i][1]] # Unknown
      BY <1>1, <2>3, <2>5, <3>2 DEF HandledInv, TypeInv
    <3> QED BY <1>1, <1>2, <3>3 DEF HandledInv, WrittenSince
  <2>9. StopInv'
    BY <1>1, <2>1 DEF StopInv
  <2> QED BY <1>3, <2>6, <2>7, <2>8, <2>9 DEF IInv
<1> QED BY <1>4, <1>5

LEMMA InvStep == IInv /\ [Next]_vars => IInv'
<1> SUFFICES ASSUME IInv, [Next]_vars PROVE IInv'
  OBVIOUS
<1>1. ASSUME NEW f \in Files, NEW m \in Messages, WriteLine(f, m) \/ WriteHead(f, m) PROVE IInv'
  <2>1. << <<m, "head">>, <<m, "tail">> >> \in Seq(Lines) /\ << <<m, "head">> >> \in Seq(Lines)
    <3>1. <<m, "head">> \in Lines /\ <<m, "tail">> \in Lines
      BY DEF Lines
    <3> QED BY <3>1
  <2> QED BY <1>1, <2>1, WriteStep DEF WriteLine, WriteHead
<1>2. ASSUME NEW f \in Files, WriteTail(f) PROVE IInv'
  <2>1. content[f] \in Seq(Lines) /\ content[f] # <<>> /\ Len(content[f]) \in Nat
    BY <1>2, FileFacts DEF WriteTail, Torn
  <2>2. Len(content[f]) \in 1 .. Len(content[f])
    BY <2>1, EmptySeq
  <2>3. content[f][Len(content[f])] \in Lines
    BY <2>1, <2>2, ElementOfSeq
  <2>4. << <<content[f][Len(content[f])][1], "tail">> >> \in Seq(Lines)
    <3>1. <<content[f][Len(content[f])][1], "tail">> \in Lines
      BY <2>3 DEF Lines
    <3> QED BY <3>1
  <2> QED BY <1>2, <2>4, WriteStep DEF WriteTail
<1>3. ASSUME NEW f \in Files, Process(f) PROVE IInv'
  BY <1>3, StatStep, ReadStep, OtherStep DEF Process
<1> QED BY <1>1, <1>2, <1>3, TruncateStep, OtherStep DEF Next, Agents, Run

LEMMA Invariance == Spec => []IInv
  BY InvInit, InvStep, PTL DEF Spec

-----------------------------------------------------------------------------
\* The map and the list of remembered fingerprints always agree, and the memory of the
\* poller is bounded by MaxSeen, whatever is read.
THEOREM WindowBounded == Spec => []WindowConsistent
<1>1. IInv => WindowConsistent
  <2> SUFFICES ASSUME IInv PROVE WindowConsistent
    OBVIOUS
  <2>1. Cardinality(Range(order)) = Len(order)
    BY ListFacts, DistinctCount
  <2> QED BY <2>1, ListFacts, ListLengths DEF WindowConsistent
<1> QED BY <1>1, Invariance, PTL

\* A message is handed on a second time only after a window's newer half of others.
THEOREM RepeatsRare == Spec => []RepeatsAreFarApart
<1>1. IInv => RepeatsAreFarApart
  BY DEF IInv
<1> QED BY <1>1, Invariance, PTL

\* As long as no file shrinks, what a file held when it was first seen is never handed on.
THEOREM HistorySkipped == Spec => []NoHistory
<1>1. IInv => NoHistory
  <2> SUFFICES ASSUME IInv, truncates = 0, NEW p \in Range(handled)
               PROVE  p[2] \in WrittenSince(p[1])
    BY DEF NoHistory
  <2>1. PICK i \in 1 .. Len(handled) : p = handled[i]
    BY ListFacts DEF Range
  <2> QED BY <2>1 DEF IInv, HandledInv
<1> QED BY <1>1, Invariance, PTL

\* Once Stop has returned, the goroutine hands nothing on any more.
THEOREM StoppedIsQuiet == Spec => QuietAfterStop
<1>1. IInv /\ [Next]_vars => [stop = "done" => UNCHANGED handled]_vars
  <2> SUFFICES ASSUME IInv, Next, stop = "done" PROVE handled' = handled
    BY DEF vars
  <2>1. pc = "exited"
    BY DEF IInv, StopInv
  <2> QED BY <2>1 DEF Next, Agents, Write, WriteLine, WriteHead, WriteTail, Truncate, Run, Process,
                      Scan, StatFile, ReadLine, EndOfFile, ReadError, EndScan, Exit, StopCall, StopReturn
<1> QED BY <1>1, Invariance, PTL DEF Spec, QuietAfterStop
=============================================================================
