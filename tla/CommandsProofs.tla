---------------------------- MODULE CommandsProofs ----------------------------
(***************************************************************************)
(* What holds of the detector, the context analyzer and the command line for   *)
(* every transcript, every threshold and window, and every list of arguments.  *)
(***************************************************************************)
EXTENDS Commands, SequenceTheorems, FiniteSetTheorems, WellFoundedInduction, TLAPS

-----------------------------------------------------------------------------
(* Induction over the natural numbers, for the folds and the concatenations *)

\* A set of numbers with 0 and all successors is all of them.
LEMMA Induction ==
  ASSUME NEW T \in SUBSET Nat, 0 \in T, \A n \in T : n + 1 \in T
  PROVE  T = Nat
<1> SUFFICES ASSUME Nat \ T # {} PROVE FALSE
  OBVIOUS
<1>1. PICK n \in Nat \ T : \A m \in Nat \ T : ~(<<m, n>> \in OpToRel(<, Nat))
  BY NatLessThanWellFounded, WFMin
<1>2. \A m \in Nat \ T : ~(m < n)
  BY <1>1 DEF OpToRel
<1>3. n # 0 /\ n - 1 \in Nat
  OBVIOUS
<1>4. n - 1 \in T
  BY <1>2, <1>3
<1>5. (n - 1) + 1 \in T
  BY <1>4
<1> QED BY <1>5

-----------------------------------------------------------------------------
(* What FlattenSeq does with one more sequence *)

\* f holds the concatenations of the first sequences, as FlattenSeq computes them.
Concat(seqs, n, f) ==
  f = [i \in 1 .. n |-> IF i = 1 THEN seqs[i] ELSE f[i - 1] \o seqs[i]]

\* There is such a function.
LEMMA ConcatExists ==
  ASSUME NEW seqs, NEW n \in Nat
  PROVE  \E f : Concat(seqs, n, f)
<1> DEFINE T == {k \in Nat : \E f : Concat(seqs, k, f)}
<1>1. 0 \in T
  <2> DEFINE e == [i \in 1 .. 0 |-> IF i = 1 THEN seqs[i] ELSE seqs[i]]
  <2>1. Concat(seqs, 0, e)
    BY DEF Concat
  <2> QED BY <2>1
<1>2. ASSUME NEW k \in T PROVE k + 1 \in T
  <2>1. PICK f : Concat(seqs, k, f)
    OBVIOUS
  <2> DEFINE g == [i \in 1 .. k + 1 |->
                     IF i \in 1 .. k THEN f[i] ELSE IF i = 1 THEN seqs[i] ELSE f[i - 1] \o seqs[i]]
  <2>2. \A i \in 1 .. k + 1 : g[i] = IF i = 1 THEN seqs[i] ELSE g[i - 1] \o seqs[i]
    <3> SUFFICES ASSUME NEW i \in 1 .. k + 1
                 PROVE  g[i] = IF i = 1 THEN seqs[i] ELSE g[i - 1] \o seqs[i]
      OBVIOUS
    <3>1. i # 1 => i - 1 \in 1 .. k /\ g[i - 1] = f[i - 1]
      OBVIOUS
    <3>2. i \in 1 .. k => f[i] = IF i = 1 THEN seqs[i] ELSE f[i - 1] \o seqs[i]
      BY <2>1 DEF Concat
    <3> QED BY <3>1, <3>2
  <2>3. Concat(seqs, k + 1, g)
    <3> HIDE DEF g
    <3>1. g = [i \in 1 .. k + 1 |-> g[i]]
      BY DEF g
    <3> QED BY <2>2, <3>1 DEF Concat
  <2> QED BY <2>3
<1>3. T = Nat
  <2> HIDE DEF T
  <2>1. T \in SUBSET Nat
    BY DEF T
  <2> QED BY <1>1, <1>2, <2>1, Induction
<1> QED BY <1>3

\* Two functions agree up to k.
Agree(f, g, k) == \A i \in 1 .. k : f[i] = g[i]

\* Equal sequences have equal concatenations.
LEMMA ConcatAgree ==
  ASSUME NEW s, NEW t, NEW m \in Nat, NEW n \in Nat, NEW f, NEW g, NEW k \in Nat,
         Concat(s, m, f), Concat(t, n, g), k <= m, k <= n, Agree(s, t, k)
  PROVE  Agree(f, g, k)
<1> DEFINE T == {i \in Nat : i \in 1 .. k => f[i] = g[i]}
<1>1. 0 \in T
  OBVIOUS
<1>2. ASSUME NEW j \in T PROVE j + 1 \in T
  <2> SUFFICES ASSUME j + 1 \in 1 .. k PROVE f[j + 1] = g[j + 1]
    OBVIOUS
  <2> DEFINE i == j + 1
  <2>1. i \in 1 .. k /\ i \in 1 .. m /\ i \in 1 .. n /\ i - 1 = j
    OBVIOUS
  <2>2. f[i] = IF i = 1 THEN s[i] ELSE f[i - 1] \o s[i]
    <3> HIDE DEF i
    <3> QED BY <2>1 DEF Concat
  <2>3. g[i] = IF i = 1 THEN t[i] ELSE g[i - 1] \o t[i]
    <3> HIDE DEF i
    <3> QED BY <2>1 DEF Concat
  <2>4. i # 1 => f[i - 1] = g[i - 1]
    BY <2>1
  <2>5. s[i] = t[i]
    BY <2>1 DEF Agree
  <2> HIDE DEF i
  <2>6. f[i] = g[i]
    BY <2>2, <2>3, <2>4, <2>5
  <2> QED BY <2>6 DEF i
<1>3. T = Nat
  <2> HIDE DEF T
  <2>1. T \in SUBSET Nat
    BY DEF T
  <2> QED BY <1>1, <1>2, <2>1, Induction
<1> QED BY <1>3 DEF Agree

\* Concatenations of sequences are sequences.
LEMMA ConcatType ==
  ASSUME NEW X, NEW seqs \in Seq(Seq(X)), NEW n \in 0 .. Len(seqs), NEW f, Concat(seqs, n, f)
  PROVE  \A i \in 1 .. n : f[i] \in Seq(X)
<1> DEFINE T == {i \in Nat : i \in 1 .. n => f[i] \in Seq(X)}
<1>1. 0 \in T
  OBVIOUS
<1>2. ASSUME NEW j \in T PROVE j + 1 \in T
  <2> SUFFICES ASSUME j + 1 \in 1 .. n PROVE f[j + 1] \in Seq(X)
    OBVIOUS
  <2>1. seqs[j + 1] \in Seq(X)
    BY ElementOfSeq
  <2>2. f[j + 1] = IF j + 1 = 1 THEN seqs[j + 1] ELSE f[j] \o seqs[j + 1]
    <3> DEFINE i == j + 1
    <3>1. i \in 1 .. n /\ i - 1 = j
      OBVIOUS
    <3> HIDE DEF i
    <3>2. f[i] = IF i = 1 THEN seqs[i] ELSE f[i - 1] \o seqs[i]
      BY <3>1 DEF Concat
    <3>3. f[i] = IF i = 1 THEN seqs[i] ELSE f[j] \o seqs[i]
      BY <3>1, <3>2
    <3> QED BY <3>3 DEF i
  <2>3. j # 0 => f[j] \in Seq(X)
    OBVIOUS
  <2> QED BY <2>1, <2>2, <2>3, ConcatProperties
<1>3. T = Nat
  <2> HIDE DEF T
  <2>1. T \in SUBSET Nat
    BY DEF T
  <2> QED BY <1>1, <1>2, <2>1, Induction
<1> QED BY <1>3

\* FlattenSeq is the last of the concatenations.
LEMMA FlattenIsConcat ==
  ASSUME NEW seqs, Len(seqs) \in Nat \ {0}
  PROVE  \E f : Concat(seqs, Len(seqs), f) /\ FlattenSeq(seqs) = f[Len(seqs)]
<1>1. \E f : Concat(seqs, Len(seqs), f)
  BY ConcatExists
<1>2. FlattenSeq(seqs) = (CHOOSE f : Concat(seqs, Len(seqs), f))[Len(seqs)]
  BY DEF FlattenSeq, Concat
<1> QED BY <1>1, <1>2

\* What was flattened stays where it is when a sequence is appended.
LEMMA FlattenAppend ==
  ASSUME NEW X, NEW s \in Seq(Seq(X)), NEW t \in Seq(X)
  PROVE  /\ FlattenSeq(s) \in Seq(X)
         /\ FlattenSeq(Append(s, t)) = FlattenSeq(s) \o t
<1> DEFINE u == Append(s, t)
<1>1. /\ u \in Seq(Seq(X)) /\ Len(u) = Len(s) + 1 /\ Len(s) \in Nat
      /\ \A i \in 1 .. Len(s) : u[i] = s[i]
      /\ u[Len(s) + 1] = t
  BY AppendProperties, LenProperties
<1> HIDE DEF u
<1>2. PICK g : Concat(u, Len(u), g) /\ FlattenSeq(u) = g[Len(u)]
  BY <1>1, FlattenIsConcat
<1>3. CASE Len(s) = 0
  <2>1. s = <<>>
    BY <1>3, EmptySeq
  <2>2. FlattenSeq(s) = <<>>
    BY <1>3, <2>1 DEF FlattenSeq
  <2>3. g[1] = t
    BY <1>1, <1>2, <1>3 DEF Concat
  <2> QED BY <1>1, <1>2, <1>3, <2>2, <2>3, ConcatEmptySeq, EmptySeq DEF u
<1>4. CASE Len(s) # 0
  <2>1. PICK f : Concat(s, Len(s), f) /\ FlattenSeq(s) = f[Len(s)]
    BY <1>1, <1>4, FlattenIsConcat
  <2>2. FlattenSeq(s) \in Seq(X)
    <3>1. Len(s) \in 0 .. Len(s) /\ Len(s) \in 1 .. Len(s)
      BY <1>1, <1>4
    <3>2. \A i \in 1 .. Len(s) : f[i] \in Seq(X)
      BY <2>1, <3>1, ConcatType
    <3> QED BY <2>1, <3>1, <3>2
  <2>3. g[Len(s)] = f[Len(s)]
    <3> DEFINE k == Len(s)
               n == Len(u)
    <3>1. k \in Nat /\ n \in Nat /\ k <= k /\ k <= n /\ k \in 1 .. k
      BY <1>1, <1>4
    <3>2. Concat(s, k, f) /\ Concat(u, n, g) /\ Agree(s, u, k)
      BY <1>1, <1>2, <2>1 DEF Agree
    <3> HIDE DEF k, n
    <3>3. Agree(f, g, k)
      BY <3>1, <3>2, ConcatAgree
    <3>4. f[k] = g[k]
      BY <3>1, <3>3 DEF Agree
    <3> QED BY <3>4 DEF k
  <2>4. g[Len(s) + 1] = g[Len(s)] \o t
    <3> DEFINE n == Len(s) + 1
    <3>1. n \in 1 .. Len(u) /\ n # 1 /\ n - 1 = Len(s) /\ u[n] = t
      BY <1>1, <1>4
    <3> HIDE DEF n
    <3>2. g[n] = g[n - 1] \o u[n]
      BY <1>2, <3>1 DEF Concat
    <3>3. g[n] = g[Len(s)] \o t
      BY <3>1, <3>2
    <3> QED BY <3>3 DEF n
  <2> QED BY <1>1, <1>2, <2>1, <2>2, <2>3, <2>4 DEF u
<1> QED BY <1>3, <1>4

-----------------------------------------------------------------------------
(* Sequences *)

\* One more sequence at the end of those that are flattened.
LEMMA FlattenMore ==
  ASSUME NEW X, NEW n \in Nat, NEW f \in [1 .. n -> Seq(X)], NEW g \in [1 .. n + 1 -> Seq(X)],
         Agree(g, f, n)
  PROVE  /\ FlattenSeq(f) \in Seq(X) /\ FlattenSeq(g) \in Seq(X)
         /\ FlattenSeq(g) = FlattenSeq(f) \o g[n + 1]
<1>1. f \in Seq(Seq(X)) /\ Len(f) = n
  BY IsASeq
<1>2. g \in Seq(Seq(X)) /\ Len(g) = n + 1
  BY IsASeq
<1>3. g[n + 1] \in Seq(X)
  OBVIOUS
<1>4. g = Append(f, g[n + 1])
  <2> DEFINE a == Append(f, g[n + 1])
  <2>1. /\ a \in Seq(Seq(X)) /\ Len(a) = n + 1
        /\ \A i \in 1 .. n : a[i] = f[i]
        /\ a[n + 1] = g[n + 1]
    BY <1>1, <1>3, AppendProperties
  <2> HIDE DEF a
  <2>2. \A i \in 1 .. n + 1 : i \in 1 .. n \/ i = n + 1
    OBVIOUS
  <2>3. \A i \in 1 .. n + 1 : g[i] = a[i]
    BY <2>1, <2>2 DEF Agree
  <2>4. g = a
    BY <1>2, <2>1, <2>3, SeqEqual
  <2> QED BY <2>4 DEF a
<1> QED BY <1>1, <1>2, <1>3, <1>4, FlattenAppend

\* Without a sequence there is nothing to flatten.
LEMMA FlattenNothing ==
  ASSUME NEW f, f = <<>> PROVE FlattenSeq(f) = <<>>
BY DEF FlattenSeq

\* The elements of what is flattened.
LEMMA FlattenElements ==
  ASSUME NEW X, NEW n \in Nat, NEW f \in [1 .. n -> Seq(X)]
  PROVE  /\ FlattenSeq(f) \in Seq(X)
         /\ \A y : y \in ToSet(FlattenSeq(f)) <=> \E i \in 1 .. n : y \in ToSet(f[i])
<1> DEFINE Part(k) == [i \in 1 .. k |-> f[i]]
           P(k) == /\ FlattenSeq(Part(k)) \in Seq(X)
                   /\ \A y : y \in ToSet(FlattenSeq(Part(k))) <=> \E i \in 1 .. k : y \in ToSet(f[i])
           T == {k \in Nat : k \in 0 .. n => P(k)}
<1>1. 0 \in T
  <2>1. Part(0) = <<>>
    OBVIOUS
  <2> HIDE DEF Part
  <2>2. FlattenSeq(Part(0)) = <<>>
    BY <2>1, FlattenNothing
  <2>3. ToSet(<<>>) = {} /\ 1 .. 0 = {}
    BY DEF ToSet
  <2>4. P(0)
    BY <2>2, <2>3, EmptySeq
  <2> HIDE DEF P
  <2> QED BY <2>4
<1>2. ASSUME NEW k \in T PROVE k + 1 \in T
  <2> HIDE DEF P
  <2> SUFFICES ASSUME k + 1 \in 0 .. n PROVE P(k + 1)
    OBVIOUS
  <2>0. k \in Nat /\ k + 1 \in 1 .. n /\ k \in 0 .. n
    OBVIOUS
  <2>1. P(k)
    BY <2>0
  <2> DEFINE g == Part(k)
             h == Part(k + 1)
  <2>2. g \in [1 .. k -> Seq(X)] /\ h \in [1 .. k + 1 -> Seq(X)]
    BY <2>0
  <2>3. Agree(h, g, k) /\ h[k + 1] = f[k + 1] /\ f[k + 1] \in Seq(X)
    <3> HIDE DEF T, P
    <3>1. k + 1 \in 1 .. k + 1 /\ \A i \in 1 .. k : i \in 1 .. k + 1
      BY <2>0
    <3> QED BY <2>0, <3>1 DEF Agree
  <2> HIDE DEF g, h, T, P, Part
  <2>4. /\ FlattenSeq(g) \in Seq(X) /\ FlattenSeq(h) \in Seq(X)
        /\ FlattenSeq(h) = FlattenSeq(g) \o f[k + 1]
    BY <2>0, <2>2, <2>3, FlattenMore
  <2>5. ToSet(FlattenSeq(h)) = ToSet(FlattenSeq(g)) \cup ToSet(f[k + 1])
    <3>1. Range(FlattenSeq(g) \o f[k + 1]) = Range(FlattenSeq(g)) \cup Range(f[k + 1])
      BY <2>3, <2>4, RangeConcatenation
    <3> QED BY <2>4, <3>1 DEF ToSet, Range
  <2>6. \A i : i \in 1 .. k + 1 <=> i \in 1 .. k \/ i = k + 1
    BY <2>0
  <2> QED BY <2>1, <2>4, <2>5, <2>6 DEF P, g, h
<1>3. T = Nat
  <2> HIDE DEF T
  <2>1. T \in SUBSET Nat
    BY DEF T
  <2> QED BY <1>1, <1>2, <2>1, Induction
<1>4. P(n)
  <2>1. n \in 0 .. n
    OBVIOUS
  <2> HIDE DEF P
  <2> QED BY <1>3, <2>1
<1>5. Part(n) = f
  OBVIOUS
<1> HIDE DEF Part
<1> QED BY <1>4, <1>5

\* The first of some numbers.
LEMMA EarliestExists ==
  ASSUME NEW S \in SUBSET Nat, NEW n \in S
  PROVE  \E i \in S : Earliest(S) = {i} /\ \A j \in S : i <= j
<1>1. PICK i \in S : \A j \in S : ~(<<j, i>> \in OpToRel(<, Nat))
  BY NatLessThanWellFounded, WFMin
<1>2. \A j \in S : i <= j
  <2>1. \A j \in S : ~(j < i)
    BY <1>1 DEF OpToRel
  <2> QED BY <2>1
<1>3. \A j \in S : (\A k \in S : j <= k) => j = i
  BY <1>2
<1> QED BY <1>2, <1>3 DEF Earliest

\* Every sequence of n + 1 elements is one of n with one more.
LEMMA SequenceEnds ==
  ASSUME NEW X, NEW n \in Nat, NEW s \in Seq(X), Len(s) = n + 1
  PROVE  \E t \in Seq(X), x \in X : s = Append(t, x) /\ Len(t) = n
<1>1. s # <<>>
  BY EmptySeq
<1>2. PICK t \in Seq(X), x \in X : s = Append(t, x)
  BY <1>1, SequenceEmptyOrAppend
<1>3. Len(s) = Len(t) + 1 /\ Len(t) \in Nat
  BY <1>2, AppendProperties, LenProperties
<1> QED BY <1>2, <1>3

-----------------------------------------------------------------------------
(* The elements of a sequence at some places *)

\* What place n adds, if it is wanted.
Alone(x, N, n) == IF n \in N THEN <<x>> ELSE <<>>

LEMMA AloneType ==
  ASSUME NEW X, NEW x \in X, NEW N, NEW n
  PROVE  Alone(x, N, n) \in Seq(X)
BY EmptySeq, IsASeq DEF Alone

LEMMA AtNothing ==
  ASSUME NEW N PROVE At(<<>>, N) = <<>>
<1> DEFINE f == [n \in DOMAIN <<>> |-> IF n \in N THEN <<(<<>>)[n]>> ELSE <<>>]
<1>1. f = <<>>
  OBVIOUS
<1> HIDE DEF f
<1>2. FlattenSeq(f) = <<>>
  BY <1>1, FlattenNothing
<1> QED BY <1>2 DEF f, At

\* One more element.
LEMMA AtAppend ==
  ASSUME NEW X, NEW s \in Seq(X), NEW x \in X, NEW N
  PROVE  /\ At(s, N) \in Seq(X) /\ At(Append(s, x), N) \in Seq(X)
         /\ At(Append(s, x), N) = At(s, N) \o Alone(x, N, Len(s) + 1)
<1> DEFINE u == Append(s, x)
           n == Len(s)
           f == [i \in DOMAIN s |-> IF i \in N THEN <<s[i]>> ELSE <<>>]
           g == [i \in DOMAIN u |-> IF i \in N THEN <<u[i]>> ELSE <<>>]
<1>1. /\ n \in Nat /\ DOMAIN s = 1 .. n /\ DOMAIN u = 1 .. n + 1
      /\ \A i \in 1 .. n : u[i] = s[i] /\ s[i] \in X
      /\ u[n + 1] = x
  BY AppendProperties, LenProperties, ElementOfSeq
<1>2. \A i \in 1 .. n + 1 : u[i] \in X
  <2>1. \A i \in 1 .. n + 1 : i \in 1 .. n \/ i = n + 1
    BY <1>1
  <2> QED BY <1>1, <2>1
<1> HIDE DEF u, n
<1>3. \A y \in X : <<y>> \in Seq(X)
  BY IsASeq
<1>4. <<>> \in Seq(X)
  BY EmptySeq
<1>5. f \in [1 .. n -> Seq(X)] /\ g \in [1 .. n + 1 -> Seq(X)]
  BY <1>1, <1>2, <1>3, <1>4
<1>6. n + 1 \in 1 .. n + 1 /\ \A i \in 1 .. n : i \in 1 .. n + 1
  BY <1>1
<1>7. Agree(g, f, n) /\ g[n + 1] = Alone(x, N, n + 1)
  BY <1>1, <1>6 DEF Alone, Agree
<1>8. At(s, N) = FlattenSeq(f) /\ At(u, N) = FlattenSeq(g)
  BY DEF At
<1> HIDE DEF f, g
<1>9. /\ FlattenSeq(f) \in Seq(X) /\ FlattenSeq(g) \in Seq(X)
      /\ FlattenSeq(g) = FlattenSeq(f) \o g[n + 1]
  BY <1>1, <1>5, <1>7, FlattenMore
<1> QED BY <1>7, <1>8, <1>9 DEF u, n

\* They are elements of the sequence, and no more than there are places; the first places,
\* if all are wanted, come first.
LEMMA AtFacts ==
  ASSUME NEW X, NEW s \in Seq(X), NEW N
  PROVE  /\ At(s, N) \in Seq(X) /\ Len(At(s, N)) <= Len(s)
         /\ \A y : y \in ToSet(At(s, N)) <=> \E i \in 1 .. Len(s) : i \in N /\ y = s[i]
         /\ \A k \in 0 .. Len(s) : 1 .. k \subseteq N =>
              Len(At(s, N)) >= k /\ \A i \in 1 .. k : At(s, N)[i] = s[i]
<1> DEFINE P(t) == /\ At(t, N) \in Seq(X) /\ Len(At(t, N)) <= Len(t)
                   /\ \A y : y \in ToSet(At(t, N)) <=> \E i \in 1 .. Len(t) : i \in N /\ y = t[i]
                   /\ \A k \in 0 .. Len(t) : 1 .. k \subseteq N =>
                        Len(At(t, N)) >= k /\ \A i \in 1 .. k : At(t, N)[i] = t[i]
           T == {n \in Nat : \A t \in Seq(X) : Len(t) = n => P(t)}
<1>1. 0 \in T
  <2> SUFFICES ASSUME NEW t \in Seq(X), Len(t) = 0 PROVE P(t)
    OBVIOUS
  <2>1. t = <<>>
    BY EmptySeq
  <2>2. At(t, N) = <<>> /\ Len(At(t, N)) = 0 /\ At(t, N) \in Seq(X)
    BY <2>1, AtNothing, EmptySeq
  <2>3. ToSet(At(t, N)) = {}
    BY <2>2 DEF ToSet
  <2>4. 1 .. Len(t) = {} /\ \A k \in 0 .. Len(t) : k = 0 /\ 1 .. k = {}
    OBVIOUS
  <2> QED BY <2>2, <2>3, <2>4
<1>2. ASSUME NEW n \in T PROVE n + 1 \in T
  <2> SUFFICES ASSUME NEW t \in Seq(X), Len(t) = n + 1 PROVE P(t)
    OBVIOUS
  <2>1. PICK v \in Seq(X), x \in X : t = Append(v, x) /\ Len(v) = n
    BY SequenceEnds
  <2>2. P(v)
    BY <2>1
  <2> DEFINE a == At(v, N)
             b == At(t, N)
             e == Alone(x, N, n + 1)
  <2>3. a \in Seq(X) /\ b \in Seq(X) /\ e \in Seq(X) /\ b = a \o e
    <3> HIDE DEF P, T
    <3>1. e \in Seq(X)
      BY AloneType
    <3>2. /\ a \in Seq(X) /\ At(Append(v, x), N) \in Seq(X)
          /\ At(Append(v, x), N) = a \o Alone(x, N, Len(v) + 1)
      BY AtAppend
    <3> QED BY <2>1, <3>1, <3>2
  <2>4. /\ Len(e) \in {0, 1}
        /\ n + 1 \in N => Len(e) = 1 /\ e[1] = x
        /\ n + 1 \notin N => Len(e) = 0
    BY DEF Alone
  <2>5. (\A i \in 1 .. n : t[i] = v[i]) /\ t[n + 1] = x
    BY <2>1, AppendProperties
  <2>0. n \in Nat /\ Len(t) = n + 1
    OBVIOUS
  <2> HIDE DEF e, b, P, T
  <2> USE <2>0
  <2>6. /\ Len(a) \in Nat /\ Len(b) = Len(a) + Len(e) /\ Len(a) <= n
        /\ \A i \in 1 .. Len(a) + Len(e) : b[i] = IF i <= Len(a) THEN a[i] ELSE e[i - Len(a)]
    BY <2>1, <2>2, <2>3, ConcatProperties, LenProperties DEF P
  <2>7. \A y : y \in ToSet(b) <=> \E i \in 1 .. Len(t) : i \in N /\ y = t[i]
    <3>1. ToSet(b) = Range(b) /\ ToSet(a) = Range(a) /\ ToSet(e) = Range(e)
      BY DEF ToSet, Range
    <3>2. ToSet(b) = ToSet(a) \cup ToSet(e)
      BY <2>3, <3>1, RangeConcatenation
    <3>3. \A y : y \in ToSet(e) <=> n + 1 \in N /\ y = x
      BY DEF e, Alone, ToSet
    <3>4. \A y : y \in ToSet(a) <=> \E i \in 1 .. n : i \in N /\ y = v[i]
      BY <2>1, <2>2 DEF P
    <3>5. \A i : i \in 1 .. n + 1 <=> i \in 1 .. n \/ i = n + 1
      OBVIOUS
    <3> HIDE DEF a
    <3> QED BY <2>5, <3>2, <3>3, <3>4, <3>5
  <2>8. ASSUME NEW k \in 0 .. Len(t), 1 .. k \subseteq N
        PROVE  Len(b) >= k /\ \A i \in 1 .. k : b[i] = t[i]
    <3>1. CASE k <= n
      <4>1. k \in 0 .. n
        BY <3>1
      <4>2. Len(a) >= k /\ \A i \in 1 .. k : a[i] = v[i]
        BY <2>1, <2>2, <2>8, <4>1 DEF P
      <4>3. \A i \in 1 .. k : i \in 1 .. Len(a) /\ i \in 1 .. n /\ i \in 1 .. Len(a) + Len(e)
        BY <2>4, <2>6, <3>1, <4>2
      <4> HIDE DEF a
      <4>4. \A i \in 1 .. k : b[i] = a[i]
        BY <2>6, <4>3
      <4>5. \A i \in 1 .. k : t[i] = v[i]
        BY <2>5, <4>3
      <4> QED BY <2>4, <2>6, <4>2, <4>4, <4>5
    <3>2. CASE k = n + 1
      <4>1. n \in 0 .. n /\ 1 .. n \subseteq N /\ n + 1 \in N
        BY <2>8, <3>2
      <4>2. Len(a) >= n /\ \A i \in 1 .. n : a[i] = v[i]
        BY <2>1, <2>2, <4>1 DEF P
      <4> HIDE DEF a
      <4>3. Len(a) = n /\ Len(e) = 1 /\ e[1] = x /\ Len(b) = n + 1
        <5>1. Len(e) = 1 /\ e[1] = x
          BY <2>4, <4>1
        <5>2. Len(a) = n
          BY <2>6, <4>2
        <5> QED BY <2>6, <5>1, <5>2
      <4>4. \A i \in 1 .. n : b[i] = a[i]
        BY <2>6, <4>3
      <4>5. b[n + 1] = x
        BY <2>6, <4>3
      <4>6. \A i \in 1 .. k : i \in 1 .. n \/ i = n + 1
        BY <3>2
      <4> QED BY <2>5, <3>2, <4>2, <4>3, <4>4, <4>5, <4>6
    <3> QED BY <3>1, <3>2
  <2>9. Len(b) <= Len(t) /\ b \in Seq(X)
    <3> HIDE DEF a
    <3>1. Len(e) = 0 \/ Len(e) = 1
      BY <2>4
    <3>2. Len(a) \in Nat /\ Len(b) = Len(a) + Len(e) /\ Len(a) <= n
      BY <2>6
    <3>3. \A p \in Nat, q \in {0, 1} : p <= n => p + q <= n + 1
      BY ONLY <2>0
    <3>4. Len(b) <= n + 1
      BY <3>1, <3>2, <3>3
    <3> QED BY <2>3, <3>4
  <2> QED BY <2>7, <2>8, <2>9 DEF P, b
<1>3. T = Nat
  <2> HIDE DEF T
  <2>1. T \in SUBSET Nat
    BY DEF T
  <2> QED BY <1>1, <1>2, <2>1, Induction
<1>4. P(s)
  BY <1>3, LenProperties
<1> QED BY <1>4

\* Places beyond the end do not matter.
LEMMA AtSame ==
  ASSUME NEW X, NEW s \in Seq(X), NEW N, NEW M, \A i \in 1 .. Len(s) : i \in N <=> i \in M
  PROVE  At(s, N) = At(s, M)
<1>1. DOMAIN s = 1 .. Len(s)
  BY LenProperties
<1>2. [n \in DOMAIN s |-> IF n \in N THEN <<s[n]>> ELSE <<>>]
        = [n \in DOMAIN s |-> IF n \in M THEN <<s[n]>> ELSE <<>>]
  BY <1>1
<1> QED BY <1>2 DEF At

Associates(p, q, r) == (p \o q) \o r = p \o (q \o r)

\* Which way sequences are put together does not matter.
LEMMA Associative ==
  ASSUME NEW X, NEW p \in Seq(X), NEW q \in Seq(X), NEW r \in Seq(X)
  PROVE  Associates(p, q, r)
BY ConcatAssociative, SMTT(30) DEF Associates

\* The places L in two sequences one after the other are N in the first and M in the second.
Split(L, a, N, b, M) ==
  /\ \A i \in 1 .. Len(a) : i \in L <=> i \in N
  /\ \A i \in 1 .. Len(b) : Len(a) + i \in L <=> i \in M

\* The wanted ones of two sequences one after the other.
LEMMA AtConcat ==
  ASSUME NEW X, NEW a \in Seq(X), NEW b \in Seq(X), NEW L, NEW N, NEW M, Split(L, a, N, b, M)
  PROVE  At(a \o b, L) = At(a, N) \o At(b, M)
<1> DEFINE Shifted(t) == \A i \in 1 .. Len(t) : Len(a) + i \in L <=> i \in M
           P(t) == At(a \o t, L) = At(a, L) \o At(t, M)
           T == {n \in Nat : \A t \in Seq(X) : Len(t) = n /\ Shifted(t) => P(t)}
<1>1. 0 \in T
  <2> SUFFICES ASSUME NEW t \in Seq(X), Len(t) = 0 PROVE P(t)
    OBVIOUS
  <2>1. t = <<>>
    BY EmptySeq
  <2>2. At(t, M) = <<>> /\ a \o t = a
    BY <2>1, AtNothing, ConcatEmptySeq
  <2>3. At(a, L) \in Seq(X)
    BY AtFacts
  <2> QED BY <2>2, <2>3, ConcatEmptySeq
<1>2. ASSUME NEW n \in T PROVE n + 1 \in T
  <2> SUFFICES ASSUME NEW t \in Seq(X), Len(t) = n + 1, Shifted(t) PROVE P(t)
    OBVIOUS
  <2>0. n \in Nat /\ Len(a) \in Nat
    BY LenProperties
  <2>1. PICK v \in Seq(X), x \in X : t = Append(v, x) /\ Len(v) = n
    BY SequenceEnds
  <2>2. P(v)
    <3>1. \A i \in 1 .. n : i \in 1 .. n + 1
      BY <2>0
    <3>2. Shifted(v)
      BY <2>1, <3>1
    <3> QED BY <2>1, <3>2
  <2> DEFINE y == Alone(x, M, n + 1)
  <2>3. At(t, M) = At(v, M) \o y
    <3> HIDE DEF P, T
    <3>1. At(Append(v, x), M) = At(v, M) \o Alone(x, M, Len(v) + 1)
      BY AtAppend
    <3> QED BY <2>1, <3>1
  <2>4. <<x>> \in Seq(X) /\ y \in Seq(X)
    BY AloneType, IsASeq
  <2>5. a \o t = Append(a \o v, x)
    <3>1. t = v \o <<x>>
      BY <2>1, AppendIsConcat
    <3>2. a \o v \in Seq(X)
      BY ConcatProperties
    <3>3. Append(a \o v, x) = (a \o v) \o <<x>>
      BY <3>2, AppendIsConcat
    <3> QED BY <2>4, <3>1, <3>3, ConcatAssociative
  <2>6. At(a \o t, L) = At(a \o v, L) \o y
    <3>1. a \o v \in Seq(X) /\ Len(a \o v) = Len(a) + n
      BY <2>1, ConcatProperties
    <3>2. At(a \o t, L) = At(a \o v, L) \o Alone(x, L, Len(a) + n + 1)
      <4> DEFINE w == a \o v
      <4> HIDE DEF w, P, T
      <4>1. w \in Seq(X) /\ Len(w) = Len(a) + n
        BY <3>1 DEF w
      <4>2. At(Append(w, x), L) = At(w, L) \o Alone(x, L, Len(w) + 1)
        BY <4>1, AtAppend
      <4> QED BY <2>5, <4>1, <4>2 DEF w
    <3>3. n + 1 \in 1 .. Len(t) /\ Len(a) + n + 1 = Len(a) + (n + 1)
      BY <2>0
    <3>4. Len(a) + n + 1 \in L <=> n + 1 \in M
      BY <3>3
    <3> QED BY <3>2, <3>4 DEF Alone
  <2>7. At(a, L) \in Seq(X) /\ At(v, M) \in Seq(X)
    BY AtFacts
  <2>8. Associates(At(a, L), At(v, M), y)
    BY <2>4, <2>7, Associative
  <2> HIDE DEF y
  <2> QED BY <2>2, <2>3, <2>6, <2>8 DEF Associates
<1>3. T = Nat
  <2> HIDE DEF T
  <2>1. T \in SUBSET Nat
    BY DEF T
  <2> QED BY <1>1, <1>2, <2>1, Induction
<1>4. P(b)
  <2>1. Len(b) \in T
    BY <1>3, LenProperties
  <2> QED BY <2>1 DEF Split
<1>5. At(a, L) = At(a, N)
  BY AtSame DEF Split
<1> QED BY <1>4, <1>5

-----------------------------------------------------------------------------
(* The context analyzer *)

\* All that the texts of a transcript may be.
AllTexts == UNION {ToSet(line.texts) : line \in Lines}

LEMMA TextsType ==
  ASSUME NEW line \in Lines
  PROVE  AssistantTexts(line) \in Seq(AllTexts) /\ SpokenTexts(line) \in Seq(AllTexts)
<1>1. line.texts \in Seq(ToSet(line.texts)) /\ ToSet(line.texts) \subseteq AllTexts
  BY CommandsAssumption DEF AllTexts
<1>2. line.texts \in Seq(AllTexts)
  BY <1>1, SeqMonotonic
<1> QED BY <1>2, EmptySeq DEF AssistantTexts, SpokenTexts

\* The messages that the poller may hand on.
MessageSet == [line : Nat, id : {line.id : line \in Lines}, text : AllTexts]

LEMMA MessagesType ==
  ASSUME NEW line \in Lines, NEW n \in Nat
  PROVE  /\ Messages(line, n) \in Seq(MessageSet)
         /\ DOMAIN Messages(line, n) = DOMAIN SpokenTexts(line)
         /\ DOMAIN SpokenTexts(line) \subseteq Nat
         /\ \A k \in DOMAIN SpokenTexts(line) :
              Messages(line, n)[k] = [line |-> n, id |-> line.id, text |-> SpokenTexts(line)[k]]
<1> DEFINE s == SpokenTexts(line)
           m == [k \in 1 .. Len(s) |-> [line |-> n, id |-> line.id, text |-> s[k]]]
<1>1. s \in Seq(AllTexts) /\ DOMAIN s = 1 .. Len(s) /\ Len(s) \in Nat
  BY TextsType, LenProperties
<1>2. Messages(line, n) = m
  BY <1>1 DEF Messages
<1> HIDE DEF s
<1>3. \A k \in 1 .. Len(s) : [line |-> n, id |-> line.id, text |-> s[k]] \in MessageSet
  BY <1>1, ElementOfSeq DEF MessageSet
<1>4. m \in Seq(MessageSet)
  BY <1>1, <1>3, IsASeq
<1> QED BY <1>1, <1>2, <1>4 DEF s

\* The second conversation goes on where the first one ends.
Continues(before, after) ==
  /\ Len(before) \in Nat /\ Len(after) \in Nat /\ Len(before) <= Len(after)
  /\ \A i \in 1 .. Len(before) : after[i] = before[i]

LEMMA ConcatContinues ==
  ASSUME NEW X, NEW before \in Seq(X), NEW more \in Seq(X)
  PROVE  Continues(before, before \o more)
BY ConcatProperties, LenProperties DEF Continues

\* The window does not begin earlier.
LEMMA WindowSlides ==
  ASSUME NEW before, NEW after, Continues(before, after), NEW size \in Int
  PROVE  /\ WindowStart(before, size) \in Nat \ {0} /\ WindowStart(after, size) \in Nat \ {0}
         /\ WindowStart(before, size) <= WindowStart(after, size)
<1>1. EffectiveWindow(size) \in Nat \ {0}
  BY DEF EffectiveWindow
<1> QED BY <1>1 DEF WindowStart, Continues

\* What fulfilled a promise does so still.
LEMMA FulfilmentsStay ==
  ASSUME NEW before, NEW after, Continues(before, after), NEW i \in 1 .. Len(before)
  PROVE  FulfilledBy(before, i) \subseteq FulfilledBy(after, i)
<1> SUFFICES ASSUME NEW j \in FulfilledBy(before, i) PROVE j \in FulfilledBy(after, i)
  OBVIOUS
<1>1. /\ j \in i + 1 .. Len(before)
      /\ before[i].verb # "" /\ IsFulfillment(before[i].verb, before[j])
      /\ \A k \in i + 1 .. j - 1 : ~IsFulfillment(before[i].verb, before[k])
  BY DEF FulfilledBy
<1>2. i \in Nat /\ i + 1 >= 1 /\ j \in 1 .. Len(before) /\ j \in i + 1 .. Len(after)
  <2>1. j \in i + 1 .. Len(before)
    BY <1>1
  <2>2. Len(before) \in Nat /\ Len(after) \in Nat /\ Len(before) <= Len(after)
    BY DEF Continues
  <2> QED BY <2>1, <2>2
<1>3. after[i] = before[i] /\ after[j] = before[j]
  BY <1>2 DEF Continues
<1>4. \A k \in i + 1 .. j - 1 : k \in 1 .. Len(before)
  BY <1>2, Len(before) \in Nat DEF Continues
<1>5. \A k \in i + 1 .. j - 1 : after[k] = before[k]
  BY <1>4 DEF Continues
<1> QED BY <1>1, <1>2, <1>3, <1>5 DEF FulfilledBy

\* A promise that is fulfilled stays so, by the same text, while it is in the window.
LEMMA FulfilledStays ==
  ASSUME NEW before, NEW after, Continues(before, after), NEW size \in Int, NEW min,
         NEW p \in Fulfilled(before, size, min), p[1] \in WindowStart(after, size) .. Len(after)
  PROVE  p \in Fulfilled(after, size, min)
<1>1. PICK i \in Commitments(before, size, min) : p \in {i} \X FulfilledBy(before, i)
  BY DEF Fulfilled
<1>2. PICK j \in FulfilledBy(before, i) : p = <<i, j>>
  BY <1>1
<1>3. /\ i \in WindowStart(before, size) .. Len(before)
      /\ IsCommitment(before[i].features, min)
  BY DEF Commitments
<1>4. i \in 1 .. Len(before) /\ i \in WindowStart(after, size) .. Len(after)
  BY <1>2, <1>3, WindowSlides DEF Continues
<1>5. after[i] = before[i] /\ j \in FulfilledBy(after, i)
  BY <1>4, FulfilmentsStay DEF Continues
<1>6. i \in Commitments(after, size, min)
  BY <1>3, <1>4, <1>5 DEF Commitments
<1> QED BY <1>2, <1>5, <1>6 DEF Fulfilled

\* A longer conversation leaves no more promises of a category pending, but for new ones.
LEMMA PendingShrinks ==
  ASSUME NEW before, NEW after, Continues(before, after), NEW size \in Int, NEW min, NEW c,
         \A i \in Len(before) + 1 .. Len(after) :
           \A d \in DetectCommitment(after[i].features, min) : d.category # c
  PROVE  Pending(after, size, min, c) \subseteq Pending(before, size, min, c)
<1> SUFFICES ASSUME NEW i \in Pending(after, size, min, c)
             PROVE  i \in Pending(before, size, min, c)
  OBVIOUS
<1>1. /\ i \in WindowStart(after, size) .. Len(after)
      /\ IsCommitment(after[i].features, min)
      /\ FulfilledBy(after, i) = {}
      /\ \E d \in DetectCommitment(after[i].features, min) : d.category = c
  BY DEF Pending, Commitments
<1>2. i \notin Len(before) + 1 .. Len(after)
  BY <1>1
<1>3. i \in 1 .. Len(before) /\ i \in WindowStart(before, size) .. Len(before)
  <2>1. /\ WindowStart(before, size) \in Nat \ {0} /\ WindowStart(after, size) \in Nat \ {0}
        /\ WindowStart(before, size) <= WindowStart(after, size)
    BY WindowSlides
  <2>2. Len(before) \in Nat /\ Len(after) \in Nat
    BY DEF Continues
  <2>3. i \in WindowStart(after, size) .. Len(after)
    BY <1>1
  <2> QED BY <1>2, <2>1, <2>2, <2>3
<1>4. after[i] = before[i] /\ FulfilledBy(before, i) = {}
  BY <1>1, <1>3, FulfilmentsStay DEF Continues
<1> QED BY <1>1, <1>3, <1>4 DEF Pending, Commitments

LEMMA PendingFinite ==
  ASSUME NEW X, NEW texts \in Seq(X), NEW size \in Int, NEW min, NEW c
  PROVE  IsFiniteSet(Pending(texts, size, min, c))
<1>1. Len(texts) \in Nat
  BY LenProperties
<1>2. WindowStart(texts, size) \in Int
  BY <1>1 DEF WindowStart, EffectiveWindow
<1>3. IsFiniteSet(WindowStart(texts, size) .. Len(texts))
  BY <1>1, <1>2, FS_Interval
<1>4. Pending(texts, size, min, c) \subseteq WindowStart(texts, size) .. Len(texts)
  BY DEF Pending, Commitments
<1> QED BY <1>3, <1>4, FS_Subset

\* Only a new promise of a category makes it escalate.
LEMMA NewPromisesEscalate ==
  ASSUME NEW X, NEW before \in Seq(X), NEW after \in Seq(X), Continues(before, after)
  PROVE  OnlyNewPromisesEscalate(before, after)
<1> SUFFICES
      ASSUME NEW c \in Escalated(after, WindowSize, MinConfidence)
                         \ Escalated(before, WindowSize, MinConfidence),
             \A i \in Len(before) + 1 .. Len(after) :
               \A d \in DetectCommitment(after[i].features, MinConfidence) : d.category # c
      PROVE  FALSE
  BY DEF OnlyNewPromisesEscalate
<1> DEFINE P == Pending(before, WindowSize, MinConfidence, c)
           Q == Pending(after, WindowSize, MinConfidence, c)
<1>0. WindowSize \in Int
  BY CommandsAssumption
<1>1. Q \subseteq P
  BY <1>0, PendingShrinks
<1>2. IsFiniteSet(P) /\ IsFiniteSet(Q)
  BY <1>0, PendingFinite
<1>3. Cardinality(Q) <= Cardinality(P) /\ Cardinality(P) \in Nat /\ Cardinality(Q) \in Nat
  <2> HIDE DEF P, Q
  <2> QED BY <1>1, <1>2, FS_Subset, FS_CardinalityType
<1>4. Cardinality(Q) >= 2 /\ ~(Cardinality(P) >= 2)
  BY DEF Escalated
<1> QED BY <1>3, <1>4

\* A transcript is made of the lines it may get, and what was handed on of its messages.
TranscriptInv == transcript \in Seq(Lines) /\ said \in Seq(MessageSet)

\* Only a line that is written does something to them.
LEMMA OnlyLinesAreHeard ==
  ASSUME [Next]_vars
  PROVE  \/ \E line \in Lines : \E dropped \in SUBSET DOMAIN line.texts : WriteLine(line, dropped)
         \/ UNCHANGED <<transcript, said>>
BY DEF Next, FileBead, FileOtherBead, Move, GrowOld, CliResolve, vars

\* A line that is written adds messages to what was said.
LEMMA SaidGrows ==
  ASSUME TranscriptInv, NEW line \in Lines, NEW dropped, WriteLine(line, dropped)
  PROVE  /\ TranscriptInv'
         /\ \E more \in Seq(MessageSet) : said' = said \o more
<1> DEFINE messages == Messages(line, Len(transcript) + 1)
           more == At(messages, DOMAIN messages \ dropped)
<1>1. transcript' = Append(transcript, line) /\ said' = said \o more
  BY DEF WriteLine
<1>2. Len(transcript) + 1 \in Nat
  BY LenProperties DEF TranscriptInv
<1>3. messages \in Seq(MessageSet)
  BY <1>2, MessagesType
<1> HIDE DEF messages
<1>4. more \in Seq(MessageSet)
  BY <1>3, AtFacts
<1> HIDE DEF more
<1>5. transcript' \in Seq(Lines)
  BY <1>1, AppendProperties DEF TranscriptInv
<1>6. said' \in Seq(MessageSet)
  BY <1>1, <1>4, ConcatProperties DEF TranscriptInv
<1> QED BY <1>1, <1>4, <1>5, <1>6 DEF TranscriptInv

LEMMA TranscriptType == Spec => []TranscriptInv
<1>1. Init => TranscriptInv
  BY EmptySeq DEF Init, TranscriptInv
<1>2. TranscriptInv /\ [Next]_vars => TranscriptInv'
  BY OnlyLinesAreHeard, SaidGrows DEF TranscriptInv
<1> QED BY <1>1, <1>2, PTL DEF Spec

\* The texts of some messages.
TextsOf(messages) == [n \in DOMAIN messages |-> messages[n].text]

LEMMA TextsOfType ==
  ASSUME NEW messages \in Seq(MessageSet)
  PROVE  /\ TextsOf(messages) \in Seq(AllTexts) /\ Len(TextsOf(messages)) = Len(messages)
         /\ \A i \in 1 .. Len(messages) : TextsOf(messages)[i] = messages[i].text
<1> DEFINE t == [i \in 1 .. Len(messages) |-> messages[i].text]
<1>1. DOMAIN messages = 1 .. Len(messages) /\ Len(messages) \in Nat
  BY LenProperties
<1>2. \A i \in 1 .. Len(messages) : messages[i].text \in AllTexts
  <2>1. \A i \in 1 .. Len(messages) : messages[i] \in MessageSet
    BY ElementOfSeq
  <2> QED BY <2>1 DEF MessageSet
<1>3. TextsOf(messages) = t
  BY <1>1 DEF TextsOf
<1>4. t \in Seq(AllTexts) /\ Len(t) = Len(messages)
  BY <1>1, <1>2, IsASeq
<1>5. \A i \in 1 .. Len(messages) : t[i] = messages[i].text
  OBVIOUS
<1> HIDE DEF t
<1> QED BY <1>3, <1>4, <1>5

\* Whatever is written, a promise that was fulfilled stays fulfilled by the same text
\* as long as the window has it, and only a new promise makes its category escalate.
THEOREM FulfilledForGood == Spec => StaysFulfilled
<1> DEFINE Kept == said' # said =>
                     LET before == TextsSaid
                         after  == TextsSaid'
                     IN  /\ \A p \in Fulfilled(before, WindowSize, MinConfidence) :
                              p[1] \in Window(after) => p \in Fulfilled(after, WindowSize, MinConfidence)
                         /\ OnlyNewPromisesEscalate(before, after)
<1>1. TranscriptInv /\ [Next]_vars => [Kept]_vars
  <2> SUFFICES ASSUME TranscriptInv, [Next]_vars, said' # said
               PROVE  Kept
    BY DEF vars
  <2> DEFINE before == TextsSaid
             after  == TextsSaid'
  <2>1. PICK more \in Seq(MessageSet) : said' = said \o more
    BY OnlyLinesAreHeard, SaidGrows
  <2>2. said \in Seq(MessageSet) /\ said' \in Seq(MessageSet) /\ Continues(said, said')
    BY <2>1, ConcatProperties, ConcatContinues DEF TranscriptInv
  <2>3. before = TextsOf(said) /\ after = TextsOf(said')
    BY DEF TextsSaid, TextsOf
  <2> HIDE DEF before, after
  <2>4. /\ before \in Seq(AllTexts) /\ after \in Seq(AllTexts)
        /\ Len(before) = Len(said) /\ Len(after) = Len(said')
        /\ \A i \in 1 .. Len(said) : before[i] = said[i].text
        /\ \A i \in 1 .. Len(said') : after[i] = said'[i].text
    BY <2>2, <2>3, TextsOfType
  <2>5. Continues(before, after)
    <3>1. \A i \in 1 .. Len(said) : i \in 1 .. Len(said') /\ said'[i] = said[i]
      BY <2>2 DEF Continues
    <3> QED BY <2>2, <2>4, <3>1 DEF Continues
  <2>6. \A p \in Fulfilled(before, WindowSize, MinConfidence) :
          p[1] \in Window(after) => p \in Fulfilled(after, WindowSize, MinConfidence)
    BY <2>5, FulfilledStays, CommandsAssumption DEF Window
  <2>7. OnlyNewPromisesEscalate(before, after)
    BY <2>4, <2>5, NewPromisesEscalate
  <2> QED BY <2>6, <2>7 DEF before, after
<1> QED BY <1>1, TranscriptType, PTL DEF Spec, StaysFulfilled

-----------------------------------------------------------------------------
(* The arguments of resolve *)

\* The flags as extractGlobalFlags has them before the first argument.
NoGlobals == [bad |-> FALSE, wants |-> FALSE, config |-> "", dryRun |-> FALSE, rest |-> <<>>]

\* iter holds the flags for every set of arguments, as the fold computes them.
Iterates(args, S, iter) ==
  iter = [s \in SUBSET S |->
            IF s = {} THEN NoGlobals ELSE GlobalFlag(iter[s \ {Max(s)}], args[Max(s)])]

LEMMA GlobalsIsFold ==
  ASSUME NEW args
  PROVE  Globals(args) = (CHOOSE iter : Iterates(args, DOMAIN args, iter))[DOMAIN args]
BY DEF Globals, FoldLeft, MapThenFoldSet, Iterates, NoGlobals

\* There is such a function: a set with one more argument is a new set with its
\* greatest element, or an old one.
LEMMA IterExists ==
  ASSUME NEW args, NEW n \in Nat
  PROVE  \E iter : Iterates(args, 1 .. n, iter)
<1> DEFINE T == {k \in Nat : \E iter : Iterates(args, 1 .. k, iter)}
<1>1. 0 \in T
  <2> DEFINE e == [s \in SUBSET (1 .. 0) |-> NoGlobals]
  <2>1. \A s \in SUBSET (1 .. 0) : s = {}
    OBVIOUS
  <2>2. Iterates(args, 1 .. 0, e)
    BY <2>1 DEF Iterates
  <2> QED BY <2>2
<1>2. ASSUME NEW k \in T PROVE k + 1 \in T
  <2>1. PICK f : Iterates(args, 1 .. k, f)
    OBVIOUS
  <2> DEFINE g == [s \in SUBSET (1 .. k + 1) |->
                     IF k + 1 \in s THEN GlobalFlag(f[s \ {k + 1}], args[k + 1]) ELSE f[s]]
  <2>2. ASSUME NEW s \in SUBSET (1 .. k + 1)
        PROVE  g[s] = IF s = {} THEN NoGlobals ELSE GlobalFlag(g[s \ {Max(s)}], args[Max(s)])
    <3>1. CASE k + 1 \in s
      <4>1. Max(s) = k + 1
        <5>1. \A x \in s : x \in Int /\ k + 1 >= x
          OBVIOUS
        <5>2. \A x \in s : (\A y \in s : x >= y) => x = k + 1
          BY <3>1, <5>1
        <5> QED BY <3>1, <5>1, <5>2 DEF Max
      <4>2. s \ {k + 1} \in SUBSET (1 .. k + 1) /\ k + 1 \notin s \ {k + 1}
        OBVIOUS
      <4>3. g[s \ {k + 1}] = f[s \ {k + 1}]
        BY <4>2
      <4>4. g[s] = GlobalFlag(f[s \ {k + 1}], args[k + 1])
        BY <3>1
      <4> QED BY <3>1, <4>1, <4>3, <4>4
    <3>2. CASE k + 1 \notin s
      <4>1. s \in SUBSET (1 .. k)
        BY <3>2
      <4>2. g[s] = f[s]
        BY <3>2
      <4>3. f[s] = IF s = {} THEN NoGlobals ELSE GlobalFlag(f[s \ {Max(s)}], args[Max(s)])
        BY <2>1, <4>1 DEF Iterates
      <4>4. s \ {Max(s)} \in SUBSET (1 .. k + 1) /\ k + 1 \notin s \ {Max(s)}
        BY <3>2
      <4>5. g[s \ {Max(s)}] = f[s \ {Max(s)}]
        BY <4>4
      <4> QED BY <4>2, <4>3, <4>5
    <3> QED BY <3>1, <3>2
  <2>3. Iterates(args, 1 .. k + 1, g)
    <3>1. g = [s \in SUBSET (1 .. k + 1) |-> g[s]]
      OBVIOUS
    <3> HIDE DEF g
    <3> QED BY <2>2, <3>1 DEF Iterates
  <2> QED BY <2>3
<1>3. T = Nat
  <2> HIDE DEF T
  <2>1. T \in SUBSET Nat
    BY DEF T
  <2> QED BY <1>1, <1>2, <2>1, Induction
<1> QED BY <1>3

\* The flags after each number of arguments, the last of which Globals returns.
LEMMA GlobalsStepwise ==
  ASSUME NEW args, NEW n \in Nat, DOMAIN args = 1 .. n
  PROVE  \E g : /\ g[0] = NoGlobals
                /\ \A k \in 1 .. n : g[k] = GlobalFlag(g[k - 1], args[k])
                /\ Globals(args) = g[n]
<1> DEFINE iter == CHOOSE f : Iterates(args, 1 .. n, f)
           g == [k \in 0 .. n |-> iter[1 .. k]]
<1>1. Iterates(args, 1 .. n, iter)
  BY IterExists
<1>2. Globals(args) = iter[1 .. n]
  BY GlobalsIsFold
<1> HIDE DEF iter
<1>3. g[0] = NoGlobals
  <2>1. 1 .. 0 = {} /\ {} \in SUBSET (1 .. n)
    OBVIOUS
  <2>2. iter[{}] = NoGlobals
    BY <1>1, <2>1 DEF Iterates
  <2> QED BY <2>1, <2>2
<1>4. ASSUME NEW k \in 1 .. n
      PROVE  g[k] = GlobalFlag(g[k - 1], args[k])
  <2>1. 1 .. k \in SUBSET (1 .. n) /\ k \in 1 .. k /\ k \in 0 .. n /\ k - 1 \in 0 .. n
    BY <1>4
  <2>2. Max(1 .. k) = k
    <3>1. k \in 1 .. k /\ \A y \in 1 .. k : k >= y
      OBVIOUS
    <3>2. \A x \in 1 .. k : x >= k => x = k
      OBVIOUS
    <3>3. \A x \in 1 .. k : (\A y \in 1 .. k : x >= y) => x = k
      BY <3>1, <3>2
    <3> QED BY <3>1, <3>3 DEF Max
  <2>3. (1 .. k) \ {k} = 1 .. k - 1
    OBVIOUS
  <2>4. iter[1 .. k] = GlobalFlag(iter[(1 .. k) \ {Max(1 .. k)}], args[Max(1 .. k)])
    BY <1>1, <2>1 DEF Iterates
  <2>5. iter[1 .. k] = GlobalFlag(iter[1 .. k - 1], args[k])
    BY <2>2, <2>3, <2>4
  <2>6. g[k] = iter[1 .. k] /\ g[k - 1] = iter[1 .. k - 1]
    BY <2>1
  <2> QED BY <2>5, <2>6
<1>5. Globals(args) = g[n]
  BY <1>2
<1> HIDE DEF g
<1> QED BY <1>3, <1>4, <1>5

\* The values that --config may have, and the records of the flags.
Values == Tokens \cup {""} \cup {ConfigIn[t] : t \in DOMAIN ConfigIn}

GlobalFlags ==
  [bad : BOOLEAN, wants : BOOLEAN, config : Values, dryRun : BOOLEAN, rest : Seq(Tokens)]

\* One argument: what is wrong stays so; --dry-run counts unless a value is wanted, and
\* only --config wants one.
LEMMA OneGlobal ==
  ASSUME NEW g \in GlobalFlags, NEW a \in Tokens
  PROVE  /\ GlobalFlag(g, a) \in GlobalFlags
         /\ g.bad => GlobalFlag(g, a).bad
         /\ g.dryRun => GlobalFlag(g, a).dryRun
         /\ ~g.bad /\ GlobalFlag(g, a).wants => a = "--config"
         /\ ~g.bad /\ ~g.wants /\ a = "--dry-run" => GlobalFlag(g, a).dryRun
<1> DEFINE h == GlobalFlag(g, a)
<1>1. CASE g.bad
  <2>1. h = g
    BY <1>1 DEF GlobalFlag
  <2> QED BY <1>1, <2>1
<1>2. ASSUME NEW value \in Values, h = SetConfig(g, value)
      PROVE  h \in GlobalFlags /\ ~h.wants /\ h.dryRun = g.dryRun
  <2> HIDE DEF h
  <2> QED BY <1>2 DEF GlobalFlags, SetConfig
<1>6. CASE ~g.bad /\ g.wants
  <2>1. h = SetConfig(g, a) /\ a \in Values
    BY <1>6 DEF GlobalFlag, Values
  <2> HIDE DEF h
  <2> QED BY <1>2, <1>6, <2>1 DEF GlobalFlags, h
<1>3. CASE ~g.bad /\ ~g.wants /\ a = "--config"
  <2>1. h = [g EXCEPT !.wants = TRUE]
    BY <1>3, CommandsAssumption DEF GlobalFlag
  <2> HIDE DEF h
  <2> QED BY <1>3, <2>1 DEF GlobalFlags, h
<1>7. CASE ~g.bad /\ ~g.wants /\ a \in DOMAIN ConfigIn
  <2>1. a # "--config" /\ a # "--dry-run"
    BY <1>7, CommandsAssumption
  <2>2. h = SetConfig(g, ConfigIn[a]) /\ ConfigIn[a] \in Values
    BY <1>7, <2>1 DEF GlobalFlag, Values
  <2> HIDE DEF h
  <2> QED BY <1>2, <1>7, <2>1, <2>2 DEF GlobalFlags, h
<1>4. CASE ~g.bad /\ ~g.wants /\ a = "--dry-run"
  <2>1. h = [g EXCEPT !.dryRun = TRUE]
    BY <1>4, CommandsAssumption DEF GlobalFlag
  <2> HIDE DEF h
  <2> QED BY <1>4, <2>1 DEF GlobalFlags, h
<1>5. CASE ~g.bad /\ ~g.wants /\ a # "--config" /\ a # "--dry-run" /\ a \notin DOMAIN ConfigIn
  <2>1. h = [g EXCEPT !.rest = Append(@, a)]
    BY <1>5 DEF GlobalFlag
  <2>2. Append(g.rest, a) \in Seq(Tokens)
    BY AppendProperties DEF GlobalFlags
  <2> HIDE DEF h
  <2> QED BY <1>5, <2>1, <2>2 DEF GlobalFlags, h
<1> QED BY <1>1, <1>3, <1>4, <1>5, <1>6, <1>7

\* --dry-run is found wherever it stands, unless it is the value of --config.
LEMMA DryRunFound ==
  ASSUME NEW n \in Nat, NEW args \in [1 .. n -> Tokens], SaysDryRun(args), ~Globals(args).bad
  PROVE  Globals(args).dryRun
<1>1. PICK g : /\ g[0] = NoGlobals
               /\ \A k \in 1 .. n : g[k] = GlobalFlag(g[k - 1], args[k])
               /\ Globals(args) = g[n]
  BY GlobalsStepwise
<1>2. PICK m \in 1 .. n : args[m] = "--dry-run" /\ (m = 1 \/ args[m - 1] # "--config")
  BY DEF SaysDryRun
<1> DEFINE Good(k) == /\ g[k] \in GlobalFlags
                      /\ ~g[k].bad /\ g[k].wants => k # 0 /\ args[k] = "--config"
                      /\ ~g[k].bad /\ m <= k => g[k].dryRun
           T == {k \in Nat : k \in 0 .. n => Good(k)}
<1>3. 0 \in T
  <2>1. g[0] \in GlobalFlags /\ ~g[0].wants
    <3>1. <<>> \in Seq(Tokens)
      BY EmptySeq
    <3>2. NoGlobals \in GlobalFlags /\ ~NoGlobals.wants
      BY <3>1 DEF NoGlobals, GlobalFlags, Values
    <3> QED BY <1>1, <3>2
  <2>2. ~(m <= 0)
    OBVIOUS
  <2> QED BY <2>1, <2>2
<1>4. ASSUME NEW j \in T PROVE j + 1 \in T
  <2> SUFFICES ASSUME j + 1 \in 0 .. n PROVE Good(j + 1)
    OBVIOUS
  <2> DEFINE k == j + 1
  <2>1. k \in 1 .. n /\ k - 1 = j /\ j \in 0 .. n
    OBVIOUS
  <2>2. Good(j)
    BY <2>1
  <2> HIDE DEF k
  <2>3. g[k] = GlobalFlag(g[j], args[k])
    BY <1>1, <2>1
  <2>4. /\ g[k] \in GlobalFlags
        /\ g[j].bad => g[k].bad
        /\ g[j].dryRun => g[k].dryRun
        /\ ~g[j].bad /\ g[k].wants => args[k] = "--config"
        /\ ~g[j].bad /\ ~g[j].wants /\ args[k] = "--dry-run" => g[k].dryRun
    <3>1. args[k] \in Tokens
      BY <2>1
    <3> QED BY <2>2, <2>3, <3>1, OneGlobal
  <2>5. ~g[k].bad /\ g[k].wants => k # 0 /\ args[k] = "--config"
    BY <2>1, <2>4
  <2>6. ASSUME ~g[k].bad, m <= k PROVE g[k].dryRun
    <3>1. CASE m <= j
      BY <2>2, <2>4, <2>6, <3>1
    <3>2. CASE ~(m <= j)
      <4>1. m = k
        BY <2>1, <2>6, <3>2
      <4>2. ~g[j].wants
        <5>1. m = 1 => j = 0
          BY <2>1, <4>1
        <5>2. m - 1 = j
          BY <2>1, <4>1
        <5> QED BY <1>2, <2>2, <2>4, <2>6, <5>1, <5>2 DEF GlobalFlags
      <4> QED BY <1>2, <2>4, <2>6, <4>1, <4>2
    <3> QED BY <3>1, <3>2
  <2>7. Good(k)
    BY <2>4, <2>5, <2>6
  <2> QED BY <2>7 DEF k
<1>5. T = Nat
  <2> HIDE DEF T
  <2>1. T \in SUBSET Nat
    BY DEF T
  <2> QED BY <1>3, <1>4, <2>1, Induction
<1>6. Good(n)
  BY <1>5
<1> QED BY <1>1, <1>2, <1>6

\* A resolve that says --dry-run changes no bead, wherever among its arguments that
\* stands, whatever the others are and however many.
THEOREM DryRunIsObeyed == Spec => DryRunWins
<1>1. ASSUME NEW c \in DryCommands PROVE c.dryRun
  <2>1. PICK args \in BoundedSeq(Tokens, MaxArgs) : c = Parse(args) /\ SaysDryRun(args) /\ c.accepted
    BY DEF DryCommands
  <2>2. PICK n \in 0 .. MaxArgs : args \in [1 .. n -> Tokens]
    BY DEF BoundedSeq, SeqOf
  <2>3. n \in Nat /\ DOMAIN args = 1 .. n
    <3>1. MaxArgs \in Nat
      BY CommandsAssumption
    <3> QED BY <2>2, <3>1
  <2>4. ~Globals(args).bad
    BY <2>1 DEF Parse
  <2>5. Globals(args).dryRun
    BY <2>1, <2>2, <2>3, <2>4, DryRunFound
  <2> QED BY <2>1, <2>5 DEF Parse
<1> DEFINE Obeyed == \A c \in DryCommands : CliResolve(c) => UNCHANGED tracker
<1>2. [Next]_vars => [Obeyed]_vars
  BY <1>1 DEF CliResolve
<1> QED BY <1>2, PTL DEF Spec, DryRunWins

-----------------------------------------------------------------------------
(* The detector *)

\* Whatever a message says, at most one commitment is found in it; a threshold takes
\* away what is not confident enough and changes nothing else, so that a higher one
\* never brings anything to light (detector.go:184-203, 239-334).
THEOREM ThresholdFilters ==
  ASSUME NEW m, NEW min
  PROVE  /\ DetectCommitment(m, min) =
              {d \in DetectCommitment(m, 0) : d.confidence >= NormalizeMinConfidence(min)}
         /\ \A d, e \in DetectCommitment(m, min) : d = e
<1>1. NormalizeMinConfidence(0) = 0
  BY DEF NormalizeMinConfidence
<1>2. \A i \in DecidingRule(m, 0) : i \in 1 .. 8
  BY DEF DecidingRule, Earliest, Hits, Categories
<1>3. \A i \in 1 .. 8 : Confidences[i] >= 0
  BY DEF Confidences
<1>4. DecidingRule(m, NormalizeMinConfidence(min)) = DecidingRule(m, 0)
  BY DEF DecidingRule
<1>5. \A i, j \in DecidingRule(m, 0) : i = j
  BY <1>2 DEF DecidingRule, Earliest
<1> QED BY <1>1, <1>2, <1>3, <1>4, <1>5 DEF DetectCommitment

-----------------------------------------------------------------------------
(* The scan *)

\* What scan reports of a commitment.
Results == [line : Nat, text : AllTexts, category : ToSet(Categories)]

\* The results whose text is a commitment with a confidence of at least min, as ScanFilters
\* has them.
Confident(all, min) ==
  {n \in DOMAIN all : \E d \in DetectCommitment(all[n].text.features, 0) : d.confidence >= min}

\* What a scan with a threshold finds, few, and one without, all.
Filtered(few, all, min) ==
  /\ few \in Seq(Results) /\ all \in Seq(Results)
  /\ few = At(all, Confident(all, min))

\* Nothing is found in no text, with a threshold and without.
LEMMA FilteredNothing ==
  ASSUME NEW min PROVE Filtered(<<>>, <<>>, min)
BY AtNothing, EmptySeq DEF Filtered

\* What is found in more texts comes after what was found.
LEMMA FilteredConcat ==
  ASSUME NEW min, NEW few, NEW all, Filtered(few, all, min), NEW few2, NEW all2, Filtered(few2, all2, min)
  PROVE  Filtered(few \o few2, all \o all2, min)
<1>0. /\ few \in Seq(Results) /\ all \in Seq(Results)
      /\ few2 \in Seq(Results) /\ all2 \in Seq(Results)
      /\ few = At(all, Confident(all, min)) /\ few2 = At(all2, Confident(all2, min))
  BY DEF Filtered
<1>1. few \o few2 \in Seq(Results) /\ all \o all2 \in Seq(Results)
  BY <1>0, ConcatProperties
<1>2. At(all \o all2, Confident(all \o all2, min)) = few \o few2
  <2> DEFINE u == all \o all2
  <2>1. /\ Len(all) \in Nat /\ Len(all2) \in Nat
        /\ DOMAIN all = 1 .. Len(all) /\ DOMAIN all2 = 1 .. Len(all2)
        /\ DOMAIN u = 1 .. Len(all) + Len(all2)
        /\ \A i \in 1 .. Len(all) + Len(all2) :
             u[i] = IF i <= Len(all) THEN all[i] ELSE all2[i - Len(all)]
    BY <1>0, <1>1, ConcatProperties, LenProperties
  <2>2. \A i \in 1 .. Len(all) : i \in DOMAIN u /\ u[i] = all[i]
    BY <2>1
  <2>3. \A i \in 1 .. Len(all2) : Len(all) + i \in DOMAIN u /\ u[Len(all) + i] = all2[i]
    BY <2>1
  <2> HIDE DEF u
  <2>4. \A i \in 1 .. Len(all) : i \in Confident(u, min) <=> i \in Confident(all, min)
    BY <2>1, <2>2 DEF Confident
  <2>5. \A i \in 1 .. Len(all2) : Len(all) + i \in Confident(u, min) <=> i \in Confident(all2, min)
    BY <2>1, <2>3 DEF Confident
  <2> DEFINE L == Confident(u, min)
             N == Confident(all, min)
             M == Confident(all2, min)
  <2>6. Split(L, all, N, all2, M)
    BY <2>4, <2>5 DEF Split
  <2> HIDE DEF L, N, M
  <2>7. At(all \o all2, L) = At(all, N) \o At(all2, M)
    <3>1. all \in Seq(Results) /\ all2 \in Seq(Results)
      BY <1>0
    <3> QED BY ONLY <2>6, <3>1, AtConcat
  <2> QED BY <1>0, <2>7 DEF u, L, N, M
<1> QED BY <1>1, <1>2 DEF Filtered

\* The results of a text, none or one, are put in order.
LEMMA SetToSeqOfNone == SetToSeq({}) = <<>>
<1>1. Cardinality({}) = 0
  BY FS_EmptySet
<1>2. <<>> \in [1 .. 0 -> {}]
  OBVIOUS
<1>4. \A f \in [1 .. 0 -> {}] : f = <<>>
  OBVIOUS
<1>3. IsInjective(<<>>)
  BY DEF IsInjective
<1> QED BY <1>1, <1>2, <1>3, <1>4 DEF SetToSeq

LEMMA SetToSeqOfOne == ASSUME NEW x PROVE SetToSeq({x}) = <<x>>
<1>1. Cardinality({x}) = 1
  BY FS_Singleton
<1>2. \A f : f \in [1 .. 1 -> {x}] <=> f = <<x>>
  OBVIOUS
<1>3. IsInjective(<<x>>)
  BY DEF IsInjective
<1> QED BY <1>1, <1>2, <1>3 DEF SetToSeq

\* Of a sequence of one, it or nothing.
LEMMA AtOne ==
  ASSUME NEW X, NEW x \in X, NEW N
  PROVE  At(<<x>>, N) = Alone(x, N, 1)
<1> DEFINE none == <<>>
<1>1. Append(none, x) = <<x>> /\ none \in Seq(X) /\ Len(none) = 0
  BY EmptySeq
<1>2. At(none, N) = none
  BY AtNothing
<1>3. none \o Alone(x, N, 1) = Alone(x, N, 1)
  BY AloneType, ConcatEmptySeq
<1> HIDE DEF none
<1>4. At(Append(none, x), N) = At(none, N) \o Alone(x, N, Len(none) + 1)
  BY <1>1, AtAppend
<1>5. Len(none) + 1 = 1
  BY <1>1
<1> QED BY <1>1, <1>2, <1>3, <1>4, <1>5

\* The results of one text.
Found(n, text, min) ==
  {[line |-> n, text |-> text, category |-> d.category] : d \in DetectCommitment(text.features, min)}

\* A text has at most one result, which is left out by a threshold above its confidence.
LEMMA FilteredText ==
  ASSUME NEW n \in Nat, NEW text \in AllTexts, NEW min \in 0 .. 100
  PROVE  Filtered(SetToSeq(Found(n, text, min)), SetToSeq(Found(n, text, 0)), min)
<1> DEFINE D == DetectCommitment(text.features, 0)
           E == DetectCommitment(text.features, min)
<1>1. E = {d \in D : d.confidence >= min} /\ \A d, e \in D : d = e
  <2>1. NormalizeMinConfidence(min) = min
    BY DEF NormalizeMinConfidence
  <2> QED BY <2>1, ThresholdFilters
<1>2. \A d \in D : d.category \in ToSet(Categories)
  BY DEF DetectCommitment, DecidingRule, Earliest, Hits, ToSet
<1> HIDE DEF D, E
<1>8. CASE D = {}
  <2>1. E = {}
    BY <1>1, <1>8
  <2>2. Found(n, text, min) = {} /\ Found(n, text, 0) = {}
    BY <1>8, <2>1 DEF Found, D, E
  <2> QED BY <2>2, SetToSeqOfNone, FilteredNothing
<1>9. CASE D # {}
  <2>1. PICK d \in D : TRUE
    BY <1>9
  <2> DEFINE r == [line |-> n, text |-> text, category |-> d.category]
             all == <<r>>
  <2>2. r \in Results
    BY <1>2, <2>1 DEF Results
  <2>3. D = {d}
    BY <1>1, <2>1
  <2>4. Found(n, text, 0) = {r}
    BY <2>3 DEF Found, D
  <2>5. Found(n, text, min) = IF d.confidence >= min THEN {r} ELSE {}
    BY <1>1, <2>3 DEF Found, E
  <2>6. r.text = text
    OBVIOUS
  <2> HIDE DEF r
  <2>7. all \in Seq(Results) /\ all[1] = r /\ DOMAIN all = {1}
    BY <2>2, IsASeq
  <2>8. 1 \in Confident(all, min) <=> d.confidence >= min
    BY <2>3, <2>6, <2>7 DEF Confident, D
  <2>10. At(all, Confident(all, min)) = IF d.confidence >= min THEN all ELSE <<>>
    BY <2>2, <2>8, AtOne DEF Alone
  <2>11. SetToSeq(Found(n, text, 0)) = all
    BY <2>4, SetToSeqOfOne
  <2>12. SetToSeq(Found(n, text, min)) = IF d.confidence >= min THEN all ELSE <<>>
    BY <2>5, SetToSeqOfOne, SetToSeqOfNone
  <2> HIDE DEF all
  <2>9. <<>> \in Seq(Results)
    BY EmptySeq
  <2> QED BY <2>7, <2>9, <2>10, <2>11, <2>12 DEF Filtered
<1> QED BY <1>8, <1>9

\* What is filtered part by part is filtered.
LEMMA FilteredFlatten ==
  ASSUME NEW min, NEW n \in Nat, NEW few \in [1 .. n -> Seq(Results)],
         NEW all \in [1 .. n -> Seq(Results)],
         \A i \in 1 .. n : Filtered(few[i], all[i], min)
  PROVE  Filtered(FlattenSeq(few), FlattenSeq(all), min)
<1> DEFINE Part(f, k) == [i \in 1 .. k |-> f[i]]
           P(k) == Filtered(FlattenSeq(Part(few, k)), FlattenSeq(Part(all, k)), min)
           T == {k \in Nat : k \in 0 .. n => P(k)}
<1>1. 0 \in T
  <2>1. \A f : Part(f, 0) = <<>>
    OBVIOUS
  <2> HIDE DEF Part
  <2>2. P(0)
    BY <2>1, FlattenNothing, FilteredNothing
  <2> QED BY <2>2
<1>2. ASSUME NEW k \in T PROVE k + 1 \in T
  <2> SUFFICES ASSUME k + 1 \in 0 .. n PROVE P(k + 1)
    OBVIOUS
  <2>0. k \in Nat /\ k + 1 \in 1 .. n /\ k \in 0 .. n
    OBVIOUS
  <2>1. P(k)
    BY <2>0
  <2>2. ASSUME NEW X, NEW f \in [1 .. n -> Seq(X)]
        PROVE  FlattenSeq(Part(f, k + 1)) = FlattenSeq(Part(f, k)) \o f[k + 1]
    <3> DEFINE g == Part(f, k)
               h == Part(f, k + 1)
    <3>1. g \in [1 .. k -> Seq(X)] /\ h \in [1 .. k + 1 -> Seq(X)]
      BY <2>0
    <3>2. Agree(h, g, k) /\ h[k + 1] = f[k + 1]
      <4> HIDE DEF T, P
      <4>1. k + 1 \in 1 .. k + 1 /\ \A i \in 1 .. k : i \in 1 .. k + 1
        BY <2>0
      <4> QED BY <4>1 DEF Agree
    <3> HIDE DEF g, h, T, P, Part
    <3>3. FlattenSeq(h) = FlattenSeq(g) \o h[k + 1]
      BY <2>0, <3>1, <3>2, FlattenMore
    <3> QED BY <3>2, <3>3 DEF g, h
  <2>3. Filtered(few[k + 1], all[k + 1], min)
    BY <2>0
  <2> HIDE DEF T, Part
  <2>4. /\ FlattenSeq(Part(few, k + 1)) = FlattenSeq(Part(few, k)) \o few[k + 1]
        /\ FlattenSeq(Part(all, k + 1)) = FlattenSeq(Part(all, k)) \o all[k + 1]
    BY <2>2
  <2> QED BY <2>1, <2>3, <2>4, FilteredConcat
<1>3. T = Nat
  <2> HIDE DEF T
  <2>1. T \in SUBSET Nat
    BY DEF T
  <2> QED BY <1>1, <1>2, <2>1, Induction
<1>4. P(n)
  <2>1. n \in 0 .. n
    OBVIOUS
  <2> HIDE DEF P
  <2> QED BY <1>3, <2>1
<1>5. Part(few, n) = few /\ Part(all, n) = all
  OBVIOUS
<1> HIDE DEF Part
<1> QED BY <1>4, <1>5

\* A line is scanned text by text, a transcript line by line.
LEMMA FilteredLine ==
  ASSUME NEW line \in Lines, NEW n \in Nat, NEW min \in 0 .. 100
  PROVE  Filtered(ResultsOf(line, n, min), ResultsOf(line, n, 0), min)
<1> DEFINE s == AssistantTexts(line)
           F(m) == [k \in DOMAIN s |-> SetToSeq(Found(n, s[k], m))]
           few == F(min)
           all == F(0)
<1>1. s \in Seq(AllTexts) /\ DOMAIN s = 1 .. Len(s) /\ Len(s) \in Nat
  BY TextsType, LenProperties
<1>2. ResultsOf(line, n, min) = FlattenSeq(few) /\ ResultsOf(line, n, 0) = FlattenSeq(all)
  BY DEF ResultsOf, Found
<1> HIDE DEF s
<1>3. ASSUME NEW k \in 1 .. Len(s) PROVE Filtered(few[k], all[k], min)
  <2>1. s[k] \in AllTexts
    BY <1>1, ElementOfSeq
  <2>2. Filtered(SetToSeq(Found(n, s[k], min)), SetToSeq(Found(n, s[k], 0)), min)
    BY <2>1, FilteredText
  <2> QED BY <1>1, <2>2
<1>4. few \in [1 .. Len(s) -> Seq(Results)] /\ all \in [1 .. Len(s) -> Seq(Results)]
  <2>1. \A k \in 1 .. Len(s) : few[k] \in Seq(Results) /\ all[k] \in Seq(Results)
    <3> HIDE DEF few, all
    <3> QED BY <1>3 DEF Filtered
  <2> QED BY <1>1, <2>1
<1> HIDE DEF few, all
<1> QED BY <1>1, <1>2, <1>3, <1>4, FilteredFlatten

LEMMA FilteredScan ==
  ASSUME NEW lines \in Seq(Lines), NEW min \in 0 .. 100
  PROVE  Filtered(Scan(lines, min), Scan(lines, 0), min)
<1> DEFINE F(m) == [n \in DOMAIN lines |-> ResultsOf(lines[n], n, m)]
           few == F(min)
           all == F(0)
<1>1. DOMAIN lines = 1 .. Len(lines) /\ Len(lines) \in Nat
  BY LenProperties
<1>2. Scan(lines, min) = FlattenSeq(few) /\ Scan(lines, 0) = FlattenSeq(all)
  BY DEF Scan
<1>3. ASSUME NEW n \in 1 .. Len(lines) PROVE Filtered(few[n], all[n], min)
  <2>1. lines[n] \in Lines /\ n \in Nat
    BY ElementOfSeq
  <2>2. Filtered(ResultsOf(lines[n], n, min), ResultsOf(lines[n], n, 0), min)
    BY <2>1, FilteredLine
  <2> QED BY <1>1, <2>2
<1> HIDE DEF F
<1>4. few \in [1 .. Len(lines) -> Seq(Results)] /\ all \in [1 .. Len(lines) -> Seq(Results)]
  <2>1. \A n \in 1 .. Len(lines) : few[n] \in Seq(Results) /\ all[n] \in Seq(Results)
    <3> HIDE DEF few, all
    <3> QED BY <1>3 DEF Filtered
  <2> QED BY <1>1, <2>1 DEF F
<1> HIDE DEF few, all
<1> QED BY <1>1, <1>2, <1>3, <1>4, FilteredFlatten

\* Whatever the transcript and the threshold, a scan reports what it reports with none,
\* in the same order, less what is not confident enough.
THEOREM ScanOnlyFilters == Spec => []ScanFilters
<1>1. TranscriptInv => ScanFilters
  <2> SUFFICES ASSUME TranscriptInv, NEW min \in ToSet(Confidences) \cup {100}
               PROVE  Scan(transcript, min) = At(Scan(transcript, 0), Confident(Scan(transcript, 0), min))
    BY DEF ScanFilters, Confident
  <2>1. min \in 0 .. 100
    BY DEF ToSet, Confidences
  <2>2. Filtered(Scan(transcript, min), Scan(transcript, 0), min)
    BY <2>1, FilteredScan DEF TranscriptInv
  <2> QED BY <2>2 DEF Filtered
<1> QED BY <1>1, TranscriptType, PTL

-----------------------------------------------------------------------------
(* Scan and daemon *)

\* A commitment in a text is one result, and no commitment is none.
LEMMA FoundSet ==
  ASSUME NEW n \in Nat, NEW text \in AllTexts, NEW min
  PROVE  /\ SetToSeq(Found(n, text, min)) \in Seq(Results)
         /\ ToSet(SetToSeq(Found(n, text, min))) = Found(n, text, min)
<1> DEFINE D == DetectCommitment(text.features, min)
           F == Found(n, text, min)
<1>1. /\ \A d, e \in D : d = e
      /\ D \subseteq DetectCommitment(text.features, 0)
  BY ThresholdFilters
<1>2. \A d \in D : d.category \in ToSet(Categories)
  BY <1>1 DEF DetectCommitment, DecidingRule, Earliest, Hits, ToSet
<1> HIDE DEF D
<1>3. F \subseteq Results /\ \A x, y \in F : x = y
  BY <1>1, <1>2 DEF Found, Results, D
<1> HIDE DEF F
<1>4. CASE F = {}
  <2>1. <<>> \in Seq(Results) /\ ToSet(<<>>) = {}
    BY EmptySeq DEF ToSet
  <2> QED BY <1>4, <2>1, SetToSeqOfNone DEF F
<1>5. CASE F # {}
  <2>1. PICK x \in F : F = {x}
    BY <1>3, <1>5
  <2>2. x \in Results
    BY <1>3
  <2>3. <<x>> \in Seq(Results) /\ ToSet(<<x>>) = {x}
    BY <2>2, IsASeq DEF ToSet
  <2> QED BY <2>1, <2>3, SetToSeqOfOne DEF F
<1> QED BY <1>4, <1>5

\* What is reported of a line.
LEMMA LineSet ==
  ASSUME NEW line \in Lines, NEW n \in Nat, NEW min
  PROVE  /\ ResultsOf(line, n, min) \in Seq(Results)
         /\ \A r : r \in ToSet(ResultsOf(line, n, min)) <=>
                   \E k \in DOMAIN AssistantTexts(line) : r \in Found(n, AssistantTexts(line)[k], min)
<1> DEFINE s == AssistantTexts(line)
           f == [k \in DOMAIN s |-> SetToSeq(Found(n, s[k], min))]
<1>1. s \in Seq(AllTexts) /\ DOMAIN s = 1 .. Len(s) /\ Len(s) \in Nat
  BY TextsType, LenProperties
<1>2. ResultsOf(line, n, min) = FlattenSeq(f)
  BY DEF ResultsOf, Found
<1> HIDE DEF s
<1>3. \A k \in 1 .. Len(s) :
        /\ SetToSeq(Found(n, s[k], min)) \in Seq(Results)
        /\ ToSet(SetToSeq(Found(n, s[k], min))) = Found(n, s[k], min)
  BY <1>1, FoundSet, ElementOfSeq
<1>4. f \in [1 .. Len(s) -> Seq(Results)] /\ \A k \in 1 .. Len(s) : ToSet(f[k]) = Found(n, s[k], min)
  BY <1>1, <1>3
<1> HIDE DEF f
<1>5. /\ FlattenSeq(f) \in Seq(Results)
      /\ \A y : y \in ToSet(FlattenSeq(f)) <=> \E i \in 1 .. Len(s) : y \in ToSet(f[i])
  BY <1>1, <1>4, FlattenElements
<1> QED BY <1>1, <1>2, <1>4, <1>5 DEF s

\* What is reported of a transcript.
LEMMA ScanSet ==
  ASSUME NEW lines \in Seq(Lines), NEW min
  PROVE  \A r : r \in ToSet(Scan(lines, min)) <=>
           \E n \in DOMAIN lines : \E k \in DOMAIN AssistantTexts(lines[n]) :
             r \in Found(n, AssistantTexts(lines[n])[k], min)
<1> DEFINE f == [n \in DOMAIN lines |-> ResultsOf(lines[n], n, min)]
<1>1. DOMAIN lines = 1 .. Len(lines) /\ Len(lines) \in Nat
  BY LenProperties
<1>2. Scan(lines, min) = FlattenSeq(f)
  BY DEF Scan
<1>3. \A n \in 1 .. Len(lines) :
        /\ ResultsOf(lines[n], n, min) \in Seq(Results)
        /\ \A r : r \in ToSet(ResultsOf(lines[n], n, min)) <=>
                  \E k \in DOMAIN AssistantTexts(lines[n]) : r \in Found(n, AssistantTexts(lines[n])[k], min)
  BY <1>1, LineSet, ElementOfSeq
<1>4. f \in [1 .. Len(lines) -> Seq(Results)] /\ \A n \in 1 .. Len(lines) : f[n] = ResultsOf(lines[n], n, min)
  BY <1>1, <1>3
<1> HIDE DEF f
<1>5. \A y : y \in ToSet(FlattenSeq(f)) <=> \E i \in 1 .. Len(lines) : y \in ToSet(f[i])
  BY <1>1, <1>4, FlattenElements
<1> QED BY <1>1, <1>2, <1>3, <1>4, <1>5

\* What was handed on is in its line, and what is in a line was handed on then or before.
SaidInv ==
  /\ \A m \in ToSet(said) :
       /\ m.line \in DOMAIN transcript /\ m.id = transcript[m.line].id
       /\ \E k \in DOMAIN SpokenTexts(transcript[m.line]) : m.text = SpokenTexts(transcript[m.line])[k]
  /\ \A n \in DOMAIN transcript : \A k \in DOMAIN SpokenTexts(transcript[n]) :
       \E m \in ToSet(said) :
         m.line <= n /\ m.id = transcript[n].id /\ m.text = SpokenTexts(transcript[n])[k]

\* A message that is dropped repeats one that was handed on, or the first like it on its
\* line, which is not dropped unless it does.
LEMMA HeardStep ==
  ASSUME TranscriptInv, SaidInv, NEW line \in Lines, NEW dropped, WriteLine(line, dropped)
  PROVE  SaidInv'
<1> DEFINE n == Len(transcript) + 1
           messages == Messages(line, n)
           more == At(messages, DOMAIN messages \ dropped)
           s == SpokenTexts(line)
<1>1. /\ transcript' = Append(transcript, line) /\ said' = said \o more
      /\ dropped \subseteq Repeats(said, messages)
  BY DEF WriteLine
<1>2. /\ n \in Nat /\ Len(transcript) \in Nat /\ DOMAIN transcript = 1 .. Len(transcript)
      /\ DOMAIN transcript' = 1 .. n
      /\ \A i \in 1 .. Len(transcript) : transcript'[i] = transcript[i]
      /\ transcript'[n] = line
  BY <1>1, AppendProperties, LenProperties DEF TranscriptInv
<1>3. /\ messages \in Seq(MessageSet) /\ DOMAIN messages = DOMAIN s /\ DOMAIN s \subseteq Nat
      /\ \A k \in DOMAIN s : messages[k] = [line |-> n, id |-> line.id, text |-> s[k]]
  BY <1>2, MessagesType
<1> HIDE DEF n, s, messages
<1>4. /\ more \in Seq(MessageSet)
      /\ \A y : y \in ToSet(more) <=> \E k \in DOMAIN s : k \notin dropped /\ y = messages[k]
  <2>1. DOMAIN messages = 1 .. Len(messages)
    BY <1>3, LenProperties
  <2>2. /\ more \in Seq(MessageSet)
        /\ \A y : y \in ToSet(more) <=>
                  \E i \in 1 .. Len(messages) : i \in DOMAIN messages \ dropped /\ y = messages[i]
    BY <1>3, AtFacts
  <2> HIDE DEF more
  <2> QED BY <1>3, <2>1, <2>2
<1> HIDE DEF more
<1>5. ToSet(said') = ToSet(said) \cup ToSet(more)
  <2>1. Range(said \o more) = Range(said) \cup Range(more)
    BY <1>4, RangeConcatenation DEF TranscriptInv
  <2> QED BY <1>1, <2>1 DEF ToSet, Range
<1>6. \A i \in 1 .. n : i \in 1 .. Len(transcript) \/ i = n
  BY <1>2 DEF n
<1>7. ASSUME NEW m \in ToSet(said')
      PROVE  /\ m.line \in DOMAIN transcript' /\ m.id = transcript'[m.line].id
             /\ \E k \in DOMAIN SpokenTexts(transcript'[m.line]) :
                  m.text = SpokenTexts(transcript'[m.line])[k]
  <2>1. CASE m \in ToSet(said)
    <3>1. m.line \in 1 .. Len(transcript) /\ m.line \in 1 .. n
      BY <1>2, <2>1 DEF SaidInv, n
    <3>2. transcript'[m.line] = transcript[m.line]
      BY <1>2, <3>1
    <3>3. /\ m.id = transcript[m.line].id
          /\ \E k \in DOMAIN SpokenTexts(transcript[m.line]) :
               m.text = SpokenTexts(transcript[m.line])[k]
      BY <2>1 DEF SaidInv
    <3> QED BY <1>2, <3>1, <3>2, <3>3
  <2>2. CASE m \in ToSet(more)
    <3>1. PICK k \in DOMAIN s : m = [line |-> n, id |-> line.id, text |-> s[k]]
      BY <1>3, <1>4, <2>2
    <3>2. m.line = n /\ m.id = line.id /\ m.text = s[k] /\ n \in 1 .. n
      BY <1>2, <3>1 DEF n
    <3> QED BY <1>2, <3>2 DEF s
  <2> QED BY <1>5, <1>7, <2>1, <2>2
<1>8. ASSUME NEW k \in DOMAIN s
      PROVE  \E m \in ToSet(said') : m.line <= n /\ m.id = line.id /\ m.text = s[k]
  <2> DEFINE S == {j \in DOMAIN s : SameFingerprint(messages[j], messages[k])}
  <2>1. k \in S /\ S \subseteq Nat /\ \A j \in S : messages[j].text = s[k]
    BY <1>3, <1>8 DEF SameFingerprint
  <2>2. PICK i \in S : \A j \in S : i <= j
    BY <2>1, EarliestExists
  <2>3. i \in DOMAIN s /\ i \in Nat /\ messages[i] = [line |-> n, id |-> line.id, text |-> s[k]]
    BY <1>3, <2>1, <2>2
  <2>4. CASE i \notin dropped
    <3>1. messages[i] \in ToSet(said')
      BY <1>4, <1>5, <2>3, <2>4
    <3>2. n <= n
      BY <1>2
    <3> QED BY <2>3, <3>1, <3>2
  <2>5. CASE \E p \in DOMAIN said : SameFingerprint(said[p], messages[i])
    <3>1. PICK p \in DOMAIN said : SameFingerprint(said[p], messages[i])
      BY <2>5
    <3>2. said[p] \in ToSet(said) /\ said[p] \in ToSet(said')
      BY <1>5 DEF ToSet
    <3>3. said[p].line \in 1 .. Len(transcript)
      BY <1>2, <3>2 DEF SaidInv
    <3>4. said[p].line <= n
      BY <1>2, <3>3 DEF n
    <3>5. said[p].id = line.id /\ said[p].text = s[k]
      BY <2>3, <3>1 DEF SameFingerprint
    <3> QED BY <3>2, <3>4, <3>5
  <2>6. CASE \E j \in 1 .. i - 1 : SameFingerprint(messages[j], messages[i])
    <3>1. PICK j \in 1 .. i - 1 : SameFingerprint(messages[j], messages[i])
      BY <2>6
    <3>2. j \in DOMAIN s
      <4>1. DOMAIN s = 1 .. Len(messages) /\ Len(messages) \in Nat
        BY <1>3, LenProperties
      <4> QED BY <2>3, <4>1
    <3>3. j \in S
      BY <2>2, <3>1, <3>2 DEF SameFingerprint
    <3>4. ~(i <= j)
      BY <2>3
    <3> QED BY <2>2, <3>3, <3>4
  <2>7. i \in dropped => i \in Repeats(said, messages)
    BY <1>1
  <2> QED BY <2>4, <2>5, <2>6, <2>7 DEF Repeats
<1>9. ASSUME NEW l \in DOMAIN transcript', NEW k \in DOMAIN SpokenTexts(transcript'[l])
      PROVE  \E m \in ToSet(said') :
               m.line <= l /\ m.id = transcript'[l].id /\ m.text = SpokenTexts(transcript'[l])[k]
  <2>1. CASE l = n
    BY <1>2, <1>8, <1>9, <2>1 DEF s
  <2>2. CASE l \in 1 .. Len(transcript)
    BY <1>2, <1>5, <1>9, <2>2 DEF SaidInv
  <2> QED BY <1>2, <1>6, <1>9, <2>1, <2>2
<1> QED BY <1>7, <1>9 DEF SaidInv

LEMMA SaidInvariant == Spec => []SaidInv
<1>1. Init => SaidInv
  BY DEF Init, SaidInv, ToSet
<1>2. TranscriptInv /\ SaidInv /\ [Next]_vars => SaidInv'
  <2>1. ASSUME SaidInv, UNCHANGED <<transcript, said>> PROVE SaidInv'
    BY <2>1 DEF SaidInv
  <2> QED BY <2>1, OnlyLinesAreHeard, HeardStep
<1> QED BY <1>1, <1>2, TranscriptType, PTL DEF Spec

\* For every transcript and every threshold, what scan reports was handed on to the
\* daemon's analysis, and the commitments that were handed on are reported, but for the
\* roles and the lines that scan does not read.
THEOREM ScanHearsAlike == Spec => []HeardAlike
<1>1. TranscriptInv /\ SaidInv => HeardAlike
  <2> SUFFICES ASSUME TranscriptInv, SaidInv PROVE HeardAlike
    OBVIOUS
  <2> DEFINE reported == ToSet(Scan(transcript, MinConfidence))
  <2>1. \A r : r \in reported <=>
          \E n \in DOMAIN transcript : \E k \in DOMAIN AssistantTexts(transcript[n]) :
            r \in Found(n, AssistantTexts(transcript[n])[k], MinConfidence)
    BY ScanSet DEF TranscriptInv
  <2> HIDE DEF reported
  <2>2. ASSUME NEW r \in reported
        PROVE  \E m \in ToSet(said) :
                 m.line <= r.line /\ m.id = transcript[r.line].id /\ m.text = r.text
    <3>0. PICK n \in DOMAIN transcript :
            \E k \in DOMAIN AssistantTexts(transcript[n]) :
              r \in Found(n, AssistantTexts(transcript[n])[k], MinConfidence)
      BY <2>1, <2>2
    <3>1. PICK k \in DOMAIN AssistantTexts(transcript[n]) :
            r \in Found(n, AssistantTexts(transcript[n])[k], MinConfidence)
      BY <3>0
    <3>2. r.line = n /\ r.text = AssistantTexts(transcript[n])[k]
      BY <3>1 DEF Found
    <3>3. SpokenTexts(transcript[n]) = AssistantTexts(transcript[n])
      BY <3>1 DEF SpokenTexts, AssistantTexts
    <3> QED BY <3>1, <3>2, <3>3 DEF SaidInv
  <2>3. ASSUME NEW m \in ToSet(said), transcript[m.line].role = "assistant",
               IsCommitment(m.text.features, MinConfidence)
        PROVE  \E r \in reported : r.line = m.line /\ r.text = m.text
    <3> DEFINE n == m.line
    <3>1. PICK k \in DOMAIN SpokenTexts(transcript[n]) :
            n \in DOMAIN transcript /\ m.text = SpokenTexts(transcript[n])[k]
      BY <2>3 DEF SaidInv
    <3>2. SpokenTexts(transcript[n]) = AssistantTexts(transcript[n])
      BY <2>3 DEF SpokenTexts, AssistantTexts
    <3>3. PICK d \in DetectCommitment(m.text.features, MinConfidence) : TRUE
      BY <2>3 DEF IsCommitment
    <3> DEFINE r == [line |-> n, text |-> m.text, category |-> d.category]
    <3>4. r \in Found(n, m.text, MinConfidence)
      BY DEF Found
    <3>5. r.line = m.line /\ r.text = m.text
      OBVIOUS
    <3> HIDE DEF r
    <3>6. r \in reported
      BY <2>1, <3>1, <3>2, <3>4
    <3> QED BY <3>5, <3>6
  <2> QED BY <2>2, <2>3 DEF HeardAlike, reported
<1> QED BY <1>1, TranscriptType, SaidInvariant, PTL

-----------------------------------------------------------------------------
(* Tags *)

\* The first of some tags: there is one if there is any, and it is the only one.
LEMMA FirstFacts ==
  ASSUME NEW X, NEW tags \in Seq(X), NEW some
  PROVE  /\ First(tags, some) \subseteq ToSet(tags) \cap some
         /\ ToSet(tags) \cap some = {} => First(tags, some) = {}
         /\ \A t : ToSet(tags) \cap some = {t} => First(tags, some) = {t}
<1> DEFINE S == {n \in DOMAIN tags : tags[n] \in some}
<1>1. DOMAIN tags = 1 .. Len(tags) /\ Len(tags) \in Nat
  BY LenProperties
<1>2. S \in SUBSET Nat
  BY <1>1
<1>3. First(tags, some) = {tags[n] : n \in Earliest(S)}
  BY DEF First
<1>4. First(tags, some) \subseteq ToSet(tags) \cap some
  BY <1>3 DEF Earliest, ToSet
<1>5. ASSUME NEW t, ToSet(tags) \cap some = {t} PROVE First(tags, some) = {t}
  <2>1. PICK n \in S : TRUE
    BY <1>5 DEF ToSet
  <2>2. PICK i \in S : Earliest(S) = {i}
    BY <1>2, <2>1, EarliestExists
  <2>3. First(tags, some) = {tags[i]}
    BY <1>3, <2>2
  <2> QED BY <1>4, <1>5, <2>3
<1> QED BY <1>4, <1>5

\* If the second tag is the first of them, that one.
LEMMA SecondIsFirst ==
  ASSUME NEW X, NEW tags \in Seq(X), Len(tags) >= 2, NEW some, tags[1] \notin some, tags[2] \in some
  PROVE  First(tags, some) = {tags[2]}
<1> DEFINE S == {n \in DOMAIN tags : tags[n] \in some}
<1>1. DOMAIN tags = 1 .. Len(tags) /\ Len(tags) \in Nat
  BY LenProperties
<1>2. 2 \in S /\ 1 \notin S /\ S \subseteq 1 .. Len(tags)
  BY <1>1
<1>3. First(tags, some) = {tags[n] : n \in Earliest(S)}
  BY DEF First
<1> HIDE DEF S
<1>4. Earliest(S) = {2}
  <2>1. \A i \in S : 2 <= i
    BY <1>1, <1>2
  <2>2. \A i \in S : (\A j \in S : i <= j) => i = 2
    BY <1>1, <1>2, <2>1
  <2> QED BY <1>2, <2>1, <2>2 DEF Earliest
<1> QED BY <1>3, <1>4

\* uniqueStrings keeps what there is.
LEMMA UniqueFacts ==
  ASSUME NEW X, NEW tags \in Seq(X)
  PROVE  Unique(tags) \in Seq(X) /\ ToSet(Unique(tags)) = ToSet(tags)
<1> DEFINE N == {n \in DOMAIN tags : \A m \in 1 .. n - 1 : tags[m] # tags[n]}
<1>1. DOMAIN tags = 1 .. Len(tags) /\ Len(tags) \in Nat
  BY LenProperties
<1>2. Unique(tags) = At(tags, N)
  BY DEF Unique
<1>3. ASSUME NEW t \in ToSet(tags) PROVE \E i \in N : tags[i] = t
  <2> DEFINE S == {n \in DOMAIN tags : tags[n] = t}
  <2>1. PICK n \in S : TRUE
    BY <1>3 DEF ToSet
  <2>2. S \in SUBSET Nat
    BY <1>1
  <2>3. PICK i \in S : \A j \in S : i <= j
    BY <2>1, <2>2, EarliestExists
  <2>4. i \in 1 .. Len(tags) /\ tags[i] = t
    BY <1>1, <2>3
  <2>5. \A m \in 1 .. i - 1 : m \in DOMAIN tags /\ ~(i <= m)
    BY <1>1, <2>4
  <2>6. i \in N
    BY <1>1, <2>3, <2>4, <2>5
  <2> QED BY <2>4, <2>6
<1>4. N \subseteq 1 .. Len(tags)
  BY <1>1
<1> HIDE DEF N
<1>5. /\ At(tags, N) \in Seq(X)
      /\ \A y : y \in ToSet(At(tags, N)) <=> \E i \in 1 .. Len(tags) : i \in N /\ y = tags[i]
  BY AtFacts
<1>6. \A i \in 1 .. Len(tags) : tags[i] \in ToSet(tags)
  BY <1>1 DEF ToSet
<1>7. \A y : y \in ToSet(At(tags, N)) <=> y \in ToSet(tags)
  BY <1>3, <1>4, <1>5, <1>6
<1> QED BY <1>2, <1>5, <1>7

\* The labels that br gives back are those that it was given.
LEMMA LabelsFacts ==
  ASSUME NEW X, NEW tags \in Seq(X), NEW labels \in Labels(tags)
  PROVE  labels \in Seq(X) /\ ToSet(labels) = ToSet(tags)
<1>1. CASE ~sorts
  BY <1>1 DEF Labels
<1>2. CASE sorts
  <2> DEFINE S == ToSet(tags)
             n == Len(tags)
             k == Cardinality(S)
  <2>1. DOMAIN tags = 1 .. n /\ n \in Nat /\ tags \in Surjection(1 .. n, S)
    BY LenProperties DEF ToSet, Surjection
  <2>2. IsFiniteSet(1 .. n)
    BY <2>1, FS_Interval
  <2>3. IsFiniteSet(S)
    <3> HIDE DEF S, n
    <3> QED BY <2>1, <2>2, FS_Surjection
  <2>4. labels \in [1 .. k -> S] /\ \A i, j \in 1 .. k : i # j => labels[i] # labels[j]
    BY <1>2 DEF Labels, SetToSeqs
  <2>5. S \subseteq X
    BY <2>1, ElementOfSeq DEF ToSet
  <2> HIDE DEF S, n
  <2>6. k \in Nat
    BY <2>3, FS_CardinalityType
  <2>7. IsFiniteSet(1 .. k) /\ Cardinality(1 .. k) = k
    <3> HIDE DEF k
    <3> QED BY <2>6, FS_Interval
  <2>8. labels \in Injection(1 .. k, S)
    BY <2>4 DEF Injection, IsInjective
  <2>9. labels \in Surjection(1 .. k, S)
    BY <2>3, <2>7, <2>8, FS_Injection
  <2>10. ToSet(labels) = S
    BY <2>4, <2>9 DEF ToSet, Surjection
  <2>11. labels \in Seq(X)
    <3> HIDE DEF k
    <3>1. labels = [i \in 1 .. k |-> labels[i]]
      BY <2>4
    <3>2. \A i \in 1 .. k : labels[i] \in X
      BY <2>4, <2>5
    <3>3. [i \in 1 .. k |-> labels[i]] \in Seq(X)
      BY <2>6, <3>2, IsASeq
    <3> QED BY <3>1, <3>3
  <2> QED BY <2>10, <2>11 DEF S
<1> QED BY <1>1, <1>2

\* createTags: what a promise of a category, from a session, is filed under.
FiledTags(category, key) ==
  {"oathkeeper", category} \cup ToSet(extraTags) \cup ({TagOf[key]} \ {NoTag})

\* They begin with ours and the category.
LEMMA CreateTagsFacts ==
  ASSUME extraTags \in ExtraTags, NEW c \in ToSet(Categories), NEW key \in SessionKeys
  PROVE  /\ CreateTags(c, key) \in Seq(DOMAIN Lower)
         /\ ToSet(CreateTags(c, key)) = FiledTags(c, key)
         /\ Len(CreateTags(c, key)) >= 2
         /\ CreateTags(c, key)[1] = "oathkeeper" /\ CreateTags(c, key)[2] = c
<1> DEFINE X == DOMAIN Lower
           own == <<"oathkeeper", c>>
           session == IF TagOf[key] = NoTag THEN <<>> ELSE <<TagOf[key]>>
           more == own \o extraTags
           all == more \o session
<1>1. "oathkeeper" \in X /\ c \in X /\ (TagOf[key] # NoTag => TagOf[key] \in X)
  BY TagsAssumption
<1>2. extraTags \in Seq(X)
  <2>1. extraTags \in Seq(ToSet(extraTags)) /\ ToSet(extraTags) \subseteq X
    BY TagsAssumption
  <2> HIDE DEF X
  <2> QED BY <2>1, SeqMonotonic
<1>3. "oathkeeper" # c
  BY DEF Categories, ToSet
<1> HIDE DEF X
<1>4. own \in Seq(X) /\ Len(own) = 2 /\ own[1] = "oathkeeper" /\ own[2] = c
  BY <1>1
<1>5. session \in Seq(X)
  BY <1>1, EmptySeq, IsASeq
<1>6. ToSet(own) = {"oathkeeper", c}
  BY DEF ToSet
<1>7. ToSet(session) = {TagOf[key]} \ {NoTag}
  BY DEF ToSet
<1> HIDE DEF own, session
<1>8. /\ more \in Seq(X) /\ Len(more) = Len(own) + Len(extraTags)
      /\ \A i \in 1 .. Len(own) + Len(extraTags) :
           more[i] = IF i <= Len(own) THEN own[i] ELSE extraTags[i - Len(own)]
  BY <1>2, <1>4, ConcatProperties
<1>9. Len(extraTags) \in Nat /\ Len(session) \in Nat
  BY <1>2, <1>5, LenProperties
<1>10. Len(more) >= 2 /\ more[1] = "oathkeeper" /\ more[2] = c
  BY <1>4, <1>8, <1>9
<1>11. ToSet(more) = ToSet(own) \cup ToSet(extraTags)
  <2>1. Range(more) = Range(own) \cup Range(extraTags)
    BY <1>2, <1>4, RangeConcatenation
  <2> QED BY <2>1 DEF ToSet, Range
<1> HIDE DEF more
<1>12. /\ all \in Seq(X) /\ Len(all) = Len(more) + Len(session)
       /\ \A i \in 1 .. Len(more) + Len(session) :
            all[i] = IF i <= Len(more) THEN more[i] ELSE session[i - Len(more)]
  <2>1. more \in Seq(X)
    BY <1>8
  <2> QED BY <1>5, <2>1, ConcatProperties
<1>13. Len(more) \in Nat
  BY <1>8, LenProperties
<1>14. Len(all) >= 2 /\ all[1] = "oathkeeper" /\ all[2] = c
  BY <1>9, <1>10, <1>12, <1>13
<1>15. ToSet(all) = FiledTags(c, key)
  <2>1. Range(all) = Range(more) \cup Range(session)
    BY <1>5, <1>8, RangeConcatenation
  <2>2. ToSet(all) = ToSet(more) \cup ToSet(session)
    BY <2>1 DEF ToSet, Range
  <2> HIDE DEF all
  <2> QED BY <1>6, <1>7, <1>11, <2>2 DEF FiledTags
<1> HIDE DEF all
<1>16. CreateTags(c, key) = Unique(all)
  BY DEF CreateTags, all, more, own, session
<1>17. Unique(all) \in Seq(X) /\ ToSet(Unique(all)) = ToSet(all)
  BY <1>12, UniqueFacts
<1>18. Len(Unique(all)) >= 2 /\ Unique(all)[1] = "oathkeeper" /\ Unique(all)[2] = c
  <2> DEFINE N == {n \in DOMAIN all : \A m \in 1 .. n - 1 : all[m] # all[n]}
  <2>1. DOMAIN all = 1 .. Len(all) /\ Len(all) \in Nat
    BY <1>12, LenProperties
  <2>2. 1 \in N /\ 2 \in N
    <3>1. 1 \in DOMAIN all /\ 2 \in DOMAIN all
      BY <1>14, <2>1
    <3>2. (\A m \in 1 .. 1 - 1 : FALSE) /\ (\A m \in 1 .. 2 - 1 : m = 1)
      OBVIOUS
    <3> QED BY <1>3, <1>14, <3>1, <3>2
  <2>3. 2 \in 0 .. Len(all) /\ 1 .. 2 = {1, 2}
    BY <1>14, <2>1
  <2>4. Unique(all) = At(all, N)
    BY DEF Unique
  <2> HIDE DEF N
  <2>5. 1 .. 2 \subseteq N
    BY <2>2, <2>3
  <2>6. Len(At(all, N)) >= 2 /\ \A i \in 1 .. 2 : At(all, N)[i] = all[i]
    BY <1>12, <2>3, <2>5, AtFacts
  <2> QED BY <1>14, <2>3, <2>4, <2>6
<1> QED BY <1>15, <1>16, <1>17, <1>18 DEF X

-----------------------------------------------------------------------------
(* The beads *)

Bead ==
  [status : Statuses, created : {"recent", "old", "unset", "malformed"},
   category : ToSet(Categories) \cup {""}, key : SessionKeys \cup {""}, tags : Seq(DOMAIN Lower)]

\* A bead that the daemon filed has the labels that br made of what it was filed under.
WellFiled(bead) ==
  bead.category # "" =>
    /\ bead.key \in SessionKeys
    /\ bead.tags \in Labels(CreateTags(bead.category, bead.key))

BeadsInv ==
  /\ extraTags \in ExtraTags
  /\ tracker \in [Beads -> Bead \cup {NoBead}]
  /\ IsFiniteSet({b \in Beads : Exists(b)})
  /\ \A b \in Beads : Exists(b) => WellFiled(tracker[b])

\* A bead is absent, or it is a bead.
LEMMA BeadOrNot ==
  /\ NoBead \notin Bead
  /\ BeadsInv => \A b \in Beads : Exists(b) <=> tracker[b] \in Bead
<1>1. NoBead \notin Bead
  <2>1. \A bead \in Bead : bead.status # "absent"
    BY CommandsAssumption DEF Bead
  <2> QED BY <2>1 DEF NoBead
<1> QED BY <1>1 DEF BeadsInv, Exists

\* A bead is read back as what it was filed as, but for what a --tag may pass for.
LEMMA FiledIsFound ==
  ASSUME BeadsInv, NEW b \in Beads, Filed(b)
  PROVE  LET bead == tracker[b]
         IN  /\ Has(b, "oathkeeper") /\ Has(b, bead.category)
             /\ TagOf[bead.key] # NoTag => Has(b, TagOf[bead.key])
             /\ NoSessionTags => TagOf[SessionKey(bead.tags)] = TagOf[bead.key]
             /\ NoCategoryTags \/ ~sorts => DetectCategory(bead.tags) = bead.category
             /\ extraTags = <<>> \/ ~sorts => CategoryTag(bead.tags) = {bead.category}
<1> DEFINE c == tracker[b].category
           key == tracker[b].key
           tags == tracker[b].tags
<1>1. /\ extraTags \in ExtraTags /\ c \in ToSet(Categories) /\ c # "" /\ key \in SessionKeys
      /\ tags \in Labels(CreateTags(c, key))
  <2>1. tracker[b] \in Bead /\ WellFiled(tracker[b]) /\ c # ""
    BY BeadOrNot DEF BeadsInv, Filed
  <2>2. c \in ToSet(Categories) \cup {""}
    BY <2>1 DEF Bead
  <2> QED BY <2>1, <2>2 DEF BeadsInv, WellFiled
<1> HIDE DEF c, key
<1>2. /\ CreateTags(c, key) \in Seq(DOMAIN Lower)
      /\ ToSet(CreateTags(c, key)) = FiledTags(c, key)
      /\ Len(CreateTags(c, key)) >= 2
      /\ CreateTags(c, key)[1] = "oathkeeper" /\ CreateTags(c, key)[2] = c
  BY <1>1, CreateTagsFacts
<1>3. tags \in Seq(DOMAIN Lower) /\ ToSet(tags) = FiledTags(c, key)
  <2> HIDE DEF tags
  <2> QED BY <1>1, <1>2, LabelsFacts
<1> HIDE DEF tags
<1>4. "oathkeeper" \in ToSet(tags) /\ c \in ToSet(tags) /\ (TagOf[key] # NoTag => TagOf[key] \in ToSet(tags))
  BY <1>3 DEF FiledTags
<1>5. "oathkeeper" \notin ToSet(Categories)
  BY DEF ToSet, Categories
<1>6. /\ \A t \in {"oathkeeper"} \cup ToSet(Categories) : t \notin DOMAIN KeyIn /\ Lower[t] = t
      /\ TagOf[""] = NoTag
      /\ TagOf[key] # NoTag =>
           /\ TagOf[key] \in DOMAIN KeyIn /\ Lower[TagOf[key]] = TagOf[key]
           /\ TagOf[KeyIn[TagOf[key]]] = TagOf[key]
  BY <1>1, TagsAssumption
<1>10. ~sorts => Len(tags) >= 2 /\ tags[1] = "oathkeeper" /\ tags[2] = c
  BY <1>1, <1>2 DEF Labels
<1>7. ASSUME NoSessionTags PROVE TagOf[SessionKey(tags)] = TagOf[key]
  <2>1. ToSet(tags) \cap DOMAIN KeyIn = {TagOf[key]} \ {NoTag}
    BY <1>1, <1>3, <1>6, <1>7 DEF FiledTags, NoSessionTags, IsSessionTag
  <2>3. CASE TagOf[key] = NoTag
    <3>0. ToSet(tags) \cap DOMAIN KeyIn = {}
      BY <2>1, <2>3
    <3>1. First(tags, DOMAIN KeyIn) = {}
      BY <1>3, <3>0, FirstFacts
    <3>2. SessionKey(tags) = ""
      BY <3>1 DEF SessionKey
    <3> QED BY <1>6, <2>3, <3>2
  <2>4. CASE TagOf[key] # NoTag
    <3>0. ToSet(tags) \cap DOMAIN KeyIn = {TagOf[key]}
      BY <2>1, <2>4
    <3>1. First(tags, DOMAIN KeyIn) = {TagOf[key]}
      BY <1>3, <3>0, FirstFacts
    <3>2. SessionKey(tags) = KeyIn[TagOf[key]]
      BY <3>1 DEF SessionKey
    <3> QED BY <1>6, <2>4, <3>2
  <2> QED BY <2>3, <2>4
<1>8. ASSUME NoCategoryTags \/ ~sorts PROVE DetectCategory(tags) = c
  <2> DEFINE some == {t \in ToSet(tags) : Lower[t] \in ToSet(Categories)}
  <2>1. NoCategoryTags => some = {c}
    <3>1. TagOf[key] # NoTag => Lower[TagOf[key]] \notin ToSet(Categories)
      BY <1>6
    <3> QED BY <1>1, <1>3, <1>5, <1>6, <3>1 DEF FiledTags, NoCategoryTags
  <2>2. NoCategoryTags => ToSet(tags) \cap some = {c}
    BY <2>1
  <2>6. "oathkeeper" \notin some /\ c \in some
    BY <1>1, <1>4, <1>5, <1>6
  <2>3. DetectCategory(tags)
          = IF First(tags, some) = {} THEN "temporal" ELSE Lower[CHOOSE t \in First(tags, some) : TRUE]
    BY DEF DetectCategory
  <2> HIDE DEF some
  <2>4. First(tags, some) = {c}
    <3>1. CASE NoCategoryTags
      BY <1>3, <2>2, <3>1, FirstFacts
    <3>2. CASE ~sorts
      BY <1>3, <1>10, <2>6, <3>2, SecondIsFirst
    <3> QED BY <1>8, <3>1, <3>2
  <2>5. DetectCategory(tags) = Lower[c]
    BY <2>3, <2>4
  <2> QED BY <1>1, <1>6, <2>5
<1>9. ASSUME extraTags = <<>> \/ ~sorts PROVE CategoryTag(tags) = {c}
  <2> DEFINE some == {t \in ToSet(tags) : Lower[t] # "oathkeeper" /\ ~IsSessionTag(t)}
  <2>1. CategoryTag(tags) = {Lower[t] : t \in First(tags, some)}
    BY DEF CategoryTag
  <2>2. c \in some /\ "oathkeeper" \notin some
    BY <1>1, <1>4, <1>5, <1>6 DEF IsSessionTag
  <2>3. First(tags, some) = {c}
    <3>1. CASE extraTags = <<>>
      <4>1. ToSet(extraTags) = {}
        BY <3>1 DEF ToSet
      <4>2. ToSet(tags) \cap some = {c}
        BY <1>3, <1>6, <2>2, <4>1 DEF FiledTags, IsSessionTag
      <4> HIDE DEF some
      <4> QED BY <1>3, <4>2, FirstFacts
    <3>2. CASE ~sorts
      <4> HIDE DEF some
      <4> QED BY <1>3, <1>10, <2>2, <3>2, SecondIsFirst
    <3> QED BY <1>9, <3>1, <3>2
  <2> HIDE DEF some
  <2> QED BY <1>1, <1>6, <2>1, <2>3
<1> QED BY <1>4, <1>7, <1>8, <1>9 DEF Has, c, key, tags

\* A step that leaves one bead well filed leaves all.
LEMMA OneBead ==
  ASSUME BeadsInv, NEW b \in Beads, NEW bead \in Bead, WellFiled(bead),
         tracker' = [tracker EXCEPT ![b] = bead], UNCHANGED <<extraTags, sorts>>
  PROVE  BeadsInv'
<1>1. tracker' \in [Beads -> Bead \cup {NoBead}] /\ extraTags' \in ExtraTags
  BY DEF BeadsInv
<1>2. \A a \in Beads : tracker'[a] = IF a = b THEN bead ELSE tracker[a]
  BY DEF BeadsInv
<1>3. IsFiniteSet({a \in Beads : Exists(a)'})
  <2> DEFINE S == {a \in Beads : Exists(a)}
             T == {a \in Beads : Exists(a)'}
  <2>1. T \in SUBSET (S \cup {b})
    BY <1>2 DEF Exists
  <2>2. IsFiniteSet(S)
    BY DEF BeadsInv
  <2> HIDE DEF S, T
  <2>3. IsFiniteSet(S \cup {b})
    BY <2>2, FS_AddElement
  <2>4. IsFiniteSet(T)
    BY <2>1, <2>3, FS_Subset
  <2> QED BY <2>4 DEF T
<1>4. ASSUME NEW a \in Beads, Exists(a)' PROVE WellFiled(tracker[a])'
  <2>1. \E x : tracker'[a] = x /\ WellFiled(x)
    <3>1. CASE a = b
      BY <1>2, <3>1
    <3>2. CASE a # b
      BY <1>2, <1>4, <3>2 DEF BeadsInv, Exists
    <3> QED BY <3>1, <3>2
  <2>2. PICK x : tracker'[a] = x /\ WellFiled(x)
    BY <2>1
  <2>3. CreateTags(tracker[a].category, tracker[a].key)' = CreateTags(x.category, x.key)
    BY <2>2 DEF CreateTags
  <2>4. \A l : l \in Labels(CreateTags(x.category, x.key))
             => l \in Labels(CreateTags(tracker[a].category, tracker[a].key))'
    BY <2>3 DEF Labels
  <2> QED BY <2>2, <2>4 DEF WellFiled
<1> QED BY <1>1, <1>3, <1>4 DEF BeadsInv

\* What a tool says of a bead that is there: its status or its date, and nothing else.
LEMMA BeadChanged ==
  ASSUME BeadsInv, NEW b \in Beads, Exists(b), NEW bead \in Bead,
         bead.category = tracker[b].category, bead.key = tracker[b].key, bead.tags = tracker[b].tags,
         tracker' = [tracker EXCEPT ![b] = bead], UNCHANGED <<extraTags, sorts>>
  PROVE  BeadsInv'
<1>1. WellFiled(tracker[b])
  BY DEF BeadsInv
<1>2. WellFiled(bead)
  BY <1>1 DEF WellFiled
<1> QED BY <1>2, OneBead

\* What is done to the transcript only does nothing to the beads.
LEMMA BeadsKept ==
  ASSUME BeadsInv, UNCHANGED <<tracker, extraTags, sorts>>
  PROVE  BeadsInv'
<1>1. ASSUME NEW b \in Beads, Exists(b)' PROVE WellFiled(tracker[b])'
  <2>1. WellFiled(tracker[b])
    BY <1>1 DEF BeadsInv, Exists
  <2>2. CreateTags(tracker[b].category, tracker[b].key)' = CreateTags(tracker[b].category, tracker[b].key)
    BY DEF CreateTags
  <2>3. \A l : l \in Labels(CreateTags(tracker[b].category, tracker[b].key))
             => l \in Labels(CreateTags(tracker[b].category, tracker[b].key))'
    BY <2>2 DEF Labels
  <2> QED BY <2>1, <2>3 DEF WellFiled
<1>2. {b \in Beads : Exists(b)}' = {b \in Beads : Exists(b)}
  BY DEF Exists
<1> QED BY <1>1, <1>2 DEF BeadsInv

\* The daemon files a bead well, other tools file one with no category.
LEMMA FileBeadKeeps ==
  ASSUME BeadsInv, NEW b \in Beads, NEW i, NEW key \in SessionKeys, FileBead(b, i, key)
  PROVE  BeadsInv'
<1>1. PICK d \in DetectCommitment(said[i].text.features, MinConfidence) :
        \E labels \in Labels(CreateTags(d.category, key)) :
          tracker' = [tracker EXCEPT ![b] =
            [status |-> "open", created |-> "recent", category |-> d.category, key |-> key,
             tags |-> labels]]
  BY DEF FileBead
<1>2. PICK labels \in Labels(CreateTags(d.category, key)) :
        tracker' = [tracker EXCEPT ![b] =
          [status |-> "open", created |-> "recent", category |-> d.category, key |-> key,
           tags |-> labels]]
  BY <1>1
<1>3. d.category \in ToSet(Categories)
  BY DEF DetectCommitment, DecidingRule, Earliest, Hits, ToSet
<1> DEFINE c == d.category
           bead == [status |-> "open", created |-> "recent", category |-> c, key |-> key, tags |-> labels]
<1> HIDE DEF c
<1>4. labels \in Seq(DOMAIN Lower)
  <2>1. CreateTags(c, key) \in Seq(DOMAIN Lower)
    BY <1>3, CreateTagsFacts DEF BeadsInv, c
  <2> QED BY <1>2, <2>1, LabelsFacts DEF c
<1>5. bead \in Bead
  BY <1>3, <1>4, CommandsAssumption DEF Bead, c
<1>6. WellFiled(bead)
  BY <1>2 DEF WellFiled, c
<1>7. tracker' = [tracker EXCEPT ![b] = bead] /\ UNCHANGED <<extraTags, sorts>>
  BY <1>2 DEF FileBead, c
<1> HIDE DEF bead
<1> QED BY <1>5, <1>6, <1>7, OneBead

LEMMA FileOtherBeadKeeps ==
  ASSUME BeadsInv, NEW b \in Beads, NEW tags \in OtherTags,
         NEW created \in {"recent", "unset", "malformed"}, FileOtherBead(b, tags, created)
  PROVE  BeadsInv'
<1>1. PICK labels \in Labels(tags) :
        tracker' = [tracker EXCEPT ![b] =
          [status |-> "open", created |-> created, category |-> "", key |-> "", tags |-> labels]]
  BY DEF FileOtherBead
<1> DEFINE bead == [status |-> "open", created |-> created, category |-> "", key |-> "", tags |-> labels]
<1>2. tags \in Seq(DOMAIN Lower)
  <2>1. tags \in Seq(ToSet(tags)) /\ ToSet(tags) \subseteq DOMAIN Lower
    BY TagsAssumption
  <2> QED BY <2>1, SeqMonotonic
<1>3. labels \in Seq(DOMAIN Lower)
  BY <1>2, LabelsFacts
<1>4. bead \in Bead
  BY <1>3, CommandsAssumption DEF Bead
<1>5. WellFiled(bead)
  BY DEF WellFiled
<1>6. tracker' = [tracker EXCEPT ![b] = bead] /\ UNCHANGED <<extraTags, sorts>>
  BY <1>1 DEF FileOtherBead
<1> HIDE DEF bead
<1> QED BY <1>4, <1>5, <1>6, OneBead

\* Setting the status, as users and br close do.
LEMMA StatusKeeps ==
  ASSUME BeadsInv, NEW b \in Beads, Exists(b), NEW status \in Statuses,
         tracker' = [tracker EXCEPT ![b].status = status], UNCHANGED <<extraTags, sorts>>
  PROVE  BeadsInv'
<1>1. tracker[b] \in Bead
  BY BeadOrNot
<1> DEFINE bead == [tracker[b] EXCEPT !.status = status]
<1>2. /\ bead \in Bead
      /\ bead.category = tracker[b].category /\ bead.key = tracker[b].key /\ bead.tags = tracker[b].tags
  BY <1>1 DEF Bead
<1>3. tracker' = [tracker EXCEPT ![b] = bead]
  OBVIOUS
<1> HIDE DEF bead
<1> QED BY <1>2, <1>3, BeadChanged

\* Time passes.
LEMMA GrowOldKeeps ==
  ASSUME BeadsInv, NEW b \in Beads, GrowOld(b)
  PROVE  BeadsInv'
<1>1. Exists(b) /\ tracker[b] \in Bead
  BY BeadOrNot DEF GrowOld
<1> DEFINE bead == [tracker[b] EXCEPT !.created = "old"]
<1>2. /\ bead \in Bead
      /\ bead.category = tracker[b].category /\ bead.key = tracker[b].key /\ bead.tags = tracker[b].tags
  BY <1>1 DEF Bead
<1>3. tracker' = [tracker EXCEPT ![b] = bead] /\ UNCHANGED <<extraTags, sorts>>
  BY DEF GrowOld
<1> HIDE DEF bead
<1> QED BY <1>1, <1>2, <1>3, BeadChanged

\* Whatever is filed, moved, closed or grows old.
LEMMA BeadsInvariant == Spec => []BeadsInv
<1>1. Init => BeadsInv
  <2> SUFFICES ASSUME Init PROVE BeadsInv
    OBVIOUS
  <2>1. /\ extraTags \in ExtraTags /\ tracker \in [Beads -> Bead \cup {NoBead}]
        /\ \A b \in Beads : ~Exists(b)
    BY DEF Init, Exists
  <2>2. {b \in Beads : Exists(b)} = {}
    BY <2>1
  <2> QED BY <2>1, <2>2, FS_EmptySet DEF BeadsInv
<1>2. BeadsInv /\ [Next]_vars => BeadsInv'
  <2> SUFFICES ASSUME BeadsInv, [Next]_vars PROVE BeadsInv'
    OBVIOUS
  <2>1. ASSUME NEW line \in Lines, NEW dropped \in SUBSET DOMAIN line.texts, WriteLine(line, dropped)
        PROVE  BeadsInv'
    BY <2>1, BeadsKept DEF WriteLine
  <2>2. ASSUME NEW b \in Beads, NEW i \in DOMAIN said, NEW key \in SessionKeys,
               FileBead(b, i, key)
        PROVE  BeadsInv'
    BY <2>2, FileBeadKeeps
  <2>3. ASSUME NEW b \in Beads, NEW tags \in OtherTags, NEW created \in {"recent", "unset", "malformed"},
               FileOtherBead(b, tags, created)
        PROVE  BeadsInv'
    BY <2>3, FileOtherBeadKeeps
  <2>4. ASSUME NEW b \in Beads, NEW status \in Statuses, Move(b, status)
        PROVE  BeadsInv'
    BY <2>4, StatusKeeps DEF Move
  <2>5. ASSUME NEW b \in Beads, GrowOld(b) PROVE BeadsInv'
    BY <2>5, GrowOldKeeps
  <2>6. ASSUME NEW command \in ResolveCommands, CliResolve(command) PROVE BeadsInv'
    <3>1. CASE UNCHANGED tracker
      BY <2>6, <3>1, BeadsKept DEF CliResolve
    <3>2. CASE ~UNCHANGED tracker
      <4> DEFINE b == command.bead
      <4>1. /\ b \in Beads /\ Exists(b) /\ tracker' = [tracker EXCEPT ![b].status = "closed"]
            /\ UNCHANGED <<extraTags, sorts>>
        BY <2>6, <3>2 DEF CliResolve
      <4>2. "closed" \in Statuses
        BY CommandsAssumption
      <4> HIDE DEF b
      <4> QED BY <4>1, <4>2, StatusKeeps
    <3> QED BY <3>1, <3>2
  <2>7. CASE UNCHANGED vars
    BY <2>7, BeadsKept DEF vars
  <2> QED BY <2>1, <2>2, <2>3, <2>4, <2>5, <2>6, <2>7 DEF Next
<1> QED BY <1>1, <1>2, PTL DEF Spec

-----------------------------------------------------------------------------
(* The reports *)

\* The list of a status is that of all beads, less those of another status.
LEMMA ListOfStatus ==
  ASSUME NEW status, status # "", NEW category, NEW recent
  PROVE  List(status, category, recent) = WithStatus(List("", category, recent), {status})
BY DEF List, Shown, WithStatus

\* Without --tag nothing is filtered; of the statuses, "all" and none have another name.
LEMMA CliListIs ==
  ASSUME NEW status, NEW category, NEW recent
  PROVE  CliList(status, category, recent, {}) = List(CliStatus(status), category, recent)
BY DEF CliList, FilterByTags

\* There are finitely many beads, whatever Beads is.
LEMMA ListFinite ==
  ASSUME BeadsInv, NEW status, NEW category, NEW recent, NEW S \in SUBSET List(status, category, recent)
  PROVE  IsFiniteSet(S) /\ Cardinality(S) \in Nat
<1>1. S \in SUBSET {b \in Beads : Exists(b)}
  BY DEF List, Shown
<1>2. IsFiniteSet({b \in Beads : Exists(b)})
  BY DEF BeadsInv
<1>3. IsFiniteSet(S)
  <2> DEFINE T == {b \in Beads : Exists(b)}
  <2> HIDE DEF T
  <2> QED BY <1>1, <1>2, FS_Subset DEF T
<1> QED BY <1>3, FS_CardinalityType

\* A tag that is looked for is written in lower case, as is what is found.
LEMMA CountsAreListed ==
  ASSUME BeadsInv, NEW c
  PROVE  {b \in List("", "", FALSE) : c \in CategoryTag(tracker[b].tags)}
           \subseteq FilterByTags(List("", "", FALSE), {c})
<1> SUFFICES ASSUME NEW b \in List("", "", FALSE), c \in CategoryTag(tracker[b].tags)
             PROVE  \E u \in ToSet(tracker[b].tags) : Lower[u] = Lower[c]
  BY DEF FilterByTags
<1> DEFINE tags == tracker[b].tags
<1>1. tags \in Seq(DOMAIN Lower)
  <2>1. b \in Beads /\ Exists(b)
    BY DEF List, Shown
  <2> QED BY <2>1, BeadOrNot DEF Bead
<1>2. PICK t \in First(tags, {t \in ToSet(tags) : Lower[t] # "oathkeeper" /\ ~IsSessionTag(t)}) : c = Lower[t]
  BY DEF CategoryTag
<1> HIDE DEF tags
<1>3. t \in ToSet(tags)
  BY <1>1, FirstFacts
<1>4. t \in DOMAIN Lower
  <2>1. DOMAIN tags = 1 .. Len(tags)
    BY <1>1, LenProperties
  <2> QED BY <1>1, <1>3, <2>1, ElementOfSeq DEF ToSet
<1>5. Lower[Lower[t]] = Lower[t]
  BY <1>4, TagsAssumption
<1> QED BY <1>2, <1>3, <1>5 DEF tags

\* However many beads there are, of whatever labels and statuses, and whatever happens to
\* them: what the command line and the API report of the same list is the same, but that
\* "resolved" counts as resolved for the command line only; and a bead of the daemon is
\* read back as what it was filed as, but for what a --tag may pass for.
THEOREM ReportsAlwaysAgree == Spec => []ReportsAgree
<1>1. BeadsInv => ReportsAgree
  <2> SUFFICES ASSUME BeadsInv, ~ListFails("") PROVE ReportsAgree
    BY DEF ReportsAgree
  <2> DEFINE all == List("", "", FALSE)
  <2>1. \A b \in all : tracker[b].status \in Statuses
    BY BeadOrNot DEF List, Shown, Bead
  <2>2. \A field \in {"total", "open", "byCategory"} : CliStats[field] = ApiStats[field]
    <3>1. /\ ApiStats.total = CliStats.total /\ ApiStats.open = CliStats.open
          /\ ApiStats.byCategory = CliStats.byCategory
      BY DEF ApiStats, CliStats, StatsStatus
    <3> QED BY <3>1
  <2>3. \A status : ~ListFails(status)
    BY DEF Shown, ListFails
  <2>4. ASSUME NEW status, status # ""
        PROVE  ApiList(status, "") = WithStatus(all, {status})
    BY <2>4, ListOfStatus DEF ApiList
  <2>11. ASSUME NEW status \in {"open", "closed"}
         PROVE  CliList(status, "", FALSE, {}) = ApiList(status, "")
    <3>1. CliStatus(status) = status
      BY DEF CliStatus
    <3> QED BY <3>1, CliListIs DEF ApiList
  <2>5. CliStats.open = Cardinality(CliList("", "", FALSE, {}))
    <3>1. CliStatus("") = "open"
      BY DEF CliStatus
    <3>2. CliList("", "", FALSE, {}) = WithStatus(all, {"open"})
      <4>1. CliList("", "", FALSE, {}) = List("open", "", FALSE)
        BY <3>1, CliListIs
      <4>2. List("open", "", FALSE) = WithStatus(all, {"open"})
        BY ListOfStatus
      <4> QED BY <4>1, <4>2
    <3> QED BY <3>2 DEF CliStats
  <2>6. /\ ApiStats.resolved = Cardinality(ApiList("closed", ""))
        /\ CliStats.resolved = Cardinality(ApiList("closed", "")) + Cardinality(ApiList("resolved", ""))
    <3> DEFINE C == WithStatus(all, {"closed"})
               R == WithStatus(all, {"resolved"})
    <3>1. ApiList("closed", "") = C /\ ApiList("resolved", "") = R
      BY <2>4
    <3>2. ApiStats.resolved = Cardinality(C)
      BY DEF ApiStats, StatsStatus
    <3>3. WithStatus(all, {"closed", "resolved"}) = C \cup R /\ C \cap R = {}
      BY DEF WithStatus
    <3>4. IsFiniteSet(C) /\ IsFiniteSet(R)
      <4>1. C \in SUBSET all /\ R \in SUBSET all
        BY DEF WithStatus
      <4> QED BY <4>1, ListFinite
    <3>5. CliStats.resolved = Cardinality(C \cup R)
      BY <3>3 DEF CliStats
    <3> HIDE DEF C, R
    <3>6. /\ Cardinality(C \cup R) = Cardinality(C) + Cardinality(R) - Cardinality(C \cap R)
          /\ Cardinality(C \cap R) = 0 /\ Cardinality(C) \in Nat /\ Cardinality(R) \in Nat
      BY <3>3, <3>4, FS_Union, FS_EmptySet, FS_CardinalityType
    <3>7. CliStats.resolved = Cardinality(C) + Cardinality(R)
      <4>1. Cardinality(C \cup R) = Cardinality(C) + Cardinality(R)
        BY ONLY <3>6
      <4> QED BY <3>5, <4>1
    <3> QED BY <3>1, <3>2, <3>7
  <2>12. ASSUME NEW status \in DOMAIN CliStats.byStatus
         PROVE  CliStats.byStatus[status] = Cardinality(ApiList(status, ""))
    <3>1. status \in {tracker[b].status : b \in all}
      BY <2>12 DEF CliStats
    <3>2. status # ""
      BY <2>1, <3>1, CommandsAssumption
    <3>3. CliStats.byStatus[status] = Cardinality(WithStatus(all, {status}))
      BY <3>1 DEF CliStats
    <3> QED BY <2>4, <3>2, <3>3
  <2>7. CliStatus("all") = ""
    BY DEF CliStatus
  <2>8. CliStats.recent = Cardinality(CliList("all", "", TRUE, {}))
    <3>1. CliList("all", "", TRUE, {}) = {b \in all : tracker[b].created = "recent"}
      <4>1. CliList("all", "", TRUE, {}) = List("", "", TRUE)
        BY <2>7, CliListIs
      <4>2. List("", "", TRUE) = {b \in all : tracker[b].created = "recent"}
        BY DEF List
      <4> QED BY <4>1, <4>2
    <3> QED BY <3>1 DEF CliStats
  <2>9. ASSUME NEW c \in DOMAIN CliStats.byCategory
        PROVE  CliStats.byCategory[c] <= Cardinality(CliList("all", "", FALSE, {c}))
    <3> DEFINE S == {b \in all : c \in CategoryTag(tracker[b].tags)}
               T == FilterByTags(all, {c})
    <3>1. CliList("all", "", FALSE, {c}) = T
      BY <2>7 DEF CliList
    <3>2. CliStats.byCategory[c] = Cardinality(S)
      BY <2>9 DEF CliStats, CountByCategory
    <3>3. S \in SUBSET T
      BY CountsAreListed
    <3>4. IsFiniteSet(T)
      <4>1. T \in SUBSET all
        BY DEF FilterByTags
      <4> QED BY <4>1, ListFinite
    <3> HIDE DEF S, T
    <3>5. Cardinality(S) <= Cardinality(T)
      BY <3>3, <3>4, FS_Subset
    <3> QED BY <3>1, <3>2, <3>5
  <2>10. ASSUME NEW b \in Beads, Filed(b)
         PROVE  LET bead == tracker[b]
                IN  /\ b \in CliList("all", bead.category, FALSE, {TagOf[bead.key]} \ {NoTag})
                    /\ NoSessionTags => TagOf[SessionKey(bead.tags)] = TagOf[bead.key]
                    /\ NoCategoryTags \/ ~sorts => DetectCategory(bead.tags) = bead.category
                    /\ extraTags = <<>> \/ ~sorts => CategoryTag(bead.tags) = {bead.category}
    <3> DEFINE c == tracker[b].category
               key == tracker[b].key
    <3>1. /\ Has(b, "oathkeeper") /\ Has(b, c)
          /\ TagOf[key] # NoTag => Has(b, TagOf[key])
      BY <2>10, FiledIsFound
    <3>2. b \in List("", c, FALSE)
      BY <2>10, <3>1 DEF List, Shown, Filed
    <3>3. b \in FilterByTags(List("", c, FALSE), {TagOf[key]} \ {NoTag})
      BY <3>1, <3>2 DEF FilterByTags, Has
    <3>4. b \in CliList("all", c, FALSE, {TagOf[key]} \ {NoTag})
      BY <2>7, <3>3 DEF CliList
    <3> QED BY <2>10, <3>4, FiledIsFound
  <2> HIDE DEF all
  <2> QED BY <2>2, <2>3, <2>5, <2>6, <2>8, <2>9, <2>10, <2>11, <2>12 DEF ReportsAgree
<1> QED BY <1>1, BeadsInvariant, PTL
=============================================================================
