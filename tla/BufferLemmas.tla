----------------------------- MODULE BufferLemmas -----------------------------
(***************************************************************************)
(* What the proofs about streams and buffers need: induction over the      *)
(* numbers, what FlattenSeq makes of a sequence of sequences, and what a   *)
(* write leaves in memory.  FlattenSeq is defined by recursion, and tlapm  *)
(* cannot use a theorem on induction that takes the claim as an operator,  *)
(* so the claim is a set: the numbers for which it holds.                  *)
(***************************************************************************)
EXTENDS Buffer, FiniteSetTheorems, SequenceTheorems, WellFoundedInduction,
        TLAPS

-----------------------------------------------------------------------------
(* Induction, and the recursive function behind FlattenSeq.                 *)

\* A set of numbers has a least one.
LEMMA Least ==
  ASSUME NEW S, S \subseteq Nat, S # {}
  PROVE  \E x \in S : \A y \in S : x <= y
<1>1. PICK x \in S : \A y \in S : ~ (<<y, x>> \in OpToRel(<, Nat))
  BY NatLessThanWellFounded, WFMin
<1>2. ASSUME NEW y \in S PROVE x <= y
  <2>1. <<y, x>> \notin OpToRel(<, Nat)
    BY <1>1
  <2>2. x \in Nat /\ y \in Nat
    OBVIOUS
  <2>3. ~(y < x)
    BY <2>1, <2>2 DEF OpToRel
  <2> QED BY <2>2, <2>3
<1> QED BY <1>2

\* What holds of 0 and is inherited holds of every number.
LEMMA SetInduction ==
  ASSUME NEW S, 0 \in S, \A n \in Nat : n \in S => n + 1 \in S
  PROVE  Nat \subseteq S
<1>1. SUFFICES ASSUME Nat \ S # {} PROVE FALSE
  OBVIOUS
<1>2. PICK x \in Nat \ S : \A y \in Nat \ S : x <= y
  BY <1>1, Least
<1>3. x - 1 \in Nat /\ (x - 1) + 1 = x
  BY <1>2
<1>4. x - 1 \in S
  BY <1>2, <1>3
<1> QED BY <1>2, <1>3, <1>4
\* f flattens the first n sequences of s.
IsFlat(f, s, n) ==
  f = [i \in 1..n |-> IF i = 1 THEN s[i] ELSE f[i - 1] \o s[i]]

LEMMA FlatAt ==
  ASSUME NEW f, NEW s, NEW n, IsFlat(f, s, n), NEW i \in 1..n
  PROVE  f[i] = IF i = 1 THEN s[i] ELSE f[i - 1] \o s[i]
BY DEF IsFlat

LEMMA FlatLast ==
  ASSUME NEW f, NEW s, NEW n \in Nat, IsFlat(f, s, n + 1)
  PROVE  f[n + 1] = IF n = 0 THEN s[n + 1] ELSE f[n] \o s[n + 1]
<1>1. n + 1 \in 1..(n + 1) /\ n + 1 - 1 = n /\ (n + 1 = 1 <=> n = 0)
  OBVIOUS
<1>2. f[n + 1] = IF n + 1 = 1 THEN s[n + 1] ELSE f[n + 1 - 1] \o s[n + 1]
  BY <1>1, FlatAt
<1> QED BY <1>1, <1>2

LEMMA FlatExists ==
  ASSUME NEW S, NEW s \in Seq(Seq(S)), NEW n \in 0..Len(s)
  PROVE  \E f \in [1..n -> Seq(S)] : IsFlat(f, s, n)
<1> DEFINE Good == {k \in Nat : k <= Len(s) =>
                      \E f \in [1..k -> Seq(S)] : IsFlat(f, s, k)}
<1>1. 0 \in Good
  <2> DEFINE f == [i \in 1..0 |-> <<>>]
  <2>1. f \in [1..0 -> Seq(S)]
    OBVIOUS
  <2>2. IsFlat(f, s, 0)
    BY DEF IsFlat
  <2> QED BY <2>1, <2>2
<1>2. ASSUME NEW k \in Nat, k \in Good PROVE k + 1 \in Good
  <2> SUFFICES ASSUME k + 1 <= Len(s)
               PROVE  \E g \in [1..(k + 1) -> Seq(S)] : IsFlat(g, s, k + 1)
    OBVIOUS
  <2>1. PICK f \in [1..k -> Seq(S)] : IsFlat(f, s, k)
    BY <1>2
  <2> DEFINE last == IF k = 0 THEN s[k + 1] ELSE f[k] \o s[k + 1]
             g == [i \in 1..(k + 1) |-> IF i = k + 1 THEN last ELSE f[i]]
  <2>2. s[k + 1] \in Seq(S)
    OBVIOUS
  <2>3. last \in Seq(S)
    <3>1. k # 0 => f[k] \in Seq(S)
      OBVIOUS
    <3> QED BY <3>1, <2>2
  <2>4. g \in [1..(k + 1) -> Seq(S)]
    BY <2>3
  <2>5. ASSUME NEW i \in 1..(k + 1)
        PROVE  g[i] = IF i = 1 THEN s[i] ELSE g[i - 1] \o s[i]
    <3>1. CASE i = k + 1
      <4>1. g[i] = last
        BY <3>1
      <4>2. k # 0 => g[i - 1] = f[k]
        BY <3>1
      <4> QED BY <4>1, <4>2, <3>1
    <3>2. CASE i # k + 1
      <4>1. i \in 1..k
        BY <3>2
      <4>2. g[i] = f[i]
        BY <3>2
      <4>4. i # 1 => g[i - 1] = f[i - 1]
        BY <4>1
      <4>3. f[i] = IF i = 1 THEN s[i] ELSE f[i - 1] \o s[i]
        BY <4>1, <2>1 DEF IsFlat
      <4> QED BY <4>2, <4>3, <4>4
    <3> QED BY <3>1, <3>2
  <2> HIDE DEF g
  <2>6. g = [i \in 1..(k + 1) |-> g[i]]
    BY <2>4
  <2>7. IsFlat(g, s, k + 1)
    BY <2>5, <2>6 DEF IsFlat
  <2> QED BY <2>4, <2>7
<1> HIDE DEF Good
<1>3. n \in Good
  <2>1. Nat \subseteq Good
    BY <1>1, <1>2, SetInduction
  <2> QED BY <2>1
<1> QED BY <1>3 DEF Good

LEMMA FlatUnique ==
  ASSUME NEW f, NEW s, NEW m \in Nat, IsFlat(f, s, m),
         NEW g, NEW t, NEW n \in Nat, IsFlat(g, t, n),
         NEW k \in 1..m, k <= n, \A i \in 1..k : s[i] = t[i]
  PROVE  f[k] = g[k]
<1> DEFINE Same == {i \in Nat : i \in 1..k => f[i] = g[i]}
<1>1. 0 \in Same
  OBVIOUS
<1>2. ASSUME NEW i \in Nat, i \in Same PROVE i + 1 \in Same
  <2> SUFFICES ASSUME i + 1 \in 1..k PROVE f[i + 1] = g[i + 1]
    OBVIOUS
  <2>1. i + 1 \in 1..m /\ i + 1 \in 1..n
    OBVIOUS
  <2>2. f[i + 1] = IF i + 1 = 1 THEN s[i + 1] ELSE f[i + 1 - 1] \o s[i + 1]
    BY <2>1, FlatAt
  <2>3. g[i + 1] = IF i + 1 = 1 THEN t[i + 1] ELSE g[i + 1 - 1] \o t[i + 1]
    BY <2>1, FlatAt
  <2>4. i + 1 = 1 \/ (i \in 1..k /\ i + 1 - 1 = i)
    OBVIOUS
  <2>5. s[i + 1] = t[i + 1]
    OBVIOUS
  <2> QED BY <2>2, <2>3, <2>4, <2>5, <1>2
<1> HIDE DEF Same
<1>3. Nat \subseteq Same
  BY <1>1, <1>2, SetInduction
<1> QED BY <1>3 DEF Same

\* One more sequence is flattened into f than into g.
Longer(f, t, g, s, n) ==
  /\ n \in Nat \ {0} /\ IsFlat(f, t, n + 1) /\ IsFlat(g, s, n)
  /\ \A i \in 1..n : t[i] = s[i]

LEMMA FlatLonger ==
  ASSUME NEW f, NEW t, NEW g, NEW s, NEW n, Longer(f, t, g, s, n)
  PROVE  f[n] = g[n]
<1>1. n + 1 \in Nat /\ n \in Nat /\ n \in 1..(n + 1) /\ n <= n
  BY DEF Longer
<1>2. IsFlat(f, t, n + 1) /\ IsFlat(g, s, n) /\ \A i \in 1..n : t[i] = s[i]
  BY DEF Longer
<1> QED BY <1>1, <1>2, FlatUnique

LEMMA FlattenIsTyped ==
  ASSUME NEW S, NEW s \in Seq(Seq(S)), Len(s) # 0
  PROVE  \E f \in [1..Len(s) -> Seq(S)] :
            IsFlat(f, s, Len(s)) /\ FlattenSeq(s) = f[Len(s)]
<1> DEFINE f == CHOOSE h : IsFlat(h, s, Len(s))
<1>1. FlattenSeq(s) = f[Len(s)]
  BY DEF FlattenSeq, IsFlat
<1>2. PICK g \in [1..Len(s) -> Seq(S)] : IsFlat(g, s, Len(s))
  BY FlatExists
<1>3. IsFlat(f, s, Len(s))
  BY <1>2
<1> HIDE DEF f
<1>4. f[Len(s)] = g[Len(s)]
  <2>1. Len(s) \in Nat /\ Len(s) \in 1..Len(s)
    OBVIOUS
  <2> QED BY <2>1, <1>2, <1>3, FlatUnique
<1> QED BY <1>1, <1>2, <1>4

LEMMA FlattenIs ==
  ASSUME NEW S, NEW s \in Seq(Seq(S)), Len(s) # 0
  PROVE  \E f : IsFlat(f, s, Len(s)) /\ FlattenSeq(s) = f[Len(s)]
BY FlattenIsTyped

LEMMA FlattenEmpty == FlattenSeq(<<>>) = <<>>
BY DEF FlattenSeq

LEMMA FlattenType ==
  ASSUME NEW S, NEW s \in Seq(Seq(S)) PROVE FlattenSeq(s) \in Seq(S)
<1>1. CASE Len(s) = 0
  <2>1. s = <<>>
    BY <1>1
  <2>2. <<>> \in Seq(S)
    OBVIOUS
  <2> QED BY <2>1, <2>2, FlattenEmpty, Zenon
<1>2. CASE Len(s) # 0
  <2>1. PICK f \in [1..Len(s) -> Seq(S)] :
          IsFlat(f, s, Len(s)) /\ FlattenSeq(s) = f[Len(s)]
    BY <1>2, FlattenIsTyped
  <2>2. Len(s) \in 1..Len(s)
    BY <1>2
  <2> QED BY <2>1, <2>2
<1> QED BY <1>1, <1>2

LEMMA FlattenLonger ==
  ASSUME NEW S, NEW s \in Seq(Seq(S)), NEW t \in Seq(Seq(S)), NEW n \in Nat,
         Len(s) = n, Len(t) = n + 1, \A i \in 1..n : t[i] = s[i]
  PROVE  FlattenSeq(t) = FlattenSeq(s) \o t[n + 1]
<1>1. PICK f : IsFlat(f, t, n + 1) /\ FlattenSeq(t) = f[n + 1]
  <2>1. Len(t) # 0
    OBVIOUS
  <2> QED BY <2>1, FlattenIs
<1>2. f[n + 1] = IF n = 0 THEN t[n + 1] ELSE f[n] \o t[n + 1]
  <2>1. n \in Nat /\ IsFlat(f, t, n + 1)
    BY <1>1
  <2> QED BY ONLY <2>1, FlatLast, ZenonT(60)
<1>3. CASE n = 0
  <2>1. s = <<>> /\ t[n + 1] \in Seq(S)
    BY <1>3
  <2>2. <<>> \o t[n + 1] = t[n + 1]
    BY <2>1
  <2> QED BY <2>1, <2>2, <1>1, <1>2, <1>3, FlattenEmpty
<1>4. CASE n # 0
  <2>1. PICK g : IsFlat(g, s, n) /\ FlattenSeq(s) = g[n]
    BY <1>4, FlattenIs
  <2>2. f[n] = g[n]
    <3>1. Longer(f, t, g, s, n)
      BY <1>1, <1>4, <2>1 DEF Longer
    <3> QED BY <3>1, FlatLonger
  <2> QED BY <1>1, <1>2, <1>4, <2>1, <2>2
<1> QED BY <1>3, <1>4

LEMMA FlattenAppend ==
  ASSUME NEW S, NEW s \in Seq(Seq(S)), NEW x \in Seq(S)
  PROVE  FlattenSeq(Append(s, x)) = FlattenSeq(s) \o x
<1> DEFINE t == Append(s, x)
           n == Len(s)
<1>1. t \in Seq(Seq(S)) /\ Len(t) = n + 1 /\ t[n + 1] = x /\ n \in Nat
  OBVIOUS
<1>2. \A i \in 1..n : t[i] = s[i]
  OBVIOUS
<1> HIDE DEF t
<1>3. FlattenSeq(t) = FlattenSeq(s) \o t[n + 1]
  BY <1>1, <1>2, FlattenLonger
<1> QED BY <1>1, <1>3 DEF t

\* A sequence up to its place k.
UpTo(s, k) == [i \in 1..k |-> s[i]]

LEMMA UpToFacts ==
  ASSUME NEW S, NEW s \in Seq(Seq(S))
  PROVE  /\ UpTo(s, 0) = <<>> /\ UpTo(s, Len(s)) = s
         /\ \A k \in 0..Len(s) : UpTo(s, k) \in Seq(Seq(S))
         /\ \A k \in 0..(Len(s) - 1) : UpTo(s, k + 1) = Append(UpTo(s, k), s[k + 1])
<1>1. UpTo(s, 0) = <<>> /\ UpTo(s, Len(s)) = s
  BY DEF UpTo
<1>2. ASSUME NEW k \in 0..Len(s) PROVE UpTo(s, k) \in Seq(Seq(S))
  BY DEF UpTo
<1>3. ASSUME NEW k \in 0..(Len(s) - 1)
      PROVE  UpTo(s, k + 1) = Append(UpTo(s, k), s[k + 1])
  BY DEF UpTo
<1> QED BY <1>1, <1>2, <1>3

\* The elements of the first k sequences.
Parts(s, k) == UNION {ToSet(s[i]) : i \in 1..k}

\* Of which elements the sequence consists that FlattenSeq makes.
LEMMA FlattenElements ==
  ASSUME NEW S, NEW s \in Seq(Seq(S))
  PROVE  ToSet(FlattenSeq(s)) = Parts(s, Len(s))
<1> DEFINE Good == {k \in Nat : k <= Len(s) => ToSet(FlattenSeq(UpTo(s, k))) = Parts(s, k)}
<1>1. 0 \in Good
  <2>1. ToSet(<<>>) = {}
    BY DEF ToSet
  <2>2. Parts(s, 0) = {}
    BY DEF Parts
  <2>3. FlattenSeq(UpTo(s, 0)) = <<>>
    BY UpToFacts, FlattenEmpty
  <2> QED BY <2>1, <2>2, <2>3
<1>2. ASSUME NEW k \in Nat, k \in Good PROVE k + 1 \in Good
  <2> SUFFICES ASSUME k + 1 <= Len(s)
               PROVE  ToSet(FlattenSeq(UpTo(s, k + 1))) = Parts(s, k + 1)
    OBVIOUS
  <2> DEFINE f == FlattenSeq(UpTo(s, k))
  <2>1. s[k + 1] \in Seq(S) /\ k \in 0..Len(s) /\ k \in 0..(Len(s) - 1)
    OBVIOUS
  <2>2. UpTo(s, k) \in Seq(Seq(S)) /\ UpTo(s, k + 1) = Append(UpTo(s, k), s[k + 1])
    BY <2>1, UpToFacts
  <2>3. f \in Seq(S) /\ FlattenSeq(UpTo(s, k + 1)) = f \o s[k + 1]
    BY <2>1, <2>2, FlattenType, FlattenAppend
  <2>4. ToSet(f) = Parts(s, k)
    BY <1>2
  <2>5. Parts(s, k + 1) = Parts(s, k) \cup ToSet(s[k + 1])
    <3>1. 1..(k + 1) = 1..k \cup {k + 1}
      OBVIOUS
    <3> QED BY <3>1 DEF Parts
  <2> HIDE DEF f
  <2>6. ASSUME NEW x \in Seq(S) PROVE ToSet(f \o x) = ToSet(f) \cup ToSet(x)
    <3>1. Len(f \o x) = Len(f) + Len(x) /\ Len(f) \in Nat /\ Len(x) \in Nat
      BY <2>3
    <3>2. \A i \in 1..Len(f) : (f \o x)[i] = f[i]
      BY <2>3
    <3>3. \A i \in 1..Len(x) : (f \o x)[Len(f) + i] = x[i]
      BY <2>3
    <3>4. ToSet(f \o x) = {(f \o x)[i] : i \in 1..(Len(f) + Len(x))}
      <4>1. f \o x \in Seq(S)
        BY <2>3
      <4>2. DOMAIN (f \o x) = 1..(Len(f) + Len(x))
        BY <3>1, <4>1
      <4> QED BY <4>2 DEF ToSet
    <3>5. ToSet(f) = {f[i] : i \in 1..Len(f)} /\ ToSet(x) = {x[i] : i \in 1..Len(x)}
      BY <2>3 DEF ToSet
    <3>6. ASSUME NEW e \in ToSet(f \o x) PROVE e \in ToSet(f) \cup ToSet(x)
      <4>1. PICK i \in 1..(Len(f) + Len(x)) : e = (f \o x)[i]
        BY <3>4
      <4>2. CASE i <= Len(f)
        BY <4>1, <4>2, <3>1, <3>2, <3>5
      <4>3. CASE i > Len(f)
        <5>1. i - Len(f) \in 1..Len(x) /\ Len(f) + (i - Len(f)) = i
          BY <4>3, <3>1
        <5> QED BY <5>1, <4>1, <3>3, <3>5
      <4> QED BY <4>2, <4>3, <3>1
    <3>7. ASSUME NEW e \in ToSet(f) PROVE e \in ToSet(f \o x)
      <4>1. PICK i \in 1..Len(f) : e = f[i]
        BY <3>5
      <4>2. i \in 1..(Len(f) + Len(x))
        BY <3>1
      <4> QED BY <4>1, <4>2, <3>2, <3>4
    <3>8. ASSUME NEW e \in ToSet(x) PROVE e \in ToSet(f \o x)
      <4>1. PICK i \in 1..Len(x) : e = x[i]
        BY <3>5
      <4>2. Len(f) + i \in 1..(Len(f) + Len(x))
        BY <3>1
      <4> QED BY <4>1, <4>2, <3>3, <3>4
    <3> QED BY <3>6, <3>7, <3>8
  <2> QED BY <2>1, <2>3, <2>4, <2>5, <2>6
<1> HIDE DEF Good
<1>3. Nat \subseteq Good
  BY <1>1, <1>2, SetInduction
<1>4. ToSet(FlattenSeq(UpTo(s, Len(s)))) = Parts(s, Len(s))
  <2>1. Len(s) \in Good
    BY <1>3
  <2> QED BY <2>1 DEF Good
<1>5. UpTo(s, Len(s)) = s
  BY UpToFacts
<1> QED BY <1>4, <1>5

-----------------------------------------------------------------------------
(* Where each sequence starts in what FlattenSeq makes of them.             *)

\* Where the k-th sequence of s ends in what FlattenSeq makes of s.
StartOf(s, k) == Len(FlattenSeq(UpTo(s, k)))

LEMMA StartFacts ==
  ASSUME NEW S, NEW s \in Seq(Seq(S))
  PROVE  /\ StartOf(s, 0) = 0 /\ StartOf(s, Len(s)) = Len(FlattenSeq(s))
         /\ \A k \in 0..Len(s) : StartOf(s, k) \in Nat
         /\ \A k \in 0..(Len(s) - 1) : StartOf(s, k + 1) = StartOf(s, k) + Len(s[k + 1])
<1>1. StartOf(s, 0) = 0
  <2>1. UpTo(s, 0) = <<>>
    BY UpToFacts
  <2>2. Len(<<>>) = 0
    OBVIOUS
  <2> QED BY ONLY <2>1, <2>2, FlattenEmpty DEF StartOf
<1>2. StartOf(s, Len(s)) = Len(FlattenSeq(s))
  <2>1. UpTo(s, Len(s)) = s
    BY UpToFacts
  <2> QED BY ONLY <2>1 DEF StartOf
<1>3. ASSUME NEW k \in 0..Len(s) PROVE FlattenSeq(UpTo(s, k)) \in Seq(S)
  BY UpToFacts, FlattenType
<1>4. ASSUME NEW k \in 0..Len(s) PROVE StartOf(s, k) \in Nat
  BY <1>3, LenProperties DEF StartOf
<1>5. ASSUME NEW k \in 0..(Len(s) - 1)
      PROVE  StartOf(s, k + 1) = StartOf(s, k) + Len(s[k + 1])
  <2> DEFINE u == UpTo(s, k)
             x == s[k + 1]
  <2>1. k \in 0..Len(s) /\ x \in Seq(S)
    OBVIOUS
  <2>2. u \in Seq(Seq(S)) /\ UpTo(s, k + 1) = Append(u, x)
    BY <2>1, UpToFacts
  <2>3. FlattenSeq(u) \in Seq(S)
    BY <2>1, <1>3
  <2> HIDE DEF u, x
  <2>4. FlattenSeq(UpTo(s, k + 1)) = FlattenSeq(u) \o x
    BY <2>1, <2>2, FlattenAppend
  <2>5. Len(FlattenSeq(u) \o x) = Len(FlattenSeq(u)) + Len(x)
    BY <2>1, <2>3, ConcatProperties
  <2> QED BY <2>4, <2>5 DEF StartOf, u, x
<1> QED BY <1>1, <1>2, <1>4, <1>5

\* Sequences that are not empty move the start on.
LEMMA StartGrows ==
  ASSUME NEW S, NEW s \in Seq(Seq(S)), \A i \in 1..Len(s) : Len(s[i]) >= 1,
         NEW k \in 0..Len(s), NEW j \in k..Len(s)
  PROVE  StartOf(s, k) + (j - k) <= StartOf(s, j)
<1> DEFINE Good == {d \in Nat : k + d <= Len(s) =>
                      StartOf(s, k) + d <= StartOf(s, k + d)}
<1>1. 0 \in Good
  <2>1. StartOf(s, k) \in Nat /\ k + 0 = k
    BY StartFacts
  <2> QED BY <2>1
<1>2. ASSUME NEW d \in Nat, d \in Good PROVE d + 1 \in Good
  <2> SUFFICES ASSUME k + (d + 1) <= Len(s)
               PROVE  StartOf(s, k) + (d + 1) <= StartOf(s, k + (d + 1))
    OBVIOUS
  <2> DEFINE m == k + d
  <2>1. m \in 0..(Len(s) - 1) /\ m \in 0..Len(s) /\ m + 1 \in 1..Len(s)
        /\ k + (d + 1) = m + 1
    OBVIOUS
  <2>2. StartOf(s, k) + d <= StartOf(s, m)
    BY <1>2, <2>1
  <2> HIDE DEF m, Good
  <2>3. StartOf(s, m + 1) = StartOf(s, m) + Len(s[m + 1])
    BY <2>1, StartFacts
  <2>4. StartOf(s, k) \in Nat /\ StartOf(s, m) \in Nat
    BY <2>1, StartFacts
  <2>5. Len(s[m + 1]) >= 1 /\ Len(s[m + 1]) \in Nat
    BY <2>1
  <2>6. d \in Nat
    OBVIOUS
  <2>7. StartOf(s, k) + (d + 1) <= StartOf(s, m + 1)
    BY ONLY <2>2, <2>3, <2>4, <2>5, <2>6
  <2> QED BY ONLY <2>1, <2>7
<1> HIDE DEF Good
<1>3. Nat \subseteq Good
  BY <1>1, <1>2, SetInduction
<1>4. j - k \in Nat /\ k + (j - k) = j
  OBVIOUS
<1> QED BY <1>3, <1>4 DEF Good

\* What stands in the stream behind a start.
LEMMA FlattenPlace ==
  ASSUME NEW S, NEW s \in Seq(Seq(S)),
         NEW k \in 0..(Len(s) - 1), NEW i \in 1..Len(s[k + 1])
  PROVE  /\ StartOf(s, k) + i \in 1..Len(FlattenSeq(s))
         /\ FlattenSeq(s)[StartOf(s, k) + i] = s[k + 1][i]
<1> DEFINE p == StartOf(s, k) + i
           Good == {n \in Nat : n <= Len(s) /\ k < n =>
                      /\ p <= StartOf(s, n)
                      /\ FlattenSeq(UpTo(s, n))[p] = s[k + 1][i]}
<1>0. p \in Nat /\ p >= 1 /\ k \in 0..Len(s) /\ StartOf(s, k) \in Nat /\ i \in Nat
  BY StartFacts
<1>1. 0 \in Good
  BY <1>0
<1>2. ASSUME NEW n \in Nat, n \in Good PROVE n + 1 \in Good
  <2> SUFFICES ASSUME n + 1 <= Len(s), k < n + 1
               PROVE  /\ p <= StartOf(s, n + 1)
                      /\ FlattenSeq(UpTo(s, n + 1))[p] = s[k + 1][i]
    OBVIOUS
  <2> DEFINE u == UpTo(s, n)
             f == FlattenSeq(u)
             x == s[n + 1]
  <2>1. n \in 0..Len(s) /\ n \in 0..(Len(s) - 1) /\ x \in Seq(S)
    OBVIOUS
  <2>2. u \in Seq(Seq(S)) /\ UpTo(s, n + 1) = Append(u, x)
    BY <2>1, UpToFacts
  <2>3. k < n => p <= StartOf(s, n) /\ f[p] = s[k + 1][i]
    BY <1>2
  <2>4. Len(f) = StartOf(s, n)
    BY DEF StartOf
  <2> HIDE DEF u
  <2>5. f \in Seq(S) /\ FlattenSeq(UpTo(s, n + 1)) = f \o x
    BY <2>1, <2>2, FlattenType, FlattenAppend
  <2>6. StartOf(s, n + 1) = StartOf(s, n) + Len(x) /\ StartOf(s, n) \in Nat
    BY <2>1, StartFacts
  <2>7. k = n => x = s[k + 1]
    OBVIOUS
  <2> HIDE DEF f, x, p, Good
  <2>8. \A q \in 1..(Len(f) + Len(x)) :
          (f \o x)[q] = IF q <= Len(f) THEN f[q] ELSE x[q - Len(f)]
    BY <2>1, <2>5, ConcatProperties
  <2>9. Len(x) \in Nat
    BY <2>1
  <2>10. CASE k < n
    <3>1. p <= Len(f) /\ p \in 1..(Len(f) + Len(x))
      BY <2>3, <2>4, <2>6, <2>9, <2>10, <1>0
    <3>2. (f \o x)[p] = f[p]
      BY <3>1, <2>8
    <3>3. p <= StartOf(s, n + 1)
      <4>1. p <= StartOf(s, n) /\ p \in Nat
        BY <2>3, <2>10, <1>0
      <4> DEFINE a == StartOf(s, n)
                 c == StartOf(s, n + 1)
                 l == Len(x)
      <4>2. p <= a /\ p \in Nat /\ c = a + l /\ a \in Nat /\ l \in Nat
        BY <4>1, <2>6, <2>9
      <4> HIDE DEF a, c, l
      <4>3. p <= c
        BY ONLY <4>2
      <4> QED BY <4>3 DEF c
    <3> QED BY ONLY <3>2, <3>3, <2>3, <2>5, <2>10
  <2>11. CASE k = n
    <3>1. i \in 1..Len(x) /\ p = Len(f) + i
      BY <2>4, <2>7, <2>11 DEF p
    <3>2. p \in 1..(Len(f) + Len(x)) /\ ~(p <= Len(f)) /\ p - Len(f) = i
      <4> DEFINE a == Len(f)
                 l == Len(x)
      <4>1. i \in 1..l /\ p = a + i /\ a \in Nat /\ l \in Nat
        BY <3>1, <2>4, <2>6, <2>9
      <4> HIDE DEF a, l
      <4>2. p \in 1..(a + l) /\ ~(p <= a) /\ p - a = i
        BY ONLY <4>1
      <4> QED BY <4>2 DEF a, l
    <3>3. (f \o x)[p] = x[i]
      BY <3>2, <2>8
    <3>4. p <= StartOf(s, n + 1)
      BY <3>2, <2>4, <2>6
    <3> QED BY ONLY <3>3, <3>4, <2>5, <2>7, <2>11
  <2> QED BY <2>10, <2>11
<1> HIDE DEF Good
<1>3. Nat \subseteq Good
  BY <1>1, <1>2, SetInduction
<1>4. Len(s) \in Nat /\ k < Len(s)
  OBVIOUS
<1>5. p <= StartOf(s, Len(s)) /\ FlattenSeq(UpTo(s, Len(s)))[p] = s[k + 1][i]
  BY <1>3, <1>4 DEF Good
<1>6. UpTo(s, Len(s)) = s /\ StartOf(s, Len(s)) = Len(FlattenSeq(s))
  BY UpToFacts, StartFacts
<1>7. StartOf(s, Len(s)) \in Nat
  BY <1>4, StartFacts
<1> QED BY <1>0, <1>5, <1>6, <1>7

\* The starts do not change with what is sent later.
LEMMA StartAppend ==
  ASSUME NEW S, NEW s \in Seq(Seq(S)), NEW x \in Seq(S), NEW k \in 0..Len(s)
  PROVE  StartOf(Append(s, x), k) = StartOf(s, k)
<1>1. \A i \in 1..k : Append(s, x)[i] = s[i]
  OBVIOUS
<1>2. UpTo(Append(s, x), k) = UpTo(s, k)
  BY <1>1 DEF UpTo
<1> QED BY <1>2 DEF StartOf

-----------------------------------------------------------------------------
(* Memory.                                                                  *)

\* Data written over a part of a memory.
LEMMA OverIs ==
  ASSUME NEW m \in Seq(Int), NEW at \in 0..Len(m), NEW d \in Seq(Int),
         at + Len(d) <= Len(m)
  PROVE  /\ Over(m, at, d) \in Seq(Int) /\ Len(Over(m, at, d)) = Len(m)
         /\ \A i \in 1..Len(m) :
              Over(m, at, d)[i] = IF i <= at \/ i > at + Len(d) THEN m[i] ELSE d[i - at]
<1> DEFINE a == SubSeq(m, 1, at)
           lo == at + Len(d) + 1
           n == Len(m)
           c == SubSeq(m, lo, n)
           l == Len(d)
<1>1. at \in Nat /\ l \in Nat /\ n \in Nat /\ at + l <= n /\ lo = at + l + 1
  OBVIOUS
<1>2. \A i \in 1..n : m[i] \in Int
  OBVIOUS
<1> HIDE DEF lo, n, l
<1>3. a \in Seq(Int) /\ Len(a) = at /\ \A i \in 1..at : a[i] = m[i]
  <2>1. \A i \in 1..at : m[i] \in Int
    BY <1>1, <1>2
  <2>2. /\ a \in Seq(Int) /\ Len(a) = IF 1 <= at THEN at - 1 + 1 ELSE 0
        /\ \A i \in 1..(at - 1 + 1) : a[i] = m[1 + i - 1]
    BY <2>1, <1>1, SubSeqProperties
  <2> HIDE DEF a
  <2>3. \A i \in 1..at : i \in 1..(at - 1 + 1) /\ 1 + i - 1 = i
    BY <1>1
  <2> QED BY <2>2, <2>3, <1>1
<1>4. c \in Seq(Int) /\ Len(c) = n - (at + l) /\ \A i \in 1..(n - (at + l)) : c[i] = m[at + l + i]
  <2>0. lo \in Int /\ n \in Int /\ \A i \in lo..n : i \in 1..n
    BY <1>1
  <2>1. \A i \in lo..n : m[i] \in Int
    BY <2>0, <1>2
  <2>2. /\ c \in Seq(Int) /\ Len(c) = IF lo <= n THEN n - lo + 1 ELSE 0
        /\ \A i \in 1..(n - lo + 1) : c[i] = m[lo + i - 1]
    BY <2>0, <2>1, SubSeqProperties
  <2> HIDE DEF c
  <2>3. \A i \in 1..(n - (at + l)) : i \in 1..(n - lo + 1) /\ lo + i - 1 = at + l + i
    BY <1>1
  <2>4. n - lo + 1 = n - (at + l) /\ (~(lo <= n) => n - (at + l) = 0)
    BY <1>1
  <2> QED BY <2>2, <2>3, <2>4
<1>5. Over(m, at, d) = (a \o d) \o c
  BY DEF Over, a, c, lo, n
<1> HIDE DEF a, c
<1>6. /\ a \o d \in Seq(Int) /\ Len(a \o d) = at + l
      /\ \A i \in 1..(at + l) : (a \o d)[i] = IF i <= at THEN a[i] ELSE d[i - at]
  BY <1>3, ConcatProperties DEF l
<1> DEFINE e == a \o d
<1> HIDE DEF e
<1>7. /\ e \o c \in Seq(Int) /\ Len(e \o c) = n
      /\ \A i \in 1..n : (e \o c)[i] = IF i <= at + l THEN e[i] ELSE c[i - (at + l)]
  <2>1. e \in Seq(Int) /\ Len(e) = at + l
    BY <1>6 DEF e
  <2>2. /\ e \o c \in Seq(Int) /\ Len(e \o c) = Len(e) + Len(c)
        /\ \A i \in 1..(Len(e) + Len(c)) :
             (e \o c)[i] = IF i <= Len(e) THEN e[i] ELSE c[i - Len(e)]
    <3>1. e \in Seq(Int) /\ c \in Seq(Int)
      BY <2>1, <1>4
    <3> QED BY ONLY <3>1, ConcatProperties
  <2>3. Len(e) + Len(c) = n
    BY <2>1, <1>1, <1>4
  <2> QED BY <2>1, <2>2, <2>3
<1>8. ASSUME NEW i \in 1..n
      PROVE  (e \o c)[i] = IF i <= at \/ i > at + l THEN m[i] ELSE d[i - at]
  <2>1. CASE i <= at
    <3>1. i \in 1..at /\ i \in 1..(at + l) /\ i <= at + l
      BY <2>1, <1>1
    <3> QED BY <3>1, <2>1, <1>3, <1>6, <1>7 DEF e
  <2>2. CASE i > at + l
    <3>1. ~(i <= at + l) /\ i - (at + l) \in 1..(n - (at + l)) /\ at + l + (i - (at + l)) = i
      BY <2>2, <1>1
    <3>2. c[i - (at + l)] = m[i]
      BY <3>1, <1>4
    <3> QED BY <3>1, <3>2, <2>2, <1>7
  <2>3. CASE i > at /\ i <= at + l
    <3>1. i \in 1..(at + l) /\ ~(i <= at) /\ ~(i > at + l)
      BY <2>3, <1>1
    <3> QED BY <3>1, <2>3, <1>6, <1>7 DEF e
  <2>4. i <= at \/ i > at + l \/ (i > at /\ i <= at + l)
    BY <1>1
  <2> QED BY <2>1, <2>2, <2>3, <2>4
<1> QED BY <1>5, <1>7, <1>8 DEF e, n, l
=============================================================================
