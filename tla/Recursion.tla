----------------------------- MODULE Recursion -----------------------------
(***************************************************************************)
(* What the proofs about recursive functions need: induction over the      *)
(* natural numbers, for a set of numbers; what a function defined from its *)
(* value one step before is; loops of so many steps; and what appending,   *)
(* joining and flattening do to the elements of sequences.                 *)
(***************************************************************************)
EXTENDS Integers, Sequences, SequencesExt, FiniteSetTheorems, TLAPS

\* Of the numbers that are not in S none is the least: the interval up to it would be
\* minimal among those that end outside of S, by strict inclusion.
LEMMA NatSetInduction ==
  ASSUME NEW S, 0 \in S, \A n \in Nat : n \in S => n + 1 \in S
  PROVE  \A n \in Nat : n \in S
<1> SUFFICES ASSUME NEW m \in Nat, m \notin S
             PROVE  FALSE
  OBVIOUS
<1> DEFINE T == {0 .. n : n \in Nat \ S}
           R == StrictSubsetOrdering(Nat)
<1>1. IsWellFoundedOn(R, FiniteSubsetsOf(Nat))
  BY FS_StrictSubsetOrderingWellFounded
<1>2. T \subseteq FiniteSubsetsOf(Nat)
  <2>1. ASSUME NEW n \in Nat
        PROVE  0 .. n \in FiniteSubsetsOf(Nat)
    <3>1. IsFiniteSet(0 .. n)
      BY FS_Interval
    <3>2. 0 .. n \subseteq Nat
      OBVIOUS
    <3> QED
      BY <3>1, <3>2 DEF FiniteSubsetsOf
  <2> QED
    BY <2>1
<1>3. T # {}
  OBVIOUS
<1> HIDE DEF T, R
<1>4. PICK X \in T : \A Y \in T : ~(<<Y, X>> \in R)
  BY <1>1, <1>2, <1>3, WFMin
<1>5. PICK n \in Nat \ S : X = 0 .. n
  BY DEF T
<1>6. n - 1 \in Nat \ S
  <2>1. n # 0 /\ n - 1 \in Nat
    BY <1>5
  <2> QED
    BY <2>1
<1>7. 0 .. (n - 1) \in T
  BY <1>6 DEF T
<1>8. <<0 .. (n - 1), 0 .. n>> \in R
  <2>1. 0 .. (n - 1) \in SUBSET Nat /\ 0 .. n \in SUBSET Nat /\ 0 .. (n - 1) \subseteq 0 .. n
    OBVIOUS
  <2>2. n \in 0 .. n /\ n \notin 0 .. (n - 1)
    OBVIOUS
  <2> QED
    BY <2>1, <2>2 DEF R, StrictSubsetOrdering
<1> QED
  BY <1>4, <1>5, <1>7, <1>8

\* f[0] is x, and G makes each value from the one before and its number.
Iterates(f, D, x, G) == /\ f \in [Nat -> D] /\ f[0] = x
                        /\ \A n \in Nat : f[n + 1] = G[<<n + 1, f[n]>>]

\* Such a function exists: one that is right up to n, for every n, and these agree.
LEMMA RecursionExists ==
  ASSUME NEW D, NEW x, NEW G, x \in D, G \in [Nat \X D -> D]
  PROVE  \E f : Iterates(f, D, x, G)
<1> DEFINE Good(g, n) == /\ g \in [0 .. n -> D] /\ g[0] = x
                         /\ \A i \in 0 .. n : i # n => g[i + 1] = G[<<i + 1, g[i]>>]
           E == {n \in Nat : \E g : Good(g, n)}
<1>1. \A n \in Nat : n \in E
  <2>1. 0 \in E
    <3>1. Good([i \in 0 .. 0 |-> x], 0)
      OBVIOUS
    <3> QED
      BY <3>1
  <2>2. ASSUME NEW n \in Nat, n \in E
        PROVE  n + 1 \in E
    <3>1. PICK g : Good(g, n)
      BY <2>2
    <3> DEFINE h == [i \in 0 .. n + 1 |-> IF i = n + 1 THEN G[<<n + 1, g[n]>>] ELSE g[i]]
    <3>2. g[n] \in D /\ <<n + 1, g[n]>> \in Nat \X D
      BY <3>1
    <3>3. h \in [0 .. n + 1 -> D]
      <4>1. ASSUME NEW i \in 0 .. n + 1
            PROVE  h[i] \in D
        BY <3>1, <3>2
      <4> QED
        BY <4>1
    <3>4. \A i \in 0 .. n : h[i] = g[i]
      OBVIOUS
    <3>5. h[n + 1] = G[<<n + 1, g[n]>>]
      OBVIOUS
    <3> HIDE DEF h
    <3>6. \A i \in 0 .. n + 1 : i # n + 1 => h[i + 1] = G[<<i + 1, h[i]>>]
      <4> TAKE i \in 0 .. n + 1
      <4> HAVE i # n + 1
      <4>1. CASE i = n
        BY <3>4, <3>5, <4>1
      <4>2. CASE i # n
        BY <3>1, <3>4, <4>2
      <4> QED
        BY <4>1, <4>2
    <3>7. h[0] = x
      BY <3>1, <3>4
    <3>8. Good(h, n + 1)
      BY <3>3, <3>6, <3>7
    <3> QED
      BY <3>8
  <2> HIDE DEF E
  <2> QED
    BY <2>1, <2>2, NatSetInduction
<1> DEFINE pick == [n \in Nat |-> CHOOSE g : Good(g, n)]
           f == [n \in Nat |-> pick[n][n]]
<1>2. ASSUME NEW n \in Nat
      PROVE  Good(pick[n], n)
  <2>1. \E g : Good(g, n)
    BY <1>1
  <2> HIDE DEF Good
  <2>2. Good(CHOOSE g : Good(g, n), n)
    BY <2>1
  <2> QED
    BY <2>2
<1> HIDE DEF pick
<1>3. ASSUME NEW n \in Nat
      PROVE  \A i \in Nat : i <= n => pick[n + 1][i] = pick[n][i]
  <2> DEFINE A == {i \in Nat : i <= n => pick[n + 1][i] = pick[n][i]}
  <2>1. Good(pick[n], n) /\ Good(pick[n + 1], n + 1)
    BY <1>2
  <2>2. 0 \in A
    BY <2>1
  <2>3. ASSUME NEW i \in Nat, i \in A
        PROVE  i + 1 \in A
    <3>1. SUFFICES ASSUME i + 1 <= n
                   PROVE  pick[n + 1][i + 1] = pick[n][i + 1]
      OBVIOUS
    <3>2. i \in 0 .. n /\ i # n /\ i \in 0 .. n + 1 /\ i # n + 1
      BY <3>1
    <3>3. pick[n][i + 1] = G[<<i + 1, pick[n][i]>>] /\ pick[n + 1][i + 1] = G[<<i + 1, pick[n + 1][i]>>]
      BY <2>1, <3>2
    <3>4. pick[n + 1][i] = pick[n][i]
      BY <2>3, <3>1
    <3> QED
      BY <3>3, <3>4
  <2> HIDE DEF A
  <2>4. \A i \in Nat : i \in A
    BY <2>2, <2>3, NatSetInduction
  <2> QED
    BY <2>4 DEF A
<1>4. f \in [Nat -> D]
  <2>1. \A n \in Nat : pick[n][n] \in D
    BY <1>2
  <2> QED
    BY <2>1
<1>5. f[0] = x
  BY <1>2
<1>6. \A n \in Nat : f[n + 1] = G[<<n + 1, f[n]>>]
  <2> TAKE n \in Nat
  <2>1. Good(pick[n + 1], n + 1) /\ n \in 0 .. n + 1 /\ n # n + 1
    BY <1>2
  <2>2. pick[n + 1][n + 1] = G[<<n + 1, pick[n + 1][n]>>]
    BY <2>1
  <2>3. pick[n + 1][n] = pick[n][n]
    BY <1>3
  <2> QED
    BY <2>2, <2>3
<1> HIDE DEF f
<1> QED
  BY <1>4, <1>5, <1>6 DEF Iterates

-----------------------------------------------------------------------------
(* Loops. *)

\* Induction over the steps of a loop.
LEMMA UpTo ==
  ASSUME NEW n \in Nat, NEW S, 0 \in S, \A i \in 1 .. n : i - 1 \in S => i \in S
  PROVE  \A i \in 0 .. n : i \in S
<1> DEFINE A == {i \in Nat : i <= n => i \in S}
<1>1. 0 \in A
  OBVIOUS
<1>2. ASSUME NEW i \in Nat, i \in A
      PROVE  i + 1 \in A
  <2>1. SUFFICES ASSUME i + 1 <= n
                 PROVE  i + 1 \in S
    OBVIOUS
  <2>2. i \in S /\ i + 1 \in 1 .. n /\ (i + 1) - 1 = i
    BY <1>2, <2>1
  <2> QED
    BY <2>2
<1> HIDE DEF A
<1>3. \A i \in Nat : i \in A
  BY <1>1, <1>2, NatSetInduction
<1> QED
  BY <1>3 DEF A

\* A loop of n steps from x, each made by G: its values exist.
Steps(f, n, D, x, G) == f \in [0 .. n -> D] /\ f[0] = x /\ \A i \in 1 .. n : f[i] = G[<<i, f[i-1]>>]
LEMMA StepsExist ==
  ASSUME NEW D, NEW x \in D, NEW n \in Nat, NEW G \in [(1 .. n) \X D -> D]
  PROVE  \E f : Steps(f, n, D, x, G)
<1> DEFINE H == [p \in Nat \X D |-> IF p[1] \in 1 .. n THEN G[p] ELSE p[2]]
<1>1. H \in [Nat \X D -> D]
  <2>1. ASSUME NEW p \in Nat \X D
        PROVE  (IF p[1] \in 1 .. n THEN G[p] ELSE p[2]) \in D
    <3>1. p[1] \in 1 .. n => p \in (1 .. n) \X D
      OBVIOUS
    <3> QED
      BY <3>1
  <2> QED
    BY <2>1
<1>2. \A i \in 1 .. n, v \in D : H[<<i, v>>] = G[<<i, v>>]
  OBVIOUS
<1> HIDE DEF H
<1>3. PICK g : Iterates(g, D, x, H)
  BY <1>1, RecursionExists
<1>4. g \in [Nat -> D] /\ g[0] = x /\ \A i \in Nat : g[i + 1] = H[<<i + 1, g[i]>>]
  BY <1>3 DEF Iterates
<1> DEFINE f == [i \in 0 .. n |-> g[i]]
<1>5. f \in [0 .. n -> D] /\ f[0] = x
  BY <1>4
<1>6. ASSUME NEW i \in 1 .. n
      PROVE  f[i] = G[<<i, f[i-1]>>]
  <2>1. i - 1 \in Nat /\ (i - 1) + 1 = i /\ i - 1 \in 0 .. n /\ i \in 0 .. n
    OBVIOUS
  <2>2. g[i] = H[<<i, g[i-1]>>]
    BY <1>4, <2>1
  <2>3. g[i-1] \in D
    BY <1>4, <2>1
  <2> QED
    BY <1>2, <2>1, <2>2, <2>3
<1> HIDE DEF f
<1> QED
  BY <1>5, <1>6 DEF Steps

\* Values that a step keeps in D are in D.
LEMMA StepsIn ==
  ASSUME NEW D, NEW n \in Nat, NEW f, f = [i \in 0 .. n |-> f[i]], f[0] \in D,
         \A i \in 1 .. n : f[i-1] \in D => f[i] \in D
  PROVE  f \in [0 .. n -> D]
<1> DEFINE B == {i \in 0 .. n : f[i] \in D}
<1>1. 0 \in B
  OBVIOUS
<1>2. \A i \in 1 .. n : i - 1 \in B => i \in B
  OBVIOUS
<1> HIDE DEF B
<1>3. \A i \in 0 .. n : i \in B
  BY <1>1, <1>2, UpTo
<1>4. \A i \in 0 .. n : f[i] \in D
  BY <1>3 DEF B
<1> QED
  BY <1>4

-----------------------------------------------------------------------------
(* Sequences. *)

\* The elements of a sequence.
LEMMA ToSetFacts ==
  ASSUME NEW S, NEW s \in Seq(S)
  PROVE  /\ \A i \in 1 .. Len(s) : s[i] \in ToSet(s) /\ s[i] \in S
         /\ \A x \in ToSet(s) : x \in S /\ \E i \in 1 .. Len(s) : s[i] = x
         /\ DOMAIN s = 1 .. Len(s) /\ Len(s) \in Nat
         /\ s \in Seq(ToSet(s))
<1>1. DOMAIN s = 1 .. Len(s) /\ Len(s) \in Nat /\ \A i \in 1 .. Len(s) : s[i] \in S
  OBVIOUS
<1>2. \A i \in 1 .. Len(s) : s[i] \in ToSet(s)
  BY <1>1 DEF ToSet
<1>3. s \in Seq(ToSet(s))
  BY <1>1, <1>2
<1> QED
  BY <1>1, <1>2, <1>3 DEF ToSet

\* The elements of a sequence that grows.
LEMMA AppendFacts ==
  ASSUME NEW S, NEW s \in Seq(S), NEW x \in S
  PROVE  /\ Append(s, x) \in Seq(S) /\ Len(Append(s, x)) = Len(s) + 1
         /\ \A y : y \in ToSet(Append(s, x)) <=> y \in ToSet(s) \/ y = x
<1> DEFINE a == Append(s, x)
<1>1. /\ a \in Seq(S) /\ Len(a) = Len(s) + 1 /\ Len(s) \in Nat /\ a[Len(s) + 1] = x
      /\ \A i \in 1 .. Len(s) : a[i] = s[i]
  OBVIOUS
<1> HIDE DEF a
<1>2. ASSUME NEW y \in ToSet(a)
      PROVE  y \in ToSet(s) \/ y = x
  <2>1. PICK i \in 1 .. Len(a) : a[i] = y
    BY <1>1, ToSetFacts
  <2>2. i \in 1 .. Len(s) \/ i = Len(s) + 1
    BY <1>1
  <2> QED
    BY <1>1, <2>1, <2>2, ToSetFacts
<1>3. ASSUME NEW y \in ToSet(s)
      PROVE  y \in ToSet(a)
  <2>1. PICK i \in 1 .. Len(s) : s[i] = y
    BY ToSetFacts
  <2>2. i \in 1 .. Len(a)
    BY <1>1
  <2> QED
    BY <1>1, <2>1, <2>2, ToSetFacts
<1>4. x \in ToSet(a)
  <2>1. Len(s) + 1 \in 1 .. Len(a)
    BY <1>1
  <2> QED
    BY <1>1, <2>1, ToSetFacts
<1> QED
  BY <1>1, <1>2, <1>3, <1>4 DEF a

\* The elements of two sequences, one after the other.
LEMMA ConcatFacts ==
  ASSUME NEW A, NEW s \in Seq(A), NEW t \in Seq(A)
  PROVE  /\ s \o t \in Seq(A) /\ Len(s \o t) = Len(s) + Len(t)
         /\ \A y : y \in ToSet(s \o t) <=> y \in ToSet(s) \/ y \in ToSet(t)
<1> DEFINE c == s \o t
<1>1. /\ c \in Seq(A) /\ Len(c) = Len(s) + Len(t) /\ Len(s) \in Nat /\ Len(t) \in Nat
      /\ \A i \in 1 .. Len(s) : c[i] = s[i]
      /\ \A i \in 1 .. Len(t) : c[Len(s) + i] = t[i]
  OBVIOUS
<1> HIDE DEF c
<1>2. ASSUME NEW y \in ToSet(c)
      PROVE  y \in ToSet(s) \/ y \in ToSet(t)
  <2>1. PICK i \in 1 .. Len(c) : c[i] = y
    <3>1. c \in Seq(A)
      BY <1>1
    <3> QED
      BY <3>1, ToSetFacts
  <2>2. CASE i <= Len(s)
    <3>1. i \in 1 .. Len(s) /\ s[i] = y
      BY <1>1, <2>1, <2>2
    <3> QED
      BY <3>1, ToSetFacts
  <2>3. CASE i > Len(s)
    <3>1. i - Len(s) \in 1 .. Len(t) /\ Len(s) + (i - Len(s)) = i
      BY <1>1, <2>3
    <3>2. t[i - Len(s)] = y
      BY <1>1, <2>1, <3>1
    <3> QED
      BY <3>1, <3>2, ToSetFacts
  <2> QED
    BY <1>1, <2>2, <2>3
<1>3. ASSUME NEW y \in ToSet(s)
      PROVE  y \in ToSet(c)
  <2>1. PICK i \in 1 .. Len(s) : s[i] = y
    BY ToSetFacts
  <2>2. i \in 1 .. Len(c)
    BY <1>1
  <2> QED
    BY <1>1, <2>1, <2>2, ToSetFacts
<1>4. ASSUME NEW y \in ToSet(t)
      PROVE  y \in ToSet(c)
  <2>1. PICK i \in 1 .. Len(t) : t[i] = y
    BY ToSetFacts
  <2>2. Len(s) + i \in 1 .. Len(c)
    BY <1>1
  <2> QED
    BY <1>1, <2>1, <2>2, ToSetFacts
<1> QED
  BY <1>1, <1>2, <1>3, <1>4 DEF c

\* FlattenSeq, step by step.
FlattenStep(ss, i, v) == IF i = 1 THEN ss[1] ELSE v \o ss[i]
FlattenRun(f, A, ss) ==
    /\ f \in [0 .. Len(ss) -> Seq(A)] /\ f[0] = <<>> /\ FlattenSeq(ss) = f[Len(ss)]
    /\ \A i \in 1 .. Len(ss) : f[i] = FlattenStep(ss, i, f[i-1])
LEMMA FlattenUnfolds ==
  ASSUME NEW A, NEW ss \in Seq(Seq(A))
  PROVE  \E f : FlattenRun(f, A, ss)
<1> DEFINE n == Len(ss)
           D == Seq(A)
           G == [p \in (1 .. n) \X D |-> FlattenStep(ss, p[1], p[2])]
           z == <<>>
           Is(h) == h = [i \in 1 .. Len(ss) |-> IF i = 1 THEN ss[i] ELSE h[i-1] \o ss[i]]
<1>1. n \in Nat /\ z \in D
  OBVIOUS
<1>2. \A i \in 1 .. n, v \in D : FlattenStep(ss, i, v) \in D
  <2> TAKE i \in 1 .. n, v \in D
  <2>1. ss[i] \in Seq(A) /\ (i = 1 => ss[1] \in Seq(A))
    OBVIOUS
  <2>2. v \o ss[i] \in Seq(A)
    BY <2>1
  <2> QED
    BY <2>1, <2>2 DEF FlattenStep
<1>3. G \in [(1 .. n) \X D -> D] /\ \A i \in 1 .. n, v \in D : G[<<i, v>>] = FlattenStep(ss, i, v)
  BY <1>2
<1>4. n = 0 => ss = <<>>
  OBVIOUS
<1> HIDE DEF G, D, z, n
<1>5. PICK f : Steps(f, n, D, z, G)
  BY <1>1, <1>3, StepsExist
<1>6. f \in [0 .. n -> D] /\ f[0] = z /\ \A i \in 1 .. n : f[i] = FlattenStep(ss, i, f[i-1])
  <2>1. \A i \in 1 .. n : i - 1 \in 0 .. n
    BY <1>1
  <2> QED
    BY <1>3, <1>5, <2>1 DEF Steps
<1>7. CASE n = 0
  <2>1. FlattenSeq(ss) = f[n]
    BY <1>4, <1>6, <1>7 DEF FlattenSeq, z, n
  <2> QED
    BY <1>6, <2>1 DEF FlattenRun, D, z, n
<1>8. CASE n # 0
  <2> DEFINE h == [i \in 1 .. n |-> f[i]]
  <2>1. Is(h)
    <3>1. ASSUME NEW i \in 1 .. n
          PROVE  h[i] = IF i = 1 THEN ss[i] ELSE h[i-1] \o ss[i]
      <4>1. i = 1 \/ i - 1 \in 1 .. n
        BY <1>1
      <4> QED
        BY <1>6, <4>1 DEF FlattenStep
    <3> QED
      BY <3>1 DEF n
  <2> HIDE DEF h
  <2>2. PICK g : Is(g) /\ FlattenSeq(ss) = g[n]
    <3>1. Len(ss) # 0 /\ n = Len(ss)
      BY <1>8 DEF n
    <3>2. FlattenSeq(ss) = (CHOOSE g : Is(g))[n]
      BY <3>1, Zenon DEF FlattenSeq
    <3>3. Is(CHOOSE g : Is(g))
      BY <2>1, Zenon
    <3> QED
      BY <3>2, <3>3, Zenon
  <2>3. \A i \in 1 .. n : g[i] = IF i = 1 THEN ss[i] ELSE g[i-1] \o ss[i]
    BY <2>2 DEF n
  <2>4. \A i \in 0 .. n : i \in {j \in 0 .. n : j # 0 => g[j] = f[j]}
    <3> DEFINE B == {j \in 0 .. n : j # 0 => g[j] = f[j]}
    <3>1. 0 \in B
      BY <1>1
    <3>2. ASSUME NEW i \in 1 .. n, i - 1 \in B
          PROVE  i \in B
      <4>1. i = 1 \/ i - 1 # 0
        BY <1>1
      <4> QED
        BY <1>1, <1>6, <2>3, <3>2, <4>1 DEF FlattenStep
    <3> HIDE DEF B
    <3>3. \A i \in 0 .. n : i \in B
      BY <1>1, <3>1, <3>2, UpTo
    <3> QED
      BY <3>3 DEF B
  <2>5. n \in 0 .. n /\ g[n] = f[n]
    BY <1>1, <1>8, <2>4
  <2>6. FlattenSeq(ss) = f[n]
    BY <2>2, <2>5
  <2> QED
    BY <1>6, <2>6 DEF FlattenRun, D, z, n
<1> QED
  BY <1>7, <1>8

\* The elements of the sequences of a sequence.
LEMMA FlattenFacts ==
  ASSUME NEW A, NEW ss \in Seq(Seq(A))
  PROVE  /\ FlattenSeq(ss) \in Seq(A)
         /\ \A y : y \in ToSet(FlattenSeq(ss)) <=> \E i \in 1 .. Len(ss) : y \in ToSet(ss[i])
<1> DEFINE n == Len(ss)
           Of(j, y) == \E i \in 1 .. j : y \in ToSet(ss[i])
<1>1. PICK f : FlattenRun(f, A, ss)
  BY FlattenUnfolds
<1>2. n \in Nat /\ f \in [0 .. n -> Seq(A)] /\ f[0] = <<>> /\ FlattenSeq(ss) = f[n]
  BY <1>1 DEF FlattenRun
<1>3. \A i \in 1 .. n : f[i] = FlattenStep(ss, i, f[i-1]) /\ ss[i] \in Seq(A)
  BY <1>1 DEF FlattenRun
<1> DEFINE B == {j \in 0 .. n : \A y : y \in ToSet(f[j]) <=> Of(j, y)}
<1>4. 0 \in B
  <2>1. ToSet(<<>>) = {}
    BY DEF ToSet
  <2>2. \A y : ~Of(0, y)
    OBVIOUS
  <2>3. 0 \in 0 .. n /\ ToSet(f[0]) = ToSet(<<>>)
    BY <1>2
  <2> QED
    BY <2>1, <2>2, <2>3
<1>5. ASSUME NEW j \in 1 .. n, j - 1 \in B
      PROVE  j \in B
  <2>1. j - 1 \in 0 .. n /\ j \in 0 .. n /\ f[j-1] \in Seq(A) /\ ss[j] \in Seq(A)
    <3>1. j - 1 \in 0 .. n /\ j \in 0 .. n
      BY <1>2
    <3> QED
      BY <1>2, <1>3, <3>1
  <2>2. \A y : Of(j, y) <=> Of(j-1, y) \/ y \in ToSet(ss[j])
    <3>1. \A i \in 1 .. j : i \in 1 .. (j-1) \/ i = j
      OBVIOUS
    <3>2. \A i \in 1 .. (j-1) : i \in 1 .. j
      OBVIOUS
    <3> QED
      BY <3>1, <3>2
  <2>3. \A y : y \in ToSet(f[j-1]) <=> Of(j-1, y)
    BY <1>5
  <2>4. \A y : y \in ToSet(f[j]) <=> y \in ToSet(f[j-1]) \/ y \in ToSet(ss[j])
    <3>1. CASE j = 1
      <4>1. f[j] = ss[j] /\ f[j-1] = <<>>
        BY <1>2, <1>3, <3>1 DEF FlattenStep
      <4>2. ToSet(<<>>) = {}
        BY DEF ToSet
      <4> QED
        BY <4>1, <4>2
    <3>2. CASE j # 1
      <4>1. f[j] = f[j-1] \o ss[j]
        BY <1>3, <3>2 DEF FlattenStep
      <4> QED
        BY <2>1, <4>1, ConcatFacts
    <3> QED
      BY <3>1, <3>2
  <2> HIDE DEF Of
  <2>5. \A y : y \in ToSet(f[j]) <=> Of(j, y)
    BY <2>2, <2>3, <2>4
  <2> QED
    BY <2>1, <2>5
<1> HIDE DEF B
<1>6. \A j \in 0 .. n : j \in B
  BY <1>2, <1>4, <1>5, UpTo
<1>7. n \in B
  BY <1>2, <1>6
<1> QED
  BY <1>2, <1>7 DEF B
=============================================================================
