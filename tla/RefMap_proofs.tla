--------------------------- MODULE RefMap_proofs ----------------------------
(***************************************************************************)
(* Proofs about RefMap for every set of keys and objects and every length  *)
(* of the arrays.  Facts about the arrays are stated of any two arrays ks  *)
(* and os with n entries in use and m in all, so that they serve the       *)
(* arrays before a step, after it, and in the middle of a growth.          *)
(***************************************************************************)
EXTENDS RefMap, FunctionTheorems, FiniteSetTheorems, TLAPS

USE BindingAssumption

LiveOf(os) == {i \in DOMAIN os : os[i] # Null}

\* The arrays have their types, ascend, and are empty from n on.
Arrays(ks, os, n, m) ==
  /\ n \in 0 .. m
  /\ ks \in [0 .. m - 1 -> Keys \union {0}]
  /\ os \in [0 .. m - 1 -> Objs \union {Null}]
  /\ \A i, j \in 0 .. n - 1 : i < j => ks[i] < ks[j]
  /\ \A i \in 0 .. n - 1 : ks[i] \in Keys
  /\ \A i \in n .. m - 1 : os[i] = Null

\* k is bound to o.
Bound(ks, os, n, k, o) == \E i \in 0 .. n - 1 : ks[i] = k /\ os[i] = o

\* The greatest power of two an int holds.
MaxPow2 == 1073741824

\* What the length of the arrays can be.
Lengths == {m \in Pow2 : 1 < m /\ m <= MaxCapacity}

ArraysOK == \E m \in Lengths : Arrays(keys, objs, next, m)

IInv == ArraysOK /\ live = Cardinality(Live)

-----------------------------------------------------------------------------
(* Lengths and sizes. *)

\* The lengths are numbers, and the first one is 2 at least.
LEMMA Capacities ==
  /\ MaxCapacity \in Nat /\ MaxCapacity <= MaxPow2 /\ Capacity \in Lengths
  /\ \A m \in Lengths : /\ m \in 1 .. MaxCapacity /\ m \in Nat
                       /\ 1 < m /\ m <= MaxPow2
  <1>1. MaxCapacity \in Nat /\ MaxCapacity <= MaxPow2 /\ Capacity \in Lengths
    BY CapacityAssumption, SMT DEF Pow2, Lengths, MaxPow2
  <1>2. ASSUME NEW m \in Lengths
        PROVE  /\ m \in 1 .. MaxCapacity /\ m \in Nat
               /\ 1 < m /\ m <= MaxPow2
    BY <1>1, SMT DEF Pow2, Lengths, MaxPow2
  <1>3. QED  BY <1>1, <1>2

\* A length doubled within the bound is a length.
LEMMA Doubled ==
  ASSUME NEW m \in Lengths, 2 * m <= MaxCapacity
  PROVE  2 * m \in Lengths
  BY CapacityAssumption, SMT DEF Pow2, Lengths

\* A length is the double of a power of two.
LEMMA Halved ==
  ASSUME NEW m \in Lengths
  PROVE  \E h \in Pow2 : h \in Nat /\ m = 2 * h
  BY SMT DEF Pow2, Lengths

\* The first n places of an array are n.
LEMMA Places ==
  ASSUME NEW n \in Nat
  PROVE  IsFiniteSet(0 .. n - 1) /\ Cardinality(0 .. n - 1) = n
  <1>1. 0 \in Int /\ n - 1 \in Int
    OBVIOUS
  <1>2. /\ IsFiniteSet(0 .. n - 1)
        /\ Cardinality(0 .. n - 1) = IF 0 > n - 1 THEN 0 ELSE (n - 1) - 0 + 1
    BY <1>1, FS_Interval, Zenon
  <1>3. QED  BY <1>2

\* An array that counts from 0 to m - 1 has length m.
LEMMA LengthIs ==
  ASSUME NEW m \in Nat, NEW a, DOMAIN a = 0 .. m - 1
  PROVE  Length(a) = m
  BY Places DEF Length

\* roundPow2 rounds up, as far as an int goes, to the next power of two.
LEMMA RoundsUp ==
  ASSUME NEW x \in Nat, x <= MaxPow2
  PROVE  /\ RoundPow2(x) \in Nat /\ x <= RoundPow2(x)
         /\ \A q \in Pow2 : x <= q => RoundPow2(x) <= q
  <1>1. PICK p \in Pow2 : x <= p /\ \A q \in Pow2 : x <= q => p <= q
    BY SMT DEF Pow2, MaxPow2
  <1>2. /\ RoundPow2(x) \in Pow2 /\ x <= RoundPow2(x)
        /\ \A q \in Pow2 : x <= q => RoundPow2(x) <= q
    BY <1>1 DEF RoundPow2
  <1>3. QED  BY <1>2 DEF Pow2

\* Two sets with a one-to-one correspondence have the same size.
LEMMA SameSize ==
  ASSUME NEW A, NEW B, IsFiniteSet(A), NEW f \in [A -> B],
         \A a, b \in A : f[a] = f[b] => a = b,
         \A b \in B : \E a \in A : f[a] = b
  PROVE  IsFiniteSet(B) /\ Cardinality(B) = Cardinality(A)
  <1>1. f \in Bijection(A, B)
    BY DEF Bijection, Injection, Surjection, IsInjective
  <1>2. ExistsBijection(A, B)
    BY <1>1 DEF ExistsBijection
  <1>3. QED  BY <1>2, FS_Bijection

\* The live entries lie among the n in use: there are at most n.
LEMMA LiveFinite ==
  ASSUME NEW n, NEW m \in Nat, NEW ks, NEW os, Arrays(ks, os, n, m)
  PROVE  /\ IsFiniteSet(LiveOf(os))
         /\ LiveOf(os) \subseteq 0 .. n - 1
         /\ Cardinality(LiveOf(os)) \in 0 .. n
  <1>1. n \in 0 .. m /\ LiveOf(os) \subseteq 0 .. n - 1
    BY DEF Arrays, LiveOf
  <1>2. IsFiniteSet(0 .. n - 1) /\ Cardinality(0 .. n - 1) = n
    <2>1. n \in Nat
      BY <1>1
    <2>2. QED  BY <2>1, Places
  <1>3. IsFiniteSet(LiveOf(os)) /\ Cardinality(LiveOf(os)) <= n
    BY <1>1, <1>2, FS_Subset
  <1>4. Cardinality(LiveOf(os)) \in Nat
    BY <1>3, FS_CardinalityType
  <1>5. QED  BY <1>1, <1>3, <1>4

-----------------------------------------------------------------------------
(* What get finds. *)

\* The search finds the only entry of its key.
LEMMA OneEntry ==
  ASSUME NEW n, NEW m \in Nat, NEW ks, NEW os, Arrays(ks, os, n, m),
         NEW i \in 0 .. n - 1, NEW j \in 0 .. n - 1, ks[i] = ks[j]
  PROVE  i = j
  <1>1. i \in Int /\ j \in Int
    BY DEF Arrays
  <1>2. ks[i] \in Int /\ ks[j] \in Int
    BY DEF Arrays
  <1>3. ~(i < j) /\ ~(j < i)
    BY <1>2 DEF Arrays
  <1>4. QED  BY <1>1, <1>3

\* Get answers the object a key is bound to, and null for any other.
LEMMA GetBound ==
  ASSUME NEW m \in Nat, Arrays(keys, objs, next, m), NEW k
  PROVE  /\ Get(k) \in Objs \union {Null}
         /\ \A o \in Objs : Get(k) = o <=> Bound(keys, objs, next, k, o)
  <1>1. CASE Has(k)
    <2>1. PICK i \in InUse : keys[i] = k
      BY <1>1 DEF Has
    <2>2. IndexOf(k) \in InUse /\ keys[IndexOf(k)] = k
      BY <2>1 DEF IndexOf
    <2>3. \A j \in InUse : keys[j] = k => j = IndexOf(k)
      BY <2>2, OneEntry DEF InUse
    <2>4. Get(k) = objs[IndexOf(k)]
      BY <1>1 DEF Get
    <2>5. objs[IndexOf(k)] \in Objs \union {Null}
      BY <2>2 DEF Arrays, InUse
    <2>6. QED  BY <2>2, <2>3, <2>4, <2>5 DEF Bound, InUse
  <1>2. CASE ~Has(k)
    BY <1>2 DEF Has, Get, Bound, InUse
  <1>3. QED  BY <1>1, <1>2

\* The same of every key, as a consequence of the invariant.
Answers ==
  \A k : /\ Get(k) \in Objs \union {Null}
         /\ \A o \in Objs : Get(k) = o <=> Bound(keys, objs, next, k, o)

LEMMA GetAnswers == ArraysOK => Answers
  <1>1. \A m \in Lengths : m \in Nat
    BY Capacities
  <1>2. QED  BY <1>1, GetBound DEF ArraysOK, Answers

\* Only a key of Keys has a binding.
LEMMA BoundKeys ==
  ASSUME NEW n, NEW m \in Nat, NEW ks, NEW os, Arrays(ks, os, n, m),
         NEW k, NEW o, Bound(ks, os, n, k, o)
  PROVE  k \in Keys
  BY DEF Arrays, Bound

-----------------------------------------------------------------------------
(* Insertion. *)

\* Entry i of the old arrays is entry Shift(p, i) of the new ones.
Shift(p, i) == IF i < p THEN i ELSE i + 1

\* The array b is a with every entry in use moved to its place and v at p.
Shifted(a, b, n, m, p, v) ==
  /\ DOMAIN b = 0 .. m - 1
  /\ b[p] = v
  /\ \A i \in 0 .. n - 1 : /\ Shift(p, i) \in 0 .. n
                           /\ Shift(p, i) # p
                           /\ b[Shift(p, i)] = a[i]
  /\ \A i \in 0 .. n : i = p \/ \E j \in 0 .. n - 1 : i = Shift(p, j)
  /\ \A i \in n + 1 .. m - 1 : b[i] = a[i]

\* An insertion into an array with room does so.
LEMMA Shifts ==
  ASSUME NEW m \in Nat, NEW n \in 0 .. m - 1, NEW a, DOMAIN a = 0 .. m - 1,
         NEW p \in 0 .. n, NEW v
  PROVE  Shifted(a, Inserted(a, n, p, v), n, m, p, v)
  <1>1. DOMAIN Inserted(a, n, p, v) = 0 .. m - 1
    BY DEF Inserted
  <1>2. Inserted(a, n, p, v)[p] = v
    BY DEF Inserted
  <1>3. ASSUME NEW i \in 0 .. n - 1
        PROVE  /\ Shift(p, i) \in 0 .. n
               /\ Shift(p, i) # p
               /\ Inserted(a, n, p, v)[Shift(p, i)] = a[i]
    BY DEF Shift, Inserted
  <1>4. ASSUME NEW i \in 0 .. n, i # p
        PROVE  \E j \in 0 .. n - 1 : i = Shift(p, j)
    <2>1. CASE i < p
      <3>1. i \in 0 .. n - 1 /\ Shift(p, i) = i
        BY <2>1 DEF Shift
      <3>2. QED  BY <3>1
    <2>2. CASE p < i
      <3>1. i - 1 \in 0 .. n - 1 /\ Shift(p, i - 1) = i
        BY <2>2 DEF Shift
      <3>2. QED  BY <3>1
    <2>3. QED  BY <1>4, <2>1, <2>2
  <1>5. ASSUME NEW i \in n + 1 .. m - 1
        PROVE  Inserted(a, n, p, v)[i] = a[i]
    BY DEF Inserted
  <1>6. QED  BY <1>1, <1>2, <1>3, <1>4, <1>5 DEF Shifted

\* An absent key inserted where it belongs: the arrays stay in order, the
\* key is bound, the other bindings are as they were, and one more is live.
LEMMA Insertion ==
  ASSUME NEW n, NEW m \in Nat, NEW ks, NEW os, Arrays(ks, os, n, m), n < m,
         NEW p \in 0 .. n, NEW key \in Keys, NEW o \in Objs,
         Belongs(ks, n, key, p),
         NEW ks1, ks1 = Inserted(ks, n, p, key),
         NEW os1, os1 = Inserted(os, n, p, o)
  PROVE  /\ Arrays(ks1, os1, n + 1, m)
         /\ Cardinality(LiveOf(os1)) = Cardinality(LiveOf(os)) + 1
         /\ Bound(ks1, os1, n + 1, key, o)
         /\ \A k, w : k # key =>
              (Bound(ks1, os1, n + 1, k, w) <=> Bound(ks, os, n, k, w))
  <1>1. /\ n \in 0 .. m - 1
        /\ DOMAIN ks = 0 .. m - 1 /\ DOMAIN os = 0 .. m - 1
    BY DEF Arrays
  <1>2. /\ DOMAIN ks1 = 0 .. m - 1 /\ DOMAIN os1 = 0 .. m - 1
        /\ ks1[p] = key /\ os1[p] = o
        /\ \A i \in 0 .. n - 1 : /\ Shift(p, i) \in 0 .. n
                                 /\ Shift(p, i) # p
                                 /\ ks1[Shift(p, i)] = ks[i]
                                 /\ os1[Shift(p, i)] = os[i]
        /\ \A i \in 0 .. n : i = p \/ \E j \in 0 .. n - 1 : i = Shift(p, j)
        /\ \A i \in n + 1 .. m - 1 : ks1[i] = ks[i] /\ os1[i] = os[i]
    <2>1. Shifted(ks, ks1, n, m, p, key)
      BY <1>1, Shifts
    <2>2. Shifted(os, os1, n, m, p, o)
      BY <1>1, Shifts
    <2>3. QED  BY <2>1, <2>2 DEF Shifted
  <1>3. Arrays(ks1, os1, n + 1, m)
    <2>1. /\ ks1 \in [0 .. m - 1 -> Keys \union {0}]
          /\ os1 \in [0 .. m - 1 -> Objs \union {Null}]
      BY <1>1 DEF Arrays, Inserted
    <2>2. ASSUME NEW i \in 0 .. n, NEW j \in 0 .. n, i < j
          PROVE  ks1[i] < ks1[j]
      <3>1. CASE i = p
        <4>1. PICK b \in 0 .. n - 1 : j = Shift(p, b)
          BY <1>2, <2>2, <3>1
        <4>2. p <= b /\ ks1[j] = ks[b]
          BY <1>2, <2>2, <3>1, <4>1 DEF Shift
        <4>3. QED  BY <1>1, <1>2, <3>1, <4>2 DEF Belongs
      <3>2. CASE j = p
        <4>1. PICK a \in 0 .. n - 1 : i = Shift(p, a)
          BY <1>2, <2>2, <3>2
        <4>2. a < p /\ ks1[i] = ks[a]
          BY <1>2, <2>2, <3>2, <4>1 DEF Shift
        <4>3. QED  BY <1>1, <1>2, <3>2, <4>2 DEF Belongs
      <3>3. CASE i # p /\ j # p
        <4>1. PICK a \in 0 .. n - 1 : i = Shift(p, a)
          BY <1>2, <3>3
        <4>2. PICK b \in 0 .. n - 1 : j = Shift(p, b)
          BY <1>2, <3>3
        <4>3. a < b
          BY <1>1, <2>2, <4>1, <4>2 DEF Shift
        <4>4. ks[a] < ks[b]
          BY <4>3 DEF Arrays
        <4>5. QED  BY <1>2, <4>1, <4>2, <4>4
      <3>4. QED  BY <3>1, <3>2, <3>3
    <2>3. ASSUME NEW i \in 0 .. n PROVE ks1[i] \in Keys
      BY <1>2 DEF Arrays
    <2>4. ASSUME NEW i \in n + 1 .. m - 1 PROVE os1[i] = Null
      <3>1. i \in n .. m - 1
        BY <1>1
      <3>2. QED  BY <1>2, <3>1 DEF Arrays
    <2>5. n + 1 \in 0 .. m /\ (n + 1) - 1 = n
      BY <1>1
    <2>6. QED  BY <2>1, <2>2, <2>3, <2>4, <2>5 DEF Arrays
  <1>4. Cardinality(LiveOf(os1)) = Cardinality(LiveOf(os)) + 1
    <2> DEFINE f == [i \in LiveOf(os) |-> Shift(p, i)]
    <2>1. IsFiniteSet(LiveOf(os)) /\ LiveOf(os) \subseteq 0 .. n - 1
      BY LiveFinite
    <2>2. IsFiniteSet(LiveOf(os1)) /\ LiveOf(os1) \subseteq 0 .. n
      <3>1. n + 1 \in Int /\ (n + 1) - 1 = n
        BY <1>1
      <3>2. QED  BY <1>3, <3>1, LiveFinite
    <2>3. f \in [LiveOf(os) -> LiveOf(os1) \ {p}]
      <3>1. ASSUME NEW i \in LiveOf(os)
            PROVE  Shift(p, i) \in LiveOf(os1) \ {p}
        <4>1. i \in 0 .. n - 1 /\ os[i] # Null
          BY <2>1 DEF LiveOf
        <4>2. Shift(p, i) \in 0 .. m - 1
          BY <1>1, <1>2, <4>1
        <4>3. QED  BY <1>2, <4>1, <4>2 DEF LiveOf
      <3>2. QED  BY <3>1
    <2>4. \A i, j \in LiveOf(os) : f[i] = f[j] => i = j
      <3>1. \A i, j \in 0 .. n - 1 : Shift(p, i) = Shift(p, j) => i = j
        BY <1>1 DEF Shift
      <3>2. QED  BY <2>1, <3>1
    <2>5. \A j \in LiveOf(os1) \ {p} : \E i \in LiveOf(os) : f[i] = j
      <3>1. ASSUME NEW j \in LiveOf(os1) \ {p}
            PROVE  \E i \in LiveOf(os) : Shift(p, i) = j
        <4>1. PICK i \in 0 .. n - 1 : j = Shift(p, i)
          BY <1>2, <2>2
        <4>2. os[i] # Null /\ i \in DOMAIN os
          BY <1>1, <1>2, <4>1 DEF LiveOf
        <4>3. QED  BY <4>1, <4>2 DEF LiveOf
      <3>2. QED  BY <3>1
    <2>6. Cardinality(LiveOf(os1) \ {p}) = Cardinality(LiveOf(os))
      BY <2>1, <2>3, <2>4, <2>5, SameSize
    <2>7. p \in LiveOf(os1)
      BY <1>1, <1>2 DEF LiveOf
    <2>8. Cardinality(LiveOf(os1) \ {p}) = Cardinality(LiveOf(os1)) - 1
      BY <2>2, <2>7, FS_RemoveElement
    <2>9. Cardinality(LiveOf(os1)) \in Nat
      BY <2>2, FS_CardinalityType
    <2>10. QED  BY <2>6, <2>8, <2>9
  <1>5. (n + 1) - 1 = n
    BY <1>1
  <1>6. Bound(ks1, os1, n + 1, key, o)
    BY <1>2, <1>5 DEF Bound
  <1>7. ASSUME NEW k, NEW w, k # key
        PROVE  Bound(ks1, os1, n + 1, k, w) <=> Bound(ks, os, n, k, w)
    BY <1>2, <1>5, <1>7 DEF Bound
  <1>8. QED  BY <1>3, <1>4, <1>6, <1>7

-----------------------------------------------------------------------------
(* Compaction. *)

\* Keeps and Compacted of any arrays and length.
KeepsOf(os, j, from) ==
  /\ from \in [0 .. j - 1 -> DOMAIN os]
  /\ \A a, b \in 0 .. j - 1 : a < b => from[a] < from[b]
  /\ {from[a] : a \in 0 .. j - 1} = LiveOf(os)

CompactedTo(a, l, j, from, empty) ==
  [i \in 0 .. l - 1 |-> IF i < j THEN a[from[i]] ELSE empty]

\* The entries grow keeps are the live ones, in order: the arrays have their
\* new length, what was bound stays bound, and the j entries are all live.
LEMMA Compaction ==
  ASSUME NEW n, NEW m \in Nat, NEW ks, NEW os, Arrays(ks, os, n, m),
         NEW j \in 0 .. m, NEW from, KeepsOf(os, j, from),
         NEW l \in Nat, j <= l
  PROVE  LET ks1 == CompactedTo(ks, l, j, from, 0)
             os1 == CompactedTo(os, l, j, from, Null)
         IN  /\ Arrays(ks1, os1, j, l)
             /\ Cardinality(LiveOf(os1)) = j
             /\ Cardinality(LiveOf(os)) = j
             /\ \A k : \A o \in Objs :
                  Bound(ks1, os1, j, k, o) <=> Bound(ks, os, n, k, o)
  <1> DEFINE ks1 == CompactedTo(ks, l, j, from, 0)
             os1 == CompactedTo(os, l, j, from, Null)
  <1> USE DEF KeepsOf, CompactedTo
  <1>0. from \in [0 .. j - 1 -> 0 .. m - 1]
    BY DEF Arrays
  <1>1. \A a \in 0 .. j - 1 : from[a] \in LiveOf(os)
    OBVIOUS
  <1>2. \A a \in 0 .. j - 1 : from[a] \in 0 .. n - 1 /\ os[from[a]] # Null
    BY <1>1, LiveFinite DEF LiveOf
  <1>3. \A a \in 0 .. j - 1 : ks1[a] = ks[from[a]] /\ os1[a] = os[from[a]]
    OBVIOUS
  <1>4. Arrays(ks1, os1, j, l)
    <2>1. /\ ks1 \in [0 .. l - 1 -> Keys \union {0}]
          /\ os1 \in [0 .. l - 1 -> Objs \union {Null}]
      BY DEF Arrays
    <2>2. ASSUME NEW a \in 0 .. j - 1, NEW b \in 0 .. j - 1, a < b
          PROVE  ks1[a] < ks1[b]
      <3>1. from[a] < from[b]
        BY <2>2
      <3>2. ks[from[a]] < ks[from[b]]
        BY <1>2, <3>1 DEF Arrays
      <3>3. QED  BY <1>3, <3>2
    <2>3. \A a \in 0 .. j - 1 : ks1[a] \in Keys
      BY <1>2, <1>3 DEF Arrays
    <2>4. ASSUME NEW i \in j .. l - 1 PROVE os1[i] = Null
      <3>1. i \in 0 .. l - 1 /\ ~(i < j)
        OBVIOUS
      <3>2. QED  BY <3>1
    <2>5. j \in 0 .. l
      OBVIOUS
    <2>6. QED  BY <2>1, <2>2, <2>3, <2>4, <2>5 DEF Arrays
  <1>5. Cardinality(LiveOf(os1)) = j
    <2>1. \A a \in 0 .. j - 1 : a \in DOMAIN os1 /\ os1[a] # Null
      BY <1>2, <1>3
    <2>2. LiveOf(os1) \subseteq 0 .. j - 1
      BY <1>4, LiveFinite
    <2>3. LiveOf(os1) = 0 .. j - 1
      BY <2>1, <2>2 DEF LiveOf
    <2>4. Cardinality(0 .. j - 1) = j
      BY Places
    <2>5. QED  BY <2>3, <2>4
  <1>6. Cardinality(LiveOf(os)) = j
    <2> DEFINE A == 0 .. j - 1
    <2>1. IsFiniteSet(A) /\ Cardinality(A) = j
      BY Places
    <2>2. from \in [A -> LiveOf(os)]
      BY <1>1
    <2>3. \A a, b \in A : from[a] = from[b] => a = b
      <3>1. \A a \in A : from[a] \in Int /\ a \in Int
        BY <1>0
      <3>2. QED  BY <3>1
    <2>4. \A i \in LiveOf(os) : \E a \in A : from[a] = i
      <3>1. {from[a] : a \in A} = LiveOf(os)
        OBVIOUS
      <3>2. QED  BY <3>1, Zenon
    <2> HIDE DEF A
    <2>5. QED  BY <2>1, <2>2, <2>3, <2>4, SameSize
  <1>7. ASSUME NEW k, NEW o \in Objs
        PROVE  Bound(ks1, os1, j, k, o) <=> Bound(ks, os, n, k, o)
    <2>1. ASSUME NEW a \in 0 .. j - 1, ks1[a] = k, os1[a] = o
          PROVE  Bound(ks, os, n, k, o)
      BY <1>2, <1>3, <2>1 DEF Bound
    <2>2. ASSUME NEW i \in 0 .. n - 1, ks[i] = k, os[i] = o
          PROVE  Bound(ks1, os1, j, k, o)
      <3>1. i \in LiveOf(os)
        BY <2>2 DEF LiveOf, Arrays
      <3>2. PICK a \in 0 .. j - 1 : from[a] = i
        BY <3>1
      <3>3. QED  BY <1>3, <2>2, <3>2 DEF Bound
    <2>3. QED  BY <2>1, <2>2 DEF Bound
  <1>8. QED  BY <1>4, <1>5, <1>6, <1>7

-----------------------------------------------------------------------------
(* The actions.  Rebinds(key, w) is what a step does to the bindings: key   *)
(* is bound to w, or to nothing if w is null, and the others are untouched. *)

Rebinds(key, w) ==
  \A k \in Keys : Get(k)' = IF k = key THEN w ELSE Get(k)

\* What a step owes the invariant and the abstract map.
LEMMA Step ==
  ASSUME NEW m \in Nat, Arrays(keys, objs, next, m),
         NEW m1 \in Lengths, Arrays(keys', objs', next', m1),
         live' = Cardinality(LiveOf(objs')),
         NEW key, NEW w \in Objs \union {Null},
         \A o \in Objs : Bound(keys', objs', next', key, o) <=> w = o,
         \A k \in Keys, o \in Objs : k # key =>
           (Bound(keys', objs', next', k, o) <=> Bound(keys, objs, next, k, o))
  PROVE  IInv' /\ Rebinds(key, w)
  <1>1. IInv'
    BY DEF IInv, ArraysOK, Live, LiveOf
  <1>2. ASSUME NEW k
        PROVE  /\ Get(k)' \in Objs \union {Null}
               /\ \A o \in Objs :
                    Get(k)' = o <=> Bound(keys', objs', next', k, o)
    <2>1. ArraysOK'
      BY DEF ArraysOK
    <2>2. Answers'
      BY <2>1, GetAnswers, PTL
    <2>3. QED  BY <2>2 DEF Answers
  <1>3. ASSUME NEW k \in Keys
        PROVE  Get(k)' = IF k = key THEN w ELSE Get(k)
    <2>1. /\ Get(k) \in Objs \union {Null}
          /\ \A o \in Objs : Get(k) = o <=> Bound(keys, objs, next, k, o)
      BY GetBound
    <2>2. QED  BY <1>2, <1>3, <2>1
  <1>4. QED  BY <1>1, <1>3 DEF Rebinds

\* The invariant's count is that of the arrays.
LEMMA LiveIs ==
  ASSUME IInv, NEW m \in Nat, Arrays(keys, objs, next, m)
  PROVE  IsFiniteSet(LiveOf(objs)) /\ live = Cardinality(LiveOf(objs))
  <1>1. IsFiniteSet(LiveOf(objs))
    BY LiveFinite
  <1>2. live = Cardinality(LiveOf(objs))
    BY DEF IInv, Live, LiveOf
  <1>3. QED  BY <1>1, <1>2

\* Remove makes its key's entry a tombstone, and counts it down once.
LEMMA RemoveStep ==
  ASSUME IInv, NEW key \in Keys, Remove(key)
  PROVE  IInv' /\ Rebinds(key, Null)
  <1>1. PICK m \in Lengths : Arrays(keys, objs, next, m)
    BY DEF IInv, ArraysOK
  <1>2. m \in Nat
    BY Capacities
  <1>3. /\ Get(key) \in Objs \union {Null}
        /\ \A o \in Objs : Get(key) = o <=> Bound(keys, objs, next, key, o)
    BY <1>1, <1>2, GetBound
  <1>4. CASE Get(key) = Null
    <2>1. UNCHANGED vars
      BY <1>4 DEF Remove, vars
    <2>2. \A o \in Objs : ~Bound(keys, objs, next, key, o)
      BY <1>3, <1>4
    <2>3. Arrays(keys', objs', next', m) /\ live' = Cardinality(LiveOf(objs'))
      BY <1>1, <2>1 DEF vars, IInv, Live, LiveOf
    <2>4. QED  BY <1>1, <1>2, <2>1, <2>2, <2>3, Step DEF vars
  <1>5. CASE Get(key) # Null
    <2> DEFINE x == IndexOf(key)
    <2>1. /\ objs' = [objs EXCEPT ![x] = Null]
          /\ live' = live - 1 /\ next' = next /\ keys' = keys
      BY <1>5 DEF Remove
    <2>2. Has(key) /\ objs[x] # Null
      BY <1>5 DEF Get
    <2>3. x \in 0 .. next - 1 /\ keys[x] = key
      BY <2>2 DEF Has, IndexOf, InUse
    <2>4. \A i \in 0 .. next - 1 : keys[i] = key => i = x
      BY <1>1, <1>2, <2>3, OneEntry
    <2>5. DOMAIN objs = 0 .. m - 1 /\ x \in 0 .. m - 1
      BY <1>1, <1>2, <2>3 DEF Arrays
    <2> HIDE DEF x
    <2>6. Arrays(keys', objs', next', m)
      BY <1>1, <2>1, <2>5 DEF Arrays
    <2>7. live' = Cardinality(LiveOf(objs'))
      <3>1. LiveOf(objs') = LiveOf(objs) \ {x} /\ x \in LiveOf(objs)
        BY <2>1, <2>2, <2>5 DEF LiveOf
      <3>2. IsFiniteSet(LiveOf(objs)) /\ live = Cardinality(LiveOf(objs))
        BY <1>1, <1>2, LiveIs
      <3>3. QED  BY <2>1, <3>1, <3>2, FS_RemoveElement
    <2>8. \A o \in Objs : ~Bound(keys', objs', next', key, o)
      BY <2>1, <2>4, <2>5 DEF Bound
    <2>9. \A k \in Keys, o \in Objs : k # key =>
            (Bound(keys', objs', next', k, o) <=> Bound(keys, objs, next, k, o))
      BY <2>1, <2>3, <2>5 DEF Bound
    <2>10. QED  BY <1>1, <1>2, <2>6, <2>7, <2>8, <2>9, Step
  <1>6. QED  BY <1>4, <1>5

\* A put of a key with an entry binds it to o; it was unbound or bound to o.
LEMMA PutFoundStep ==
  ASSUME IInv, NEW key \in Keys, NEW o \in Objs, PutFound(key, o)
  PROVE  IInv' /\ Rebinds(key, o)
  <1>1. PICK m \in Lengths : Arrays(keys, objs, next, m)
    BY DEF IInv, ArraysOK
  <1>2. m \in Nat
    BY Capacities
  <1> DEFINE x == IndexOf(key)
  <1>3. x \in 0 .. next - 1 /\ keys[x] = key
    BY DEF PutFound, Has, IndexOf, InUse
  <1>4. /\ objs' = [objs EXCEPT ![x] = o]
        /\ live' = IF objs[x] = Null THEN live + 1 ELSE live
        /\ next' = next /\ keys' = keys
    BY DEF PutFound, Get
  <1>5. \A i \in 0 .. next - 1 : keys[i] = key => i = x
    BY <1>1, <1>2, <1>3, OneEntry
  <1>6. DOMAIN objs = 0 .. m - 1 /\ x \in 0 .. m - 1
    BY <1>1, <1>2, <1>3 DEF Arrays
  <1> HIDE DEF x
  <1>7. Arrays(keys', objs', next', m)
    BY <1>1, <1>3, <1>4, <1>6 DEF Arrays
  <1>8. live' = Cardinality(LiveOf(objs'))
    <2>1. LiveOf(objs') = LiveOf(objs) \union {x}
      BY <1>4, <1>6 DEF LiveOf
    <2>2. x \in LiveOf(objs) <=> objs[x] # Null
      BY <1>6 DEF LiveOf
    <2>3. IsFiniteSet(LiveOf(objs)) /\ live = Cardinality(LiveOf(objs))
      BY <1>1, <1>2, LiveIs
    <2>4. QED  BY <1>4, <2>1, <2>2, <2>3, FS_AddElement
  <1>9. \A w \in Objs : Bound(keys', objs', next', key, w) <=> o = w
    BY <1>3, <1>4, <1>5, <1>6 DEF Bound
  <1>10. \A k \in Keys, w \in Objs : k # key =>
          (Bound(keys', objs', next', k, w) <=> Bound(keys, objs, next, k, w))
    BY <1>3, <1>4, <1>6 DEF Bound
  <1>11. QED  BY <1>1, <1>2, <1>7, <1>8, <1>9, <1>10, Step

\* The tail of put, into arrays that have room and the bindings of the map.
LEMMA InsertStep ==
  ASSUME NEW m \in Nat, Arrays(keys, objs, next, m),
         NEW ks, NEW os, NEW n, NEW l \in Lengths,
         Arrays(ks, os, n, l), n < l, live = Cardinality(LiveOf(os)),
         \A k : \A w \in Objs :
           Bound(ks, os, n, k, w) <=> Bound(keys, objs, next, k, w),
         NEW key \in Keys, ~Has(key), NEW o \in Objs,
         InsertInto(ks, os, n, key, o)
  PROVE  IInv' /\ Rebinds(key, o) /\ next' = n + 1 /\ DOMAIN keys' = 0 .. l - 1
  <1>1. PICK p \in 0 .. n : /\ Belongs(ks, n, key, p)
                            /\ keys' = Inserted(ks, n, p, key)
                            /\ objs' = Inserted(os, n, p, o)
                            /\ live' = live + 1
                            /\ next' = n + 1
    BY DEF InsertInto
  <1>2. l \in Nat
    BY Capacities
  <1>3. /\ Arrays(keys', objs', n + 1, l)
        /\ Cardinality(LiveOf(objs')) = Cardinality(LiveOf(os)) + 1
        /\ Bound(keys', objs', n + 1, key, o)
        /\ \A k, w : k # key =>
             (Bound(keys', objs', n + 1, k, w) <=> Bound(ks, os, n, k, w))
    BY <1>1, <1>2, Insertion
  <1>4. \A w \in Objs : Bound(keys', objs', next', key, w) <=> o = w
    <2>1. ASSUME NEW w, Bound(keys', objs', n + 1, key, w)
          PROVE  w = o
      <3>1. PICK i \in 0 .. (n + 1) - 1 : keys'[i] = key /\ objs'[i] = w
        BY <2>1 DEF Bound
      <3>2. PICK j \in 0 .. (n + 1) - 1 : keys'[j] = key /\ objs'[j] = o
        BY <1>3 DEF Bound
      <3>3. i = j
        BY <1>2, <1>3, <3>1, <3>2, OneEntry
      <3>4. QED  BY <3>1, <3>2, <3>3
    <2>2. QED  BY <1>1, <1>3, <2>1
  <1>5. \A k \in Keys, w \in Objs : k # key =>
          (Bound(keys', objs', next', k, w) <=> Bound(keys, objs, next, k, w))
    BY <1>1, <1>3
  <1>6. IInv' /\ Rebinds(key, o)
    BY <1>1, <1>3, <1>4, <1>5, Step
  <1>7. QED  BY <1>1, <1>3, <1>6 DEF Arrays

\* A put of a new key into arrays with room.
LEMMA PutFitsStep ==
  ASSUME IInv, NEW key \in Keys, NEW o \in Objs, PutFits(key, o)
  PROVE  IInv' /\ Rebinds(key, o) /\ DOMAIN keys' = DOMAIN keys
  <1>1. PICK m \in Lengths : Arrays(keys, objs, next, m)
    BY DEF IInv, ArraysOK
  <1>2. m \in Nat /\ DOMAIN keys = 0 .. m - 1
    BY <1>1, Capacities DEF Arrays
  <1>3. next < m
    BY <1>2, LengthIs DEF PutFits
  <1>4. live = Cardinality(LiveOf(objs))
    BY <1>1, <1>2, LiveIs
  <1>5. ~Has(key) /\ InsertInto(keys, objs, next, key, o)
    BY DEF PutFits
  <1>6. QED  BY <1>1, <1>2, <1>3, <1>4, <1>5, InsertStep

\* A put of a new key into full arrays: grow finds as many live entries as
\* live says, and at most half of the new arrays is taken by them.
LEMMA PutGrownStep ==
  ASSUME IInv, NEW key \in Keys, NEW o \in Objs, PutGrown(key, o)
  PROVE  /\ IInv' /\ Rebinds(key, o)
         /\ \E m \in Nat, l \in Nat :
              /\ DOMAIN keys = 0 .. m - 1 /\ next = m
              /\ DOMAIN keys' = 0 .. l - 1
              /\ 2 * (next' - 1) <= l
              /\ l # m => 2 * live > m
  <1>1. PICK m \in Lengths : Arrays(keys, objs, next, m)
    BY DEF IInv, ArraysOK
  <1>2. /\ m \in Nat /\ DOMAIN keys = 0 .. m - 1 /\ DOMAIN objs = 0 .. m - 1
        /\ next \in 0 .. m
    BY <1>1, Capacities DEF Arrays
  <1>3. Length(keys) = m /\ Length(objs) = m /\ next = m
    BY <1>2, LengthIs DEF PutGrown
  <1>4. PICK j \in 0 .. m :
           \E f \in [0 .. j - 1 -> 0 .. m - 1] :
             /\ Keeps(j, f)
             /\ j = live
             /\ InsertInto(Compacted(keys, j, f, 0), Compacted(objs, j, f, Null),
                           j, key, o)
    BY <1>2, <1>3 DEF PutGrown
  <1>5. PICK from \in [0 .. j - 1 -> 0 .. m - 1] :
           /\ Keeps(j, from)
           /\ j = live
           /\ InsertInto(Compacted(keys, j, from, 0),
                         Compacted(objs, j, from, Null), j, key, o)
    BY <1>4
  <1> DEFINE l == GrownLength(m)
             ks == Compacted(keys, j, from, 0)
             os == Compacted(objs, j, from, Null)
  <1>6. /\ RoundPow2(live) \in Nat /\ live <= RoundPow2(live)
        /\ \A q \in Pow2 : live <= q => RoundPow2(live) <= q
    <2>1. live \in Nat /\ live <= MaxPow2
      BY <1>2, <1>5, Capacities DEF MaxPow2
    <2>2. QED  BY <2>1, RoundsUp
  <1>7. /\ l \in Nat /\ 2 * j <= l /\ j < l
        /\ l # m => 2 * live > m
    <2>1. 1 < m
      BY Capacities
    <2>2. PICK h \in Pow2 : h \in Nat /\ m = 2 * h
      BY Halved
    <2>3. live <= h => RoundPow2(live) <= h
      BY <1>6
    <2>4. j = live /\ live \in Nat /\ live <= m
      BY <1>2, <1>5
    <2>5. CASE 2 * RoundPow2(live) > m
      BY <1>2, <1>6, <2>1, <2>2, <2>3, <2>4, <2>5 DEF GrownLength
    <2>6. CASE ~(2 * RoundPow2(live) > m)
      BY <1>2, <1>6, <2>1, <2>4, <2>6 DEF GrownLength
    <2>7. QED  BY <2>5, <2>6
  <1>8. l \in Lengths
    <2>1. l <= MaxCapacity
      BY <1>3 DEF PutGrown
    <2>2. l = m \/ l = 2 * m
      BY DEF GrownLength
    <2>3. QED  BY <2>1, <2>2, Doubled
  <1>9. /\ ks = CompactedTo(keys, l, j, from, 0)
        /\ os = CompactedTo(objs, l, j, from, Null)
    BY <1>3 DEF Compacted, CompactedTo
  <1>10. KeepsOf(objs, j, from) /\ j <= l
    BY <1>2, <1>5, <1>7 DEF Keeps, KeepsOf, Live, LiveOf
  <1>11. InsertInto(ks, os, j, key, o) /\ ~Has(key) /\ j = live
    BY <1>5 DEF PutGrown
  <1> HIDE DEF l, ks, os
  <1>12. /\ Arrays(ks, os, j, l)
         /\ Cardinality(LiveOf(os)) = j
         /\ \A k : \A w \in Objs :
              Bound(ks, os, j, k, w) <=> Bound(keys, objs, next, k, w)
    <2>1. m \in Nat /\ l \in Nat /\ j \in 0 .. m /\ j <= l
      BY <1>2, <1>7, <1>10
    <2>2. KeepsOf(objs, j, from)
      BY <1>10
    <2>3. /\ Arrays(CompactedTo(keys, l, j, from, 0),
                    CompactedTo(objs, l, j, from, Null), j, l)
          /\ Cardinality(LiveOf(CompactedTo(objs, l, j, from, Null))) = j
      BY <1>1, <2>1, <2>2, Compaction
    <2>4. \A k : \A w \in Objs :
            Bound(CompactedTo(keys, l, j, from, 0),
                  CompactedTo(objs, l, j, from, Null), j, k, w)
              <=> Bound(keys, objs, next, k, w)
      BY <1>1, <2>1, <2>2, Compaction
    <2>5. QED  BY <1>9, <2>3, <2>4
  <1>13. /\ IInv' /\ Rebinds(key, o)
         /\ next' = j + 1 /\ DOMAIN keys' = 0 .. l - 1
    BY <1>1, <1>2, <1>7, <1>8, <1>11, <1>12, InsertStep
  <1>14. QED  BY <1>2, <1>3, <1>7, <1>13

-----------------------------------------------------------------------------
(* The theorems. *)

LEMMA Initially ==
  ASSUME Init
  PROVE  IInv /\ \A k : Get(k) = Null
  <1>1. Capacity \in Lengths
    BY Capacities
  <1>2. Arrays(keys, objs, next, Capacity)
    <2>1. Capacity \in Nat
      BY Capacities
    <2>2. QED  BY <2>1 DEF Init, Arrays
  <1>3. Live = {}
    BY DEF Init, Live
  <1>4. live = Cardinality(Live)
    BY <1>3, FS_EmptySet DEF Init
  <1>5. \A k : Get(k) = Null
    BY DEF Init, Get, Has, InUse
  <1>6. QED  BY <1>1, <1>2, <1>4, <1>5 DEF IInv, ArraysOK

LEMMA Inductive == IInv /\ [Next]_vars => IInv'
  <1> SUFFICES ASSUME IInv, [Next]_vars PROVE IInv'
    OBVIOUS
  <1>1. ASSUME NEW key \in Keys, Remove(key) PROVE IInv'
    BY <1>1, RemoveStep
  <1>2. ASSUME NEW key \in Keys, NEW o \in Objs, PutFound(key, o) PROVE IInv'
    BY <1>2, PutFoundStep
  <1>3. ASSUME NEW key \in Keys, NEW o \in Objs, PutFits(key, o) PROVE IInv'
    BY <1>3, PutFitsStep
  <1>4. ASSUME NEW key \in Keys, NEW o \in Objs, PutGrown(key, o) PROVE IInv'
    BY <1>4, PutGrownStep
  <1>5. ASSUME UNCHANGED vars PROVE IInv'
    BY <1>5 DEF IInv, ArraysOK, Live, vars
  <1>6. QED  BY <1>1, <1>2, <1>3, <1>4, <1>5 DEF Next

\* IInv holds throughout: it is the type of the arrays, their order, and
\* live as the number of the bindings (RefMap.put, remove and grow).
THEOREM ArraysInvariant == Spec => []IInv
  <1>1. Init => IInv
    BY Initially
  <1>2. QED  BY <1>1, Inductive, PTL DEF Spec

\* The arrays keep their types, and no more is live than is in use.
THEOREM ArraysTypeCorrect == Spec => []TypeOK
  <1>1. IInv => TypeOK
    <2> SUFFICES ASSUME IInv PROVE TypeOK
      OBVIOUS
    <2>1. PICK m \in Lengths : Arrays(keys, objs, next, m)
      BY DEF IInv, ArraysOK
    <2>2. m \in Nat
      BY Capacities
    <2>3. live \in 0 .. next
      BY <2>1, <2>2, LiveFinite, LiveIs
    <2>4. m \in 1 .. MaxCapacity
      BY Capacities
    <2>5. next \in Nat /\ live \in Nat /\ live <= next /\ next <= m
      BY <2>1, <2>2, <2>3 DEF Arrays
    <2>6. QED  BY <2>1, <2>4, <2>5 DEF TypeOK, Arrays
  <1>2. QED  BY <1>1, ArraysInvariant, PTL

\* The keys in use ascend: what Arrays.binarySearch asks of them.
THEOREM KeysSorted == Spec => []Sorted
  <1>1. IInv => Sorted
    BY DEF IInv, ArraysOK, Arrays, Sorted, InUse
  <1>2. QED  BY <1>1, ArraysInvariant, PTL

\* live counts the bindings, so grow never throws "bad state".
THEOREM LiveCounts == Spec => []LiveExact
  <1>1. IInv => LiveExact
    <2> SUFFICES ASSUME IInv PROVE LiveExact
      OBVIOUS
    <2>1. PICK m \in Lengths : Arrays(keys, objs, next, m)
      BY DEF IInv, ArraysOK
    <2>2. Live \subseteq InUse
      BY <2>1 DEF Arrays, Live, InUse
    <2>3. QED  BY <2>2 DEF IInv, LiveExact
  <1>2. QED  BY <1>1, ArraysInvariant, PTL

\* A put into full arrays leaves them half free but for its own entry.
THEOREM PutsAreRare == Spec => HalfFree
  <1> DEFINE A == next = Length(keys) /\ keys' # keys
                    => 2 * (next' - 1) <= Length(keys')
  <1>1. IInv /\ [Next]_vars => [A]_vars
    <2> SUFFICES ASSUME IInv, Next PROVE A
      OBVIOUS
    <2>1. ASSUME NEW key \in Keys, Remove(key) PROVE keys' = keys
      BY <2>1 DEF Remove
    <2>2. ASSUME NEW key \in Keys, NEW o \in Objs, PutFound(key, o)
          PROVE  keys' = keys
      BY <2>2 DEF PutFound
    <2>3. ASSUME NEW key \in Keys, NEW o \in Objs, PutFits(key, o)
          PROVE  next # Length(keys)
      <3>1. next \in Int
        BY DEF IInv, ArraysOK, Arrays
      <3>2. PICK m \in Lengths : Arrays(keys, objs, next, m)
        BY DEF IInv, ArraysOK
      <3>3. Length(keys) \in Int
        BY <3>2, Capacities, LengthIs DEF Arrays
      <3>4. QED  BY <2>3, <3>1, <3>3 DEF PutFits
    <2>4. ASSUME NEW key \in Keys, NEW o \in Objs, PutGrown(key, o)
          PROVE  2 * (next' - 1) <= Length(keys')
      <3>1. PICK l \in Nat : DOMAIN keys' = 0 .. l - 1 /\ 2 * (next' - 1) <= l
        BY <2>4, PutGrownStep
      <3>2. Length(keys') = l
        BY <3>1, LengthIs
      <3>3. QED  BY <3>1, <3>2
    <2>5. QED  BY <2>1, <2>2, <2>3, <2>4 DEF Next
  <1>2. QED  BY <1>1, ArraysInvariant, PTL DEF Spec, HalfFree

\* The arrays lengthen only when more than half of their entries are live.
THEOREM LengthensWhenNeeded == Spec => LengthensForLive
  <1> DEFINE A == Length(keys') # Length(keys) => 2 * live > Length(keys)
  <1>1. IInv /\ [Next]_vars => [A]_vars
    <2> SUFFICES ASSUME IInv, Next PROVE A
      OBVIOUS
    <2>1. ASSUME NEW key \in Keys, Remove(key) PROVE A
      BY <2>1 DEF Remove
    <2>2. ASSUME NEW key \in Keys, NEW o \in Objs, PutFound(key, o) PROVE A
      BY <2>2 DEF PutFound
    <2>3. ASSUME NEW key \in Keys, NEW o \in Objs, PutFits(key, o) PROVE A
      BY <2>3, PutFitsStep DEF Length
    <2>4. ASSUME NEW key \in Keys, NEW o \in Objs, PutGrown(key, o) PROVE A
      <3>1. PICK m \in Nat, l \in Nat :
              /\ DOMAIN keys = 0 .. m - 1
              /\ DOMAIN keys' = 0 .. l - 1
              /\ l # m => 2 * live > m
        BY <2>4, PutGrownStep
      <3>2. Length(keys) = m /\ Length(keys') = l
        BY <3>1, LengthIs
      <3>3. QED  BY <3>1, <3>2
    <2>5. QED  BY <2>1, <2>2, <2>3, <2>4 DEF Next
  <1>2. QED  BY <1>1, ArraysInvariant, PTL DEF Spec, LengthensForLive

-----------------------------------------------------------------------------
(* The abstract map. *)

Bindings == [k \in {i \in Keys : Get(i) # Null} |-> Get(k)]

\* A step that binds key to o, which was unbound or bound to o, is a Put.
LEMMA IsPut ==
  ASSUME IInv, NEW key \in Keys, NEW o \in Objs,
         Get(key) \in {Null, o}, Rebinds(key, o)
  PROVE  Abstract!Put(key, o)
  <1>1. \A k \in Keys : Get(k)' = IF k = key THEN o ELSE Get(k)
    BY DEF Rebinds
  <1>2. o # Null
    OBVIOUS
  <1>3. Bindings' = [i \in DOMAIN Bindings \union {key} |->
                      IF i = key THEN o ELSE Bindings[i]]
    <2>1. DOMAIN Bindings = {i \in Keys : Get(i) # Null}
      BY DEF Bindings
    <2>2. {i \in Keys : Get(i)' # Null} = DOMAIN Bindings \union {key}
      BY <1>1, <1>2, <2>1
    <2>3. Bindings' = [k \in {i \in Keys : Get(i)' # Null} |-> Get(k)']
      BY DEF Bindings
    <2>4. \A k \in DOMAIN Bindings \union {key} :
            Get(k)' = IF k = key THEN o ELSE Bindings[k]
      BY <1>1, <2>1 DEF Bindings
    <2>5. QED  BY <2>2, <2>3, <2>4
  <1>4. key \in DOMAIN Bindings => Bindings[key] = o
    BY DEF Bindings
  <1>5. QED  BY <1>3, <1>4 DEF Abstract!Put, Bindings

\* A step that leaves key without a binding is a Remove.
LEMMA IsRemove ==
  ASSUME IInv, NEW key \in Keys, Rebinds(key, Null)
  PROVE  Abstract!Remove(key)
  <1>1. \A k \in Keys : Get(k)' = IF k = key THEN Null ELSE Get(k)
    BY DEF Rebinds
  <1>2. Bindings' = [i \in DOMAIN Bindings \ {key} |-> Bindings[i]]
    <2>1. DOMAIN Bindings = {i \in Keys : Get(i) # Null}
      BY DEF Bindings
    <2>2. {i \in Keys : Get(i)' # Null} = DOMAIN Bindings \ {key}
      BY <1>1, <2>1
    <2>3. Bindings' = [k \in {i \in Keys : Get(i)' # Null} |-> Get(k)']
      BY DEF Bindings
    <2>4. \A k \in DOMAIN Bindings \ {key} : Get(k)' = Bindings[k]
      BY <1>1, <2>1 DEF Bindings
    <2>5. QED  BY <2>2, <2>3, <2>4
  <1>3. QED  BY <1>2 DEF Abstract!Remove, Bindings

\* The sorted arrays implement a map from integers to Refs: an operation on
\* one key, compaction and growth included, touches no other binding.
THEOREM ArraysImplementMap == Spec => ImplementsMap
  <1>1. Init => Abstract!Init
    <2> SUFFICES ASSUME Init PROVE Bindings = <<>>
      BY DEF Abstract!Init, Bindings
    <2>1. \A k : Get(k) = Null
      BY Initially
    <2>2. DOMAIN Bindings = {}
      BY <2>1 DEF Bindings
    <2>3. DOMAIN <<>> = {}
      OBVIOUS
    <2>4. Bindings = [k \in {} |-> Null]
      BY <2>1 DEF Bindings
    <2>5. <<>> = [k \in {} |-> Null]
      BY <2>3
    <2>6. QED  BY <2>4, <2>5
  <1>2. IInv /\ [Next]_vars => [Abstract!Next]_Bindings
    <2> SUFFICES ASSUME IInv, [Next]_vars
                 PROVE  Abstract!Next \/ Bindings' = Bindings
      OBVIOUS
    <2>1. ASSUME NEW key \in Keys, Remove(key) PROVE Abstract!Next
      BY <2>1, RemoveStep, IsRemove DEF Abstract!Next
    <2>2. ASSUME NEW key \in Keys, NEW o \in Objs, PutFound(key, o)
          PROVE  Abstract!Next
      <3>1. Get(key) \in {Null, o}
        BY <2>2 DEF PutFound
      <3>2. QED  BY <2>2, <3>1, PutFoundStep, IsPut DEF Abstract!Next
    <2>3. ASSUME NEW key \in Keys, NEW o \in Objs,
                 PutFits(key, o) \/ PutGrown(key, o)
          PROVE  Abstract!Next
      <3>1. Get(key) \in {Null, o}
        BY <2>3 DEF PutFits, PutGrown, Get
      <3>2. Rebinds(key, o)
        BY <2>3, PutFitsStep, PutGrownStep
      <3>3. QED  BY <3>1, <3>2, IsPut DEF Abstract!Next
    <2>4. ASSUME UNCHANGED vars PROVE Bindings' = Bindings
      BY <2>4 DEF vars, Bindings, Get, Has, IndexOf, InUse
    <2>5. QED  BY <2>1, <2>2, <2>3, <2>4 DEF Next
  <1>3. QED
    BY <1>1, <1>2, ArraysInvariant, PTL
       DEF Spec, ImplementsMap, Abstract!Spec, Bindings
=============================================================================
