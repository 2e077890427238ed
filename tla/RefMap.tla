------------------------------- MODULE RefMap -------------------------------
(***************************************************************************)
(* Seq.RefMap (bind/java/Seq.java): two parallel arrays sorted by key, in  *)
(* which a removed binding leaves its key behind with a null object until  *)
(* the arrays are full and are compacted or doubled.  Arrays count from 0. *)
(* RefTracker's monitor serialises the calls; each one is an action.       *)
(***************************************************************************)
EXTENDS Integers, FiniteSets

CONSTANTS Keys,       \* the numbers put into the map
          Objs,       \* the Refs they are bound to
          Null,       \* null
          Capacity,   \* length of the first arrays, 16 in the code
          MaxCapacity \* bound on their length

VARIABLES next,       \* entries in use, tombstones included
          live,       \* entries in use that have an object
          keys, objs  \* the arrays

vars == <<next, live, keys, objs>>

ASSUME BindingAssumption == Keys \subseteq Int /\ Null \notin Objs

\* The powers of two an int holds.
Pow2 == {1, 2, 4, 8, 16, 32, 64, 128, 256, 512, 1024, 2048, 4096, 8192, 16384,
         32768, 65536, 131072, 262144, 524288, 1048576, 2097152, 4194304,
         8388608, 16777216, 33554432, 67108864, 134217728, 268435456,
         536870912, 1073741824}

ASSUME CapacityAssumption ==
  /\ Capacity \in Pow2 /\ MaxCapacity \in Pow2
  /\ 1 < Capacity /\ Capacity <= MaxCapacity

Length(a) == Cardinality(DOMAIN a)

Init ==
  /\ next = 0 /\ live = 0
  /\ keys = [i \in 0 .. Capacity - 1 |-> 0]
  /\ objs = [i \in 0 .. Capacity - 1 |-> Null]

InUse == 0 .. next - 1
Live == {i \in DOMAIN objs : objs[i] # Null}

-----------------------------------------------------------------------------
(* Arrays.binarySearch over the first n entries of ks: where key is, or    *)
(* the place an absent key belongs.                                        *)
Has(key) == \E i \in InUse : keys[i] = key
IndexOf(key) == CHOOSE i \in InUse : keys[i] = key

Belongs(ks, n, key, p) ==
  /\ \A i \in 0 .. p - 1 : ks[i] < key
  /\ \A i \in p .. n - 1 : key < ks[i]

Get(key) == IF Has(key) THEN objs[IndexOf(key)] ELSE Null

\* Faulty variant of Remove: live is counted down for a tombstone too.
RemoveTwice(key) ==
  /\ Has(key)
  /\ objs' = [objs EXCEPT ![IndexOf(key)] = Null]
  /\ live' = live - 1
  /\ UNCHANGED <<next, keys>>

Remove(key) ==
  /\ IF Get(key) # Null
     THEN /\ objs' = [objs EXCEPT ![IndexOf(key)] = Null]
          /\ live' = live - 1
     ELSE UNCHANGED <<live, objs>>
  /\ UNCHANGED <<next, keys>>

\* put of a key that has an entry, bound to the same object or to none.
\* Another object makes put throw and changes nothing.
PutFound(key, o) ==
  /\ Has(key) /\ Get(key) \in {Null, o}
  /\ objs' = [objs EXCEPT ![IndexOf(key)] = o]
  /\ live' = IF Get(key) = Null THEN live + 1 ELSE live
  /\ UNCHANGED <<next, keys>>

\* Faulty variant of Inserted: the entry at p is overwritten, none is shifted.
InsertedOver(a, n, p, v) == [a EXCEPT ![p] = v]

\* The array a, n entries in use, with v inserted at p.
Inserted(a, n, p, v) ==
  [i \in DOMAIN a |-> IF i = p THEN v
                      ELSE IF p < i /\ i <= n THEN a[i - 1] ELSE a[i]]

\* The tail of put: ks and os are the arrays, possibly just grown.
InsertInto(ks, os, n, key, o) ==
  \E p \in 0 .. n :
    /\ Belongs(ks, n, key, p)
    /\ keys' = Inserted(ks, n, p, key)
    /\ objs' = Inserted(os, n, p, o)
    /\ live' = live + 1
    /\ next' = n + 1

PutFits(key, o) ==
  ~Has(key) /\ next < Length(keys) /\ InsertInto(keys, objs, next, key, o)

RoundPow2(x) == CHOOSE p \in Pow2 : x <= p /\ \A q \in Pow2 : x <= q => p <= q

\* Faulty variant of GrownLength: full arrays are always doubled.
GrownLengthDoubled(len) == 2 * len

\* Faulty variant of GrownLength: no room is kept beyond what is live.
GrownLengthTight(len) == IF RoundPow2(live) > len THEN 2 * len ELSE len

\* Length of the arrays after grow.
GrownLength(len) == IF 2 * RoundPow2(live) > len THEN 2 * len ELSE len

\* from lists, in ascending order, the j entries that grow keeps.
Keeps(j, from) ==
  /\ \A a, b \in 0 .. j - 1 : a < b => from[a] < from[b]
  /\ {from[a] : a \in 0 .. j - 1} = Live

\* The array a after grow: the entries kept, then empty ones.
Compacted(a, j, from, empty) ==
  [i \in 0 .. GrownLength(Length(a)) - 1 |->
     IF i < j THEN a[from[i]] ELSE empty]

\* put of a new key into full arrays.  grow throws if it keeps a number of
\* entries other than live.
PutGrown(key, o) ==
  /\ ~Has(key) /\ next >= Length(keys)
  /\ GrownLength(Length(keys)) <= MaxCapacity
  /\ \E j \in 0 .. Length(keys) : \E from \in [0 .. j - 1 -> DOMAIN keys] :
       /\ Keeps(j, from)
       /\ j = live
       /\ InsertInto(Compacted(keys, j, from, 0),
                     Compacted(objs, j, from, Null), j, key, o)

Next ==
  \E key \in Keys :
    \/ Remove(key)
    \/ \E o \in Objs : PutFound(key, o) \/ PutFits(key, o) \/ PutGrown(key, o)

Spec == Init /\ [][Next]_vars

-----------------------------------------------------------------------------
TypeOK ==
  /\ next \in Nat /\ live \in Nat /\ live <= next
  /\ \E n \in 1 .. MaxCapacity :
       /\ next <= n
       /\ keys \in [0 .. n - 1 -> Keys \union {0}]
       /\ objs \in [0 .. n - 1 -> Objs \union {Null}]

\* The search is a binary one: the keys in use ascend, and no key has two
\* entries, of which get and remove would see one and the other stay pinned.
Sorted == \A i, j \in InUse : i < j => keys[i] < keys[j]

\* live counts the bindings, over every tombstone, revival and compaction:
\* grow, which throws on any other value, is never refused.
LiveExact == live = Cardinality(Live) /\ Live \subseteq InUse

\* A put that finds the arrays full leaves them at most half full but for its
\* own entry: the next one is as many puts away as the arrays are half long.
HalfFree ==
  [][next = Length(keys) /\ keys' # keys
       => 2 * (next' - 1) <= Length(keys')]_vars

\* The arrays lengthen only when more than half of their entries are live: a
\* map whose bindings come and go does not grow.
LengthensForLive ==
  [][Length(keys') # Length(keys) => 2 * live > Length(keys)]_vars

\* The arrays are what the comment calls them, a map from integers to Refs:
\* no operation on one key loses, makes or changes the binding of another.
Abstract == INSTANCE IntMap
              WITH map <- [k \in {i \in Keys : Get(i) # Null} |-> Get(k)]
ImplementsMap == Abstract!Spec
=============================================================================
