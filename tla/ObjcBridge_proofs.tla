-------------------------- MODULE ObjcBridge_proofs --------------------------
(***************************************************************************)
(* Proofs about ObjcBridge for every set of objects, threads and slots.    *)
(* As for SeqBridge the invariant has two parts: Books relates the tables  *)
(* to the holders, Control says where a thread and a slot are.  What is    *)
(* new is in Control: a box is live for as long as anything has a strong   *)
(* reference to it, and a box that dies inside the tracker keeps its       *)
(* number until its dealloc.                                               *)
(***************************************************************************)
EXTENDS ObjcBridge, FiniteSetTheorems, TLAPS

USE GoMinAssumption, ObjcMaxAssumption, SlotsAssumption, FreeAssumption,
    FiniteAssumption

\* The two halves of CountsExact.
GoCountExact ==
  \A n \in GoNumbers :
    IF n \in DOMAIN goObjs THEN goObjs[n].cnt = Cardinality(Holders(n)) ELSE Holders(n) = {}
ObjcCountExact ==
  \A n \in ObjcNumbers :
    IF n \in DOMAIN oObjs THEN oObjs[n].cnt = Cardinality(Holders(n)) ELSE Holders(n) = {}

\* The two maps of each table are inverse to one another, and numbers are not used again.
GoTableOK ==
  /\ \A x \in DOMAIN goRefs : goRefs[x] \in DOMAIN goObjs /\ goObjs[goRefs[x]].obj = x
  /\ \A n \in DOMAIN goObjs :
       /\ n > goNext
       /\ goObjs[n].obj \in DOMAIN goRefs /\ goRefs[goObjs[n].obj] = n
ObjcTableOK ==
  /\ \A o \in DOMAIN oRefs : oRefs[o] \in DOMAIN oObjs /\ oObjs[oRefs[o]].obj = o
  /\ \A n \in DOMAIN oObjs :
       /\ n < oNext
       /\ oObjs[n].obj \in DOMAIN oRefs /\ oRefs[oObjs[n].obj] = n
InverseOK == GoTableOK /\ ObjcTableOK

\* What every number in somebody's hands stands for.
HolderOK ==
  \A h \in Holder :
    /\ num[h] < 0 => num[h] \in DOMAIN goObjs /\ goObjs[num[h]].obj = means[h]
    /\ num[h] > 0 => num[h] \in DOMAIN oObjs /\ oObjs[num[h]].obj = means[h]

HoldTypeOK ==
  /\ num \in [Holder -> GoNumbers \union ObjcNumbers \union {0}]
  /\ means \in [Holder -> GoObjs \union Tracked \union {None}]

TableTypeOK == GoRefsTypeOK /\ ObjcTrackerTypeOK /\ HoldTypeOK

Books ==
  /\ TableTypeOK
  /\ GoCountExact
  /\ ObjcCountExact
  /\ InverseOK
  /\ HolderOK

-----------------------------------------------------------------------------
(* Counting holders. *)

\* The two ranges of numbers do not meet, nor contain 0.
LEMMA Ranges ==
  /\ \A n \in GoNumbers : n \in Int /\ n < 0 /\ n \notin ObjcNumbers
  /\ \A n \in ObjcNumbers : n \in Int /\ n > 0 /\ n \notin GoNumbers
  /\ \A n \in GoNumbers \union ObjcNumbers \union {0} :
       /\ n < 0 => n \in GoNumbers
       /\ n > 0 => n \in ObjcNumbers
BY DEF GoNumbers, ObjcNumbers, GoFirst, ObjcFirst

\* There are finitely many holders of a number.
LEMMA HoldersFinite ==
  ASSUME NEW n
  PROVE  IsFiniteSet(Holders(n)) /\ Cardinality(Holders(n)) \in Nat
<1>1. Holders(n) \in SUBSET Holder
  BY DEF Holders
<1>2. IsFiniteSet(Holders(n))
  BY <1>1, FS_Subset
<1>. QED  BY <1>2, FS_CardinalityType

\* A holder that held nothing takes up n.
LEMMA HoldersAdd ==
  ASSUME HoldTypeOK, NEW h \in Holder, NEW n, n # 0, num[h] = 0,
         num' = [num EXCEPT ![h] = n]
  PROVE  /\ Cardinality(Holders(n)') = Cardinality(Holders(n)) + 1
         /\ \A m : m # 0 /\ m # n => Holders(m)' = Holders(m)
<1>1. Holders(n)' = Holders(n) \union {h} /\ h \notin Holders(n)
  BY DEF Holders, HoldTypeOK
<1>2. \A m : m # 0 /\ m # n => Holders(m)' = Holders(m)
  BY DEF Holders, HoldTypeOK
<1>3. Cardinality(Holders(n) \union {h}) = Cardinality(Holders(n)) + 1
  BY <1>1, HoldersFinite, FS_AddElement
<1>. QED  BY <1>1, <1>2, <1>3

\* A holder lets go of n.
LEMMA HoldersRemove ==
  ASSUME HoldTypeOK, NEW h \in Holder, NEW n, n # 0, num[h] = n,
         num' = [num EXCEPT ![h] = 0]
  PROVE  /\ Cardinality(Holders(n)') = Cardinality(Holders(n)) - 1
         /\ Holders(n)' = {} <=> Cardinality(Holders(n)) = 1
         /\ Cardinality(Holders(n)) >= 1
         /\ \A m : m # 0 /\ m # n => Holders(m)' = Holders(m)
<1>1. Holders(n)' = Holders(n) \ {h} /\ h \in Holders(n)
  BY DEF Holders, HoldTypeOK
<1>2. \A m : m # 0 /\ m # n => Holders(m)' = Holders(m)
  BY DEF Holders, HoldTypeOK
<1>3. /\ Cardinality(Holders(n) \ {h}) = Cardinality(Holders(n)) - 1
      /\ IsFiniteSet(Holders(n) \ {h})
  BY <1>1, HoldersFinite, FS_RemoveElement
<1>4. Holders(n) \ {h} = {} <=> Cardinality(Holders(n) \ {h}) = 0
  BY <1>3, FS_EmptySet
<1>5. Cardinality(Holders(n) \ {h}) \in Nat /\ Cardinality(Holders(n)) \in Nat
  BY <1>3, HoldersFinite, FS_CardinalityType
<1>. QED  BY <1>1, <1>2, <1>3, <1>4, <1>5

\* One holder hands n over to another that held nothing.
LEMMA HoldersMove ==
  ASSUME HoldTypeOK, NEW h \in Holder, NEW k \in Holder, num[h] # 0, num[k] = 0,
         num' = [num EXCEPT ![h] = 0, ![k] = num[h]]
  PROVE  \A m : m # 0 => /\ Cardinality(Holders(m)') = Cardinality(Holders(m))
                         /\ Holders(m)' = {} <=> Holders(m) = {}
<1>. DEFINE n == num[h]
<1>1. \A m : m # 0 /\ m # n => Holders(m)' = Holders(m)
  BY DEF Holders, HoldTypeOK
<1>2. \A m : m = n => /\ Holders(m)' = (Holders(m) \ {h}) \union {k}
                      /\ h \in Holders(m) /\ k \notin Holders(m)
  BY DEF Holders, HoldTypeOK
<1>3. ASSUME NEW m, m = n
      PROVE  Cardinality((Holders(m) \ {h}) \union {k}) = Cardinality(Holders(m))
  <2>1. /\ Cardinality(Holders(m) \ {h}) = Cardinality(Holders(m)) - 1
        /\ IsFiniteSet(Holders(m) \ {h})
    BY <1>2, <1>3, HoldersFinite, FS_RemoveElement
  <2>2. k \notin Holders(m) \ {h}
    BY <1>2, <1>3
  <2>3. Cardinality((Holders(m) \ {h}) \union {k}) = Cardinality(Holders(m) \ {h}) + 1
    BY <2>1, <2>2, FS_AddElement
  <2>. QED  BY <2>1, <2>3, HoldersFinite
<1>. QED  BY <1>1, <1>2, <1>3

-----------------------------------------------------------------------------
(* The steps that change the Go table. *)

\* The generated write of a Go object, by a holder h.
LEMMA BooksToRefNum ==
  ASSUME Books, NEW h \in Holder, NEW x \in GoObjs, num[h] = 0,
         CanNumber(x), ToRefNum(x), Hold(h, RefNumOf(x), x), UNCHANGED objcVars
  PROVE  Books'
<1>0. PICK n : n = RefNumOf(x)
  OBVIOUS
<1>1. /\ n \in GoNumbers /\ n # 0 /\ n < 0 /\ n \notin ObjcNumbers
      /\ x \in DOMAIN goRefs => n \in DOMAIN goObjs /\ goObjs[n].obj = x
      /\ x \notin DOMAIN goRefs => n \notin DOMAIN goObjs /\ n = goNext
  BY <1>0 DEF Books, TableTypeOK, GoRefsTypeOK, InverseOK, GoTableOK,
     RefNumOf, CanNumber, GoNumbers,
     GoFirst, ObjcNumbers, ObjcFirst
<1>2. TableTypeOK'
  BY <1>0, <1>1 DEF Books, TableTypeOK, GoRefsTypeOK, ObjcTrackerTypeOK,
     HoldTypeOK, InverseOK, GoTableOK,
     RefNumOf, CanNumber, ToRefNum, Put, Hold, objcVars, GoNumbers, GoFirst
<1>3. /\ Cardinality(Holders(n)') = Cardinality(Holders(n)) + 1
      /\ \A m : m # 0 /\ m # n => Holders(m)' = Holders(m)
  BY <1>0, <1>1, HoldersAdd DEF Books, TableTypeOK, Hold
<1>4. /\ n \in DOMAIN goObjs'
      /\ \A m \in GoNumbers : m # n =>
           /\ m \in DOMAIN goObjs' <=> m \in DOMAIN goObjs
           /\ m \in DOMAIN goObjs => goObjs'[m] = goObjs[m]
      /\ x \in DOMAIN goRefs => goObjs'[n] = [obj |-> x, cnt |-> goObjs[n].cnt + 1]
      /\ x \notin DOMAIN goRefs => goObjs'[n] = [obj |-> x, cnt |-> 1]
  BY <1>0, <1>1 DEF ToRefNum, Put
<1>5. GoCountExact'
  <2>1. x \notin DOMAIN goRefs => Cardinality(Holders(n)) = 0
    BY <1>1, FS_EmptySet DEF Books, GoCountExact
  <2>2. goObjs'[n].cnt = Cardinality(Holders(n)')
    BY <1>1, <1>3, <1>4, <2>1 DEF Books, GoCountExact
  <2>3. ASSUME NEW m \in GoNumbers, m # n
        PROVE  IF m \in DOMAIN goObjs' THEN goObjs'[m].cnt = Cardinality(Holders(m)')
                                       ELSE Holders(m)' = {}
    BY <2>3, <1>3, <1>4, Ranges DEF Books, GoCountExact
  <2>. QED  BY <2>2, <2>3, <1>4 DEF GoCountExact
<1>6. ObjcCountExact'
  BY <1>1, <1>3, Ranges DEF Books, ObjcCountExact, objcVars
<1>7. InverseOK'
  <2>1. ObjcTableOK'
    BY DEF Books, InverseOK, ObjcTableOK, objcVars
  <2>2. GoTableOK'
    BY <1>0, <1>1, <1>4 DEF Books, InverseOK, GoTableOK, TableTypeOK,
       GoRefsTypeOK, ToRefNum, Put, RefNumOf, GoNumbers, GoFirst
  <2>. QED  BY <2>1, <2>2 DEF InverseOK
<1>8. HolderOK'
  BY <1>0, <1>1, <1>4, Ranges DEF Books, HolderOK, TableTypeOK, HoldTypeOK,
     Hold, objcVars
<1>. QED  BY <1>2, <1>5, <1>6, <1>7, <1>8 DEF Books

\* Holder h sends on what k holds.
LEMMA BooksInc ==
  ASSUME Books, NEW h \in Holder, NEW k \in Holder, num[h] = 0, num[k] < 0,
         Inc(num[k]), Hold(h, num[k], means[k]), UNCHANGED objcVars
  PROVE  Books'
<1>0. PICK n : n = num[k]
  OBVIOUS
<1>1. n \in GoNumbers /\ n # 0 /\ n < 0 /\ n \notin ObjcNumbers /\ n \in DOMAIN goObjs
  BY <1>0, Ranges DEF Books, TableTypeOK, HoldTypeOK, Inc
<1>3. /\ Cardinality(Holders(n)') = Cardinality(Holders(n)) + 1
      /\ \A m : m # 0 /\ m # n => Holders(m)' = Holders(m)
  BY <1>0, <1>1, HoldersAdd DEF Books, TableTypeOK, Hold
<1>4. /\ DOMAIN goObjs' = DOMAIN goObjs
      /\ \A m \in DOMAIN goObjs : m # n => goObjs'[m] = goObjs[m]
      /\ goObjs'[n] = [obj |-> goObjs[n].obj, cnt |-> goObjs[n].cnt + 1]
  BY <1>0, <1>1 DEF Inc, Books, TableTypeOK, GoRefsTypeOK
<1>2. TableTypeOK'
  BY <1>0, <1>1, <1>4 DEF Books, TableTypeOK, GoRefsTypeOK,
     ObjcTrackerTypeOK, HoldTypeOK,
     Inc, Hold, objcVars
<1>5. GoCountExact'
  BY <1>1, <1>3, <1>4, Ranges DEF Books, GoCountExact
<1>6. ObjcCountExact'
  BY <1>1, <1>3, Ranges DEF Books, ObjcCountExact, objcVars
<1>7. InverseOK'
  BY <1>0, <1>1, <1>4 DEF Books, InverseOK, GoTableOK, ObjcTableOK, objcVars,
     Inc
<1>8. HolderOK'
  BY <1>0, <1>1, <1>4, Ranges DEF Books, HolderOK, TableTypeOK, HoldTypeOK,
     Hold, objcVars
<1>. QED  BY <1>2, <1>5, <1>6, <1>7, <1>8 DEF Books

\* Holder h gives up what it holds.
LEMMA BooksDelete ==
  ASSUME Books, NEW h \in Holder, num[h] < 0,
         Delete(num[h]), LetGo(h), UNCHANGED objcVars
  PROVE  Books'
<1>0. PICK n : n = num[h]
  OBVIOUS
<1>1. n \in GoNumbers /\ n # 0 /\ n < 0 /\ n \notin ObjcNumbers /\ n \in DOMAIN goObjs
  BY <1>0, Ranges DEF Books, TableTypeOK, HoldTypeOK, HolderOK
<1>3. /\ Cardinality(Holders(n)') = Cardinality(Holders(n)) - 1
      /\ Holders(n)' = {} <=> Cardinality(Holders(n)) = 1
      /\ Cardinality(Holders(n)) >= 1
      /\ \A m : m # 0 /\ m # n => Holders(m)' = Holders(m)
  BY <1>0, <1>1, HoldersRemove DEF Books, TableTypeOK, LetGo, Hold
<1>4. goObjs[n].cnt = Cardinality(Holders(n)) /\ goObjs[n].cnt \in Nat \ {0}
  BY <1>1 DEF Books, GoCountExact, TableTypeOK, GoRefsTypeOK
<1>9. /\ num' = [num EXCEPT ![h] = 0]
      /\ means' = [means EXCEPT ![h] = None]
  BY DEF LetGo, Hold
<1>5. CASE goObjs[n].cnt = 1
  <2>1. /\ goObjs' = Without(goObjs, n)
        /\ goRefs' = Without(goRefs, goObjs[n].obj)
        /\ goNext' = goNext
    BY <1>0, <1>1, <1>5 DEF Delete
  <2>2. TableTypeOK'
    BY <2>1, <1>9 DEF Books, TableTypeOK, GoRefsTypeOK, ObjcTrackerTypeOK,
       HoldTypeOK, Without, objcVars
  <2>3. GoCountExact'
    BY <2>1, <1>1, <1>3, <1>4, <1>5, Ranges DEF Books, GoCountExact, Without
  <2>4. ObjcCountExact'
    BY <1>1, <1>3, Ranges DEF Books, ObjcCountExact, objcVars
  <2>5. InverseOK'
    <3>1. ObjcTableOK'
      BY DEF Books, InverseOK, ObjcTableOK, objcVars
    <3>2. GoTableOK /\ n \in DOMAIN goObjs
      BY <1>1 DEF Books, InverseOK
    <3>3. /\ DOMAIN goObjs' = DOMAIN goObjs \ {n}
          /\ \A m \in DOMAIN goObjs' : goObjs'[m] = goObjs[m]
          /\ DOMAIN goRefs' = DOMAIN goRefs \ {goObjs[n].obj}
          /\ \A y \in DOMAIN goRefs' : goRefs'[y] = goRefs[y]
      BY <2>1 DEF Without
    <3>4. GoTableOK'
      BY <2>1, <3>2, <3>3 DEF GoTableOK
    <3>. QED  BY <3>1, <3>4 DEF InverseOK
  <2>6. \A k \in Holder \ {h} : num[k] # n
    BY <1>0, <1>1, <1>3, <1>4, <1>5, <1>9 DEF Holders, Books, TableTypeOK,
       HoldTypeOK
  <2>7. HolderOK'
    BY <2>1, <2>6, <1>9 DEF Books, HolderOK, TableTypeOK, HoldTypeOK,
       Without, objcVars
  <2>. QED  BY <2>2, <2>3, <2>4, <2>5, <2>7 DEF Books
<1>6. CASE goObjs[n].cnt > 1
  <2>1. /\ goObjs' = [goObjs EXCEPT ![n].cnt = @ - 1]
        /\ goRefs' = goRefs /\ goNext' = goNext
    BY <1>0, <1>1, <1>4, <1>6 DEF Delete
  <2>2. /\ DOMAIN goObjs' = DOMAIN goObjs
        /\ \A m \in DOMAIN goObjs : m # n => goObjs'[m] = goObjs[m]
        /\ goObjs'[n] = [obj |-> goObjs[n].obj, cnt |-> goObjs[n].cnt - 1]
    BY <2>1, <1>1 DEF Books, TableTypeOK, GoRefsTypeOK
  <2>3. TableTypeOK'
    BY <2>1, <2>2, <1>1, <1>4, <1>6, <1>9 DEF Books, TableTypeOK,
       GoRefsTypeOK, ObjcTrackerTypeOK, HoldTypeOK, objcVars
  <2>4. GoCountExact'
    BY <2>2, <1>1, <1>3, <1>4, Ranges DEF Books, GoCountExact
  <2>5. ObjcCountExact'
    BY <1>1, <1>3, Ranges DEF Books, ObjcCountExact, objcVars
  <2>6. InverseOK'
    <3>1. ObjcTableOK'
      BY DEF Books, InverseOK, ObjcTableOK, objcVars
    <3>2. \A m \in DOMAIN goObjs : goObjs'[m].obj = goObjs[m].obj
      BY <2>2
    <3>3. GoTableOK'
      BY <2>1, <2>2, <3>2 DEF Books, InverseOK, GoTableOK
    <3>. QED  BY <3>1, <3>3 DEF InverseOK
  <2>7. HolderOK'
    BY <2>2, <1>9 DEF Books, HolderOK, TableTypeOK, HoldTypeOK, objcVars
  <2>. QED  BY <2>3, <2>4, <2>5, <2>6, <2>7 DEF Books
<1>. QED  BY <1>4, <1>5, <1>6

-----------------------------------------------------------------------------
(* The steps that change the Objective-C table: the same three. *)

\* A tracked Objective-C object is sent by a holder h.
LEMMA BooksAssign ==
  ASSUME Books, NEW h \in Holder, NEW x \in Tracked, num[h] = 0,
         CanAssign(x), Assign(x), Hold(h, ObjcNumOf(x), x), UNCHANGED goVars
  PROVE  Books'
<1>0. PICK n : n = ObjcNumOf(x)
  OBVIOUS
<1>1. /\ n \in ObjcNumbers /\ n # 0 /\ n > 0 /\ n \notin GoNumbers
      /\ x \in DOMAIN oRefs => n \in DOMAIN oObjs /\ oObjs[n].obj = x
      /\ x \notin DOMAIN oRefs => n \notin DOMAIN oObjs /\ n = oNext
  BY <1>0 DEF Books, TableTypeOK, ObjcTrackerTypeOK, InverseOK, ObjcTableOK,
     ObjcNumOf, CanAssign, ObjcNumbers,
     ObjcFirst, GoNumbers, GoFirst
<1>9. /\ x \in DOMAIN oRefs => Counted(x) = [obj |-> x, cnt |-> oObjs[n].cnt + 1]
      /\ x \notin DOMAIN oRefs => Counted(x) = [obj |-> x, cnt |-> 1]
      /\ x \in DOMAIN oRefs => oObjs[n].cnt \in Nat
  BY <1>0, <1>1 DEF Books, TableTypeOK, ObjcTrackerTypeOK, Counted
<1>2. TableTypeOK'
  <2>1. ObjcTrackerTypeOK'
    BY <1>0, <1>1, <1>9 DEF Books, TableTypeOK, ObjcTrackerTypeOK, InverseOK, ObjcTableOK,
       CanAssign, Assign, Put, ObjcNumOf, ObjcNumbers, ObjcFirst
  <2>2. GoRefsTypeOK' /\ HoldTypeOK'
    BY <1>0, <1>1 DEF Books, TableTypeOK, GoRefsTypeOK, HoldTypeOK, Hold, goVars
  <2>. QED  BY <2>1, <2>2 DEF TableTypeOK
<1>3. /\ Cardinality(Holders(n)') = Cardinality(Holders(n)) + 1
      /\ \A m : m # 0 /\ m # n => Holders(m)' = Holders(m)
  BY <1>0, <1>1, HoldersAdd DEF Books, TableTypeOK, Hold
<1>4. /\ n \in DOMAIN oObjs'
      /\ \A m \in ObjcNumbers : m # n =>
           /\ m \in DOMAIN oObjs' <=> m \in DOMAIN oObjs
           /\ m \in DOMAIN oObjs => oObjs'[m] = oObjs[m]
      /\ x \in DOMAIN oRefs => oObjs'[n] = [obj |-> x, cnt |-> oObjs[n].cnt + 1]
      /\ x \notin DOMAIN oRefs => oObjs'[n] = [obj |-> x, cnt |-> 1]
  BY <1>0, <1>1, <1>9 DEF Assign, Put
<1>5. ObjcCountExact'
  <2>1. x \notin DOMAIN oRefs => Cardinality(Holders(n)) = 0
    BY <1>1, FS_EmptySet DEF Books, ObjcCountExact
  <2>2. oObjs'[n].cnt = Cardinality(Holders(n)')
    BY <1>1, <1>3, <1>4, <2>1 DEF Books, ObjcCountExact
  <2>3. ASSUME NEW m \in ObjcNumbers, m # n
        PROVE  IF m \in DOMAIN oObjs' THEN oObjs'[m].cnt = Cardinality(Holders(m)')
                                       ELSE Holders(m)' = {}
    BY <2>3, <1>3, <1>4, Ranges DEF Books, ObjcCountExact
  <2>. QED  BY <2>2, <2>3, <1>4 DEF ObjcCountExact
<1>6. GoCountExact'
  BY <1>1, <1>3, Ranges DEF Books, GoCountExact, goVars
<1>7. InverseOK'
  <2>1. GoTableOK'
    BY DEF Books, InverseOK, GoTableOK, goVars
  <2>2. ObjcTableOK'
    BY <1>0, <1>1, <1>4 DEF Books, InverseOK, ObjcTableOK, TableTypeOK,
       ObjcTrackerTypeOK, Assign, Put, ObjcNumOf, ObjcNumbers, ObjcFirst
  <2>. QED  BY <2>1, <2>2 DEF InverseOK
<1>8. HolderOK'
  BY <1>0, <1>1, <1>4, Ranges DEF Books, HolderOK, TableTypeOK, HoldTypeOK,
     Hold, goVars
<1>. QED  BY <1>2, <1>5, <1>6, <1>7, <1>8 DEF Books

\* Holder h sends on what k holds.
LEMMA BooksIncObjcRef ==
  ASSUME Books, NEW h \in Holder, NEW k \in Holder, num[h] = 0, num[k] > 0,
         IncObjcRef(num[k]), Hold(h, num[k], means[k]), UNCHANGED goVars
  PROVE  Books'
<1>0. PICK n : n = num[k]
  OBVIOUS
<1>1. n \in ObjcNumbers /\ n # 0 /\ n > 0 /\ n \notin GoNumbers /\ n \in DOMAIN oObjs
  BY <1>0, Ranges DEF Books, TableTypeOK, HoldTypeOK, IncObjcRef
<1>3. /\ Cardinality(Holders(n)') = Cardinality(Holders(n)) + 1
      /\ \A m : m # 0 /\ m # n => Holders(m)' = Holders(m)
  BY <1>0, <1>1, HoldersAdd DEF Books, TableTypeOK, Hold
<1>4. /\ DOMAIN oObjs' = DOMAIN oObjs
      /\ \A m \in DOMAIN oObjs : m # n => oObjs'[m] = oObjs[m]
      /\ oObjs'[n] = [obj |-> oObjs[n].obj, cnt |-> oObjs[n].cnt + 1]
  BY <1>0, <1>1 DEF IncObjcRef, Books, TableTypeOK, ObjcTrackerTypeOK
<1>2. TableTypeOK'
  BY <1>0, <1>1, <1>4 DEF Books, TableTypeOK, ObjcTrackerTypeOK,
     GoRefsTypeOK, HoldTypeOK,
     IncObjcRef, Hold, goVars
<1>5. ObjcCountExact'
  BY <1>1, <1>3, <1>4, Ranges DEF Books, ObjcCountExact
<1>6. GoCountExact'
  BY <1>1, <1>3, Ranges DEF Books, GoCountExact, goVars
<1>7. InverseOK'
  BY <1>0, <1>1, <1>4 DEF Books, InverseOK, ObjcTableOK, GoTableOK, goVars,
     IncObjcRef
<1>8. HolderOK'
  BY <1>0, <1>1, <1>4, Ranges DEF Books, HolderOK, TableTypeOK, HoldTypeOK,
     Hold, goVars
<1>. QED  BY <1>2, <1>5, <1>6, <1>7, <1>8 DEF Books

\* Holder h gives up what it holds.
LEMMA BooksDec ==
  ASSUME Books, NEW h \in Holder, num[h] > 0,
         DecObjcRef(num[h]), LetGo(h), UNCHANGED goVars
  PROVE  Books'
<1>0. PICK n : n = num[h]
  OBVIOUS
<1>1. /\ n \in ObjcNumbers /\ n # 0 /\ n > 0 /\ n \notin GoNumbers /\ n \in DOMAIN oObjs
      /\ n # NullRefNum
  BY <1>0, Ranges DEF Books, TableTypeOK, HoldTypeOK, HolderOK, ObjcNumbers,
     ObjcFirst, NullRefNum
<1>3. /\ Cardinality(Holders(n)') = Cardinality(Holders(n)) - 1
      /\ Holders(n)' = {} <=> Cardinality(Holders(n)) = 1
      /\ Cardinality(Holders(n)) >= 1
      /\ \A m : m # 0 /\ m # n => Holders(m)' = Holders(m)
  BY <1>0, <1>1, HoldersRemove DEF Books, TableTypeOK, LetGo, Hold
<1>4. oObjs[n].cnt = Cardinality(Holders(n)) /\ oObjs[n].cnt \in Nat \ {0}
  BY <1>1 DEF Books, ObjcCountExact, TableTypeOK, ObjcTrackerTypeOK
<1>9. /\ num' = [num EXCEPT ![h] = 0]
      /\ means' = [means EXCEPT ![h] = None]
  BY DEF LetGo, Hold
<1>5. CASE oObjs[n].cnt = 1
  <2>1. /\ oObjs' = Without(oObjs, n)
        /\ oRefs' = Without(oRefs, oObjs[n].obj)
        /\ oNext' = oNext
    BY <1>0, <1>1, <1>5 DEF DecObjcRef
  <2>2. TableTypeOK'
    BY <2>1, <1>9 DEF Books, TableTypeOK, ObjcTrackerTypeOK, GoRefsTypeOK,
       HoldTypeOK, Without, goVars
  <2>3. ObjcCountExact'
    BY <2>1, <1>1, <1>3, <1>4, <1>5, Ranges DEF Books, ObjcCountExact, Without
  <2>4. GoCountExact'
    BY <1>1, <1>3, Ranges DEF Books, GoCountExact, goVars
  <2>5. InverseOK'
    <3>1. GoTableOK'
      BY DEF Books, InverseOK, GoTableOK, goVars
    <3>2. ObjcTableOK /\ n \in DOMAIN oObjs
      BY <1>1 DEF Books, InverseOK
    <3>3. /\ DOMAIN oObjs' = DOMAIN oObjs \ {n}
          /\ \A m \in DOMAIN oObjs' : oObjs'[m] = oObjs[m]
          /\ DOMAIN oRefs' = DOMAIN oRefs \ {oObjs[n].obj}
          /\ \A y \in DOMAIN oRefs' : oRefs'[y] = oRefs[y]
      BY <2>1 DEF Without
    <3>4. ObjcTableOK'
      BY <2>1, <3>2, <3>3 DEF ObjcTableOK
    <3>. QED  BY <3>1, <3>4 DEF InverseOK
  <2>6. \A k \in Holder \ {h} : num[k] # n
    BY <1>0, <1>1, <1>3, <1>4, <1>5, <1>9 DEF Holders, Books, TableTypeOK,
       HoldTypeOK
  <2>7. HolderOK'
    BY <2>1, <2>6, <1>9 DEF Books, HolderOK, TableTypeOK, HoldTypeOK,
       Without, goVars
  <2>. QED  BY <2>2, <2>3, <2>4, <2>5, <2>7 DEF Books
<1>6. CASE oObjs[n].cnt > 1
  <2>1. /\ oObjs' = [oObjs EXCEPT ![n].cnt = @ - 1]
        /\ oRefs' = oRefs /\ oNext' = oNext
    BY <1>0, <1>1, <1>4, <1>6 DEF DecObjcRef
  <2>2. /\ DOMAIN oObjs' = DOMAIN oObjs
        /\ \A m \in DOMAIN oObjs : m # n => oObjs'[m] = oObjs[m]
        /\ oObjs'[n] = [obj |-> oObjs[n].obj, cnt |-> oObjs[n].cnt - 1]
    BY <2>1, <1>1 DEF Books, TableTypeOK, ObjcTrackerTypeOK
  <2>3. TableTypeOK'
    BY <2>1, <2>2, <1>1, <1>4, <1>6, <1>9 DEF Books, TableTypeOK,
       ObjcTrackerTypeOK, GoRefsTypeOK, HoldTypeOK, goVars
  <2>4. ObjcCountExact'
    BY <2>2, <1>1, <1>3, <1>4, Ranges DEF Books, ObjcCountExact
  <2>5. GoCountExact'
    BY <1>1, <1>3, Ranges DEF Books, GoCountExact, goVars
  <2>6. InverseOK'
    <3>1. GoTableOK'
      BY DEF Books, InverseOK, GoTableOK, goVars
    <3>2. \A m \in DOMAIN oObjs : oObjs'[m].obj = oObjs[m].obj
      BY <2>2
    <3>3. ObjcTableOK'
      BY <2>1, <2>2, <3>2 DEF Books, InverseOK, ObjcTableOK
    <3>. QED  BY <3>1, <3>3 DEF InverseOK
  <2>7. HolderOK'
    BY <2>2, <1>9 DEF Books, HolderOK, TableTypeOK, HoldTypeOK, goVars
  <2>. QED  BY <2>3, <2>4, <2>5, <2>6, <2>7 DEF Books
<1>. QED  BY <1>4, <1>5, <1>6

-----------------------------------------------------------------------------
(* The steps that change neither table. *)

\* Holder h hands over to k.
LEMMA BooksHandOver ==
  ASSUME Books, NEW h \in Holder, NEW k \in Holder, num[h] # 0, num[k] = 0,
         HandOver(h, k), UNCHANGED <<goVars, objcVars>>
  PROVE  Books'
<1>1. /\ num' = [num EXCEPT ![h] = 0, ![k] = num[h]]
      /\ means' = [means EXCEPT ![h] = None, ![k] = means[h]]
      /\ h # k
  BY DEF HandOver
<1>2. \A m : m # 0 => /\ Cardinality(Holders(m)') = Cardinality(Holders(m))
                      /\ Holders(m)' = {} <=> Holders(m) = {}
  BY <1>1, HoldersMove DEF Books, TableTypeOK
<1>3. TableTypeOK'
  BY <1>1 DEF Books, TableTypeOK, GoRefsTypeOK, ObjcTrackerTypeOK,
     HoldTypeOK, goVars, objcVars
<1>4. GoCountExact' /\ ObjcCountExact'
  BY <1>2, Ranges DEF Books, GoCountExact, ObjcCountExact, goVars, objcVars
<1>5. InverseOK'
  BY DEF Books, InverseOK, GoTableOK, ObjcTableOK, goVars, objcVars
<1>6. HolderOK'
  BY <1>1 DEF Books, HolderOK, TableTypeOK, HoldTypeOK, goVars, objcVars
<1>. QED  BY <1>3, <1>4, <1>5, <1>6 DEF Books

\* Nothing of the books is touched.
LEMMA BooksSame ==
  ASSUME Books, UNCHANGED <<goVars, objcVars, num, means>>
  PROVE  Books'
BY DEF Books, TableTypeOK, GoRefsTypeOK, ObjcTrackerTypeOK, HoldTypeOK,
   GoCountExact,
   ObjcCountExact, InverseOK, GoTableOK, ObjcTableOK, HolderOK, Holders, goVars, objcVars
-----------------------------------------------------------------------------
(* Where threads and slots are. *)

ControlTypeOK ==
  /\ owned \subseteq Tracked
  /\ lock \in Boxes \union {Free}
  /\ state \in [Slot -> {"free", "reserved", "live", "queued", "dying"}]
  /\ pc \in [Threads -> {"idle", "incGo", "goRead", "goDelete", "incObjc", "objcRead", "objcDec"}]
  /\ arg \in [Threads -> Slot \union {None}]
  /\ got \in [Threads -> GoObjs \union Tracked \union {None}]

\* What a thread has in hand at each program point.
ThreadOK(t) ==
  /\ pc[t] = "idle" => num[t] = 0 /\ got[t] = None
  /\ pc[t] = "incGo" => /\ num[t] = 0 /\ got[t] = None
                        /\ arg[t] \in Boxes
  /\ pc[t] = "goRead" => /\ num[t] # 0 /\ got[t] = None
                         /\ num[t] > 0 => arg[t] \in Refs
  /\ pc[t] = "goDelete" => num[t] < 0 /\ got[t] = None
  /\ pc[t] = "incObjc" => /\ num[t] = 0 /\ got[t] = None
                          /\ arg[t] \in Refs /\ state[arg[t]] = "live"
  /\ pc[t] = "objcRead" => /\ num[t] # 0 /\ got[t] = None
                           /\ num[t] < 0 => arg[t] \in Boxes
  /\ pc[t] = "objcDec" => num[t] > 0 /\ got[t] = means[t]

\* A slot set aside is set aside for one thread.
Reserving(t) == \/ pc[t] = "goRead" /\ num[t] > 0
                \/ pc[t] = "objcRead" /\ num[t] < 0

ArgOK ==
  \A t \in Threads :
    /\ arg[t] # None => pc[t] \in {"incGo", "incObjc"} \/ Reserving(t)
    /\ Reserving(t) => /\ state[arg[t]] = "reserved"
                       /\ \A u \in Threads : arg[u] = arg[t] => u = t

\* A slot has a number from the time it is in use to its release, a box one of Go's, a Ref one
\* of the tracker's; boxes are deallocated and Refs finalized.
SlotOK(s) ==
  /\ state[s] \in {"free", "reserved"} <=> num[s] = 0
  /\ s \in Boxes => num[s] <= 0 /\ state[s] # "queued"
  /\ s \in Refs => num[s] >= 0 /\ state[s] # "dying"

\* No strong reference to a box is a reference to one that is being made, or gone.
StrongOK == \A b \in Boxes : Strong(b) => state[b] = "live"
LockOK == lock # Free => state[lock] = "dying"

Control ==
  /\ ControlTypeOK
  /\ \A t \in Threads : ThreadOK(t)
  /\ ArgOK
  /\ \A s \in Slot : SlotOK(s)
  /\ StrongOK
  /\ LockOK

IInv == Books /\ Control

\* The sets a holder, an object and a slot are taken from do not meet.
LEMMA Disjoint ==
  /\ \A t \in Threads : t \in Holder /\ t \notin Slot /\ t # None
  /\ \A b \in Boxes : b \in Slot /\ b \notin Refs /\ b \notin Plain /\ b # Free
  /\ \A r \in Refs : r \in Slot /\ r \notin Boxes
  /\ \A s \in Slot : s \in Holder /\ s # None /\ s \notin Threads
  /\ \A x \in GoObjs \union Tracked : x # None
  /\ \A o \in Tracked : o \in Plain \/ o \in Boxes
BY DEF SlotsAssumption1, SlotsAssumption2, SlotsAssumption3, Holder, Slot

\* What the books say of single numbers.
LEMMA Numbers ==
  ASSUME Books
  PROVE  /\ \A h \in Holder : num[h] \in Int
         /\ \A x \in GoObjs : CanNumber(x) => RefNumOf(x) \in Int /\ RefNumOf(x) < 0
         /\ \A o \in Tracked : CanAssign(o) => ObjcNumOf(o) \in Int /\ ObjcNumOf(o) > 0
         /\ \A h \in Holder : num[h] < 0 => /\ num[h] \in DOMAIN goObjs
                                            /\ goObjs[num[h]].obj = means[h]
                                            /\ means[h] \in GoObjs
         /\ \A h \in Holder : num[h] > 0 => /\ num[h] \in DOMAIN oObjs
                                            /\ oObjs[num[h]].obj = means[h]
                                            /\ means[h] \in Tracked
<1>1. /\ \A h \in Holder : num[h] \in Int
      /\ \A x \in GoObjs : CanNumber(x) => RefNumOf(x) \in Int /\ RefNumOf(x) < 0
      /\ \A o \in Tracked : CanAssign(o) => ObjcNumOf(o) \in Int /\ ObjcNumOf(o) > 0
  BY DEF Books, TableTypeOK, GoRefsTypeOK, ObjcTrackerTypeOK, HoldTypeOK,
     CanNumber, RefNumOf, CanAssign, ObjcNumOf, GoNumbers, ObjcNumbers, GoFirst, ObjcFirst
<1>. QED  BY <1>1 DEF Books, TableTypeOK, GoRefsTypeOK, ObjcTrackerTypeOK,
             HolderOK

-----------------------------------------------------------------------------
(* Control, action by action. *)

\* What an assignment adds to the tracker, and that the other two operations add nothing.
LEMMA TrackerGrows ==
  ASSUME Books, NEW o \in Tracked, CanAssign(o), Assign(o), NEW p, InTracker(p)'
  PROVE  InTracker(p) \/ p = o
<1>1. PICK n \in DOMAIN oObjs' : oObjs'[n].obj = p
  BY DEF InTracker
<1>2. CASE n = ObjcNumOf(o)
  <2>1. oObjs'[n] = Counted(o)
    BY <1>2 DEF Assign, Put
  <2>. QED  BY <1>1, <1>2, <2>1 DEF Counted, InTracker, Books, TableTypeOK, ObjcTrackerTypeOK
<1>3. CASE n # ObjcNumOf(o)
  BY <1>1, <1>3 DEF Assign, Put, InTracker
<1>. QED  BY <1>2, <1>3

LEMMA TrackerKeeps ==
  ASSUME Books, NEW n, IncObjcRef(n) \/ DecObjcRef(n), NEW p, InTracker(p)'
  PROVE  InTracker(p)
<1>1. PICK m \in DOMAIN oObjs' : oObjs'[m].obj = p
  BY DEF InTracker
<1>2. m \in DOMAIN oObjs /\ oObjs[m].obj = p
  BY <1>1 DEF IncObjcRef, DecObjcRef, Without, Books, TableTypeOK, ObjcTrackerTypeOK
<1>. QED  BY <1>2 DEF InTracker

\* SendTracked: an object of the tracker is on its way with its Ref set aside.
LEMMA ControlSendTracked ==
  ASSUME IInv, NEW t \in Threads, NEW o \in Tracked, NEW r \in Refs, SendTracked(t, o, r)
  PROVE  Control'
<1>. USE Disjoint DEF IInv, Control, SendTracked, Hold, Goto, SetState
<1>0. num'[t] = ObjcNumOf(o) /\ num'[t] \in Int /\ num'[t] > 0
      /\ \A h \in Holder \ {t} : num'[h] = num[h] /\ means'[h] = means[h]
  BY Numbers DEF Books, TableTypeOK, HoldTypeOK
<1>1. ControlTypeOK'
  BY DEF ControlTypeOK
<1>2. \A u \in Threads : ThreadOK(u)'
  BY <1>0 DEF ControlTypeOK, ThreadOK
<1>3. ArgOK'
  BY <1>0 DEF ControlTypeOK, ThreadOK, ArgOK, Reserving
<1>4. \A s \in Slot : SlotOK(s)'
  BY DEF SlotOK
<1>5. StrongOK'
  <2>1. ASSUME NEW b \in Boxes, Strong(b)'
        PROVE  Strong(b)
    <3>1. InTracker(b)' => InTracker(b) \/ b = o
      BY TrackerGrows
    <3>2. InFrame(b)' => InFrame(b)
      BY DEF InFrame, ControlTypeOK
    <3>. QED  BY <2>1, <3>1, <3>2 DEF Strong
  <2>. QED  BY <2>1 DEF StrongOK
<1>6. LockOK'
  BY DEF LockOK, ControlTypeOK
<1>. QED  BY <1>1, <1>2, <1>3, <1>4, <1>5, <1>6

\* SendBox: the receiver or argument stays in its frame until it is counted.
LEMMA ControlSendBox ==
  ASSUME IInv, NEW t \in Threads, NEW b \in Boxes, SendBox(t, b)
  PROVE  Control'
<1>. USE Disjoint DEF IInv, Control, SendBox, Goto
<1>1. ControlTypeOK'
  BY DEF ControlTypeOK
<1>2. \A u \in Threads : ThreadOK(u)'
  BY DEF ControlTypeOK, ThreadOK
<1>3. ArgOK'
  <2>1. state[b] = "live"
    BY DEF StrongOK, Strong
  <2>2. arg'[t] = b /\ pc'[t] = "incGo" /\ ~Reserving(t)'
    BY DEF ControlTypeOK, Reserving
  <2>3. \A u \in Threads : u # t => arg'[u] = arg[u] /\ pc'[u] = pc[u] /\ (Reserving(u)' <=> Reserving(u))
    BY DEF ControlTypeOK, Reserving
  <2>. QED  BY <2>1, <2>2, <2>3 DEF ArgOK
<1>4. \A s \in Slot : SlotOK(s)'
  BY DEF SlotOK
<1>5. StrongOK'
  <2>1. ASSUME NEW c \in Boxes, Strong(c)'
        PROVE  Strong(c)
    <3>1. InFrame(c)' => InFrame(c) \/ c = b
      BY DEF InFrame, ControlTypeOK
    <3>. QED  BY <2>1, <3>1 DEF Strong, InTracker, objcVars
  <2>. QED  BY <2>1 DEF StrongOK
<1>6. LockOK'
  BY DEF LockOK
<1>. QED  BY <1>1, <1>2, <1>3, <1>4, <1>5, <1>6

\* IncGo: the number of a live box is counted; the box may die with its frame.
LEMMA ControlIncGo ==
  ASSUME IInv, NEW t \in Threads, IncGo(t)
  PROVE  Control'
<1>. USE Disjoint DEF IInv, Control, IncGo, Hold, Goto
<1>0. /\ arg[t] \in Boxes /\ num[t] = 0
      /\ num[arg[t]] \in Int /\ num[arg[t]] < 0
      /\ num'[t] = num[arg[t]]
      /\ \A h \in Holder \ {t} : num'[h] = num[h] /\ means'[h] = means[h]
  <2>1. arg[t] \in Boxes /\ num[t] = 0
    BY DEF ThreadOK
  <2>2. state[arg[t]] = "live"
    BY <2>1 DEF StrongOK, Strong, InFrame
  <2>. QED  BY <2>1, <2>2, Numbers DEF SlotOK, Books, TableTypeOK, HoldTypeOK
<1>1. ControlTypeOK'
  BY <1>0 DEF ControlTypeOK, Arc
<1>2. \A u \in Threads : ThreadOK(u)'
  BY <1>0 DEF ControlTypeOK, ThreadOK, Arc
<1>3. ArgOK'
  BY <1>0 DEF ControlTypeOK, ThreadOK, ArgOK, Reserving, Arc
<1>4. \A s \in Slot : SlotOK(s)'
  BY <1>0 DEF ControlTypeOK, SlotOK, Arc
<1>5. StrongOK'
  <2>1. ASSUME NEW b \in Boxes, Strong(b)'
        PROVE  Strong(b)
    <3>1. InFrame(b)' => InFrame(b)
      BY DEF InFrame, ControlTypeOK
    <3>. QED  BY <2>1, <3>1 DEF Strong, InTracker, objcVars
  <2>. QED  BY <2>1 DEF StrongOK, Arc, ControlTypeOK
<1>6. LockOK'
  BY DEF LockOK, Arc, ControlTypeOK
<1>. QED  BY <1>1, <1>2, <1>3, <1>4, <1>5, <1>6

\* GoLookup: the lookup finds the object the number was made for.
LEMMA ControlGoLookup ==
  ASSUME IInv, NEW t \in Threads, GoLookup(t)
  PROVE  Control'
<1>. USE Disjoint DEF IInv, Control, GoLookup, Goto
<1>1. ControlTypeOK'
  BY DEF ControlTypeOK
<1>2. \A u \in Threads : ThreadOK(u)'
  BY Numbers DEF ControlTypeOK, ThreadOK
<1>3. ArgOK'
  <2>1. arg[t] = None /\ ~Reserving(t)'
    BY Numbers DEF ArgOK, Reserving
  <2>2. \A u \in Threads : u # t => (Reserving(u)' <=> Reserving(u)) /\ pc'[u] = pc[u]
    BY DEF Reserving
  <2>. QED  BY <2>1, <2>2 DEF ControlTypeOK, ArgOK
<1>4. \A s \in Slot : SlotOK(s)'
  BY DEF SlotOK
<1>5. StrongOK'
  <2>1. ASSUME NEW b \in Boxes, Strong(b)'
        PROVE  Strong(b)
    <3>1. InFrame(b)' => InFrame(b)
      BY DEF InFrame, ControlTypeOK
    <3>. QED  BY <2>1, <3>1 DEF Strong, InTracker, objcVars
  <2>. QED  BY <2>1 DEF StrongOK
<1>6. LockOK'
  BY DEF LockOK
<1>. QED  BY <1>1, <1>2, <1>3, <1>4, <1>5, <1>6

\* GoDelete: the thread has given its number up and is idle again.
LEMMA ControlGoDelete ==
  ASSUME IInv, NEW t \in Threads, GoDelete(t)
  PROVE  Control'
<1>. USE Disjoint DEF IInv, Control, GoDelete, Hold, LetGo, Goto
<1>1. ControlTypeOK'
  BY DEF ControlTypeOK
<1>2. \A u \in Threads : ThreadOK(u)'
  BY DEF ControlTypeOK, ThreadOK, Books, TableTypeOK, HoldTypeOK
<1>3. ArgOK'
  BY DEF ArgOK, Reserving, ControlTypeOK, Books, TableTypeOK, HoldTypeOK
<1>4. \A s \in Slot : SlotOK(s)'
  BY DEF SlotOK
<1>5. StrongOK'
  <2>1. ASSUME NEW b \in Boxes, Strong(b)'
        PROVE  Strong(b)
    <3>1. InFrame(b)' => InFrame(b)
      BY DEF InFrame, ControlTypeOK
    <3>. QED  BY <2>1, <3>1 DEF Strong, InTracker, objcVars
  <2>. QED  BY <2>1 DEF StrongOK
<1>6. LockOK'
  BY DEF LockOK
<1>. QED  BY <1>1, <1>2, <1>3, <1>4, <1>5, <1>6

\* GoWrap: the Ref set aside takes the number over and is live.
LEMMA ControlGoWrap ==
  ASSUME IInv, NEW t \in Threads, GoWrap(t)
  PROVE  Control'
<1>. USE Disjoint DEF IInv, Control, GoWrap, HandOver, Goto, SetState
<1>0. /\ arg[t] \in Refs /\ state[arg[t]] = "reserved"
      /\ num[t] \in Int /\ num[t] > 0 /\ num[arg[t]] = 0
      /\ num' = [num EXCEPT ![t] = 0, ![arg[t]] = num[t]]
      /\ num'[t] = 0 /\ num'[arg[t]] = num[t]
      /\ means'[arg[t]] = means[t]
      /\ \A h \in Holder \ {t, arg[t]} : num'[h] = num[h] /\ means'[h] = means[h]
  <2>1. Reserving(t) /\ arg[t] \in Refs
    BY DEF Reserving, ThreadOK
  <2>2. state[arg[t]] = "reserved" /\ num[arg[t]] = 0
    BY <2>1 DEF ArgOK, SlotOK
  <2>. QED  BY <2>1, <2>2, Numbers DEF Books, TableTypeOK, HoldTypeOK
<1>1. ControlTypeOK'
  BY <1>0 DEF ControlTypeOK
<1>2. \A u \in Threads : ThreadOK(u)'
  BY <1>0 DEF ControlTypeOK, ThreadOK, ArgOK, Books, TableTypeOK, HoldTypeOK
<1>3. ArgOK'
  <2>1. ~Reserving(t)' /\ arg'[t] = None
    BY <1>0 DEF Reserving, ControlTypeOK
  <2>2. ASSUME NEW u \in Threads, u # t
        PROVE  /\ arg'[u] = arg[u] /\ pc'[u] = pc[u]
               /\ Reserving(u)' <=> Reserving(u)
               /\ Reserving(u) => arg[u] # arg[t] /\ arg[u] \in Slot
    <3>1. arg'[u] = arg[u] /\ pc'[u] = pc[u]
      BY <2>2 DEF ControlTypeOK
    <3>2. num'[u] = num[u]
      BY <1>0, <2>2
    <3>3. Reserving(t) /\ (Reserving(u)' <=> Reserving(u))
      BY <1>0, <3>1, <3>2 DEF Reserving
    <3>4. Reserving(u) => arg[u] # arg[t] /\ arg[u] \in Slot
      BY <2>2, <3>3 DEF ArgOK, ThreadOK, Reserving
    <3>. QED  BY <3>1, <3>3, <3>4
  <2>. QED  BY <1>0, <2>1, <2>2 DEF ArgOK, ControlTypeOK
<1>4. \A s \in Slot : SlotOK(s)'
  BY <1>0 DEF ControlTypeOK, SlotOK, Books, TableTypeOK, HoldTypeOK
<1>5. StrongOK'
  <2>1. ASSUME NEW b \in Boxes, Strong(b)'
        PROVE  Strong(b)
    <3>1. InFrame(b)' => InFrame(b)
      BY DEF InFrame, ControlTypeOK
    <3>. QED  BY <2>1, <3>1 DEF Strong, InTracker, objcVars
  <2>. QED  BY <1>0, <2>1 DEF StrongOK, ControlTypeOK
<1>6. LockOK'
  BY <1>0 DEF LockOK, ControlTypeOK
<1>. QED  BY <1>1, <1>2, <1>3, <1>4, <1>5, <1>6

\* SendGo: a Go object is on its way with its box set aside.
LEMMA ControlSendGo ==
  ASSUME IInv, NEW t \in Threads, NEW x \in GoObjs, NEW b \in Boxes, SendGo(t, x, b)
  PROVE  Control'
<1>. USE Disjoint DEF IInv, Control, SendGo, Hold, Goto, SetState
<1>0. num'[t] = RefNumOf(x) /\ num'[t] \in Int /\ num'[t] < 0
      /\ \A h \in Holder \ {t} : num'[h] = num[h] /\ means'[h] = means[h]
  BY Numbers DEF Books, TableTypeOK, HoldTypeOK
<1>1. ControlTypeOK'
  BY DEF ControlTypeOK
<1>2. \A u \in Threads : ThreadOK(u)'
  BY <1>0 DEF ControlTypeOK, ThreadOK
<1>3. ArgOK'
  <2>1. \A u \in Threads : arg[u] # b
    BY DEF ArgOK, StrongOK, Strong, InFrame, ThreadOK
  <2>. QED  BY <1>0, <2>1 DEF ControlTypeOK, ThreadOK, ArgOK, Reserving
<1>4. \A s \in Slot : SlotOK(s)'
  BY DEF SlotOK
<1>5. StrongOK'
  <2>1. ASSUME NEW c \in Boxes, Strong(c)'
        PROVE  Strong(c)
    <3>1. InFrame(c)' => InFrame(c)
      BY DEF InFrame, ControlTypeOK
    <3>. QED  BY <2>1, <3>1 DEF Strong, InTracker, objcVars
  <2>. QED  BY <2>1 DEF StrongOK, ControlTypeOK
<1>6. LockOK'
  BY DEF LockOK, ControlTypeOK
<1>. QED  BY <1>1, <1>2, <1>3, <1>4, <1>5, <1>6

\* NewBox: the box set aside takes the number over, live and the program's own.
LEMMA ControlNewBox ==
  ASSUME IInv, NEW t \in Threads, NewBox(t)
  PROVE  Control'
<1>. USE Disjoint DEF IInv, Control, NewBox, HandOver, Goto, SetState
<1>0. /\ arg[t] \in Boxes /\ state[arg[t]] = "reserved"
      /\ num[t] \in Int /\ num[t] < 0 /\ num[arg[t]] = 0
      /\ num' = [num EXCEPT ![t] = 0, ![arg[t]] = num[t]]
      /\ num'[t] = 0 /\ num'[arg[t]] = num[t]
      /\ means'[arg[t]] = means[t]
      /\ \A h \in Holder \ {t, arg[t]} : num'[h] = num[h] /\ means'[h] = means[h]
  <2>1. Reserving(t) /\ arg[t] \in Boxes
    BY DEF Reserving, ThreadOK
  <2>2. state[arg[t]] = "reserved" /\ num[arg[t]] = 0
    BY <2>1 DEF ArgOK, SlotOK
  <2>. QED  BY <2>1, <2>2, Numbers DEF Books, TableTypeOK, HoldTypeOK
<1>1. ControlTypeOK'
  BY <1>0 DEF ControlTypeOK, SlotsAssumption1
<1>2. \A u \in Threads : ThreadOK(u)'
  BY <1>0 DEF ControlTypeOK, ThreadOK, ArgOK, Books, TableTypeOK, HoldTypeOK
<1>3. ArgOK'
  <2>1. ~Reserving(t)' /\ arg'[t] = None
    BY <1>0 DEF Reserving, ControlTypeOK
  <2>2. ASSUME NEW u \in Threads, u # t
        PROVE  /\ arg'[u] = arg[u] /\ pc'[u] = pc[u]
               /\ Reserving(u)' <=> Reserving(u)
               /\ Reserving(u) => arg[u] # arg[t] /\ arg[u] \in Slot
    <3>1. arg'[u] = arg[u] /\ pc'[u] = pc[u]
      BY <2>2 DEF ControlTypeOK
    <3>2. num'[u] = num[u]
      BY <1>0, <2>2
    <3>3. Reserving(t) /\ (Reserving(u)' <=> Reserving(u))
      BY <1>0, <3>1, <3>2 DEF Reserving
    <3>4. Reserving(u) => arg[u] # arg[t] /\ arg[u] \in Slot
      BY <2>2, <3>3 DEF ArgOK, ThreadOK, Reserving
    <3>. QED  BY <3>1, <3>3, <3>4
  <2>. QED  BY <1>0, <2>1, <2>2 DEF ArgOK, ControlTypeOK
<1>4. \A s \in Slot : SlotOK(s)'
  BY <1>0 DEF ControlTypeOK, SlotOK, Books, TableTypeOK, HoldTypeOK
<1>5. StrongOK'
  <2>1. ASSUME NEW b \in Boxes, Strong(b)'
        PROVE  Strong(b) \/ b = arg[t]
    <3>1. InFrame(b)' => InFrame(b)
      BY DEF InFrame, ControlTypeOK
    <3>. QED  BY <2>1, <3>1 DEF Strong, InTracker, objcVars
  <2>. QED  BY <1>0, <2>1 DEF StrongOK, ControlTypeOK
<1>6. LockOK'
  BY <1>0 DEF LockOK, ControlTypeOK
<1>. QED  BY <1>1, <1>2, <1>3, <1>4, <1>5, <1>6

\* SendRef: a live Ref is sent, and kept alive until it is counted.
LEMMA ControlSendRef ==
  ASSUME IInv, NEW t \in Threads, NEW r \in Refs, SendRef(t, r)
  PROVE  Control'
<1>. USE Disjoint DEF IInv, Control, SendRef, Goto
<1>1. ControlTypeOK'
  BY DEF ControlTypeOK
<1>2. \A u \in Threads : ThreadOK(u)'
  BY DEF ControlTypeOK, ThreadOK
<1>3. ArgOK'
  BY DEF ControlTypeOK, ArgOK, Reserving
<1>4. \A s \in Slot : SlotOK(s)'
  BY DEF SlotOK
<1>5. StrongOK'
  <2>1. ASSUME NEW b \in Boxes, Strong(b)'
        PROVE  Strong(b)
    <3>1. InFrame(b)' => InFrame(b)
      BY DEF InFrame, ControlTypeOK
    <3>. QED  BY <2>1, <3>1 DEF Strong, InTracker, objcVars
  <2>. QED  BY <2>1 DEF StrongOK
<1>6. LockOK'
  BY DEF LockOK
<1>. QED  BY <1>1, <1>2, <1>3, <1>4, <1>5, <1>6

\* IncObjc: the number of a live Ref is counted for its thread.
LEMMA ControlIncObjc ==
  ASSUME IInv, NEW t \in Threads, IncObjc(t)
  PROVE  Control'
<1>. USE Disjoint DEF IInv, Control, IncObjc, Hold, Goto
<1>0. /\ arg[t] \in Refs /\ num[t] = 0
      /\ num[arg[t]] \in Int /\ num[arg[t]] > 0
      /\ num'[t] = num[arg[t]]
      /\ \A h \in Holder \ {t} : num'[h] = num[h] /\ means'[h] = means[h]
  BY Numbers DEF ThreadOK, SlotOK, Books, TableTypeOK, HoldTypeOK
<1>1. ControlTypeOK'
  BY DEF ControlTypeOK
<1>2. \A u \in Threads : ThreadOK(u)'
  BY <1>0 DEF ControlTypeOK, ThreadOK
<1>3. ArgOK'
  BY <1>0 DEF ControlTypeOK, ThreadOK, ArgOK, Reserving
<1>4. \A s \in Slot : SlotOK(s)'
  BY <1>0 DEF SlotOK
<1>5. StrongOK'
  <2>1. ASSUME NEW b \in Boxes, Strong(b)'
        PROVE  Strong(b)
    <3>1. InFrame(b)' => InFrame(b)
      BY DEF InFrame, ControlTypeOK
    <3>. QED  BY <2>1, <3>1, TrackerKeeps DEF Strong
  <2>. QED  BY <2>1 DEF StrongOK
<1>6. LockOK'
  BY DEF LockOK
<1>. QED  BY <1>1, <1>2, <1>3, <1>4, <1>5, <1>6

\* ObjcGet: the lookup finds the object the number was made for, and keeps it alive.
LEMMA ControlObjcGet ==
  ASSUME IInv, NEW t \in Threads, ObjcGet(t)
  PROVE  Control'
<1>. USE Disjoint DEF IInv, Control, ObjcGet, Goto
<1>0. oObjs[num[t]].obj = means[t] /\ means[t] \in Tracked
  BY Numbers
<1>1. ControlTypeOK'
  BY <1>0 DEF ControlTypeOK
<1>2. \A u \in Threads : ThreadOK(u)'
  BY <1>0 DEF ControlTypeOK, ThreadOK
<1>3. ArgOK'
  <2>1. arg[t] = None /\ ~Reserving(t)'
    BY Numbers DEF ArgOK, Reserving
  <2>2. \A u \in Threads : u # t => (Reserving(u)' <=> Reserving(u)) /\ pc'[u] = pc[u]
    BY DEF Reserving
  <2>. QED  BY <2>1, <2>2 DEF ControlTypeOK, ArgOK
<1>4. \A s \in Slot : SlotOK(s)'
  BY DEF SlotOK
<1>5. StrongOK'
  <2>1. ASSUME NEW b \in Boxes, Strong(b)'
        PROVE  Strong(b)
    <3>1. InFrame(b)' => InFrame(b) \/ b = oObjs[num[t]].obj
      BY DEF InFrame, ControlTypeOK
    <3>. QED  BY <2>1, <3>1 DEF Strong, InTracker, objcVars
  <2>. QED  BY <2>1 DEF StrongOK
<1>6. LockOK'
  BY DEF LockOK
<1>. QED  BY <1>1, <1>2, <1>3, <1>4, <1>5, <1>6

\* ObjcDec: the thread is idle again and the program has what it looked up.
LEMMA ControlObjcDec ==
  ASSUME IInv, NEW t \in Threads, ObjcDec(t)
  PROVE  Control'
<1>. USE Disjoint DEF IInv, Control, ObjcDec, Hold, LetGo, Goto
<1>0. got[t] = means[t] /\ means[t] \in Tracked
  BY Numbers DEF ThreadOK
<1>1. ControlTypeOK'
  BY <1>0 DEF ControlTypeOK
<1>2. \A u \in Threads : ThreadOK(u)'
  BY DEF ControlTypeOK, ThreadOK, Books, TableTypeOK, HoldTypeOK
<1>3. ArgOK'
  BY DEF ArgOK, Reserving, ControlTypeOK, Books, TableTypeOK, HoldTypeOK
<1>4. \A s \in Slot : SlotOK(s)'
  BY DEF SlotOK
<1>5. StrongOK'
  <2>1. ASSUME NEW b \in Boxes, Strong(b)'
        PROVE  Strong(b)
    <3>1. InFrame(b)' => InFrame(b)
      BY DEF InFrame, ControlTypeOK
    <3>2. b = got[t] => InFrame(b)
      BY DEF InFrame
    <3>. QED  BY <2>1, <3>1, <3>2, TrackerKeeps DEF Strong
  <2>. QED  BY <2>1 DEF StrongOK
<1>6. LockOK'
  BY DEF LockOK
<1>. QED  BY <1>1, <1>2, <1>3, <1>4, <1>5, <1>6

\* NewPlain: a new object, or one at the address of a deallocated one, is not a box.
LEMMA ControlNewPlain ==
  ASSUME IInv, NEW o \in Plain, NewPlain(o)
  PROVE  Control'
<1>. USE Disjoint DEF IInv, Control, NewPlain
<1>1. ControlTypeOK'
  BY DEF ControlTypeOK, SlotsAssumption1
<1>2. \A u \in Threads : ThreadOK(u)'
  BY DEF ControlTypeOK, ThreadOK
<1>3. ArgOK'
  BY DEF ControlTypeOK, ArgOK, Reserving
<1>4. \A s \in Slot : SlotOK(s)'
  BY DEF SlotOK
<1>5. StrongOK'
  <2>1. ASSUME NEW b \in Boxes, Strong(b)'
        PROVE  Strong(b)
    <3>1. InFrame(b)' => InFrame(b)
      BY DEF InFrame, ControlTypeOK
    <3>. QED  BY <2>1, <3>1 DEF Strong, InTracker, objcVars
  <2>. QED  BY <2>1 DEF StrongOK
<1>6. LockOK'
  BY DEF LockOK
<1>. QED  BY <1>1, <1>2, <1>3, <1>4, <1>5, <1>6

\* Release: with the program's reference the last one may go: the box starts its dealloc.
LEMMA ControlRelease ==
  ASSUME IInv, NEW o \in Tracked, Release(o)
  PROVE  Control'
<1>. USE Disjoint DEF IInv, Control, Release
<1>1. ControlTypeOK'
  BY DEF ControlTypeOK, Arc
<1>2. \A u \in Threads : ThreadOK(u)'
  BY DEF ControlTypeOK, ThreadOK, Arc
<1>3. ArgOK'
  BY DEF ControlTypeOK, ArgOK, Reserving, ThreadOK, Arc
<1>4. \A s \in Slot : SlotOK(s)'
  BY DEF ControlTypeOK, SlotOK, Arc
<1>5. StrongOK'
  <2>1. ASSUME NEW b \in Boxes, Strong(b)'
        PROVE  Strong(b)
    <3>1. InFrame(b)' => InFrame(b)
      BY DEF InFrame, ControlTypeOK
    <3>. QED  BY <2>1, <3>1 DEF Strong, InTracker, objcVars
  <2>. QED  BY <2>1 DEF StrongOK, Arc, ControlTypeOK
<1>6. LockOK'
  BY DEF LockOK, Arc, ControlTypeOK
<1>. QED  BY <1>1, <1>2, <1>3, <1>4, <1>5, <1>6

\* Dealloc: a box that nothing refers to any more is free with its number.
LEMMA ControlDealloc ==
  ASSUME IInv, NEW b \in Boxes, Dealloc(b)
  PROVE  Control'
<1>. USE Disjoint DEF IInv, Control, Dealloc, Hold, LetGo, SetState
<1>1. ControlTypeOK'
  BY DEF ControlTypeOK
<1>2. \A u \in Threads : ThreadOK(u)'
  BY DEF ControlTypeOK, ThreadOK, Books, TableTypeOK, HoldTypeOK
<1>3. ArgOK'
  BY DEF ControlTypeOK, ArgOK, Reserving, ThreadOK, Books, TableTypeOK, HoldTypeOK
<1>4. \A s \in Slot : SlotOK(s)'
  BY DEF ControlTypeOK, SlotOK, Books, TableTypeOK, HoldTypeOK
<1>5. StrongOK'
  <2>1. ASSUME NEW c \in Boxes, Strong(c)'
        PROVE  Strong(c)
    <3>1. InFrame(c)' => InFrame(c)
      BY DEF InFrame, ControlTypeOK
    <3>. QED  BY <2>1, <3>1 DEF Strong, InTracker, objcVars
  <2>. QED  BY <2>1 DEF StrongOK, ControlTypeOK
<1>6. LockOK'
  BY DEF LockOK, ControlTypeOK
<1>. QED  BY <1>1, <1>2, <1>3, <1>4, <1>5, <1>6

\* CollectRef: a Ref that no call uses is queued for its finalizer.
LEMMA ControlCollectRef ==
  ASSUME IInv, NEW r \in Refs, CollectRef(r)
  PROVE  Control'
<1>. USE Disjoint DEF IInv, Control, CollectRef, SetState
<1>1. ControlTypeOK'
  BY DEF ControlTypeOK
<1>2. \A u \in Threads : ThreadOK(u)'
  BY DEF ControlTypeOK, ThreadOK
<1>3. ArgOK'
  BY DEF ControlTypeOK, ArgOK, Reserving, ThreadOK
<1>4. \A s \in Slot : SlotOK(s)'
  BY DEF ControlTypeOK, SlotOK
<1>5. StrongOK'
  <2>1. ASSUME NEW b \in Boxes, Strong(b)'
        PROVE  Strong(b)
    <3>1. InFrame(b)' => InFrame(b)
      BY DEF InFrame, ControlTypeOK
    <3>. QED  BY <2>1, <3>1 DEF Strong, InTracker, objcVars
  <2>. QED  BY <2>1 DEF StrongOK, ControlTypeOK
<1>6. LockOK'
  BY DEF LockOK, ControlTypeOK
<1>. QED  BY <1>1, <1>2, <1>3, <1>4, <1>5, <1>6

\* FinalizeRef: the Ref is free; the object it kept may die, inside the tracker or after it.
LEMMA ControlFinalizeRef ==
  ASSUME IInv, NEW r \in Refs, FinalizeRef(r)
  PROVE  Control'
<1>. USE Disjoint DEF IInv, Control, FinalizeRef, Hold, LetGo
<1>0. PICK o : /\ o = oObjs[num[r]].obj
               /\ \A s \in Slot : state'[s] = IF s = r THEN "free"
                     ELSE IF o \in Boxes /\ ~Strong(o)' /\ s = o THEN "dying" ELSE state[s]
               /\ lock' \in IF o \in Boxes /\ ~Strong(o)' THEN {o, Free} ELSE {Free}
               /\ state' \in [Slot -> {"free", "reserved", "live", "queued", "dying"}]
  BY DEF ControlTypeOK
<1>9. num[r] > 0 /\ num[r] \in DOMAIN oObjs /\ (o \in Boxes => state[o] = "live")
      /\ num' = [num EXCEPT ![r] = 0]
  <2>1. num[r] > 0
    BY Numbers DEF SlotOK
  <2>2. num[r] \in DOMAIN oObjs
    BY <2>1, Numbers
  <2>. QED  BY <1>0, <2>1, <2>2 DEF StrongOK, Strong, InTracker
<1>1. ControlTypeOK'
  BY <1>0 DEF ControlTypeOK
<1>2. \A u \in Threads : ThreadOK(u)'
  BY <1>0, <1>9 DEF ControlTypeOK, ThreadOK, Books, TableTypeOK, HoldTypeOK
<1>3. ArgOK'
  BY <1>0, <1>9 DEF ControlTypeOK, ArgOK, Reserving, ThreadOK, Books, TableTypeOK, HoldTypeOK
<1>4. \A s \in Slot : SlotOK(s)'
  BY <1>0, <1>9 DEF ControlTypeOK, SlotOK, Books, TableTypeOK, HoldTypeOK
<1>5. StrongOK'
  <2>1. ASSUME NEW b \in Boxes, Strong(b)'
        PROVE  Strong(b)
    <3>1. InFrame(b)' => InFrame(b)
      BY DEF InFrame, ControlTypeOK
    <3>. QED  BY <2>1, <3>1, TrackerKeeps DEF Strong
  <2>. QED  BY <1>0, <2>1 DEF StrongOK, ControlTypeOK
<1>6. LockOK'
  BY <1>0, <1>9 DEF LockOK, ControlTypeOK
<1>. QED  BY <1>1, <1>2, <1>3, <1>4, <1>5, <1>6

-----------------------------------------------------------------------------
(* The invariant holds at first and is kept by every step. *)

\* Nothing is held before the first step.
LEMMA InitIInv ==
  ASSUME Init
  PROVE  IInv
<1>. USE DEF Init, GoRefsInit, ObjcTrackerInit
<1>1. TableTypeOK
  <2>1. goNext \in GoMin - 1 .. GoFirst /\ oNext \in ObjcFirst .. ObjcMax + 1
    BY DEF GoFirst, ObjcFirst
  <2>2. DOMAIN goRefs = {} /\ DOMAIN goObjs = {} /\ DOMAIN oRefs = {} /\ DOMAIN oObjs = {}
    OBVIOUS
  <2>. QED  BY <2>1, <2>2 DEF TableTypeOK, GoRefsTypeOK, ObjcTrackerTypeOK, HoldTypeOK
<1>2. GoCountExact /\ ObjcCountExact
  BY Ranges DEF GoCountExact, ObjcCountExact, Holders
<1>3. InverseOK /\ HolderOK
  BY DEF InverseOK, GoTableOK, ObjcTableOK, HolderOK
<1>4. ControlTypeOK /\ LockOK
  BY DEF ControlTypeOK, LockOK
<1>5. StrongOK
  BY Disjoint DEF StrongOK, Strong, InTracker, InFrame
<1>6. Control
  BY <1>4, <1>5, Disjoint DEF Control, ThreadOK, ArgOK, Reserving, SlotOK
<1>. QED  BY <1>1, <1>2, <1>3, <1>6 DEF Books, IInv

\* What the holder of a step has in hand, as the lemmas on the books ask for it.
LEMMA InHand ==
  ASSUME IInv
  PROVE  /\ \A h \in Holder : num[h] \in Int
         /\ \A t \in Threads :
              /\ t \in Holder
              /\ pc[t] \in {"idle", "incGo", "incObjc"} => num[t] = 0
              /\ pc[t] = "incGo" => /\ arg[t] \in Boxes /\ arg[t] \in Holder
                                    /\ num[arg[t]] < 0 /\ state[arg[t]] = "live"
              /\ pc[t] = "incObjc" => arg[t] \in Holder /\ num[arg[t]] > 0
              /\ pc[t] = "goDelete" => num[t] < 0
              /\ pc[t] = "objcDec" => num[t] > 0
              /\ pc[t] \in {"goRead", "objcRead"} => num[t] # 0
              /\ Reserving(t) => arg[t] \in Holder /\ num[arg[t]] = 0
         /\ \A s \in Slot :
              /\ s \in Holder
              /\ state[s] = "dying" => num[s] < 0
              /\ state[s] = "queued" => num[s] > 0
<1>. USE Disjoint DEF IInv, Control
<1>1. \A h \in Holder : num[h] \in Int
  BY Numbers
<1>2. \A s \in Slot : /\ num[s] \in Int /\ s \in Holder
                      /\ state[s] = "dying" => num[s] < 0
                      /\ state[s] = "queued" => num[s] > 0
  BY <1>1 DEF SlotOK, Slot
<1>3. ASSUME NEW t \in Threads
      PROVE  /\ t \in Holder
             /\ pc[t] \in {"idle", "incGo", "incObjc"} => num[t] = 0
             /\ pc[t] = "incObjc" => arg[t] \in Holder /\ num[arg[t]] > 0
             /\ pc[t] = "goDelete" => num[t] < 0
             /\ pc[t] = "objcDec" => num[t] > 0
             /\ pc[t] \in {"goRead", "objcRead"} => num[t] # 0
             /\ Reserving(t) => arg[t] \in Holder /\ num[arg[t]] = 0
  BY <1>2 DEF ThreadOK, SlotOK, ArgOK, Reserving
<1>4. ASSUME NEW t \in Threads, pc[t] = "incGo"
      PROVE  arg[t] \in Boxes /\ arg[t] \in Holder /\ num[arg[t]] < 0 /\ state[arg[t]] = "live"
  <2>1. arg[t] \in Boxes
    BY <1>4 DEF ThreadOK
  <2>2. state[arg[t]] = "live"
    BY <1>4, <2>1 DEF StrongOK, Strong, InFrame
  <2>. QED  BY <1>2, <2>1, <2>2 DEF SlotOK
<1>. QED  BY <1>1, <1>2, <1>3, <1>4

\* Every step of a thread keeps the invariant.
LEMMA ThreadStep ==
  ASSUME IInv, NEW t \in Threads, Start(t) \/ Continue(t)
  PROVE  IInv'
<1>. USE InHand DEF IInv
<1>1. ASSUME NEW o \in Tracked, NEW r \in Refs, SendTracked(t, o, r)
      PROVE  IInv'
  BY <1>1, ControlSendTracked, BooksAssign DEF SendTracked
<1>2. ASSUME NEW b \in Boxes, SendBox(t, b)
      PROVE  IInv'
  BY <1>2, ControlSendBox, BooksSame DEF SendBox
<1>3. ASSUME NEW x \in GoObjs, NEW b \in Boxes, SendGo(t, x, b)
      PROVE  IInv'
  BY <1>3, ControlSendGo, BooksToRefNum DEF SendGo
<1>4. ASSUME NEW r \in Refs, SendRef(t, r)
      PROVE  IInv'
  BY <1>4, ControlSendRef, BooksSame DEF SendRef
<1>5. CASE IncGo(t)
  BY <1>5, ControlIncGo, BooksInc DEF IncGo
<1>6. CASE GoLookup(t)
  BY <1>6, ControlGoLookup, BooksSame DEF GoLookup
<1>7. CASE GoDelete(t)
  BY <1>7, ControlGoDelete, BooksDelete DEF GoDelete
<1>8. CASE GoWrap(t)
  <2>1. /\ num[t] # 0 /\ arg[t] \in Holder /\ num[arg[t]] = 0
        /\ HandOver(t, arg[t]) /\ UNCHANGED <<goVars, objcVars>>
    BY <1>8 DEF GoWrap, Reserving
  <2>2. Books'
    BY <2>1, BooksHandOver
  <2>. QED  BY <1>8, <2>2, ControlGoWrap
<1>9. CASE NewBox(t)
  <2>1. /\ num[t] # 0 /\ arg[t] \in Holder /\ num[arg[t]] = 0
        /\ HandOver(t, arg[t]) /\ UNCHANGED <<goVars, objcVars>>
    BY <1>9 DEF NewBox, Reserving
  <2>2. Books'
    BY <2>1, BooksHandOver
  <2>. QED  BY <1>9, <2>2, ControlNewBox
<1>10. CASE IncObjc(t)
  BY <1>10, ControlIncObjc, BooksIncObjcRef DEF IncObjc
<1>11. CASE ObjcGet(t)
  BY <1>11, ControlObjcGet, BooksSame DEF ObjcGet
<1>12. CASE ObjcDec(t)
  BY <1>12, ControlObjcDec, BooksDec DEF ObjcDec
<1>. QED  BY <1>1, <1>2, <1>3, <1>4, <1>5, <1>6, <1>7, <1>8, <1>9, <1>10,
             <1>11, <1>12 DEF Start, Continue

\* So does every step of the program's own references, of deallocation and of the collector.
LEMMA MemoryStep ==
  ASSUME IInv, Memory
  PROVE  IInv'
<1>. USE InHand, Disjoint DEF IInv
<1>1. ASSUME NEW o \in Plain, NewPlain(o)
      PROVE  IInv'
  BY <1>1, ControlNewPlain, BooksSame DEF NewPlain
<1>2. ASSUME NEW o \in Tracked, Release(o)
      PROVE  IInv'
  BY <1>2, ControlRelease, BooksSame DEF Release
<1>3. ASSUME NEW b \in Boxes, Dealloc(b)
      PROVE  IInv'
  BY <1>3, ControlDealloc, BooksDelete DEF Dealloc
<1>4. ASSUME NEW r \in Refs, CollectRef(r)
      PROVE  IInv'
  BY <1>4, ControlCollectRef, BooksSame DEF CollectRef
<1>5. ASSUME NEW r \in Refs, FinalizeRef(r)
      PROVE  IInv'
  BY <1>5, ControlFinalizeRef, BooksDec DEF FinalizeRef
<1>. QED  BY <1>1, <1>2, <1>3, <1>4, <1>5 DEF Memory

\* A stuttering step does.
LEMMA StutterStep ==
  ASSUME IInv, UNCHANGED vars
  PROVE  IInv'
<1>1. Books'
  BY BooksSame DEF IInv, vars
<1>2. Control'
  BY DEF IInv, vars, goVars, objcVars, Control, ControlTypeOK, ThreadOK, ArgOK,
     Reserving, SlotOK, StrongOK, Strong, InTracker, InFrame, LockOK
<1>. QED  BY <1>1, <1>2 DEF IInv

\* The inductive invariant holds in every state of the Objective-C bridge.
THEOREM Invariant == Spec => []IInv
<1>1. Init => IInv
  BY InitIInv
<1>2. IInv /\ [Next]_vars => IInv'
  BY ThreadStep, MemoryStep, StutterStep DEF Next
<1>. QED  BY <1>1, <1>2, PTL DEF Spec

-----------------------------------------------------------------------------
(* What the invariant gives. *)

\* Every variable has its type: the numbers stay within their bounds, counts are positive,
\* and no number, object or slot is of the wrong kind.
THEOREM TypeCorrect == Spec => []TypeOK
<1>1. IInv => TypeOK
  BY DEF IInv, Books, TableTypeOK, HoldTypeOK, Control, ControlTypeOK, TypeOK
<1>. QED  BY <1>1, Invariant, PTL

\* An object that the tracker knows by its address is kept alive by the tracker itself.
LEMMA InvSameObject ==
  ASSUME IInv
  PROVE  SameObject
<1>1. \A o \in DOMAIN oRefs : oRefs[o] \in DOMAIN oObjs /\ oObjs[oRefs[o]].obj = o /\ Strong(o)
  BY DEF IInv, Books, InverseOK, ObjcTableOK, Strong, InTracker
<1>2. \A t \in Threads : got[t] # None => got[t] = means[t]
  BY DEF IInv, Control, ControlTypeOK, ThreadOK
<1>. QED  BY <1>1, <1>2 DEF IInv, Books, HolderOK, SameObject

\* A number in somebody's hands is in a table, and whoever is about to use a number has one.
LEMMA InvNoFatal ==
  ASSUME IInv
  PROVE  NoFatal
<1>1. \A h \in Holder : /\ num[h] < 0 => num[h] \in DOMAIN goObjs
                        /\ num[h] > 0 => num[h] \in DOMAIN oObjs
  BY Numbers DEF IInv
<1>2. \A h \in Holder : num[h] # 0 => num[h] \in DOMAIN goObjs \union DOMAIN oObjs
  BY <1>1, InHand
<1>3. ASSUME NEW t \in Threads
      PROVE  /\ pc[t] = "incGo" => num[arg[t]] \in DOMAIN goObjs /\ state[arg[t]] = "live"
             /\ pc[t] = "incObjc" => num[arg[t]] \in DOMAIN oObjs
             /\ pc[t] \in {"goRead", "goDelete", "objcRead", "objcDec"} => num[t] # 0
  BY <1>1, InHand
<1>4. \A s \in Slot : state[s] \in {"queued", "dying"} => num[s] # 0 /\ s \in Holder
  BY InHand
<1>. QED  BY <1>1, <1>2, <1>3, <1>4, InHand DEF NoFatal, IInv, Control, StrongOK, LockOK

\* Both tables count exactly those who hold a number, a number means the object it was made for
\* although addresses are used again, and neither LOG_FATAL nor a panic of Go's table is ever
\* reached, also while an object is deallocated inside the tracker.
THEOREM TablesCorrect == Spec => []TablesOK
<1>1. IInv => CountsExact
  BY DEF IInv, Books, GoCountExact, ObjcCountExact, CountsExact
<1>2. IInv => TablesOK
  BY <1>1, InvSameObject, InvNoFatal DEF TablesOK
<1>. QED  BY <1>2, Invariant, PTL

-----------------------------------------------------------------------------
(* ObjcBridge implements Ownership. *)

HeldObjects == {means[h] : h \in {k \in Holder : num[k] # 0}}

\* By the books, what the tables pin is what somebody holds, ...
LEMMA PinnedIsHeld == Books => Pinned = HeldObjects
<1>. SUFFICES ASSUME Books
              PROVE  Pinned = HeldObjects
  OBVIOUS
<1>1. \A h \in Holder : num[h] # 0 => means[h] \in Pinned
  BY Numbers DEF Pinned
<1>2. ASSUME NEW n \in DOMAIN goObjs
      PROVE  \E h \in Holder : num[h] # 0 /\ means[h] = goObjs[n].obj
  <2>1. Cardinality(Holders(n)) # 0 /\ n \in GoNumbers
    BY DEF Books, TableTypeOK, GoRefsTypeOK, GoCountExact
  <2>2. PICK h \in Holder : num[h] = n
    BY <2>1, FS_EmptySet DEF Holders
  <2>. QED  BY <2>1, <2>2, Ranges DEF Books, HolderOK
<1>3. ASSUME NEW n \in DOMAIN oObjs
      PROVE  \E h \in Holder : num[h] # 0 /\ means[h] = oObjs[n].obj
  <2>1. Cardinality(Holders(n)) # 0 /\ n \in ObjcNumbers
    BY DEF Books, TableTypeOK, ObjcTrackerTypeOK, ObjcCountExact
  <2>2. PICK h \in Holder : num[h] = n
    BY <2>1, FS_EmptySet DEF Holders
  <2>. QED  BY <2>1, <2>2, Ranges DEF Books, HolderOK
<1>. QED  BY <1>1, <1>2, <1>3 DEF Pinned, HeldObjects

\* ... before a step and after it.
LEMMA PinnedIsHeldNext == Books' => (Pinned = HeldObjects)'
BY PinnedIsHeld, PTL

\* Taking up a number is Acquire.
LEMMA TakesUp ==
  ASSUME Books, Books', NEW h \in Holder, NEW n, n # 0, num[h] = 0,
         NEW o \in GoObjs \union Tracked, Hold(h, n, o)
  PROVE  Abstract!Acquire(h, o)
<1>. USE DEF Books, TableTypeOK, HoldTypeOK
<1>1. Held[h] = None /\ Held' = [Held EXCEPT ![h] = o]
  BY DEF Hold, Held
<1>2. Pinned' = Pinned \union {o}
  BY PinnedIsHeld, PinnedIsHeldNext DEF HeldObjects, Hold
<1>. QED  BY <1>1, <1>2 DEF Abstract!Acquire

\* Handing a number over is Move.
LEMMA HandsOver ==
  ASSUME Books, Books', NEW h \in Holder, NEW k \in Holder, num[h] # 0, num[k] = 0,
         HandOver(h, k)
  PROVE  Abstract!Move(h, k)
<1>. USE DEF Books, TableTypeOK, HoldTypeOK
<1>1. Held[h] # None /\ Held[k] = None
  BY Numbers, Disjoint DEF Held
<1>2. Held' = [Held EXCEPT ![h] = None, ![k] = Held[h]]
  BY DEF HandOver, Held
<1>3. /\ h # k
      /\ num'[h] = 0 /\ num'[k] = num[h] /\ means'[k] = means[h]
      /\ \A i \in Holder \ {h, k} : num'[i] = num[i] /\ means'[i] = means[i]
  BY DEF HandOver
<1>4. \A i \in Holder : num[i] # 0 => \E j \in Holder : num'[j] # 0 /\ means'[j] = means[i]
  BY <1>3
<1>5. \A j \in Holder : num'[j] # 0 => \E i \in Holder : num[i] # 0 /\ means[i] = means'[j]
  BY <1>3
<1>6. HeldObjects' = HeldObjects
  BY <1>4, <1>5 DEF HeldObjects
<1>7. Pinned' = Pinned
  BY <1>6, PinnedIsHeld, PinnedIsHeldNext
<1>. QED  BY <1>1, <1>2, <1>7 DEF Abstract!Move

\* Letting go of a number is Release.
LEMMA GivesUp ==
  ASSUME Books, Books', NEW h \in Holder, num[h] # 0, LetGo(h)
  PROVE  Abstract!Release(h)
<1>. USE DEF Books, TableTypeOK, HoldTypeOK
<1>1. Held[h] = means[h] /\ means[h] # None
  BY Numbers, Disjoint DEF Held
<1>2. Held' = [Held EXCEPT ![h] = None]
  BY DEF LetGo, Hold, Held
<1>3. Pinned' = {means[k] : k \in {k \in Holder \ {h} : num[k] # 0}}
  BY PinnedIsHeld, PinnedIsHeldNext DEF HeldObjects, LetGo, Hold
<1>4. Pinned = {means[k] : k \in {k \in Holder \ {h} : num[k] # 0}} \union {means[h]}
  BY PinnedIsHeld DEF HeldObjects
<1>5. (\E k \in Holder \ {h} : Held[k] = Held[h])
        <=> means[h] \in {means[k] : k \in {k \in Holder \ {h} : num[k] # 0}}
  BY <1>1 DEF Held
<1>. QED  BY <1>1, <1>2, <1>3, <1>4, <1>5 DEF Abstract!Release

\* A step that leaves num and means alone stutters.
LEMMA Stutters ==
  ASSUME Books, Books', UNCHANGED <<num, means>>
  PROVE  UNCHANGED <<Held, Pinned>>
BY PinnedIsHeld, PinnedIsHeldNext DEF HeldObjects, Held

\* Every step of ObjcBridge is a step of Ownership, or a stutter of it.
LEMMA StepImplements ==
  ASSUME IInv, IInv', [Next]_vars
  PROVE  [Abstract!Next]_<<Held, Pinned>>
<1>. USE InHand
<1>1. Books /\ Books'
  BY DEF IInv
<1>2. CASE UNCHANGED <<num, means>>
  BY <1>1, <1>2, Stutters
<1>3. ASSUME NEW h \in Holder, NEW n, n # 0, num[h] = 0,
             NEW o \in GoObjs \union Tracked, Hold(h, n, o)
      PROVE  Abstract!Next
  BY <1>1, <1>3, TakesUp DEF Abstract!Next
<1>4. ASSUME NEW h \in Holder, NEW k \in Holder, num[h] # 0, num[k] = 0, HandOver(h, k)
      PROVE  Abstract!Next
  BY <1>1, <1>4, HandsOver DEF Abstract!Next
<1>5. ASSUME NEW h \in Holder, num[h] # 0, LetGo(h)
      PROVE  Abstract!Next
  BY <1>1, <1>5, GivesUp DEF Abstract!Next
<1>6. ASSUME NEW t \in Threads, Start(t)
      PROVE  [Abstract!Next]_<<Held, Pinned>>
  <2>1. ASSUME NEW o \in Tracked, NEW r \in Refs, SendTracked(t, o, r)
        PROVE  Abstract!Next
    BY <2>1, <1>1, <1>3, Numbers DEF SendTracked
  <2>2. ASSUME NEW x \in GoObjs, NEW b \in Boxes, SendGo(t, x, b)
        PROVE  Abstract!Next
    BY <2>2, <1>1, <1>3, Numbers DEF SendGo
  <2>3. ASSUME NEW b \in Boxes, SendBox(t, b)
        PROVE  UNCHANGED <<num, means>>
    BY <2>3 DEF SendBox
  <2>4. ASSUME NEW r \in Refs, SendRef(t, r)
        PROVE  UNCHANGED <<num, means>>
    BY <2>4 DEF SendRef
  <2>. QED  BY <1>2, <1>6, <2>1, <2>2, <2>3, <2>4 DEF Start
<1>7. ASSUME NEW t \in Threads, Continue(t)
      PROVE  [Abstract!Next]_<<Held, Pinned>>
  <2>1. CASE IncGo(t) \/ IncObjc(t)
    BY <2>1, <1>1, <1>3, Numbers DEF IncGo, IncObjc
  <2>2. CASE GoLookup(t) \/ ObjcGet(t)
    BY <2>2, <1>2 DEF GoLookup, ObjcGet
  <2>3. CASE GoDelete(t) \/ ObjcDec(t)
    BY <2>3, <1>5 DEF GoDelete, ObjcDec
  <2>4. CASE GoWrap(t) \/ NewBox(t)
    BY <2>4, <1>4 DEF GoWrap, NewBox, Reserving
  <2>. QED  BY <1>7, <2>1, <2>2, <2>3, <2>4 DEF Continue
<1>8. CASE Memory
  <2>1. ASSUME NEW b \in Boxes, Dealloc(b)
        PROVE  Abstract!Next
    BY <2>1, <1>5, Disjoint DEF Dealloc
  <2>2. ASSUME NEW r \in Refs, FinalizeRef(r)
        PROVE  Abstract!Next
    BY <2>2, <1>5, Disjoint DEF FinalizeRef
  <2>3. ASSUME NEW o, NewPlain(o) \/ Release(o) \/ CollectRef(o)
        PROVE  UNCHANGED <<num, means>>
    BY <2>3 DEF NewPlain, Release, CollectRef
  <2>. QED  BY <1>2, <1>8, <2>1, <2>2, <2>3 DEF Memory
<1>. QED  BY <1>2, <1>6, <1>7, <1>8 DEF Next, vars

\* Also on the Objective-C side an object is pinned from the step that hands out a reference to
\* it to the step that gives up the last one, whatever deallocations and finalizers do between.
THEOREM Implements == Spec => PinsWhileHeld
<1>1. Init => Abstract!Init
  BY DEF Init, GoRefsInit, ObjcTrackerInit, Held, Pinned, Abstract!Init
<1>2. IInv /\ IInv' /\ [Next]_vars => [Abstract!Next]_<<Held, Pinned>>
  BY StepImplements
<1>. QED  BY <1>1, <1>2, Invariant, PTL DEF Spec, PinsWhileHeld, Abstract!Spec
=============================================================================
