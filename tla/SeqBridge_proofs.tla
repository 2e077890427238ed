-------------------------- MODULE SeqBridge_proofs --------------------------
(***************************************************************************)
(* Proofs about SeqBridge for every set of objects, threads and slots.     *)
(*                                                                         *)
(* The invariant has two parts.  Books relates the tables to the holders   *)
(* and is disturbed by the seven ways a step changes them, one lemma each; *)
(* Control says where a thread and a slot are and is checked action by     *)
(* action.                                                                 *)
(***************************************************************************)
EXTENDS SeqBridge, FiniteSetTheorems, TLAPS

USE GoMinAssumption, JavaMaxAssumption, SlotsAssumption, FreeAssumption,
    FiniteAssumption

\* What every number in somebody's hands stands for.
HolderOK ==
  \A h \in Holder :
    /\ num[h] < 0 => num[h] \in DOMAIN goObjs /\ goObjs[num[h]].obj = means[h]
    /\ num[h] > 0 => num[h] \in DOMAIN javaObjs /\ javaObjs[num[h]].obj = means[h]

HoldTypeOK ==
  /\ num \in [Holder -> GoNumbers \union JavaNumbers \union {0}]
  /\ means \in [Holder -> GoObjs \union Tracked \union {None}]

TableTypeOK == GoRefsTypeOK /\ JavaTrackerTypeOK /\ HoldTypeOK

Books ==
  /\ TableTypeOK
  /\ GoCountExact
  /\ JavaCountExact
  /\ TablesOK
  /\ HolderOK

-----------------------------------------------------------------------------
(* Counting holders. *)

\* The two ranges of numbers do not meet, nor contain 0.
LEMMA Ranges ==
  /\ \A n \in GoNumbers : n \in Int /\ n < 0 /\ n \notin JavaNumbers
  /\ \A n \in JavaNumbers : n \in Int /\ n > 0 /\ n \notin GoNumbers
  /\ \A n \in GoNumbers \union JavaNumbers \union {0} :
       /\ n < 0 => n \in GoNumbers
       /\ n > 0 => n \in JavaNumbers
BY DEF GoNumbers, JavaNumbers, GoFirst, RefOffset

\* There are finitely many holders of a number.
LEMMA HoldersFinite ==
  ASSUME NEW n
  PROVE  IsFiniteSet(Holders(n)) /\ Cardinality(Holders(n)) \in Nat
<1>1. Holders(n) \in SUBSET Holder
  BY DEF Holders
<1>2. IsFiniteSet(Holders(n))
  BY <1>1, FS_Subset
<1>. QED  BY <1>2, FS_CardinalityType

\* A holder that held nothing takes up n.
LEMMA HoldersAdd ==
  ASSUME HoldTypeOK, NEW h \in Holder, NEW n, n # 0, num[h] = 0,
         num' = [num EXCEPT ![h] = n]
  PROVE  /\ Cardinality(Holders(n)') = Cardinality(Holders(n)) + 1
         /\ \A m : m # 0 /\ m # n => Holders(m)' = Holders(m)
<1>1. Holders(n)' = Holders(n) \union {h} /\ h \notin Holders(n)
  BY DEF Holders, HoldTypeOK
<1>2. \A m : m # 0 /\ m # n => Holders(m)' = Holders(m)
  BY DEF Holders, HoldTypeOK
<1>3. Cardinality(Holders(n) \union {h}) = Cardinality(Holders(n)) + 1
  BY <1>1, HoldersFinite, FS_AddElement
<1>. QED  BY <1>1, <1>2, <1>3

\* A holder lets go of n.
LEMMA HoldersRemove ==
  ASSUME HoldTypeOK, NEW h \in Holder, NEW n, n # 0, num[h] = n,
         num' = [num EXCEPT ![h] = 0]
  PROVE  /\ Cardinality(Holders(n)') = Cardinality(Holders(n)) - 1
         /\ Holders(n)' = {} <=> Cardinality(Holders(n)) = 1
         /\ Cardinality(Holders(n)) >= 1
         /\ \A m : m # 0 /\ m # n => Holders(m)' = Holders(m)
<1>1. Holders(n)' = Holders(n) \ {h} /\ h \in Holders(n)
  BY DEF Holders, HoldTypeOK
<1>2. \A m : m # 0 /\ m # n => Holders(m)' = Holders(m)
  BY DEF Holders, HoldTypeOK
<1>3. /\ Cardinality(Holders(n) \ {h}) = Cardinality(Holders(n)) - 1
      /\ IsFiniteSet(Holders(n) \ {h})
  BY <1>1, HoldersFinite, FS_RemoveElement
<1>4. Holders(n) \ {h} = {} <=> Cardinality(Holders(n) \ {h}) = 0
  BY <1>3, FS_EmptySet
<1>5. Cardinality(Holders(n) \ {h}) \in Nat /\ Cardinality(Holders(n)) \in Nat
  BY <1>3, HoldersFinite, FS_CardinalityType
<1>. QED  BY <1>1, <1>2, <1>3, <1>4, <1>5

\* One holder hands n over to another that held nothing.
LEMMA HoldersMove ==
  ASSUME HoldTypeOK, NEW h \in Holder, NEW k \in Holder, num[h] # 0, num[k] = 0,
         num' = [num EXCEPT ![h] = 0, ![k] = num[h]]
  PROVE  \A m : m # 0 => /\ Cardinality(Holders(m)') = Cardinality(Holders(m))
                         /\ Holders(m)' = {} <=> Holders(m) = {}
<1>. DEFINE n == num[h]
<1>1. \A m : m # 0 /\ m # n => Holders(m)' = Holders(m)
  BY DEF Holders, HoldTypeOK
<1>2. \A m : m = n => /\ Holders(m)' = (Holders(m) \ {h}) \union {k}
                      /\ h \in Holders(m) /\ k \notin Holders(m)
  BY DEF Holders, HoldTypeOK
<1>3. ASSUME NEW m, m = n
      PROVE  Cardinality((Holders(m) \ {h}) \union {k}) = Cardinality(Holders(m))
  <2>1. /\ Cardinality(Holders(m) \ {h}) = Cardinality(Holders(m)) - 1
        /\ IsFiniteSet(Holders(m) \ {h})
    BY <1>2, <1>3, HoldersFinite, FS_RemoveElement
  <2>2. k \notin Holders(m) \ {h}
    BY <1>2, <1>3
  <2>3. Cardinality((Holders(m) \ {h}) \union {k}) = Cardinality(Holders(m) \ {h}) + 1
    BY <2>1, <2>2, FS_AddElement
  <2>. QED  BY <2>1, <2>3, HoldersFinite
<1>. QED  BY <1>1, <1>2, <1>3

-----------------------------------------------------------------------------
(* The steps that change the Go table. *)

\* The generated write of a Go object, by a holder h.
LEMMA BooksToRefNum ==
  ASSUME Books, NEW h \in Holder, NEW x \in GoObjs, num[h] = 0,
         CanNumber(x), ToRefNum(x), Hold(h, RefNumOf(x), x), UNCHANGED javaVars
  PROVE  Books'
<1>0. PICK n : n = RefNumOf(x)
  OBVIOUS
<1>1. /\ n \in GoNumbers /\ n # 0 /\ n < 0 /\ n \notin JavaNumbers
      /\ x \in DOMAIN goRefs => n \in DOMAIN goObjs /\ goObjs[n].obj = x
      /\ x \notin DOMAIN goRefs => n \notin DOMAIN goObjs /\ n = goNext
  BY <1>0 DEF Books, TableTypeOK, GoRefsTypeOK, TablesOK, GoTableOK,
     RefNumOf, CanNumber, GoNumbers,
     GoFirst, JavaNumbers, RefOffset
<1>2. TableTypeOK'
  BY <1>0, <1>1 DEF Books, TableTypeOK, GoRefsTypeOK, JavaTrackerTypeOK,
     HoldTypeOK, TablesOK, GoTableOK,
     RefNumOf, CanNumber, ToRefNum, Put, Hold, javaVars, GoNumbers, GoFirst
<1>3. /\ Cardinality(Holders(n)') = Cardinality(Holders(n)) + 1
      /\ \A m : m # 0 /\ m # n => Holders(m)' = Holders(m)
  BY <1>0, <1>1, HoldersAdd DEF Books, TableTypeOK, Hold
<1>4. /\ n \in DOMAIN goObjs'
      /\ \A m \in GoNumbers : m # n =>
           /\ m \in DOMAIN goObjs' <=> m \in DOMAIN goObjs
           /\ m \in DOMAIN goObjs => goObjs'[m] = goObjs[m]
      /\ x \in DOMAIN goRefs => goObjs'[n] = [obj |-> x, cnt |-> goObjs[n].cnt + 1]
      /\ x \notin DOMAIN goRefs => goObjs'[n] = [obj |-> x, cnt |-> 1]
  BY <1>0, <1>1 DEF ToRefNum, Put
<1>5. GoCountExact'
  <2>1. x \notin DOMAIN goRefs => Cardinality(Holders(n)) = 0
    BY <1>1, FS_EmptySet DEF Books, GoCountExact
  <2>2. goObjs'[n].cnt = Cardinality(Holders(n)')
    BY <1>1, <1>3, <1>4, <2>1 DEF Books, GoCountExact
  <2>3. ASSUME NEW m \in GoNumbers, m # n
        PROVE  IF m \in DOMAIN goObjs' THEN goObjs'[m].cnt = Cardinality(Holders(m)')
                                       ELSE Holders(m)' = {}
    BY <2>3, <1>3, <1>4, Ranges DEF Books, GoCountExact
  <2>. QED  BY <2>2, <2>3, <1>4 DEF GoCountExact
<1>6. JavaCountExact'
  BY <1>1, <1>3, Ranges DEF Books, JavaCountExact, javaVars
<1>7. TablesOK'
  <2>1. JavaTableOK'
    BY DEF Books, TablesOK, JavaTableOK, javaVars
  <2>2. GoTableOK'
    BY <1>0, <1>1, <1>4 DEF Books, TablesOK, GoTableOK, TableTypeOK,
       GoRefsTypeOK, ToRefNum, Put, RefNumOf, GoNumbers, GoFirst
  <2>. QED  BY <2>1, <2>2 DEF TablesOK
<1>8. HolderOK'
  BY <1>0, <1>1, <1>4, Ranges DEF Books, HolderOK, TableTypeOK, HoldTypeOK,
     Hold, javaVars
<1>. QED  BY <1>2, <1>5, <1>6, <1>7, <1>8 DEF Books

\* Holder h sends on what k holds.
LEMMA BooksInc ==
  ASSUME Books, NEW h \in Holder, NEW k \in Holder, num[h] = 0, num[k] < 0,
         Inc(num[k]), Hold(h, num[k], means[k]), UNCHANGED javaVars
  PROVE  Books'
<1>0. PICK n : n = num[k]
  OBVIOUS
<1>1. n \in GoNumbers /\ n # 0 /\ n < 0 /\ n \notin JavaNumbers /\ n \in DOMAIN goObjs
  BY <1>0, Ranges DEF Books, TableTypeOK, HoldTypeOK, Inc
<1>3. /\ Cardinality(Holders(n)') = Cardinality(Holders(n)) + 1
      /\ \A m : m # 0 /\ m # n => Holders(m)' = Holders(m)
  BY <1>0, <1>1, HoldersAdd DEF Books, TableTypeOK, Hold
<1>4. /\ DOMAIN goObjs' = DOMAIN goObjs
      /\ \A m \in DOMAIN goObjs : m # n => goObjs'[m] = goObjs[m]
      /\ goObjs'[n] = [obj |-> goObjs[n].obj, cnt |-> goObjs[n].cnt + 1]
  BY <1>0, <1>1 DEF Inc, Books, TableTypeOK, GoRefsTypeOK
<1>2. TableTypeOK'
  BY <1>0, <1>1, <1>4 DEF Books, TableTypeOK, GoRefsTypeOK,
     JavaTrackerTypeOK, HoldTypeOK,
     Inc, Hold, javaVars
<1>5. GoCountExact'
  BY <1>1, <1>3, <1>4, Ranges DEF Books, GoCountExact
<1>6. JavaCountExact'
  BY <1>1, <1>3, Ranges DEF Books, JavaCountExact, javaVars
<1>7. TablesOK'
  BY <1>0, <1>1, <1>4 DEF Books, TablesOK, GoTableOK, JavaTableOK, javaVars,
     Inc
<1>8. HolderOK'
  BY <1>0, <1>1, <1>4, Ranges DEF Books, HolderOK, TableTypeOK, HoldTypeOK,
     Hold, javaVars
<1>. QED  BY <1>2, <1>5, <1>6, <1>7, <1>8 DEF Books

\* Holder h gives up what it holds.
LEMMA BooksDelete ==
  ASSUME Books, NEW h \in Holder, num[h] < 0,
         Delete(num[h]), LetGo(h), UNCHANGED javaVars
  PROVE  Books'
<1>0. PICK n : n = num[h]
  OBVIOUS
<1>1. n \in GoNumbers /\ n # 0 /\ n < 0 /\ n \notin JavaNumbers /\ n \in DOMAIN goObjs
  BY <1>0, Ranges DEF Books, TableTypeOK, HoldTypeOK, HolderOK
<1>3. /\ Cardinality(Holders(n)') = Cardinality(Holders(n)) - 1
      /\ Holders(n)' = {} <=> Cardinality(Holders(n)) = 1
      /\ Cardinality(Holders(n)) >= 1
      /\ \A m : m # 0 /\ m # n => Holders(m)' = Holders(m)
  BY <1>0, <1>1, HoldersRemove DEF Books, TableTypeOK, LetGo, Hold
<1>4. goObjs[n].cnt = Cardinality(Holders(n)) /\ goObjs[n].cnt \in Nat \ {0}
  BY <1>1 DEF Books, GoCountExact, TableTypeOK, GoRefsTypeOK
<1>9. /\ num' = [num EXCEPT ![h] = 0]
      /\ means' = [means EXCEPT ![h] = None]
  BY DEF LetGo, Hold
<1>5. CASE goObjs[n].cnt = 1
  <2>1. /\ goObjs' = Without(goObjs, n)
        /\ goRefs' = Without(goRefs, goObjs[n].obj)
        /\ goNext' = goNext
    BY <1>0, <1>1, <1>5 DEF Delete
  <2>2. TableTypeOK'
    BY <2>1, <1>9 DEF Books, TableTypeOK, GoRefsTypeOK, JavaTrackerTypeOK,
       HoldTypeOK, Without, javaVars
  <2>3. GoCountExact'
    BY <2>1, <1>1, <1>3, <1>4, <1>5, Ranges DEF Books, GoCountExact, Without
  <2>4. JavaCountExact'
    BY <1>1, <1>3, Ranges DEF Books, JavaCountExact, javaVars
  <2>5. TablesOK'
    <3>1. JavaTableOK'
      BY DEF Books, TablesOK, JavaTableOK, javaVars
    <3>2. GoTableOK /\ n \in DOMAIN goObjs
      BY <1>1 DEF Books, TablesOK
    <3>3. /\ DOMAIN goObjs' = DOMAIN goObjs \ {n}
          /\ \A m \in DOMAIN goObjs' : goObjs'[m] = goObjs[m]
          /\ DOMAIN goRefs' = DOMAIN goRefs \ {goObjs[n].obj}
          /\ \A y \in DOMAIN goRefs' : goRefs'[y] = goRefs[y]
      BY <2>1 DEF Without
    <3>4. GoTableOK'
      BY <2>1, <3>2, <3>3 DEF GoTableOK
    <3>. QED  BY <3>1, <3>4 DEF TablesOK
  <2>6. \A k \in Holder \ {h} : num[k] # n
    BY <1>0, <1>1, <1>3, <1>4, <1>5, <1>9 DEF Holders, Books, TableTypeOK,
       HoldTypeOK
  <2>7. HolderOK'
    BY <2>1, <2>6, <1>9 DEF Books, HolderOK, TableTypeOK, HoldTypeOK,
       Without, javaVars
  <2>. QED  BY <2>2, <2>3, <2>4, <2>5, <2>7 DEF Books
<1>6. CASE goObjs[n].cnt > 1
  <2>1. /\ goObjs' = [goObjs EXCEPT ![n].cnt = @ - 1]
        /\ goRefs' = goRefs /\ goNext' = goNext
    BY <1>0, <1>1, <1>4, <1>6 DEF Delete
  <2>2. /\ DOMAIN goObjs' = DOMAIN goObjs
        /\ \A m \in DOMAIN goObjs : m # n => goObjs'[m] = goObjs[m]
        /\ goObjs'[n] = [obj |-> goObjs[n].obj, cnt |-> goObjs[n].cnt - 1]
    BY <2>1, <1>1 DEF Books, TableTypeOK, GoRefsTypeOK
  <2>3. TableTypeOK'
    BY <2>1, <2>2, <1>1, <1>4, <1>6, <1>9 DEF Books, TableTypeOK,
       GoRefsTypeOK, JavaTrackerTypeOK, HoldTypeOK, javaVars
  <2>4. GoCountExact'
    BY <2>2, <1>1, <1>3, <1>4, Ranges DEF Books, GoCountExact
  <2>5. JavaCountExact'
    BY <1>1, <1>3, Ranges DEF Books, JavaCountExact, javaVars
  <2>6. TablesOK'
    <3>1. JavaTableOK'
      BY DEF Books, TablesOK, JavaTableOK, javaVars
    <3>2. \A m \in DOMAIN goObjs : goObjs'[m].obj = goObjs[m].obj
      BY <2>2
    <3>3. GoTableOK'
      BY <2>1, <2>2, <3>2 DEF Books, TablesOK, GoTableOK
    <3>. QED  BY <3>1, <3>3 DEF TablesOK
  <2>7. HolderOK'
    BY <2>2, <1>9 DEF Books, HolderOK, TableTypeOK, HoldTypeOK, javaVars
  <2>. QED  BY <2>3, <2>4, <2>5, <2>6, <2>7 DEF Books
<1>. QED  BY <1>4, <1>5, <1>6

-----------------------------------------------------------------------------
(* The steps that change the Java table: the same three. *)

\* A tracked Java object is sent by a holder h.
LEMMA BooksTrackerInc ==
  ASSUME Books, NEW h \in Holder, NEW x \in Tracked, num[h] = 0,
         CanTrack(x), TrackerInc(x), Hold(h, JavaRefNumOf(x), x), UNCHANGED goVars
  PROVE  Books'
<1>0. PICK n : n = JavaRefNumOf(x)
  OBVIOUS
<1>1. /\ n \in JavaNumbers /\ n # 0 /\ n > 0 /\ n \notin GoNumbers
      /\ x \in DOMAIN javaRefs => n \in DOMAIN javaObjs /\ javaObjs[n].obj = x
      /\ x \notin DOMAIN javaRefs => n \notin DOMAIN javaObjs /\ n = jNext
  BY <1>0 DEF Books, TableTypeOK, JavaTrackerTypeOK, TablesOK, JavaTableOK,
     JavaRefNumOf, CanTrack, JavaNumbers,
     RefOffset, GoNumbers, GoFirst
<1>2. TableTypeOK'
  BY <1>0, <1>1 DEF Books, TableTypeOK, JavaTrackerTypeOK, GoRefsTypeOK,
     HoldTypeOK, TablesOK, JavaTableOK,
     JavaRefNumOf, CanTrack, TrackerInc, Put, Hold, goVars, JavaNumbers, RefOffset
<1>3. /\ Cardinality(Holders(n)') = Cardinality(Holders(n)) + 1
      /\ \A m : m # 0 /\ m # n => Holders(m)' = Holders(m)
  BY <1>0, <1>1, HoldersAdd DEF Books, TableTypeOK, Hold
<1>4. /\ n \in DOMAIN javaObjs'
      /\ \A m \in JavaNumbers : m # n =>
           /\ m \in DOMAIN javaObjs' <=> m \in DOMAIN javaObjs
           /\ m \in DOMAIN javaObjs => javaObjs'[m] = javaObjs[m]
      /\ x \in DOMAIN javaRefs => javaObjs'[n] = [obj |-> x, refcnt |-> javaObjs[n].refcnt + 1]
      /\ x \notin DOMAIN javaRefs => javaObjs'[n] = [obj |-> x, refcnt |-> 1]
  BY <1>0, <1>1 DEF TrackerInc, Put
<1>5. JavaCountExact'
  <2>1. x \notin DOMAIN javaRefs => Cardinality(Holders(n)) = 0
    BY <1>1, FS_EmptySet DEF Books, JavaCountExact
  <2>2. javaObjs'[n].refcnt = Cardinality(Holders(n)')
    BY <1>1, <1>3, <1>4, <2>1 DEF Books, JavaCountExact
  <2>3. ASSUME NEW m \in JavaNumbers, m # n
        PROVE  IF m \in DOMAIN javaObjs' THEN javaObjs'[m].refcnt = Cardinality(Holders(m)')
                                       ELSE Holders(m)' = {}
    BY <2>3, <1>3, <1>4, Ranges DEF Books, JavaCountExact
  <2>. QED  BY <2>2, <2>3, <1>4 DEF JavaCountExact
<1>6. GoCountExact'
  BY <1>1, <1>3, Ranges DEF Books, GoCountExact, goVars
<1>7. TablesOK'
  <2>1. GoTableOK'
    BY DEF Books, TablesOK, GoTableOK, goVars
  <2>2. JavaTableOK'
    BY <1>0, <1>1, <1>4 DEF Books, TablesOK, JavaTableOK, TableTypeOK,
       JavaTrackerTypeOK, TrackerInc, Put, JavaRefNumOf, JavaNumbers, RefOffset
  <2>. QED  BY <2>1, <2>2 DEF TablesOK
<1>8. HolderOK'
  BY <1>0, <1>1, <1>4, Ranges DEF Books, HolderOK, TableTypeOK, HoldTypeOK,
     Hold, goVars
<1>. QED  BY <1>2, <1>5, <1>6, <1>7, <1>8 DEF Books

\* Holder h sends on what k holds.
LEMMA BooksIncRefnum ==
  ASSUME Books, NEW h \in Holder, NEW k \in Holder, num[h] = 0, num[k] > 0,
         IncRefnum(num[k]), Hold(h, num[k], means[k]), UNCHANGED goVars
  PROVE  Books'
<1>0. PICK n : n = num[k]
  OBVIOUS
<1>1. n \in JavaNumbers /\ n # 0 /\ n > 0 /\ n \notin GoNumbers /\ n \in DOMAIN javaObjs
  BY <1>0, Ranges DEF Books, TableTypeOK, HoldTypeOK, IncRefnum
<1>3. /\ Cardinality(Holders(n)') = Cardinality(Holders(n)) + 1
      /\ \A m : m # 0 /\ m # n => Holders(m)' = Holders(m)
  BY <1>0, <1>1, HoldersAdd DEF Books, TableTypeOK, Hold
<1>4. /\ DOMAIN javaObjs' = DOMAIN javaObjs
      /\ \A m \in DOMAIN javaObjs : m # n => javaObjs'[m] = javaObjs[m]
      /\ javaObjs'[n] = [obj |-> javaObjs[n].obj, refcnt |-> javaObjs[n].refcnt + 1]
  BY <1>0, <1>1 DEF IncRefnum, Books, TableTypeOK, JavaTrackerTypeOK
<1>2. TableTypeOK'
  BY <1>0, <1>1, <1>4 DEF Books, TableTypeOK, JavaTrackerTypeOK,
     GoRefsTypeOK, HoldTypeOK,
     IncRefnum, Hold, goVars
<1>5. JavaCountExact'
  BY <1>1, <1>3, <1>4, Ranges DEF Books, JavaCountExact
<1>6. GoCountExact'
  BY <1>1, <1>3, Ranges DEF Books, GoCountExact, goVars
<1>7. TablesOK'
  BY <1>0, <1>1, <1>4 DEF Books, TablesOK, JavaTableOK, GoTableOK, goVars,
     IncRefnum
<1>8. HolderOK'
  BY <1>0, <1>1, <1>4, Ranges DEF Books, HolderOK, TableTypeOK, HoldTypeOK,
     Hold, goVars
<1>. QED  BY <1>2, <1>5, <1>6, <1>7, <1>8 DEF Books

\* Holder h gives up what it holds.
LEMMA BooksDec ==
  ASSUME Books, NEW h \in Holder, num[h] > 0,
         Dec(num[h]), LetGo(h), UNCHANGED goVars
  PROVE  Books'
<1>0. PICK n : n = num[h]
  OBVIOUS
<1>1. /\ n \in JavaNumbers /\ n # 0 /\ n > 0 /\ n \notin GoNumbers /\ n \in DOMAIN javaObjs
      /\ n # NullRefNum
  BY <1>0, Ranges DEF Books, TableTypeOK, HoldTypeOK, HolderOK, JavaNumbers,
     RefOffset, NullRefNum
<1>3. /\ Cardinality(Holders(n)') = Cardinality(Holders(n)) - 1
      /\ Holders(n)' = {} <=> Cardinality(Holders(n)) = 1
      /\ Cardinality(Holders(n)) >= 1
      /\ \A m : m # 0 /\ m # n => Holders(m)' = Holders(m)
  BY <1>0, <1>1, HoldersRemove DEF Books, TableTypeOK, LetGo, Hold
<1>4. javaObjs[n].refcnt = Cardinality(Holders(n)) /\ javaObjs[n].refcnt \in Nat \ {0}
  BY <1>1 DEF Books, JavaCountExact, TableTypeOK, JavaTrackerTypeOK
<1>9. /\ num' = [num EXCEPT ![h] = 0]
      /\ means' = [means EXCEPT ![h] = None]
  BY DEF LetGo, Hold
<1>5. CASE javaObjs[n].refcnt = 1
  <2>1. /\ javaObjs' = Without(javaObjs, n)
        /\ javaRefs' = Without(javaRefs, javaObjs[n].obj)
        /\ jNext' = jNext
    BY <1>0, <1>1, <1>5 DEF Dec
  <2>2. TableTypeOK'
    BY <2>1, <1>9 DEF Books, TableTypeOK, JavaTrackerTypeOK, GoRefsTypeOK,
       HoldTypeOK, Without, goVars
  <2>3. JavaCountExact'
    BY <2>1, <1>1, <1>3, <1>4, <1>5, Ranges DEF Books, JavaCountExact, Without
  <2>4. GoCountExact'
    BY <1>1, <1>3, Ranges DEF Books, GoCountExact, goVars
  <2>5. TablesOK'
    <3>1. GoTableOK'
      BY DEF Books, TablesOK, GoTableOK, goVars
    <3>2. JavaTableOK /\ n \in DOMAIN javaObjs
      BY <1>1 DEF Books, TablesOK
    <3>3. /\ DOMAIN javaObjs' = DOMAIN javaObjs \ {n}
          /\ \A m \in DOMAIN javaObjs' : javaObjs'[m] = javaObjs[m]
          /\ DOMAIN javaRefs' = DOMAIN javaRefs \ {javaObjs[n].obj}
          /\ \A y \in DOMAIN javaRefs' : javaRefs'[y] = javaRefs[y]
      BY <2>1 DEF Without
    <3>4. JavaTableOK'
      BY <2>1, <3>2, <3>3 DEF JavaTableOK
    <3>. QED  BY <3>1, <3>4 DEF TablesOK
  <2>6. \A k \in Holder \ {h} : num[k] # n
    BY <1>0, <1>1, <1>3, <1>4, <1>5, <1>9 DEF Holders, Books, TableTypeOK,
       HoldTypeOK
  <2>7. HolderOK'
    BY <2>1, <2>6, <1>9 DEF Books, HolderOK, TableTypeOK, HoldTypeOK,
       Without, goVars
  <2>. QED  BY <2>2, <2>3, <2>4, <2>5, <2>7 DEF Books
<1>6. CASE javaObjs[n].refcnt > 1
  <2>1. /\ javaObjs' = [javaObjs EXCEPT ![n].refcnt = @ - 1]
        /\ javaRefs' = javaRefs /\ jNext' = jNext
    BY <1>0, <1>1, <1>4, <1>6 DEF Dec
  <2>2. /\ DOMAIN javaObjs' = DOMAIN javaObjs
        /\ \A m \in DOMAIN javaObjs : m # n => javaObjs'[m] = javaObjs[m]
        /\ javaObjs'[n] = [obj |-> javaObjs[n].obj, refcnt |-> javaObjs[n].refcnt - 1]
    BY <2>1, <1>1 DEF Books, TableTypeOK, JavaTrackerTypeOK
  <2>3. TableTypeOK'
    BY <2>1, <2>2, <1>1, <1>4, <1>6, <1>9 DEF Books, TableTypeOK,
       JavaTrackerTypeOK, GoRefsTypeOK, HoldTypeOK, goVars
  <2>4. JavaCountExact'
    BY <2>2, <1>1, <1>3, <1>4, Ranges DEF Books, JavaCountExact
  <2>5. GoCountExact'
    BY <1>1, <1>3, Ranges DEF Books, GoCountExact, goVars
  <2>6. TablesOK'
    <3>1. GoTableOK'
      BY DEF Books, TablesOK, GoTableOK, goVars
    <3>2. \A m \in DOMAIN javaObjs : javaObjs'[m].obj = javaObjs[m].obj
      BY <2>2
    <3>3. JavaTableOK'
      BY <2>1, <2>2, <3>2 DEF Books, TablesOK, JavaTableOK
    <3>. QED  BY <3>1, <3>3 DEF TablesOK
  <2>7. HolderOK'
    BY <2>2, <1>9 DEF Books, HolderOK, TableTypeOK, HoldTypeOK, goVars
  <2>. QED  BY <2>3, <2>4, <2>5, <2>6, <2>7 DEF Books
<1>. QED  BY <1>4, <1>5, <1>6

-----------------------------------------------------------------------------
(* The steps that change neither table. *)

\* Holder h hands over to k.
LEMMA BooksHandOver ==
  ASSUME Books, NEW h \in Holder, NEW k \in Holder, num[h] # 0, num[k] = 0,
         HandOver(h, k), UNCHANGED <<goVars, javaVars>>
  PROVE  Books'
<1>1. /\ num' = [num EXCEPT ![h] = 0, ![k] = num[h]]
      /\ means' = [means EXCEPT ![h] = None, ![k] = means[h]]
      /\ h # k
  BY DEF HandOver
<1>2. \A m : m # 0 => /\ Cardinality(Holders(m)') = Cardinality(Holders(m))
                      /\ Holders(m)' = {} <=> Holders(m) = {}
  BY <1>1, HoldersMove DEF Books, TableTypeOK
<1>3. TableTypeOK'
  BY <1>1 DEF Books, TableTypeOK, GoRefsTypeOK, JavaTrackerTypeOK,
     HoldTypeOK, goVars, javaVars
<1>4. GoCountExact' /\ JavaCountExact'
  BY <1>2, Ranges DEF Books, GoCountExact, JavaCountExact, goVars, javaVars
<1>5. TablesOK'
  BY DEF Books, TablesOK, GoTableOK, JavaTableOK, goVars, javaVars
<1>6. HolderOK'
  BY <1>1 DEF Books, HolderOK, TableTypeOK, HoldTypeOK, goVars, javaVars
<1>. QED  BY <1>3, <1>4, <1>5, <1>6 DEF Books

\* Nothing of the books is touched.
LEMMA BooksSame ==
  ASSUME Books, UNCHANGED <<goVars, javaVars, num, means>>
  PROVE  Books'
BY DEF Books, TableTypeOK, GoRefsTypeOK, JavaTrackerTypeOK, HoldTypeOK,
   GoCountExact,
   JavaCountExact, TablesOK, GoTableOK, JavaTableOK, HolderOK, Holders, goVars, javaVars
-----------------------------------------------------------------------------
(* Where threads and slots are. *)

ControlTypeOK ==
  /\ monitor \in Threads \union {Free}
  /\ state \in [Slot -> States]
  /\ alive \subseteq Plain
  /\ taken \in GoObject \union {None}
  /\ pc \in [Threads -> PCs]
  /\ arg \in [Threads -> Slot \union {None}]
  /\ got \in [Threads -> GoObjs \union Tracked \union {None}]
  /\ unwraps \in [Threads -> BOOLEAN]

\* What a thread has in hand at each program point.
ThreadOK(t) ==
  /\ pc[t] = "idle" => num[t] = 0 /\ got[t] = None /\ ~unwraps[t]
  /\ pc[t] = "incGo" => /\ num[t] = 0 /\ got[t] = None
                        /\ arg[t] \in GoObject /\ state[arg[t]] = "live"
  /\ pc[t] = "goRead" => /\ num[t] # 0 /\ got[t] = None
                         /\ num[t] > 0 => arg[t] \in Refs /\ ~unwraps[t]
  /\ pc[t] = "goDelete" => num[t] < 0 /\ got[t] = means[t]
  /\ pc[t] = "incJava" => /\ num[t] = 0 /\ got[t] = None
                          /\ arg[t] \in Refs /\ state[arg[t]] = "live"
                          /\ unwraps[t] => means[arg[t]] \in Classes
  /\ pc[t] = "javaRead" => /\ num[t] # 0 /\ got[t] = None
                           /\ num[t] < 0 => arg[t] \in GoObject /\ ~unwraps[t]
                           /\ unwraps[t] => means[t] \in Classes
  /\ pc[t] = "javaDec" => /\ num[t] > 0 /\ got[t] = means[t]
                          /\ unwraps[t] => means[t] \in Classes

\* A slot set aside is set aside for one thread.
Reserving(t) == \/ pc[t] = "goRead" /\ num[t] > 0
                \/ pc[t] = "javaRead" /\ num[t] < 0

ArgOK ==
  \A t \in Threads :
    /\ arg[t] # None => pc[t] \in {"incGo", "incJava"} \/ Reserving(t)
    /\ Reserving(t) => /\ state[arg[t]] = "reserved"
                       /\ \A u \in Threads : arg[u] = arg[t] => u = t

\* A slot has a number from the time it is in use to its release.
SlotOK(s) ==
  /\ state[s] \in {"free", "reserved"} <=> num[s] = 0
  /\ s \in GoObject => num[s] <= 0
  /\ s \in Refs => num[s] >= 0

MonitorOK ==
  /\ \A t \in Threads : monitor = t => pc[t] = "incGo" /\ arg[t] \in Proxies
  /\ taken # None => state[taken] = "queued"

Control ==
  /\ ControlTypeOK
  /\ \A t \in Threads : ThreadOK(t)
  /\ ArgOK
  /\ \A s \in Slot : SlotOK(s)
  /\ MonitorOK
  /\ HeldIsAlive

IInv == Books /\ Control

\* The sets a holder, an object and a slot are taken from do not meet.
LEMMA Disjoint ==
  /\ \A t \in Threads : t \in Holder /\ t \notin Slot /\ t # None /\ t # Free
  /\ \A g \in GoObject : g \in Slot /\ g \notin Refs /\ g \notin Plain
  /\ \A r \in Refs : r \in Slot /\ r \notin GoObject
  /\ \A s \in Slot : s \in Holder /\ s # None /\ s \notin Threads
  /\ \A x \in GoObjs \union Tracked : x # None
  /\ \A o \in Tracked : o \in Plain \/ o \in Classes
  /\ \A c \in Classes : c \in GoObject /\ c \notin Proxies
  /\ \A p \in Proxies : p \in GoObject /\ p \notin Classes
BY DEF SlotsAssumption1, SlotsAssumption2, SlotsAssumption3, Holder, Slot,
   GoObject

\* What the books say of single numbers.
LEMMA Numbers ==
  ASSUME Books
  PROVE  /\ \A h \in Holder : num[h] \in Int
         /\ \A x \in GoObjs : CanNumber(x) => RefNumOf(x) \in Int /\ RefNumOf(x) < 0
         /\ \A o \in Tracked : CanTrack(o) => JavaRefNumOf(o) \in Int /\ JavaRefNumOf(o) > 0
         /\ \A h \in Holder : num[h] < 0 => /\ num[h] \in DOMAIN goObjs
                                            /\ goObjs[num[h]].obj = means[h]
                                            /\ means[h] \in GoObjs
         /\ \A h \in Holder : num[h] > 0 => /\ num[h] \in DOMAIN javaObjs
                                            /\ javaObjs[num[h]].obj = means[h]
                                            /\ means[h] \in Tracked
<1>1. /\ \A h \in Holder : num[h] \in Int
      /\ \A x \in GoObjs : CanNumber(x) => RefNumOf(x) \in Int /\ RefNumOf(x) < 0
      /\ \A o \in Tracked : CanTrack(o) => JavaRefNumOf(o) \in Int /\ JavaRefNumOf(o) > 0
  BY DEF Books, TableTypeOK, GoRefsTypeOK, JavaTrackerTypeOK, HoldTypeOK,
     CanNumber,
     RefNumOf, CanTrack, JavaRefNumOf, GoNumbers, JavaNumbers, GoFirst, RefOffset
<1>. QED  BY <1>1 DEF Books, TableTypeOK, GoRefsTypeOK, JavaTrackerTypeOK,
             HolderOK

\* SendTracked: A Java object is on its way with its Ref slot set aside, and is alive.
LEMMA ControlSendTracked ==
  ASSUME IInv, NEW t \in Threads, NEW o \in Tracked, NEW r \in Refs, SendTracked(t, o, r)
  PROVE  Control'
<1>. USE Disjoint DEF IInv, Control, SendTracked, Hold, Goto, SetState
<1>0. num'[t] = JavaRefNumOf(o) /\ num'[t] \in Int /\ num'[t] > 0
      /\ \A h \in Holder \ {t} : num'[h] = num[h] /\ means'[h] = means[h]
  BY Numbers DEF Books, TableTypeOK, HoldTypeOK
<1>1. ControlTypeOK'
  BY DEF ControlTypeOK, States, PCs
<1>2. \A u \in Threads : ThreadOK(u)'
  BY <1>0 DEF ControlTypeOK, ThreadOK
<1>3. ArgOK'
  BY <1>0 DEF ControlTypeOK, ThreadOK, ArgOK, Reserving
<1>4. \A s \in Slot : SlotOK(s)'
  BY DEF SlotOK
<1>5. MonitorOK'
  BY DEF MonitorOK
<1>6. HeldIsAlive'
  BY DEF HeldIsAlive, Reachable, Books, TableTypeOK, HoldTypeOK
<1>. QED  BY <1>1, <1>2, <1>3, <1>4, <1>5, <1>6

\* SendProxy: A proxy is sent: its thread has the monitor and will release it.
LEMMA ControlSendProxy ==
  ASSUME IInv, NEW t \in Threads, NEW p \in Proxies, SendProxy(t, p)
  PROVE  Control'
<1>. USE Disjoint DEF IInv, Control, SendProxy, Goto
<1>1. ControlTypeOK'
  BY DEF ControlTypeOK, PCs
<1>2. \A u \in Threads : ThreadOK(u)'
  BY DEF ControlTypeOK, ThreadOK
<1>3. ArgOK'
  BY DEF ControlTypeOK, ArgOK, Reserving
<1>4. \A s \in Slot : SlotOK(s)'
  BY DEF SlotOK
<1>5. MonitorOK'
  BY DEF ControlTypeOK, MonitorOK
<1>6. HeldIsAlive'
  BY DEF HeldIsAlive, Reachable
<1>. QED  BY <1>1, <1>2, <1>3, <1>4, <1>5, <1>6

\* SendReceiver: A receiver is sent, without the monitor.
LEMMA ControlSendReceiver ==
  ASSUME IInv, NEW t \in Threads, NEW g \in GoObject, SendReceiver(t, g)
  PROVE  Control'
<1>. USE Disjoint DEF IInv, Control, SendReceiver, Goto
<1>1. ControlTypeOK'
  BY DEF ControlTypeOK, PCs
<1>2. \A u \in Threads : ThreadOK(u)'
  BY DEF ControlTypeOK, ThreadOK
<1>3. ArgOK'
  BY DEF ControlTypeOK, ArgOK, Reserving
<1>4. \A s \in Slot : SlotOK(s)'
  BY DEF SlotOK
<1>5. MonitorOK'
  BY DEF MonitorOK
<1>6. HeldIsAlive'
  BY DEF HeldIsAlive, Reachable
<1>. QED  BY <1>1, <1>2, <1>3, <1>4, <1>5, <1>6

\* IncGo: The number of a live slot is counted, and the monitor released.
LEMMA ControlIncGo ==
  ASSUME IInv, NEW t \in Threads, IncGo(t)
  PROVE  Control'
<1>. USE Disjoint DEF IInv, Control, IncGo, Hold, Goto
<1>0. /\ arg[t] \in GoObject /\ state[arg[t]] = "live" /\ num[t] = 0
      /\ num[arg[t]] \in Int /\ num[arg[t]] < 0
  BY Numbers DEF ThreadOK, SlotOK
<1>1. ControlTypeOK'
  BY DEF ControlTypeOK, PCs
<1>2. \A u \in Threads : ThreadOK(u)'
  BY <1>0 DEF ControlTypeOK, ThreadOK, Books, TableTypeOK, HoldTypeOK
<1>3. ArgOK'
  BY <1>0 DEF ControlTypeOK, ThreadOK, ArgOK, Reserving
<1>4. \A s \in Slot : SlotOK(s)'
  BY DEF SlotOK
<1>5. MonitorOK'
  BY DEF MonitorOK
<1>6. HeldIsAlive'
  BY <1>0 DEF HeldIsAlive, Reachable
<1>. QED  BY <1>1, <1>2, <1>3, <1>4, <1>5, <1>6

\* GoLookup: The lookup finds the object the number was made for.
LEMMA ControlGoLookup ==
  ASSUME IInv, NEW t \in Threads, GoLookup(t)
  PROVE  Control'
<1>. USE Disjoint DEF IInv, Control, GoLookup, Goto
<1>0. goObjs[num[t]].obj = means[t] /\ means[t] \in GoObjs
  BY Numbers
<1>1. ControlTypeOK'
  BY <1>0 DEF ControlTypeOK, PCs
<1>2. \A u \in Threads : ThreadOK(u)'
  BY <1>0 DEF ControlTypeOK, ThreadOK
<1>3. ArgOK'
  <2>1. arg[t] = None /\ ~Reserving(t)'
    BY Numbers DEF ArgOK, Reserving
  <2>2. \A u \in Threads : u # t => (Reserving(u)' <=> Reserving(u)) /\ pc'[u] = pc[u]
    BY DEF Reserving
  <2>. QED  BY <2>1, <2>2 DEF ControlTypeOK, ArgOK
<1>4. \A s \in Slot : SlotOK(s)'
  BY DEF SlotOK
<1>5. MonitorOK'
  BY DEF MonitorOK
<1>6. HeldIsAlive'
  BY DEF HeldIsAlive, Reachable
<1>. QED  BY <1>1, <1>2, <1>3, <1>4, <1>5, <1>6

\* GoDelete: The thread has given its number up and is idle again.
LEMMA ControlGoDelete ==
  ASSUME IInv, NEW t \in Threads, GoDelete(t)
  PROVE  Control'
<1>. USE Disjoint DEF IInv, Control, GoDelete, Hold, LetGo, Goto
<1>1. ControlTypeOK'
  BY DEF ControlTypeOK, PCs
<1>2. \A u \in Threads : ThreadOK(u)'
  BY DEF ControlTypeOK, ThreadOK, Books, TableTypeOK, HoldTypeOK
<1>3. ArgOK'
  BY DEF ArgOK, Reserving
<1>4. \A s \in Slot : SlotOK(s)'
  BY DEF SlotOK
<1>5. MonitorOK'
  BY DEF MonitorOK
<1>6. HeldIsAlive'
  BY DEF HeldIsAlive, Reachable, Books, TableTypeOK, HoldTypeOK
<1>. QED  BY <1>1, <1>2, <1>3, <1>4, <1>5, <1>6

\* GoWrap: The Ref set aside takes the number over and is live.
LEMMA ControlGoWrap ==
  ASSUME IInv, NEW t \in Threads, GoWrap(t)
  PROVE  Control'
<1>. USE Disjoint DEF IInv, Control, GoWrap, HandOver, Goto, SetState
<1>0. /\ arg[t] \in Refs /\ state[arg[t]] = "reserved"
      /\ num[t] \in Int /\ num[t] > 0 /\ num[arg[t]] = 0
      /\ num' = [num EXCEPT ![t] = 0, ![arg[t]] = num[t]]
      /\ num'[t] = 0 /\ num'[arg[t]] = num[t]
      /\ means'[arg[t]] = means[t]
      /\ \A h \in Holder \ {t, arg[t]} : num'[h] = num[h] /\ means'[h] = means[h]
  BY Numbers DEF ThreadOK, ArgOK, SlotOK, Books, TableTypeOK, HoldTypeOK
<1>1. ControlTypeOK'
  BY DEF ControlTypeOK, States, PCs
<1>2. \A u \in Threads : ThreadOK(u)'
  BY DEF ControlTypeOK, ThreadOK, ArgOK, Books, TableTypeOK, HoldTypeOK
<1>3. ArgOK'
  BY DEF ControlTypeOK, ThreadOK, ArgOK, Reserving, Books, TableTypeOK,
     HoldTypeOK
<1>4. \A s \in Slot : SlotOK(s)'
  BY <1>0 DEF ControlTypeOK, SlotOK, Books, TableTypeOK, HoldTypeOK
<1>5. MonitorOK'
  BY <1>0 DEF MonitorOK
<1>6. HeldIsAlive'
  BY DEF HeldIsAlive, Reachable, Books, TableTypeOK, HoldTypeOK
<1>. QED  BY <1>1, <1>2, <1>3, <1>4, <1>5, <1>6

\* SendGo: A Go object is on its way with its Java slot set aside.
LEMMA ControlSendGo ==
  ASSUME IInv, NEW t \in Threads, NEW x \in GoObjs, NEW g \in GoObject, SendGo(t, x, g)
  PROVE  Control'
<1>. USE Disjoint DEF IInv, Control, SendGo, Hold, Goto, SetState
<1>0. num'[t] = RefNumOf(x) /\ num'[t] \in Int /\ num'[t] < 0
      /\ \A h \in Holder \ {t} : num'[h] = num[h] /\ means'[h] = means[h]
  BY Numbers DEF Books, TableTypeOK, HoldTypeOK
<1>1. ControlTypeOK'
  BY DEF ControlTypeOK, States, PCs
<1>2. \A u \in Threads : ThreadOK(u)'
  BY <1>0 DEF ControlTypeOK, ThreadOK
<1>3. ArgOK'
  BY <1>0 DEF ControlTypeOK, ThreadOK, ArgOK, Reserving
<1>4. \A s \in Slot : SlotOK(s)'
  BY DEF SlotOK
<1>5. MonitorOK'
  BY DEF MonitorOK
<1>6. HeldIsAlive'
  BY <1>0 DEF HeldIsAlive, Reachable
<1>. QED  BY <1>1, <1>2, <1>3, <1>4, <1>5, <1>6

\* NewProxy: The Java slot set aside takes the number over and is live.
LEMMA ControlNewProxy ==
  ASSUME IInv, NEW t \in Threads, NewProxy(t)
  PROVE  Control'
<1>. USE Disjoint DEF IInv, Control, NewProxy, HandOver, Goto, SetState
<1>0. /\ arg[t] \in GoObject /\ state[arg[t]] = "reserved"
      /\ num[t] \in Int /\ num[t] < 0 /\ num[arg[t]] = 0
      /\ num' = [num EXCEPT ![t] = 0, ![arg[t]] = num[t]]
      /\ num'[t] = 0 /\ num'[arg[t]] = num[t]
      /\ means'[arg[t]] = means[t]
      /\ \A h \in Holder \ {t, arg[t]} : num'[h] = num[h] /\ means'[h] = means[h]
  BY Numbers DEF ThreadOK, ArgOK, SlotOK, Books, TableTypeOK, HoldTypeOK
<1>1. ControlTypeOK'
  BY DEF ControlTypeOK, States, PCs
<1>2. \A u \in Threads : ThreadOK(u)'
  BY DEF ControlTypeOK, ThreadOK, Books, TableTypeOK, HoldTypeOK
<1>3. ArgOK'
  BY DEF ControlTypeOK, ThreadOK, ArgOK, Reserving, Books, TableTypeOK,
     HoldTypeOK
<1>4. \A s \in Slot : SlotOK(s)'
  BY <1>0 DEF ControlTypeOK, SlotOK, Books, TableTypeOK, HoldTypeOK
<1>5. MonitorOK'
  BY <1>0 DEF MonitorOK
<1>6. HeldIsAlive'
  BY DEF HeldIsAlive, Reachable, Books, TableTypeOK, HoldTypeOK
<1>. QED  BY <1>1, <1>2, <1>3, <1>4, <1>5, <1>6

\* FailConstructor: The Java slot set aside takes the number over and is abandoned.
LEMMA ControlFailConstructor ==
  ASSUME IInv, NEW t \in Threads, FailConstructor(t)
  PROVE  Control'
<1>. USE Disjoint DEF IInv, Control, FailConstructor, HandOver, Goto, SetState
<1>0. /\ arg[t] \in GoObject /\ state[arg[t]] = "reserved"
      /\ num[t] \in Int /\ num[t] < 0 /\ num[arg[t]] = 0
      /\ num' = [num EXCEPT ![t] = 0, ![arg[t]] = num[t]]
      /\ num'[t] = 0 /\ num'[arg[t]] = num[t]
      /\ means'[arg[t]] = means[t]
      /\ \A h \in Holder \ {t, arg[t]} : num'[h] = num[h] /\ means'[h] = means[h]
  BY Numbers DEF ThreadOK, ArgOK, SlotOK, Books, TableTypeOK, HoldTypeOK
<1>1. ControlTypeOK'
  BY DEF ControlTypeOK, States, PCs
<1>2. \A u \in Threads : ThreadOK(u)'
  BY DEF ControlTypeOK, ThreadOK, ArgOK, Books, TableTypeOK, HoldTypeOK
<1>3. ArgOK'
  BY DEF ControlTypeOK, ThreadOK, ArgOK, Reserving, Books, TableTypeOK,
     HoldTypeOK
<1>4. \A s \in Slot : SlotOK(s)'
  BY <1>0 DEF ControlTypeOK, SlotOK, Books, TableTypeOK, HoldTypeOK
<1>5. MonitorOK'
  BY <1>0 DEF MonitorOK
<1>6. HeldIsAlive'
  BY <1>0 DEF HeldIsAlive, Reachable, Books, TableTypeOK, HoldTypeOK
<1>. QED  BY <1>1, <1>2, <1>3, <1>4, <1>5, <1>6

\* SendRef: A live Ref is sent; only a class written in Go is unwrapped.
LEMMA ControlSendRef ==
  ASSUME IInv, NEW t \in Threads, NEW r \in Refs, SendRef(t, r)
  PROVE  Control'
<1>. USE Disjoint DEF IInv, Control, SendRef, Goto
<1>1. ControlTypeOK'
  BY DEF ControlTypeOK, PCs
<1>2. \A u \in Threads : ThreadOK(u)'
  BY DEF ControlTypeOK, ThreadOK
<1>3. ArgOK'
  BY DEF ControlTypeOK, ArgOK, Reserving
<1>4. \A s \in Slot : SlotOK(s)'
  BY DEF SlotOK
<1>5. MonitorOK'
  BY DEF MonitorOK
<1>6. HeldIsAlive'
  BY DEF HeldIsAlive, Reachable
<1>. QED  BY <1>1, <1>2, <1>3, <1>4, <1>5, <1>6

\* IncJava: The number of a live Ref is counted for its thread.
LEMMA ControlIncJava ==
  ASSUME IInv, NEW t \in Threads, IncJava(t)
  PROVE  Control'
<1>. USE Disjoint DEF IInv, Control, IncJava, Hold, Goto
<1>0. /\ arg[t] \in Refs /\ state[arg[t]] = "live" /\ num[t] = 0
      /\ num[arg[t]] \in Int /\ num[arg[t]] > 0
  BY Numbers DEF ThreadOK, SlotOK
<1>1. ControlTypeOK'
  BY DEF ControlTypeOK, PCs
<1>2. \A u \in Threads : ThreadOK(u)'
  BY <1>0 DEF ControlTypeOK, ThreadOK, Books, TableTypeOK, HoldTypeOK
<1>3. ArgOK'
  BY <1>0 DEF ControlTypeOK, ThreadOK, ArgOK, Reserving
<1>4. \A s \in Slot : SlotOK(s)'
  BY DEF SlotOK
<1>5. MonitorOK'
  BY DEF MonitorOK
<1>6. HeldIsAlive'
  BY <1>0 DEF HeldIsAlive, Reachable, Books, TableTypeOK, HoldTypeOK
<1>. QED  BY <1>1, <1>2, <1>3, <1>4, <1>5, <1>6

\* JavaGet: The lookup finds the object the number was made for.
LEMMA ControlJavaGet ==
  ASSUME IInv, NEW t \in Threads, JavaGet(t)
  PROVE  Control'
<1>. USE Disjoint DEF IInv, Control, JavaGet, Goto
<1>0. javaObjs[num[t]].obj = means[t] /\ means[t] \in Tracked
  BY Numbers
<1>1. ControlTypeOK'
  BY <1>0 DEF ControlTypeOK, PCs
<1>2. \A u \in Threads : ThreadOK(u)'
  BY <1>0 DEF ControlTypeOK, ThreadOK
<1>3. ArgOK'
  <2>1. arg[t] = None /\ ~Reserving(t)'
    BY Numbers DEF ArgOK, Reserving
  <2>2. \A u \in Threads : u # t => (Reserving(u)' <=> Reserving(u)) /\ pc'[u] = pc[u]
    BY DEF Reserving
  <2>. QED  BY <2>1, <2>2 DEF ControlTypeOK, ArgOK
<1>4. \A s \in Slot : SlotOK(s)'
  BY DEF SlotOK
<1>5. MonitorOK'
  BY DEF MonitorOK
<1>6. HeldIsAlive'
  BY DEF HeldIsAlive, Reachable
<1>. QED  BY <1>1, <1>2, <1>3, <1>4, <1>5, <1>6

\* JavaDec: The thread is idle again, or sends a class that is still live.
LEMMA ControlJavaDec ==
  ASSUME IInv, NEW t \in Threads, JavaDec(t)
  PROVE  Control'
<1>. USE Disjoint DEF IInv, Control, JavaDec, Hold, LetGo, Goto
<1>1. ControlTypeOK'
  BY DEF ControlTypeOK, ThreadOK, PCs
<1>2. \A u \in Threads : ThreadOK(u)'
  <2>1. unwraps[t] => got[t] \in Classes /\ state[got[t]] = "live"
    BY DEF ThreadOK, HeldIsAlive, Reachable
  <2>2. ThreadOK(t)'
    BY <2>1 DEF ControlTypeOK, ThreadOK, Books, TableTypeOK, HoldTypeOK
  <2>3. ASSUME NEW u \in Threads, u # t
        PROVE  ThreadOK(u)'
    BY <2>3 DEF ThreadOK
  <2>. QED  BY <2>2, <2>3
<1>3. ArgOK'
  <2>1. unwraps[t] => got[t] \in Classes /\ state[got[t]] = "live"
    BY DEF ThreadOK, HeldIsAlive, Reachable
  <2>2. ~Reserving(t)' /\ (arg'[t] # None => pc'[t] = "incGo" /\ state[arg'[t]] = "live")
    BY <2>1 DEF ControlTypeOK, Reserving
  <2>3. \A u \in Threads : u # t => num'[u] = num[u] /\ pc'[u] = pc[u] /\ arg'[u] = arg[u]
    OBVIOUS
  <2>4. ASSUME NEW u \in Threads, u # t
        PROVE  Reserving(u)' <=> Reserving(u)
    BY DEF Reserving
  <2>5. \A u \in Threads : Reserving(u) => arg[u] \in Slot
    BY DEF Reserving, ThreadOK
  <2>. QED  BY <2>2, <2>3, <2>4, <2>5 DEF ArgOK
<1>4. \A s \in Slot : SlotOK(s)'
  BY DEF SlotOK
<1>5. MonitorOK'
  BY DEF MonitorOK
<1>6. HeldIsAlive'
  BY DEF HeldIsAlive, Reachable, Books, TableTypeOK, HoldTypeOK
<1>. QED  BY <1>1, <1>2, <1>3, <1>4, <1>5, <1>6

\* NewJava: A new object disturbs nobody.
LEMMA ControlNewJava ==
  ASSUME IInv, NEW o \in Plain, NewJava(o)
  PROVE  Control'
<1>. USE Disjoint DEF IInv, Control, NewJava, threadVars
<1>1. ControlTypeOK'
  BY DEF ControlTypeOK
<1>2. \A u \in Threads : ThreadOK(u)'
  BY DEF ThreadOK
<1>3. ArgOK'
  BY DEF ArgOK, Reserving
<1>4. \A s \in Slot : SlotOK(s)'
  BY DEF SlotOK
<1>5. MonitorOK'
  BY DEF MonitorOK
<1>6. HeldIsAlive'
  BY DEF HeldIsAlive, Reachable
<1>. QED  BY <1>1, <1>2, <1>3, <1>4, <1>5, <1>6

\* CollectJava: An object Go has a number for is in the table, so it is not collected.
LEMMA ControlCollectJava ==
  ASSUME IInv, NEW o \in Plain, CollectJava(o)
  PROVE  Control'
<1>. USE Disjoint DEF IInv, Control, CollectJava, threadVars
<1>1. ControlTypeOK'
  BY DEF ControlTypeOK
<1>2. \A u \in Threads : ThreadOK(u)'
  BY DEF ThreadOK
<1>3. ArgOK'
  BY DEF ArgOK, Reserving
<1>4. \A s \in Slot : SlotOK(s)'
  BY DEF SlotOK
<1>5. MonitorOK'
  BY DEF MonitorOK
<1>6. HeldIsAlive'
  BY Numbers DEF HeldIsAlive, Reachable, InTracker
<1>. QED  BY <1>1, <1>2, <1>3, <1>4, <1>5, <1>6

\* CollectProxy: A slot that is enqueued is in no frame and in no table.
LEMMA ControlCollectProxy ==
  ASSUME IInv, NEW g \in GoObject, CollectProxy(g)
  PROVE  Control'
<1>. USE Disjoint DEF IInv, Control, CollectProxy, SetState, threadVars
<1>1. ControlTypeOK'
  BY DEF ControlTypeOK, States
<1>2. \A u \in Threads : ThreadOK(u)'
  <2>1. \A u \in Threads : pc[u] \in {"incGo", "incJava"} => arg[u] # g
    BY DEF ThreadOK, InFrame
  <2>. QED  BY <2>1 DEF ControlTypeOK, ThreadOK
<1>3. ArgOK'
  BY DEF ArgOK, Reserving
<1>4. \A s \in Slot : SlotOK(s)'
  BY DEF SlotOK
<1>5. MonitorOK'
  BY DEF MonitorOK
<1>6. HeldIsAlive'
  <2>1. \A h \in Holder : num[h] > 0 => means[h] # g
    BY Numbers DEF InTracker
  <2>. QED  BY <2>1, Numbers DEF ControlTypeOK, HeldIsAlive, Reachable
<1>. QED  BY <1>1, <1>2, <1>3, <1>4, <1>5, <1>6

\* CollectRef: A Ref that is queued is not being sent.
LEMMA ControlCollectRef ==
  ASSUME IInv, NEW r \in Refs, CollectRef(r)
  PROVE  Control'
<1>. USE Disjoint DEF IInv, Control, CollectRef, SetState, threadVars
<1>1. ControlTypeOK'
  BY DEF ControlTypeOK, States
<1>2. \A u \in Threads : ThreadOK(u)'
  BY DEF ThreadOK
<1>3. ArgOK'
  BY DEF ArgOK, Reserving
<1>4. \A s \in Slot : SlotOK(s)'
  BY DEF SlotOK
<1>5. MonitorOK'
  BY DEF MonitorOK
<1>6. HeldIsAlive'
  BY Numbers DEF HeldIsAlive, Reachable
<1>. QED  BY <1>1, <1>2, <1>3, <1>4, <1>5, <1>6

\* DaemonRemove: The GoRef the thread has taken is a queued one.
LEMMA ControlDaemonRemove ==
  ASSUME IInv, NEW g \in GoObject, DaemonRemove(g)
  PROVE  Control'
<1>. USE Disjoint DEF IInv, Control, DaemonRemove, threadVars
<1>1. ControlTypeOK'
  BY DEF ControlTypeOK
<1>2. \A u \in Threads : ThreadOK(u)'
  BY DEF ThreadOK
<1>3. ArgOK'
  BY DEF ArgOK, Reserving
<1>4. \A s \in Slot : SlotOK(s)'
  BY DEF SlotOK
<1>5. MonitorOK'
  BY DEF MonitorOK
<1>6. HeldIsAlive'
  BY DEF HeldIsAlive, Reachable
<1>. QED  BY <1>1, <1>2, <1>3, <1>4, <1>5, <1>6

\* DaemonDestroy: The slot destroyed was neither live nor set aside.
LEMMA ControlDaemonDestroy ==
  ASSUME IInv, DaemonDestroy
  PROVE  Control'
<1>. USE Disjoint DEF IInv, Control, DaemonDestroy, Hold, LetGo, SetState, threadVars
<1>0. taken \in GoObject /\ state[taken] = "queued"
  BY DEF ControlTypeOK, MonitorOK
<1>1. ControlTypeOK'
  BY DEF ControlTypeOK, States
<1>2. \A u \in Threads : ThreadOK(u)'
  <2>1. \A u \in Threads : num'[u] = num[u] /\ means'[u] = means[u]
    BY <1>0
  <2>2. \A u \in Threads : pc[u] \in {"incGo", "incJava"} =>
           /\ arg[u] \in Slot /\ arg[u] # taken
           /\ state'[arg[u]] = state[arg[u]] /\ means'[arg[u]] = means[arg[u]]
    BY <1>0 DEF ThreadOK
  <2>. QED  BY <2>1, <2>2 DEF ThreadOK
<1>3. ArgOK'
  <2>1. \A u \in Threads : Reserving(u)' <=> Reserving(u)
    BY <1>0 DEF Reserving
  <2>2. \A u \in Threads : Reserving(u) => state'[arg[u]] = "reserved"
    BY <1>0 DEF ArgOK
  <2>. QED  BY <2>1, <2>2 DEF ArgOK
<1>4. \A s \in Slot : SlotOK(s)'
  BY DEF ControlTypeOK, SlotOK, Books, TableTypeOK, HoldTypeOK
<1>5. MonitorOK'
  BY DEF MonitorOK
<1>6. HeldIsAlive'
  <2>1. \A h \in Holder : num'[h] > 0 => num[h] > 0 /\ means'[h] = means[h]
    BY DEF Books, TableTypeOK, HoldTypeOK
  <2>2. \A s \in Slot : state[s] = "live" => state'[s] = "live"
    BY <1>0
  <2>3. \A h \in Holder : num[h] > 0 => means[h] \in Tracked
    BY Numbers
  <2>. QED  BY <2>1, <2>2, <2>3 DEF HeldIsAlive, Reachable
<1>. QED  BY <1>1, <1>2, <1>3, <1>4, <1>5, <1>6

\* FinalizeRef: The Ref finalized was neither live nor set aside.
LEMMA ControlFinalizeRef ==
  ASSUME IInv, NEW r \in Refs, FinalizeRef(r)
  PROVE  Control'
<1>. USE Disjoint DEF IInv, Control, FinalizeRef, Hold, LetGo, SetState, threadVars
<1>1. ControlTypeOK'
  BY DEF ControlTypeOK, States
<1>2. \A u \in Threads : ThreadOK(u)'
  BY DEF ThreadOK
<1>3. ArgOK'
  BY DEF ArgOK, Reserving
<1>4. \A s \in Slot : SlotOK(s)'
  BY DEF ControlTypeOK, SlotOK, Books, TableTypeOK, HoldTypeOK
<1>5. MonitorOK'
  BY DEF ControlTypeOK, MonitorOK
<1>6. HeldIsAlive'
  BY DEF HeldIsAlive, Reachable, Books, TableTypeOK, HoldTypeOK
<1>. QED  BY <1>1, <1>2, <1>3, <1>4, <1>5, <1>6

-----------------------------------------------------------------------------
(* The invariant. *)

\* Nothing is held before the first step.
LEMMA InitIInv ==
  ASSUME Init
  PROVE  IInv
<1>. USE DEF Init, GoRefsInit, JavaTrackerInit
<1>1. TableTypeOK
  <2>1. goNext \in GoMin - 1 .. GoFirst /\ jNext \in RefOffset .. JavaMax + 1
    BY DEF GoFirst, RefOffset
  <2>2. DOMAIN goRefs = {} /\ DOMAIN goObjs = {} /\ DOMAIN javaRefs = {} /\ DOMAIN javaObjs = {}
    OBVIOUS
  <2>. QED  BY <2>1, <2>2 DEF TableTypeOK, GoRefsTypeOK, JavaTrackerTypeOK,
               HoldTypeOK
<1>2. GoCountExact /\ JavaCountExact
  BY Ranges DEF GoCountExact, JavaCountExact, Holders
<1>3. TablesOK /\ HolderOK
  BY DEF TablesOK, GoTableOK, JavaTableOK, HolderOK
<1>4. ControlTypeOK
  BY DEF ControlTypeOK, States, PCs
<1>5. Control
  BY <1>4, Disjoint DEF Control, ThreadOK, ArgOK, Reserving, SlotOK,
     MonitorOK, HeldIsAlive
<1>. QED  BY <1>1, <1>2, <1>3, <1>5 DEF Books, IInv

\* What the holder of a step has in hand, as the lemmas on the books ask for it.
LEMMA InHand ==
  ASSUME IInv
  PROVE  /\ \A h \in Holder : num[h] \in Int
         /\ \A t \in Threads :
              /\ t \in Holder
              /\ pc[t] \in {"idle", "incGo", "incJava"} => num[t] = 0
              /\ pc[t] = "incGo" => arg[t] \in Holder /\ num[arg[t]] < 0
              /\ pc[t] = "incJava" => arg[t] \in Holder /\ num[arg[t]] > 0
              /\ pc[t] = "goDelete" => num[t] < 0
              /\ pc[t] = "javaDec" => num[t] > 0
              /\ Reserving(t) => arg[t] \in Holder /\ num[arg[t]] = 0
         /\ \A s \in Slot :
              /\ s \in Holder
              /\ s \in GoObject /\ state[s] = "queued" => num[s] < 0
              /\ s \in Refs /\ state[s] = "queued" => num[s] > 0
         /\ taken # None => taken \in GoObject /\ taken \in Slot /\ state[taken] = "queued"
<1>. USE Disjoint DEF IInv, Control
<1>1. \A h \in Holder : num[h] \in Int
  BY Numbers
<1>2. ASSUME NEW t \in Threads
      PROVE  /\ t \in Holder
             /\ pc[t] \in {"idle", "incGo", "incJava"} => num[t] = 0
             /\ pc[t] = "incGo" => arg[t] \in Holder /\ num[arg[t]] < 0
             /\ pc[t] = "incJava" => arg[t] \in Holder /\ num[arg[t]] > 0
             /\ pc[t] = "goDelete" => num[t] < 0
             /\ pc[t] = "javaDec" => num[t] > 0
             /\ Reserving(t) => arg[t] \in Holder /\ num[arg[t]] = 0
  <2>1. \A s \in Slot : num[s] \in Int /\ s \in Holder
    BY <1>1
  <2>. QED  BY <2>1 DEF ThreadOK, SlotOK, ArgOK, Reserving
<1>3. \A s \in Slot : s \in Holder /\ (state[s] = "queued" => num[s] # 0)
  BY DEF SlotOK
<1>4. \A s \in Slot : /\ s \in GoObject => num[s] <= 0
                      /\ s \in Refs => num[s] >= 0
  BY DEF SlotOK
<1>5. taken # None => taken \in GoObject /\ taken \in Slot /\ state[taken] = "queued"
  BY DEF ControlTypeOK, MonitorOK
<1>. QED  BY <1>1, <1>2, <1>3, <1>4, <1>5

\* Every step of a thread keeps the invariant.
LEMMA ThreadStep ==
  ASSUME IInv, NEW t \in Threads, Start(t) \/ Continue(t)
  PROVE  IInv'
<1>. USE InHand DEF IInv
<1>1. ASSUME NEW o \in Tracked, NEW r \in Refs, SendTracked(t, o, r)
      PROVE  IInv'
  BY <1>1, ControlSendTracked, BooksTrackerInc DEF SendTracked
<1>2. ASSUME NEW p \in Proxies, SendProxy(t, p)
      PROVE  IInv'
  BY <1>2, ControlSendProxy, BooksSame DEF SendProxy
<1>3. ASSUME NEW g \in GoObject, SendReceiver(t, g)
      PROVE  IInv'
  BY <1>3, ControlSendReceiver, BooksSame DEF SendReceiver
<1>4. ASSUME NEW x \in GoObjs, NEW g \in GoObject, SendGo(t, x, g)
      PROVE  IInv'
  BY <1>4, ControlSendGo, BooksToRefNum DEF SendGo
<1>5. ASSUME NEW r \in Refs, SendRef(t, r)
      PROVE  IInv'
  BY <1>5, ControlSendRef, BooksSame DEF SendRef
<1>6. CASE IncGo(t)
  BY <1>6, ControlIncGo, BooksInc DEF IncGo
<1>7. CASE GoLookup(t)
  BY <1>7, ControlGoLookup, BooksSame DEF GoLookup
<1>8. CASE GoDelete(t)
  BY <1>8, ControlGoDelete, BooksDelete DEF GoDelete
<1>9. CASE GoWrap(t)
  <2>1. /\ num[t] # 0 /\ arg[t] \in Holder /\ num[arg[t]] = 0
        /\ HandOver(t, arg[t]) /\ UNCHANGED <<goVars, javaVars>>
    BY <1>9 DEF GoWrap, Reserving
  <2>2. Books'
    BY <2>1, BooksHandOver
  <2>. QED  BY <1>9, <2>2, ControlGoWrap
<1>10. CASE NewProxy(t)
  <2>1. /\ num[t] # 0 /\ arg[t] \in Holder /\ num[arg[t]] = 0
        /\ HandOver(t, arg[t]) /\ UNCHANGED <<goVars, javaVars>>
    BY <1>10 DEF NewProxy, Reserving
  <2>2. Books'
    BY <2>1, BooksHandOver
  <2>. QED  BY <1>10, <2>2, ControlNewProxy
<1>11. CASE FailConstructor(t)
  <2>1. /\ num[t] # 0 /\ arg[t] \in Holder /\ num[arg[t]] = 0
        /\ HandOver(t, arg[t]) /\ UNCHANGED <<goVars, javaVars>>
    BY <1>11 DEF FailConstructor, Reserving
  <2>2. Books'
    BY <2>1, BooksHandOver
  <2>. QED  BY <1>11, <2>2, ControlFailConstructor
<1>12. CASE IncJava(t)
  BY <1>12, ControlIncJava, BooksIncRefnum DEF IncJava
<1>13. CASE JavaGet(t)
  BY <1>13, ControlJavaGet, BooksSame DEF JavaGet
<1>14. CASE JavaDec(t)
  BY <1>14, ControlJavaDec, BooksDec DEF JavaDec
<1>. QED  BY <1>1, <1>2, <1>3, <1>4, <1>5, <1>6, <1>7, <1>8, <1>9, <1>10,
             <1>11,
             <1>12, <1>13, <1>14 DEF Start, Continue

\* So does every step of the collectors and of what they set off.
LEMMA CollectorStep ==
  ASSUME IInv, Collect \/ Daemon \/ Finalizer
  PROVE  IInv'
<1>. USE InHand DEF IInv
<1>1. ASSUME NEW o \in Plain, NewJava(o)
      PROVE  IInv'
  BY <1>1, ControlNewJava, BooksSame DEF NewJava
<1>2. ASSUME NEW o \in Plain, CollectJava(o)
      PROVE  IInv'
  BY <1>2, ControlCollectJava, BooksSame DEF CollectJava
<1>3. ASSUME NEW g \in GoObject, CollectProxy(g)
      PROVE  IInv'
  BY <1>3, ControlCollectProxy, BooksSame DEF CollectProxy
<1>4. ASSUME NEW r \in Refs, CollectRef(r)
      PROVE  IInv'
  BY <1>4, ControlCollectRef, BooksSame DEF CollectRef
<1>5. ASSUME NEW g \in GoObject, DaemonRemove(g)
      PROVE  IInv'
  BY <1>5, ControlDaemonRemove, BooksSame DEF DaemonRemove
<1>6. CASE DaemonDestroy
  BY <1>6, ControlDaemonDestroy, BooksDelete DEF DaemonDestroy
<1>7. ASSUME NEW r \in Refs, FinalizeRef(r)
      PROVE  IInv'
  BY <1>7, ControlFinalizeRef, BooksDec, Disjoint DEF FinalizeRef
<1>. QED  BY <1>1, <1>2, <1>3, <1>4, <1>5, <1>6, <1>7 DEF Collect, Daemon,
             Finalizer

\* A stuttering step does.
LEMMA StutterStep ==
  ASSUME IInv, UNCHANGED vars
  PROVE  IInv'
<1>1. Books'
  BY BooksSame DEF IInv, vars
<1>2. Control'
  BY DEF IInv, vars, threadVars, goVars, javaVars, Control, ControlTypeOK,
     ThreadOK, ArgOK,
     Reserving, SlotOK, MonitorOK, HeldIsAlive, Reachable
<1>. QED  BY <1>1, <1>2 DEF IInv

\* The inductive invariant holds in every state.
THEOREM Invariant == Spec => []IInv
<1>1. Init => IInv
  BY InitIInv
<1>2. IInv /\ [Next]_vars => IInv'
  BY ThreadStep, CollectorStep, StutterStep DEF Next
<1>. QED  BY <1>1, <1>2, PTL DEF Spec

-----------------------------------------------------------------------------
(* What the invariant gives. *)

\* Every variable has its type: the numbers stay within their bounds, counts
\* are positive, and no number, object or slot is of the wrong kind.
THEOREM TypeCorrect == Spec => []TypeOK
<1>1. IInv => TypeOK
  BY DEF IInv, Books, TableTypeOK, HoldTypeOK, Control, ControlTypeOK, TypeOK
<1>. QED  BY <1>1, Invariant, PTL

\* In refs.objs every count is the number of proxies and values in flight that
\* hold the number: ToRefNum, Inc and Delete are called in balance.
THEOREM GoCounts == Spec => []GoCountExact
<1>1. IInv => GoCountExact
  BY DEF IInv, Books
<1>. QED  BY <1>1, Invariant, PTL

\* In RefTracker.javaObjs every count is the number of Go Refs and values in
\* flight that hold the number: inc, incRefnum and dec are called in balance.
THEOREM JavaCounts == Spec => []JavaCountExact
<1>1. IInv => JavaCountExact
  BY DEF IInv, Books
<1>. QED  BY <1>1, Invariant, PTL

\* The two maps of each table stay inverse to one another.
THEOREM TablesInverse == Spec => []TablesOK
<1>1. IInv => TablesOK
  BY DEF IInv, Books
<1>. QED  BY <1>1, Invariant, PTL

\* A number stands for the object it was sent for as long as somebody has it.
THEOREM Identity == Spec => []SameObject
<1>1. ASSUME IInv
      PROVE  SameObject
  <2>1. \A t \in Threads : got[t] # None => got[t] = means[t]
    BY <1>1 DEF IInv, Control, ControlTypeOK, PCs, ThreadOK
  <2>. QED  BY <1>1, <2>1 DEF IInv, Books, HolderOK, SameObject
<1>. QED  BY <1>1, Invariant, PTL

\* Ref.Get, Inc and RefTracker's methods never meet an unknown number: the
\* panics and exceptions that report one are unreachable.
THEOREM KnownNumbers == Spec => []NoUnknownRef
<1>1. ASSUME IInv
      PROVE  NoUnknownRef
  <2>1. \A h \in Holder : /\ num[h] < 0 => num[h] \in DOMAIN goObjs
                          /\ num[h] > 0 => num[h] \in DOMAIN javaObjs
    BY <1>1, Numbers DEF IInv
  <2>2. \A h \in Holder : num[h] # 0 => num[h] \in DOMAIN goObjs \union DOMAIN javaObjs
    BY <1>1, <2>1, InHand
  <2>3. ASSUME NEW t \in Threads
        PROVE  /\ pc[t] = "incGo" => num[arg[t]] \in DOMAIN goObjs
               /\ pc[t] = "incJava" => num[arg[t]] \in DOMAIN javaObjs
    BY <1>1, <2>1, InHand
  <2>4. \A t \in Threads : pc[t] \in {"goRead", "javaRead", "goDelete", "javaDec"} => num[t] # 0
    BY <1>1, InHand DEF IInv, Control, ThreadOK
  <2>5. \A s \in Slot : state[s] = "queued" => num[s] # 0
    BY <1>1 DEF IInv, Control, SlotOK
  <2>. QED  BY <1>1, <2>2, <2>3, <2>4, <2>5, InHand DEF NoUnknownRef
<1>. QED  BY <1>1, Invariant, PTL

\* What Go holds a reference to is alive in Java: the strong references of
\* RefTracker and of the frames are enough.
THEOREM Alive == Spec => []HeldIsAlive
<1>1. IInv => HeldIsAlive
  BY DEF IInv, Control
<1>. QED  BY <1>1, Invariant, PTL

\* The monitor is held only across the one call into Go, which succeeds.
THEOREM MonitorComesBack == Spec => []MonitorReleased
<1>1. ASSUME IInv
      PROVE  MonitorReleased
  <2>1. \A t \in Threads : pc[t] = "incGo" => num[arg[t]] \in DOMAIN goObjs
    BY <1>1, InHand, Numbers DEF IInv
  <2>. QED  BY <1>1, <2>1 DEF IInv, Control, MonitorOK, MonitorReleased
<1>. QED  BY <1>1, Invariant, PTL

-----------------------------------------------------------------------------
(* SeqBridge implements Ownership. *)

HeldObjects == {means[h] : h \in {k \in Holder : num[k] # 0}}

\* By the books, what the tables pin is what somebody holds, ...
LEMMA PinnedIsHeld == Books => Pinned = HeldObjects
<1>. SUFFICES ASSUME Books
              PROVE  Pinned = HeldObjects
  OBVIOUS
<1>1. \A h \in Holder : num[h] # 0 => means[h] \in Pinned
  BY Numbers DEF Pinned
<1>2. ASSUME NEW n \in DOMAIN goObjs
      PROVE  \E h \in Holder : num[h] # 0 /\ means[h] = goObjs[n].obj
  <2>1. Cardinality(Holders(n)) # 0 /\ n \in GoNumbers
    BY DEF Books, TableTypeOK, GoRefsTypeOK, GoCountExact
  <2>2. PICK h \in Holder : num[h] = n
    BY <2>1, FS_EmptySet DEF Holders
  <2>. QED  BY <2>1, <2>2, Ranges DEF Books, HolderOK
<1>3. ASSUME NEW n \in DOMAIN javaObjs
      PROVE  \E h \in Holder : num[h] # 0 /\ means[h] = javaObjs[n].obj
  <2>1. Cardinality(Holders(n)) # 0 /\ n \in JavaNumbers
    BY DEF Books, TableTypeOK, JavaTrackerTypeOK, JavaCountExact
  <2>2. PICK h \in Holder : num[h] = n
    BY <2>1, FS_EmptySet DEF Holders
  <2>. QED  BY <2>1, <2>2, Ranges DEF Books, HolderOK
<1>. QED  BY <1>1, <1>2, <1>3 DEF Pinned, HeldObjects

\* ... before a step and after it.
LEMMA PinnedIsHeldNext == Books' => (Pinned = HeldObjects)'
BY PinnedIsHeld, PTL

\* Taking up a number is Acquire.
LEMMA TakesUp ==
  ASSUME Books, Books', NEW h \in Holder, NEW n, n # 0, num[h] = 0,
         NEW o \in GoObjs \union Tracked, Hold(h, n, o)
  PROVE  Abstract!Acquire(h, o)
<1>. USE DEF Books, TableTypeOK, HoldTypeOK
<1>1. Held[h] = None /\ Held' = [Held EXCEPT ![h] = o]
  BY DEF Hold, Held
<1>2. Pinned' = Pinned \union {o}
  BY PinnedIsHeld, PinnedIsHeldNext DEF HeldObjects, Hold
<1>. QED  BY <1>1, <1>2 DEF Abstract!Acquire

\* Handing a number over is Move.
LEMMA HandsOver ==
  ASSUME Books, Books', NEW h \in Holder, NEW k \in Holder, num[h] # 0, num[k] = 0,
         HandOver(h, k)
  PROVE  Abstract!Move(h, k)
<1>. USE DEF Books, TableTypeOK, HoldTypeOK
<1>1. Held[h] # None /\ Held[k] = None
  BY Numbers, Disjoint DEF Held
<1>2. Held' = [Held EXCEPT ![h] = None, ![k] = Held[h]]
  BY DEF HandOver, Held
<1>3. /\ h # k
      /\ num'[h] = 0 /\ num'[k] = num[h] /\ means'[k] = means[h]
      /\ \A i \in Holder \ {h, k} : num'[i] = num[i] /\ means'[i] = means[i]
  BY DEF HandOver
<1>4. \A i \in Holder : num[i] # 0 => \E j \in Holder : num'[j] # 0 /\ means'[j] = means[i]
  BY <1>3
<1>5. \A j \in Holder : num'[j] # 0 => \E i \in Holder : num[i] # 0 /\ means[i] = means'[j]
  BY <1>3
<1>6. HeldObjects' = HeldObjects
  BY <1>4, <1>5 DEF HeldObjects
<1>7. Pinned' = Pinned
  BY <1>6, PinnedIsHeld, PinnedIsHeldNext
<1>. QED  BY <1>1, <1>2, <1>7 DEF Abstract!Move

\* Letting go of a number is Release.
LEMMA GivesUp ==
  ASSUME Books, Books', NEW h \in Holder, num[h] # 0, LetGo(h)
  PROVE  Abstract!Release(h)
<1>. USE DEF Books, TableTypeOK, HoldTypeOK
<1>1. Held[h] = means[h] /\ means[h] # None
  BY Numbers, Disjoint DEF Held
<1>2. Held' = [Held EXCEPT ![h] = None]
  BY DEF LetGo, Hold, Held
<1>3. Pinned' = {means[k] : k \in {k \in Holder \ {h} : num[k] # 0}}
  BY PinnedIsHeld, PinnedIsHeldNext DEF HeldObjects, LetGo, Hold
<1>4. Pinned = {means[k] : k \in {k \in Holder \ {h} : num[k] # 0}} \union {means[h]}
  BY PinnedIsHeld DEF HeldObjects
<1>5. (\E k \in Holder \ {h} : Held[k] = Held[h])
        <=> means[h] \in {means[k] : k \in {k \in Holder \ {h} : num[k] # 0}}
  BY <1>1 DEF Held
<1>. QED  BY <1>1, <1>2, <1>3, <1>4, <1>5 DEF Abstract!Release

\* A step that leaves num and means alone stutters.
LEMMA Stutters ==
  ASSUME Books, Books', UNCHANGED <<num, means>>
  PROVE  UNCHANGED <<Held, Pinned>>
BY PinnedIsHeld, PinnedIsHeldNext DEF HeldObjects, Held

\* Every step of SeqBridge is a step of Ownership, or a stutter of it.
LEMMA StepImplements ==
  ASSUME IInv, IInv', [Next]_vars
  PROVE  [Abstract!Next]_<<Held, Pinned>>
<1>. USE InHand
<1>1. Books /\ Books'
  BY DEF IInv
<1>2. CASE UNCHANGED <<num, means>>
  BY <1>1, <1>2, Stutters
<1>3. ASSUME NEW h \in Holder, NEW n, n # 0, num[h] = 0,
             NEW o \in GoObjs \union Tracked, Hold(h, n, o)
      PROVE  Abstract!Next
  BY <1>1, <1>3, TakesUp DEF Abstract!Next
<1>4. ASSUME NEW h \in Holder, NEW k \in Holder, num[h] # 0, num[k] = 0, HandOver(h, k)
      PROVE  Abstract!Next
  BY <1>1, <1>4, HandsOver DEF Abstract!Next
<1>5. ASSUME NEW h \in Holder, num[h] # 0, LetGo(h)
      PROVE  Abstract!Next
  BY <1>1, <1>5, GivesUp DEF Abstract!Next
<1>6. ASSUME NEW t \in Threads, Start(t)
      PROVE  [Abstract!Next]_<<Held, Pinned>>
  <2>1. ASSUME NEW o \in Tracked, NEW r \in Refs, SendTracked(t, o, r)
        PROVE  Abstract!Next
    BY <2>1, <1>1, <1>3, Numbers DEF SendTracked
  <2>2. ASSUME NEW x \in GoObjs, NEW g \in GoObject, SendGo(t, x, g)
        PROVE  Abstract!Next
    BY <2>2, <1>1, <1>3, Numbers DEF SendGo
  <2>3. ASSUME NEW g \in GoObject, SendProxy(t, g) \/ SendReceiver(t, g)
        PROVE  UNCHANGED <<num, means>>
    BY <2>3 DEF SendProxy, SendReceiver
  <2>4. ASSUME NEW r \in Refs, SendRef(t, r)
        PROVE  UNCHANGED <<num, means>>
    BY <2>4 DEF SendRef
  <2>. QED  BY <1>2, <1>6, <2>1, <2>2, <2>3, <2>4, Disjoint DEF Start
<1>7. ASSUME NEW t \in Threads, Continue(t)
      PROVE  [Abstract!Next]_<<Held, Pinned>>
  <2>1. CASE IncGo(t) \/ IncJava(t)
    BY <2>1, <1>1, <1>3, Numbers DEF IncGo, IncJava
  <2>2. CASE GoLookup(t) \/ JavaGet(t)
    BY <2>2, <1>2 DEF GoLookup, JavaGet
  <2>3. CASE GoDelete(t) \/ JavaDec(t)
    BY <2>3, <1>5 DEF GoDelete, JavaDec
  <2>4. CASE GoWrap(t) \/ NewProxy(t) \/ FailConstructor(t)
    BY <2>4, <1>4 DEF GoWrap, NewProxy, FailConstructor, Reserving
  <2>. QED  BY <1>7, <2>1, <2>2, <2>3, <2>4 DEF Continue
<1>8. CASE Collect
  BY <1>2, <1>8 DEF Collect, NewJava, CollectJava, CollectProxy, CollectRef
<1>9. CASE Daemon \/ Finalizer
  <2>1. CASE DaemonDestroy
    BY <2>1, <1>5 DEF DaemonDestroy
  <2>2. ASSUME NEW g \in GoObject, DaemonRemove(g)
        PROVE  UNCHANGED <<num, means>>
    BY <2>2 DEF DaemonRemove
  <2>3. ASSUME NEW r \in Refs, FinalizeRef(r)
        PROVE  Abstract!Next
    BY <2>3, <1>5, Disjoint DEF FinalizeRef
  <2>. QED  BY <1>2, <1>9, <2>1, <2>2, <2>3 DEF Daemon, Finalizer
<1>. QED  BY <1>2, <1>6, <1>7, <1>8, <1>9 DEF Next, vars

\* An object is pinned from the step that hands out a reference to it to the
\* step that gives up the last one, whichever way its references travel, and
\* whatever the collectors, the finalizer and the queue do in between.
THEOREM Implements == Spec => PinsWhileHeld
<1>1. Init => Abstract!Init
  BY DEF Init, GoRefsInit, JavaTrackerInit, Held, Pinned, Abstract!Init
<1>2. IInv /\ IInv' /\ [Next]_vars => [Abstract!Next]_<<Held, Pinned>>
  BY StepImplements
<1>. QED  BY <1>1, <1>2, Invariant, PTL DEF Spec, PinsWhileHeld, Abstract!Spec
=============================================================================
