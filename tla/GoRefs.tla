------------------------------- MODULE GoRefs -------------------------------
(***************************************************************************)
(* The Go side's reference table (package bind/seq, ref.go): the Go        *)
(* objects that have been passed to another language, each pinned by a     *)
(* reference number and a count.  Every operator below is what one         *)
(* critical section of the mutex refs does; the module that composes them  *)
(* says who runs them and when.                                            *)
(***************************************************************************)
EXTENDS Integers

CONSTANTS GoObjs,     \* Go values that cross the barrier, up to Go's ==
          GoMin       \* bound: the lowest reference number handed out

VARIABLES goNext,     \* refs.next
          goRefs,     \* refs.refs: object -> reference number
          goObjs      \* refs.objs: reference number -> [obj, cnt]

goVars == <<goNext, goRefs, goObjs>>

NullRefNum == 41
GoFirst == -24

ASSUME GoMinAssumption == GoMin \in Int /\ GoMin <= GoFirst

\* A map with one more binding (the Go and Java statements m[k] = v and
\* m.put(k, v)), and a map without one key.
Put(m, k, v) == [i \in DOMAIN m \union {k} |-> IF i = k THEN v ELSE m[i]]
Without(m, k) == [i \in DOMAIN m \ {k} |-> m[i]]

GoRefsInit ==
  /\ goNext = GoFirst
  /\ goRefs = <<>>
  /\ goObjs = <<>>

GoNumbers == GoMin .. GoFirst

GoRefsTypeOK ==
  /\ goNext \in GoMin - 1 .. GoFirst
  /\ DOMAIN goRefs \subseteq GoObjs
  /\ \A x \in DOMAIN goRefs : goRefs[x] \in GoNumbers
  /\ DOMAIN goObjs \subseteq GoNumbers
  /\ \A n \in DOMAIN goObjs :
       goObjs[n] \in [obj : GoObjs, cnt : Nat \ {0}]

-----------------------------------------------------------------------------
\* The number ToRefNum returns for x: the one x has, or the next free one.
RefNumOf(x) == IF x \in DOMAIN goRefs THEN goRefs[x] ELSE goNext

\* ToRefNum has a number to give: the count of numbers is bounded by GoMin
\* here as it is by the underflow panic there.
CanNumber(x) == x \in DOMAIN goRefs \/ goNext >= GoMin

\* ToRefNum: one more reference to x, under a number of its own.
ToRefNum(x) ==
  LET n == RefNumOf(x)
  IN  /\ goNext' = IF x \in DOMAIN goRefs THEN goNext ELSE goNext - 1
      /\ goRefs' = Put(goRefs, x, n)
      /\ goObjs' = Put(goObjs, n,
                       IF x \in DOMAIN goRefs
                       THEN [obj |-> goObjs[n].obj, cnt |-> goObjs[n].cnt + 1]
                       ELSE [obj |-> x, cnt |-> 1])

\* Faulty variant of Inc: the number is sent without being counted.
IncUncounted(n) == n \in DOMAIN goObjs /\ UNCHANGED goVars

\* Inc: the caller sends a reference it holds, n, across the barrier.
Inc(n) ==
  /\ n \in DOMAIN goObjs
  /\ goObjs' = [goObjs EXCEPT ![n].cnt = @ + 1]
  /\ UNCHANGED <<goNext, goRefs>>

\* Faulty variants of Delete: the comparison off by one, and the removal from
\* refs.refs forgotten.
DeleteBelowZero(n) ==
  /\ IF n \in DOMAIN goObjs
     THEN goObjs' = [goObjs EXCEPT ![n].cnt = @ - 1]
     ELSE UNCHANGED goObjs
  /\ UNCHANGED <<goNext, goRefs>>

DeleteKeepsRef(n) ==
  /\ IF n \in DOMAIN goObjs /\ goObjs[n].cnt <= 1
     THEN goObjs' = Without(goObjs, n)
     ELSE n \in DOMAIN goObjs /\ goObjs' = [goObjs EXCEPT ![n].cnt = @ - 1]
  /\ UNCHANGED <<goNext, goRefs>>

\* Delete: one reference less; the last one unpins the object.  A number the
\* table does not know is ignored.
Delete(n) ==
  /\ IF n \notin DOMAIN goObjs
     THEN UNCHANGED <<goRefs, goObjs>>
     ELSE IF goObjs[n].cnt <= 1
     THEN /\ goObjs' = Without(goObjs, n)
          /\ goRefs' = Without(goRefs, goObjs[n].obj)
     ELSE /\ goObjs' = [goObjs EXCEPT ![n].cnt = @ - 1]
          /\ UNCHANGED goRefs
  /\ UNCHANGED goNext
=============================================================================
