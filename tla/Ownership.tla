----------------------------- MODULE Ownership ------------------------------
(***************************************************************************)
(* What the two reference tables are for: an object of one language is     *)
(* pinned exactly while something on its way to, or in, the other language *)
(* holds it.  There are no numbers, counts, locks or collectors here.      *)
(***************************************************************************)
CONSTANTS Holder,     \* what can hold an object of the other language
          Object,     \* the objects of both languages
          None        \* no object

VARIABLES holds,      \* Holder -> the object it holds, or None
          pinned      \* the objects kept from their collector

Init ==
  /\ holds = [h \in Holder |-> None]
  /\ pinned = {}

\* A holder comes to hold an object, which is pinned from this very step.
Acquire(h, o) ==
  /\ holds[h] = None
  /\ holds' = [holds EXCEPT ![h] = o]
  /\ pinned' = pinned \union {o}

\* What one holder held another holds now: it was never unpinned.
Move(h, k) ==
  /\ holds[h] # None /\ holds[k] = None
  /\ holds' = [holds EXCEPT ![h] = None, ![k] = holds[h]]
  /\ UNCHANGED pinned

\* A holder lets go, and the object is unpinned if it was the last.
Release(h) ==
  /\ holds[h] # None
  /\ holds' = [holds EXCEPT ![h] = None]
  /\ pinned' = IF \E k \in Holder \ {h} : holds[k] = holds[h]
               THEN pinned ELSE pinned \ {holds[h]}

Next == \E h \in Holder :
  \/ \E o \in Object : Acquire(h, o)
  \/ \E k \in Holder : Move(h, k)
  \/ Release(h)

Spec == Init /\ [][Next]_<<holds, pinned>>
=============================================================================
