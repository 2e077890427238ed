------------------------------- MODULE IntMap -------------------------------
(***************************************************************************)
(* A map from numbers to objects: what RefTracker takes RefMap for, and    *)
(* what the comment on RefMap says it would be in Go, a map[int]*Ref.      *)
(***************************************************************************)
CONSTANTS Keys, Objs

VARIABLE map

Init == map = <<>>

\* A binding is made, or is there already; it is never replaced by another.
Put(k, o) ==
  /\ k \in DOMAIN map => map[k] = o
  /\ map' = [i \in DOMAIN map \union {k} |-> IF i = k THEN o ELSE map[i]]

Remove(k) == map' = [i \in DOMAIN map \ {k} |-> map[i]]

Next == \E k \in Keys : Remove(k) \/ \E o \in Objs : Put(k, o)

Spec == Init /\ [][Next]_map
=============================================================================
