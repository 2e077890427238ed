---------------------------- MODULE ObjcTracker -----------------------------
(***************************************************************************)
(* The Objective-C side's reference table (RefTracker in                   *)
(* bind/objc/seq_darwin.m.support): the Objective-C objects that have been *)
(* passed to Go.  Every operator is what one @synchronized section does.   *)
(***************************************************************************)
EXTENDS GoRefs

CONSTANTS Tracked,    \* objects that may be passed to Go
          ObjcMax     \* bound: the highest reference number handed out

VARIABLES oNext,      \* _next
          oRefs,      \* _refs: address of an object -> reference number
          oObjs       \* _objs: reference number -> RefCounter

objcVars == <<oNext, oRefs, oObjs>>
ObjcFirst == 42
ASSUME ObjcMaxAssumption == ObjcMax \in Int /\ ObjcMax >= ObjcFirst
ObjcNumbers == ObjcFirst .. ObjcMax

ObjcTrackerInit == oNext = ObjcFirst /\ oRefs = <<>> /\ oObjs = <<>>

ObjcTrackerTypeOK ==
  /\ oNext \in ObjcFirst .. ObjcMax + 1
  /\ DOMAIN oRefs \subseteq Tracked
  /\ \A o \in DOMAIN oRefs : oRefs[o] \in ObjcNumbers
  /\ DOMAIN oObjs \subseteq ObjcNumbers
  /\ \A n \in DOMAIN oObjs : oObjs[n] \in [obj : Tracked, cnt : Nat \ {0}]

\* The number assignRefnumAndIncRefcount returns for o.  The code has no check
\* at the end of the numbers.
ObjcNumOf(o) == IF o \in DOMAIN oRefs THEN oRefs[o] ELSE oNext
CanAssign(o) == ObjcNumOf(o) <= ObjcMax

Counted(o) ==
  LET n == ObjcNumOf(o)
  IN  IF n \in DOMAIN oObjs THEN [oObjs[n] EXCEPT !.cnt = @ + 1] ELSE [obj |-> o, cnt |-> 1]

\* Faulty variant of Assign: a number that is known is not counted again.
AssignOnce(o) ==
  /\ oNext' = IF o \in DOMAIN oRefs THEN oNext ELSE oNext + 1
  /\ oRefs' = Put(oRefs, o, ObjcNumOf(o))
  /\ oObjs' = IF ObjcNumOf(o) \in DOMAIN oObjs THEN oObjs ELSE Put(oObjs, ObjcNumOf(o), Counted(o))

\* assignRefnumAndIncRefcount: an Objective-C object is sent to Go.
Assign(o) ==
  /\ oNext' = IF o \in DOMAIN oRefs THEN oNext ELSE oNext + 1
  /\ oRefs' = Put(oRefs, o, ObjcNumOf(o))
  /\ oObjs' = Put(oObjs, ObjcNumOf(o), Counted(o))

\* inc: Go sends back a reference it holds.
IncObjcRef(n) ==
  /\ n \in DOMAIN oObjs
  /\ oObjs' = [oObjs EXCEPT ![n].cnt = @ + 1]
  /\ UNCHANGED <<oNext, oRefs>>

\* Faulty variants of DecObjcRef: the comparison off by one either way.
DecToZero(n) ==
  /\ n \in DOMAIN oObjs
  /\ oObjs' = IF oObjs[n].cnt = 0 THEN Without(oObjs, n) ELSE [oObjs EXCEPT ![n].cnt = @ - 1]
  /\ UNCHANGED <<oNext, oRefs>>
DecEagerly(n) ==
  /\ n \in DOMAIN oObjs
  /\ oObjs' = IF oObjs[n].cnt <= 2 THEN Without(oObjs, n) ELSE [oObjs EXCEPT ![n].cnt = @ - 1]
  /\ oRefs' = IF oObjs[n].cnt <= 2 THEN Without(oRefs, oObjs[n].obj) ELSE oRefs
  /\ UNCHANGED oNext

\* dec: one reference of Go's less; the last one unpins the object.
DecObjcRef(n) ==
  /\ n \in DOMAIN oObjs
  /\ oObjs' = IF oObjs[n].cnt = 1 THEN Without(oObjs, n) ELSE [oObjs EXCEPT ![n].cnt = @ - 1]
  /\ oRefs' = IF oObjs[n].cnt = 1 THEN Without(oRefs, oObjs[n].obj) ELSE oRefs
  /\ UNCHANGED oNext
=============================================================================
