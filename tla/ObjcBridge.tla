----------------------------- MODULE ObjcBridge -----------------------------
(***************************************************************************)
(* Objects crossing between Go and Objective-C: the reference tables of    *)
(* both sides, the values in flight, automatic reference counting with its *)
(* deallocations inside other calls, and Go's finalizer goroutine          *)
(* (bind/seq, seq_darwin.m.support, and what genobjc.go and genobjcw.go    *)
(* emit around them).  Threads, holders and slots are those of SeqBridge;  *)
(* a box is an Objective-C object with a GoSeqRef of its own in _ref: the  *)
(* proxy of a Go object, or an instance of a class written in Go.          *)
(***************************************************************************)
EXTENDS ObjcTracker, FiniteSets

CONSTANTS Threads,    \* each carries one value at a time
          Plain,      \* objects written in Objective-C, by address
          Boxes,      \* slots for objects with a GoSeqRef
          Refs,       \* slots for Go Refs of Objective-C objects
          None,       \* no object
          Free        \* nobody is inside the tracker

Holder == Threads \union Boxes \union Refs
Slot == Boxes \union Refs

VARIABLES owned,      \* the objects the Objective-C program has strong references to
          lock,       \* the box deallocated inside the tracker's dec, or Free
          num,        \* Holder -> the reference number it holds, or 0
          means,      \* Holder -> the object that number was made for
          state,      \* Slot -> "free", "reserved", "live", "queued" or "dying"
          pc,         \* Thread -> what it does next
          arg,        \* Thread -> the slot its next step works on
          got         \* Thread -> the object its lookup returned

vars == <<goVars, objcVars, owned, lock, num, means, state, pc, arg, got>>

\* An object that may be passed to Go is one of Plain or has a GoSeqRef; nothing is two things.
SlotsAssumption1 == Tracked = Plain \union Boxes
SlotsAssumption2 == /\ Threads \intersect Slot = {} /\ Refs \intersect Boxes = {}
                    /\ Plain \intersect Boxes = {}
SlotsAssumption3 == None \notin Holder \union GoObjs \union Plain
ASSUME SlotsAssumption == SlotsAssumption1 /\ SlotsAssumption2 /\ SlotsAssumption3
ASSUME FreeAssumption == Free \notin Boxes
ASSUME FiniteAssumption == IsFiniteSet(Holder)

TypeOK ==
  /\ GoRefsTypeOK /\ ObjcTrackerTypeOK
  /\ owned \subseteq Tracked
  /\ lock \in Boxes \union {Free}
  /\ num \in [Holder -> GoNumbers \union ObjcNumbers \union {0}]
  /\ means \in [Holder -> GoObjs \union Tracked \union {None}]
  /\ state \in [Slot -> {"free", "reserved", "live", "queued", "dying"}]
  /\ pc \in [Threads -> {"idle", "incGo", "goRead", "goDelete", "incObjc", "objcRead", "objcDec"}]
  /\ arg \in [Threads -> Slot \union {None}]
  /\ got \in [Threads -> GoObjs \union Tracked \union {None}]

Init ==
  /\ GoRefsInit /\ ObjcTrackerInit
  /\ owned = {} /\ lock = Free
  /\ num = [h \in Holder |-> 0] /\ means = [h \in Holder |-> None]
  /\ state = [s \in Slot |-> "free"]
  /\ pc = [t \in Threads |-> "idle"]
  /\ arg = [t \in Threads |-> None] /\ got = [t \in Threads |-> None]

Goto(t, p) == pc' = [pc EXCEPT ![t] = p]
Hold(h, n, o) == num' = [num EXCEPT ![h] = n] /\ means' = [means EXCEPT ![h] = o]
LetGo(h) == Hold(h, 0, None)
HandOver(h, k) ==
  /\ num' = [num EXCEPT ![h] = 0, ![k] = num[h]]
  /\ means' = [means EXCEPT ![h] = None, ![k] = means[h]]
SetState(s, v) == state' = [state EXCEPT ![s] = v]

\* Strong references: the program's, RefCounter's, and a parameter or local of a call.
InTracker(o) == \E n \in DOMAIN oObjs : oObjs[n].obj = o
InFrame(o) == \E t \in Threads : (pc[t] = "incGo" /\ arg[t] = o) \/ got[t] = o
Strong(o) == o \in owned \/ InTracker(o) \/ InFrame(o)
\* ARC: the box that loses its last strong reference in this step starts its dealloc.
Arc == state' = [s \in Slot |-> IF s \in Boxes /\ state[s] = "live" /\ ~Strong(s)' THEN "dying" ELSE state[s]]

-----------------------------------------------------------------------------
(* Objective-C to Go. *)

\* go_seq_to_refnum: an object without a GoSeqRef, the receiver of a class written in Go, or
\* whatever a wrapped Objective-C method returns.
SendTracked(t, o, r) ==
  /\ pc[t] = "idle" /\ lock = Free
  /\ o \in owned /\ CanAssign(o) /\ state[r] = "free"
  /\ Assign(o)
  /\ Hold(t, ObjcNumOf(o), o)
  /\ SetState(r, "reserved")
  /\ arg' = [arg EXCEPT ![t] = r]
  /\ Goto(t, "goRead")
  /\ UNCHANGED <<goVars, owned, lock, got>>

\* go_seq_go_to_refnum on the _ref of a receiver or of an argument: incNum is about to call IncGoRef.
SendBox(t, b) ==
  /\ pc[t] = "idle" /\ b \in owned
  /\ arg' = [arg EXCEPT ![t] = b]
  /\ Goto(t, "incGo")
  /\ UNCHANGED <<goVars, objcVars, owned, lock, num, means, state, got>>

IncGo(t) ==
  /\ pc[t] = "incGo"
  /\ Inc(num[arg[t]])
  /\ Hold(t, num[arg[t]], means[arg[t]])
  /\ arg' = [arg EXCEPT ![t] = None]
  /\ Goto(t, "goRead")
  /\ UNCHANGED <<objcVars, owned, lock, got>>
  /\ Arc

\* The generated read of a Go object: the lookup of Ref.Get, and its Delete.
GoLookup(t) ==
  /\ pc[t] = "goRead" /\ num[t] < 0
  /\ num[t] \in DOMAIN goObjs
  /\ Goto(t, "goDelete")
  /\ UNCHANGED <<goVars, objcVars, owned, lock, num, means, state, arg, got>>

GoDelete(t) ==
  /\ pc[t] = "goDelete"
  /\ Delete(num[t])
  /\ LetGo(t)
  /\ Goto(t, "idle")
  /\ UNCHANGED <<objcVars, owned, lock, state, arg, got>>

\* The generated read of an Objective-C object: FromRefNum makes a Ref with a finalizer.
GoWrap(t) ==
  /\ pc[t] = "goRead" /\ num[t] > 0
  /\ HandOver(t, arg[t])
  /\ SetState(arg[t], "live")
  /\ arg' = [arg EXCEPT ![t] = None]
  /\ Goto(t, "idle")
  /\ UNCHANGED <<goVars, objcVars, owned, lock, got>>

-----------------------------------------------------------------------------
(* Go to Objective-C. *)

SendGo(t, x, b) ==
  /\ pc[t] = "idle" /\ CanNumber(x) /\ state[b] = "free"
  /\ ToRefNum(x)
  /\ Hold(t, RefNumOf(x), x)
  /\ SetState(b, "reserved")
  /\ arg' = [arg EXCEPT ![t] = b]
  /\ Goto(t, "objcRead")
  /\ UNCHANGED <<objcVars, owned, lock, got>>

\* go_seq_from_refnum of a Go object: a new GoSeqRef in a new proxy; a failed initializer keeps
\* the GoSeqRef before it returns nil.
NewBox(t) ==
  /\ pc[t] = "objcRead" /\ num[t] < 0
  /\ HandOver(t, arg[t])
  /\ SetState(arg[t], "live")
  /\ owned' = owned \union {arg[t]}
  /\ arg' = [arg EXCEPT ![t] = None]
  /\ Goto(t, "idle")
  /\ UNCHANGED <<goVars, objcVars, lock, got>>

\* ToRefNum on a Go proxy: Bind_IncNum has read the number; then IncForeignRef, r kept alive.
SendRef(t, r) ==
  /\ pc[t] = "idle" /\ state[r] = "live"
  /\ arg' = [arg EXCEPT ![t] = r]
  /\ Goto(t, "incObjc")
  /\ UNCHANGED <<goVars, objcVars, owned, lock, num, means, state, got>>

\* Faulty variant of IncObjc: the number is sent without being counted.
IncObjcUncounted(t) ==
  /\ pc[t] = "incObjc" /\ lock = Free
  /\ Hold(t, num[arg[t]], means[arg[t]])
  /\ arg' = [arg EXCEPT ![t] = None]
  /\ Goto(t, "objcRead")
  /\ UNCHANGED <<goVars, objcVars, owned, lock, state, got>>

IncObjc(t) ==
  /\ pc[t] = "incObjc" /\ lock = Free
  /\ IncObjcRef(num[arg[t]])
  /\ Hold(t, num[arg[t]], means[arg[t]])
  /\ arg' = [arg EXCEPT ![t] = None]
  /\ Goto(t, "objcRead")
  /\ UNCHANGED <<goVars, owned, lock, state, got>>

\* go_seq_objc_from_refnum: get, and in a section of its own dec.
ObjcGet(t) ==
  /\ pc[t] = "objcRead" /\ num[t] > 0 /\ lock = Free
  /\ num[t] \in DOMAIN oObjs
  /\ got' = [got EXCEPT ![t] = oObjs[num[t]].obj]
  /\ Goto(t, "objcDec")
  /\ UNCHANGED <<goVars, objcVars, owned, lock, num, means, state, arg>>

ObjcDec(t) ==
  /\ pc[t] = "objcDec" /\ lock = Free
  /\ DecObjcRef(num[t])
  /\ LetGo(t)
  /\ owned' = owned \union {got[t]}
  /\ got' = [got EXCEPT ![t] = None]
  /\ Goto(t, "idle")
  /\ UNCHANGED <<goVars, lock, state, arg>>

-----------------------------------------------------------------------------
(* Reference counting on the one side, the collector on the other. *)

\* The program makes an object, perhaps where a deallocated one was, and drops the last reference.
NewPlain(o) ==
  /\ ~Strong(o)
  /\ owned' = owned \union {o}
  /\ UNCHANGED <<goVars, objcVars, lock, num, means, state, pc, arg, got>>
Release(o) ==
  /\ o \in owned
  /\ owned' = owned \ {o}
  /\ UNCHANGED <<goVars, objcVars, lock, num, means, pc, arg, got>>
  /\ Arc
\* GoSeqRef's dealloc: DestroyRef, which is seq.Delete.
Dealloc(b) ==
  /\ state[b] = "dying"
  /\ Delete(num[b])
  /\ LetGo(b)
  /\ SetState(b, "free")
  /\ lock' = IF lock = b THEN Free ELSE lock
  /\ UNCHANGED <<objcVars, owned, pc, arg, got>>

CollectRef(r) ==
  /\ state[r] = "live"
  /\ \A t \in Threads : ~(pc[t] = "incObjc" /\ arg[t] = r)
  /\ SetState(r, "queued")
  /\ UNCHANGED <<goVars, objcVars, owned, lock, num, means, pc, arg, got>>
\* FinalizeRef: go_seq_dec_ref.  The object may die in it, and the compiler may release the
\* RefCounter inside the @synchronized section or after it.
FinalizeRef(r) ==
  /\ state[r] = "queued" /\ lock = Free
  /\ DecObjcRef(num[r])
  /\ LetGo(r)
  /\ UNCHANGED <<goVars, owned, pc, arg, got>>
  /\ \E o \in {oObjs[num[r]].obj} :
       LET dies == o \in Boxes /\ ~Strong(o)'
       IN  /\ state' = [s \in Slot |-> IF s = r THEN "free" ELSE IF dies /\ s = o THEN "dying" ELSE state[s]]
           /\ lock' \in IF dies THEN {o, Free} ELSE {Free}

-----------------------------------------------------------------------------
Start(t) ==
  \/ \E o \in Tracked, r \in Refs : SendTracked(t, o, r)
  \/ \E b \in Boxes : SendBox(t, b)
  \/ \E x \in GoObjs, b \in Boxes : SendGo(t, x, b)
  \/ \E r \in Refs : SendRef(t, r)
Continue(t) ==
  IncGo(t) \/ GoLookup(t) \/ GoDelete(t) \/ GoWrap(t) \/ NewBox(t) \/ IncObjc(t) \/ ObjcGet(t) \/ ObjcDec(t)
Memory ==
  \/ \E o \in Plain : NewPlain(o)
  \/ \E o \in Tracked : Release(o)
  \/ \E b \in Boxes : Dealloc(b)
  \/ \E r \in Refs : CollectRef(r) \/ FinalizeRef(r)

Next == (\E t \in Threads : Start(t) \/ Continue(t)) \/ Memory
Spec == Init /\ [][Next]_vars

-----------------------------------------------------------------------------
Holders(n) == {h \in Holder : num[h] = n}

\* Every count is the number of those who hold the number, on both sides.
CountsExact ==
  /\ \A n \in GoNumbers :
       IF n \in DOMAIN goObjs THEN goObjs[n].cnt = Cardinality(Holders(n)) ELSE Holders(n) = {}
  /\ \A n \in ObjcNumbers :
       IF n \in DOMAIN oObjs THEN oObjs[n].cnt = Cardinality(Holders(n)) ELSE Holders(n) = {}

\* A number still stands for the object it was made for, though the tracker knows objects by an
\* address that is used again, and a lookup between whose two sections others ran returned that.
SameObject ==
  /\ \A h \in Holder :
       /\ num[h] < 0 => num[h] \in DOMAIN goObjs /\ goObjs[num[h]].obj = means[h]
       /\ num[h] > 0 => num[h] \in DOMAIN oObjs /\ oObjs[num[h]].obj = means[h]
  /\ \A o \in DOMAIN oRefs : oRefs[o] \in DOMAIN oObjs /\ oObjs[oRefs[o]].obj = o /\ Strong(o)
  /\ \A t \in Threads : got[t] # None => got[t] = means[t]

\* No step is about to meet a number its table does not know, nor a box that is gone: LOG_FATAL and
\* the panics of Go are never reached, also while an object is deallocated inside the tracker.
NoFatal ==
  /\ \A t \in Threads :
       /\ pc[t] = "incGo" => num[arg[t]] \in DOMAIN goObjs /\ state[arg[t]] = "live"
       /\ pc[t] = "incObjc" => num[arg[t]] \in DOMAIN oObjs
       /\ pc[t] \in {"goRead", "goDelete", "objcRead", "objcDec"} => num[t] \in DOMAIN goObjs \union DOMAIN oObjs
  /\ \A s \in Slot : state[s] \in {"queued", "dying"} => num[s] \in DOMAIN goObjs \union DOMAIN oObjs
  /\ \A b \in Boxes : Strong(b) => state[b] = "live"
  /\ lock # Free => state[lock] = "dying"

\* Both tables count and resolve as they should, and nobody is about to run into LOG_FATAL.
TablesOK == CountsExact /\ SameObject /\ NoFatal

-----------------------------------------------------------------------------
Held == [h \in Holder |-> IF num[h] # 0 THEN means[h] ELSE None]
Pinned == {goObjs[n].obj : n \in DOMAIN goObjs} \union {oObjs[n].obj : n \in DOMAIN oObjs}
Abstract == INSTANCE Ownership WITH Object <- GoObjs \union Tracked, holds <- Held, pinned <- Pinned

\* The Objective-C bridge implements the specification the Java one implements: an object is
\* pinned from the step that hands out a reference to it to the step that gives up the last.
PinsWhileHeld == Abstract!Spec
=============================================================================
