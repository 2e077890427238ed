----------------------------- MODULE SeqBridge ------------------------------
(***************************************************************************)
(* Objects crossing between Go and Java: the reference tables of both      *)
(* sides, the values in flight between them, the two garbage collectors,   *)
(* the Go finalizer and Java's GoRefQueue thread (bind/seq, Seq.java,      *)
(* seq_android.c.support, and the calls the generators emit around them).  *)
(*                                                                         *)
(* A value on its way is carried by a thread; a call with several object   *)
(* arguments is several threads here, in any order.  A Java proxy of a Go  *)
(* object and a Go Ref of a Java object are slots that are reused.  What   *)
(* holds a counted reference, whether a thread, a proxy or a Ref, is a     *)
(* Holder, and num[h] is the reference number it holds (0: none).          *)
(***************************************************************************)
EXTENDS JavaTracker, FiniteSets

CONSTANTS Threads,    \* each carries one value at a time
          Plain,      \* Java objects written in Java
          Proxies,    \* slots for Java proxies of Go objects (Seq.Proxy)
          Classes,    \* slots for Java classes written in Go (GoObject, no Proxy)
          Refs,       \* slots for Go Refs of Java objects
          None,       \* no object
          Free        \* nobody holds RefTracker's monitor

GoObject == Proxies \union Classes
Holder == Threads \union GoObject \union Refs
Slot == GoObject \union Refs

VARIABLES monitor,    \* the thread inside RefTracker.inc, or Free
          num,        \* Holder -> the reference number it holds, or 0
          means,      \* Holder -> the object that number was made for
          state,      \* Slot -> where the slot is in its life
          alive,      \* the Plain objects the Java heap has
          taken,      \* the GoRef the GoRefQueue thread has removed, or None
          pc,         \* Thread -> what it does next
          arg,        \* Thread -> the slot its next step works on
          got,        \* Thread -> the object its lookup returned
          unwraps     \* Thread -> it is inside go_seq_unwrap

threadVars == <<pc, arg, got, unwraps>>
vars == <<goVars, javaVars, monitor, num, means, state, alive, taken, threadVars>>

SlotsAssumption1 == Tracked = Plain \union Classes
SlotsAssumption2 == /\ Threads \intersect Slot = {}
                    /\ Refs \intersect GoObject = {}
                    /\ Proxies \intersect Classes = {}
                    /\ Plain \intersect GoObject = {}
SlotsAssumption3 == None \notin Holder \union GoObjs \union Plain
ASSUME SlotsAssumption ==
  SlotsAssumption1 /\ SlotsAssumption2 /\ SlotsAssumption3
ASSUME FreeAssumption == Free \notin Threads
ASSUME FiniteAssumption == IsFiniteSet(Holder)

PCs == {"idle", "incGo", "goRead", "goDelete", "incJava", "javaRead", "javaDec"}
States == {"free", "reserved", "live", "queued", "abandoned"}

TypeOK ==
  /\ GoRefsTypeOK
  /\ JavaTrackerTypeOK
  /\ monitor \in Threads \union {Free}
  /\ num \in [Holder -> GoNumbers \union JavaNumbers \union {0}]
  /\ means \in [Holder -> GoObjs \union Tracked \union {None}]
  /\ state \in [Slot -> States]
  /\ alive \subseteq Plain
  /\ taken \in GoObject \union {None}
  /\ pc \in [Threads -> PCs]
  /\ arg \in [Threads -> Slot \union {None}]
  /\ got \in [Threads -> GoObjs \union Tracked \union {None}]
  /\ unwraps \in [Threads -> BOOLEAN]

Init ==
  /\ GoRefsInit
  /\ JavaTrackerInit
  /\ monitor = Free
  /\ num = [h \in Holder |-> 0]
  /\ means = [h \in Holder |-> None]
  /\ state = [s \in Slot |-> "free"]
  /\ alive = {}
  /\ taken = None
  /\ pc = [t \in Threads |-> "idle"]
  /\ arg = [t \in Threads |-> None]
  /\ got = [t \in Threads |-> None]
  /\ unwraps = [t \in Threads |-> FALSE]

\* Thread t goes to the program point p.
Goto(t, p) == pc' = [pc EXCEPT ![t] = p]

\* Holder h comes to hold the reference number n, made for the object o.
Hold(h, n, o) ==
  /\ num' = [num EXCEPT ![h] = n]
  /\ means' = [means EXCEPT ![h] = o]

\* Holder h gives up what it holds; holder k takes over what h holds.
LetGo(h) == Hold(h, 0, None)
HandOver(h, k) ==
  /\ num' = [num EXCEPT ![h] = 0, ![k] = num[h]]
  /\ means' = [means EXCEPT ![h] = None, ![k] = means[h]]

SetState(s, v) == state' = [state EXCEPT ![s] = v]

\* The object is one the Java program can name.
Reachable(o) == IF o \in Plain THEN o \in alive ELSE state[o] = "live"

-----------------------------------------------------------------------------
(* Java to Go. *)

\* go_seq_to_refnum on an object that is not a Proxy: counted under the
\* monitor.  The Ref slot Go will use is set aside now.
SendTracked(t, o, r) ==
  /\ pc[t] = "idle" /\ monitor = Free
  /\ Reachable(o) /\ CanTrack(o)
  /\ state[r] = "free"
  /\ TrackerInc(o)
  /\ Hold(t, JavaRefNumOf(o), o)
  /\ SetState(r, "reserved")
  /\ arg' = [arg EXCEPT ![t] = r]
  /\ Goto(t, "goRead")
  /\ UNCHANGED <<goVars, monitor, alive, taken, got, unwraps>>

\* go_seq_to_refnum on a Proxy: RefTracker.inc calls incRefnum on it with the
\* monitor held.
SendProxy(t, p) ==
  /\ pc[t] = "idle" /\ monitor = Free
  /\ state[p] = "live"
  /\ monitor' = t
  /\ arg' = [arg EXCEPT ![t] = p]
  /\ Goto(t, "incGo")
  /\ UNCHANGED <<goVars, javaVars, num, means, state, alive, taken, got, unwraps>>

\* go_seq_to_refnum_go on the receiver of a call: the same without the monitor.
SendReceiver(t, g) ==
  /\ pc[t] = "idle"
  /\ state[g] = "live"
  /\ arg' = [arg EXCEPT ![t] = g]
  /\ Goto(t, "incGo")
  /\ UNCHANGED <<goVars, javaVars, monitor, num, means, state, alive, taken, got, unwraps>>

\* Faulty variant of IncGo: the monitor is not released.
IncGoKeepsMonitor(t) ==
  /\ pc[t] = "incGo"
  /\ Inc(num[arg[t]])
  /\ Hold(t, num[arg[t]], means[arg[t]])
  /\ arg' = [arg EXCEPT ![t] = None]
  /\ Goto(t, "goRead")
  /\ UNCHANGED <<javaVars, monitor, state, alive, taken, got, unwraps>>

\* incRefnum of the proxy: Seq.incGoRef, which is seq.Inc, with the proxy as
\* an argument so that it stays reachable; then the monitor is released.
IncGo(t) ==
  /\ pc[t] = "incGo"
  /\ Inc(num[arg[t]])
  /\ Hold(t, num[arg[t]], means[arg[t]])
  /\ monitor' = IF monitor = t THEN Free ELSE monitor
  /\ arg' = [arg EXCEPT ![t] = None]
  /\ Goto(t, "goRead")
  /\ UNCHANGED <<javaVars, state, alive, taken, got, unwraps>>

\* The generated read of a number below 0, a Go object: the lookup of Ref.Get.
GoLookup(t) ==
  /\ pc[t] = "goRead" /\ num[t] < 0
  /\ num[t] \in DOMAIN goObjs
  /\ got' = [got EXCEPT ![t] = goObjs[num[t]].obj]
  /\ Goto(t, "goDelete")
  /\ UNCHANGED <<goVars, javaVars, monitor, num, means, state, alive, taken, arg, unwraps>>

\* The rest of Ref.Get: Delete, and the object is the Go program's.
GoDelete(t) ==
  /\ pc[t] = "goDelete"
  /\ Delete(num[t])
  /\ LetGo(t)
  /\ got' = [got EXCEPT ![t] = None]
  /\ unwraps' = [unwraps EXCEPT ![t] = FALSE]
  /\ Goto(t, "idle")
  /\ UNCHANGED <<javaVars, monitor, state, alive, taken, arg>>

\* The generated read of a number above 0, a Java object: FromRefNum makes a
\* Ref with a finalizer, and the Ref has the count from now on.
GoWrap(t) ==
  /\ pc[t] = "goRead" /\ num[t] > 0
  /\ HandOver(t, arg[t])
  /\ SetState(arg[t], "live")
  /\ arg' = [arg EXCEPT ![t] = None]
  /\ Goto(t, "idle")
  /\ UNCHANGED <<goVars, javaVars, monitor, alive, taken, got, unwraps>>

-----------------------------------------------------------------------------
(* Go to Java. *)

\* The generated write of a Go object: ToRefNum.  The Java slot that will
\* stand for it is set aside now.
SendGo(t, x, g) ==
  /\ pc[t] = "idle"
  /\ CanNumber(x)
  /\ state[g] = "free"
  /\ ToRefNum(x)
  /\ Hold(t, RefNumOf(x), x)
  /\ SetState(g, "reserved")
  /\ arg' = [arg EXCEPT ![t] = g]
  /\ Goto(t, "javaRead")
  /\ UNCHANGED <<javaVars, monitor, alive, taken, got, unwraps>>

\* Faulty variant of NewProxy: the count is given up on arrival, as it rightly
\* is for an object of the receiving side.
NewProxyDecrements(t) ==
  /\ pc[t] = "javaRead" /\ num[t] < 0
  /\ Delete(num[t])
  /\ HandOver(t, arg[t])
  /\ SetState(arg[t], "live")
  /\ arg' = [arg EXCEPT ![t] = None]
  /\ Goto(t, "idle")
  /\ UNCHANGED <<javaVars, monitor, alive, taken, got, unwraps>>

\* go_seq_from_refnum of a number below 0: new Proxy(refnum), whose
\* constructor keeps the number and has it tracked.
NewProxy(t) ==
  /\ pc[t] = "javaRead" /\ num[t] < 0
  /\ HandOver(t, arg[t])
  /\ SetState(arg[t], "live")
  /\ arg' = [arg EXCEPT ![t] = None]
  /\ Goto(t, "idle")
  /\ UNCHANGED <<goVars, javaVars, monitor, alive, taken, got, unwraps>>

\* A constructor, new T(...), whose Go function returned an object and an
\* error: the exception is thrown before the constructor keeps the number or
\* has it tracked, and the object under construction is lost with the number.
FailConstructor(t) ==
  /\ pc[t] = "javaRead" /\ num[t] < 0
  /\ HandOver(t, arg[t])
  /\ SetState(arg[t], "abandoned")
  /\ arg' = [arg EXCEPT ![t] = None]
  /\ Goto(t, "idle")
  /\ UNCHANGED <<goVars, javaVars, monitor, alive, taken, got, unwraps>>

\* ToRefNum on a Go proxy r: Bind_IncNum has read the number and is about to
\* count it.  In Unwrap the class r stands for is one written in Go.
SendRef(t, r) ==
  /\ pc[t] = "idle"
  /\ state[r] = "live"
  /\ arg' = [arg EXCEPT ![t] = r]
  /\ \E u \in BOOLEAN :
       /\ u => means[r] \in Classes
       /\ unwraps' = [unwraps EXCEPT ![t] = u]
  /\ Goto(t, "incJava")
  /\ UNCHANGED <<goVars, javaVars, monitor, num, means, state, alive, taken, got>>

\* The rest of Bind_IncNum: IncForeignRef under the monitor; r is kept alive
\* until it returns.
IncJava(t) ==
  /\ pc[t] = "incJava" /\ monitor = Free
  /\ IncRefnum(num[arg[t]])
  /\ Hold(t, num[arg[t]], means[arg[t]])
  /\ arg' = [arg EXCEPT ![t] = None]
  /\ Goto(t, "javaRead")
  /\ UNCHANGED <<goVars, monitor, state, alive, taken, got, unwraps>>

\* go_seq_from_refnum of a number above 0, first call: Seq.getRef.
JavaGet(t) ==
  /\ pc[t] = "javaRead" /\ num[t] > 0 /\ monitor = Free
  /\ num[t] \in DOMAIN javaObjs
  /\ got' = [got EXCEPT ![t] = javaObjs[num[t]].obj]
  /\ Goto(t, "javaDec")
  /\ UNCHANGED <<goVars, javaVars, monitor, num, means, state, alive, taken, arg, unwraps>>

\* Second call: Seq.decRef; then the object is the Java program's, or
\* go_seq_unwrap sends it back as a receiver.
JavaDec(t) ==
  /\ pc[t] = "javaDec" /\ monitor = Free
  /\ Dec(num[t])
  /\ LetGo(t)
  /\ got' = [got EXCEPT ![t] = None]
  /\ arg' = [arg EXCEPT ![t] = IF unwraps[t] THEN got[t] ELSE None]
  /\ Goto(t, IF unwraps[t] THEN "incGo" ELSE "idle")
  /\ UNCHANGED <<goVars, monitor, state, alive, taken, unwraps>>

-----------------------------------------------------------------------------
(* The two collectors and what they set off. *)

\* A thread's own frame keeps the object reachable for Java's collector.
InFrame(o) ==
  \E t \in Threads : \/ pc[t] = "incGo" /\ arg[t] = o
                     \/ pc[t] = "javaDec" /\ got[t] = o

\* Faulty variant of InTracker: the tables hold their objects weakly.
InTrackerWeak(o) == FALSE

\* RefTracker's tables keep it reachable.
InTracker(o) == \/ o \in DOMAIN javaRefs
                \/ \E n \in DOMAIN javaObjs : javaObjs[n].obj = o

\* The Java program makes an object; it drops one, and Java collects it.
NewJava(o) ==
  /\ alive' = alive \union {o}
  /\ o \notin alive
  /\ UNCHANGED <<goVars, javaVars, monitor, num, means, state, taken, threadVars>>

CollectJava(o) ==
  /\ o \in alive /\ ~InFrame(o) /\ ~InTracker(o)
  /\ alive' = alive \ {o}
  /\ UNCHANGED <<goVars, javaVars, monitor, num, means, state, taken, threadVars>>

\* Java finds a proxy phantom reachable and enqueues its GoRef.
CollectProxy(g) ==
  /\ state[g] = "live" /\ ~InFrame(g) /\ ~InTracker(g)
  /\ SetState(g, "queued")
  /\ UNCHANGED <<goVars, javaVars, monitor, num, means, alive, taken, threadVars>>

\* The GoRefQueue thread removes a GoRef from the queue and from refs, ...
DaemonRemove(g) ==
  /\ taken = None /\ state[g] = "queued"
  /\ taken' = g
  /\ UNCHANGED <<goVars, javaVars, monitor, num, means, state, alive, threadVars>>

\* Faulty variant of DaemonDestroy: the thread ends after its first GoRef.
DaemonDestroyOnce ==
  /\ taken # None /\ num[taken] # 0
  /\ Delete(num[taken])
  /\ LetGo(taken)
  /\ SetState(taken, "free")
  /\ UNCHANGED <<javaVars, monitor, alive, taken, threadVars>>

\* ... calls destroyRef, which is seq.Delete, and forgets it.
DaemonDestroy ==
  /\ taken # None
  /\ Delete(num[taken])
  /\ LetGo(taken)
  /\ SetState(taken, "free")
  /\ taken' = None
  /\ UNCHANGED <<javaVars, monitor, alive, threadVars>>

\* Go finds a Ref unreachable and queues its finalizer.
CollectRef(r) ==
  /\ state[r] = "live"
  /\ \A t \in Threads : ~(pc[t] = "incJava" /\ arg[t] = r)
  /\ SetState(r, "queued")
  /\ UNCHANGED <<goVars, javaVars, monitor, num, means, alive, taken, threadVars>>

\* FinalizeRef on the finalizer goroutine: go_seq_dec_ref under the monitor.
FinalizeRef(r) ==
  /\ state[r] = "queued" /\ monitor = Free
  /\ Dec(num[r])
  /\ LetGo(r)
  /\ SetState(r, "free")
  /\ UNCHANGED <<goVars, monitor, alive, taken, threadVars>>

-----------------------------------------------------------------------------
\* A thread begins to send a value.
Start(t) ==
  \/ \E o \in Tracked, r \in Refs : SendTracked(t, o, r)
  \/ \E p \in Proxies : SendProxy(t, p)
  \/ \E g \in GoObject : SendReceiver(t, g)
  \/ \E x \in GoObjs, g \in GoObject : SendGo(t, x, g)
  \/ \E r \in Refs : SendRef(t, r)

\* A thread goes on with the value it is sending.
Continue(t) ==
  \/ IncGo(t)
  \/ GoLookup(t)
  \/ GoDelete(t)
  \/ GoWrap(t)
  \/ NewProxy(t)
  \/ FailConstructor(t)
  \/ IncJava(t)
  \/ JavaGet(t)
  \/ JavaDec(t)

Collect ==
  \/ \E o \in Plain : NewJava(o) \/ CollectJava(o)
  \/ \E g \in GoObject : CollectProxy(g)
  \/ \E r \in Refs : CollectRef(r)

Daemon == DaemonDestroy \/ \E g \in GoObject : DaemonRemove(g)

Finalizer == \E r \in Refs : FinalizeRef(r)

Next == (\E t \in Threads : Start(t) \/ Continue(t)) \/ Collect \/ Daemon \/ Finalizer

Spec == Init /\ [][Next]_vars

-----------------------------------------------------------------------------
(* What the two tables promise. *)

\* Who holds a counted reference under the number n.
Holders(n) == {h \in Holder : num[h] = n}

\* Every count of the Go table is accounted for: it is the number of Java
\* proxies not yet destroyed and of values in flight that hold the number, and
\* a number without holders is not in the table (ref.go: ToRefNum, Inc, Delete
\* against the places that call them).
GoCountExact ==
  \A n \in GoNumbers :
    IF n \in DOMAIN goObjs THEN goObjs[n].cnt = Cardinality(Holders(n))
                           ELSE Holders(n) = {}

\* The same of the Java table: Go Refs not yet finalized and values in flight
\* (Seq.java: RefTracker.inc, incRefnum, dec).
JavaCountExact ==
  \A n \in JavaNumbers :
    IF n \in DOMAIN javaObjs THEN javaObjs[n].refcnt = Cardinality(Holders(n))
                             ELSE Holders(n) = {}

\* The two maps of each table are inverse to one another: an object has one
\* number, a number one object, and numbers are not used again.
GoTableOK ==
  /\ \A x \in DOMAIN goRefs :
       goRefs[x] \in DOMAIN goObjs /\ goObjs[goRefs[x]].obj = x
  /\ \A n \in DOMAIN goObjs :
       /\ n > goNext
       /\ goObjs[n].obj \in DOMAIN goRefs /\ goRefs[goObjs[n].obj] = n

JavaTableOK ==
  /\ \A o \in DOMAIN javaRefs :
       javaRefs[o] \in DOMAIN javaObjs /\ javaObjs[javaRefs[o]].obj = o
  /\ \A n \in DOMAIN javaObjs :
       /\ n < jNext
       /\ javaObjs[n].obj \in DOMAIN javaRefs /\ javaRefs[javaObjs[n].obj] = n

TablesOK == GoTableOK /\ JavaTableOK

\* A number still stands for the object it was sent for, on either side and
\* however often it crossed, and what a lookup returned is that object.
SameObject ==
  /\ \A h \in Holder :
       /\ num[h] < 0 => /\ num[h] \in DOMAIN goObjs
                        /\ goObjs[num[h]].obj = means[h]
       /\ num[h] > 0 => /\ num[h] \in DOMAIN javaObjs
                        /\ javaObjs[num[h]].obj = means[h]
  /\ \A t \in Threads : got[t] # None => got[t] = means[t]

\* No step is about to meet a number its table does not know: the panics of
\* Ref.Get and Inc and the exceptions of RefTracker are never reached.
NoUnknownRef ==
  /\ \A t \in Threads :
       /\ pc[t] = "incGo" => num[arg[t]] \in DOMAIN goObjs
       /\ pc[t] = "incJava" => num[arg[t]] \in DOMAIN javaObjs
       /\ pc[t] \in {"goRead", "javaRead", "goDelete", "javaDec"} =>
            num[t] \in DOMAIN goObjs \union DOMAIN javaObjs
  /\ \A s \in Slot :
       state[s] = "queued" => num[s] \in DOMAIN goObjs \union DOMAIN javaObjs

\* A Java object Go holds a reference to has not been collected, and a Java
\* class written in Go has not even been enqueued.
HeldIsAlive == \A h \in Holder : num[h] > 0 => Reachable(means[h])

\* Whoever has RefTracker's monitor is about to do the step that releases it.
MonitorReleased ==
  \A t \in Threads :
    monitor = t => /\ pc[t] = "incGo" /\ arg[t] \in Proxies
                   /\ num[arg[t]] \in DOMAIN goObjs

\* Every reference in the Go table is in the hands of something that will give
\* it up: a value in flight, or a Java proxy whose collection is reported back
\* (cmd/anjb/doc.go, "Avoid reference cycles": when a proxy object becomes
\* unreachable, its finalizer reports this fact to the object's native side).
NothingAbandoned ==
  \A n \in DOMAIN goObjs :
    \E h \in Holders(n) : h \in Slot => state[h] # "abandoned"

-----------------------------------------------------------------------------
(* The abstract view: who holds which object, and what is pinned. *)

Held == [h \in Holder |-> IF num[h] # 0 THEN means[h] ELSE None]
Pinned == {goObjs[n].obj : n \in DOMAIN goObjs}
            \union {javaObjs[n].obj : n \in DOMAIN javaObjs}

Abstract == INSTANCE Ownership
              WITH Object <- GoObjs \union Tracked, holds <- Held, pinned <- Pinned

\* The tables pin an object from the step that hands out a reference to it up
\* to the step that gives up the last, whatever happens in between: SeqBridge
\* implements Ownership.
PinsWhileHeld == Abstract!Spec

-----------------------------------------------------------------------------
(* Progress.  Go's scheduler runs every goroutine and Java's every thread that *)
(* can go on; nothing makes a monitor fair.                                   *)

Fairness ==
  /\ \A t \in Threads : WF_vars(Continue(t))
  /\ WF_vars(Daemon)
  /\ WF_vars(Finalizer)

FairSpec == Spec /\ Fairness

\* RefTracker's monitor is taken, across a call into Go, again and again.
Contention == []<><<\E t \in Threads, p \in Proxies : SendProxy(t, p)>>_vars

\* A value that was sent arrives: no thread waits for ever for the monitor, for
\* a table entry or for the other side, unless others keep taking the monitor.
CrossingsEnd == (\A t \in Threads : []<>(pc[t] = "idle")) \/ Contention

\* The GoRefQueue thread works off its queue, and the finalizer goroutine its
\* own, unless the collectors keep filling them or others keep taking the
\* monitor.
QueuesDrain ==
  /\ \/ []<>(\A g \in GoObject : state[g] # "queued")
     \/ []<><<\E g \in GoObject : CollectProxy(g)>>_vars
  /\ \/ []<>(\A r \in Refs : state[r] # "queued")
     \/ []<><<\E r \in Refs : CollectRef(r)>>_vars
     \/ Contention
=============================================================================
