---------------------------- MODULE JavaTracker -----------------------------
(***************************************************************************)
(* The Java side's reference table (Seq.RefTracker in bind/java/Seq.java): *)
(* the Java objects that have been passed to Go.  Every operator is what   *)
(* one synchronized method does to the tables once it has the monitor; the *)
(* module that composes them holds the monitor.                            *)
(***************************************************************************)
EXTENDS GoRefs

CONSTANTS Tracked,    \* Java objects the tracker numbers (all but Seq.Proxy)
          JavaMax     \* bound: the highest reference number handed out

VARIABLES jNext,      \* RefTracker.next
          javaRefs,   \* RefTracker.javaRefs: object -> reference number
          javaObjs    \* RefTracker.javaObjs: reference number -> Ref

javaVars == <<jNext, javaRefs, javaObjs>>

RefOffset == 42

ASSUME JavaMaxAssumption == JavaMax \in Int /\ JavaMax >= RefOffset

JavaTrackerInit ==
  /\ jNext = RefOffset
  /\ javaRefs = <<>>
  /\ javaObjs = <<>>

JavaNumbers == RefOffset .. JavaMax

JavaTrackerTypeOK ==
  /\ jNext \in RefOffset .. JavaMax + 1
  /\ DOMAIN javaRefs \subseteq Tracked
  /\ \A o \in DOMAIN javaRefs : javaRefs[o] \in JavaNumbers
  /\ DOMAIN javaObjs \subseteq JavaNumbers
  /\ \A n \in DOMAIN javaObjs :
       javaObjs[n] \in [obj : Tracked, refcnt : Nat \ {0}]

-----------------------------------------------------------------------------
\* The number inc returns for o.
JavaRefNumOf(o) == IF o \in DOMAIN javaRefs THEN javaRefs[o] ELSE jNext

\* inc has a number to give; at the end of the numbers it throws and
\* changes nothing.
CanTrack(o) == o \in DOMAIN javaRefs \/ jNext <= JavaMax

\* Faulty variant of TrackerInc: next is not advanced.
TrackerIncSameNext(o) ==
  LET n == JavaRefNumOf(o)
  IN  /\ javaRefs' = Put(javaRefs, o, n)
      /\ javaObjs' = Put(javaObjs, n,
                         IF n \in DOMAIN javaObjs
                         THEN [obj |-> javaObjs[n].obj,
                               refcnt |-> javaObjs[n].refcnt + 1]
                         ELSE [obj |-> o, refcnt |-> 1])
      /\ UNCHANGED jNext

\* RefTracker.inc for an object that is not a Proxy.
TrackerInc(o) ==
  LET n == JavaRefNumOf(o)
  IN  /\ jNext' = IF o \in DOMAIN javaRefs THEN jNext ELSE jNext + 1
      /\ javaRefs' = Put(javaRefs, o, n)
      /\ javaObjs' = Put(javaObjs, n,
                         IF n \in DOMAIN javaObjs
                         THEN [obj |-> javaObjs[n].obj,
                               refcnt |-> javaObjs[n].refcnt + 1]
                         ELSE [obj |-> o, refcnt |-> 1])

\* RefTracker.incRefnum: Go sends back a reference it holds.
IncRefnum(n) ==
  /\ n \in DOMAIN javaObjs
  /\ javaObjs' = [javaObjs EXCEPT ![n].refcnt = @ + 1]
  /\ UNCHANGED <<jNext, javaRefs>>

\* Faulty variant of Dec: the last reference but one already unpins.
DecEager(n) ==
  /\ n \in DOMAIN javaObjs
  /\ IF javaObjs[n].refcnt - 1 <= 1
     THEN /\ javaObjs' = Without(javaObjs, n)
          /\ javaRefs' = Without(javaRefs, javaObjs[n].obj)
     ELSE /\ javaObjs' = [javaObjs EXCEPT ![n].refcnt = @ - 1]
          /\ UNCHANGED javaRefs
  /\ UNCHANGED jNext

\* RefTracker.dec: one reference of Go's less; the last one unpins the object.
Dec(n) ==
  /\ IF n = NullRefNum
     THEN UNCHANGED <<javaRefs, javaObjs>>
     ELSE /\ n \in DOMAIN javaObjs
          /\ IF javaObjs[n].refcnt - 1 <= 0
             THEN /\ javaObjs' = Without(javaObjs, n)
                  /\ javaRefs' = Without(javaRefs, javaObjs[n].obj)
             ELSE /\ javaObjs' = [javaObjs EXCEPT ![n].refcnt = @ - 1]
                  /\ UNCHANGED javaRefs
  /\ UNCHANGED jNext
=============================================================================
