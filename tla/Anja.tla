-------------------------------- MODULE Anja --------------------------------
(***************************************************************************)
(* Invocations of anja bind one after the other, and of init and clean     *)
(* beside each other, over the files they share: the work directories, the *)
(* toolchain directory $GOPATH/pkg/anja, the source copies under ./build   *)
(* and the outputs.  Any tool may fail, and any invocation may be killed   *)
(* between two steps.                                                      *)
(***************************************************************************)
EXTENDS AnjaPlan, FiniteSets

CONSTANTS MaxRuns,  \* bound on the invocations
          Commands  \* the command lines given

ASSUME RunsAssumption == MaxRuns \in Nat
\* A directory lists a file once; anjb writes seq.go for whatever packages it is given
\* (cmd/anjb/gen.go:154), so that any two sets of generated files meet.
ASSUME CommandsAssumption ==
    \A c \in Commands :
        /\ c.spec \in Seq(Tokens) /\ c.desk \in Seq(Tokens) /\ c.natives \in BOOLEAN /\ c.desktop \in BOOLEAN
        /\ c.cmd \in {"bind", "init", "clean"} /\ c.n \in BOOLEAN /\ c.mods \in BOOLEAN /\ c.work \in BOOLEAN
        /\ c.files \in Seq(ToSet(c.files)) /\ \A i, j \in DOMAIN c.files : c.files[i] = c.files[j] => i = j
        /\ \A b \in Commands : ToSet(b.files) \cap ToSet(c.files) # {}

VARIABLES run,    \* [1 .. MaxRuns -> the state of an invocation]
          work,   \* the invocations whose work directory exists
          home,   \* the toolchain directory: [made, libs]
          anjb,   \* anjb can be found in the PATH
          build,  \* [directory under ./build -> [file -> the invocation that wrote it]]
          out     \* [output -> [by, whole, libs]]

vars == <<run, work, home, anjb, build, out>>
Runs == 1 .. MaxRuns
NoCommand == [cmd |-> "none"]
\* The last four are what the properties ask for: the directories whose copy met a file that was
\* there, whose copy stopped, whose removal stopped, and whether that of the work directory did.
Idle == [c |-> NoCommand, pc |-> "idle", step |-> 0, todo |-> {}, unit |-> <<>>, failed |-> FALSE,
         libs |-> {}, blocked |-> {}, spoilt |-> {}, unremoved |-> {}, kept |-> FALSE]
Ended == {"ok", "failed", "crashed"}
Active(r) == run[r].pc \notin Ended \cup {"idle"}
Current(r) == Plan(run[r].c)[run[r].step]
At(r, op) == run[r].pc = "steps" /\ Current(r).op = op
Drop(f, x) == [y \in DOMAIN f \ {x} |-> f[y]]
Put(f, x, v) == [y \in DOMAIN f \cup {x} |-> IF y = x THEN v ELSE f[y]]

\* The group waits for all of its members; any error ends the command after that.
Advance(rec) ==
    IF rec.todo # {} THEN rec
    ELSE IF rec.failed \/ rec.step = Len(Plan(rec.c)) THEN [rec EXCEPT !.pc = "exit"]
    ELSE [rec EXCEPT !.step = @ + 1, !.todo = Plan(rec.c)[rec.step + 1].of]
Member(rec, x, ok) == Advance([rec EXCEPT !.todo = @ \ {x}, !.unit = Drop(@, x), !.failed = @ \/ ~ok])
Fail(rec) == [rec EXCEPT !.pc = "exit", !.failed = TRUE]

Init == /\ run = [r \in Runs |-> Idle] /\ work = {} /\ home = [made |-> FALSE, libs |-> {}]
        /\ anjb \in BOOLEAN /\ build = <<>> /\ out = <<>>

\* Bound: a bind runs alone; of what init and clean change it reads only whether anjb is there.
Invoke(r, c) ==
    /\ run[r].pc = "idle" /\ \A q \in 1 .. r - 1 : run[q].pc # "idle"
    /\ \A q \in Runs : Active(q) => c.cmd # "bind" /\ run[q].c.cmd # "bind"
    /\ run' = [run EXCEPT ![r] = [@ EXCEPT !.c = c,
                 !.pc = IF c.cmd = "bind" /\ parseBuildTarget(c.spec) = <<>> THEN "failed" ELSE "start"]]
    /\ UNCHANGED <<work, home, anjb, build, out>>

\* buildEnvInit, or the MkdirTemp of a JVM bind; then the checks before any work.  A buildEnvInit
\* that fails once it has the directory removes it again, unless -work is given or it cannot.
MakeWork(r) ==
    /\ run[r].pc = "start" /\ run[r].c.cmd = "bind"
    /\ \/ run' = [run EXCEPT ![r].pc = "check"] /\ work' = IF run[r].c.n THEN work ELSE work \cup {r}
       \/ run' = [run EXCEPT ![r].pc = "failed"] /\ UNCHANGED work
       \/ /\ ~run[r].c.n /\ Kind(run[r].c.spec[1][1]) # "jvm"
          /\ run' = [run EXCEPT ![r] = [@ EXCEPT !.pc = "failed", !.kept = ~run[r].c.work]]
          /\ work' = work \cup {r}
    /\ UNCHANGED <<home, anjb, build, out>>
Check(r) ==
    /\ run[r].pc = "check"
    /\ \/ /\ anjb \/ run[r].c.n
          /\ run' = [run EXCEPT ![r] = Advance([@ EXCEPT !.pc = "steps"])]
       \/ run' = [run EXCEPT ![r] = Fail(@)]  \* flags, anjb, packages.Load, Xcode
    /\ UNCHANGED <<work, home, anjb, build, out>>
\* Deferred: the work directory goes, unless -work keeps it.  An error of removeAll is ignored.
KeptUnlessOk(r) == IF run[r].c.work \/ run[r].failed THEN work ELSE work \ {r}
Kept(r) == IF run[r].c.work THEN work ELSE work \ {r}
Exit(r) ==
    /\ run[r].pc = "exit"
    /\ \E kept \in {FALSE, ~run[r].c.work /\ r \in work} :
          /\ run' = [run EXCEPT ![r] = [@ EXCEPT !.pc = IF run[r].failed THEN "failed" ELSE "ok", !.kept = kept,
                                                  !.libs = {}, !.step = 0, !.failed = FALSE]]
          /\ work' = IF kept THEN work ELSE Kept(r)
    /\ UNCHANGED <<home, anjb, build, out>>

\* anjb for one platform.
Gen(r, g) ==
    /\ At(r, "gen") /\ g \in run[r].todo
    /\ \E ok \in BOOLEAN : run' = [run EXCEPT ![r] = Member(@, g, ok)]
    /\ UNCHANGED <<work, home, anjb, build, out>>
Reject(r, x) == /\ At(r, "reject") /\ x \in run[r].todo
                /\ run' = [run EXCEPT ![r] = Member(@, x, FALSE)]
                /\ UNCHANGED <<work, home, anjb, build, out>>

(********* One target: buildAndroidSO, buildDesktopSO, goAppleBind *********)
SetUnit(r, d, u) == run' = [run EXCEPT ![r].unit = Put(@, d, u)]
Unit(at, left, ok) == [at |-> at, left |-> left, ok |-> ok]
\* With -n too the directory is made, but for Apple, and removed.
Makes(c) == c.mods /\ ~(c.n /\ Kind(c.spec[1][1]) = "apple")
StartUnit(r, d) ==
    /\ At(r, "so") /\ d \in run[r].todo \ DOMAIN run[r].unit
    /\ LET c == run[r].c IN
       \/ /\ build' = IF Makes(c) /\ d \notin DOMAIN build THEN Put(build, d, <<>>) ELSE build
          /\ SetUnit(r, d, Unit("copy", IF c.mods /\ ~c.n THEN c.files ELSE <<>>, TRUE))
       \/ run' = [run EXCEPT ![r] = Member(@, d, FALSE)] /\ UNCHANGED build
    /\ UNCHANGED <<work, home, anjb, out>>
\* doCopyAll creates every file exclusively; an error, before or after that, leaves what is there.
NeverExists(d, f) == FALSE
Exists(d, f) == f \in DOMAIN build[d]
Spoil(rec, d) == Member([rec EXCEPT !.spoilt = @ \cup {d}], d, FALSE)
Block(rec, d) == Spoil([rec EXCEPT !.blocked = @ \cup {d}], d)
CopyFile(r, d) ==
    /\ At(r, "so") /\ d \in DOMAIN run[r].unit
    /\ LET u == run[r].unit[d]
           f == Head(u.left)
       IN /\ u.at = "copy" /\ u.left # <<>>
          /\ \/ /\ Exists(d, f)
                /\ run' = [run EXCEPT ![r] = Block(@, d)]
                /\ UNCHANGED build
             \/ /\ ~Exists(d, f)
                /\ build' = [build EXCEPT ![d] = Put(@, f, r)]
                /\ \/ SetUnit(r, d, [u EXCEPT !.left = Tail(@)])
                   \/ run' = [run EXCEPT ![r] = Spoil(@, d)]
             \/ run' = [run EXCEPT ![r] = Spoil(@, d)] /\ UNCHANGED build
    /\ UNCHANGED <<work, home, anjb, out>>
\* The removal of the copy is deferred before go build runs, whatever its result.
CleanupIfOk(ok) == ok
Cleanup(ok) == TRUE
GoBuild(r, d) ==
    /\ At(r, "so") /\ d \in DOMAIN run[r].unit
    /\ run[r].unit[d].at = "copy" /\ run[r].unit[d].left = <<>>
    /\ \E ok \in BOOLEAN :
          LET rec == [run[r] EXCEPT !.libs = IF ok /\ ~run[r].c.n THEN @ \cup {d} ELSE @]
          IN run' = [run EXCEPT ![r] = IF run[r].c.mods /\ Cleanup(ok)
                                       THEN [rec EXCEPT !.unit[d] = Unit("remove", <<>>, ok)]
                                       ELSE Member(rec, d, ok)]
    /\ UNCHANGED <<work, home, anjb, build, out>>
\* os.RemoveAll, entry by entry; its error is ignored.
Strand(rec, d, ok) == Member([rec EXCEPT !.unremoved = @ \cup {d}], d, ok)
RemoveEntry(r, d) ==
    /\ At(r, "so") /\ d \in DOMAIN run[r].unit /\ run[r].unit[d].at = "remove"
    /\ \/ /\ d \in DOMAIN build /\ UNCHANGED run
          /\ \E f \in DOMAIN build[d] : build' = [build EXCEPT ![d] = Drop(@, f)]
       \/ /\ d \in DOMAIN build => DOMAIN build[d] = {}
          /\ build' = Drop(build, d) /\ run' = [run EXCEPT ![r] = Member(@, d, run[r].unit[d].ok)]
       \/ /\ d \in DOMAIN build /\ UNCHANGED build
          /\ run' = [run EXCEPT ![r] = Strand(@, d, run[r].unit[d].ok)]
    /\ UNCHANGED <<work, home, anjb, out>>

(****************************** The outputs ********************************)
\* The file is created, then written; the libraries are read from the work directory.
Create(r, o) ==
    /\ At(r, "pack") /\ o \in run[r].todo /\ o \notin DOMAIN run[r].unit
    /\ IF run[r].c.n THEN run' = [run EXCEPT ![r] = Member(@, o, TRUE)] /\ UNCHANGED out
       ELSE \/ /\ out' = Put(out, o, [by |-> r, whole |-> FALSE, libs |-> {}])
               /\ SetUnit(r, o, Unit("write", <<>>, TRUE))
            \/ run' = [run EXCEPT ![r] = Member(@, o, FALSE)] /\ UNCHANGED out
    /\ UNCHANGED <<work, home, anjb, build>>
WrittenIgnored(rec, o) == Member(rec, o, TRUE)
Written(rec, o) == Member(rec, o, FALSE)
Write(r, o) ==
    /\ At(r, "pack") /\ o \in DOMAIN run[r].unit
    /\ \/ /\ Current(r).libs \subseteq run[r].libs
          /\ out' = [out EXCEPT ![o] = [by |-> r, whole |-> TRUE, libs |-> Current(r).libs]]
          /\ run' = [run EXCEPT ![r] = Member(@, o, TRUE)]
       \/ run' = [run EXCEPT ![r] = Written(@, o)] /\ UNCHANGED out
    /\ UNCHANGED <<work, home, anjb, build>>
\* The earlier framework is removed before anything else; a removal that fails may leave part of it.
Remnant(r) == [by |-> r, whole |-> FALSE, libs |-> {}]
DropOutput(r, o) ==
    /\ At(r, "drop") /\ o \in run[r].todo
    /\ \/ out' = (IF run[r].c.n THEN out ELSE Drop(out, o)) /\ run' = [run EXCEPT ![r] = Member(@, o, TRUE)]
       \/ /\ ~run[r].c.n /\ run' = [run EXCEPT ![r] = Member(@, o, FALSE)]
          /\ UNCHANGED out \/ (o \in DOMAIN out /\ out' = Put(out, o, Remnant(r)))
    /\ UNCHANGED <<work, home, anjb, build>>

(***************************** init and clean ******************************)
\* removeAll takes the work directories of other invocations of init with it.  Where it fails it may
\* leave anything; init ignores its error, clean returns it.
NoHome == [made |-> FALSE, libs |-> {}]
Inits == {q \in Runs : run[q].c.cmd = "init"}
Reset(r) ==
    /\ run[r].pc = "start" /\ run[r].c.cmd \in {"init", "clean"}
    /\ \E ok \in BOOLEAN :
          /\ IF run[r].c.n THEN ok /\ UNCHANGED <<home, work>>
             ELSE IF ok THEN home' = NoHome /\ work' = work \ Inits
             ELSE \E libs \in SUBSET home.libs : \E dirs \in SUBSET (work \cap Inits) :
                     home.made /\ home' = [home EXCEPT !.libs = libs] /\ work' = work \ dirs
          /\ run' = [run EXCEPT ![r].pc = IF run[r].c.cmd = "init" THEN "mkdir" ELSE IF ok THEN "ok" ELSE "failed"]
    /\ UNCHANGED <<anjb, build, out>>
MakeHome(r) ==
    /\ run[r].pc = "mkdir"
    /\ \/ /\ home' = (IF run[r].c.n THEN home ELSE [home EXCEPT !.made = TRUE])
          /\ run' = [run EXCEPT ![r].pc = "tempdir"]
       \/ ~run[r].c.n /\ run' = [run EXCEPT ![r].pc = "failed"] /\ UNCHANGED home
    /\ UNCHANGED <<work, anjb, build, out>>
InitWork(r) ==
    /\ run[r].pc = "tempdir"
    /\ \/ /\ home.made \/ run[r].c.n
          /\ work' = (IF run[r].c.n THEN work ELSE work \cup {r})
          /\ run' = [run EXCEPT ![r] = Advance([@ EXCEPT !.pc = "steps"])]
       \/ ~run[r].c.n /\ run' = [run EXCEPT ![r].pc = "failed"] /\ UNCHANGED work
    /\ UNCHANGED <<home, anjb, build, out>>
\* goInstall, then envInit: either may fail.
Install(r) ==
    /\ At(r, "install")
    /\ \E ok, installed \in BOOLEAN :
          /\ ok => installed
          /\ anjb' = (anjb \/ (installed /\ ~run[r].c.n))
          /\ run' = [run EXCEPT ![r] = Member(@, "anjb", ok)]
    /\ UNCHANGED <<work, home, build, out>>
\* A copy makes the directories it needs.
LibraryAlone(a) == [home EXCEPT !.libs = @ \cup {a}]
Library(a) == [made |-> TRUE, libs |-> home.libs \cup {a}]
\* The headers, after a temporary directory in the toolchain's, or a library, compiled and copied.
OpenAL(r, a) ==
    /\ At(r, "openal") /\ a \in run[r].todo
    /\ \/ /\ a = "include" => home.made \/ run[r].c.n
          /\ home' = (IF run[r].c.n THEN home ELSE Library(a))
          /\ run' = [run EXCEPT ![r] = Member(@, a, TRUE)]
       \/ ~run[r].c.n /\ run' = [run EXCEPT ![r] = Member(@, a, FALSE)] /\ UNCHANGED home
    /\ UNCHANGED <<work, anjb, build, out>>

\* The process is killed: nothing deferred runs.
Crash(r) == /\ Active(r)
            /\ run' = [run EXCEPT ![r] = [@ EXCEPT !.pc = "crashed", !.todo = {}, !.libs = {}, !.step = 0, !.failed = FALSE]]
            /\ UNCHANGED <<work, home, anjb, build, out>>
AllEnded == (\A r \in Runs : run[r].pc \in Ended) /\ UNCHANGED vars

Next == \/ \E r \in Runs :
             \/ \E c \in Commands : Invoke(r, c)
             \/ MakeWork(r) \/ Check(r) \/ Exit(r) \/ Reset(r) \/ MakeHome(r) \/ InitWork(r) \/ Install(r) \/ Crash(r)
             \/ \E x \in run[r].todo : Gen(r, x) \/ Reject(r, x) \/ StartUnit(r, x) \/ CopyFile(r, x) \/ GoBuild(r, x)
                                       \/ RemoveEntry(r, x) \/ Create(r, x) \/ Write(r, x) \/ DropOutput(r, x) \/ OpenAL(r, x)
        \/ AllEnded
Spec == Init /\ [][Next]_vars

-----------------------------------------------------------------------------
\* The shared files are those the commands name; sources are copied for known targets only.
TypeOK ==
    /\ work \subseteq Runs /\ anjb \in BOOLEAN /\ home.made \in BOOLEAN
    /\ home.libs \subseteq {"include"} \cup ToSet(platformArchs.android) /\ (home.libs # {} => home.made)
    /\ DOMAIN build \subseteq Dirs
    /\ \A d \in DOMAIN build : \A f \in DOMAIN build[d] : build[d][f] \in Runs
    /\ \A o \in DOMAIN out : out[o].by \in Runs /\ out[o].whole \in BOOLEAN /\ out[o].libs \subseteq Dirs

\* When go build starts in a copy of the generated sources the whole copy is this invocation's,
\* and so is all else there but what an interrupted copy or an interrupted removal left: a copy
\* that was whole when its process died, or when its removal failed before it began, is never
\* compiled into another library.  (Unless a later bind with -n, which removes the directory
\* without having copied, was killed or failed doing so.)
Copied(r, d) == At(r, "so") /\ d \in DOMAIN run[r].unit /\ run[r].unit[d].at = "copy" /\ run[r].unit[d].left = <<>>
                  /\ run[r].c.mods /\ ~run[r].c.n
Died(q, d) == run[q].pc = "crashed" /\ d \in DOMAIN run[q].unit
Torn(q, d) == \/ d \in run[q].spoilt
              \/ Died(q, d) /\ run[q].unit[d].left # <<>>
              \/ \E s \in q .. MaxRuns : d \in run[s].unremoved \/ (Died(s, d) /\ run[s].unit[d].at = "remove")
OwnSources ==
    \A r \in Runs : \A d \in DOMAIN run[r].unit : Copied(r, d) =>
        /\ \A f \in ToSet(run[r].c.files) : f \in DOMAIN build[d] /\ build[d][f] = r
        /\ \A f \in DOMAIN build[d] : build[d][f] = r \/ Torn(build[d][f], d)

\* A copy of the sources stops a bind only after an earlier one over the same directory was
\* killed, or could not finish or remove its own copy: a failure of anything else does not.
OnlyAfterInterruption ==
    \A r \in Runs : \A d \in run[r].blocked : \E q \in 1 .. r - 1 :
        \/ d \in run[q].spoilt \cup run[q].unremoved
        \/ Died(q, d)

\* Every output that a successful bind wrote last is whole and has the libraries of exactly the
\* targets asked for.
WholeOutput ==
    \A r \in Runs : run[r].pc = "ok" /\ run[r].c.cmd = "bind" =>
        LET plan == Plan(run[r].c)
        IN \A i \in DOMAIN plan : plan[i].op = "pack" =>
              \A o \in plan[i].of : o \in DOMAIN out /\ out[o].by = r => out[o].whole /\ out[o].libs = plan[i].libs

\* An invocation that ends by itself, with an error or without, leaves no work directory, unless
\* told to or its removal failed, and no sources but where their copy or their removal stopped.
NothingLeft ==
    \A r \in Runs : run[r].pc \in {"ok", "failed"} =>
        /\ r \in work => run[r].c.work \/ run[r].kept
        /\ \A d \in DOMAIN build : (\E f \in DOMAIN build[d] : build[d][f] = r) =>
              d \in run[r].spoilt \cup run[r].unremoved
=============================================================================
