------------------------------ MODULE AppBuild ------------------------------
(***************************************************************************)
(* anja build (build.go, build_androidapp.go, build_apple.go): an app is   *)
(* compiled for every target, the symbols of each library are read from    *)
(* the nm tool through a pipe to learn what it imports, the package is     *)
(* written, and only then is it checked that the app imports anja's.       *)
(*                                                                         *)
(* An import path is <<its repository, the rest>>, a line of nm's output   *)
(* [pkg, long]; long lines do not fit the scanner's buffer.                *)
(***************************************************************************)
EXTENDS AnjaPlan, FiniteSets

CONSTANT Commands  \* [spec, n, args (their number), pkgs (what they load), openal (it is installed)]

VARIABLES c,       \* the command; a package is [main, imports, long]
          pc,
          todo,    \* the targets to compile
          nm,      \* [lines (nm has to write), seen, reading]
          found,   \* [target -> the packages extractPkgs found]
          out,     \* "none", "partial" or "whole"
          work,    \* the work directory exists
          result
vars == <<c, pc, todo, nm, found, out, work, result>>

App == <<"github.com", "xchacha20-poly1305/anja/app">>
OpenAL == <<"github.com", "xchacha20-poly1305/anja/exp/audio/al">>
Pkg == CHOOSE p \in c.pkgs : TRUE
targets == parseBuildTarget(c.spec)
isAndroid == Kind(targets[1][1]) = "android"
NoNm == [lines |-> {}, seen |-> {}, reading |-> FALSE]

Init == /\ c \in Commands /\ pc = "start" /\ todo = <<>> /\ nm = NoNm /\ found = <<>>
        /\ out = "none" /\ work = FALSE /\ result = "none"

End(r) == pc' = "exit" /\ result' = r
Goto(p) == pc' = p /\ UNCHANGED result

MakeWork == /\ pc = "start"
            /\ \/ Goto("load") /\ work' = ~c.n
               \/ pc' = "ended" /\ result' = "error" /\ UNCHANGED work
            /\ UNCHANGED <<c, todo, nm, found, out>>
\* os.Exit in the usage cases: nothing deferred runs.
Load == /\ pc = "load"
        /\ \/ targets = <<>> /\ End("error") /\ UNCHANGED todo
           \/ targets # <<>> /\ (c.args > 1 \/ Cardinality(c.pkgs) # 1) /\ pc' = "ended" /\ result' = "usage" /\ UNCHANGED todo
           \/ /\ targets # <<>> /\ c.args <= 1 /\ Cardinality(c.pkgs) = 1
              /\ \/ Kind(targets[1][1]) # "jvm" /\ Goto("compile") /\ todo' = targets
                 \/ End("error") /\ UNCHANGED todo  \* NDK, Xcode, -o, -bundleid, or a JVM target
        /\ UNCHANGED <<c, nm, found, out, work>>
\* A main package is compiled once per architecture for Apple, and its symbols are read once.
Reads == Pkg.main /\ (isAndroid \/ found = <<>>)
Rest == IF isAndroid \/ ~Pkg.main THEN Tail(todo) ELSE SelectSeq(todo, LAMBDA t : t[2] # Head(todo)[2])
Compile == /\ pc = "compile" /\ todo # <<>>
           /\ \/ End("error") /\ UNCHANGED <<todo, nm>>
              \/ /\ Reads /\ Goto("nm") /\ UNCHANGED todo
                 /\ nm' = [lines |-> IF c.n THEN {} ELSE Pkg.imports, seen |-> {}, reading |-> ~c.n]
              \/ ~Reads /\ Goto("compile") /\ todo' = Rest /\ UNCHANGED nm
           /\ UNCHANGED <<c, found, out, work>>
\* nmRE names golang.org/x only.
Matches(p) == p[1] = "golang.org/x"
\* nm's line goes through the pipe to the goroutine; after a line that is too long nobody reads the
\* pipe any more, and nm waits for ever.
ReadLine == /\ pc = "nm" /\ nm.reading
            /\ \E p \in nm.lines :
                  nm' = [lines |-> nm.lines \ {p}, seen |-> IF Matches(p) THEN nm.seen \cup {p} ELSE nm.seen,
                         reading |-> ~(Pkg.long /\ p = App)]
            /\ UNCHANGED <<c, pc, todo, found, out, work, result>>
NmEnd == /\ pc = "nm" /\ nm.lines = {}
         /\ \/ /\ c.n \/ nm.reading
               /\ found' = [t \in DOMAIN found \cup {Head(todo)} |->
                              IF t = Head(todo) THEN (IF c.n THEN {App} ELSE nm.seen) ELSE found[t]]
               /\ Goto("compile") /\ todo' = Rest
            \/ ~c.n /\ End("error") /\ UNCHANGED <<found, todo>>
         /\ nm' = NoNm /\ UNCHANGED <<c, out, work>>
\* goAndroidBuild from os.Create to Close, or goAppleBuild's xcodebuild and rename.
Create == /\ pc = "compile" /\ todo = <<>>
          /\ \/ ~Pkg.main /\ End("ok") /\ UNCHANGED out
             \/ Pkg.main /\ Goto("write") /\ out' = IF c.n \/ ~isAndroid THEN out ELSE "partial"
             \/ Pkg.main /\ End("error") /\ UNCHANGED out
          /\ UNCHANGED <<c, todo, nm, found, work>>
NeedsOpenAL == isAndroid /\ \E t \in DOMAIN found : OpenAL \in found[t]
Write == /\ pc = "write"
         /\ \/ (NeedsOpenAL => c.openal) /\ Goto("verdict") /\ out' = IF c.n THEN out ELSE "whole"
            \/ End("error") /\ UNCHANGED out
         /\ UNCHANGED <<c, todo, nm, found, work>>
Verdict == /\ pc = "verdict"
           /\ End(IF App \in found[targets[1]] THEN "ok" ELSE "does not import")
           /\ UNCHANGED <<c, todo, nm, found, out, work>>
Exit == pc = "exit" /\ pc' = "ended" /\ work' = FALSE /\ UNCHANGED <<c, todo, nm, found, out, result>>

Next == MakeWork \/ Load \/ Compile \/ ReadLine \/ NmEnd \/ Create \/ Write \/ Verdict \/ Exit
Spec == Init /\ [][Next]_vars

\* A build fails for want of the import of anja's app package, the message of build.go, only if the
\* app does not import it.
ImportsRecognised == result = "does not import" => App \notin Pkg.imports
=============================================================================
