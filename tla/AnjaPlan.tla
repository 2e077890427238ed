------------------------------ MODULE AnjaPlan ------------------------------
(***************************************************************************)
(* What one invocation of cmd/anja will do: the targets its flags name     *)
(* (build.go, env.go, bind_desktop.go) and, for bind, the steps in which   *)
(* it generates, compiles and packs (bind_androidapp.go, bind_desktop.go,  *)
(* bind_iosapp.go).  The members of a step run concurrently.               *)
(*                                                                         *)
(* A command is a record: cmd, spec (the tokens of -target, <<platform>>   *)
(* or <<platform, arch>>), desk (those of -desktoptargets), the flags      *)
(* desktop, natives, n, work and openal, mods (Go modules are used) and    *)
(* files, what anjb generates for the packages.                            *)
(***************************************************************************)
EXTENDS Naturals, Sequences, SequencesExt

CONSTANT Host  \* the <<os, arch>> anja runs on

ASSUME HostAssumption == Host \in STRING \X STRING

\* The tokens of a flag: with an architecture or without.
Tokens == {t \in Seq(STRING) : Len(t) \in 1 .. 2}
NoDup(s) ==
    LET kept[i \in 0 .. Len(s)] ==
          IF i = 0 THEN <<>> ELSE IF s[i] \in ToSet(kept[i-1]) THEN kept[i-1] ELSE Append(kept[i-1], s[i])
    IN kept[Len(s)]
platformArchs ==
    [jvm |-> <<"386", "amd64", "arm", "arm64">>, android |-> <<"arm", "arm64", "386", "amd64">>,
     ios |-> <<"arm64">>, iossimulator |-> <<"arm64", "amd64">>, macos |-> <<"arm64", "amd64">>,
     maccatalyst |-> <<"arm64", "amd64">>, tvos |-> <<"arm64">>, tvossimulator |-> <<"arm64", "amd64">>]
isSupportedArch(p, a) == p \in DOMAIN platformArchs /\ a \in ToSet(platformArchs[p])
Kind(p) == IF p \in {"android", "jvm"} THEN p ELSE "apple"
desktopPlatformArchs ==
    [linux |-> <<"386", "amd64", "arm", "arm64">>, darwin |-> <<"amd64", "arm64">>,
     windows |-> <<"386", "amd64", "arm64">>]

ExpandIn(archs, t) == IF Len(t) = 2 THEN <<t>> ELSE [i \in DOMAIN archs[t[1]] |-> <<t[1], archs[t[1]][i]>>]
Expand(archs, spec) == FlattenSeq([i \in DOMAIN spec |-> ExpandIn(archs, spec[i])])
\* <<>> stands for an error.  Only -target=ios alone implies the simulator.
parseBuildTarget(spec) ==
    LET Valid(t) == t[1] \in DOMAIN platformArchs /\ (Len(t) = 2 => isSupportedArch(t[1], t[2]))
        implied == CASE spec = << <<"ios">> >> -> << <<"iossimulator">> >>
                     [] spec = << <<"tvos">> >> -> << <<"tvossimulator">> >>
                     [] OTHER -> <<>>
    IN IF (\A i \in DOMAIN spec : Valid(spec[i])) /\ \A i, j \in DOMAIN spec : Kind(spec[i][1]) = Kind(spec[j][1])
       THEN NoDup(Expand(platformArchs, spec \o implied)) ELSE <<>>
parseDesktopTargets(spec) ==
    LET Valid(t) == t[1] \in DOMAIN desktopPlatformArchs
                      /\ (Len(t) = 2 => t[2] \in ToSet(desktopPlatformArchs[t[1]]))
        named == [i \in DOMAIN spec |-> IF spec[i] = <<"host">> THEN Host ELSE spec[i]]
    IN IF \A i \in DOMAIN named : Valid(named[i]) THEN NoDup(Expand(desktopPlatformArchs, named)) ELSE <<>>

\* The directory under ./build for the sources of a target: arch, os_arch or platform-arch.
BuildDir(t) == IF t[1] = "android" THEN <<t[2]>> ELSE t
Dirs == {BuildDir(t) : t \in UNION {ToSet(Expand(platformArchs, << <<p>> >>)) : p \in DOMAIN platformArchs \ {"jvm"}}}
          \cup UNION {ToSet(Expand(desktopPlatformArchs, << <<p>> >>)) : p \in DOMAIN desktopPlatformArchs}

-----------------------------------------------------------------------------
Step(op, of, libs) == [op |-> op, of |-> of, libs |-> libs]
Pack(file, libs) == Step("pack", {file}, libs)
\* goDesktopBind: target after target, then one JAR.
DesktopPlan(c) ==
    LET ts == parseDesktopTargets(IF c.desk = <<>> THEN << <<"host">> >> ELSE c.desk)
        Of(t) == <<Step("gen", {t}, {}), Step("so", {t}, {})>>
                   \o (IF c.natives THEN <<Pack(<<"native">> \o t, {t})>> ELSE <<>>)
    IN IF ts = <<>> THEN <<Step("reject", {"desktoptargets"}, {})>>
       ELSE FlattenSeq([i \in DOMAIN ts |-> Of(ts[i])]) \o <<Pack(<<"jar">>, ToSet(ts))>>
\* goAndroidBind, goDesktopBind or goAppleBind.
BindPlan(c) ==
    LET ts == parseBuildTarget(c.spec)
        dirs == {BuildDir(ts[i]) : i \in DOMAIN ts}
        platforms == {ts[i][1] : i \in DOMAIN ts}
    IN CASE Kind(ts[1][1]) = "jvm" -> DesktopPlan(c)
         [] Kind(ts[1][1]) = "android" ->
              <<Step("gen", platforms, {}), Step("so", dirs, {}), Pack(<<"aar">>, dirs), Pack(<<"sources">>, {})>>
                \o (IF c.desktop THEN DesktopPlan(c) ELSE <<>>)
         [] OTHER -> <<Step("drop", {<<"xcframework">>}, {}), Step("gen", platforms, {}), Step("so", dirs, {}),
                       Pack(<<"xcframework">>, dirs)>>
\* runInit after its work directory: anjb, and OpenAL for every Android architecture.
InitPlan(c) == LET parts == <<"include">> \o platformArchs.android
               IN <<Step("install", {"anjb"}, {})>>
                    \o (IF c.openal THEN [i \in DOMAIN parts |-> Step("openal", {parts[i]}, {})] ELSE <<>>)
Plan(c) == IF c.cmd = "init" THEN InitPlan(c) ELSE BindPlan(c)
=============================================================================
