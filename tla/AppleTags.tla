------------------------------ MODULE AppleTags ------------------------------
(***************************************************************************)
(* The build tags of the commands that goAppleBind (bind_iosapp.go) runs   *)
(* concurrently: anjb for every platform, then go build for every target.  *)
(* Each goroutine appends its own tags to the slice of the -tags flag,     *)
(* whose array all of them share.                                          *)
(*                                                                         *)
(* A Go slice is [shared, own, len]: it has the array of buildTags, or the *)
(* contents of a new array nobody else has.  An append writes in place     *)
(* where the capacity allows and moves to a new array where it does not;   *)
(* here it is one step, so that the model has fewer outcomes of the race   *)
(* than the program.                                                       *)
(***************************************************************************)
EXTENDS Naturals, Sequences, FiniteSets

CONSTANTS Tags,           \* -tags
          TagsMacOS,      \* -tags-macos
          TagsNotMacos,   \* -tags-not-macos
          Targets         \* the <<platform, arch>> to build

VARIABLES array,  \* the array under buildTags, up to its capacity
          phase,  \* "gen" or "build"
          pc,     \* [goroutine -> "idle", "platform", "flag", "join" or "done"]
          tags,   \* [goroutine -> its slice]
          args    \* [goroutine -> the tags of its command]
vars == <<array, phase, pc, tags, args>>

platformTags(p) ==
    CASE p = "ios" -> <<"ios">> [] p = "iossimulator" -> <<"ios", "iossimulator">>
      [] p = "tvos" -> <<"ios", "tvos">> [] p = "tvossimulator" -> <<"ios", "tvos", "tvossimulator">>
      [] p = "macos" -> <<"macos">> [] p = "maccatalyst" -> <<"ios", "macos", "maccatalyst">>
FlagTags(p) == IF p = "macos" THEN TagsMacOS ELSE TagsNotMacos

\* splitQuotedFields appends one field at a time: the capacity doubles (bound: eight tags).
Capacity == CHOOSE c \in {0, 1, 2, 4, 8} : c >= Len(Tags) /\ \A b \in {0, 1, 2, 4, 8} : b >= Len(Tags) => c <= b
Goroutines(ph) == IF ph = "gen" THEN {<<t[1]>> : t \in Targets} ELSE Targets
Slice(shared, own, len) == [shared |-> shared, own |-> own, len |-> len]
Contents(s) == SubSeq(IF s.shared THEN array ELSE s.own, 1, s.len)
InPlace(s, xs) == s.shared /\ s.len + Len(xs) <= Capacity
Extended(s, xs) == IF InPlace(s, xs) THEN Slice(TRUE, <<>>, s.len + Len(xs))
                   ELSE Slice(FALSE, Contents(s) \o xs, s.len + Len(xs))
Overwritten(s, xs) ==
    IF InPlace(s, xs) THEN [i \in DOMAIN array |-> IF i \in s.len + 1 .. s.len + Len(xs) THEN xs[i - s.len] ELSE array[i]]
    ELSE array

Start(ph) == /\ pc = [g \in Goroutines(ph) |-> "idle"]
             /\ tags = [g \in Goroutines(ph) |-> Slice(TRUE, <<>>, Len(Tags))]
             /\ args = [g \in Goroutines(ph) |-> <<>>]
Init == /\ array = [i \in 1 .. Capacity |-> IF i <= Len(Tags) THEN Tags[i] ELSE ""]
        /\ phase = "gen" /\ Start("gen")

AppendTags(g, from, to, xs) ==
    /\ pc[g] = from
    /\ array' = Overwritten(tags[g], xs)
    /\ tags' = [tags EXCEPT ![g] = Extended(@, xs)]
    /\ pc' = [pc EXCEPT ![g] = to]
    /\ UNCHANGED <<phase, args>>
AppendPlatform(g) == AppendTags(g, "idle", "platform", platformTags(g[1]))
AppendFlag(g) == AppendTags(g, "platform", "join", FlagTags(g[1]))
\* strings.Join and the command.
Join(g) == /\ pc[g] = "join"
           /\ args' = [args EXCEPT ![g] = Contents(tags[g])]
           /\ pc' = [pc EXCEPT ![g] = "done"]
           /\ UNCHANGED <<array, phase, tags>>
\* The builds start when every anjb has ended without error.
Build == /\ phase = "gen" /\ \A g \in DOMAIN pc : pc[g] = "done"
         /\ phase' = "build" /\ Start("build")' /\ UNCHANGED array
Ended == phase = "build" /\ (\A g \in DOMAIN pc : pc[g] = "done") /\ UNCHANGED vars

Next == (\E g \in DOMAIN pc : AppendPlatform(g) \/ AppendFlag(g) \/ Join(g)) \/ Build \/ Ended
Spec == Init /\ [][Next]_vars

\* Every command gets the tags of its own platform, as env.go says of macOS and Catalyst.
PlatformTags == \A g \in DOMAIN pc : pc[g] = "done" => args[g] = Tags \o platformTags(g[1]) \o FlagTags(g[1])
=============================================================================
