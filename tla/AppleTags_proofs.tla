--------------------------- MODULE AppleTags_proofs ---------------------------
(***************************************************************************)
(* When the race of AppleTags cannot happen: where the array of the -tags  *)
(* flag has no spare capacity (no, one, two, four, ... tags).  The first   *)
(* append of every goroutine then moves to an array of its own, whatever   *)
(* the platforms, their number and the other flags.                        *)
(***************************************************************************)
EXTENDS AppleTags, SequenceTheorems, TLAPS

\* The strings, and those that platformTags has by name (the provers do not take them for strings).
Tag == STRING \cup {"ios", "iossimulator", "tvos", "tvossimulator", "macos", "maccatalyst"}
Flags == /\ Tags \in Seq(Tag) /\ TagsMacOS \in Seq(Tag) /\ TagsNotMacos \in Seq(Tag)
         /\ \A t \in Targets : t[1] \in {"ios", "iossimulator", "tvos", "tvossimulator", "macos", "maccatalyst"}
NoSpareCapacity == Capacity = Len(Tags)

\* What a goroutine has when it has appended its own tags, and those of the flag too.
WithPlatform(g) == Tags \o platformTags(g[1])
WithFlag(g) == Tags \o platformTags(g[1]) \o FlagTags(g[1])
Member(g) == \E t \in Targets : g[1] = t[1]
Holds(s, xs) == s = Slice(FALSE, xs, Len(xs))

\* The inductive invariant: the shared array stays what it was, and nobody has it after the
\* first append.
GoroutineOK(g) ==
    /\ Member(g)
    /\ pc[g] \in {"idle", "platform", "join", "done"}
    /\ pc[g] = "idle" => tags[g] = Slice(TRUE, <<>>, Len(Tags))
    /\ pc[g] = "platform" => Holds(tags[g], WithPlatform(g))
    /\ pc[g] = "join" => Holds(tags[g], WithFlag(g))
    /\ pc[g] = "done" => args[g] = WithFlag(g)
IInv == /\ array = Tags
        /\ pc = [g \in DOMAIN pc |-> pc[g]]
        /\ DOMAIN tags = DOMAIN pc /\ DOMAIN args = DOMAIN pc
        /\ \A g \in DOMAIN pc : GoroutineOK(g)

\* Every platform has a tag of its own.
LEMMA PlatformTagsFacts ==
  ASSUME Flags, NEW g, Member(g)
  PROVE  /\ platformTags(g[1]) \in Seq(Tag) /\ Len(platformTags(g[1])) > 0
         /\ FlagTags(g[1]) \in Seq(Tag)
         /\ WithPlatform(g) \in Seq(Tag) /\ WithFlag(g) \in Seq(Tag)
         /\ Len(WithPlatform(g)) = Len(Tags) + Len(platformTags(g[1]))
         /\ Len(WithFlag(g)) = Len(WithPlatform(g)) + Len(FlagTags(g[1]))
<1>1. platformTags(g[1]) \in Seq(Tag) /\ Len(platformTags(g[1])) > 0
  <2>1. g[1] \in {"ios", "iossimulator", "tvos", "tvossimulator", "macos", "maccatalyst"}
    BY DEF Flags, Member
  <2>2. platformTags(g[1]) \in {<<"ios">>, <<"ios", "iossimulator">>, <<"ios", "tvos">>,
                               <<"ios", "tvos", "tvossimulator">>, <<"macos">>, <<"ios", "macos", "maccatalyst">>}
    BY <2>1 DEF platformTags
  <2> DEFINE P(xs) == xs \in Seq(Tag) /\ Len(xs) > 0
  <2>3. P(<<"ios">>) /\ P(<<"ios", "iossimulator">>) /\ P(<<"ios", "tvos">>)
    BY DEF Tag
  <2>4. P(<<"ios", "tvos", "tvossimulator">>) /\ P(<<"macos">>) /\ P(<<"ios", "macos", "maccatalyst">>)
    BY DEF Tag
  <2> HIDE DEF P
  <2>5. P(platformTags(g[1]))
    BY <2>2, <2>3, <2>4, Zenon
  <2> QED
    BY <2>5 DEF P
<1>2. FlagTags(g[1]) \in Seq(Tag) /\ Tags \in Seq(Tag)
  BY DEF Flags, FlagTags
<1>3. WithPlatform(g) \in Seq(Tag) /\ Len(WithPlatform(g)) = Len(Tags) + Len(platformTags(g[1]))
  BY <1>1, <1>2, ConcatProperties DEF WithPlatform
<1>4. WithFlag(g) = WithPlatform(g) \o FlagTags(g[1])
  BY DEF WithFlag, WithPlatform
<1>5. WithFlag(g) \in Seq(Tag) /\ Len(WithFlag(g)) = Len(WithPlatform(g)) + Len(FlagTags(g[1]))
  BY <1>2, <1>3, <1>4, ConcatProperties
<1> QED
  BY <1>1, <1>2, <1>3, <1>5

\* Another phase of goroutines.
LEMMA StartOK ==
  ASSUME Flags, NEW ph \in {"gen", "build"}, array = Tags, Start(ph)
  PROVE  IInv
<1>1. \A g \in Goroutines(ph) : Member(g)
  BY DEF Goroutines, Member
<1> QED
  BY <1>1 DEF Start, IInv, GoroutineOK

\* An append moves, or the slice has moved already.
LEMMA AppendMoves ==
  ASSUME Flags, NoSpareCapacity, IInv, NEW g \in DOMAIN pc, NEW from, NEW to, NEW xs \in Seq(Tag),
         AppendTags(g, from, to, xs),
         \/ from = "idle" /\ to = "platform" /\ xs = platformTags(g[1])
         \/ from = "platform" /\ to = "join" /\ xs = FlagTags(g[1])
  PROVE  IInv'
<1> USE DEF NoSpareCapacity
<1>1. GoroutineOK(g) /\ pc[g] = from
  BY DEF IInv, AppendTags
<1>2. /\ xs \in Seq(Tag) /\ Len(xs) \in Nat /\ Tags \in Seq(Tag) /\ Len(Tags) \in Nat
      /\ WithPlatform(g) \in Seq(Tag) /\ WithFlag(g) \in Seq(Tag)
  BY <1>1, PlatformTagsFacts DEF GoroutineOK, Flags
<1>3. ~InPlace(tags[g], xs)
  <2>1. CASE from = "idle"
    BY <1>1, <1>2, <2>1, PlatformTagsFacts DEF GoroutineOK, InPlace, Slice
  <2>2. CASE from = "platform"
    BY <1>1, <2>2 DEF GoroutineOK, InPlace, Holds, Slice
  <2> QED
    BY <2>1, <2>2
<1>4. Extended(tags[g], xs) = Slice(FALSE, Contents(tags[g]) \o xs, tags[g].len + Len(xs))
      /\ array' = array
  BY <1>3 DEF Extended, Overwritten, AppendTags
<1>5. CASE from = "idle"
  <2>1. Contents(tags[g]) = Tags /\ tags[g].len = Len(Tags)
    BY <1>1, <1>2, <1>5, SubSeqFull DEF GoroutineOK, Contents, Slice, IInv
  <2>2. Holds(Extended(tags[g], xs), WithPlatform(g)) /\ to = "platform"
    BY <1>1, <1>4, <1>5, <2>1, PlatformTagsFacts DEF GoroutineOK, Holds, WithPlatform
  <2> QED
    BY <1>1, <1>4, <2>2 DEF AppendTags, IInv, GoroutineOK
<1>6. CASE from = "platform"
  <2>1. Contents(tags[g]) = WithPlatform(g) /\ tags[g].len = Len(WithPlatform(g))
    BY <1>1, <1>2, <1>6, SubSeqFull DEF GoroutineOK, Contents, Holds, Slice
  <2>2. Holds(Extended(tags[g], xs), WithFlag(g)) /\ to = "join"
    BY <1>1, <1>4, <1>6, <2>1, PlatformTagsFacts DEF GoroutineOK, Holds, WithFlag, WithPlatform
  <2> QED
    BY <1>1, <1>4, <2>2 DEF AppendTags, IInv, GoroutineOK
<1> QED
  BY <1>5, <1>6

LEMMA JoinKeeps ==
  ASSUME Flags, IInv, NEW g \in DOMAIN pc, Join(g)
  PROVE  IInv'
<1>1. GoroutineOK(g) /\ pc[g] = "join"
  BY DEF IInv, Join
<1>2. Contents(tags[g]) = WithFlag(g)
  BY <1>1, PlatformTagsFacts, SubSeqFull DEF GoroutineOK, Contents, Holds, Slice
<1> QED
  BY <1>1, <1>2 DEF Join, IInv, GoroutineOK

\* Where -tags leaves no spare capacity every command gets the tags of its own platform
\* (bind_iosapp.go:69), which AppleTags shows it does not otherwise.
THEOREM TagsOfOwnPlatform ==
  ASSUME Flags, NoSpareCapacity
  PROVE  Spec => []PlatformTags
<1>1. Init => IInv
  <2> SUFFICES ASSUME Init
               PROVE  IInv
    OBVIOUS
  <2>1. array = Tags
    BY DEF Init, Flags, NoSpareCapacity
  <2> QED
    BY <2>1, StartOK DEF Init
<1>2. IInv /\ [Next]_vars => IInv'
  <2> SUFFICES ASSUME IInv, [Next]_vars
               PROVE  IInv'
    OBVIOUS
  <2>1. CASE UNCHANGED vars \/ Ended
    BY <2>1 DEF vars, Ended, IInv, GoroutineOK
  <2>2. ASSUME NEW g \in DOMAIN pc, AppendPlatform(g)
        PROVE  IInv'
    <3>1. platformTags(g[1]) \in Seq(Tag)
      BY PlatformTagsFacts DEF IInv, GoroutineOK
    <3> QED
      BY <2>2, <3>1, AppendMoves DEF AppendPlatform
  <2>3. ASSUME NEW g \in DOMAIN pc, AppendFlag(g)
        PROVE  IInv'
    <3>1. FlagTags(g[1]) \in Seq(Tag)
      BY PlatformTagsFacts DEF IInv, GoroutineOK
    <3> QED
      BY <2>3, <3>1, AppendMoves DEF AppendFlag
  <2>4. ASSUME NEW g \in DOMAIN pc, Join(g)
        PROVE  IInv'
    BY <2>4, JoinKeeps
  <2>5. CASE Build
    <3>1. array' = Tags /\ Start("build")'
      BY <2>5 DEF Build, IInv
    <3>2. \A g \in Goroutines("build") : Member(g)
      BY DEF Goroutines, Member
    <3> QED
      BY <3>1, <3>2 DEF Start, IInv, GoroutineOK
  <2> QED
    BY <2>1, <2>2, <2>3, <2>4, <2>5 DEF Next
<1>3. IInv => PlatformTags
  BY DEF IInv, GoroutineOK, PlatformTags, WithFlag
<1> QED
  BY <1>1, <1>2, <1>3, PTL DEF Spec
=============================================================================
