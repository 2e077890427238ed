----------------------------- MODULE Anja_proofs -----------------------------
(***************************************************************************)
(* Proofs about Anja for any number of invocations and any commands: first *)
(* what the flags name and which steps a bind makes of them, then what the *)
(* invocations do to the files they share.  Where the invariant speaks of  *)
(* a directory it follows three things: who wrote the files there, how far *)
(* the copy of each of them got, and which of them will still be removed.  *)
(***************************************************************************)
EXTENDS Anja, Recursion, SequenceTheorems, TLAPS

-----------------------------------------------------------------------------
(* The targets that the flags name. *)

\* What is on a platform, and what a valid token is.
Pairs(archs) == UNION {{<<p, a>> : a \in ToSet(archs[p])} : p \in DOMAIN archs}
Named(archs) == {<<p>> : p \in DOMAIN archs} \cup Pairs(archs)
IsTable(archs) == \A p \in DOMAIN archs : archs[p] \in Seq(ToSet(archs[p]))

\* The architectures of a platform are a list.
LEMMA Tables == IsTable(platformArchs) /\ IsTable(desktopPlatformArchs)
<1> DEFINE S == {"386", "amd64", "arm", "arm64"}
<1>1. /\ <<"386", "amd64", "arm", "arm64">> \in Seq(S) /\ <<"arm", "arm64", "386", "amd64">> \in Seq(S)
      /\ <<"arm64">> \in Seq(S) /\ <<"arm64", "amd64">> \in Seq(S) /\ <<"amd64", "arm64">> \in Seq(S)
      /\ <<"386", "amd64", "arm64">> \in Seq(S)
  OBVIOUS
<1> HIDE DEF S
<1>2. DOMAIN platformArchs = {"jvm", "android", "ios", "iossimulator", "macos", "maccatalyst", "tvos", "tvossimulator"}
  BY DEF platformArchs
<1>3. /\ platformArchs.jvm \in Seq(S) /\ platformArchs.android \in Seq(S) /\ platformArchs.ios \in Seq(S)
      /\ platformArchs.iossimulator \in Seq(S) /\ platformArchs.macos \in Seq(S) /\ platformArchs.maccatalyst \in Seq(S)
      /\ platformArchs.tvos \in Seq(S) /\ platformArchs.tvossimulator \in Seq(S)
  BY <1>1 DEF platformArchs
<1>4. DOMAIN desktopPlatformArchs = {"linux", "darwin", "windows"}
  BY DEF desktopPlatformArchs
<1>5. /\ desktopPlatformArchs.linux \in Seq(S) /\ desktopPlatformArchs.darwin \in Seq(S)
      /\ desktopPlatformArchs.windows \in Seq(S)
  BY <1>1 DEF desktopPlatformArchs
<1>6. \A p \in DOMAIN platformArchs : platformArchs[p] \in Seq(S)
  BY <1>2, <1>3
<1>7. \A p \in DOMAIN desktopPlatformArchs : desktopPlatformArchs[p] \in Seq(S)
  BY <1>4, <1>5
<1> QED
  BY <1>6, <1>7, ToSetFacts DEF IsTable

\* The members of Pairs.
LEMMA PairFacts ==
  ASSUME NEW archs, NEW t \in Pairs(archs)
  PROVE  /\ t[1] \in DOMAIN archs /\ t[2] \in ToSet(archs[t[1]]) /\ t = <<t[1], t[2]>> /\ Len(t) = 2
<1>1. PICK p \in DOMAIN archs : \E a \in ToSet(archs[p]) : t = <<p, a>>
  BY DEF Pairs
<1> QED
  BY <1>1

\* A token that was found valid.
LEMMA ValidToken ==
  ASSUME NEW archs, NEW t \in Tokens, t[1] \in DOMAIN archs, Len(t) = 2 => t[2] \in ToSet(archs[t[1]])
  PROVE  t \in Named(archs)
<1>1. t \in Seq(STRING) /\ (Len(t) = 1 \/ Len(t) = 2)
  BY DEF Tokens
<1>2. CASE Len(t) = 1
  <2>1. t = <<t[1]>>
    BY <1>1, <1>2
  <2> QED
    BY <2>1 DEF Named
<1>3. CASE Len(t) = 2
  <2>1. t = <<t[1], t[2]>>
    BY <1>1, <1>3
  <2> QED
    BY <1>3, <2>1 DEF Named, Pairs
<1> QED
  BY <1>1, <1>2, <1>3

\* The targets of a token are on its platform.
LEMMA ExpandInFacts ==
  ASSUME NEW archs, IsTable(archs), NEW t \in Named(archs)
  PROVE  /\ ExpandIn(archs, t) \in Seq(Pairs(archs))
         /\ \A y \in ToSet(ExpandIn(archs, t)) : y[1] = t[1]
         /\ Len(t) = 1 => \A a \in ToSet(archs[t[1]]) : <<t[1], a>> \in ToSet(ExpandIn(archs, t))
<1> DEFINE e == ExpandIn(archs, t)
<1>1. CASE t \in Pairs(archs)
  <2>1. Len(t) = 2
    BY <1>1, PairFacts
  <2>2. e = <<t>>
    BY <2>1 DEF ExpandIn
  <2>3. e \in Seq(Pairs(archs)) /\ \A i \in DOMAIN e : e[i] = t
    BY <1>1, <2>2
  <2> HIDE DEF e
  <2>4. \A y \in ToSet(e) : y = t
    BY <2>3 DEF ToSet
  <2> QED
    BY <2>1, <2>3, <2>4 DEF e
<1>2. ASSUME NEW p \in DOMAIN archs, t = <<p>>
      PROVE  /\ e \in Seq(Pairs(archs)) /\ \A y \in ToSet(e) : y[1] = t[1]
             /\ \A a \in ToSet(archs[t[1]]) : <<t[1], a>> \in ToSet(e)
  <2> DEFINE s == archs[p]
  <2>1. t[1] = p /\ Len(t) = 1 /\ Len(t) # 2
    BY <1>2
  <2>2. s \in Seq(ToSet(s))
    BY DEF IsTable
  <2>3. e = [i \in DOMAIN s |-> <<p, s[i]>>]
    <3>1. e = [i \in DOMAIN archs[t[1]] |-> <<t[1], archs[t[1]][i]>>]
      BY <2>1, Zenon DEF ExpandIn
    <3> QED
      BY <2>1, <3>1, Zenon
  <2> HIDE DEF s, e
  <2>4. DOMAIN s = 1 .. Len(s) /\ Len(s) \in Nat /\ \A i \in 1 .. Len(s) : s[i] \in ToSet(s)
    BY <2>2, ToSetFacts
  <2>5. \A i \in 1 .. Len(s) : <<p, s[i]>> \in Pairs(archs)
    BY <2>4 DEF Pairs, s
  <2>6. DOMAIN e = 1 .. Len(s) /\ \A i \in 1 .. Len(s) : e[i] = <<p, s[i]>>
    BY <2>3, <2>4
  <2>7. e \in Seq(Pairs(archs))
    BY <2>3, <2>4, <2>5
  <2>8. \A y \in ToSet(e) : \E i \in 1 .. Len(s) : y = <<p, s[i]>>
    BY <2>6 DEF ToSet
  <2>9. \A i \in 1 .. Len(s) : <<p, s[i]>> \in ToSet(e)
    BY <2>6 DEF ToSet
  <2>10. \A a \in ToSet(s) : \E i \in 1 .. Len(s) : s[i] = a
    BY <2>2, ToSetFacts
  <2> QED
    BY <2>1, <2>7, <2>8, <2>9, <2>10 DEF s
<1> QED
  BY <1>1, <1>2 DEF Named

\* The targets of a list of tokens.
LEMMA ExpandFacts ==
  ASSUME NEW archs, IsTable(archs), NEW spec \in Seq(Named(archs))
  PROVE  /\ Expand(archs, spec) \in Seq(Pairs(archs))
         /\ \A y : y \in ToSet(Expand(archs, spec)) <=> \E i \in 1 .. Len(spec) : y \in ToSet(ExpandIn(archs, spec[i]))
<1> DEFINE ss == [i \in DOMAIN spec |-> ExpandIn(archs, spec[i])]
<1>1. Len(spec) \in Nat /\ DOMAIN spec = 1 .. Len(spec) /\ \A i \in 1 .. Len(spec) : spec[i] \in Named(archs)
  BY ToSetFacts
<1>2. \A i \in 1 .. Len(spec) : ExpandIn(archs, spec[i]) \in Seq(Pairs(archs))
  BY <1>1, ExpandInFacts
<1>3. ss = [i \in 1 .. Len(spec) |-> ExpandIn(archs, spec[i])]
  BY <1>1
<1>4. ss \in Seq(Seq(Pairs(archs))) /\ Len(ss) = Len(spec) /\ \A i \in 1 .. Len(spec) : ss[i] = ExpandIn(archs, spec[i])
  BY <1>1, <1>2, <1>3
<1>5. Expand(archs, spec) = FlattenSeq(ss)
  BY Zenon DEF Expand
<1> HIDE DEF ss
<1> QED
  BY <1>4, <1>5, FlattenFacts

\* What NoDup does with an element.
NoDupStep(s, i, k) == IF s[i] \in ToSet(k) THEN k ELSE Append(k, s[i])
\* NoDup, step by step.
NoDupRun(f, A, s) ==
    /\ f \in [0 .. Len(s) -> Seq(A)] /\ f[0] = <<>> /\ NoDup(s) = f[Len(s)]
    /\ \A i \in 1 .. Len(s) : f[i] = NoDupStep(s, i, f[i-1])
LEMMA NoDupUnfolds ==
  ASSUME NEW A, NEW s \in Seq(A)
  PROVE  \E f : NoDupRun(f, A, s)
<1> DEFINE n == Len(s)
           D == Seq(A)
           G == [p \in (1 .. n) \X D |-> NoDupStep(s, p[1], p[2])]
           z == <<>>
           Is(f) == f = [i \in 0 .. Len(s) |->
                         IF i = 0 THEN <<>> ELSE IF s[i] \in ToSet(f[i-1]) THEN f[i-1] ELSE Append(f[i-1], s[i])]
<1>1. n \in Nat /\ z \in D
  OBVIOUS
<1>2. \A i \in 1 .. n, v \in D : NoDupStep(s, i, v) \in D
  BY DEF NoDupStep
<1>3. G \in [(1 .. n) \X D -> D] /\ \A i \in 1 .. n, v \in D : G[<<i, v>>] = NoDupStep(s, i, v)
  BY <1>2
<1> HIDE DEF G, D, z, n
<1>4. PICK f : Steps(f, n, D, z, G)
  BY <1>1, <1>3, StepsExist
<1>5. f = [i \in 0 .. n |-> f[i]] /\ f[0] = z /\ \A i \in 1 .. n : f[i] = NoDupStep(s, i, f[i-1])
  <2>1. \A i \in 1 .. n : i - 1 \in 0 .. n
    BY <1>1
  <2> QED
    BY <1>3, <1>4, <2>1 DEF Steps
<1>6. Is(f)
  <2>1. ASSUME NEW i \in 0 .. n
        PROVE  f[i] = IF i = 0 THEN <<>> ELSE IF s[i] \in ToSet(f[i-1]) THEN f[i-1] ELSE Append(f[i-1], s[i])
    <3>1. i = 0 \/ i \in 1 .. n
      BY <1>1
    <3> QED
      BY <3>1, <1>5 DEF NoDupStep, z
  <2> QED
    BY <1>5, <2>1 DEF n
<1>7. PICK g : Is(g) /\ NoDup(s) = g[Len(s)]
  <2>1. NoDup(s) = (CHOOSE g : Is(g))[Len(s)]
    BY Zenon DEF NoDup
  <2>2. Is(CHOOSE g : Is(g))
    BY <1>6, Zenon
  <2> QED
    BY <2>1, <2>2, Zenon
<1>8. g = [i \in 0 .. n |-> g[i]]
  BY <1>7 DEF n
<1>9. g[0] = z /\ \A i \in 1 .. n : g[i] = NoDupStep(s, i, g[i-1])
  <2>1. ASSUME NEW i \in 0 .. n
        PROVE  g[i] = IF i = 0 THEN z ELSE NoDupStep(s, i, g[i-1])
    BY <1>7 DEF NoDupStep, n, z
  <2>2. 0 \in 0 .. n /\ \A i \in 1 .. n : i \in 0 .. n /\ i # 0
    BY <1>1
  <2> QED
    BY <2>1, <2>2
<1>10. g[0] \in D /\ \A i \in 1 .. n : g[i-1] \in D => g[i] \in D
  BY <1>1, <1>2, <1>9
<1>11. g \in [0 .. n -> D]
  BY <1>1, <1>8, <1>10, StepsIn
<1> QED
  BY <1>7, <1>9, <1>11 DEF D, n, z, NoDupRun

Distinct(s) == \A i, j \in 1 .. Len(s) : s[i] = s[j] => i = j
\* Every target is kept once.
LEMMA NoDupFacts ==
  ASSUME NEW A, NEW s \in Seq(A)
  PROVE  NoDup(s) \in Seq(A) /\ ToSet(NoDup(s)) \subseteq ToSet(s) /\ Distinct(NoDup(s))
<1> DEFINE n == Len(s)
           Good(k) == ToSet(k) \subseteq ToSet(s) /\ Distinct(k)
<1>1. PICK f : NoDupRun(f, A, s)
  BY NoDupUnfolds
<1>2. n \in Nat /\ f \in [0 .. n -> Seq(A)] /\ f[0] = <<>> /\ NoDup(s) = f[n]
  BY <1>1 DEF NoDupRun
<1>3. \A i \in 1 .. n : f[i] = NoDupStep(s, i, f[i-1]) /\ s[i] \in A /\ s[i] \in ToSet(s)
  BY <1>1, ToSetFacts DEF NoDupRun
<1> HIDE DEF n
<1> DEFINE B == {i \in 0 .. n : Good(f[i])}
<1>4. 0 \in B
  <2>1. ToSet(<<>>) = {} /\ Distinct(<<>>)
    BY DEF ToSet, Distinct
  <2> QED
    BY <1>2, <2>1
<1>5. ASSUME NEW i \in 1 .. n, i - 1 \in B
      PROVE  i \in B
  <2> DEFINE k == f[i-1]
             a == Append(k, s[i])
  <2>1. i - 1 \in 0 .. n /\ i \in 0 .. n
    BY <1>2
  <2>2. k \in Seq(A) /\ Good(k)
    BY <1>2, <1>5, <2>1
  <2>3. f[i] = IF s[i] \in ToSet(k) THEN k ELSE a
    BY <1>3 DEF NoDupStep
  <2> HIDE DEF k
  <2>4. CASE s[i] \in ToSet(k)
    BY <2>1, <2>2, <2>3, <2>4
  <2>5. CASE s[i] \notin ToSet(k)
    <3>1. s[i] \in A /\ s[i] \in ToSet(s)
      BY <1>3
    <3>2. \A y : y \in ToSet(a) <=> y \in ToSet(k) \/ y = s[i]
      BY <2>2, <3>1, AppendFacts
    <3>3. /\ Len(a) = Len(k) + 1 /\ Len(k) \in Nat /\ a[Len(k) + 1] = s[i]
          /\ \A j \in 1 .. Len(k) : a[j] = k[j]
      BY <2>2, <3>1
    <3> HIDE DEF a
    <3>4. \A j \in 1 .. Len(k) : k[j] \in ToSet(k)
      BY <2>2, ToSetFacts
    <3>5. Distinct(a)
      <4> SUFFICES ASSUME NEW j \in 1 .. Len(a), NEW l \in 1 .. Len(a), a[j] = a[l]
                   PROVE  j = l
        BY DEF Distinct
      <4>1. (j \in 1 .. Len(k) \/ j = Len(k) + 1) /\ (l \in 1 .. Len(k) \/ l = Len(k) + 1)
        BY <3>3
      <4>2. \A b, d \in 1 .. Len(k) : k[b] = k[d] => b = d
        BY <2>2 DEF Distinct
      <4> QED
        BY <2>5, <3>3, <3>4, <4>1, <4>2
    <3>6. f[i] = a
      BY <2>3, <2>5
    <3> QED
      BY <2>1, <2>2, <3>1, <3>2, <3>5, <3>6
  <2> QED
    BY <2>4, <2>5
<1> HIDE DEF B
<1>6. \A i \in 0 .. n : i \in B
  BY <1>2, <1>4, <1>5, UpTo
<1> QED
  BY <1>2, <1>6 DEF B

\* What -target names: at least one target, each once, all of one kind of platform.
LEMMA BuildTargets ==
  ASSUME NEW spec \in Seq(Tokens), parseBuildTarget(spec) # <<>>
  PROVE  LET ts == parseBuildTarget(spec)
         IN /\ ts \in Seq(Pairs(platformArchs)) /\ Len(ts) \in Nat \ {0}
            /\ \A i, j \in 1 .. Len(ts) : Kind(ts[i][1]) = Kind(ts[j][1])
<1> DEFINE N == Named(platformArchs)
           implied == CASE spec = << <<"ios">> >> -> << <<"iossimulator">> >>
                        [] spec = << <<"tvos">> >> -> << <<"tvossimulator">> >>
                        [] OTHER -> <<>>
           whole == spec \o implied
           e == Expand(platformArchs, whole)
           ts == parseBuildTarget(spec)
<1>1. /\ \A i \in DOMAIN spec : /\ spec[i][1] \in DOMAIN platformArchs
                                /\ Len(spec[i]) = 2 => isSupportedArch(spec[i][1], spec[i][2])
      /\ \A i, j \in DOMAIN spec : Kind(spec[i][1]) = Kind(spec[j][1])
      /\ ts = NoDup(e)
  BY DEF parseBuildTarget
<1>2. DOMAIN spec = 1 .. Len(spec) /\ Len(spec) \in Nat /\ \A i \in 1 .. Len(spec) : spec[i] \in Tokens
  OBVIOUS
<1>3. \A i \in 1 .. Len(spec) : spec[i] \in N
  <2> TAKE i \in 1 .. Len(spec)
  <2>1. Len(spec[i]) = 2 => spec[i][2] \in ToSet(platformArchs[spec[i][1]])
    BY <1>1, <1>2 DEF isSupportedArch
  <2> QED
    BY <1>1, <1>2, <2>1, ValidToken
<1>4. {"ios", "iossimulator", "tvos", "tvossimulator"} \subseteq DOMAIN platformArchs
  BY DEF platformArchs
<1>5. \/ implied = << <<"iossimulator">> >> /\ spec = << <<"ios">> >>
      \/ implied = << <<"tvossimulator">> >> /\ spec = << <<"tvos">> >>
      \/ implied = <<>>
  OBVIOUS
<1> HIDE DEF implied
<1>6. implied \in Seq(N)
  <2>1. <<"iossimulator">> \in N /\ <<"tvossimulator">> \in N
    BY <1>4 DEF Named
  <2> HIDE DEF N
  <2>2. \A x \in N : <<x>> \in Seq(N)
    OBVIOUS
  <2>3. << <<"iossimulator">> >> \in Seq(N) /\ << <<"tvossimulator">> >> \in Seq(N) /\ <<>> \in Seq(N)
    BY <2>1, <2>2
  <2> QED
    BY <1>5, <2>3, Zenon
<1>7. spec \in Seq(N)
  <2> HIDE DEF N
  <2> QED
    BY <1>2, <1>3
<1>8. whole \in Seq(N) /\ Len(whole) \in Nat
  BY <1>6, <1>7
<1> HIDE DEF N
<1>9. \A i, j \in 1 .. Len(whole) : Kind(whole[i][1]) = Kind(whole[j][1])
  <2>1. CASE implied = <<>>
    <3>1. whole = spec
      BY <2>1
    <3> QED
      BY <1>1, <1>2, <3>1
  <2>2. CASE implied = << <<"iossimulator">> >> /\ spec = << <<"ios">> >>
    <3>1. spec \in Seq(N) /\ implied \in Seq(N) /\ Len(spec) = 1 /\ Len(implied) = 1
          /\ spec[1] = <<"ios">> /\ implied[1] = <<"iossimulator">>
      BY <1>6, <1>7, <2>2
    <3>2. Len(whole) = 2 /\ whole[1] = spec[1] /\ whole[2] = implied[1]
      <4>1. Len(whole) = Len(spec) + Len(implied)
            /\ \A i \in 1 .. Len(spec) + Len(implied) :
                  whole[i] = IF i <= Len(spec) THEN spec[i] ELSE implied[i - Len(spec)]
        BY <3>1, ConcatProperties
      <4>2. 1 \in 1 .. Len(spec) + Len(implied) /\ 2 \in 1 .. Len(spec) + Len(implied)
        BY <3>1
      <4> HIDE DEF whole
      <4> QED
        BY <3>1, <4>1, <4>2
    <3>3. \A i \in 1 .. Len(whole) : whole[i][1] \in {"ios", "iossimulator"}
      <4>1. \A i \in 1 .. 2 : i = 1 \/ i = 2
        OBVIOUS
      <4> QED
        BY <3>1, <3>2, <4>1
    <3> QED
      BY <3>3 DEF Kind
  <2>3. CASE implied = << <<"tvossimulator">> >> /\ spec = << <<"tvos">> >>
    <3>1. spec \in Seq(N) /\ implied \in Seq(N) /\ Len(spec) = 1 /\ Len(implied) = 1
          /\ spec[1] = <<"tvos">> /\ implied[1] = <<"tvossimulator">>
      BY <1>6, <1>7, <2>3
    <3>2. Len(whole) = 2 /\ whole[1] = spec[1] /\ whole[2] = implied[1]
      <4>1. Len(whole) = Len(spec) + Len(implied)
            /\ \A i \in 1 .. Len(spec) + Len(implied) :
                  whole[i] = IF i <= Len(spec) THEN spec[i] ELSE implied[i - Len(spec)]
        BY <3>1, ConcatProperties
      <4>2. 1 \in 1 .. Len(spec) + Len(implied) /\ 2 \in 1 .. Len(spec) + Len(implied)
        BY <3>1
      <4> HIDE DEF whole
      <4> QED
        BY <3>1, <4>1, <4>2
    <3>3. \A i \in 1 .. Len(whole) : whole[i][1] \in {"tvos", "tvossimulator"}
      <4>1. \A i \in 1 .. 2 : i = 1 \/ i = 2
        OBVIOUS
      <4> QED
        BY <3>1, <3>2, <4>1
    <3> QED
      BY <3>3 DEF Kind
  <2> QED
    BY <1>5, <2>1, <2>2, <2>3
<1> HIDE DEF whole
<1>10. /\ e \in Seq(Pairs(platformArchs))
       /\ \A y \in ToSet(e) : \E i \in 1 .. Len(whole) : y \in ToSet(ExpandIn(platformArchs, whole[i]))
  BY <1>8, Tables, ExpandFacts DEF N
<1>11. \A y \in ToSet(e) : \E i \in 1 .. Len(whole) : y[1] = whole[i][1]
  <2> TAKE y \in ToSet(e)
  <2>1. PICK i \in 1 .. Len(whole) : y \in ToSet(ExpandIn(platformArchs, whole[i]))
    BY <1>10
  <2>2. whole[i] \in N
    BY <1>8
  <2> QED
    BY <2>1, <2>2, Tables, ExpandInFacts DEF N
<1> HIDE DEF e, ts
<1>12. ts \in Seq(Pairs(platformArchs)) /\ ToSet(ts) \subseteq ToSet(e)
  BY <1>1, <1>10, NoDupFacts
<1>13. \A i \in 1 .. Len(ts) : ts[i] \in ToSet(e)
  BY <1>12, ToSetFacts
<1>14. \A i, j \in 1 .. Len(ts) : Kind(ts[i][1]) = Kind(ts[j][1])
  BY <1>9, <1>11, <1>13
<1>15. ts # <<>> /\ Len(ts) \in Nat
  BY <1>12 DEF ts
<1>16. Len(ts) # 0
  BY <1>12, <1>15
<1> QED
  BY <1>12, <1>14, <1>15, <1>16 DEF ts

\* What -desktoptargets names: each target once.
LEMMA DesktopTargets ==
  ASSUME NEW spec \in Seq(Tokens \cup {<<"host">>})
  PROVE  LET ts == parseDesktopTargets(spec)
         IN ts \in Seq(Pairs(desktopPlatformArchs)) /\ Distinct(ts)
<1> DEFINE N == Named(desktopPlatformArchs)
           named == [i \in DOMAIN spec |-> IF spec[i] = <<"host">> THEN Host ELSE spec[i]]
           Valid == \A i \in DOMAIN named :
                      /\ named[i][1] \in DOMAIN desktopPlatformArchs
                      /\ Len(named[i]) = 2 => named[i][2] \in ToSet(desktopPlatformArchs[named[i][1]])
           e == Expand(desktopPlatformArchs, named)
           ts == parseDesktopTargets(spec)
<1>1. ts = IF Valid THEN NoDup(e) ELSE <<>>
  BY Zenon DEF parseDesktopTargets
<1>2. Host \in Tokens
  <2>1. Host = <<Host[1], Host[2]>> /\ Host[1] \in STRING /\ Host[2] \in STRING
    BY HostAssumption
  <2>2. Host \in Seq(STRING) /\ Len(Host) = 2
    <3>1. \A o, a \in STRING : <<o, a>> \in Seq(STRING) /\ Len(<<o, a>>) = 2
      OBVIOUS
    <3> QED
      BY <2>1, <3>1, Zenon
  <2> QED
    BY <2>2 DEF Tokens
<1>3. DOMAIN spec = 1 .. Len(spec) /\ Len(spec) \in Nat /\ \A i \in 1 .. Len(spec) : spec[i] \in Tokens \cup {<<"host">>}
  OBVIOUS
<1>4. named = [i \in 1 .. Len(spec) |-> IF spec[i] = <<"host">> THEN Host ELSE spec[i]]
  BY <1>3
<1>5. DOMAIN named = 1 .. Len(spec) /\ \A i \in 1 .. Len(spec) : named[i] \in Tokens
  BY <1>2, <1>3
<1>6. CASE Valid
  <2>1. \A i \in 1 .. Len(spec) : named[i] \in N
    <3> TAKE i \in 1 .. Len(spec)
    <3> HIDE DEF named
    <3>1. named[i] \in Tokens /\ i \in DOMAIN named
      BY <1>5
    <3>2. /\ named[i][1] \in DOMAIN desktopPlatformArchs
          /\ Len(named[i]) = 2 => named[i][2] \in ToSet(desktopPlatformArchs[named[i][1]])
      BY <1>6, <3>1
    <3> QED
      BY <3>1, <3>2, ValidToken
  <2>2. named = [i \in 1 .. Len(spec) |-> named[i]]
    BY <1>4
  <2> HIDE DEF named, N
  <2>3. named \in Seq(N)
    BY <1>3, <2>1, <2>2
  <2>4. e \in Seq(Pairs(desktopPlatformArchs))
    BY <2>3, Tables, ExpandFacts DEF N
  <2>5. ts = NoDup(e)
    BY <1>1, <1>6, Zenon
  <2> HIDE DEF e, ts
  <2> QED
    BY <2>4, <2>5, NoDupFacts DEF ts
<1>7. CASE ~Valid
  <2>1. ts = <<>>
    BY <1>1, <1>7, Zenon
  <2> HIDE DEF ts
  <2>2. ts \in Seq(Pairs(desktopPlatformArchs)) /\ Distinct(ts)
    BY <2>1 DEF Distinct
  <2> QED
    BY <2>2 DEF ts
<1> QED
  BY <1>6, <1>7

\* Every target has its directory under ./build.
LEMMA BuildDirs ==
  /\ \A t \in Pairs(platformArchs) : t[1] # "jvm" => BuildDir(t) \in Dirs
  /\ Pairs(desktopPlatformArchs) \subseteq Dirs
<1>1. ASSUME NEW archs, IsTable(archs), NEW t \in Pairs(archs)
      PROVE  t[1] \in DOMAIN archs /\ t \in ToSet(Expand(archs, << <<t[1]>> >>))
  <2> DEFINE token == <<t[1]>>
             spec == <<token>>
  <2>1. t[1] \in DOMAIN archs /\ t[2] \in ToSet(archs[t[1]]) /\ t = <<t[1], t[2]>>
    BY <1>1, PairFacts
  <2>2. token \in Named(archs) /\ token[1] = t[1] /\ Len(token) = 1
    BY <2>1 DEF Named
  <2> HIDE DEF token
  <2>3. t \in ToSet(ExpandIn(archs, token))
    <3>1. <<token[1], t[2]>> \in ToSet(ExpandIn(archs, token))
      BY <1>1, <2>1, <2>2, ExpandInFacts
    <3> QED
      BY <2>1, <2>2, <3>1
  <2>4. spec \in Seq(Named(archs)) /\ Len(spec) = 1 /\ spec[1] = token
    BY <2>2
  <2> HIDE DEF spec
  <2>5. t \in ToSet(Expand(archs, spec))
    <3>1. 1 \in 1 .. Len(spec)
      BY <2>4
    <3> QED
      BY <1>1, <2>3, <2>4, <3>1, ExpandFacts
  <2> QED
    BY <2>1, <2>5 DEF spec, token
<1>2. \A t \in Pairs(platformArchs) : t[1] # "jvm" => BuildDir(t) \in Dirs
  <2> TAKE t \in Pairs(platformArchs)
  <2> HAVE t[1] # "jvm"
  <2>1. t[1] \in DOMAIN platformArchs \ {"jvm"} /\ t \in ToSet(Expand(platformArchs, << <<t[1]>> >>))
    BY <1>1, Tables
  <2>2. t \in UNION {ToSet(Expand(platformArchs, << <<p>> >>)) : p \in DOMAIN platformArchs \ {"jvm"}}
    BY <2>1
  <2> QED
    BY <2>2, Zenon DEF Dirs
<1>3. \A t \in Pairs(desktopPlatformArchs) : t \in Dirs
  <2> TAKE t \in Pairs(desktopPlatformArchs)
  <2>1. t[1] \in DOMAIN desktopPlatformArchs /\ t \in ToSet(Expand(desktopPlatformArchs, << <<t[1]>> >>))
    BY <1>1, Tables
  <2>2. t \in UNION {ToSet(Expand(desktopPlatformArchs, << <<p>> >>)) : p \in DOMAIN desktopPlatformArchs}
    BY <2>1
  <2> QED
    BY <2>2, Zenon DEF Dirs
<1> QED
  BY <1>2, <1>3

-----------------------------------------------------------------------------
(* The plans. *)

NativeFiles == {<<"native">> \o t : t \in Pairs(desktopPlatformArchs)}
Files == {<<"aar">>, <<"sources">>, <<"xcframework">>, <<"jar">>} \cup NativeFiles
KnownSteps == {s \in [op : {"gen", "so", "pack", "drop", "reject"},
                      of : SUBSET (Dirs \cup DOMAIN platformArchs \cup {"desktoptargets"} \cup Files),
                      libs : SUBSET Dirs] : s.op = "so" => s.of \subseteq Dirs}
\* What the steps of a plan compile or pack, and that no two of them do the same.
Made(op, p) == UNION {p[i].of : i \in {k \in DOMAIN p : p[k].op = op}}
Once(op, p) == \A i, j \in DOMAIN p : p[i].op = op /\ p[j].op = op /\ i # j => p[i].of \cap p[j].of = {}
Making == {"so", "pack"}
\* What goDesktopBind compiles or packs for one target, and the JAR.
Product(op, t) == IF op = "so" THEN t ELSE <<"native">> \o t
Jar(op) == IF op = "so" THEN {} ELSE {<<"jar">>}
Products(op) == {Product(op, t) : t \in Pairs(desktopPlatformArchs)}

\* The steps that the binds are made of.
LEMMA StepsKnown ==
  /\ \A of \in SUBSET (Dirs \cup DOMAIN platformArchs) : Step("gen", of, {}) \in KnownSteps
  /\ \A of \in SUBSET Dirs : Step("so", of, {}) \in KnownSteps
  /\ \A file \in Files, libs \in SUBSET Dirs : Pack(file, libs) \in KnownSteps
  /\ Step("drop", {<<"xcframework">>}, {}) \in KnownSteps
  /\ Step("reject", {"desktoptargets"}, {}) \in KnownSteps
<1> DEFINE D == Dirs
           P == DOMAIN platformArchs
<1>1. Files = Files /\ <<"xcframework">> \in Files
  BY DEF Files
<1> HIDE DEF D, P
<1> QED
  BY <1>1, SMTT(20) DEF KnownSteps, Step, Pack, D, P

\* Two plans, one after the other.
LEMMA PlansJoin ==
  ASSUME NEW op, NEW p \in Seq(KnownSteps), NEW q \in Seq(KnownSteps),
         Once(op, p), Once(op, q), Made(op, p) \cap Made(op, q) = {}
  PROVE  p \o q \in Seq(KnownSteps) /\ Once(op, p \o q) /\ Made(op, p \o q) \subseteq Made(op, p) \cup Made(op, q)
<1> DEFINE r == p \o q
           K == KnownSteps
<1> HIDE DEF K
<1>1. p \in Seq(K) /\ q \in Seq(K)
  BY DEF K
<1>2. /\ r \in Seq(K) /\ Len(r) = Len(p) + Len(q) /\ Len(p) \in Nat /\ Len(q) \in Nat
      /\ DOMAIN p = 1 .. Len(p) /\ DOMAIN q = 1 .. Len(q) /\ DOMAIN r = 1 .. Len(r)
      /\ \A i \in 1 .. Len(p) : r[i] = p[i]
      /\ \A i \in 1 .. Len(q) : r[Len(p) + i] = q[i]
  BY <1>1
<1> HIDE DEF r
<1>3. \A i \in DOMAIN r : \/ i \in DOMAIN p /\ r[i] = p[i]
                          \/ i - Len(p) \in DOMAIN q /\ r[i] = q[i - Len(p)]
  <2> TAKE i \in DOMAIN r
  <2>1. CASE i <= Len(p)
    BY <1>2, <2>1
  <2>2. CASE i > Len(p)
    <3>1. i - Len(p) \in 1 .. Len(q) /\ Len(p) + (i - Len(p)) = i
      BY <1>2, <2>2
    <3> QED
      BY <1>2, <3>1
  <2> QED
    BY <1>2, <2>1, <2>2
<1>4. Made(op, r) \subseteq Made(op, p) \cup Made(op, q)
  BY <1>3 DEF Made
<1>5. Once(op, r)
  <2> SUFFICES ASSUME NEW i \in DOMAIN r, NEW j \in DOMAIN r, r[i].op = op, r[j].op = op, i # j
               PROVE  r[i].of \cap r[j].of = {}
    BY DEF Once
  <2>1. CASE i \in DOMAIN p /\ r[i] = p[i] /\ j \in DOMAIN p /\ r[j] = p[j]
    BY <2>1 DEF Once
  <2>2. CASE i - Len(p) \in DOMAIN q /\ r[i] = q[i - Len(p)] /\ j - Len(p) \in DOMAIN q /\ r[j] = q[j - Len(p)]
    <3>1. i - Len(p) # j - Len(p)
      BY <1>2
    <3> QED
      BY <2>2, <3>1 DEF Once
  <2>3. CASE i \in DOMAIN p /\ r[i] = p[i] /\ j - Len(p) \in DOMAIN q /\ r[j] = q[j - Len(p)]
    <3>1. r[i].of \subseteq Made(op, p) /\ r[j].of \subseteq Made(op, q)
      BY <2>3 DEF Made
    <3> QED
      BY <3>1
  <2>4. CASE i - Len(p) \in DOMAIN q /\ r[i] = q[i - Len(p)] /\ j \in DOMAIN p /\ r[j] = p[j]
    <3>1. r[i].of \subseteq Made(op, q) /\ r[j].of \subseteq Made(op, p)
      BY <2>4 DEF Made
    <3> QED
      BY <3>1
  <2> QED
    BY <1>3, <2>1, <2>2, <2>3, <2>4
<1> QED
  BY <1>2, <1>4, <1>5 DEF r, K

\* The libraries of different targets are different files, and none is the JAR.
LEMMA NativesDiffer ==
  ASSUME NEW t \in Pairs(desktopPlatformArchs)
  PROVE  /\ \A u \in Pairs(desktopPlatformArchs) : <<"native">> \o t = <<"native">> \o u => t = u
         /\ <<"native">> \o t \notin {<<"aar">>, <<"sources">>, <<"xcframework">>, <<"jar">>}
         /\ <<"native">> \o t \in Files
<1>1. ASSUME NEW u \in Pairs(desktopPlatformArchs)
      PROVE  LET f == <<"native">> \o u IN f[2] = u[1] /\ f[3] = u[2] /\ Len(f) = 3 /\ u = <<u[1], u[2]>>
  <2> DEFINE x == u[1]
             y == u[2]
  <2>1. u = <<x, y>>
    BY PairFacts
  <2>2. ASSUME NEW a, NEW b
        PROVE  LET f == <<"native">> \o <<a, b>> IN f[2] = a /\ f[3] = b /\ Len(f) = 3
    <3> DEFINE S == {"native", a, b}
               n == <<"native">>
               l == <<a, b>>
               f == n \o l
    <3>1. n \in Seq(S) /\ l \in Seq(S) /\ Len(n) = 1 /\ Len(l) = 2 /\ l[1] = a /\ l[2] = b
      OBVIOUS
    <3> HIDE DEF n, l, S
    <3>2. Len(f) = Len(n) + Len(l)
          /\ \A i \in 1 .. Len(n) + Len(l) : f[i] = IF i <= Len(n) THEN n[i] ELSE l[i - Len(n)]
      BY <3>1, ConcatProperties
    <3>3. 2 \in 1 .. Len(n) + Len(l) /\ 3 \in 1 .. Len(n) + Len(l)
      BY <3>1
    <3> HIDE DEF f
    <3>4. f[2] = a /\ f[3] = b /\ Len(f) = 3
      BY <3>1, <3>2, <3>3
    <3> QED
      BY <3>4, Zenon DEF f, n, l
  <2>3. LET f == <<"native">> \o <<x, y>> IN f[2] = x /\ f[3] = y /\ Len(f) = 3
    BY <2>2
  <2> HIDE DEF x, y
  <2>4. LET f == <<"native">> \o u IN f[2] = x /\ f[3] = y /\ Len(f) = 3 /\ u = <<x, y>>
    BY <2>1, <2>3, Zenon
  <2> QED
    BY <2>4, Zenon DEF x, y
<1>2. \A u \in Pairs(desktopPlatformArchs) : <<"native">> \o t = <<"native">> \o u => t = u
  <2> TAKE u \in Pairs(desktopPlatformArchs)
  <2> HAVE <<"native">> \o t = <<"native">> \o u
  <2>1. (<<"native">> \o t)[2] = t[1] /\ (<<"native">> \o t)[3] = t[2] /\ t = <<t[1], t[2]>>
    BY <1>1, Zenon
  <2>2. (<<"native">> \o u)[2] = u[1] /\ (<<"native">> \o u)[3] = u[2] /\ u = <<u[1], u[2]>>
    BY <1>1, Zenon
  <2> QED
    BY <2>1, <2>2, Zenon
<1>3. \A x \in {<<"aar">>, <<"sources">>, <<"xcframework">>, <<"jar">>} : Len(x) # 3
  OBVIOUS
<1>4. Len(<<"native">> \o t) = 3
  BY <1>1, Zenon
<1>5. <<"native">> \o t \notin {<<"aar">>, <<"sources">>, <<"xcframework">>, <<"jar">>}
  BY <1>3, <1>4, Zenon
<1>6. <<"native">> \o t \in Files
  BY DEF Files, NativeFiles
<1> QED
  BY <1>2, <1>5, <1>6

\* Nor do two targets share a directory.
LEMMA ProductsDiffer ==
  ASSUME NEW op \in Making, NEW t \in Pairs(desktopPlatformArchs), NEW u \in Pairs(desktopPlatformArchs),
         Product(op, t) = Product(op, u)
  PROVE  t = u
<1>1. CASE op = "so"
  BY <1>1, Zenon DEF Product
<1>2. CASE op # "so"
  <2>1. <<"native">> \o t = <<"native">> \o u
    BY <1>2, Zenon DEF Product
  <2> QED
    BY <2>1, NativesDiffer, Zenon
<1> QED
  BY <1>1, <1>2

\* One target: its library is generated, built and perhaps packed as a file of its own.
TargetSteps(c, t) == <<Step("gen", {t}, {}), Step("so", {t}, {})>>
                       \o (IF c.natives THEN <<Pack(<<"native">> \o t, {t})>> ELSE <<>>)
LEMMA TargetStepsFacts ==
  ASSUME NEW op \in Making, NEW c, NEW t \in Pairs(desktopPlatformArchs)
  PROVE  /\ TargetSteps(c, t) \in Seq(KnownSteps) /\ Once(op, TargetSteps(c, t))
         /\ Made(op, TargetSteps(c, t)) \subseteq {Product(op, t)}
<1> DEFINE g == Step("gen", {t}, {})
           s == Step("so", {t}, {})
           file == <<"native">> \o t
           k == Pack(file, {t})
           p == <<g, s>>
           one == <<k>>
           none == <<>>
           q == IF c.natives THEN one ELSE none
<1>1. g \in KnownSteps /\ s \in KnownSteps /\ k \in KnownSteps
  <2>1. {t} \in SUBSET Dirs /\ {t} \in SUBSET (Dirs \cup DOMAIN platformArchs)
    BY BuildDirs
  <2>2. <<"native">> \o t \in Files
    BY NativesDiffer
  <2> QED
    BY <2>1, <2>2, StepsKnown
<1>2. g.op = "gen" /\ s.op = "so" /\ s.of = {t} /\ k.op = "pack" /\ k.of = {file}
  BY DEF Step, Pack
<1> DEFINE K == KnownSteps
<1> HIDE DEF g, s, k, K
<1>3. p \in Seq(K) /\ Once(op, p) /\ Made(op, p) = IF op = "so" THEN {t} ELSE {}
  <2>1. g \in K /\ s \in K
    BY <1>1 DEF K
  <2>2. p \in Seq(K) /\ DOMAIN p = 1 .. 2 /\ p[1] = g /\ p[2] = s
    BY <2>1
  <2> HIDE DEF p
  <2>3. \A i \in DOMAIN p : p[i].op = op => i = 2 /\ op = "so" /\ p[i].of = {t}
    BY <1>2, <2>2 DEF Making
  <2>4. op = "so" => 2 \in DOMAIN p /\ p[2].op = op /\ p[2].of = {t}
    BY <1>2, <2>2
  <2>5. Once(op, p)
    BY <2>3 DEF Once
  <2>6. \A x : x \in Made(op, p) <=> op = "so" /\ x = t
    BY <2>3, <2>4 DEF Made
  <2> QED
    BY <2>2, <2>5, <2>6
<1>4. one \in Seq(K) /\ Once(op, one) /\ Made(op, one) = IF op = "so" THEN {} ELSE {file}
  <2>1. k \in K
    BY <1>1 DEF K
  <2>2. one \in Seq(K) /\ DOMAIN one = {1} /\ one[1] = k
    BY <2>1
  <2> HIDE DEF one, file
  <2>3. \A x : x \in Made(op, one) <=> op = "pack" /\ x = file
    BY <1>2, <2>2 DEF Made
  <2> QED
    BY <1>2, <2>2, <2>3 DEF Once, Making
<1>5. none \in Seq(K) /\ Once(op, none) /\ Made(op, none) = {}
  <2>1. none \in Seq(K) /\ DOMAIN none = {}
    OBVIOUS
  <2> HIDE DEF none
  <2> QED
    BY <2>1 DEF Once, Made
<1>6. q = one \/ q = none
  BY Zenon
<1> HIDE DEF one, none, p
<1>7. q \in Seq(K) /\ Once(op, q) /\ Made(op, q) \subseteq IF op = "so" THEN {} ELSE {file}
  BY <1>4, <1>5, <1>6
<1>8. TargetSteps(c, t) = p \o q
  BY Zenon DEF TargetSteps, p, g, s, k, one, none
<1> HIDE DEF q
<1>9. p \in Seq(KnownSteps) /\ q \in Seq(KnownSteps)
  BY <1>3, <1>7 DEF K
<1>10. Made(op, p) \cap Made(op, q) = {}
  BY <1>3, <1>7
<1>11. p \o q \in Seq(KnownSteps) /\ Once(op, p \o q) /\ Made(op, p \o q) \subseteq Made(op, p) \cup Made(op, q)
  BY <1>3, <1>7, <1>9, <1>10, PlansJoin
<1>12. Product(op, t) = IF op = "so" THEN t ELSE file
  BY Zenon DEF Product
<1> HIDE DEF file
<1>13. Made(op, p) \cup Made(op, q) \subseteq {Product(op, t)}
  BY <1>3, <1>7, <1>12
<1> QED
  BY <1>8, <1>11, <1>13

\* The targets of a desktop bind, one after the other.
LEMMA NativePlans ==
  ASSUME NEW op \in Making, NEW c, NEW ts \in Seq(Pairs(desktopPlatformArchs)), Distinct(ts)
  PROVE  LET plan == FlattenSeq([i \in DOMAIN ts |-> TargetSteps(c, ts[i])])
         IN plan \in Seq(KnownSteps) /\ Once(op, plan) /\ Made(op, plan) \subseteq Products(op)
<1> DEFINE K == KnownSteps
           T == Pairs(desktopPlatformArchs)
           n == Len(ts)
           ss == [i \in DOMAIN ts |-> TargetSteps(c, ts[i])]
           Upto(i) == {Product(op, ts[m]) : m \in 1 .. i}
<1>1. n \in Nat /\ DOMAIN ts = 1 .. n /\ \A i \in 1 .. n : ts[i] \in T
  OBVIOUS
<1>2. \A i \in 1 .. n : /\ TargetSteps(c, ts[i]) \in Seq(K) /\ Once(op, TargetSteps(c, ts[i]))
                        /\ Made(op, TargetSteps(c, ts[i])) \subseteq {Product(op, ts[i])}
  BY <1>1, TargetStepsFacts
<1> HIDE DEF K, T
<1>3. ss \in Seq(Seq(K)) /\ Len(ss) = n /\ \A i \in 1 .. n : ss[i] = TargetSteps(c, ts[i])
  <2>1. ss = [i \in 1 .. n |-> TargetSteps(c, ts[i])]
    BY <1>1
  <2> HIDE DEF n
  <2> QED
    BY <1>1, <1>2, <2>1
<1> HIDE DEF ss
<1>4. PICK f : FlattenRun(f, K, ss)
  BY <1>3, FlattenUnfolds
<1> HIDE DEF n
<1>5. /\ f \in [0 .. n -> Seq(K)] /\ f[0] = <<>> /\ FlattenSeq(ss) = f[n]
      /\ \A i \in 1 .. n : f[i] = IF i = 1 THEN ss[1] ELSE f[i-1] \o ss[i]
  BY <1>3, <1>4 DEF FlattenRun, FlattenStep
<1> DEFINE B == {i \in 0 .. n : Once(op, f[i]) /\ Made(op, f[i]) \subseteq Upto(i)}
<1>6. 0 \in B
  <2>1. DOMAIN f[0] = {}
    BY <1>5
  <2> QED
    BY <1>1, <2>1 DEF Once, Made
<1>7. ASSUME NEW i \in 1 .. n, i - 1 \in B
      PROVE  i \in B
  <2> DEFINE a == f[i-1]
             b == ss[i]
  <2>1. i - 1 \in 0 .. n /\ i \in 0 .. n
    BY <1>1
  <2>2. a \in Seq(K) /\ Once(op, a) /\ Made(op, a) \subseteq Upto(i-1)
    BY <1>5, <1>7, <2>1
  <2>3. b \in Seq(K) /\ Once(op, b) /\ Made(op, b) \subseteq {Product(op, ts[i])}
    BY <1>2, <1>3
  <2>4. Product(op, ts[i]) \notin Upto(i-1)
    <3> SUFFICES ASSUME NEW m \in 1 .. i - 1, Product(op, ts[i]) = Product(op, ts[m])
                 PROVE  FALSE
      OBVIOUS
    <3>1. m \in 1 .. n /\ m # i
      BY <1>1
    <3>2. ts[i] = ts[m]
      BY <1>1, <3>1, ProductsDiffer DEF T
    <3> QED
      BY <3>1, <3>2 DEF Distinct, n
  <2>5. \A x \in Upto(i-1) : x \in Upto(i)
    <3>1. \A m \in 1 .. i - 1 : m \in 1 .. i
      BY <1>1
    <3> QED
      BY <3>1
  <2>6. Product(op, ts[i]) \in Upto(i)
    <3>1. i \in 1 .. i
      BY <1>1
    <3> QED
      BY <3>1
  <2>7. f[i] = IF i = 1 THEN b ELSE a \o b
    BY <1>5
  <2> HIDE DEF a, b, Upto
  <2>8. a \in Seq(KnownSteps) /\ b \in Seq(KnownSteps)
    BY <2>2, <2>3 DEF K
  <2>9. Once(op, a \o b) /\ Made(op, a \o b) \subseteq Made(op, a) \cup Made(op, b)
    <3>1. Made(op, a) \cap Made(op, b) = {}
      <4>1. \A x \in Made(op, b) : x = Product(op, ts[i])
        BY <2>3
      <4>2. Product(op, ts[i]) \notin Made(op, a)
        BY <2>2, <2>4, Zenon
      <4> QED
        BY <4>1, <4>2, Zenon
    <3> QED
      BY <2>2, <2>3, <2>8, <3>1, PlansJoin, Zenon
  <2>10. Once(op, f[i]) /\ Made(op, f[i]) \subseteq Upto(i)
    <3>1. f[i] = b \/ f[i] = a \o b
      BY <2>7
    <3>2. Once(op, f[i])
      BY <2>3, <2>9, <3>1, Zenon
    <3>3. Made(op, f[i]) = Made(op, b) \/ Made(op, f[i]) = Made(op, a \o b)
      BY <3>1, Zenon
    <3>4. \A x \in Made(op, f[i]) : x \in Upto(i)
      <4>1. \A x \in Made(op, b) : x \in Upto(i)
        BY <2>3, <2>6, Zenon
      <4>2. \A x \in Made(op, a) : x \in Upto(i)
        BY <2>2, <2>5, Zenon
      <4> QED
        BY <2>9, <3>3, <4>1, <4>2, Zenon
    <3> QED
      BY <3>2, <3>4
  <2> QED
    BY <2>1, <2>10 DEF Upto
<1> HIDE DEF B
<1>8. \A i \in 0 .. n : i \in B
  BY <1>1, <1>6, <1>7, UpTo
<1>9. n \in 0 .. n
  BY <1>1
<1>10. f[n] \in Seq(K) /\ Once(op, f[n]) /\ Made(op, f[n]) \subseteq Upto(n)
  BY <1>5, <1>8, <1>9 DEF B
<1>11. Upto(n) \subseteq Products(op)
  BY <1>1 DEF Products, T
<1>12. /\ FlattenSeq(ss) \in Seq(K) /\ Once(op, FlattenSeq(ss))
       /\ \A x \in Made(op, FlattenSeq(ss)) : x \in Products(op)
  BY <1>5, <1>10, <1>11
<1> QED
  BY <1>12 DEF ss, K
\* goDesktopBind: the libraries and the JAR are different files.
LEMMA DesktopPlanFacts ==
  ASSUME NEW op \in Making, NEW c, c.desk \in Seq(Tokens)
  PROVE  /\ DesktopPlan(c) \in Seq(KnownSteps) /\ Once(op, DesktopPlan(c))
         /\ Made(op, DesktopPlan(c)) \subseteq Products(op) \cup Jar(op)
<1> DEFINE host == << <<"host">> >>
           spec == IF c.desk = <<>> THEN host ELSE c.desk
           ts == parseDesktopTargets(spec)
           natives == FlattenSeq([i \in DOMAIN ts |-> TargetSteps(c, ts[i])])
           rejected == <<Step("reject", {"desktoptargets"}, {})>>
           k == Pack(<<"jar">>, ToSet(ts))
           jar == <<k>>
           K == KnownSteps
<1>1. DesktopPlan(c) = IF ts = <<>> THEN rejected ELSE natives \o jar
  BY Zenon DEF DesktopPlan, TargetSteps
<1>2. spec \in Seq(Tokens \cup {<<"host">>})
  <2> DEFINE S == Tokens \cup {<<"host">>}
             x == <<"host">>
  <2>1. Seq(Tokens) \subseteq Seq(S)
    <3> HIDE DEF x
    <3>1. \A s \in Seq(Tokens) : s \in Seq(S)
      OBVIOUS
    <3> QED
      BY <3>1
  <2>2. x \in S
    OBVIOUS
  <2> HIDE DEF S, x
  <2>3. <<x>> \in Seq(S)
    BY <2>2
  <2>4. spec = host \/ spec = c.desk
    BY Zenon
  <2> QED
    BY <2>1, <2>3, <2>4, Zenon DEF S, x
<1>3. ts \in Seq(Pairs(desktopPlatformArchs)) /\ Distinct(ts)
  BY <1>2, DesktopTargets
<1> HIDE DEF ts, spec, host
<1>4. natives \in Seq(KnownSteps) /\ Once(op, natives) /\ Made(op, natives) \subseteq Products(op)
  BY <1>3, NativePlans
<1>5. k \in KnownSteps /\ k.op = "pack" /\ k.of = {<<"jar">>}
  <2>1. \A x \in ToSet(ts) : x \in Dirs
    BY <1>3, ToSetFacts, BuildDirs
  <2>2. ToSet(ts) \in SUBSET Dirs /\ <<"jar">> \in Files
    BY <2>1 DEF Files
  <2>3. k \in KnownSteps
    BY <2>2, StepsKnown
  <2> QED
    BY <2>3 DEF Pack, Step
<1> HIDE DEF k, natives, K
<1>6. jar \in Seq(K) /\ Once(op, jar) /\ Made(op, jar) = Jar(op)
  <2>1. k \in K
    BY <1>5 DEF K
  <2>2. jar \in Seq(K) /\ DOMAIN jar = {1} /\ jar[1] = k
    BY <2>1
  <2> HIDE DEF jar
  <2>3. \A x : x \in Made(op, jar) <=> op = "pack" /\ x = <<"jar">>
    BY <1>5, <2>2 DEF Made
  <2>4. Made(op, jar) = Jar(op)
    BY <2>3 DEF Jar, Making
  <2> QED
    BY <2>2, <2>4 DEF Once
<1>7. rejected \in Seq(K) /\ Once(op, rejected) /\ Made(op, rejected) = {}
  <2> DEFINE s == Step("reject", {"desktoptargets"}, {})
  <2>1. s \in KnownSteps
    BY StepsKnown
  <2>2. s.op = "reject"
    BY DEF Step
  <2> HIDE DEF s
  <2>3. s \in K
    BY <2>1 DEF K
  <2>4. rejected \in Seq(K) /\ DOMAIN rejected = {1} /\ rejected[1] = s
    BY <2>3 DEF s
  <2> HIDE DEF rejected
  <2> QED
    BY <2>2, <2>4 DEF Once, Made, Making
<1> HIDE DEF jar, rejected
<1>8. /\ natives \o jar \in Seq(KnownSteps) /\ Once(op, natives \o jar)
      /\ Made(op, natives \o jar) \subseteq Made(op, natives) \cup Made(op, jar)
  <2>1. ASSUME op # "so"
        PROVE  <<"jar">> \notin Made(op, natives)
    <3>1. <<"jar">> \notin Products(op)
      BY <2>1, NativesDiffer DEF Products, Product
    <3> QED
      BY <1>4, <3>1
  <2>2. Made(op, natives) \cap Made(op, jar) = {}
    BY <1>6, <2>1 DEF Jar
  <2>3. jar \in Seq(KnownSteps)
    BY <1>6 DEF K
  <2> QED
    BY <1>4, <1>6, <2>2, <2>3, PlansJoin
<1>9. CASE ts = <<>>
  <2>1. DesktopPlan(c) = rejected
    BY <1>1, <1>9, Zenon
  <2> QED
    BY <1>7, <2>1 DEF K
<1>10. CASE ts # <<>>
  <2>1. DesktopPlan(c) = natives \o jar
    BY <1>1, <1>10, Zenon
  <2> QED
    BY <1>4, <1>6, <1>8, <2>1
<1> QED
  BY <1>9, <1>10

\* What goAndroidBind packs, and goAppleBind.
LEMMA MobilePlans ==
  ASSUME NEW op \in Making, NEW platforms \in SUBSET DOMAIN platformArchs, NEW dirs \in SUBSET Dirs
  PROVE  /\ LET p == <<Step("gen", platforms, {}), Step("so", dirs, {}), Pack(<<"aar">>, dirs), Pack(<<"sources">>, {})>>
            IN /\ p \in Seq(KnownSteps) /\ Once(op, p)
               /\ Made(op, p) \subseteq IF op = "so" THEN dirs ELSE {<<"aar">>, <<"sources">>}
         /\ LET p == <<Step("drop", {<<"xcframework">>}, {}), Step("gen", platforms, {}), Step("so", dirs, {}),
                       Pack(<<"xcframework">>, dirs)>>
            IN p \in Seq(KnownSteps) /\ Once(op, p)
<1> DEFINE K == KnownSteps
           g == Step("gen", platforms, {})
           s == Step("so", dirs, {})
           d == Step("drop", {<<"xcframework">>}, {})
           a == Pack(<<"aar">>, dirs)
           j == Pack(<<"sources">>, {})
           x == Pack(<<"xcframework">>, dirs)
<1>1. g \in K /\ s \in K /\ d \in K /\ a \in K /\ j \in K /\ x \in K
  <2>1. {<<"aar">>, <<"sources">>, <<"xcframework">>} \subseteq Files /\ platforms \in SUBSET (Dirs \cup DOMAIN platformArchs)
    BY DEF Files
  <2>2. {} \in SUBSET Dirs
    OBVIOUS
  <2> QED
    BY <2>1, <2>2, StepsKnown
<1>2. /\ g.op = "gen" /\ s.op = "so" /\ d.op = "drop" /\ a.op = "pack" /\ j.op = "pack" /\ x.op = "pack"
      /\ s.of = dirs /\ a.of = {<<"aar">>} /\ j.of = {<<"sources">>}
  BY DEF Step, Pack
<1>3. <<"aar">> # <<"sources">>
  OBVIOUS
<1> HIDE DEF K, g, s, d, a, j, x
<1> DEFINE p == <<g, s, a, j>>
           q == <<d, g, s, x>>
<1>4. p \in Seq(K) /\ DOMAIN p = 1 .. 4 /\ p[1] = g /\ p[2] = s /\ p[3] = a /\ p[4] = j
  BY <1>1
<1>5. q \in Seq(K) /\ DOMAIN q = 1 .. 4 /\ q[1] = d /\ q[2] = g /\ q[3] = s /\ q[4] = x
  BY <1>1
<1> HIDE DEF p, q
<1>6. \A i \in DOMAIN p :
         p[i].op = op => \/ op = "so" /\ i = 2 /\ p[i].of = dirs
                         \/ op = "pack" /\ i = 3 /\ p[i].of = {<<"aar">>}
                         \/ op = "pack" /\ i = 4 /\ p[i].of = {<<"sources">>}
  <2> TAKE i \in DOMAIN p
  <2>1. i = 1 \/ i = 2 \/ i = 3 \/ i = 4
    BY <1>4
  <2>2. CASE i = 1
    <3>1. p[i] = g
      BY <1>4, <2>2
    <3> QED
      BY <1>2, <3>1 DEF Making
  <2>3. CASE i = 2
    <3>1. p[i] = s
      BY <1>4, <2>3
    <3> QED
      BY <1>2, <2>3, <3>1
  <2>4. CASE i = 3
    <3>1. p[i] = a
      BY <1>4, <2>4
    <3>2. p[i].op = "pack" /\ p[i].of = {<<"aar">>}
      BY <1>2, <3>1, Zenon
    <3> QED
      BY <2>4, <3>2
  <2>5. CASE i = 4
    <3>1. p[i] = j
      BY <1>4, <2>5
    <3>2. p[i].op = "pack" /\ p[i].of = {<<"sources">>}
      BY <1>2, <3>1, Zenon
    <3> QED
      BY <2>5, <3>2
  <2> QED
    BY <2>1, <2>2, <2>3, <2>4, <2>5
<1>7. \A i \in DOMAIN q : q[i].op = op => i = IF op = "so" THEN 3 ELSE 4
  <2>1. \A i \in DOMAIN q : i = 1 \/ i = 2 \/ i = 3 \/ i = 4
    BY <1>5
  <2> QED
    BY <1>2, <1>5, <2>1 DEF Making
<1>8. Once(op, p) /\ Made(op, p) \subseteq IF op = "so" THEN dirs ELSE {<<"aar">>, <<"sources">>}
  <2>1. Once(op, p)
    BY <1>3, <1>6 DEF Once
  <2>2. \A y \in Made(op, p) : \/ op = "so" /\ y \in dirs
                               \/ op = "pack" /\ (y = <<"aar">> \/ y = <<"sources">>)
    BY <1>6 DEF Made
  <2> QED
    BY <2>1, <2>2
<1>9. Once(op, q)
  BY <1>7 DEF Once
<1> QED
  BY <1>4, <1>5, <1>8, <1>9 DEF p, q, g, s, d, a, j, x, K

\* The plan of a bind, whatever its targets.
LEMMA BindPlanFacts ==
  ASSUME NEW op \in Making, NEW c, c.spec \in Seq(Tokens), c.desk \in Seq(Tokens), parseBuildTarget(c.spec) # <<>>
  PROVE  BindPlan(c) \in Seq(KnownSteps) /\ Once(op, BindPlan(c))
<1> DEFINE ts == parseBuildTarget(c.spec)
           dirs == {BuildDir(ts[i]) : i \in DOMAIN ts}
           platforms == {ts[i][1] : i \in DOMAIN ts}
           kind == Kind(ts[1][1])
           android == <<Step("gen", platforms, {}), Step("so", dirs, {}), Pack(<<"aar">>, dirs), Pack(<<"sources">>, {})>>
           apple == <<Step("drop", {<<"xcframework">>}, {}), Step("gen", platforms, {}), Step("so", dirs, {}),
                      Pack(<<"xcframework">>, dirs)>>
           desktop == DesktopPlan(c)
           none == <<>>
           more == IF c.desktop THEN desktop ELSE none
           K == KnownSteps
<1>1. /\ ts \in Seq(Pairs(platformArchs)) /\ Len(ts) \in Nat \ {0}
      /\ \A i, j \in 1 .. Len(ts) : Kind(ts[i][1]) = Kind(ts[j][1])
  BY BuildTargets
<1>2. BindPlan(c) = IF kind = "jvm" THEN desktop ELSE IF kind = "android" THEN android \o more ELSE apple
  BY Zenon DEF BindPlan
<1>3. desktop \in Seq(K) /\ Once(op, desktop) /\ Made(op, desktop) \subseteq Products(op) \cup Jar(op)
  BY DesktopPlanFacts
<1> HIDE DEF desktop
<1>4. none \in Seq(K) /\ Once(op, none) /\ Made(op, none) = {}
  <2>1. none \in Seq(K) /\ DOMAIN none = {}
    BY DEF none
  <2> HIDE DEF none
  <2> QED
    BY <2>1 DEF Once, Made
<1>5. more \in Seq(K) /\ Once(op, more) /\ Made(op, more) \subseteq Products(op) \cup Jar(op)
  <2>1. more = desktop \/ more = none
    BY Zenon
  <2> HIDE DEF more, none
  <2> QED
    BY <1>3, <1>4, <2>1
<1>6. ASSUME kind # "jvm"
      PROVE  /\ android \in Seq(K) /\ Once(op, android)
             /\ Made(op, android) \subseteq IF op = "so" THEN dirs ELSE {<<"aar">>, <<"sources">>}
             /\ apple \in Seq(K) /\ Once(op, apple)
  <2>1. DOMAIN ts = 1 .. Len(ts) /\ 1 \in 1 .. Len(ts) /\ \A i \in 1 .. Len(ts) : ts[i] \in Pairs(platformArchs)
    BY <1>1
  <2>2. \A i \in DOMAIN ts : Kind(ts[i][1]) # "jvm"
    BY <1>1, <1>6, <2>1
  <2> HIDE DEF ts
  <2>3. \A i \in DOMAIN ts : ts[i][1] # "jvm"
    BY <2>2 DEF Kind
  <2>4. \A i \in DOMAIN ts : BuildDir(ts[i]) \in Dirs /\ ts[i][1] \in DOMAIN platformArchs
    BY <2>1, <2>3, BuildDirs, PairFacts
  <2>5. dirs \in SUBSET Dirs /\ platforms \in SUBSET DOMAIN platformArchs
    BY <2>4
  <2> HIDE DEF dirs, platforms
  <2> QED
    BY <2>5, MobilePlans
<1>7. ASSUME kind = "android", NEW d \in dirs
      PROVE  d \notin Products("so")
  <2>1. DOMAIN ts = 1 .. Len(ts) /\ 1 \in 1 .. Len(ts)
    BY <1>1
  <2>2. \A i \in DOMAIN ts : Kind(ts[i][1]) = "android"
    BY <1>1, <1>7, <2>1
  <2> HIDE DEF ts
  <2>3. PICK a : d = <<a>>
    BY <1>7, <2>2 DEF Kind, BuildDir
  <2>4. \A t \in Pairs(desktopPlatformArchs) : t = <<t[1], t[2]>>
    BY PairFacts
  <2>5. \A t \in Products("so") : \E x, y : t = <<x, y>>
    BY <2>4, Zenon DEF Products, Product
  <2>6. \A x, y : <<a>> # <<x, y>>
    OBVIOUS
  <2> QED
    BY <2>3, <2>5, <2>6, Zenon
<1> HIDE DEF kind, android, apple, more, dirs
<1>8. ASSUME kind = "android"
      PROVE  android \o more \in Seq(KnownSteps) /\ Once(op, android \o more)
  <2>1. Made(op, android) \cap Made(op, more) = {}
    <3>1. CASE op = "so"
      <4>1. \A d \in Made(op, android) : d \notin Products(op) \cup Jar(op)
        BY <1>6, <1>7, <1>8, <3>1 DEF Jar
      <4> QED
        BY <1>5, <4>1
    <3>2. CASE op # "so"
      <4>1. <<"aar">> \notin Products(op) /\ <<"sources">> \notin Products(op)
        BY <3>2, NativesDiffer DEF Products, Product
      <4>2. <<"aar">> # <<"jar">> /\ <<"sources">> # <<"jar">>
        OBVIOUS
      <4> QED
        BY <1>5, <1>6, <1>8, <3>2, <4>1, <4>2 DEF Jar
    <3> QED
      BY <3>1, <3>2
  <2>2. android \in Seq(KnownSteps) /\ more \in Seq(KnownSteps)
    BY <1>5, <1>6, <1>8
  <2> QED
    BY <1>5, <1>6, <1>8, <2>1, <2>2, PlansJoin
<1> HIDE DEF K
<1>9. CASE kind = "jvm"
  <2>1. BindPlan(c) = desktop
    BY <1>2, <1>9, Zenon
  <2> QED
    BY <1>3, <2>1, Zenon DEF K
<1>10. CASE kind # "jvm" /\ kind = "android"
  <2>1. BindPlan(c) = android \o more
    BY <1>2, <1>10, Zenon
  <2> QED
    BY <1>8, <1>10, <2>1, Zenon
<1>11. CASE kind # "jvm" /\ kind # "android"
  <2>1. BindPlan(c) = apple
    BY <1>2, <1>11, Zenon
  <2> QED
    BY <1>6, <1>11, <2>1, Zenon DEF K
<1> QED
  BY <1>9, <1>10, <1>11

\* For every command line: the steps of a bind are those its handlers know, its libraries go to the
\* directories under ./build, and no two of its steps compile the same directory or pack the same
\* file (build.go, env.go and bind_desktop.go name a target once; bind_androidapp.go,
\* bind_desktop.go and bind_iosapp.go name their directories and files by target).
THEOREM PlansSound ==
    \A c \in Commands : c.cmd = "bind" /\ parseBuildTarget(c.spec) # <<>> =>
        LET plan == Plan(c)
        IN /\ Len(plan) \in Nat /\ DOMAIN plan = 1 .. Len(plan)
           /\ \A i \in DOMAIN plan : /\ plan[i].op \in {"gen", "so", "pack", "drop", "reject"}
                                     /\ plan[i].libs \subseteq Dirs /\ (plan[i].op = "so" => plan[i].of \subseteq Dirs)
           /\ \A op \in {"so", "pack"} : \A i, j \in DOMAIN plan :
                 plan[i].op = op /\ plan[j].op = op /\ i # j => plan[i].of \cap plan[j].of = {}
<1> SUFFICES ASSUME NEW c \in Commands, c.cmd = "bind", parseBuildTarget(c.spec) # <<>>
             PROVE  LET plan == Plan(c)
                    IN /\ Len(plan) \in Nat /\ DOMAIN plan = 1 .. Len(plan)
                       /\ \A i \in DOMAIN plan :
                             /\ plan[i].op \in {"gen", "so", "pack", "drop", "reject"}
                             /\ plan[i].libs \subseteq Dirs /\ (plan[i].op = "so" => plan[i].of \subseteq Dirs)
                       /\ \A op \in {"so", "pack"} : \A i, j \in DOMAIN plan :
                             plan[i].op = op /\ plan[j].op = op /\ i # j => plan[i].of \cap plan[j].of = {}
  BY Zenon
<1> DEFINE plan == Plan(c)
<1>1. c.spec \in Seq(Tokens) /\ c.desk \in Seq(Tokens)
  BY CommandsAssumption
<1>2. Plan(c) = BindPlan(c)
  BY DEF Plan
<1>3. plan \in Seq(KnownSteps) /\ \A op \in Making : Once(op, plan)
  <2>1. \A op \in Making : plan \in Seq(KnownSteps) /\ Once(op, plan)
    BY <1>1, <1>2, BindPlanFacts
  <2> QED
    BY <2>1 DEF Making
<1> HIDE DEF plan
<1>4. Len(plan) \in Nat /\ DOMAIN plan = 1 .. Len(plan) /\ \A i \in DOMAIN plan : plan[i] \in KnownSteps
  <2> DEFINE K == KnownSteps
  <2> HIDE DEF K
  <2>1. plan \in Seq(K)
    BY <1>3 DEF K
  <2>2. Len(plan) \in Nat /\ DOMAIN plan = 1 .. Len(plan) /\ \A i \in DOMAIN plan : plan[i] \in K
    BY <2>1
  <2> QED
    BY <2>2 DEF K
<1>5. \A s \in KnownSteps : /\ s.op \in {"gen", "so", "pack", "drop", "reject"}
                            /\ s.libs \subseteq Dirs /\ (s.op = "so" => s.of \subseteq Dirs)
  BY DEF KnownSteps
<1> QED
  BY <1>3, <1>4, <1>5 DEF plan, Once, Making

USE RunsAssumption DEF Runs

-----------------------------------------------------------------------------
(* The inductive invariant. *)

IsBind(r) == run[r].c.cmd = "bind"
Copies(r) == run[r].c.mods /\ ~run[r].c.n
Op(x) == Plan(x.c)[x.step].op
InHand(r, d) == d \in DOMAIN run[r].unit
Removing(s, d) == InHand(s, d) /\ run[s].unit[d].at = "remove"

\* A record of an invocation, and of what it does about one directory or output.
Shape(x) == DOMAIN x = {"c", "pc", "step", "todo", "unit", "failed", "libs", "blocked", "spoilt", "unremoved", "kept"}
UnitShape(u) == DOMAIN u = {"at", "left", "ok"}

\* What an invocation has at each point.
Early == {"idle", "start", "check", "mkdir", "tempdir"}
RecordOK(x) ==
    /\ Shape(x) /\ x.failed \in BOOLEAN
    /\ x.pc \in Early \cup {"steps", "exit"} \cup Ended
    /\ IF x.pc = "idle" THEN x.c = NoCommand ELSE x.c \in Commands
    /\ x.pc = "check" => x.c.cmd = "bind"
    /\ x.pc \in {"mkdir", "tempdir"} => x.c.cmd = "init"
    /\ x.pc \in Early => x.step = 0 /\ x.todo = {} /\ ~x.failed /\ x.blocked = {} /\ x.spoilt = {} /\ x.unremoved = {}
    /\ x.pc \in {"steps", "crashed"} \/ DOMAIN x.unit = {}
    /\ x.pc = "steps" =>
         /\ DOMAIN x.unit \subseteq x.todo
         /\ x.spoilt \cap x.todo = {} /\ (x.spoilt # {} => x.failed)
         /\ x.c.cmd = "bind" \/ (x.c.cmd = "init" /\ x.step \in 1 .. Len(InitPlan(x.c)))
\* A copy is under way in a step that compiles, an output in one that packs.
UnitOK(x) ==
    \A d \in DOMAIN x.unit :
        /\ UnitShape(x.unit[d]) /\ x.unit[d].ok \in BOOLEAN
        /\ \/ x.unit[d].at = "copy" /\ x.c.cmd = "bind" /\ (x.pc = "steps" => Op(x) = "so")
           \/ x.unit[d].at = "remove" /\ x.c.cmd = "bind" /\ (x.pc = "steps" => Op(x) = "so") /\ x.c.mods
           \/ x.unit[d].at = "write" /\ (x.pc = "steps" => Op(x) = "pack")
        /\ x.unit[d].left = <<>> \/ (x.unit[d].at = "copy" /\ x.c.mods /\ ~x.c.n)

\* Invocations start in order, and a bind runs alone and after every other bind.
InOrder == \A r \in Runs : \A q \in 1 .. r - 1 : run[q].pc = "idle" => run[r].pc = "idle"
Alone == \A q, r \in Runs : IsBind(r) /\ Active(r) => /\ Active(q) => q = r
                                                      /\ IsBind(q) => q <= r

\* Who wrote a file: a bind that still has the directory in hand, spoilt it or could not remove it.
WriterOf(q, d, f) == /\ q \in Runs /\ IsBind(q) /\ Copies(q) /\ f \in ToSet(run[q].c.files)
                     /\ d \in run[q].spoilt \cup run[q].unremoved \/ (InHand(q, d) /\ run[q].unit[d].at # "write")
WriterOK == \A d \in DOMAIN build : \A f \in DOMAIN build[d] : WriterOf(build[d][f], d, f)

\* How far a copy got: what is not left is there, unless its process died and the directory
\* has been removed since, or that was begun.
Undone(s, d) == Removing(s, d) \/ d \in run[s].unremoved
Wrote(r, d, f) == d \in DOMAIN build /\ f \in DOMAIN build[d] /\ build[d][f] = r
CopyOK(r, d) ==
    InHand(r, d) /\ run[r].unit[d].at = "copy" /\ Copies(r) =>
        LET left == run[r].unit[d].left
        IN /\ left \in Seq(ToSet(run[r].c.files)) /\ (\A i, j \in DOMAIN left : left[i] = left[j] => i = j)
           /\ \A f \in ToSet(left) : ~Wrote(r, d, f)
           /\ \/ d \in DOMAIN build /\ \A f \in ToSet(run[r].c.files) \ ToSet(left) : Wrote(r, d, f)
              \/ run[r].pc = "crashed" /\ \A f \in ToSet(run[r].c.files) : ~Wrote(r, d, f)
              \/ run[r].pc = "crashed" /\ \E s \in r .. MaxRuns : Undone(s, d)

WorkOK == \A r \in Runs : r \in work => \/ run[r].pc \in {"check", "steps", "exit", "crashed"}
                                        \/ run[r].pc \in {"ok", "failed"} /\ (run[r].c.work \/ run[r].kept)

Control == /\ run = [r \in Runs |-> run[r]]
           /\ \A r \in Runs : RecordOK(run[r]) /\ UnitOK(run[r])
           /\ InOrder /\ Alone
Books == WriterOK /\ (\A r \in Runs : \A d \in DOMAIN run[r].unit : CopyOK(r, d)) /\ OnlyAfterInterruption
IInv == Control /\ Books /\ WorkOK

-----------------------------------------------------------------------------
(* Records of invocations. *)

\* What becomes of an invocation when a member of its step m is done: the rest of the step is
\* left, or the command ends, or its next step begins.
Done(x, n, m, ok) ==
    /\ Shape(n) /\ n.c = x.c /\ n.libs = x.libs /\ n.blocked = x.blocked /\ n.spoilt = x.spoilt /\ n.unremoved = x.unremoved
    /\ n.unit = Drop(x.unit, m) /\ n.failed = (x.failed \/ ~ok)
    /\ \/ n.todo = x.todo \ {m} /\ n.todo # {} /\ n.pc = x.pc /\ n.step = x.step
       \/ n.todo = {} /\ x.todo \ {m} = {} /\ n.pc = "exit" /\ n.step = x.step
       \/ /\ x.todo \ {m} = {} /\ ~n.failed /\ x.step # Len(Plan(x.c))
          /\ n.todo = Plan(x.c)[n.step].of /\ n.pc = x.pc /\ n.step = x.step + 1

\* Advance changes the point, the step and what is left of it (AnjaPlan and the groups of
\* bind_iosapp.go:41).
LEMMA AdvanceFacts ==
  ASSUME NEW x, Shape(x)
  PROVE  LET n == Advance(x)
         IN /\ Shape(n) /\ n.c = x.c /\ n.libs = x.libs /\ n.blocked = x.blocked /\ n.spoilt = x.spoilt
            /\ n.unremoved = x.unremoved
            /\ n.unit = x.unit /\ n.failed = x.failed
            /\ \/ n.todo = x.todo /\ n.todo # {} /\ n.pc = x.pc /\ n.step = x.step
               \/ n.todo = {} /\ x.todo = {} /\ n.pc = "exit" /\ n.step = x.step
               \/ /\ x.todo = {} /\ ~n.failed /\ x.step # Len(Plan(x.c))
                  /\ n.todo = Plan(x.c)[n.step].of /\ n.pc = x.pc /\ n.step = x.step + 1
BY DEF Advance, Shape

\* A member that is done ends, or does not, the step it belongs to.
LEMMA MemberFacts ==
  ASSUME NEW x, Shape(x), x.failed \in BOOLEAN, NEW m, NEW ok \in BOOLEAN
  PROVE  Done(x, Member(x, m, ok), m, ok)
<1> DEFINE y == [x EXCEPT !.todo = @ \ {m}, !.unit = Drop(@, m), !.failed = @ \/ ~ok]
<1>1. /\ Shape(y) /\ y.c = x.c /\ y.libs = x.libs /\ y.blocked = x.blocked /\ y.spoilt = x.spoilt
      /\ y.unremoved = x.unremoved
      /\ y.unit = Drop(x.unit, m) /\ y.failed = (x.failed \/ ~ok) /\ y.todo = x.todo \ {m}
      /\ y.pc = x.pc /\ y.step = x.step
  BY DEF Shape
<1>2. Member(x, m, ok) = Advance(y)
  BY DEF Member
<1> HIDE DEF y
<1> QED
  BY <1>1, <1>2, AdvanceFacts DEF Done

\* init has at least one step, and neither compiles nor packs (init.go:73); it gets OpenAL for
\* the Android architectures.
LEMMA InitPlanFacts ==
  ASSUME NEW c
  PROVE  /\ Len(InitPlan(c)) \in Nat \ {0} /\ DOMAIN InitPlan(c) = 1 .. Len(InitPlan(c))
         /\ \A i \in 1 .. Len(InitPlan(c)) :
               LET s == InitPlan(c)[i]
               IN /\ s.op \in {"install", "openal"}
                  /\ s.op = "openal" => s.of \subseteq {"include", "arm", "arm64", "386", "amd64"}
<1> DEFINE Parts == {"include", "arm", "arm64", "386", "amd64"}
           S == {Step("install", {"anjb"}, {})} \cup {Step("openal", {a}, {}) : a \in Parts}
           parts == <<"include">> \o platformArchs.android
           rest == IF c.openal THEN [i \in DOMAIN parts |-> Step("openal", {parts[i]}, {})] ELSE <<>>
           first == <<Step("install", {"anjb"}, {})>>
<1>1. parts \in Seq(Parts)
  BY DEF platformArchs
<1>2. rest \in Seq(S) /\ \A i \in 1 .. Len(rest) : rest[i].op = "openal" /\ rest[i].of \subseteq Parts
  <2> HIDE DEF parts
  <2>1. Len(parts) \in Nat /\ DOMAIN parts = 1 .. Len(parts)
    BY <1>1, LenProperties
  <2>2. \A i \in DOMAIN parts : parts[i] \in Parts
    BY <1>1, ElementOfSeq, <2>1
  <2>3. CASE c.openal
    <3>1. rest = [i \in 1 .. Len(parts) |-> Step("openal", {parts[i]}, {})]
      BY <2>1, <2>3
    <3>2. \A i \in 1 .. Len(parts) : /\ Step("openal", {parts[i]}, {}) \in S
                                     /\ Step("openal", {parts[i]}, {}).op = "openal"
                                     /\ Step("openal", {parts[i]}, {}).of \subseteq Parts
      BY <2>1, <2>2 DEF Step
    <3> HIDE DEF S, Parts
    <3>3. rest \in Seq(S)
      BY <2>1, <3>1, <3>2, IsASeq
    <3>4. Len(rest) = Len(parts)
      BY <2>1, <3>1, <3>3, LenProperties
    <3> QED
      BY <3>1, <3>2, <3>3, <3>4
  <2>4. CASE ~c.openal
    BY <2>4, EmptySeq
  <2> QED
    BY <2>3, <2>4
<1>3. InitPlan(c) = first \o rest
  BY DEF InitPlan
<1> HIDE DEF parts, rest, Parts
<1>4. Len(rest) \in Nat
  BY <1>2, LenProperties
<1>5. first \in Seq(S) /\ Len(first) = 1 /\ first[1].op = "install"
  BY DEF Step
<1> HIDE DEF first, S
<1>6. /\ Len(first \o rest) = Len(first) + Len(rest)
      /\ \A i \in 1 .. Len(first) + Len(rest) :
            (first \o rest)[i] = IF i <= Len(first) THEN first[i] ELSE rest[i - Len(first)]
  BY <1>2, <1>5, ConcatProperties, Zenon
<1>7. DOMAIN (first \o rest) = 1 .. Len(first \o rest)
  BY <1>2, <1>5, ConcatProperties, LenProperties, Zenon
<1>8. \A i \in 1 .. Len(first) + Len(rest) : IF i = 1 THEN (first \o rest)[i].op = "install"
                                            ELSE (first \o rest)[i].op = "openal" /\ (first \o rest)[i].of \subseteq Parts
  BY <1>2, <1>4, <1>5, <1>6
<1>9. Len(first) + Len(rest) \in Nat \ {0} /\ Len(first \o rest) = Len(first) + Len(rest)
  BY <1>4, <1>5, <1>6
<1>10. \A i \in 1 .. Len(first \o rest) :
          /\ (first \o rest)[i].op \in {"install", "openal"}
          /\ (first \o rest)[i].op = "openal" => (first \o rest)[i].of \subseteq Parts
  BY <1>8, <1>9
<1>11. Len(first \o rest) \in Nat \ {0}
  BY <1>9
<1> QED
  BY <1>3, <1>7, <1>10, <1>11 DEF Parts

\* The record of an invocation keeps its form when a member of a step is done; a directory
\* joins spoilt only with an error.
LEMMA MemberOK ==
  ASSUME NEW x, RecordOK(x), UnitOK(x), x.pc = "steps", NEW m, NEW ok \in BOOLEAN,
         NEW y, Shape(y), y.c = x.c, y.pc = x.pc, y.step = x.step, y.todo = x.todo, y.unit = x.unit,
         y.failed = x.failed, y.spoilt = x.spoilt \/ (y.spoilt = x.spoilt \cup {m} /\ ~ok)
  PROVE  /\ RecordOK(Member(y, m, ok)) /\ UnitOK(Member(y, m, ok)) /\ Done(y, Member(y, m, ok), m, ok)
         /\ Member(y, m, ok).pc \in {"steps", "exit"}
<1> DEFINE n == Member(y, m, ok)
<1>1. Done(y, n, m, ok)
  BY MemberFacts DEF RecordOK
<1> HIDE DEF n
<1>2. /\ n.pc \in {"steps", "exit"} /\ n.c = x.c /\ x.c \in Commands /\ Shape(n) /\ n.failed \in BOOLEAN
      /\ DOMAIN n.unit = DOMAIN x.unit \ {m} /\ \A d \in DOMAIN n.unit : n.unit[d] = x.unit[d]
  BY <1>1 DEF Done, RecordOK, Drop
<1>3. n.pc = "exit" => DOMAIN n.unit = {}
  BY <1>1, <1>2 DEF Done, RecordOK
<1>4. n.pc = "steps" => /\ DOMAIN n.unit \subseteq n.todo
                       /\ n.spoilt \cap n.todo = {} /\ (n.spoilt # {} => n.failed)
  BY <1>1, <1>2 DEF Done, RecordOK
<1>5. n.pc = "steps" => n.c.cmd = "bind" \/ (n.c.cmd = "init" /\ n.step \in 1 .. Len(InitPlan(n.c)))
  <2>1. x.c.cmd = "init" => Plan(x.c) = InitPlan(x.c)
    BY DEF Plan
  <2> QED
    BY <1>1, <1>2, <2>1, InitPlanFacts DEF Done, RecordOK
<1>6. RecordOK(n)
  BY <1>2, <1>3, <1>4, <1>5 DEF RecordOK, Early, Ended
<1>7. UnitOK(n)
  <2>1. n.pc = "steps" /\ DOMAIN n.unit # {} => n.step = x.step
    BY <1>1, <1>2 DEF Done, RecordOK
  <2> QED
    BY <1>2, <1>3, <2>1 DEF UnitOK, Op
<1> QED
  BY <1>1, <1>2, <1>6, <1>7 DEF n

\* So does the record of one that begins its first step (Check, InitWork).
LEMMA StartStepsOK ==
  ASSUME NEW x, RecordOK(x), x.pc \in {"check", "tempdir"}
  PROVE  LET n == Advance([x EXCEPT !.pc = "steps"])
         IN /\ RecordOK(n) /\ UnitOK(n) /\ n.c = x.c /\ n.blocked = x.blocked /\ n.spoilt = x.spoilt
            /\ n.unremoved = x.unremoved
            /\ n.pc \in {"steps", "exit"} /\ DOMAIN n.unit = {}
            /\ n.failed = x.failed
<1> DEFINE y == [x EXCEPT !.pc = "steps"]
           n == Advance(y)
<1>1. /\ Shape(y) /\ y.pc = "steps" /\ y.c = x.c /\ y.step = 0 /\ y.todo = {} /\ y.unit = x.unit /\ ~y.failed
      /\ y.failed = x.failed /\ y.blocked = {} /\ y.spoilt = {} /\ y.unremoved = {} /\ x.blocked = {}
      /\ x.spoilt = {} /\ x.unremoved = {}
      /\ DOMAIN y.unit = {} /\ x.c \in Commands
      /\ x.failed = FALSE
  BY DEF RecordOK, Shape, Early
<1> HIDE DEF y
<1>2. /\ Shape(n) /\ n.c = x.c /\ n.blocked = {} /\ n.spoilt = {} /\ n.unremoved = {}
      /\ DOMAIN n.unit = {} /\ n.failed = FALSE
      /\ \/ n.todo = {} /\ n.pc = "exit"
         \/ n.pc = "steps" /\ n.step = 1
  BY <1>1, AdvanceFacts
<1> HIDE DEF n
<1>3. x.c.cmd = "bind" \/ (x.c.cmd = "init" /\ 1 \in 1 .. Len(InitPlan(x.c)))
  BY InitPlanFacts DEF RecordOK
<1>4. RecordOK(n)
  BY <1>1, <1>2, <1>3 DEF RecordOK, Early, Ended
<1>5. UnitOK(n)
  BY <1>2 DEF UnitOK
<1> QED
  BY <1>1, <1>2, <1>4, <1>5 DEF n, y

-----------------------------------------------------------------------------
(* Steps of one invocation. *)

\* One invocation changes.
LEMMA Update ==
  ASSUME Control, NEW r \in Runs, NEW n, run' = [run EXCEPT ![r] = n]
  PROVE  /\ run' = [q \in Runs |-> run'[q]]
         /\ run'[r] = n
         /\ \A q \in Runs \ {r} : run'[q] = run[q]
BY DEF Control

\* No invocation but the one at hand is active while a bind is.
LEMMA OnlyBind ==
  ASSUME Control, NEW r \in Runs, IsBind(r), Active(r)
  PROVE  /\ \A q \in Runs \ {r} : run[q].pc \in Ended \cup {"idle"}
         /\ \A q \in Runs : IsBind(q) => q <= r
BY DEF Control, Alone, Active

\* A step of an invocation that stays what it is keeps the records and their order.
LEMMA ControlStep ==
  ASSUME Control, NEW r \in Runs, NEW n, run' = [run EXCEPT ![r] = n],
         RecordOK(n), UnitOK(n), n.c = run[r].c,
         run[r].pc \notin Ended \cup {"idle"}
  PROVE  Control'
<1>1. /\ run' = [q \in Runs |-> run'[q]]
      /\ run'[r] = n
      /\ \A q \in Runs \ {r} : run'[q] = run[q]
  BY Update
<1>2. \A q \in Runs : RecordOK(run'[q]) /\ UnitOK(run'[q])
  BY <1>1 DEF Control
<1>3. n.pc # "idle"
  BY CommandsAssumption DEF RecordOK, NoCommand, Control
<1>4. InOrder'
  <2>1. \A q, s \in Runs : s < q /\ run[s].pc = "idle" => run[q].pc = "idle"
    <3>1. \A q, s \in Runs : s < q => s \in 1 .. q - 1
      OBVIOUS
    <3> QED
      BY <3>1 DEF Control, InOrder
  <2>2. \A q \in Runs : run'[q].pc = "idle" <=> run[q].pc = "idle"
    BY <1>1, <1>3 DEF Ended
  <2>3. \A q, s \in Runs : s < q /\ run'[s].pc = "idle" => run'[q].pc = "idle"
    BY <2>1, <2>2
  <2>4. \A q \in Runs : \A s \in 1 .. q - 1 : s \in Runs /\ s < q
    OBVIOUS
  <2> QED
    BY <2>3, <2>4 DEF InOrder
<1>5. Alone'
  <2>1. \A q \in Runs : IsBind(q)' <=> IsBind(q)
    BY <1>1 DEF IsBind
  <2>2. \A q \in Runs : Active(q)' => Active(q)
    BY <1>1 DEF Active
  <2> QED
    BY <2>1, <2>2 DEF Alone, Control
<1> QED
  BY <1>1, <1>2, <1>4, <1>5 DEF Control

\* A step that neither writes a source nor takes up, ends or spoils a copy keeps the books.
LEMMA QuietStep ==
  ASSUME Control, Books, NEW r \in Runs, NEW n, run' = [run EXCEPT ![r] = n], UNCHANGED build,
         n.c = run[r].c \/ run[r].pc = "idle",
         n.blocked = run[r].blocked, n.spoilt = run[r].spoilt /\ n.unremoved = run[r].unremoved,
         \A d \in DOMAIN run[r].unit :
            run[r].unit[d].at # "write" /\ run[r].c.mods => d \in DOMAIN n.unit /\ n.unit[d] = run[r].unit[d],
         \A d \in DOMAIN n.unit :
            n.unit[d].at # "write" => d \in DOMAIN run[r].unit /\ n.unit[d] = run[r].unit[d],
         run[r].pc # "crashed"
  PROVE  Books'
<1>1. /\ run'[r] = n
      /\ \A q \in Runs \ {r} : run'[q] = run[q]
  BY Update
<1>2. \A q \in Runs : RecordOK(run[q]) /\ UnitOK(run[q])
  BY DEF Control
<1>3. \A q \in Runs : \A d, f : Wrote(q, d, f)' <=> Wrote(q, d, f)
  BY DEF Wrote
<1>4. \A q \in Runs : \A d : InHand(q, d) /\ run[q].unit[d].at # "write" /\ run[q].c.mods =>
            InHand(q, d)' /\ run'[q].unit[d] = run[q].unit[d]
  BY <1>1 DEF InHand
<1>5. \A q \in Runs : \A d : InHand(q, d)' /\ run'[q].unit[d].at # "write" =>
            InHand(q, d) /\ run'[q].unit[d] = run[q].unit[d]
  BY <1>1 DEF InHand
<1>6. \A s \in Runs : \A d : Removing(s, d) => Removing(s, d)'
  BY <1>2, <1>4 DEF Removing, UnitOK, InHand
<1>7. \A s \in Runs : \A d : Undone(s, d) => Undone(s, d)'
  BY <1>1, <1>6 DEF Undone
<1>8. \A q \in Runs : /\ run'[q].spoilt = run[q].spoilt /\ run'[q].unremoved = run[q].unremoved
                      /\ run'[q].blocked = run[q].blocked
                      /\ run[q].pc = "crashed" => run'[q].pc = "crashed"
                      /\ run[q].pc # "idle" => run'[q].c = run[q].c
  BY <1>1
<1>9. \A q \in Runs : run[q].pc = "idle" => DOMAIN run[q].unit = {} /\ run[q].spoilt = {} /\ run[q].unremoved = {}
  BY <1>2 DEF RecordOK, Early
<1>10. WriterOK'
  <2>1. SUFFICES ASSUME NEW d \in DOMAIN build, NEW f \in DOMAIN build[d]
                 PROVE  WriterOf(build[d][f], d, f)'
    BY DEF WriterOK
  <2>2. WriterOf(build[d][f], d, f)
    BY DEF WriterOK, Books
  <2> QED
    BY <2>2, <1>4, <1>8, <1>9 DEF WriterOf, IsBind, Copies, InHand
<1>11. ASSUME NEW q \in Runs, NEW d \in DOMAIN run'[q].unit
       PROVE  CopyOK(q, d)'
  <2> SUFFICES ASSUME run'[q].unit[d].at = "copy", Copies(q)'
               PROVE  CopyOK(q, d)'
    BY DEF CopyOK
  <2>1. InHand(q, d) /\ run'[q].unit[d] = run[q].unit[d] /\ run'[q].c = run[q].c /\ Copies(q)
    BY <1>5, <1>8, <1>9 DEF InHand, Copies
  <2>2. CopyOK(q, d)
    BY <2>1 DEF Books, InHand
  <2>3. \A s \in q .. MaxRuns : s \in Runs
    OBVIOUS
  <2> QED
    BY <2>1, <2>2, <2>3, <1>3, <1>8, <1>7 DEF CopyOK
<1>12. OnlyAfterInterruption'
  <2>1. \A q \in Runs : \A d : Died(q, d) => Died(q, d)'
    BY <1>1 DEF Died
  <2>2. \A q \in Runs : 1 .. q - 1 \subseteq Runs
    OBVIOUS
  <2> QED
    BY <2>1, <2>2, <1>8 DEF OnlyAfterInterruption, Books
<1> QED
  BY <1>10, <1>11, <1>12 DEF Books

\* A step that makes no work directory keeps it known which there are.
LEMMA WorkStep ==
  ASSUME Control, WorkOK, NEW r \in Runs, NEW n, run' = [run EXCEPT ![r] = n], work' \subseteq work,
         r \in work' => \/ n.pc \in {"check", "steps", "exit", "crashed"}
                        \/ n.pc \in {"ok", "failed"} /\ (n.c.work \/ n.kept)
  PROVE  WorkOK'
BY Update DEF WorkOK

\* A member of a step other than a copy, or a copy that has not begun, is done.
LEMMA MemberStep ==
  ASSUME IInv, NEW r \in Runs, run[r].pc = "steps", NEW m, NEW ok \in BOOLEAN,
         Op(run[r]) # "so" \/ ~run[r].c.mods \/ m \notin DOMAIN run[r].unit,
         NEW y, Shape(y), y.c = run[r].c, y.pc = run[r].pc, y.step = run[r].step, y.todo = run[r].todo,
         y.unit = run[r].unit, y.failed = run[r].failed, y.spoilt = run[r].spoilt /\ y.unremoved = run[r].unremoved, y.blocked = run[r].blocked,
         run' = [run EXCEPT ![r] = Member(y, m, ok)], UNCHANGED <<build, work>>
  PROVE  IInv'
<1> DEFINE n == Member(y, m, ok)
<1>1. Control /\ Books /\ WorkOK /\ RecordOK(run[r]) /\ UnitOK(run[r])
  BY DEF IInv, Control
<1>2. RecordOK(n) /\ UnitOK(n) /\ Done(y, n, m, ok) /\ n.pc \in {"steps", "exit"}
  BY <1>1, MemberOK
<1> HIDE DEF n
<1>3. run' = [run EXCEPT ![r] = n]
  BY DEF n
<1>4. Control'
  BY <1>1, <1>2, <1>3, ControlStep DEF Done, Ended
<1>5. /\ DOMAIN n.unit = DOMAIN run[r].unit \ {m} /\ \A d \in DOMAIN n.unit : n.unit[d] = run[r].unit[d]
      /\ n.blocked = run[r].blocked /\ n.spoilt = run[r].spoilt /\ n.unremoved = run[r].unremoved /\ n.c = run[r].c
  BY <1>2 DEF Done, Drop
<1>6. \A d \in DOMAIN run[r].unit : run[r].unit[d].at # "write" /\ run[r].c.mods => d \in DOMAIN n.unit
  <2>1. CASE m \notin DOMAIN run[r].unit
    BY <1>5, <2>1
  <2>2. CASE Op(run[r]) # "so" \/ ~run[r].c.mods
    BY <1>1, <2>2 DEF UnitOK
  <2> QED
    BY <2>1, <2>2
<1>7. Books'
  BY <1>1, <1>3, <1>5, <1>6, QuietStep, ZenonT(30)
<1>8. WorkOK'
  BY <1>1, <1>2, <1>3, WorkStep
<1> QED
  BY <1>4, <1>7, <1>8 DEF IInv

\* A step that leaves the members, the copies and the work directories alone.
LEMMA PointStep ==
  ASSUME IInv, NEW r \in Runs, NEW n, run' = [run EXCEPT ![r] = n], UNCHANGED build, work' \subseteq work,
         RecordOK(n), UnitOK(n), n.c = run[r].c,
         run[r].pc \notin Ended \cup {"idle"},
         n.blocked = run[r].blocked, n.spoilt = run[r].spoilt /\ n.unremoved = run[r].unremoved,
         DOMAIN n.unit = DOMAIN run[r].unit, \A d \in DOMAIN n.unit : n.unit[d] = run[r].unit[d],
         r \in work' => \/ n.pc \in {"check", "steps", "exit", "crashed"}
                        \/ n.pc \in {"ok", "failed"} /\ (n.c.work \/ n.kept)
  PROVE  IInv'
<1>1. Control /\ Books /\ WorkOK
  BY DEF IInv
<1>2. Control'
  BY <1>1, ControlStep
<1>3. Books'
  BY <1>1, QuietStep DEF Ended
<1>4. WorkOK'
  BY <1>1, WorkStep
<1> QED
  BY <1>2, <1>3, <1>4 DEF IInv

-----------------------------------------------------------------------------
(* One lemma per action. *)

\* main: an invocation begins; its targets are rejected or not.
LEMMA InvokeKeeps ==
  ASSUME IInv, NEW r \in Runs, NEW c \in Commands, Invoke(r, c)
  PROVE  IInv'
<1> DEFINE n == [run[r] EXCEPT !.c = c,
                 !.pc = IF c.cmd = "bind" /\ parseBuildTarget(c.spec) = <<>> THEN "failed" ELSE "start"]
<1>1. Control /\ Books /\ WorkOK /\ RecordOK(run[r]) /\ run[r].pc = "idle"
  BY DEF IInv, Control, Invoke
<1>2. run' = [run EXCEPT ![r] = n] /\ UNCHANGED <<work, build>>
  BY DEF Invoke
<1>3. /\ Shape(n) /\ n.c = c /\ n.pc \in {"failed", "start"} /\ n.step = 0 /\ n.todo = {} /\ n.unit = run[r].unit
      /\ n.failed = FALSE /\ n.blocked = {} /\ n.spoilt = {} /\ n.unremoved = {} /\ DOMAIN n.unit = {}
      /\ run[r].blocked = {} /\ run[r].spoilt = {} /\ run[r].unremoved = {}
  BY <1>1 DEF RecordOK, Shape, Early
<1> HIDE DEF n
<1>4. RecordOK(n) /\ UnitOK(n)
  BY <1>3 DEF RecordOK, UnitOK, Early, Ended
<1>5. /\ run' = [q \in Runs |-> run'[q]]
      /\ run'[r] = n
      /\ \A q \in Runs \ {r} : run'[q] = run[q]
  BY <1>1, <1>2, Update
<1>6. InOrder'
  <2>1. \A q, s \in Runs : s < q /\ run[s].pc = "idle" => run[q].pc = "idle"
    <3>1. \A q, s \in Runs : s < q => s \in 1 .. q - 1
      OBVIOUS
    <3> QED
      BY <1>1, <3>1 DEF Control, InOrder
  <2>2. \A s \in Runs : s < r => run[s].pc # "idle"
    <3>1. \A s \in Runs : s < r => s \in 1 .. r - 1
      OBVIOUS
    <3> QED
      BY <3>1 DEF Invoke
  <2>3. \A q, s \in Runs : s < q /\ run'[s].pc = "idle" => run'[q].pc = "idle"
    BY <1>3, <1>5, <2>1, <2>2
  <2>4. \A q \in Runs : \A s \in 1 .. q - 1 : s \in Runs /\ s < q
    OBVIOUS
  <2> QED
    BY <2>3, <2>4 DEF InOrder
<1>7. Alone'
  <2> SUFFICES ASSUME NEW q \in Runs, NEW s \in Runs, IsBind(s)', Active(s)'
               PROVE  (Active(q)' => q = s) /\ (IsBind(q)' => q <= s)
    BY DEF Alone
  <2>1. CASE s = r
    <3>1. c.cmd = "bind"
      BY <1>3, <1>5, <2>1 DEF IsBind
    <3>2. \A t \in Runs : ~Active(t)
      BY <3>1 DEF Invoke
    <3>3. Active(q)' => q = r
      BY <1>5, <3>2 DEF Active
    <3>4. ASSUME q > r, IsBind(q)'
          PROVE  FALSE
      <4>1. r \in 1 .. q - 1
        BY <3>4
      <4>2. run[q].pc = "idle"
        BY <1>1, <4>1 DEF Control, InOrder
      <4>3. run[q].c = NoCommand
        BY <1>1, <4>2 DEF Control, RecordOK
      <4> QED
        BY <1>5, <3>4, <4>3 DEF IsBind, NoCommand
    <3> QED
      BY <2>1, <3>3, <3>4
  <2>2. CASE s # r
    <3>1. IsBind(s) /\ Active(s)
      BY <1>5, <2>2 DEF IsBind, Active
    <3>2. c.cmd # "bind"
      BY <3>1 DEF Invoke, IsBind
    <3>3. FALSE
      BY <3>1 DEF Invoke, IsBind
    <3> QED
      BY <3>3
  <2> QED
    BY <2>1, <2>2
<1>8. Control'
  BY <1>1, <1>4, <1>5, <1>6, <1>7 DEF Control
<1>9. Books'
  BY <1>1, <1>2, <1>3, QuietStep
<1>10. WorkOK'
  <2>1. r \notin work
    BY <1>1 DEF WorkOK
  <2> QED
    BY <1>1, <1>2, <2>1, WorkStep
<1> QED
  BY <1>8, <1>9, <1>10 DEF IInv

\* The steps of a bind before its plan.
LEMMA MakeWorkKeeps ==
  ASSUME IInv, NEW r \in Runs, MakeWork(r)
  PROVE  IInv'
<1>1. Control /\ Books /\ WorkOK /\ RecordOK(run[r]) /\ UnitOK(run[r]) /\ run[r].pc = "start" /\ IsBind(r)
  BY DEF IInv, Control, MakeWork, IsBind
<1>2. r \notin work
  BY <1>1 DEF WorkOK
<1>3. ASSUME NEW pc \in {"check", "failed"}, NEW n, n = [run[r] EXCEPT !.pc = pc]
      PROVE  /\ RecordOK(n) /\ UnitOK(n) /\ n.c = run[r].c /\ n.pc = pc
             /\ n.blocked = run[r].blocked /\ n.spoilt = run[r].spoilt /\ n.unremoved = run[r].unremoved
             /\ DOMAIN n.unit = DOMAIN run[r].unit /\ \A d \in DOMAIN n.unit : n.unit[d] = run[r].unit[d]
  <2>1. /\ Shape(n) /\ n.pc = pc /\ n.c = run[r].c /\ n.step = run[r].step /\ n.todo = run[r].todo
        /\ n.unit = run[r].unit /\ n.failed = run[r].failed /\ n.blocked = run[r].blocked
        /\ n.spoilt = run[r].spoilt /\ n.unremoved = run[r].unremoved
        /\ DOMAIN run[r].unit = {}
    BY <1>1, <1>3 DEF RecordOK, Shape
  <2>2. RecordOK(n) /\ UnitOK(n)
    BY <1>1, <2>1 DEF RecordOK, UnitOK, Early, Ended, IsBind
  <2> QED
    BY <2>1, <2>2
<1>4. CASE run' = [run EXCEPT ![r].pc = "check"]
  <2> DEFINE n == [run[r] EXCEPT !.pc = "check"]
  <2>1. run' = [run EXCEPT ![r] = n]
    BY <1>4
  <2>2. /\ RecordOK(n) /\ UnitOK(n) /\ n.c = run[r].c /\ n.pc = "check"
        /\ n.blocked = run[r].blocked /\ n.spoilt = run[r].spoilt /\ n.unremoved = run[r].unremoved
        /\ DOMAIN n.unit = DOMAIN run[r].unit /\ \A d \in DOMAIN n.unit : n.unit[d] = run[r].unit[d]
    BY <1>3
  <2> HIDE DEF n
  <2>3. Control'
    BY <1>1, <2>1, <2>2, ControlStep DEF Ended
  <2>4. Books'
    BY <1>1, <2>1, <2>2, QuietStep DEF MakeWork
  <2>5. WorkOK'
    <3>1. work' \subseteq work \cup {r}
      BY DEF MakeWork
    <3> QED
      BY <1>1, <2>1, <2>2, <3>1, Update DEF WorkOK
  <2> QED
    BY <2>3, <2>4, <2>5 DEF IInv
<1>5. CASE run' = [run EXCEPT ![r].pc = "failed"] /\ UNCHANGED work
  <2> DEFINE n == [run[r] EXCEPT !.pc = "failed"]
  <2>1. run' = [run EXCEPT ![r] = n]
    BY <1>5
  <2>2. /\ RecordOK(n) /\ UnitOK(n) /\ n.c = run[r].c /\ n.pc = "failed"
        /\ n.blocked = run[r].blocked /\ n.spoilt = run[r].spoilt /\ n.unremoved = run[r].unremoved
        /\ DOMAIN n.unit = DOMAIN run[r].unit /\ \A d \in DOMAIN n.unit : n.unit[d] = run[r].unit[d]
    BY <1>3
  <2> HIDE DEF n
  <2> QED
    BY <1>1, <1>2, <1>5, <2>1, <2>2, PointStep DEF MakeWork, Ended
<1>6. CASE /\ run' = [run EXCEPT ![r] = [@ EXCEPT !.pc = "failed", !.kept = ~run[r].c.work]]
           /\ work' = work \cup {r}
  <2> DEFINE n == [run[r] EXCEPT !.pc = "failed", !.kept = ~run[r].c.work]
  <2>1. run' = [run EXCEPT ![r] = n]
    BY <1>6
  <2>2. /\ Shape(n) /\ n.pc = "failed" /\ n.c = run[r].c /\ n.step = run[r].step /\ n.todo = run[r].todo
        /\ n.unit = run[r].unit /\ n.failed = run[r].failed /\ n.blocked = run[r].blocked
        /\ n.spoilt = run[r].spoilt /\ n.unremoved = run[r].unremoved
        /\ DOMAIN run[r].unit = {} /\ n.kept = ~run[r].c.work
    BY <1>1 DEF RecordOK, Shape
  <2> HIDE DEF n
  <2>3. RecordOK(n) /\ UnitOK(n)
    BY <1>1, <2>2 DEF RecordOK, UnitOK, Early, Ended, IsBind
  <2>4. Control'
    BY <1>1, <2>1, <2>2, <2>3, ControlStep DEF Ended
  <2>5. Books'
    BY <1>1, <2>1, <2>2, QuietStep DEF MakeWork
  <2>6. WorkOK'
    <3>1. run[r].c \in Commands
      BY <1>1 DEF RecordOK
    <3>2. run[r].c.work \in BOOLEAN
      BY <3>1, CommandsAssumption
    <3>3. n.c.work \/ n.kept
      BY <2>2, <3>2
    <3> QED
      BY <1>1, <1>6, <2>1, <2>2, <3>3, Update DEF WorkOK
  <2> QED
    BY <2>4, <2>5, <2>6 DEF IInv
<1> QED
  BY <1>4, <1>5, <1>6 DEF MakeWork

LEMMA CheckKeeps ==
  ASSUME IInv, NEW r \in Runs, Check(r)
  PROVE  IInv'
<1>1. Control /\ Books /\ WorkOK /\ RecordOK(run[r]) /\ UnitOK(run[r]) /\ run[r].pc = "check"
  BY DEF IInv, Control, Check
<1>2. DOMAIN run[r].unit = {}
  BY <1>1 DEF RecordOK
<1>3. CASE run' = [run EXCEPT ![r] = Advance([@ EXCEPT !.pc = "steps"])]
  <2> DEFINE n == Advance([run[r] EXCEPT !.pc = "steps"])
  <2>1. run' = [run EXCEPT ![r] = n]
    BY <1>3
  <2>2. /\ RecordOK(n) /\ UnitOK(n) /\ n.c = run[r].c /\ n.blocked = run[r].blocked
        /\ n.spoilt = run[r].spoilt /\ n.unremoved = run[r].unremoved
        /\ n.pc \in {"steps", "exit"} /\ DOMAIN n.unit = {}
    BY <1>1, StartStepsOK
  <2> HIDE DEF n
  <2> QED
    BY <1>1, <1>2, <2>1, <2>2, PointStep DEF Check, Ended
<1>4. CASE run' = [run EXCEPT ![r] = Fail(@)]
  <2> DEFINE n == [run[r] EXCEPT !.pc = "exit", !.failed = TRUE]
  <2>1. run' = [run EXCEPT ![r] = n]
    BY <1>4 DEF Fail
  <2>2. /\ Shape(n) /\ n.pc = "exit" /\ n.c = run[r].c /\ n.failed = TRUE /\ n.unit = run[r].unit
        /\ n.blocked = run[r].blocked /\ n.spoilt = run[r].spoilt /\ n.unremoved = run[r].unremoved
    BY <1>1 DEF RecordOK, Shape
  <2> HIDE DEF n
  <2>3. RecordOK(n) /\ UnitOK(n)
    BY <1>1, <1>2, <2>2 DEF RecordOK, UnitOK, Early, Ended
  <2> QED
    BY <1>1, <1>2, <2>1, <2>2, <2>3, PointStep DEF Check, Ended
<1> QED
  BY <1>3, <1>4 DEF Check

\* Deferred: the work directory goes.
LEMMA ExitKeeps ==
  ASSUME IInv, NEW r \in Runs, Exit(r)
  PROVE  IInv'
<1>1. Control /\ Books /\ WorkOK /\ RecordOK(run[r]) /\ UnitOK(run[r]) /\ run[r].pc = "exit"
  BY DEF IInv, Control, Exit
<1>2. PICK kept \in {FALSE, ~run[r].c.work /\ r \in work} :
          /\ run' = [run EXCEPT ![r] = [@ EXCEPT !.pc = IF run[r].failed THEN "failed" ELSE "ok", !.kept = kept,
                                                  !.libs = {}, !.step = 0, !.failed = FALSE]]
          /\ work' = IF kept THEN work ELSE Kept(r)
  BY DEF Exit
<1> DEFINE n == [run[r] EXCEPT !.pc = IF run[r].failed THEN "failed" ELSE "ok", !.kept = kept,
                               !.libs = {}, !.step = 0, !.failed = FALSE]
<1>3. DOMAIN run[r].unit = {} /\ run[r].c \in Commands
  BY <1>1 DEF RecordOK
<1>4. run' = [run EXCEPT ![r] = n]
  BY <1>2
<1>5. /\ Shape(n) /\ n.pc \in {"failed", "ok"} /\ n.kept = kept /\ n.c = run[r].c /\ n.failed = FALSE /\ n.unit = run[r].unit
      /\ n.blocked = run[r].blocked /\ n.spoilt = run[r].spoilt /\ n.unremoved = run[r].unremoved
  BY <1>1 DEF RecordOK, Shape
<1> HIDE DEF n
<1>6. RecordOK(n) /\ UnitOK(n)
  BY <1>1, <1>3, <1>5 DEF RecordOK, UnitOK, Early, Ended
<1>7. r \in work' => run[r].c.work \/ kept
  BY <1>2 DEF Kept
<1>8. work' \subseteq work
  BY <1>2 DEF Kept
<1> QED
  BY <1>1, <1>3, <1>4, <1>5, <1>6, <1>7, <1>8, PointStep DEF Exit, Ended

\* The members of the steps that are no copies.
LEMMA PlainMemberKeeps ==
  ASSUME IInv, NEW r \in Runs, run[r].pc = "steps", Op(run[r]) # "so", NEW m, NEW ok \in BOOLEAN,
         run' = [run EXCEPT ![r] = Member(@, m, ok)], UNCHANGED <<build, work>>
  PROVE  IInv'
<1>1. Shape(run[r])
  BY DEF IInv, Control, RecordOK
<1>2. run' = [run EXCEPT ![r] = Member(run[r], m, ok)]
  OBVIOUS
<1> QED
  BY <1>1, <1>2, MemberStep

LEMMA StepMembersKeep ==
  ASSUME IInv, NEW r \in Runs, NEW x, Gen(r, x) \/ Reject(r, x) \/ DropOutput(r, x) \/ OpenAL(r, x) \/ Install(r)
  PROVE  IInv'
<1>1. run[r].pc = "steps" /\ Op(run[r]) # "so"
  BY DEF Gen, Reject, DropOutput, OpenAL, Install, At, Current, Op
<1>2. \E m : \E ok \in BOOLEAN : run' = [run EXCEPT ![r] = Member(@, m, ok)]
  BY DEF Gen, Reject, DropOutput, OpenAL, Install
<1>3. UNCHANGED <<build, work>>
  BY DEF Gen, Reject, DropOutput, OpenAL, Install
<1> QED
  BY <1>1, <1>2, <1>3, PlainMemberKeeps

\* An output is opened, then written.
LEMMA CreateKeeps ==
  ASSUME IInv, NEW r \in Runs, NEW o, Create(r, o)
  PROVE  IInv'
<1>1. Control /\ Books /\ WorkOK /\ RecordOK(run[r]) /\ UnitOK(run[r])
  BY DEF IInv, Control
<1>2. run[r].pc = "steps" /\ Op(run[r]) = "pack" /\ o \in run[r].todo /\ o \notin DOMAIN run[r].unit
  BY DEF Create, At, Current, Op
<1>3. UNCHANGED <<build, work>>
  BY DEF Create
<1>4. CASE \E ok \in BOOLEAN : run' = [run EXCEPT ![r] = Member(@, o, ok)]
  BY <1>2, <1>3, <1>4, PlainMemberKeeps
<1>5. CASE SetUnit(r, o, Unit("write", <<>>, TRUE))
  <2> DEFINE u == Unit("write", <<>>, TRUE)
             n == [run[r] EXCEPT !.unit = Put(@, o, u)]
  <2>1. run' = [run EXCEPT ![r] = n]
    BY <1>5 DEF SetUnit
  <2>2. UnitShape(u) /\ u.at = "write" /\ u.left = <<>> /\ u.ok \in BOOLEAN
    BY DEF Unit, UnitShape
  <2> HIDE DEF u
  <2>3. /\ Shape(n) /\ n.pc = "steps" /\ n.c = run[r].c /\ n.failed = run[r].failed /\ n.todo = run[r].todo
        /\ n.step = run[r].step /\ n.blocked = run[r].blocked /\ n.spoilt = run[r].spoilt /\ n.unremoved = run[r].unremoved
        /\ n.unit = Put(run[r].unit, o, u)
    BY <1>1, <1>2 DEF RecordOK, Shape
  <2> HIDE DEF n
  <2>4. /\ DOMAIN n.unit = DOMAIN run[r].unit \cup {o} /\ n.unit[o] = u
        /\ \A d \in DOMAIN run[r].unit : n.unit[d] = run[r].unit[d]
    BY <1>2, <2>3 DEF Put
  <2>5. RecordOK(n)
    BY <1>1, <1>2, <2>3, <2>4 DEF RecordOK, Early, Ended
  <2>6. UnitOK(n)
    BY <1>1, <1>2, <2>2, <2>3, <2>4 DEF UnitOK, Op
  <2>7. Control'
    BY <1>1, <1>2, <2>1, <2>3, <2>5, <2>6, ControlStep DEF Ended
  <2>8. Books'
    BY <1>1, <1>2, <1>3, <2>1, <2>2, <2>3, <2>4, QuietStep
  <2>9. WorkOK'
    BY <1>1, <1>3, <2>1, <2>3, WorkStep
  <2> QED
    BY <2>7, <2>8, <2>9 DEF IInv
<1> QED
  BY <1>4, <1>5 DEF Create

LEMMA WriteKeeps ==
  ASSUME IInv, NEW r \in Runs, NEW o, Write(r, o)
  PROVE  IInv'
<1>1. run[r].pc = "steps" /\ Op(run[r]) # "so"
  BY DEF Write, At, Current, Op
<1>2. \E ok \in BOOLEAN : run' = [run EXCEPT ![r] = Member(@, o, ok)]
  BY DEF Write, Written
<1>3. UNCHANGED <<build, work>>
  BY DEF Write
<1> QED
  BY <1>1, <1>2, <1>3, PlainMemberKeeps

\* The steps of init and clean before the plan of init.
LEMMA PointChange ==
  ASSUME NEW x, RecordOK(x), UnitOK(x), DOMAIN x.unit = {}, NEW pc, NEW n, n = [x EXCEPT !.pc = pc]
  PROVE  /\ Shape(n) /\ n.pc = pc /\ n.c = x.c /\ n.step = x.step /\ n.todo = x.todo
         /\ n.unit = x.unit /\ n.failed = x.failed /\ n.blocked = x.blocked /\ n.spoilt = x.spoilt
         /\ n.unremoved = x.unremoved
         /\ UnitOK(n)
BY DEF RecordOK, Shape, UnitOK

LEMMA ResetKeeps ==
  ASSUME IInv, NEW r \in Runs, Reset(r)
  PROVE  IInv'
<1>1. Control /\ Books /\ WorkOK /\ RecordOK(run[r]) /\ UnitOK(run[r]) /\ run[r].pc = "start"
  BY DEF IInv, Control, Reset
<1>2. PICK ok \in BOOLEAN :
          run' = [run EXCEPT ![r].pc = IF run[r].c.cmd = "init" THEN "mkdir" ELSE IF ok THEN "ok" ELSE "failed"]
  BY DEF Reset
<1> DEFINE pc == IF run[r].c.cmd = "init" THEN "mkdir" ELSE IF ok THEN "ok" ELSE "failed"
           n == [run[r] EXCEPT !.pc = pc]
<1>3. DOMAIN run[r].unit = {} /\ r \notin work /\ run[r].c.cmd \in {"init", "clean"} /\ run[r].c \in Commands
  BY <1>1 DEF RecordOK, WorkOK, Reset
<1>4. run' = [run EXCEPT ![r] = n]
  BY <1>2
<1>5. pc = "ok" \/ pc = "failed" \/ (pc = "mkdir" /\ run[r].c.cmd = "init")
  BY <1>3
<1> HIDE DEF pc
<1>6. /\ Shape(n) /\ n.pc = pc /\ n.c = run[r].c /\ n.step = run[r].step /\ n.todo = run[r].todo
      /\ n.unit = run[r].unit /\ n.failed = run[r].failed /\ n.blocked = run[r].blocked
      /\ n.spoilt = run[r].spoilt /\ n.unremoved = run[r].unremoved
      /\ UnitOK(n)
  BY <1>1, <1>3, PointChange
<1> HIDE DEF n
<1>7. RecordOK(n)
  BY <1>1, <1>3, <1>5, <1>6 DEF RecordOK, Early, Ended
<1>8. work' \subseteq work
  BY DEF Reset
<1> QED
  BY <1>1, <1>3, <1>4, <1>6, <1>7, <1>8, PointStep DEF Reset, Ended

LEMMA MakeHomeKeeps ==
  ASSUME IInv, NEW r \in Runs, MakeHome(r)
  PROVE  IInv'
<1>1. Control /\ Books /\ WorkOK /\ RecordOK(run[r]) /\ UnitOK(run[r]) /\ run[r].pc = "mkdir"
  BY DEF IInv, Control, MakeHome
<1>2. PICK pc \in {"tempdir", "failed"} : run' = [run EXCEPT ![r].pc = pc]
  BY DEF MakeHome
<1> DEFINE n == [run[r] EXCEPT !.pc = pc]
<1>3. DOMAIN run[r].unit = {} /\ r \notin work
  BY <1>1 DEF RecordOK, WorkOK
<1>4. run' = [run EXCEPT ![r] = n]
  BY <1>2
<1>5. /\ Shape(n) /\ n.pc = pc /\ n.c = run[r].c /\ n.step = run[r].step /\ n.todo = run[r].todo
      /\ n.unit = run[r].unit /\ n.failed = run[r].failed /\ n.blocked = run[r].blocked
      /\ n.spoilt = run[r].spoilt /\ n.unremoved = run[r].unremoved
      /\ UnitOK(n)
  BY <1>1, <1>3, PointChange
<1> HIDE DEF n
<1>6. RecordOK(n)
  BY <1>1, <1>3, <1>5 DEF RecordOK, Early, Ended
<1> QED
  BY <1>1, <1>3, <1>4, <1>5, <1>6, PointStep DEF MakeHome, Ended

LEMMA InitWorkKeeps ==
  ASSUME IInv, NEW r \in Runs, InitWork(r)
  PROVE  IInv'
<1>1. Control /\ Books /\ WorkOK /\ RecordOK(run[r]) /\ UnitOK(run[r]) /\ run[r].pc = "tempdir"
  BY DEF IInv, Control, InitWork
<1>2. DOMAIN run[r].unit = {} /\ r \notin work
  BY <1>1 DEF RecordOK, WorkOK
<1>3. CASE run' = [run EXCEPT ![r] = Advance([@ EXCEPT !.pc = "steps"])]
  <2> DEFINE n == Advance([run[r] EXCEPT !.pc = "steps"])
  <2>1. run' = [run EXCEPT ![r] = n]
    BY <1>3
  <2>2. /\ RecordOK(n) /\ UnitOK(n) /\ n.c = run[r].c /\ n.blocked = run[r].blocked
        /\ n.spoilt = run[r].spoilt /\ n.unremoved = run[r].unremoved
        /\ n.pc \in {"steps", "exit"} /\ DOMAIN n.unit = {}
    BY <1>1, StartStepsOK
  <2> HIDE DEF n
  <2>3. Control'
    BY <1>1, <2>1, <2>2, ControlStep DEF Ended
  <2>4. Books'
    BY <1>1, <1>2, <2>1, <2>2, QuietStep DEF InitWork
  <2>5. WorkOK'
    <3>1. work' \subseteq work \cup {r}
      BY DEF InitWork
    <3> QED
      BY <1>1, <2>1, <2>2, <3>1, Update DEF WorkOK
  <2> QED
    BY <2>3, <2>4, <2>5 DEF IInv
<1>4. CASE run' = [run EXCEPT ![r].pc = "failed"] /\ UNCHANGED work
  <2> DEFINE n == [run[r] EXCEPT !.pc = "failed"]
  <2>1. run' = [run EXCEPT ![r] = n]
    BY <1>4
  <2>2. /\ Shape(n) /\ n.pc = "failed" /\ n.c = run[r].c /\ n.step = run[r].step /\ n.todo = run[r].todo
        /\ n.unit = run[r].unit /\ n.failed = run[r].failed /\ n.blocked = run[r].blocked
        /\ n.spoilt = run[r].spoilt /\ n.unremoved = run[r].unremoved
        /\ UnitOK(n)
    BY <1>1, <1>2, PointChange
  <2> HIDE DEF n
  <2>3. RecordOK(n)
    BY <1>1, <1>2, <2>2 DEF RecordOK, Early, Ended
  <2> QED
    BY <1>1, <1>2, <1>4, <2>1, <2>2, <2>3, PointStep DEF InitWork, Ended
<1> QED
  BY <1>3, <1>4 DEF InitWork

\* The process is killed: what it has in hand stays as it is.
LEMMA CrashKeeps ==
  ASSUME IInv, NEW r \in Runs, Crash(r)
  PROVE  IInv'
<1> DEFINE n == [run[r] EXCEPT !.pc = "crashed", !.todo = {}, !.libs = {}, !.step = 0, !.failed = FALSE]
<1>1. Control /\ Books /\ WorkOK /\ RecordOK(run[r]) /\ UnitOK(run[r])
  BY DEF IInv, Control
<1>2. run[r].pc \notin Ended \cup {"idle"}
  BY DEF Crash, Active
<1>3. run' = [run EXCEPT ![r] = n]
  BY DEF Crash
<1>4. /\ Shape(n) /\ n.pc = "crashed" /\ n.c = run[r].c /\ n.failed = FALSE /\ n.unit = run[r].unit
      /\ n.blocked = run[r].blocked /\ n.spoilt = run[r].spoilt /\ n.unremoved = run[r].unremoved
  BY <1>1 DEF RecordOK, Shape
<1> HIDE DEF n
<1>5. RecordOK(n)
  BY <1>1, <1>2, <1>4 DEF RecordOK, Early, Ended
<1>6. UnitOK(n)
  BY <1>1, <1>4 DEF UnitOK
<1> QED
  BY <1>1, <1>2, <1>3, <1>4, <1>5, <1>6, PointStep DEF Crash

-----------------------------------------------------------------------------
(* The copies. *)

\* Whoever compiles is a bind, and alone.
LEMMA Compiling ==
  ASSUME IInv, NEW r \in Runs, At(r, "so")
  PROVE  /\ Control /\ Books /\ WorkOK /\ RecordOK(run[r]) /\ UnitOK(run[r])
         /\ run[r].pc = "steps" /\ Op(run[r]) = "so" /\ IsBind(r) /\ run[r].c \in Commands
         /\ \A q \in Runs \ {r} : run[q].pc \in Ended \cup {"idle"}
         /\ \A q \in Runs : IsBind(q) => q <= r
         /\ \A q \in Runs \ {r} : DOMAIN run[q].unit # {} => run[q].pc = "crashed"
<1>1. Control /\ Books /\ WorkOK /\ RecordOK(run[r]) /\ UnitOK(run[r])
  BY DEF IInv, Control
<1>2. run[r].pc = "steps" /\ Op(run[r]) = "so"
  BY DEF At, Op, Current
<1>3. run[r].c \in Commands /\ IsBind(r)
  <2>1. run[r].c.cmd = "init" => Plan(run[r].c) = InitPlan(run[r].c)
    BY DEF Plan
  <2> QED
    BY <1>1, <1>2, <2>1, InitPlanFacts DEF RecordOK, Op, IsBind
<1>4. Active(r)
  BY <1>2 DEF Active, Ended
<1>5. /\ \A q \in Runs \ {r} : run[q].pc \in Ended \cup {"idle"}
      /\ \A q \in Runs : IsBind(q) => q <= r
  BY <1>1, <1>3, <1>4, OnlyBind
<1>6. \A q \in Runs : RecordOK(run[q])
  BY <1>1 DEF Control
<1> QED
  BY <1>1, <1>2, <1>3, <1>5, <1>6 DEF RecordOK, Ended

\* MkdirAll and the begin of a copy.
LEMMA BeginCopyKeeps ==
  ASSUME IInv, NEW r \in Runs, NEW d, At(r, "so"), d \in run[r].todo \ DOMAIN run[r].unit, d \notin run[r].unremoved,
         build' = IF Makes(run[r].c) /\ d \notin DOMAIN build THEN Put(build, d, <<>>) ELSE build,
         SetUnit(r, d, Unit("copy", IF run[r].c.mods /\ ~run[r].c.n THEN run[r].c.files ELSE <<>>, TRUE)),
         UNCHANGED work
  PROVE  IInv'
<1> DEFINE c == run[r].c
           u == Unit("copy", IF c.mods /\ ~c.n THEN c.files ELSE <<>>, TRUE)
           n == [run[r] EXCEPT !.unit = Put(@, d, u)]
<1>1. At(r, "so") /\ d \in run[r].todo /\ d \notin DOMAIN run[r].unit
  OBVIOUS
<1>2. /\ Control /\ Books /\ WorkOK /\ RecordOK(run[r]) /\ UnitOK(run[r])
      /\ run[r].pc = "steps" /\ Op(run[r]) = "so" /\ IsBind(r) /\ run[r].c \in Commands
  BY <1>1, Compiling
<1>3. run' = [run EXCEPT ![r] = n] /\ UNCHANGED work
  BY DEF SetUnit
<1>4. /\ UnitShape(u) /\ u.at = "copy" /\ u.ok = TRUE
      /\ u.left = IF c.mods /\ ~c.n THEN c.files ELSE <<>>
  BY DEF Unit, UnitShape
<1> HIDE DEF u
<1>5. /\ Shape(n) /\ n.pc = "steps" /\ n.c = run[r].c /\ n.failed = run[r].failed /\ n.todo = run[r].todo
      /\ n.step = run[r].step /\ n.blocked = run[r].blocked /\ n.spoilt = run[r].spoilt /\ n.unremoved = run[r].unremoved
      /\ n.unit = Put(run[r].unit, d, u)
  BY <1>2 DEF RecordOK, Shape
<1> HIDE DEF n
<1>6. /\ DOMAIN n.unit = DOMAIN run[r].unit \cup {d} /\ n.unit[d] = u
      /\ \A e \in DOMAIN run[r].unit : n.unit[e] = run[r].unit[e]
  BY <1>1, <1>5 DEF Put
<1>7. RecordOK(n)
  BY <1>1, <1>2, <1>5, <1>6 DEF RecordOK, Early, Ended
<1>8. UnitOK(n)
  <2>1. Op(n) = "so" /\ n.c.cmd = "bind"
    BY <1>2, <1>5 DEF Op, IsBind
  <2>2. u.left = <<>> \/ (c.mods /\ ~c.n)
    BY <1>4
  <2>3. \A e \in DOMAIN run[r].unit : run[r].unit[e].at \in {"copy", "remove"}
    BY <1>2 DEF UnitOK
  <2>4. \A e \in DOMAIN run[r].unit :
           /\ UnitShape(n.unit[e]) /\ n.unit[e].ok \in BOOLEAN
           /\ n.unit[e].at = "copy" \/ (n.unit[e].at = "remove" /\ c.mods)
           /\ n.unit[e].left = <<>> \/ (n.unit[e].at = "copy" /\ c.mods /\ ~c.n)
    BY <1>2, <1>6, <2>3 DEF UnitOK
  <2>5. /\ UnitShape(n.unit[d]) /\ n.unit[d].ok \in BOOLEAN /\ n.unit[d].at = "copy"
        /\ n.unit[d].left = <<>> \/ (n.unit[d].at = "copy" /\ c.mods /\ ~c.n)
    BY <1>4, <1>6, <2>2
  <2> QED
    BY <1>5, <1>6, <2>1, <2>4, <2>5 DEF UnitOK
<1>9. Control'
  BY <1>2, <1>3, <1>5, <1>7, <1>8, ControlStep DEF Ended
<1>10. WorkOK'
  BY <1>2, <1>3, <1>5, WorkStep
<1>11. /\ run'[r] = n
       /\ \A q \in Runs \ {r} : run'[q] = run[q]
  BY <1>2, <1>3, Update
<1>12. /\ DOMAIN build \subseteq DOMAIN build'
       /\ \A e \in DOMAIN build : build'[e] = build[e]
       /\ \A e \in DOMAIN build' \ DOMAIN build : DOMAIN build'[e] = {}
       /\ c.mods /\ ~c.n => d \in DOMAIN build'
  BY DEF Put, Makes
<1>13. \A q \in Runs : \A e, f : Wrote(q, e, f)' <=> Wrote(q, e, f)
  BY <1>12 DEF Wrote
<1>14. \A q \in Runs : \A e : InHand(q, e) => InHand(q, e)' /\ run'[q].unit[e] = run[q].unit[e]
  BY <1>6, <1>11 DEF InHand
<1>15. \A q \in Runs : /\ run'[q].c = run[q].c /\ run'[q].pc = run[q].pc
                       /\ run'[q].spoilt = run[q].spoilt /\ run'[q].unremoved = run[q].unremoved
                       /\ run'[q].blocked = run[q].blocked
  BY <1>2, <1>5, <1>11
<1>16. WriterOK'
  BY <1>2, <1>12, <1>14, <1>15 DEF WriterOK, WriterOf, Books, IsBind, Copies
<1>17. ASSUME NEW q \in Runs, NEW e \in DOMAIN run'[q].unit
       PROVE  CopyOK(q, e)'
  <2>1. CASE q = r /\ e = d
    <3> SUFFICES ASSUME Copies(r)
                 PROVE  CopyOK(r, d)'
      BY <1>15, <2>1 DEF CopyOK, Copies
    <3>1. run'[r].unit[d].left = c.files /\ d \in DOMAIN build' /\ run'[r].c.files = c.files
      BY <1>4, <1>5, <1>6, <1>11, <1>12 DEF Copies
    <3>2. c.files \in Seq(ToSet(c.files)) /\ \A i, j \in DOMAIN c.files : c.files[i] = c.files[j] => i = j
      BY <1>2, CommandsAssumption
    <3>3. \A f : ~Wrote(r, d, f)
      BY <1>1, <1>2 DEF Wrote, WriterOK, WriterOf, Books, InHand, RecordOK
    <3> QED
      BY <3>1, <3>2, <3>3, <1>13 DEF CopyOK
  <2>2. CASE ~(q = r /\ e = d)
    <3>1. InHand(q, e) /\ run'[q].unit[e] = run[q].unit[e]
      BY <2>2, <1>6, <1>11, <1>14 DEF InHand
    <3>2. CopyOK(q, e)
      BY <3>1, <1>2 DEF Books, InHand
    <3>3. \A s \in q .. MaxRuns : s \in Runs /\ (Undone(s, e) => Undone(s, e)')
      BY <1>14, <1>15 DEF Removing, Undone
    <3> QED
      BY <3>1, <3>2, <3>3, <1>12, <1>13, <1>15 DEF CopyOK, Copies
  <2> QED
    BY <2>1, <2>2
<1>18. OnlyAfterInterruption'
  <2>1. \A q \in Runs : \A e : Died(q, e) => Died(q, e)'
    BY <1>11, <1>2 DEF Died
  <2>2. \A q \in Runs : 1 .. q - 1 \subseteq Runs
    OBVIOUS
  <2> QED
    BY <2>1, <2>2, <1>2, <1>15 DEF OnlyAfterInterruption, Books
<1> QED
  BY <1>9, <1>10, <1>16, <1>17, <1>18 DEF IInv, Books

LEMMA StartUnitKeeps ==
  ASSUME IInv, NEW r \in Runs, NEW d, StartUnit(r, d), d \notin run[r].unremoved
  PROVE  IInv'
<1>1. At(r, "so") /\ d \in run[r].todo \ DOMAIN run[r].unit /\ UNCHANGED work
  BY DEF StartUnit
<1>2. RecordOK(run[r]) /\ run[r].pc = "steps"
  BY <1>1, Compiling
<1>3. CASE run' = [run EXCEPT ![r] = Member(@, d, FALSE)] /\ UNCHANGED build
  <2>1. Shape(run[r]) /\ run' = [run EXCEPT ![r] = Member(run[r], d, FALSE)]
    BY <1>2, <1>3 DEF RecordOK
  <2> QED
    BY <1>1, <1>2, <1>3, <2>1, MemberStep
<1> QED
  BY <1>1, <1>3, BeginCopyKeeps DEF StartUnit

\* Who wrote a file, as a fact about any invocation.
LEMMA Writers ==
  WriterOK <=> \A q, d, f : Wrote(q, d, f) => WriterOf(q, d, f)
BY DEF WriterOK, Wrote

\* What a step of a copy does to the files, and one that stops it to the record.
Adds(r, d, S) == /\ DOMAIN build' = DOMAIN build
                 /\ \A q, e, g : Wrote(q, e, g)' <=> Wrote(q, e, g) \/ (q = r /\ e = d /\ g \in S)
Stops(r, d, n) == /\ RecordOK(n) /\ UnitOK(n) /\ n.pc \in {"steps", "exit"} /\ n.c = run[r].c
                  /\ DOMAIN n.unit = DOMAIN run[r].unit \ {d}
                  /\ \A e \in DOMAIN n.unit : n.unit[e] = run[r].unit[e]
                  /\ n.spoilt = run[r].spoilt \cup {d} /\ n.unremoved = run[r].unremoved
                  /\ \/ n.blocked = run[r].blocked
                     \/ /\ n.blocked = run[r].blocked \cup {d}
                        /\ \E q \in 1 .. r - 1 : d \in run[q].spoilt \cup run[q].unremoved \/ Died(q, d)

\* A copy that stops, with one more file or without, leaves its directory spoilt.
LEMMA SpoilStep ==
  ASSUME IInv, NEW r \in Runs, NEW d, At(r, "so"), Copies(r), ~Removing(r, d), NEW S, S \subseteq ToSet(run[r].c.files),
         NEW n, Stops(r, d, n), run' = [run EXCEPT ![r] = n], UNCHANGED work, Adds(r, d, S)
  PROVE  IInv'
<1>1. /\ Control /\ Books /\ WorkOK /\ RecordOK(run[r]) /\ UnitOK(run[r])
      /\ run[r].pc = "steps" /\ IsBind(r)
  BY Compiling
<1>2. RecordOK(n) /\ UnitOK(n) /\ n.pc \in {"steps", "exit"}
  BY DEF Stops
<1>3. run' = [run EXCEPT ![r] = n]
  OBVIOUS
<1>4. /\ n.c = run[r].c /\ n.spoilt = run[r].spoilt \cup {d} /\ n.unremoved = run[r].unremoved
      /\ DOMAIN n.unit = DOMAIN run[r].unit \ {d} /\ \A e \in DOMAIN n.unit : n.unit[e] = run[r].unit[e]
  BY DEF Stops
<1>5. Control'
  BY <1>1, <1>2, <1>3, <1>4, ControlStep DEF Ended
<1>6. WorkOK'
  BY <1>1, <1>2, <1>3, WorkStep
<1>7. /\ run'[r] = n
      /\ \A q \in Runs \ {r} : run'[q] = run[q]
  BY <1>1, <1>3, Update
<1>8. \A q \in Runs : \A e : InHand(q, e) /\ (q # r \/ e # d) => InHand(q, e)' /\ run'[q].unit[e] = run[q].unit[e]
  BY <1>4, <1>7 DEF InHand
<1>9. \A q \in Runs : /\ run'[q].c = run[q].c /\ run[q].spoilt \subseteq run'[q].spoilt
                      /\ run'[q].unremoved = run[q].unremoved
                      /\ run[q].pc = "crashed" => run'[q].pc = "crashed"
  BY <1>1, <1>4, <1>7
<1>10. WriterOK'
  <2> SUFFICES ASSUME NEW q, NEW e, NEW g, Wrote(q, e, g)'
               PROVE  WriterOf(q, e, g)'
    BY DEF WriterOK, Wrote
  <2>1. CASE q = r /\ e = d /\ g \in S
    BY <2>1, <1>1, <1>4, <1>7, <1>9 DEF WriterOf, IsBind, Copies
  <2>2. CASE Wrote(q, e, g)
    <3>1. WriterOf(q, e, g)
      BY <1>1, <2>2, Writers DEF Books
    <3>2. q = r /\ e = d => e \in run'[q].spoilt
      BY <1>4, <1>7
    <3> QED
      BY <3>1, <3>2, <1>8, <1>9 DEF WriterOf, IsBind, Copies
  <2> QED
    BY <2>1, <2>2 DEF Adds
<1>11. ASSUME NEW q \in Runs, NEW e \in DOMAIN run'[q].unit
       PROVE  CopyOK(q, e)'
  <2>1. InHand(q, e) /\ run'[q].unit[e] = run[q].unit[e] /\ (q # r \/ e # d)
    BY <1>4, <1>7 DEF InHand
  <2>2. CopyOK(q, e)
    BY <2>1, <1>1 DEF Books, InHand
  <2>3. \A s \in q .. MaxRuns : s \in Runs /\ (Undone(s, e) => Undone(s, e)')
    <3>1. \A s \in q .. MaxRuns : s \in Runs
      OBVIOUS
    <3>2. \A s \in Runs : Removing(s, e) => s # r \/ e # d
      OBVIOUS
    <3> QED
      BY <1>8, <1>9, <3>1, <3>2 DEF Removing, Undone
  <2>4. /\ \A g : Wrote(q, e, g)' <=> Wrote(q, e, g)
        /\ DOMAIN build' = DOMAIN build
    BY <2>1 DEF Adds
  <2> QED
    BY <2>1, <2>2, <2>3, <2>4, <1>9 DEF CopyOK, Copies
<1>12. OnlyAfterInterruption'
  <2>1. \A q \in Runs : \A e : Died(q, e) => Died(q, e)'
    BY <1>7, <1>1 DEF Died
  <2>2. \A q \in Runs : 1 .. q - 1 \subseteq Runs
    OBVIOUS
  <2>3. \A q \in Runs : \A e \in run'[q].blocked : \E s \in 1 .. q - 1 : e \in run[s].spoilt \cup run[s].unremoved \/ Died(s, e)
    <3>1. \A e \in n.blocked : \E s \in 1 .. r - 1 : e \in run[s].spoilt \cup run[s].unremoved \/ Died(s, e)
      BY <1>1 DEF OnlyAfterInterruption, Books, Stops
    <3> QED
      BY <1>1, <1>7, <3>1 DEF OnlyAfterInterruption, Books
  <2> QED
    BY <2>1, <2>2, <2>3, <1>9 DEF OnlyAfterInterruption
<1> QED
  BY <1>5, <1>6, <1>10, <1>11, <1>12 DEF IInv, Books

\* What is left of a copy after its first file.
LEMMA CopyTail ==
  ASSUME NEW S, NEW s \in Seq(S), s # <<>>, \A i, j \in DOMAIN s : s[i] = s[j] => i = j
  PROVE  /\ Head(s) \in ToSet(s) /\ Head(s) \in S
         /\ Tail(s) \in Seq(S)
         /\ \A i, j \in DOMAIN Tail(s) : Tail(s)[i] = Tail(s)[j] => i = j
         /\ Head(s) \notin ToSet(Tail(s)) /\ ToSet(Tail(s)) \cup {Head(s)} = ToSet(s)
<1>1. /\ Len(s) \in Nat /\ Len(s) > 0 /\ DOMAIN s = 1 .. Len(s)
      /\ Head(s) = s[1] /\ Tail(s) \in Seq(S) /\ Len(Tail(s)) = Len(s) - 1
      /\ \A i \in 1 .. Len(s) - 1 : Tail(s)[i] = s[i + 1]
      /\ DOMAIN Tail(s) = 1 .. Len(s) - 1
  BY HeadTailProperties, LenProperties, EmptySeq
<1>2. \A i \in 1 .. Len(s) : i = 1 \/ (i - 1 \in 1 .. Len(s) - 1 /\ Tail(s)[i - 1] = s[i])
  BY <1>1
<1>3. \A x : x \in ToSet(s) <=> x = s[1] \/ x \in ToSet(Tail(s))
  <2>1. \A i \in 1 .. Len(s) - 1 : i + 1 \in 1 .. Len(s)
    BY <1>1
  <2>2. ASSUME NEW x, x \in ToSet(Tail(s))
        PROVE  x \in ToSet(s)
    BY <1>1, <2>1, <2>2 DEF ToSet
  <2>3. s[1] \in ToSet(s)
    BY <1>1 DEF ToSet
  <2>4. ASSUME NEW i \in 1 .. Len(s), i # 1
        PROVE  s[i] \in ToSet(Tail(s))
    BY <1>1, <1>2, <2>4 DEF ToSet
  <2>5. \A x \in ToSet(s) : \E i \in 1 .. Len(s) : x = s[i]
    BY <1>1 DEF ToSet
  <2> QED
    BY <2>2, <2>3, <2>4, <2>5
<1>4. s[1] \in S
  BY <1>1, ElementOfSeq
<1>5. \A i, j \in DOMAIN Tail(s) : Tail(s)[i] = Tail(s)[j] => i = j
  BY <1>1
<1>6. s[1] \notin ToSet(Tail(s))
  BY <1>1 DEF ToSet
<1> QED
  BY <1>1, <1>3, <1>4, <1>5, <1>6

\* doCopyAll meets a file that is there, makes one, or fails before or after it.
LEMMA CopyFileKeeps ==
  ASSUME IInv, NEW r \in Runs, NEW d, CopyFile(r, d)
  PROVE  IInv'
<1> DEFINE u == run[r].unit[d]
           f == Head(u.left)
<1>1. At(r, "so") /\ InHand(r, d) /\ u.at = "copy" /\ u.left # <<>>
  BY DEF CopyFile, InHand
<1>2. /\ Control /\ Books /\ WorkOK /\ RecordOK(run[r]) /\ UnitOK(run[r])
      /\ run[r].pc = "steps" /\ Op(run[r]) = "so" /\ IsBind(r) /\ run[r].c \in Commands
      /\ \A q \in Runs : IsBind(q) => q <= r
      /\ \A q \in Runs \ {r} : DOMAIN run[q].unit # {} => run[q].pc = "crashed"
  BY <1>1, Compiling
<1>3. Copies(r) /\ UnitShape(u)
  BY <1>1, <1>2 DEF UnitOK, Copies, InHand
<1>4. /\ u.left \in Seq(ToSet(run[r].c.files)) /\ \A i, j \in DOMAIN u.left : u.left[i] = u.left[j] => i = j
      /\ \A g \in ToSet(u.left) : ~Wrote(r, d, g)
      /\ d \in DOMAIN build /\ \A g \in ToSet(run[r].c.files) \ ToSet(u.left) : Wrote(r, d, g)
  <2>1. CopyOK(r, d)
    BY <1>1, <1>2 DEF Books, InHand
  <2> QED
    BY <1>1, <1>2, <1>3, <2>1 DEF CopyOK
<1>5. /\ f \in ToSet(u.left) /\ f \in ToSet(run[r].c.files)
      /\ Tail(u.left) \in Seq(ToSet(run[r].c.files))
      /\ \A i, j \in DOMAIN Tail(u.left) : Tail(u.left)[i] = Tail(u.left)[j] => i = j
      /\ f \notin ToSet(Tail(u.left)) /\ ToSet(Tail(u.left)) \cup {f} = ToSet(u.left)
  <2> DEFINE S == ToSet(run[r].c.files)
             left == u.left
  <2>1. left \in Seq(S) /\ left # <<>> /\ \A i, j \in DOMAIN left : left[i] = left[j] => i = j
    BY <1>1, <1>4
  <2> HIDE DEF S, left
  <2>2. /\ Head(left) \in ToSet(left) /\ Head(left) \in S
        /\ Tail(left) \in Seq(S)
        /\ \A i, j \in DOMAIN Tail(left) : Tail(left)[i] = Tail(left)[j] => i = j
        /\ Head(left) \notin ToSet(Tail(left)) /\ ToSet(Tail(left)) \cup {Head(left)} = ToSet(left)
    BY <2>1, CopyTail
  <2> QED
    BY <2>2 DEF left, S
<1> HIDE DEF f
<1>6. ~Removing(r, d)
  BY <1>1 DEF Removing
<1>7. CASE Exists(d, f) /\ UNCHANGED build
           /\ run' = [run EXCEPT ![r] = Block(@, d)]
  <2> DEFINE y == [[run[r] EXCEPT !.blocked = @ \cup {d}] EXCEPT !.spoilt = @ \cup {d}]
             q == build[d][f]
  <2>1. run' = [run EXCEPT ![r] = Member(y, d, FALSE)]
    BY <1>7 DEF Block, Spoil
  <2>2. /\ Shape(y) /\ y.c = run[r].c /\ y.pc = run[r].pc /\ y.step = run[r].step /\ y.todo = run[r].todo
        /\ y.unit = run[r].unit /\ y.failed = run[r].failed /\ y.spoilt = run[r].spoilt \cup {d}
        /\ y.unremoved = run[r].unremoved
        /\ y.blocked = run[r].blocked \cup {d}
    BY <1>2 DEF RecordOK, Shape
  <2> HIDE DEF y
  <2>3. Wrote(q, d, f) /\ q # r
    BY <1>4, <1>5, <1>7 DEF Wrote, Exists
  <2> HIDE DEF q
  <2>4. q \in Runs /\ IsBind(q) /\ (d \in run[q].spoilt \cup run[q].unremoved \/ InHand(q, d))
    BY <1>2, <2>3, Writers DEF Books, WriterOf
  <2>5. q \in 1 .. r - 1
    BY <1>2, <2>3, <2>4
  <2>6. d \in run[q].spoilt \cup run[q].unremoved \/ Died(q, d)
    BY <1>2, <2>3, <2>4 DEF InHand, Died
  <2>7. UNCHANGED work /\ Adds(r, d, {})
    BY <1>7 DEF CopyFile, Wrote, Adds
  <2>8. Stops(r, d, Member(y, d, FALSE))
    <3>1. /\ RecordOK(Member(y, d, FALSE)) /\ UnitOK(Member(y, d, FALSE)) /\ Done(y, Member(y, d, FALSE), d, FALSE)
          /\ Member(y, d, FALSE).pc \in {"steps", "exit"}
      BY <1>2, <2>2, MemberOK
    <3> QED
      BY <2>2, <2>5, <2>6, <3>1, ZenonT(30) DEF Stops, Done, Drop
  <2> QED
    BY <1>1, <1>3, <1>6, <2>1, <2>7, <2>8, SpoilStep
<1>8. CASE run' = [run EXCEPT ![r] = Spoil(@, d)] /\ UNCHANGED build
  <2> DEFINE y == [run[r] EXCEPT !.spoilt = @ \cup {d}]
  <2>1. run' = [run EXCEPT ![r] = Member(y, d, FALSE)]
    BY <1>8 DEF Spoil
  <2>2. /\ Shape(y) /\ y.c = run[r].c /\ y.pc = run[r].pc /\ y.step = run[r].step /\ y.todo = run[r].todo
        /\ y.unit = run[r].unit /\ y.failed = run[r].failed /\ y.spoilt = run[r].spoilt \cup {d}
        /\ y.unremoved = run[r].unremoved /\ y.blocked = run[r].blocked
    BY <1>2 DEF RecordOK, Shape
  <2> HIDE DEF y
  <2>3. UNCHANGED work /\ Adds(r, d, {})
    BY <1>8 DEF CopyFile, Wrote, Adds
  <2>4. Stops(r, d, Member(y, d, FALSE))
    <3>1. /\ RecordOK(Member(y, d, FALSE)) /\ UnitOK(Member(y, d, FALSE)) /\ Done(y, Member(y, d, FALSE), d, FALSE)
          /\ Member(y, d, FALSE).pc \in {"steps", "exit"}
      BY <1>2, <2>2, MemberOK
    <3> QED
      BY <2>2, <3>1, ZenonT(30) DEF Stops, Done, Drop
  <2> QED
    BY <1>1, <1>3, <1>6, <2>1, <2>3, <2>4, SpoilStep
<1>9. CASE ~Exists(d, f) /\ build' = [build EXCEPT ![d] = Put(@, f, r)]
  <2>1. /\ DOMAIN build' = DOMAIN build
        /\ \A q, e, g : Wrote(q, e, g)' <=> Wrote(q, e, g) \/ (q = r /\ e = d /\ g = f)
    BY <1>4, <1>9 DEF Wrote, Exists, Put
  <2>2. UNCHANGED work
    BY DEF CopyFile
  <2>3. CASE run' = [run EXCEPT ![r] = Spoil(@, d)]
    <3> DEFINE y == [run[r] EXCEPT !.spoilt = @ \cup {d}]
    <3>1. run' = [run EXCEPT ![r] = Member(y, d, FALSE)]
      BY <2>3 DEF Spoil
    <3>2. /\ Shape(y) /\ y.c = run[r].c /\ y.pc = run[r].pc /\ y.step = run[r].step /\ y.todo = run[r].todo
          /\ y.unit = run[r].unit /\ y.failed = run[r].failed /\ y.spoilt = run[r].spoilt \cup {d}
          /\ y.unremoved = run[r].unremoved
          /\ y.blocked = run[r].blocked
      BY <1>2 DEF RecordOK, Shape
    <3> HIDE DEF y
    <3>3. Adds(r, d, {f})
      BY <2>1 DEF Adds
    <3>4. Stops(r, d, Member(y, d, FALSE))
      <4>1. /\ RecordOK(Member(y, d, FALSE)) /\ UnitOK(Member(y, d, FALSE)) /\ Done(y, Member(y, d, FALSE), d, FALSE)
            /\ Member(y, d, FALSE).pc \in {"steps", "exit"}
        BY <1>2, <3>2, MemberOK
      <4> QED
        BY <3>2, <4>1, ZenonT(30) DEF Stops, Done, Drop
    <3> QED
      BY <1>1, <1>3, <1>5, <1>6, <2>2, <3>1, <3>3, <3>4, SpoilStep
  <2>4. CASE SetUnit(r, d, [u EXCEPT !.left = Tail(@)])
    <3> DEFINE v == [u EXCEPT !.left = Tail(@)]
               n == [run[r] EXCEPT !.unit = Put(@, d, v)]
    <3>1. run' = [run EXCEPT ![r] = n]
      BY <2>4 DEF SetUnit
    <3>2. UnitShape(v) /\ v.at = "copy" /\ v.left = Tail(u.left) /\ v.ok = u.ok
      BY <1>1, <1>3 DEF UnitShape
    <3> HIDE DEF v
    <3>3. /\ Shape(n) /\ n.pc = "steps" /\ n.c = run[r].c /\ n.failed = run[r].failed /\ n.todo = run[r].todo
          /\ n.step = run[r].step /\ n.blocked = run[r].blocked /\ n.spoilt = run[r].spoilt /\ n.unremoved = run[r].unremoved
          /\ n.unit = Put(run[r].unit, d, v)
      BY <1>2 DEF RecordOK, Shape
    <3> HIDE DEF n
    <3>4. /\ DOMAIN n.unit = DOMAIN run[r].unit /\ n.unit[d] = v
          /\ \A e \in DOMAIN run[r].unit \ {d} : n.unit[e] = run[r].unit[e]
      BY <1>1, <3>3 DEF Put, InHand
    <3>5. RecordOK(n)
      BY <1>2, <3>3, <3>4 DEF RecordOK, Early, Ended
    <3>6. UnitOK(n)
      BY <1>1, <1>2, <1>3, <3>2, <3>3, <3>4 DEF UnitOK, Op, Copies, InHand
    <3>7. Control'
      BY <1>2, <3>1, <3>3, <3>5, <3>6, ControlStep DEF Ended
    <3>8. WorkOK'
      BY <1>2, <2>2, <3>1, <3>3, WorkStep
    <3>9. /\ run'[r] = n
          /\ \A q \in Runs \ {r} : run'[q] = run[q]
      BY <1>2, <3>1, Update
    <3>10. \A q \in Runs : \A e : InHand(q, e) =>
              /\ InHand(q, e)' /\ run'[q].unit[e].at = run[q].unit[e].at
              /\ q # r \/ e # d => run'[q].unit[e] = run[q].unit[e]
      BY <1>1, <3>2, <3>4, <3>9 DEF InHand
    <3>11. \A q \in Runs : /\ run'[q].c = run[q].c /\ run'[q].pc = run[q].pc
                           /\ run'[q].spoilt = run[q].spoilt /\ run'[q].unremoved = run[q].unremoved
                           /\ run'[q].blocked = run[q].blocked
      BY <1>2, <3>3, <3>9
    <3>12. WriterOK'
      <4> SUFFICES ASSUME NEW q, NEW e, NEW g, Wrote(q, e, g)'
                   PROVE  WriterOf(q, e, g)'
    BY DEF WriterOK, Wrote
      <4>1. CASE q = r /\ e = d /\ g = f
        BY <4>1, <1>1, <1>2, <1>3, <1>5, <3>10, <3>11 DEF WriterOf, IsBind, Copies
      <4>2. CASE Wrote(q, e, g)
        <5>1. WriterOf(q, e, g)
          BY <1>2, <4>2, Writers DEF Books
        <5> QED
          BY <5>1, <3>10, <3>11 DEF WriterOf, IsBind, Copies
      <4> QED
        BY <4>1, <4>2, <2>1
    <3>13. ASSUME NEW q \in Runs, NEW e \in DOMAIN run'[q].unit
           PROVE  CopyOK(q, e)'
      <4>1. CASE q = r /\ e = d
        <5>1. run'[r].unit[d].left = Tail(u.left) /\ run'[r].c.files = run[r].c.files /\ d \in DOMAIN build'
          BY <1>4, <2>1, <3>2, <3>4, <3>9, <3>11
        <5>2. \A g \in ToSet(Tail(u.left)) : ~Wrote(r, d, g)'
          BY <1>4, <1>5, <2>1
        <5>3. \A g \in ToSet(run[r].c.files) \ ToSet(Tail(u.left)) : Wrote(r, d, g)'
          BY <1>4, <1>5, <2>1
        <5> QED
          BY <4>1, <5>1, <5>2, <5>3, <1>5 DEF CopyOK
      <4>2. CASE ~(q = r /\ e = d)
        <5>1. InHand(q, e) /\ run'[q].unit[e] = run[q].unit[e]
          BY <4>2, <3>4, <3>9 DEF InHand
        <5>2. CopyOK(q, e)
          BY <5>1, <1>2 DEF Books, InHand
        <5>3. \A s \in q .. MaxRuns : s \in Runs /\ (Undone(s, e) => Undone(s, e)')
          BY <3>10, <3>11 DEF Removing, Undone
        <5>4. \A g : Wrote(q, e, g)' <=> Wrote(q, e, g)
          BY <4>2, <2>1
        <5> QED
          BY <5>1, <5>2, <5>3, <5>4, <2>1, <3>11 DEF CopyOK, Copies
      <4> QED
        BY <4>1, <4>2
    <3>14. OnlyAfterInterruption'
      <4>1. \A q \in Runs : \A e : Died(q, e) => Died(q, e)'
        BY <1>2, <3>9 DEF Died
      <4>2. \A q \in Runs : 1 .. q - 1 \subseteq Runs
        OBVIOUS
      <4> QED
        BY <4>1, <4>2, <1>2, <3>11 DEF OnlyAfterInterruption, Books
    <3> QED
      BY <3>7, <3>8, <3>12, <3>13, <3>14 DEF IInv, Books
  <2> QED
    BY <1>9, <2>3, <2>4 DEF CopyFile, f
<1> QED
  BY <1>7, <1>9, <1>8 DEF CopyFile, f

\* go build runs in a copy, whose removal is deferred, or in the work directory.
LEMMA GoBuildKeeps ==
  ASSUME IInv, NEW r \in Runs, NEW d, GoBuild(r, d)
  PROVE  IInv'
<1>1. At(r, "so") /\ InHand(r, d) /\ run[r].unit[d].at = "copy" /\ UNCHANGED <<build, work>>
  BY DEF GoBuild, InHand
<1>2. /\ Control /\ Books /\ WorkOK /\ RecordOK(run[r]) /\ UnitOK(run[r])
      /\ run[r].pc = "steps" /\ Op(run[r]) = "so" /\ IsBind(r) /\ run[r].c \in Commands
  BY <1>1, Compiling
<1>3. PICK ok \in BOOLEAN :
          LET rec == [run[r] EXCEPT !.libs = IF ok /\ ~run[r].c.n THEN @ \cup {d} ELSE @]
          IN run' = [run EXCEPT ![r] = IF run[r].c.mods /\ Cleanup(ok)
                                       THEN [rec EXCEPT !.unit[d] = Unit("remove", <<>>, ok)]
                                       ELSE Member(rec, d, ok)]
  BY DEF GoBuild
<1> DEFINE rec == [run[r] EXCEPT !.libs = IF ok /\ ~run[r].c.n THEN @ \cup {d} ELSE @]
           u == Unit("remove", <<>>, ok)
           n == [rec EXCEPT !.unit[d] = u]
<1>4. /\ run[r].c.mods => run' = [run EXCEPT ![r] = n]
      /\ ~run[r].c.mods => run' = [run EXCEPT ![r] = Member(rec, d, ok)]
  BY <1>2, <1>3, CommandsAssumption DEF Cleanup
<1>5. /\ Shape(rec) /\ rec.c = run[r].c /\ rec.pc = run[r].pc /\ rec.step = run[r].step /\ rec.todo = run[r].todo
      /\ rec.unit = run[r].unit /\ rec.failed = run[r].failed /\ rec.spoilt = run[r].spoilt
      /\ rec.unremoved = run[r].unremoved
      /\ rec.blocked = run[r].blocked
  BY <1>2 DEF RecordOK, Shape
<1>6. UnitShape(u) /\ u.at = "remove" /\ u.left = <<>> /\ u.ok \in BOOLEAN
  BY DEF Unit, UnitShape
<1> HIDE DEF rec, u
<1>7. CASE ~run[r].c.mods
  BY <1>1, <1>2, <1>4, <1>5, <1>7, MemberStep
<1>8. CASE run[r].c.mods
  <2>1. run' = [run EXCEPT ![r] = n]
    BY <1>4, <1>8
  <2>2. /\ Shape(n) /\ n.c = run[r].c /\ n.pc = "steps" /\ n.step = run[r].step /\ n.todo = run[r].todo
        /\ n.failed = run[r].failed /\ n.spoilt = run[r].spoilt /\ n.unremoved = run[r].unremoved
        /\ n.blocked = run[r].blocked /\ n.unit = [run[r].unit EXCEPT ![d] = u]
    BY <1>2, <1>5 DEF Shape
  <2> HIDE DEF n
  <2>3. /\ DOMAIN n.unit = DOMAIN run[r].unit /\ n.unit[d] = u
        /\ \A e \in DOMAIN run[r].unit \ {d} : n.unit[e] = run[r].unit[e]
    BY <1>1, <2>2 DEF InHand
  <2>4. RecordOK(n)
    BY <1>2, <2>2, <2>3 DEF RecordOK, Early, Ended
  <2>5. UnitOK(n)
    BY <1>2, <1>6, <1>8, <2>2, <2>3 DEF UnitOK, Op, IsBind
  <2>6. Control'
    BY <1>2, <2>1, <2>2, <2>4, <2>5, ControlStep DEF Ended
  <2>7. WorkOK'
    BY <1>1, <1>2, <2>1, <2>2, WorkStep
  <2>8. /\ run'[r] = n
        /\ \A q \in Runs \ {r} : run'[q] = run[q]
    BY <1>2, <2>1, Update
  <2>9. \A q \in Runs : /\ run'[q].c = run[q].c /\ run'[q].pc = run[q].pc
                        /\ run'[q].spoilt = run[q].spoilt /\ run'[q].unremoved = run[q].unremoved
                        /\ run'[q].blocked = run[q].blocked
    BY <1>2, <2>2, <2>8
  <2>10. \A q \in Runs : \A e : InHand(q, e) =>
            /\ InHand(q, e)' /\ (run'[q].unit[e] = run[q].unit[e] \/ run'[q].unit[e].at = "remove")
    BY <1>6, <2>3, <2>8 DEF InHand
  <2>11. \A q, e, f : Wrote(q, e, f)' <=> Wrote(q, e, f)
    BY <1>1 DEF Wrote
  <2>12. WriterOK'
    <3> SUFFICES ASSUME NEW q, NEW e, NEW g, Wrote(q, e, g)'
                 PROVE  WriterOf(q, e, g)'
      BY DEF WriterOK, Wrote
    <3>1. WriterOf(q, e, g)
      BY <1>2, <2>11, Writers DEF Books
    <3> QED
      BY <3>1, <2>9, <2>10 DEF WriterOf, IsBind, Copies
  <2>13. ASSUME NEW q \in Runs, NEW e \in DOMAIN run'[q].unit
         PROVE  CopyOK(q, e)'
    <3> SUFFICES ASSUME run'[q].unit[e].at = "copy"
                 PROVE  CopyOK(q, e)'
      BY DEF CopyOK
    <3>1. InHand(q, e) /\ run'[q].unit[e] = run[q].unit[e]
      BY <1>6, <2>3, <2>8 DEF InHand
    <3>2. CopyOK(q, e)
      BY <3>1, <1>2 DEF Books, InHand
    <3>3. \A s \in q .. MaxRuns : s \in Runs /\ (Undone(s, e) => Undone(s, e)')
      BY <2>9, <2>10 DEF Removing, Undone
    <3> QED
      BY <3>1, <3>2, <3>3, <2>9, <2>11, <1>1 DEF CopyOK, Copies
  <2>14. OnlyAfterInterruption'
    <3>1. \A q \in Runs : \A e : Died(q, e) => Died(q, e)'
      BY <2>9, <2>10 DEF Died, InHand
    <3>2. \A q \in Runs : 1 .. q - 1 \subseteq Runs
      OBVIOUS
    <3> QED
      BY <3>1, <3>2, <1>2, <2>9 DEF OnlyAfterInterruption, Books
  <2> QED
    BY <2>6, <2>7, <2>12, <2>13, <2>14 DEF IInv, Books
<1> QED
  BY <1>2, <1>7, <1>8, CommandsAssumption

\* os.RemoveAll takes an entry, and in the end the directory.
LEMMA RemoveEntryKeeps ==
  ASSUME IInv, NEW r \in Runs, NEW d, RemoveEntry(r, d)
  PROVE  IInv'
<1>1. At(r, "so") /\ InHand(r, d) /\ run[r].unit[d].at = "remove" /\ UNCHANGED work
  BY DEF RemoveEntry, InHand
<1>2. /\ Control /\ Books /\ WorkOK /\ RecordOK(run[r]) /\ UnitOK(run[r])
      /\ run[r].pc = "steps" /\ Op(run[r]) = "so" /\ IsBind(r) /\ run[r].c \in Commands
      /\ \A q \in Runs : IsBind(q) => q <= r
      /\ \A q \in Runs \ {r} : DOMAIN run[q].unit # {} => run[q].pc = "crashed"
  BY <1>1, Compiling
<1>3. \A q \in Runs : InHand(q, d) /\ run[q].unit[d].at = "copy" => q \in 1 .. r - 1 /\ run[q].pc = "crashed" /\ r \in q .. MaxRuns
  <2> SUFFICES ASSUME NEW q \in Runs, InHand(q, d), run[q].unit[d].at = "copy"
               PROVE  q \in 1 .. r - 1 /\ run[q].pc = "crashed" /\ r \in q .. MaxRuns
    OBVIOUS
  <2>1. UnitOK(run[q])
    BY <1>2 DEF Control
  <2>2. q # r /\ IsBind(q)
    BY <1>1, <2>1 DEF UnitOK, InHand, IsBind
  <2> QED
    BY <1>2, <2>2 DEF InHand
<1>4. CASE UNCHANGED run /\ \E f \in DOMAIN build[d] : build' = [build EXCEPT ![d] = Drop(@, f)]
  <2>1. DOMAIN build' = DOMAIN build /\ \A q, e, g : Wrote(q, e, g)' => Wrote(q, e, g)
    BY <1>4 DEF Wrote, Drop
  <2>2. \A q, e, g : e # d => (Wrote(q, e, g)' <=> Wrote(q, e, g))
    BY <1>4 DEF Wrote, Drop
  <2>3. WriterOK'
    <3> SUFFICES ASSUME NEW q, NEW e, NEW g, Wrote(q, e, g)'
                 PROVE  WriterOf(q, e, g)'
      BY DEF WriterOK, Wrote
    <3>1. WriterOf(q, e, g)
      BY <1>2, <2>1, Writers DEF Books
    <3> QED
      BY <3>1, <1>4 DEF WriterOf, IsBind, Copies, InHand
  <2>4. ASSUME NEW q \in Runs, NEW e \in DOMAIN run[q].unit
        PROVE  CopyOK(q, e)'
    <3> SUFFICES ASSUME run[q].unit[e].at = "copy"
                 PROVE  CopyOK(q, e)'
      BY <1>4 DEF CopyOK
    <3>1. CopyOK(q, e) /\ InHand(q, e)
      BY <1>2 DEF Books, InHand
    <3>2. \A s, g : Undone(s, g)' <=> Undone(s, g)
      BY <1>4 DEF Removing, InHand, Undone
    <3>3. CASE e = d
      <4>1. run[q].pc = "crashed" /\ r \in q .. MaxRuns /\ Undone(r, d)
        BY <1>1, <1>3, <3>1, <3>3 DEF Removing, Undone
      <4> QED
        BY <4>1, <3>1, <3>2, <3>3, <2>1, <1>4 DEF CopyOK, Copies, InHand
    <3>4. CASE e # d
      BY <3>1, <3>2, <3>4, <2>1, <2>2, <1>4 DEF CopyOK, Copies, InHand
    <3> QED
      BY <3>3, <3>4
  <2>5. Control' /\ WorkOK'
    BY <1>1, <1>2, <1>4 DEF Control, WorkOK, InOrder, Alone, Active, IsBind
  <2>6. OnlyAfterInterruption'
    BY <1>2, <1>4 DEF OnlyAfterInterruption, Books, Died
  <2> QED
    BY <1>4, <2>3, <2>4, <2>5, <2>6 DEF IInv, Books
<1>5. CASE build' = Drop(build, d) /\ run' = [run EXCEPT ![r] = Member(@, d, run[r].unit[d].ok)]
  <2> DEFINE n == Member(run[r], d, run[r].unit[d].ok)
  <2>1. run' = [run EXCEPT ![r] = n]
    BY <1>5
  <2>2. Shape(run[r]) /\ run[r].unit[d].ok \in BOOLEAN
    BY <1>1, <1>2 DEF RecordOK, UnitOK, InHand
  <2>3. RecordOK(n) /\ UnitOK(n) /\ Done(run[r], n, d, run[r].unit[d].ok) /\ n.pc \in {"steps", "exit"}
    BY <1>2, <2>2, MemberOK
  <2> HIDE DEF n
  <2>4. /\ n.c = run[r].c /\ n.blocked = run[r].blocked /\ n.spoilt = run[r].spoilt /\ n.unremoved = run[r].unremoved
        /\ DOMAIN n.unit = DOMAIN run[r].unit \ {d} /\ \A e \in DOMAIN n.unit : n.unit[e] = run[r].unit[e]
    BY <2>3 DEF Done, Drop
  <2>5. Control'
    BY <1>2, <2>1, <2>3, <2>4, ControlStep DEF Ended
  <2>6. WorkOK'
    BY <1>1, <1>2, <2>1, <2>3, WorkStep
  <2>7. /\ run'[r] = n
        /\ \A q \in Runs \ {r} : run'[q] = run[q]
    BY <1>2, <2>1, Update
  <2>8. \A q \in Runs : /\ run'[q].c = run[q].c /\ (run[q].pc = "crashed" => run'[q].pc = "crashed")
                        /\ run'[q].spoilt = run[q].spoilt /\ run'[q].unremoved = run[q].unremoved
                        /\ run'[q].blocked = run[q].blocked
    BY <1>2, <2>4, <2>7
  <2>9. \A q \in Runs : \A e : InHand(q, e) /\ (q # r \/ e # d) => InHand(q, e)' /\ run'[q].unit[e] = run[q].unit[e]
    BY <2>4, <2>7 DEF InHand
  <2>10. /\ DOMAIN build' = DOMAIN build \ {d}
         /\ \A q, e, g : Wrote(q, e, g)' <=> Wrote(q, e, g) /\ e # d
    BY <1>5 DEF Wrote, Drop
  <2>11. WriterOK'
    <3> SUFFICES ASSUME NEW q, NEW e, NEW g, Wrote(q, e, g)'
                 PROVE  WriterOf(q, e, g)'
      BY DEF WriterOK, Wrote
    <3>1. WriterOf(q, e, g) /\ e # d
      BY <1>2, <2>10, Writers DEF Books
    <3> QED
      BY <3>1, <2>8, <2>9 DEF WriterOf, IsBind, Copies
  <2>12. ASSUME NEW q \in Runs, NEW e \in DOMAIN run'[q].unit
         PROVE  CopyOK(q, e)'
    <3> SUFFICES ASSUME run'[q].unit[e].at = "copy"
                 PROVE  CopyOK(q, e)'
      BY DEF CopyOK
    <3>1. InHand(q, e) /\ run'[q].unit[e] = run[q].unit[e] /\ (q # r \/ e # d)
      BY <2>4, <2>7 DEF InHand
    <3>2. CopyOK(q, e)
      BY <3>1, <1>2 DEF Books, InHand
    <3>3. CASE e = d
      <4>1. run'[q].pc = "crashed" /\ \A g : ~Wrote(q, d, g)'
        BY <1>3, <3>1, <3>3, <2>8, <2>10
      <4> QED
        BY <4>1, <3>1, <3>2, <3>3, <2>8 DEF CopyOK, Copies
    <3>4. CASE e # d
      <4>1. \A s \in q .. MaxRuns : s \in Runs /\ (Undone(s, e) => Undone(s, e)')
        BY <3>4, <2>8, <2>9 DEF Removing, Undone
      <4> QED
        BY <4>1, <3>1, <3>2, <3>4, <2>8, <2>10 DEF CopyOK, Copies
    <3> QED
      BY <3>3, <3>4
  <2>13. OnlyAfterInterruption'
    <3>1. \A q \in Runs : \A e : Died(q, e) => Died(q, e)'
      BY <1>2, <2>7 DEF Died
    <3>2. \A q \in Runs : 1 .. q - 1 \subseteq Runs
      OBVIOUS
    <3> QED
      BY <3>1, <3>2, <1>2, <2>8 DEF OnlyAfterInterruption, Books
  <2> QED
    BY <2>5, <2>6, <2>11, <2>12, <2>13 DEF IInv, Books
<1>6. CASE UNCHANGED build /\ run' = [run EXCEPT ![r] = Strand(@, d, run[r].unit[d].ok)]
  <2> DEFINE y == [run[r] EXCEPT !.unremoved = @ \cup {d}]
             n == Member(y, d, run[r].unit[d].ok)
  <2>1. run' = [run EXCEPT ![r] = n]
    BY <1>6 DEF Strand
  <2>2. /\ Shape(y) /\ y.c = run[r].c /\ y.pc = run[r].pc /\ y.step = run[r].step /\ y.todo = run[r].todo
        /\ y.unit = run[r].unit /\ y.failed = run[r].failed /\ y.spoilt = run[r].spoilt
        /\ y.unremoved = run[r].unremoved \cup {d} /\ y.blocked = run[r].blocked
        /\ run[r].unit[d].ok \in BOOLEAN
    BY <1>1, <1>2 DEF RecordOK, UnitOK, InHand, Shape
  <2> HIDE DEF y
  <2>3. RecordOK(n) /\ UnitOK(n) /\ Done(y, n, d, run[r].unit[d].ok) /\ n.pc \in {"steps", "exit"}
    BY <1>2, <2>2, MemberOK
  <2> HIDE DEF n
  <2>4. /\ n.c = run[r].c /\ n.blocked = run[r].blocked /\ n.spoilt = run[r].spoilt
        /\ n.unremoved = run[r].unremoved \cup {d}
        /\ DOMAIN n.unit = DOMAIN run[r].unit \ {d} /\ \A e \in DOMAIN n.unit : n.unit[e] = run[r].unit[e]
    BY <2>2, <2>3 DEF Done, Drop
  <2>5. Control'
    BY <1>2, <2>1, <2>3, <2>4, ControlStep DEF Ended
  <2>6. WorkOK'
    BY <1>1, <1>2, <2>1, <2>3, WorkStep
  <2>7. /\ run'[r] = n
        /\ \A q \in Runs \ {r} : run'[q] = run[q]
    BY <1>2, <2>1, Update
  <2>8. \A q \in Runs : /\ run'[q].c = run[q].c /\ (run[q].pc = "crashed" => run'[q].pc = "crashed")
                        /\ run'[q].spoilt = run[q].spoilt /\ run[q].unremoved \subseteq run'[q].unremoved
                        /\ run'[q].blocked = run[q].blocked
    BY <1>2, <2>4, <2>7
  <2>9. \A q \in Runs : \A e : InHand(q, e) /\ (q # r \/ e # d) => InHand(q, e)' /\ run'[q].unit[e] = run[q].unit[e]
    BY <2>4, <2>7 DEF InHand
  <2>10. /\ DOMAIN build' = DOMAIN build /\ \A q, e, g : Wrote(q, e, g)' <=> Wrote(q, e, g)
         /\ d \in run'[r].unremoved
    BY <1>6, <2>4, <2>7 DEF Wrote
  <2>11. WriterOK'
    <3> SUFFICES ASSUME NEW q, NEW e, NEW g, Wrote(q, e, g)'
                 PROVE  WriterOf(q, e, g)'
      BY DEF WriterOK, Wrote
    <3>1. WriterOf(q, e, g)
      BY <1>2, <2>10, Writers DEF Books
    <3> QED
      BY <3>1, <2>8, <2>9, <2>10 DEF WriterOf, IsBind, Copies
  <2>12. ASSUME NEW q \in Runs, NEW e \in DOMAIN run'[q].unit
         PROVE  CopyOK(q, e)'
    <3> SUFFICES ASSUME run'[q].unit[e].at = "copy"
                 PROVE  CopyOK(q, e)'
      BY DEF CopyOK
    <3>1. InHand(q, e) /\ run'[q].unit[e] = run[q].unit[e]
      BY <2>4, <2>7 DEF InHand
    <3>2. CopyOK(q, e)
      BY <3>1, <1>2 DEF Books, InHand
    <3>3. \A s \in q .. MaxRuns : s \in Runs /\ (Undone(s, e) => Undone(s, e)')
      BY <2>8, <2>9, <2>10 DEF Removing, Undone
    <3> QED
      BY <3>1, <3>2, <3>3, <2>8, <2>10 DEF CopyOK, Copies
  <2>13. OnlyAfterInterruption'
    <3>1. \A q \in Runs : \A e : Died(q, e) => Died(q, e)'
      BY <1>2, <2>7 DEF Died
    <3>2. \A q \in Runs : 1 .. q - 1 \subseteq Runs
      OBVIOUS
    <3> QED
      BY <3>1, <3>2, <1>2, <2>8 DEF OnlyAfterInterruption, Books
  <2> QED
    BY <2>5, <2>6, <2>11, <2>12, <2>13 DEF IInv, Books
<1> QED
  BY <1>4, <1>5, <1>6 DEF RemoveEntry

-----------------------------------------------------------------------------
(* All actions. *)

\* The steps of its plan, so far, in which an invocation compiles.
Compiled(x) == {i \in 1 .. x.step : Plan(x.c)[i].op = "so"}
\* A bind in progress has known targets; a step of a plan has members left; a directory whose
\* removal stopped is not compiled again.
StepOK ==
    \A r \in Runs :
        /\ IsBind(r) /\ run[r].pc \notin {"idle", "failed"} => parseBuildTarget(run[r].c.spec) # <<>>
        /\ run[r].pc = "steps" => /\ run[r].step \in DOMAIN Plan(run[r].c)
                                  /\ run[r].todo \subseteq Current(r).of
                                  /\ Current(r).op = "so" => run[r].unremoved \cap run[r].todo = {}
                                  /\ run[r].unremoved \subseteq UNION {Plan(run[r].c)[i].of : i \in Compiled(run[r])}

LEMMA InitIInv == Init => IInv
<1> SUFFICES ASSUME Init
             PROVE  IInv
  OBVIOUS
<1>1. /\ run = [r \in Runs |-> Idle] /\ \A r \in Runs : run[r] = Idle
      /\ DOMAIN build = {} /\ work = {}
  BY DEF Init
<1>2. RecordOK(Idle) /\ UnitOK(Idle) /\ DOMAIN Idle.unit = {} /\ Idle.pc = "idle" /\ Idle.blocked = {}
  BY DEF Idle, RecordOK, UnitOK, Shape, Early
<1>3. Control
  BY <1>1, <1>2 DEF Control, InOrder, Alone, Active
<1>4. Books
  BY <1>1, <1>2 DEF Books, WriterOK, OnlyAfterInterruption
<1>5. WorkOK
  BY <1>1 DEF WorkOK
<1> QED
  BY <1>3, <1>4, <1>5 DEF IInv

LEMMA StutterKeeps ==
  ASSUME IInv, UNCHANGED vars
  PROVE  IInv'
<1>1. /\ run' = run /\ build' = build /\ work' = work
      /\ Control /\ Books /\ WorkOK
  BY DEF vars, IInv
<1>2. Control'
  BY <1>1 DEF Control, InOrder, Alone, Active, IsBind
<1>3. WorkOK'
  BY <1>1 DEF WorkOK
<1>4. Books'
  <2>1. \A q, e : /\ Copies(q)' = Copies(q) /\ InHand(q, e)' = InHand(q, e)
                 /\ Removing(q, e)' = Removing(q, e) /\ Undone(q, e)' = Undone(q, e) /\ Died(q, e)' = Died(q, e)
    BY <1>1 DEF Copies, IsBind, InHand, Removing, Undone, Died
  <2>2. \A q, e, f : WriterOf(q, e, f)' = WriterOf(q, e, f) /\ Wrote(q, e, f)' = Wrote(q, e, f)
    BY <1>1, <2>1 DEF WriterOf, IsBind, Wrote
  <2>3. WriterOK'
    BY <1>1, <2>2 DEF Books, WriterOK
  <2>4. \A q, e : CopyOK(q, e)' <=> CopyOK(q, e)
    BY <1>1, <2>1, <2>2 DEF CopyOK
  <2>5. OnlyAfterInterruption'
    BY <1>1, <2>1 DEF Books, OnlyAfterInterruption
  <2> QED
    BY <1>1, <2>1, <2>3, <2>4, <2>5 DEF Books
<1> QED
  BY <1>2, <1>3, <1>4 DEF IInv

LEMMA NextKeeps ==
  ASSUME IInv, StepOK, [Next]_vars
  PROVE  IInv'
<1>1. CASE UNCHANGED vars
  BY <1>1, StutterKeeps
<1>2. CASE AllEnded
  BY <1>2, StutterKeeps DEF AllEnded
<1>3. ASSUME NEW r \in Runs, NEW c \in Commands, Invoke(r, c)
      PROVE  IInv'
  BY <1>3, InvokeKeeps
<1>4. ASSUME NEW r \in Runs,
             MakeWork(r) \/ Check(r) \/ Exit(r) \/ Reset(r) \/ MakeHome(r) \/ InitWork(r) \/ Install(r) \/ Crash(r)
      PROVE  IInv'
  BY <1>4, MakeWorkKeeps, CheckKeeps, ExitKeeps, ResetKeeps, MakeHomeKeeps, InitWorkKeeps, StepMembersKeep, CrashKeeps
<1>5. ASSUME NEW r \in Runs, NEW x \in run[r].todo,
             \/ Gen(r, x) \/ Reject(r, x) \/ StartUnit(r, x) \/ CopyFile(r, x) \/ GoBuild(r, x)
             \/ RemoveEntry(r, x) \/ Create(r, x) \/ Write(r, x) \/ DropOutput(r, x) \/ OpenAL(r, x)
      PROVE  IInv'
  <2>1. StartUnit(r, x) => x \notin run[r].unremoved
    BY DEF StartUnit, At, StepOK
  <2> QED
    BY <1>5, <2>1, StepMembersKeep, StartUnitKeeps, CopyFileKeeps, GoBuildKeeps, RemoveEntryKeeps, CreateKeeps, WriteKeeps
<1> QED
  BY <1>1, <1>2, <1>3, <1>4, <1>5 DEF Next

-----------------------------------------------------------------------------
(* The outputs, and the type invariant. These need the step of its plan that an          *)
(* invocation is in, and that no two steps of a plan pack the same file.                 *)

\* An output is whole, as a step of the plan wants it, or being written.
Packed(r, o) == \E j \in DOMAIN Plan(run[r].c) :
                   LET s == Plan(run[r].c)[j]
                   IN s.op = "pack" /\ o \in s.of /\ out[o].whole /\ out[o].libs = s.libs
Writing(r, o) == run[r].pc = "steps" /\ Op(run[r]) = "pack" /\ InHand(r, o)
Going(x) == x.pc = "ok" \/ (x.pc \in {"steps", "exit"} /\ ~x.failed)
OutOK ==
    \A o \in DOMAIN out :
        LET r == out[o].by
        IN /\ r \in Runs /\ IsBind(r) /\ run[r].pc \in {"steps", "exit"} \cup Ended
           /\ Going(run[r]) => Packed(r, o) \/ Writing(r, o)

FilesOK == DOMAIN home = {"made", "libs"} /\ TypeOK
OInv == IInv /\ StepOK /\ OutOK /\ FilesOK

-----------------------------------------------------------------------------
(* Lemmas. *)

\* What the plan of a bind is known to be (PlansSound), and that of init.
LEMMA PlanFacts ==
  ASSUME Control, StepOK, NEW r \in Runs, run[r].pc = "steps"
  PROVE  LET plan == Plan(run[r].c)
         IN /\ Len(plan) \in Nat /\ DOMAIN plan = 1 .. Len(plan)
            /\ run[r].step \in DOMAIN plan /\ Current(r) = plan[run[r].step]
            /\ Current(r).op = "so" => Current(r).of \subseteq Dirs
            /\ Current(r).op = "pack" => IsBind(r) /\ Current(r).libs \subseteq Dirs
            /\ Current(r).op = "openal" => Current(r).of \subseteq {"include", "arm", "arm64", "386", "amd64"}
            /\ \A i, j \in DOMAIN plan : plan[i].op = "so" /\ plan[j].op = "so" /\ i # j => plan[i].of \cap plan[j].of = {}
<1>1. run[r].c \in Commands /\ (run[r].c.cmd = "bind" \/ run[r].c.cmd = "init")
  BY DEF Control, RecordOK
<1>2. run[r].step \in DOMAIN Plan(run[r].c) /\ Current(r) = Plan(run[r].c)[run[r].step]
  BY DEF StepOK, Current
<1>3. CASE run[r].c.cmd = "bind"
  <2>1. parseBuildTarget(run[r].c.spec) # <<>>
    BY <1>3 DEF StepOK, IsBind
  <2> QED
    BY <1>1, <1>2, <1>3, <2>1, PlansSound DEF IsBind
<1>4. CASE run[r].c.cmd = "init"
  <2>1. Plan(run[r].c) = InitPlan(run[r].c)
    BY <1>4 DEF Plan
  <2> QED
    BY <1>2, <2>1, InitPlanFacts
<1> QED
  BY <1>1, <1>3, <1>4

\* One invocation changes: what is asked of its new record.
StepRecordOK(x) ==
    /\ x.c.cmd = "bind" /\ x.pc \notin {"idle", "failed"} => parseBuildTarget(x.c.spec) # <<>>
    /\ x.pc = "steps" => /\ x.step \in DOMAIN Plan(x.c) /\ x.todo \subseteq Plan(x.c)[x.step].of
                         /\ Plan(x.c)[x.step].op = "so" => x.unremoved \cap x.todo = {}
                         /\ x.unremoved \subseteq UNION {Plan(x.c)[i].of : i \in Compiled(x)}

LEMMA StepRecords == StepOK <=> \A r \in Runs : StepRecordOK(run[r])
BY DEF StepOK, StepRecordOK, IsBind, Current, Compiled

LEMMA StepUpdate ==
  ASSUME Control, StepOK, NEW r \in Runs, NEW n, run' = [run EXCEPT ![r] = n], StepRecordOK(n)
  PROVE  StepOK'
<1>1. run'[r] = n /\ \A q \in Runs \ {r} : run'[q] = run[q]
  BY Update
<1>2. \A q \in Runs : StepRecordOK(run'[q])
  BY <1>1, StepRecords
<1> QED
  BY <1>2 DEF StepOK, StepRecordOK, IsBind, Current, Compiled

\* A member of a step is done: the next step, if any, is one of the plan.
LEMMA StepDone ==
  ASSUME Control, StepOK, NEW r \in Runs, run[r].pc = "steps", NEW y, NEW n, NEW m, NEW ok,
         Done(y, n, m, ok), y.c = run[r].c, y.pc = run[r].pc, y.step = run[r].step, y.todo = run[r].todo,
         y.unremoved = run[r].unremoved \/ (y.unremoved = run[r].unremoved \cup {m} /\ Op(run[r]) = "so" /\ m \in run[r].todo),
         n.pc \in {"steps", "exit"}, run' = [run EXCEPT ![r] = n]
  PROVE  StepOK'
<1>1. /\ Len(Plan(run[r].c)) \in Nat /\ DOMAIN Plan(run[r].c) = 1 .. Len(Plan(run[r].c))
      /\ run[r].step \in DOMAIN Plan(run[r].c)
  BY PlanFacts
<1>2. LET plan == Plan(run[r].c)
      IN \A i, j \in DOMAIN plan : plan[i].op = "so" /\ plan[j].op = "so" /\ i # j => plan[i].of \cap plan[j].of = {}
  BY PlanFacts
<1>3. StepRecordOK(run[r])
  BY StepRecords
<1>4. n.c = run[r].c
  BY DEF Done
<1>5. n.pc = "steps" => n.step \in DOMAIN Plan(n.c) /\ n.todo \subseteq Plan(n.c)[n.step].of
  <2>1. CASE n.todo = y.todo \ {m} /\ n.step = y.step
    BY <1>3, <1>4, <2>1 DEF StepRecordOK
  <2>2. CASE n.pc = "exit"
    BY <2>2
  <2>3. CASE /\ y.step # Len(Plan(y.c)) /\ n.todo = Plan(y.c)[n.step].of /\ n.step = y.step + 1
    BY <1>1, <1>4, <2>3
  <2> QED
    BY <2>1, <2>2, <2>3 DEF Done
<1>6. n.unremoved = y.unremoved /\ (n.pc = "steps" => n.step \in {y.step, y.step + 1})
  BY DEF Done
<1>7. ASSUME n.pc = "steps", NEW d \in n.unremoved
      PROVE  \E i \in 1 .. run[r].step : Plan(n.c)[i].op = "so" /\ d \in Plan(n.c)[i].of
  <2>1. run[r].step \in 1 .. run[r].step
    BY <1>1
  <2>2. CASE d \in run[r].unremoved
    BY <1>3, <1>4, <2>2 DEF StepRecordOK, Compiled
  <2>3. CASE d = m /\ Op(run[r]) = "so" /\ m \in run[r].todo
    BY <1>3, <1>4, <2>1, <2>3 DEF StepRecordOK, Op
  <2> QED
    BY <1>6, <2>2, <2>3
<1>8. n.pc = "steps" => n.unremoved \subseteq UNION {Plan(n.c)[i].of : i \in Compiled(n)}
  <2>1. n.pc = "steps" => 1 .. run[r].step \subseteq 1 .. n.step
    BY <1>1, <1>6
  <2> QED
    BY <1>7, <2>1 DEF Compiled
<1>9. ASSUME n.pc = "steps", Plan(n.c)[n.step].op = "so", NEW d \in n.unremoved, d \in n.todo
       PROVE  FALSE
  <2>1. CASE n.todo = y.todo \ {m} /\ n.step = y.step
    BY <1>3, <1>4, <1>6, <1>9, <2>1 DEF StepRecordOK
  <2>2. CASE n.todo = Plan(y.c)[n.step].of /\ n.step = y.step + 1
    <3>1. PICK i \in 1 .. run[r].step : Plan(n.c)[i].op = "so" /\ d \in Plan(n.c)[i].of
      BY <1>7, <1>9
    <3>2. n.step \in DOMAIN Plan(n.c) /\ i \in DOMAIN Plan(n.c) /\ i # n.step
      BY <1>1, <1>4, <1>5, <1>9, <2>2
    <3> QED
      BY <1>4, <1>2, <1>9, <2>2, <3>1, <3>2
  <2> QED
    BY <1>9, <2>1, <2>2 DEF Done
<1>10. StepRecordOK(n)
  BY <1>3, <1>4, <1>5, <1>8, <1>9 DEF StepRecordOK
<1> QED
  BY <1>10, StepUpdate

\* A step that opens and writes no output, and ends none that it has open.
LEMMA OutQuiet ==
  ASSUME Control, OutOK, NEW r \in Runs, NEW n, run' = [run EXCEPT ![r] = n], UNCHANGED out,
         \/ run[r].pc \notin {"steps", "exit"} \cup Ended
         \/ /\ n.c = run[r].c /\ n.pc \in {"steps", "exit"} \cup Ended
            /\ Going(n) => /\ Going(run[r])
                           /\ \A o : Writing(r, o) => n.pc = "steps" /\ Op(n) = "pack" /\ o \in DOMAIN n.unit
  PROVE  OutOK'
<1>1. run'[r] = n /\ \A q \in Runs \ {r} : run'[q] = run[q]
  BY Update
<1> SUFFICES ASSUME NEW o \in DOMAIN out, NEW q, q = out[o].by
             PROVE  /\ q \in Runs /\ IsBind(q)' /\ run'[q].pc \in {"steps", "exit"} \cup Ended
                    /\ Going(run'[q]) => Packed(q, o)' \/ Writing(q, o)'
  BY DEF OutOK
<1>2. /\ q \in Runs /\ IsBind(q) /\ run[q].pc \in {"steps", "exit"} \cup Ended
      /\ Going(run[q]) => Packed(q, o) \/ Writing(q, o)
  BY DEF OutOK
<1>3. run'[q].c = run[q].c /\ run'[q].pc \in {"steps", "exit"} \cup Ended
  BY <1>1, <1>2
<1>4. Packed(q, o) => Packed(q, o)'
  BY <1>3 DEF Packed
<1>5. ASSUME Going(run'[q])
      PROVE  Going(run[q]) /\ (Writing(q, o) => Writing(q, o)')
  <2>1. CASE q = r
    BY <1>1, <1>2, <1>5, <2>1 DEF Writing, InHand
  <2>2. CASE q # r
    BY <1>1, <1>2, <1>5, <2>2 DEF Writing, InHand
  <2> QED
    BY <2>1, <2>2
<1> QED
  BY <1>2, <1>3, <1>4, <1>5 DEF IsBind

\* A member of a step that does not pack, that has no output open, or that fails.
LEMMA MemberQuiet ==
  ASSUME Control, StepOK, OutOK, NEW r \in Runs, run[r].pc = "steps", NEW m, NEW ok \in BOOLEAN,
         NEW y, Shape(y), y.c = run[r].c, y.pc = run[r].pc, y.step = run[r].step, y.todo = run[r].todo,
         y.unit = run[r].unit, y.failed = run[r].failed, y.spoilt = run[r].spoilt \/ (y.spoilt = run[r].spoilt \cup {m} /\ ~ok),
         y.unremoved = run[r].unremoved \/ (y.unremoved = run[r].unremoved \cup {m} /\ Op(run[r]) = "so" /\ m \in run[r].todo),
         run' = [run EXCEPT ![r] = Member(y, m, ok)], UNCHANGED out,
         Op(run[r]) # "pack" \/ m \notin DOMAIN run[r].unit \/ ~ok
  PROVE  StepOK' /\ OutOK'
<1> DEFINE n == Member(y, m, ok)
<1>1. RecordOK(run[r]) /\ UnitOK(run[r])
  BY DEF Control
<1>2. RecordOK(n) /\ Done(y, n, m, ok) /\ n.pc \in {"steps", "exit"}
  BY <1>1, MemberOK
<1> HIDE DEF n
<1>3. run' = [run EXCEPT ![r] = n]
  BY DEF n
<1>4. StepOK'
  BY <1>2, <1>3, StepDone
<1>5. ASSUME Going(n)
      PROVE  Going(run[r])
  BY <1>1, <1>2, <1>5 DEF Going, Done, RecordOK
<1>6. ASSUME Going(n), NEW o, Writing(r, o)
      PROVE  n.pc = "steps" /\ Op(n) = "pack" /\ o \in DOMAIN n.unit
  <2>1. o \in DOMAIN run[r].unit /\ Op(run[r]) = "pack" /\ o \in run[r].todo
    BY <1>1, <1>6 DEF Writing, InHand, RecordOK
  <2>2. o # m
    BY <1>2, <1>6, <2>1 DEF Going, Done
  <2>3. o \in y.todo \ {m}
    BY <2>1, <2>2
  <2>4. n.pc = "steps" /\ n.step = run[r].step /\ n.c = run[r].c /\ n.unit = Drop(run[r].unit, m)
    BY <1>2, <2>3 DEF Done
  <2> QED
    BY <2>1, <2>2, <2>4 DEF Op, Drop
<1>7. Going(n) => /\ Going(run[r])
                  /\ \A o : Writing(r, o) => n.pc = "steps" /\ Op(n) = "pack" /\ o \in DOMAIN n.unit
  BY <1>5, <1>6
<1>8. n.c = run[r].c /\ n.pc \in {"steps", "exit"} \cup Ended
  BY <1>2 DEF Done
<1>9. OutOK'
  BY <1>3, <1>7, <1>8, OutQuiet
<1> QED
  BY <1>4, <1>9

\* The rest of a record is as it was.
LEMMA PointQuiet ==
  ASSUME Control, StepOK, OutOK, NEW r \in Runs, NEW n, run' = [run EXCEPT ![r] = n], UNCHANGED out,
         n.c = run[r].c, run[r].pc \notin {"idle", "failed", "steps"},
         n.pc \notin {"steps"},
         run[r].pc = "exit" => n.pc \in Ended /\ (n.pc = "ok" => ~run[r].failed),
         run[r].pc \notin Ended
  PROVE  StepOK' /\ OutOK'
<1>1. StepRecordOK(n)
  BY StepRecords DEF StepRecordOK
<1>2. StepOK'
  BY <1>1, StepUpdate
<1>3. Going(n) => Going(run[r]) \/ run[r].pc # "exit"
  BY DEF Going, Ended
<1>4. \A o : ~Writing(r, o)
  BY DEF Writing
<1>5. OutOK'
  BY <1>3, <1>4, OutQuiet DEF Ended
<1> QED
  BY <1>2, <1>5

-----------------------------------------------------------------------------
(* One lemma per action. *)

LEMMA InvokeOut ==
  ASSUME OInv, NEW r \in Runs, NEW c \in Commands, Invoke(r, c)
  PROVE  StepOK' /\ OutOK'
<1> DEFINE n == [run[r] EXCEPT !.c = c,
                 !.pc = IF c.cmd = "bind" /\ parseBuildTarget(c.spec) = <<>> THEN "failed" ELSE "start"]
<1>1. Control /\ StepOK /\ OutOK /\ Shape(run[r])
  BY DEF OInv, IInv, Control, RecordOK
<1>2. run' = [run EXCEPT ![r] = n] /\ UNCHANGED out /\ run[r].pc = "idle"
  BY DEF Invoke
<1>3. n.c = c /\ n.pc = IF c.cmd = "bind" /\ parseBuildTarget(c.spec) = <<>> THEN "failed" ELSE "start"
  BY <1>1 DEF Shape
<1> HIDE DEF n
<1>4. StepRecordOK(n)
  BY <1>3 DEF StepRecordOK
<1>5. StepOK'
  BY <1>1, <1>2, <1>4, StepUpdate
<1>6. OutOK'
  BY <1>1, <1>2, OutQuiet DEF Ended
<1> QED
  BY <1>5, <1>6

\* The steps before a plan and after it.
LEMMA PointsOut ==
  ASSUME OInv, NEW r \in Runs, MakeWork(r) \/ Exit(r) \/ Reset(r) \/ MakeHome(r)
  PROVE  StepOK' /\ OutOK'
<1>1. Control /\ StepOK /\ OutOK /\ Shape(run[r])
  BY DEF OInv, IInv, Control, RecordOK
<1>2. CASE MakeWork(r)
  <2>1. PICK pc \in {"check", "failed"}, kept \in BOOLEAN :
           \/ run' = [run EXCEPT ![r].pc = pc]
           \/ run' = [run EXCEPT ![r] = [@ EXCEPT !.pc = pc, !.kept = kept]]
    BY <1>2 DEF MakeWork
  <2> DEFINE n == IF run' = [run EXCEPT ![r].pc = pc] THEN [run[r] EXCEPT !.pc = pc]
                  ELSE [run[r] EXCEPT !.pc = pc, !.kept = kept]
  <2>2. run' = [run EXCEPT ![r] = n] /\ UNCHANGED out /\ run[r].pc = "start"
    BY <1>2, <2>1 DEF MakeWork
  <2>3. n.c = run[r].c /\ n.pc \in {"check", "failed"}
    BY <1>1 DEF Shape
  <2> HIDE DEF n
  <2> QED
    BY <1>1, <2>2, <2>3, PointQuiet DEF Ended
<1>3. CASE Exit(r)
  <2>1. PICK kept : run' = [run EXCEPT ![r] = [@ EXCEPT !.pc = IF run[r].failed THEN "failed" ELSE "ok", !.kept = kept,
                                                        !.libs = {}, !.step = 0, !.failed = FALSE]]
    BY <1>3 DEF Exit
  <2> DEFINE n == [run[r] EXCEPT !.pc = IF run[r].failed THEN "failed" ELSE "ok", !.kept = kept,
                                 !.libs = {}, !.step = 0, !.failed = FALSE]
  <2>2. run' = [run EXCEPT ![r] = n] /\ UNCHANGED out /\ run[r].pc = "exit"
    BY <1>3, <2>1 DEF Exit
  <2>3. n.c = run[r].c /\ n.pc = IF run[r].failed THEN "failed" ELSE "ok"
    BY <1>1 DEF Shape
  <2> HIDE DEF n
  <2> QED
    BY <1>1, <2>2, <2>3, PointQuiet DEF Ended
<1>4. CASE Reset(r)
  <2>1. PICK pc \in {"ok", "failed", "mkdir"} : run' = [run EXCEPT ![r].pc = pc]
    BY <1>4 DEF Reset
  <2> DEFINE n == [run[r] EXCEPT !.pc = pc]
  <2>2. run' = [run EXCEPT ![r] = n] /\ UNCHANGED out /\ run[r].pc = "start"
    BY <1>4, <2>1 DEF Reset
  <2>3. n.c = run[r].c /\ n.pc \in {"ok", "failed", "mkdir"}
    BY <1>1 DEF Shape
  <2> HIDE DEF n
  <2> QED
    BY <1>1, <2>2, <2>3, PointQuiet DEF Ended
<1>5. CASE MakeHome(r)
  <2>1. PICK pc \in {"tempdir", "failed"} : run' = [run EXCEPT ![r].pc = pc]
    BY <1>5 DEF MakeHome
  <2> DEFINE n == [run[r] EXCEPT !.pc = pc]
  <2>2. run' = [run EXCEPT ![r] = n] /\ UNCHANGED out /\ run[r].pc = "mkdir"
    BY <1>5, <2>1 DEF MakeHome
  <2>3. n.c = run[r].c /\ n.pc \in {"tempdir", "failed"}
    BY <1>1 DEF Shape
  <2> HIDE DEF n
  <2> QED
    BY <1>1, <2>2, <2>3, PointQuiet DEF Ended
<1> QED
  BY <1>2, <1>3, <1>4, <1>5

\* The first step of a plan.
LEMMA BeginOut ==
  ASSUME OInv, NEW r \in Runs, Check(r) \/ InitWork(r)
  PROVE  StepOK' /\ OutOK'
<1>1. Control /\ StepOK /\ OutOK /\ RecordOK(run[r])
  BY DEF OInv, IInv, Control
<1>2. run[r].pc \in {"check", "tempdir"} /\ UNCHANGED out
  BY DEF Check, InitWork
<1>3. CASE run' = [run EXCEPT ![r] = Advance([@ EXCEPT !.pc = "steps"])]
  <2> DEFINE y == [run[r] EXCEPT !.pc = "steps"]
             n == Advance(y)
  <2>1. run' = [run EXCEPT ![r] = n]
    BY <1>3
  <2>2. Shape(y) /\ y.pc = "steps" /\ y.c = run[r].c /\ y.step = 0 /\ y.todo = {} /\ y.unremoved = {}
    BY <1>1, <1>2 DEF RecordOK, Shape, Early
  <2> HIDE DEF y
  <2>3. /\ n.c = run[r].c /\ n.unremoved = {}
        /\ \/ n.pc = "exit"
           \/ 0 # Len(Plan(run[r].c)) /\ n.step = 1 /\ n.todo = Plan(run[r].c)[1].of
    BY <2>2, AdvanceFacts
  <2> HIDE DEF n
  <2>4. n.pc = "exit" \/ 1 \in DOMAIN Plan(run[r].c)
    <3>1. run[r].c \in Commands /\ (run[r].c.cmd = "bind" \/ run[r].c.cmd = "init")
      BY <1>1, <1>2 DEF RecordOK, Early
    <3>2. CASE run[r].c.cmd = "bind"
      <4>1. parseBuildTarget(run[r].c.spec) # <<>>
        BY <1>1, <1>2, <3>2 DEF StepOK, IsBind
      <4> QED
        BY <2>3, <3>1, <3>2, <4>1, PlansSound
    <3>3. CASE run[r].c.cmd = "init"
      <4>1. Plan(run[r].c) = InitPlan(run[r].c)
        BY <3>3 DEF Plan
      <4> QED
        BY <4>1, InitPlanFacts
    <3> QED
      BY <3>1, <3>2, <3>3
  <2>5. StepRecordOK(n)
    BY <1>1, <1>2, <2>3, <2>4, StepRecords DEF StepRecordOK
  <2>6. StepOK'
    BY <1>1, <2>1, <2>5, StepUpdate
  <2>7. OutOK'
    BY <1>1, <1>2, <2>1, OutQuiet DEF Ended
  <2> QED
    BY <2>6, <2>7
<1>4. CASE \E pc \in {"exit", "failed"}, failed \in BOOLEAN : run' = [run EXCEPT ![r] = [@ EXCEPT !.pc = pc, !.failed = failed]]
  <2>1. PICK pc \in {"exit", "failed"}, failed \in BOOLEAN : run' = [run EXCEPT ![r] = [@ EXCEPT !.pc = pc, !.failed = failed]]
    BY <1>4
  <2> DEFINE n == [run[r] EXCEPT !.pc = pc, !.failed = failed]
  <2>2. run' = [run EXCEPT ![r] = n]
    BY <2>1
  <2>3. n.c = run[r].c /\ n.pc \in {"exit", "failed"}
    BY <1>1 DEF RecordOK, Shape
  <2> HIDE DEF n
  <2> QED
    BY <1>1, <1>2, <2>2, <2>3, PointQuiet DEF Ended
<1>5. CASE run' = [run EXCEPT ![r] = Fail(@)]
  BY <1>4, <1>5 DEF Fail
<1>6. CASE run' = [run EXCEPT ![r].pc = "failed"]
  <2> DEFINE n == [run[r] EXCEPT !.pc = "failed"]
  <2>1. run' = [run EXCEPT ![r] = n]
    BY <1>6
  <2>2. n.c = run[r].c /\ n.pc = "failed"
    BY <1>1 DEF RecordOK, Shape
  <2> HIDE DEF n
  <2> QED
    BY <1>1, <1>2, <2>1, <2>2, PointQuiet DEF Ended
<1> QED
  BY <1>3, <1>5, <1>6 DEF Check, InitWork

\* A step that changes no record but its own, and of that neither the point nor what is left.
LEMMA SameQuiet ==
  ASSUME Control, StepOK, OutOK, NEW r \in Runs, run[r].pc = "steps", NEW n, run' = [run EXCEPT ![r] = n],
         n.c = run[r].c, n.pc = "steps", n.step = run[r].step, n.todo = run[r].todo, n.failed = run[r].failed,
         n.unremoved = run[r].unremoved, DOMAIN run[r].unit \subseteq DOMAIN n.unit, UNCHANGED out
  PROVE  StepOK' /\ OutOK'
<1>1. StepRecordOK(n)
  BY StepRecords DEF StepRecordOK, Compiled
<1>2. StepOK'
  BY <1>1, StepUpdate
<1>3. Going(n) => /\ Going(run[r])
                  /\ \A o : Writing(r, o) => n.pc = "steps" /\ Op(n) = "pack" /\ o \in DOMAIN n.unit
  BY DEF Going, Writing, InHand, Op
<1>4. OutOK'
  BY <1>3, OutQuiet
<1> QED
  BY <1>2, <1>4

\* The members of the steps that neither compile nor pack.
LEMMA PlainMembersOut ==
  ASSUME OInv, NEW r \in Runs, NEW x, Gen(r, x) \/ Reject(r, x) \/ OpenAL(r, x) \/ Install(r)
  PROVE  StepOK' /\ OutOK'
<1>1. run[r].pc = "steps" /\ Op(run[r]) # "pack" /\ UNCHANGED out
  BY DEF Gen, Reject, OpenAL, Install, At, Current, Op
<1>2. \E m : \E ok \in BOOLEAN : run' = [run EXCEPT ![r] = Member(run[r], m, ok)]
  BY DEF Gen, Reject, OpenAL, Install
<1>3. Control /\ StepOK /\ OutOK /\ Shape(run[r])
  BY DEF OInv, IInv, Control, RecordOK
<1> QED
  BY <1>1, <1>2, <1>3, MemberQuiet

\* A framework is removed: what is known of the other outputs remains.
LEMMA DropOutputOut ==
  ASSUME OInv, NEW r \in Runs, NEW o, DropOutput(r, o)
  PROVE  StepOK' /\ OutOK'
<1>1. run[r].pc = "steps" /\ Op(run[r]) # "pack"
  BY DEF DropOutput, At, Current, Op
<1>2. PICK ok \in BOOLEAN : /\ run' = [run EXCEPT ![r] = Member(run[r], o, ok)]
                            /\ \/ out' = out \/ out' = Drop(out, o)
                               \/ out' = Put(out, o, Remnant(r)) /\ ~ok
  BY DEF DropOutput
<1>3. Control /\ StepOK /\ OutOK /\ RecordOK(run[r]) /\ UnitOK(run[r]) /\ Shape(run[r])
  BY DEF OInv, IInv, Control, RecordOK
<1> DEFINE n == Member(run[r], o, ok)
<1>4. RecordOK(n) /\ Done(run[r], n, o, ok) /\ n.pc \in {"steps", "exit"}
  BY <1>1, <1>3, MemberOK
<1> HIDE DEF n
<1>5. run' = [run EXCEPT ![r] = n]
  BY <1>2 DEF n
<1>6. StepOK'
  BY <1>1, <1>3, <1>4, <1>5, StepDone
<1>7. run'[r] = n /\ \A q \in Runs \ {r} : run'[q] = run[q]
  BY <1>3, <1>5, Update
<1>8. IsBind(r)
  <2>1. run[r].c.cmd = "init" => Plan(run[r].c) = InitPlan(run[r].c)
    BY DEF Plan
  <2> QED
    BY <1>1, <1>3, <2>1, InitPlanFacts DEF DropOutput, At, Current, RecordOK, IsBind
<1>9. \A p \in DOMAIN out' : (p \in DOMAIN out /\ out'[p] = out[p]) \/ (out'[p] = Remnant(r) /\ ~ok)
  <2>1. CASE out' = out \/ out' = Drop(out, o)
    BY <2>1 DEF Drop
  <2>2. CASE out' = Put(out, o, Remnant(r)) /\ ~ok
    BY <2>2 DEF Put
  <2> QED
    BY <1>2, <2>1, <2>2
<1>10. ASSUME NEW p \in DOMAIN out', NEW q, q = out'[p].by
      PROVE  /\ q \in Runs /\ IsBind(q)' /\ run'[q].pc \in {"steps", "exit"} \cup Ended
             /\ Going(run'[q]) => Packed(q, p)' \/ Writing(q, p)'
  <2>1. CASE out'[p] = Remnant(r) /\ ~ok
    <3>1. q = r /\ n.c = run[r].c
      BY <1>4, <1>10, <2>1 DEF Remnant, Done
    <3>2. n.failed
      BY <1>4, <2>1 DEF Done
    <3> QED
      BY <1>4, <1>7, <1>8, <3>1, <3>2 DEF Going, IsBind
  <2> SUFFICES ASSUME p \in DOMAIN out, out'[p] = out[p]
               PROVE  /\ q \in Runs /\ IsBind(q)' /\ run'[q].pc \in {"steps", "exit"} \cup Ended
                      /\ Going(run'[q]) => Packed(q, p)' \/ Writing(q, p)'
    BY <1>9, <2>1
  <2>2. /\ q \in Runs /\ IsBind(q) /\ run[q].pc \in {"steps", "exit"} \cup Ended
        /\ Going(run[q]) => Packed(q, p) \/ Writing(q, p)
    BY <1>3, <1>10 DEF OutOK
  <2>3. run'[q].c = run[q].c
    BY <1>4, <1>7, <2>2 DEF Done
  <2>4. Packed(q, p) => Packed(q, p)'
    BY <2>3 DEF Packed
  <2>5. CASE q = r
    <3>1. ~Writing(q, p)
      BY <1>1, <2>5 DEF Writing
    <3>2. Going(n) => Going(run[r])
      BY <1>1, <1>3, <1>4 DEF Going, Done, RecordOK
    <3> QED
      BY <1>4, <1>7, <2>2, <2>3, <2>4, <2>5, <3>1, <3>2 DEF IsBind
  <2>6. CASE q # r
    <3>1. run'[q] = run[q]
      BY <1>7, <2>2, <2>6
    <3> QED
      BY <2>2, <2>4, <3>1 DEF IsBind, Writing, InHand
  <2> QED
    BY <2>5, <2>6
<1>11. OutOK'
  BY <1>10 DEF OutOK
<1> QED
  BY <1>6, <1>11

\* The members of a step that compiles.
LEMMA CompileOut ==
  ASSUME OInv, NEW r \in Runs, NEW d, StartUnit(r, d) \/ CopyFile(r, d) \/ GoBuild(r, d) \/ RemoveEntry(r, d)
  PROVE  StepOK' /\ OutOK'
<1>1. run[r].pc = "steps" /\ Op(run[r]) # "pack" /\ UNCHANGED out
  BY DEF StartUnit, CopyFile, GoBuild, RemoveEntry, At, Current, Op
<1>2. Control /\ StepOK /\ OutOK /\ Shape(run[r]) /\ UnitOK(run[r])
  BY DEF OInv, IInv, Control, RecordOK
<1>3. ASSUME NEW u, SetUnit(r, d, u)
      PROVE  StepOK' /\ OutOK'
  <2> DEFINE n == [run[r] EXCEPT !.unit = Put(@, d, u)]
  <2>1. run' = [run EXCEPT ![r] = n]
    BY <1>3 DEF SetUnit
  <2>2. /\ n.c = run[r].c /\ n.pc = run[r].pc /\ n.step = run[r].step /\ n.todo = run[r].todo
        /\ n.failed = run[r].failed /\ n.unit = Put(run[r].unit, d, u) /\ n.unremoved = run[r].unremoved
    BY <1>2 DEF Shape
  <2> HIDE DEF n
  <2>3. DOMAIN run[r].unit \subseteq DOMAIN n.unit
    BY <2>2 DEF Put
  <2> QED
    BY <1>1, <1>2, <2>1, <2>2, <2>3, SameQuiet
<1>4. CASE StartUnit(r, d)
  <2>1. CASE run' = [run EXCEPT ![r] = Member(run[r], d, FALSE)]
    BY <1>1, <1>2, <2>1, MemberQuiet
  <2> QED
    BY <1>3, <1>4, <2>1 DEF StartUnit
<1>5. CASE CopyFile(r, d)
  <2>1. ASSUME run' = [run EXCEPT ![r] = Spoil(@, d)] \/ run' = [run EXCEPT ![r] = Block(@, d)]
        PROVE  StepOK' /\ OutOK'
    <3> DEFINE s == [run[r] EXCEPT !.spoilt = @ \cup {d}]
               x == [run[r] EXCEPT !.blocked = @ \cup {d}]
               b == [x EXCEPT !.spoilt = @ \cup {d}]
    <3>1. /\ Shape(s) /\ s.c = run[r].c /\ s.pc = run[r].pc /\ s.step = run[r].step /\ s.todo = run[r].todo
          /\ s.unit = run[r].unit /\ s.failed = run[r].failed /\ s.spoilt = run[r].spoilt \cup {d}
          /\ s.unremoved = run[r].unremoved
      BY <1>2 DEF Shape
    <3>2. /\ Shape(x) /\ x.c = run[r].c /\ x.pc = run[r].pc /\ x.step = run[r].step /\ x.todo = run[r].todo
          /\ x.unit = run[r].unit /\ x.failed = run[r].failed /\ x.spoilt = run[r].spoilt /\ x.unremoved = run[r].unremoved
      BY <1>2 DEF Shape
    <3>3. /\ Shape(b) /\ b.c = x.c /\ b.pc = x.pc /\ b.step = x.step /\ b.todo = x.todo
          /\ b.unit = x.unit /\ b.failed = x.failed /\ b.spoilt = x.spoilt \cup {d} /\ b.unremoved = x.unremoved
      BY <3>2 DEF Shape
    <3>4. run' = [run EXCEPT ![r] = Member(s, d, FALSE)] \/ run' = [run EXCEPT ![r] = Member(b, d, FALSE)]
      BY <2>1 DEF Spoil, Block
    <3> HIDE DEF s, x, b
    <3>5. CASE run' = [run EXCEPT ![r] = Member(s, d, FALSE)]
      BY <1>1, <1>2, <3>1, <3>5, MemberQuiet
    <3>6. CASE run' = [run EXCEPT ![r] = Member(b, d, FALSE)]
      <4>1. /\ b.c = run[r].c /\ b.pc = run[r].pc /\ b.step = run[r].step /\ b.todo = run[r].todo
            /\ b.unit = run[r].unit /\ b.failed = run[r].failed /\ b.spoilt = run[r].spoilt \cup {d}
            /\ b.unremoved = run[r].unremoved
        BY <3>2, <3>3
      <4> QED
        BY <1>1, <1>2, <3>3, <3>6, <4>1, MemberQuiet
    <3> QED
      BY <3>4, <3>5, <3>6
  <2> QED
    BY <1>3, <1>5, <2>1 DEF CopyFile
<1>6. CASE GoBuild(r, d)
  <2>1. PICK ok \in BOOLEAN :
          LET rec == [run[r] EXCEPT !.libs = IF ok /\ ~run[r].c.n THEN @ \cup {d} ELSE @]
          IN run' = [run EXCEPT ![r] = IF run[r].c.mods /\ Cleanup(ok)
                                       THEN [rec EXCEPT !.unit[d] = Unit("remove", <<>>, ok)]
                                       ELSE Member(rec, d, ok)]
    BY <1>6 DEF GoBuild
  <2> DEFINE y == [run[r] EXCEPT !.libs = IF ok /\ ~run[r].c.n THEN @ \cup {d} ELSE @]
             n == [y EXCEPT !.unit[d] = Unit("remove", <<>>, ok)]
  <2>2. /\ Shape(y) /\ y.c = run[r].c /\ y.pc = run[r].pc /\ y.step = run[r].step /\ y.todo = run[r].todo
        /\ y.unit = run[r].unit /\ y.failed = run[r].failed /\ y.spoilt = run[r].spoilt /\ y.unremoved = run[r].unremoved
    BY <1>2 DEF Shape
  <2>3. run' = [run EXCEPT ![r] = Member(y, d, ok)] \/ run' = [run EXCEPT ![r] = n]
    BY <2>1
  <2> HIDE DEF y
  <2>4. /\ n.c = y.c /\ n.pc = y.pc /\ n.step = y.step /\ n.todo = y.todo /\ n.failed = y.failed
        /\ DOMAIN n.unit = DOMAIN y.unit /\ n.unremoved = y.unremoved
    BY <2>2 DEF Shape
  <2> HIDE DEF n
  <2>5. CASE run' = [run EXCEPT ![r] = Member(y, d, ok)]
    BY <1>1, <1>2, <2>2, <2>5, MemberQuiet
  <2>6. CASE run' = [run EXCEPT ![r] = n]
    BY <1>1, <1>2, <2>2, <2>4, <2>6, SameQuiet
  <2> QED
    BY <2>3, <2>5, <2>6
<1>7. CASE RemoveEntry(r, d)
  <2>1. run[r].unit[d].ok \in BOOLEAN
    BY <1>2, <1>7 DEF RemoveEntry, UnitOK
  <2>2. CASE run' = [run EXCEPT ![r] = Member(run[r], d, run[r].unit[d].ok)]
    BY <1>1, <1>2, <2>1, <2>2, MemberQuiet
  <2>3. CASE UNCHANGED run
    BY <1>1, <1>2, <2>3 DEF StepOK, OutOK, IsBind, Current, Compiled, Packed, Writing, InHand
  <2> DEFINE y == [run[r] EXCEPT !.unremoved = @ \cup {d}]
  <2>4. CASE run' = [run EXCEPT ![r] = Member(y, d, run[r].unit[d].ok)]
    <3>1. /\ Shape(y) /\ y.c = run[r].c /\ y.pc = run[r].pc /\ y.step = run[r].step /\ y.todo = run[r].todo
          /\ y.unit = run[r].unit /\ y.failed = run[r].failed /\ y.spoilt = run[r].spoilt
          /\ y.unremoved = run[r].unremoved \cup {d}
      BY <1>2 DEF Shape
    <3> HIDE DEF y
    <3>2. Op(run[r]) = "so" /\ d \in run[r].todo
      <4>1. RecordOK(run[r])
        BY <1>2 DEF Control
      <4> QED
        BY <1>1, <1>7, <4>1 DEF RemoveEntry, At, Current, Op, RecordOK
    <3> QED
      BY <1>1, <1>2, <2>1, <2>4, <3>1, <3>2, MemberQuiet
  <2> QED
    BY <1>7, <2>2, <2>3, <2>4 DEF RemoveEntry, Strand
<1> QED
  BY <1>4, <1>5, <1>6, <1>7

\* An output is opened: it is this invocation's, and not whole.
LEMMA CreateOut ==
  ASSUME OInv, NEW r \in Runs, NEW o, Create(r, o)
  PROVE  StepOK' /\ OutOK'
<1>1. /\ run[r].pc = "steps" /\ Op(run[r]) = "pack" /\ Current(r).op = "pack"
      /\ o \in run[r].todo /\ o \notin DOMAIN run[r].unit
  BY DEF Create, At, Current, Op
<1>2. Control /\ StepOK /\ OutOK /\ Shape(run[r]) /\ UnitOK(run[r])
  BY DEF OInv, IInv, Control, RecordOK
<1>3. IsBind(r)
  BY <1>1, <1>2, PlanFacts
<1>4. ASSUME NEW ok \in BOOLEAN, run' = [run EXCEPT ![r] = Member(run[r], o, ok)], UNCHANGED out
      PROVE  StepOK' /\ OutOK'
  BY <1>1, <1>2, <1>4, MemberQuiet
<1>5. CASE /\ out' = Put(out, o, [by |-> r, whole |-> FALSE, libs |-> {}])
           /\ SetUnit(r, o, Unit("write", <<>>, TRUE))
  <2> DEFINE n == [run[r] EXCEPT !.unit = Put(@, o, Unit("write", <<>>, TRUE))]
  <2>1. run' = [run EXCEPT ![r] = n]
    BY <1>5 DEF SetUnit
  <2>2. /\ n.c = run[r].c /\ n.pc = "steps" /\ n.step = run[r].step /\ n.todo = run[r].todo
        /\ n.failed = run[r].failed /\ n.unremoved = run[r].unremoved /\ DOMAIN n.unit = DOMAIN run[r].unit \cup {o}
    BY <1>1, <1>2 DEF Shape, Put
  <2> HIDE DEF n
  <2>3. StepOK'
    <3>1. StepRecordOK(n)
      BY <1>1, <1>2, <2>2, StepRecords DEF StepRecordOK, Compiled
    <3> QED
      BY <1>2, <2>1, <3>1, StepUpdate
  <2>4. run'[r] = n /\ \A q \in Runs \ {r} : run'[q] = run[q]
    BY <1>2, <2>1, Update
  <2>5. /\ DOMAIN out' = DOMAIN out \cup {o} /\ out'[o].by = r
        /\ \A p \in DOMAIN out \ {o} : out'[p] = out[p]
    BY <1>5 DEF Put
  <2>6. ASSUME NEW p \in DOMAIN out', NEW q, q = out'[p].by
        PROVE  /\ q \in Runs /\ IsBind(q)' /\ run'[q].pc \in {"steps", "exit"} \cup Ended
               /\ Going(run'[q]) => Packed(q, p)' \/ Writing(q, p)'
    <3>1. CASE p = o
      <4>1. q = r /\ IsBind(r)' /\ Writing(r, o)'
        BY <1>1, <1>3, <2>2, <2>4, <2>5, <2>6, <3>1 DEF IsBind, Writing, InHand, Op
      <4> QED
        BY <2>2, <2>4, <3>1, <4>1
    <3>2. CASE p # o
      <4>1. /\ q \in Runs /\ IsBind(q) /\ run[q].pc \in {"steps", "exit"} \cup Ended
            /\ Going(run[q]) => Packed(q, p) \/ Writing(q, p)
        BY <1>2, <2>5, <2>6, <3>2 DEF OutOK
      <4>2. run'[q].c = run[q].c /\ run'[q].pc = run[q].pc /\ run'[q].step = run[q].step /\ run'[q].failed = run[q].failed
        BY <1>1, <2>2, <2>4, <4>1
      <4>3. InHand(q, p) => InHand(q, p)'
        BY <2>2, <2>4, <4>1 DEF InHand
      <4>4. Packed(q, p) => Packed(q, p)'
        BY <2>5, <2>6, <3>2, <4>2, SMTT(20) DEF Packed
      <4> QED
        BY <4>1, <4>2, <4>3, <4>4 DEF IsBind, Going, Writing, Op
    <3> QED
      BY <3>1, <3>2
  <2>7. OutOK'
    BY <2>6 DEF OutOK
  <2> QED
    BY <2>3, <2>7
<1> QED
  BY <1>4, <1>5 DEF Create

\* An output is written: it is whole, and has the libraries of this step.
LEMMA WriteOut ==
  ASSUME OInv, NEW r \in Runs, NEW o, Write(r, o), o \in run[r].todo
  PROVE  StepOK' /\ OutOK'
<1>1. run[r].pc = "steps" /\ Op(run[r]) = "pack" /\ Current(r).op = "pack"
  BY DEF Write, At, Current, Op
<1>2. Control /\ StepOK /\ OutOK /\ RecordOK(run[r]) /\ UnitOK(run[r]) /\ Shape(run[r])
  BY DEF OInv, IInv, Control, RecordOK
<1>3. /\ IsBind(r) /\ run[r].step \in DOMAIN Plan(run[r].c) /\ Current(r) = Plan(run[r].c)[run[r].step]
      /\ o \in Current(r).of
  BY <1>1, <1>2, PlanFacts DEF StepOK
<1>4. CASE run' = [run EXCEPT ![r] = Member(run[r], o, FALSE)] /\ UNCHANGED out
  BY <1>1, <1>2, <1>4, MemberQuiet
<1>5. CASE /\ out' = [out EXCEPT ![o] = [by |-> r, whole |-> TRUE, libs |-> Current(r).libs]]
           /\ run' = [run EXCEPT ![r] = Member(run[r], o, TRUE)]
  <2> DEFINE n == Member(run[r], o, TRUE)
  <2>1. RecordOK(n) /\ Done(run[r], n, o, TRUE) /\ n.pc \in {"steps", "exit"}
    BY <1>1, <1>2, MemberOK
  <2> HIDE DEF n
  <2>2. run' = [run EXCEPT ![r] = n]
    BY <1>5 DEF n
  <2>3. StepOK'
    BY <1>1, <1>2, <2>1, <2>2, StepDone
  <2>4. run'[r] = n /\ \A q \in Runs \ {r} : run'[q] = run[q]
    BY <1>2, <2>2, Update
  <2>5. /\ DOMAIN out' = DOMAIN out /\ \A p \in DOMAIN out \ {o} : out'[p] = out[p]
        /\ o \in DOMAIN out => out'[o] = [by |-> r, whole |-> TRUE, libs |-> Current(r).libs]
    BY <1>5
  <2>6. ASSUME NEW p \in DOMAIN out', NEW q, q = out'[p].by
        PROVE  /\ q \in Runs /\ IsBind(q)' /\ run'[q].pc \in {"steps", "exit"} \cup Ended
               /\ Going(run'[q]) => Packed(q, p)' \/ Writing(q, p)'
    <3>1. CASE p = o
      <4>1. q = r /\ n.c = run[r].c
        BY <2>1, <2>5, <2>6, <3>1 DEF Done
      <4>2. Packed(r, o)'
        BY <1>1, <1>3, <2>4, <2>5, <3>1, <4>1 DEF Packed
      <4> QED
        BY <1>3, <2>1, <2>4, <3>1, <4>1, <4>2 DEF IsBind
    <3>2. CASE p # o
      <4>1. /\ q \in Runs /\ IsBind(q) /\ run[q].pc \in {"steps", "exit"} \cup Ended
            /\ Going(run[q]) => Packed(q, p) \/ Writing(q, p)
        BY <1>2, <2>5, <2>6, <3>2 DEF OutOK
      <4>2. run'[q].c = run[q].c
        BY <2>1, <2>4, <4>1 DEF Done
      <4>3. Packed(q, p) => Packed(q, p)'
        BY <2>5, <2>6, <3>2, <4>2 DEF Packed
      <4>4. CASE q = r
        <5>1. Going(n) => Going(run[r])
          BY <1>1, <1>2, <2>1 DEF Going, Done, RecordOK
        <5>2. Writing(r, p) => Writing(r, p)'
          <6> SUFFICES ASSUME Writing(r, p)
                       PROVE  Writing(r, p)'
            OBVIOUS
          <6>1. p \in DOMAIN run[r].unit /\ p \in run[r].todo \ {o}
            BY <1>1, <1>2, <3>2 DEF Writing, InHand, RecordOK
          <6>2. n.pc = "steps" /\ n.step = run[r].step /\ n.c = run[r].c /\ p \in DOMAIN n.unit
            BY <1>1, <2>1, <3>2, <6>1 DEF Done, Drop
          <6> QED
            BY <1>1, <2>4, <6>2 DEF Writing, InHand, Op
        <5> QED
          BY <2>1, <2>4, <4>1, <4>2, <4>3, <4>4, <5>1, <5>2 DEF IsBind
      <4>5. CASE q # r
        <5>1. run'[q] = run[q]
          BY <2>4, <4>1, <4>5
        <5> QED
          BY <4>1, <4>3, <5>1 DEF IsBind, Writing, InHand
      <4> QED
        BY <4>4, <4>5
    <3> QED
      BY <3>1, <3>2
  <2>7. OutOK'
    BY <2>6 DEF OutOK
  <2> QED
    BY <2>3, <2>7
<1> QED
  BY <1>4, <1>5 DEF Write, Written

\* The process is killed: nothing more is asked of what it had packed.
LEMMA CrashOut ==
  ASSUME OInv, NEW r \in Runs, Crash(r)
  PROVE  StepOK' /\ OutOK'
<1> DEFINE n == [run[r] EXCEPT !.pc = "crashed", !.todo = {}, !.libs = {}, !.step = 0, !.failed = FALSE]
<1>1. Control /\ StepOK /\ OutOK /\ Shape(run[r])
  BY DEF OInv, IInv, Control, RecordOK
<1>2. run' = [run EXCEPT ![r] = n] /\ UNCHANGED out /\ run[r].pc \notin Ended \cup {"idle"}
  BY DEF Crash, Active
<1>3. n.c = run[r].c /\ n.pc = "crashed"
  BY <1>1 DEF Shape
<1> HIDE DEF n
<1>4. StepRecordOK(n)
  BY <1>1, <1>2, <1>3, StepRecords DEF StepRecordOK, Ended
<1>5. StepOK'
  BY <1>1, <1>2, <1>4, StepUpdate
<1>6. ~Going(n) /\ n.pc \in Ended
  BY <1>3 DEF Going, Ended
<1>7. OutOK'
  BY <1>1, <1>2, <1>3, <1>6, OutQuiet
<1> QED
  BY <1>5, <1>7

-----------------------------------------------------------------------------
(* The theorems. *)

\* What is shared keeps its form: a step writes the files its plan allows it.
HomeOK(h) == /\ DOMAIN h = {"made", "libs"} /\ h.made \in BOOLEAN
             /\ h.libs \subseteq {"include"} \cup ToSet(platformArchs.android) /\ (h.libs # {} => h.made)
OutputOK(x) == x.whole \in BOOLEAN /\ x.libs \subseteq Dirs

LEMMA FilesStep ==
  ASSUME FilesOK, WriterOK', OutOK', work' \subseteq work \cup Runs, anjb' \in BOOLEAN,
         home' = home \/ HomeOK(home'),
         DOMAIN build' \subseteq DOMAIN build \cup Dirs,
         \A o \in DOMAIN out' : (o \in DOMAIN out /\ out'[o] = out[o]) \/ OutputOK(out'[o])
  PROVE  FilesOK'
<1>1. \A d \in DOMAIN build' : \A f \in DOMAIN build'[d] : build'[d][f] \in Runs
  BY DEF WriterOK, WriterOf
<1>2. \A o \in DOMAIN out' : out'[o].by \in Runs /\ OutputOK(out'[o])
  BY DEF OutOK, FilesOK, TypeOK, OutputOK
<1>3. HomeOK(home')
  BY DEF FilesOK, TypeOK, HomeOK
<1>4. work' \subseteq Runs /\ DOMAIN build' \subseteq Dirs
  BY DEF FilesOK, TypeOK
<1> QED
  BY <1>1, <1>2, <1>3, <1>4 DEF FilesOK, TypeOK, HomeOK, OutputOK

LEMMA Archs == {"arm", "arm64", "386", "amd64"} \subseteq ToSet(platformArchs.android)
<1> DEFINE s == <<"arm", "arm64", "386", "amd64">>
<1>1. platformArchs.android = s
  BY DEF platformArchs
<1>2. 1 \in DOMAIN s /\ 2 \in DOMAIN s /\ 3 \in DOMAIN s /\ 4 \in DOMAIN s
  OBVIOUS
<1>3. s[1] = "arm" /\ s[2] = "arm64" /\ s[3] = "386" /\ s[4] = "amd64"
  OBVIOUS
<1> HIDE DEF s
<1> QED
  BY <1>1, <1>2, <1>3 DEF ToSet

LEMMA FilesKeep ==
  ASSUME OInv, [Next]_vars, WriterOK', OutOK'
  PROVE  FilesOK'
<1>1. Control /\ StepOK /\ FilesOK /\ anjb \in BOOLEAN
  BY DEF OInv, IInv, FilesOK, TypeOK
<1>2. HomeOK(home)
  BY <1>1 DEF HomeOK, FilesOK, TypeOK
<1>3. CASE UNCHANGED <<work, home, anjb, build, out>>
  BY <1>1, <1>3, FilesStep
<1>4. ASSUME NEW r \in Runs, MakeWork(r) \/ Exit(r) \/ InitWork(r)
      PROVE  FilesOK'
  <2>1. work' \subseteq work \cup Runs
    BY <1>4 DEF MakeWork, Exit, Kept, InitWork
  <2>2. UNCHANGED <<home, anjb, build, out>>
    BY <1>4 DEF MakeWork, Exit, InitWork
  <2> QED
    BY <1>1, <2>1, <2>2, FilesStep
<1>5. ASSUME NEW r \in Runs, Reset(r) \/ MakeHome(r) \/ Install(r)
      PROVE  FilesOK'
  <2>1. work' \subseteq work \cup Runs /\ UNCHANGED <<build, out>>
    BY <1>5 DEF Reset, MakeHome, Install
  <2>2. home' = home \/ HomeOK(home')
    <3>1. \/ home' = home \/ home' = [made |-> FALSE, libs |-> {}] \/ home' = [home EXCEPT !.made = TRUE]
          \/ home.made /\ \E libs \in SUBSET home.libs : home' = [home EXCEPT !.libs = libs]
      BY <1>5 DEF Reset, NoHome, MakeHome, Install
    <3>2. DOMAIN [home EXCEPT !.made = TRUE] = {"made", "libs"}
      BY <1>2 DEF HomeOK
    <3>3. [home EXCEPT !.made = TRUE].made = TRUE /\ [home EXCEPT !.made = TRUE].libs = home.libs
      BY <1>2 DEF HomeOK
    <3>4. HomeOK([home EXCEPT !.made = TRUE])
      BY <1>2, <3>2, <3>3 DEF HomeOK
    <3>5. HomeOK([made |-> FALSE, libs |-> {}])
      BY DEF HomeOK
    <3>6. ASSUME NEW libs \in SUBSET home.libs, home.made
          PROVE  HomeOK([home EXCEPT !.libs = libs])
      <4> DEFINE h == [home EXCEPT !.libs = libs]
      <4>1. DOMAIN h = {"made", "libs"} /\ h.made = home.made /\ h.libs = libs
        BY <1>2 DEF HomeOK
      <4> HIDE DEF h
      <4>2. HomeOK(h)
        BY <1>2, <3>6, <4>1 DEF HomeOK
      <4> QED
        BY <4>2 DEF h
    <3> QED
      BY <3>1, <3>4, <3>5, <3>6
  <2>3. anjb' \in BOOLEAN
    BY <1>1, <1>5 DEF Reset, MakeHome, Install
  <2> QED
    BY <1>1, <2>1, <2>2, <2>3, FilesStep
<1>6. ASSUME NEW r \in Runs, NEW a \in run[r].todo, OpenAL(r, a)
      PROVE  FilesOK'
  <2>1. run[r].pc = "steps" /\ Current(r).op = "openal"
    BY <1>6 DEF OpenAL, At
  <2>2. a \in {"include"} \cup ToSet(platformArchs.android)
    BY <1>1, <1>6, <2>1, PlanFacts, Archs DEF StepOK
  <2>3. home' = home \/ HomeOK(home')
    <3>1. home' = home \/ home' = [made |-> TRUE, libs |-> home.libs \cup {a}]
      BY <1>6 DEF OpenAL, Library
    <3>2. HomeOK([made |-> TRUE, libs |-> home.libs \cup {a}])
      <4> DEFINE h == [made |-> TRUE, libs |-> home.libs \cup {a}]
      <4>1. DOMAIN h = {"made", "libs"} /\ h.made = TRUE /\ h.libs = home.libs \cup {a}
        OBVIOUS
      <4> HIDE DEF h
      <4>2. HomeOK(h)
        BY <1>2, <2>2, <4>1 DEF HomeOK
      <4> QED
        BY <4>2 DEF h
    <3> QED
      BY <3>1, <3>2
  <2>4. UNCHANGED <<work, anjb, build, out>>
    BY <1>6 DEF OpenAL, Library
  <2> QED
    BY <1>1, <2>3, <2>4, FilesStep
<1>7. ASSUME NEW r \in Runs, NEW d \in run[r].todo, StartUnit(r, d)
      PROVE  FilesOK'
  <2>1. run[r].pc = "steps" /\ Current(r).op = "so" /\ UNCHANGED <<work, home, anjb, out>>
    BY <1>7 DEF StartUnit, At
  <2>2. d \in Dirs
    BY <1>1, <1>7, <2>1, PlanFacts DEF StepOK
  <2>3. DOMAIN build' \subseteq DOMAIN build \cup {d}
    BY <1>7 DEF StartUnit, Put
  <2> QED
    BY <1>1, <2>1, <2>2, <2>3, FilesStep
<1>8. ASSUME NEW r \in Runs, NEW d, CopyFile(r, d) \/ RemoveEntry(r, d)
      PROVE  FilesOK'
  <2>1. UNCHANGED <<work, home, anjb, out>>
    BY <1>8 DEF CopyFile, RemoveEntry
  <2>2. DOMAIN build' \subseteq DOMAIN build
    <3>1. CASE CopyFile(r, d)
      BY <3>1 DEF CopyFile
    <3>2. CASE RemoveEntry(r, d)
      <4>1. (\E f : build' = [build EXCEPT ![d] = Drop(@, f)]) \/ build' = Drop(build, d) \/ build' = build
        BY <3>2 DEF RemoveEntry
      <4> QED
        BY <4>1 DEF Drop
    <3> QED
      BY <1>8, <3>1, <3>2
  <2> QED
    BY <1>1, <2>1, <2>2, FilesStep
<1>9. ASSUME NEW r \in Runs, NEW x, Create(r, x) \/ Write(r, x) \/ DropOutput(r, x)
      PROVE  FilesOK'
  <2>1. UNCHANGED <<work, home, anjb, build>>
    BY <1>9 DEF Create, Write, DropOutput
  <2>2. \/ out' = out \/ out' = Drop(out, x)
        \/ out' = Put(out, x, [by |-> r, whole |-> FALSE, libs |-> {}])
        \/ /\ run[r].pc = "steps" /\ Current(r).op = "pack"
           /\ out' = [out EXCEPT ![x] = [by |-> r, whole |-> TRUE, libs |-> Current(r).libs]]
    BY <1>9 DEF Create, Write, DropOutput, Remnant, At
  <2>3. \A o \in DOMAIN out' : (o \in DOMAIN out /\ out'[o] = out[o]) \/ OutputOK(out'[o])
    <3>1. CASE out' = out \/ out' = Drop(out, x)
      BY <3>1 DEF Drop
    <3>2. CASE out' = Put(out, x, [by |-> r, whole |-> FALSE, libs |-> {}])
      BY <3>2 DEF Put, OutputOK
    <3>3. CASE /\ run[r].pc = "steps" /\ Current(r).op = "pack"
               /\ out' = [out EXCEPT ![x] = [by |-> r, whole |-> TRUE, libs |-> Current(r).libs]]
      <4>1. Current(r).libs \subseteq Dirs
        BY <1>1, <3>3, PlanFacts
      <4> QED
        BY <3>3, <4>1 DEF OutputOK
    <3> QED
      BY <2>2, <3>1, <3>2, <3>3
  <2> QED
    BY <1>1, <2>1, <2>3, FilesStep
<1>10. CASE UNCHANGED vars \/ AllEnded
  BY <1>3, <1>10 DEF AllEnded, vars
<1>11. ASSUME NEW r \in Runs,
              \/ \E c \in Commands : Invoke(r, c)
              \/ Check(r) \/ Crash(r) \/ \E x \in run[r].todo : Gen(r, x) \/ Reject(r, x) \/ GoBuild(r, x)
       PROVE  FilesOK'
  BY <1>3, <1>11 DEF Invoke, Check, Crash, Gen, Reject, GoBuild
<1> QED
  BY <1>4, <1>5, <1>6, <1>7, <1>8, <1>9, <1>10, <1>11 DEF Next

LEMMA InitOInv == Init => OInv
<1> SUFFICES ASSUME Init
             PROVE  OInv
  OBVIOUS
<1>1. IInv
  BY InitIInv
<1>2. /\ \A r \in Runs : run[r].pc = "idle"
      /\ DOMAIN build = {} /\ DOMAIN out = {} /\ work = {}
      /\ home = [made |-> FALSE, libs |-> {}] /\ anjb \in BOOLEAN
  BY DEF Init, Idle
<1>3. StepOK /\ OutOK
  BY <1>2 DEF StepOK, OutOK
<1>4. FilesOK
  BY <1>2 DEF FilesOK, TypeOK
<1> QED
  BY <1>1, <1>3, <1>4 DEF OInv

LEMMA OutputsKeep ==
  ASSUME OInv, [Next]_vars
  PROVE  StepOK' /\ OutOK'
<1>1. CASE UNCHANGED vars
  BY <1>1 DEF OInv, vars, StepOK, OutOK, IsBind, Current, Compiled, Packed, Writing, InHand
<1>2. CASE AllEnded
  BY <1>1, <1>2 DEF AllEnded
<1>3. ASSUME NEW r \in Runs, NEW c \in Commands, Invoke(r, c)
      PROVE  StepOK' /\ OutOK'
  BY <1>3, InvokeOut
<1>4. ASSUME NEW r \in Runs,
             MakeWork(r) \/ Check(r) \/ Exit(r) \/ Reset(r) \/ MakeHome(r) \/ InitWork(r) \/ Install(r) \/ Crash(r)
      PROVE  StepOK' /\ OutOK'
  BY <1>4, PointsOut, BeginOut, PlainMembersOut, CrashOut
<1>5. ASSUME NEW r \in Runs, NEW x \in run[r].todo,
             \/ Gen(r, x) \/ Reject(r, x) \/ StartUnit(r, x) \/ CopyFile(r, x) \/ GoBuild(r, x)
             \/ RemoveEntry(r, x) \/ Create(r, x) \/ Write(r, x) \/ DropOutput(r, x) \/ OpenAL(r, x)
      PROVE  StepOK' /\ OutOK'
  BY <1>5, PlainMembersOut, CompileOut, CreateOut, WriteOut, DropOutputOut
<1> QED
  BY <1>1, <1>2, <1>3, <1>4, <1>5 DEF Next

\* The invariant of the outputs and of the types.
THEOREM OutputInvariant == Spec => []OInv
<1>1. OInv /\ [Next]_vars => OInv'
  <2> SUFFICES ASSUME OInv, [Next]_vars
               PROVE  OInv'
    OBVIOUS
  <2>1. IInv'
    BY NextKeeps DEF OInv
  <2>2. StepOK' /\ OutOK'
    BY OutputsKeep
  <2>3. FilesOK'
    BY <2>1, <2>2, FilesKeep DEF IInv, Books
  <2> QED
    BY <2>1, <2>2, <2>3 DEF OInv
<1> QED
  BY <1>1, InitOInv, PTL DEF Spec

\* The files the commands share are those they name; sources are copied for known targets only.
THEOREM TypeCorrect == Spec => []TypeOK
<1>1. OInv => TypeOK
  BY DEF OInv, FilesOK
<1> QED
  BY <1>1, OutputInvariant, PTL

\* Every output that a successful bind wrote last is whole and has the libraries of exactly the
\* targets asked for (bind_androidapp.go:122, bind_desktop.go:158, bind_iosapp.go:150).
THEOREM WritesWholeOutput == Spec => []WholeOutput
<1>1. OInv => WholeOutput
  <2> SUFFICES ASSUME OInv, NEW r \in Runs, run[r].pc = "ok", run[r].c.cmd = "bind",
                      NEW i \in DOMAIN Plan(run[r].c), Plan(run[r].c)[i].op = "pack",
                      NEW o \in Plan(run[r].c)[i].of, o \in DOMAIN out, out[o].by = r
               PROVE  out[o].whole /\ out[o].libs = Plan(run[r].c)[i].libs
    BY DEF WholeOutput
  <2>1. run[r].c \in Commands /\ parseBuildTarget(run[r].c.spec) # <<>>
    BY DEF OInv, IInv, Control, RecordOK, StepOK, IsBind
  <2>2. Packed(r, o)
    BY DEF OInv, OutOK, Going, Writing
  <2>3. PICK j \in DOMAIN Plan(run[r].c) :
           LET s == Plan(run[r].c)[j]
           IN s.op = "pack" /\ o \in s.of /\ out[o].whole /\ out[o].libs = s.libs
    BY <2>2 DEF Packed
  <2>4. i = j
    BY <2>1, <2>3, PlansSound
  <2> QED
    BY <2>3, <2>4
<1> QED
  BY <1>1, OutputInvariant, PTL

\* A copy of the sources stops a bind only after an earlier one over the same directory was
\* killed, or could not finish or remove its own copy (doCopyAll, init.go:253; the deferred
\* removal, bind_desktop.go:227): no other failure leaves a file in the way of a later bind.
THEOREM BlockedByInterruption == Spec => []OnlyAfterInterruption
<1>1. OInv => OnlyAfterInterruption
  BY DEF OInv, IInv, Books
<1> QED
  BY <1>1, OutputInvariant, PTL

\* An invocation that ends by itself leaves no work directory, unless told to or its removal
\* failed (bind.go:87, init.go:74), and no sources but where their copy or their removal stopped.
THEOREM LeavesNothing == Spec => []NothingLeft
<1>1. OInv => NothingLeft
  <2> SUFFICES ASSUME IInv, NEW r \in Runs, run[r].pc \in {"ok", "failed"}
               PROVE  /\ r \in work => run[r].c.work \/ run[r].kept
                      /\ \A d \in DOMAIN build : (\E f \in DOMAIN build[d] : build[d][f] = r) =>
                            d \in run[r].spoilt \cup run[r].unremoved
    BY DEF NothingLeft, OInv
  <2>1. r \in work => run[r].c.work \/ run[r].kept
    BY DEF IInv, WorkOK
  <2>2. DOMAIN run[r].unit = {}
    BY DEF IInv, Control, RecordOK
  <2> QED
    BY <2>1, <2>2 DEF IInv, Books, WriterOK, WriterOf, InHand
<1> QED
  BY <1>1, OutputInvariant, PTL

\* What go build finds in a directory is this invocation's own copy, whole, and beside it only
\* what an interrupted copy or removal left: a copy that was whole when its process died, or when
\* its removal failed before it began, is not compiled, unless the removal of it by a later bind
\* stopped (bind_desktop.go:211-227, bind_androidapp.go:391-418).
THEOREM CompilesOwnSources == Spec => []OwnSources
<1>1. OInv => OwnSources
  <2> SUFFICES ASSUME IInv, NEW r \in Runs, NEW d \in DOMAIN run[r].unit, Copied(r, d)
               PROVE  /\ \A f \in ToSet(run[r].c.files) : f \in DOMAIN build[d] /\ build[d][f] = r
                      /\ \A f \in DOMAIN build[d] : build[d][f] = r \/ Torn(build[d][f], d)
    BY DEF OwnSources, OInv
  <2>1. /\ At(r, "so") /\ run[r].unit[d].at = "copy" /\ run[r].unit[d].left = <<>> /\ Copies(r) /\ InHand(r, d)
    BY DEF Copied, Copies, InHand
  <2>2. /\ Control /\ Books /\ IsBind(r) /\ run[r].pc = "steps" /\ run[r].c \in Commands
        /\ \A q \in Runs : IsBind(q) => q <= r
        /\ \A q \in Runs \ {r} : DOMAIN run[q].unit # {} => run[q].pc = "crashed"
    BY <2>1, Compiling
  <2>3. d \in DOMAIN build /\ \A f \in ToSet(run[r].c.files) : Wrote(r, d, f)
    <3>1. CopyOK(r, d)
      BY <2>2 DEF Books
    <3>2. ToSet(run[r].unit[d].left) = {}
      BY <2>1 DEF ToSet
    <3> QED
      BY <2>1, <2>2, <3>1, <3>2 DEF CopyOK
  <2>4. ASSUME NEW f \in DOMAIN build[d], build[d][f] # r
        PROVE  Torn(build[d][f], d)
    <3> DEFINE q == build[d][f]
    <3>1. WriterOf(q, d, f) /\ Wrote(q, d, f) /\ q # r
      BY <2>2, <2>3, <2>4 DEF Books, WriterOK, Wrote
    <3> HIDE DEF q
    <3>2. q \in Runs /\ q <= r /\ IsBind(q) /\ Copies(q) /\ f \in ToSet(run[q].c.files)
      BY <2>2, <3>1 DEF WriterOf
    <3>3. CASE d \in run[q].spoilt
      BY <3>3 DEF Torn, q
    <3>4. CASE d \in run[q].unremoved
      <4>1. q \in q .. MaxRuns
        BY <3>2
      <4> QED
        BY <3>4, <4>1 DEF Torn, q
    <3>5. CASE d \notin run[q].spoilt \cup run[q].unremoved
      <4>1. InHand(q, d) /\ run[q].unit[d].at # "write" /\ Died(q, d)
        BY <2>2, <3>1, <3>2, <3>5 DEF WriterOf, InHand, Died
      <4>2. CASE run[q].unit[d].left # <<>>
        BY <4>1, <4>2 DEF Torn, q
      <4>3. CASE run[q].unit[d].at = "remove"
        <5>1. q \in q .. MaxRuns
          BY <3>2
        <5> QED
          BY <4>1, <4>3, <5>1 DEF Torn, q
      <4>4. CASE run[q].unit[d].left = <<>> /\ run[q].unit[d].at = "copy"
        <5>1. CopyOK(q, d) /\ ToSet(run[q].unit[d].left) = {}
          BY <2>2, <3>2, <4>1, <4>4 DEF Books, InHand, ToSet
        <5>2. ~\A g \in ToSet(run[q].c.files) : Wrote(q, d, g)
          <6>1. run[q].c \in Commands
            BY <2>2, <3>2, <4>1 DEF Control, RecordOK, Died
          <6>2. PICK g \in ToSet(run[q].c.files) : g \in ToSet(run[r].c.files)
            BY <2>2, <6>1, CommandsAssumption
          <6> QED
            BY <2>3, <3>1, <6>2 DEF Wrote
        <5>3. PICK s \in q .. MaxRuns : Undone(s, d)
          BY <3>1, <3>2, <4>1, <4>4, <5>1, <5>2 DEF CopyOK
        <5>4. CASE d \in run[s].unremoved
          BY <5>3, <5>4 DEF Torn, q
        <5>5. CASE Removing(s, d)
          <6>1. s \in Runs /\ s # r
            BY <2>1, <3>2, <5>5 DEF Removing
          <6>2. Died(s, d)
            BY <2>2, <5>5, <6>1 DEF Removing, InHand, Died
          <6> QED
            BY <5>3, <5>5, <6>2 DEF Torn, Removing, q
        <5> QED
          BY <5>3, <5>4, <5>5 DEF Undone
      <4> QED
        <5>1. UnitOK(run[q])
          BY <2>2, <3>2 DEF Control
        <5> QED
          BY <4>1, <4>2, <4>3, <4>4, <5>1 DEF UnitOK, InHand
    <3> QED
      BY <3>3, <3>5, <3>4
  <2> QED
    BY <2>3, <2>4 DEF Wrote
<1> QED
  BY <1>1, OutputInvariant, PTL

=============================================================================
