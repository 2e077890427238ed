-------------------------- MODULE ClassStubs_proofs --------------------------
(***************************************************************************)
(* Proofs about the Java importer and the stubs of the classes it returns, *)
(* for any class path and any Go source.  The importer is loops over lists *)
(* that build lists: each recursive function of the model is unfolded once *)
(* into its values, step by step, and what holds of these is proved by     *)
(* induction over the steps.                                               *)
(***************************************************************************)
EXTENDS ClassStubs, Recursion, SequenceTheorems

-----------------------------------------------------------------------------
(* Filters, and the way up from a class. *)

\* What Keep does with an element.
KeepStep(s, S, i, k) == IF s[i] \in S THEN Append(k, s[i]) ELSE k
\* Keep, step by step.
KeepRun(f, A, s, S) ==
    /\ f \in [0 .. Len(s) -> Seq(A)] /\ f[0] = <<>> /\ Keep(s, S) = f[Len(s)]
    /\ \A i \in 1 .. Len(s) : f[i] = KeepStep(s, S, i, f[i-1])
LEMMA KeepUnfolds ==
  ASSUME NEW A, NEW s \in Seq(A), NEW S
  PROVE  \E f : KeepRun(f, A, s, S)
<1> DEFINE n == Len(s)
           D == Seq(A)
           G == [p \in (1 .. n) \X D |-> KeepStep(s, S, p[1], p[2])]
           z == <<>>
           Is(f) == f = [i \in 0 .. Len(s) |-> IF i = 0 THEN <<>> ELSE IF s[i] \in S THEN Append(f[i-1], s[i]) ELSE f[i-1]]
<1>1. n \in Nat /\ z \in D
  OBVIOUS
<1>2. \A i \in 1 .. n, v \in D : KeepStep(s, S, i, v) \in D
  BY DEF KeepStep
<1>3. G \in [(1 .. n) \X D -> D] /\ \A i \in 1 .. n, v \in D : G[<<i, v>>] = KeepStep(s, S, i, v)
  BY <1>2
<1> HIDE DEF G, D, z, n
<1>4. PICK f : Steps(f, n, D, z, G)
  BY <1>1, <1>3, StepsExist
<1>5. f = [i \in 0 .. n |-> f[i]] /\ f[0] = z /\ \A i \in 1 .. n : f[i] = KeepStep(s, S, i, f[i-1])
  <2>1. \A i \in 1 .. n : i - 1 \in 0 .. n
    BY <1>1
  <2> QED
    BY <1>3, <1>4, <2>1 DEF Steps
<1>6. Is(f)
  <2>1. ASSUME NEW i \in 0 .. n
        PROVE  f[i] = IF i = 0 THEN <<>> ELSE IF s[i] \in S THEN Append(f[i-1], s[i]) ELSE f[i-1]
    <3>1. i = 0 \/ i \in 1 .. n
      BY <1>1
    <3> QED
      BY <3>1, <1>5 DEF KeepStep, z
  <2> QED
    BY <1>5, <2>1 DEF n
<1>7. PICK g : Is(g) /\ Keep(s, S) = g[Len(s)]
  <2>1. Keep(s, S) = (CHOOSE g : Is(g))[Len(s)]
    BY Zenon DEF Keep
  <2>2. Is(CHOOSE g : Is(g))
    BY <1>6, Zenon
  <2> QED
    BY <2>1, <2>2, Zenon
<1>8. g = [i \in 0 .. n |-> g[i]]
  BY <1>7 DEF n
<1>9. g[0] = z /\ \A i \in 1 .. n : g[i] = KeepStep(s, S, i, g[i-1])
  <2>1. ASSUME NEW i \in 0 .. n
        PROVE  g[i] = IF i = 0 THEN z ELSE KeepStep(s, S, i, g[i-1])
    BY <1>7 DEF KeepStep, n, z
  <2>2. 0 \in 0 .. n /\ \A i \in 1 .. n : i \in 0 .. n /\ i # 0
    BY <1>1
  <2> QED
    BY <2>1, <2>2
<1>10. g[0] \in D /\ \A i \in 1 .. n : g[i-1] \in D => g[i] \in D
  BY <1>1, <1>2, <1>9
<1>11. g \in [0 .. n -> D]
  BY <1>1, <1>8, <1>10, StepsIn
<1> QED
  BY <1>7, <1>9, <1>11 DEF D, n, z, KeepRun

\* Keep keeps just the elements that are in S.
LEMMA KeepFacts ==
  ASSUME NEW A, NEW s \in Seq(A), NEW S
  PROVE  /\ Keep(s, S) \in Seq(A)
         /\ \A y : y \in ToSet(Keep(s, S)) <=> y \in ToSet(s) /\ y \in S
<1> DEFINE n == Len(s)
           Of(i) == {y \in S : \E k \in 1 .. i : s[k] = y}
<1>1. PICK f : KeepRun(f, A, s, S)
  BY KeepUnfolds
<1>2. n \in Nat /\ f \in [0 .. n -> Seq(A)] /\ f[0] = <<>> /\ Keep(s, S) = f[n]
  BY <1>1 DEF KeepRun
<1>3. \A i \in 1 .. n : f[i] = KeepStep(s, S, i, f[i-1])
  BY <1>1 DEF KeepRun
<1>4. \A i \in 0 .. n : ToSet(f[i]) = Of(i)
  <2> DEFINE B == {i \in 0 .. n : ToSet(f[i]) = Of(i)}
  <2>1. 0 \in B
    <3>1. ToSet(<<>>) = {}
      BY DEF ToSet
    <3>2. Of(0) = {}
      OBVIOUS
    <3>3. 0 \in 0 .. n /\ ToSet(f[0]) = ToSet(<<>>)
      BY <1>2
    <3> QED
      BY <3>1, <3>2, <3>3
  <2>2. ASSUME NEW i \in 1 .. n, i - 1 \in B
        PROVE  i \in B
    <3>1. i - 1 \in 0 .. n /\ i \in 0 .. n /\ f[i-1] \in Seq(A) /\ s[i] \in A
      BY <1>2
    <3>2. \A y : y \in Of(i) <=> y \in Of(i-1) \/ (y = s[i] /\ y \in S)
      OBVIOUS
    <3>3. ToSet(f[i-1]) = Of(i-1)
      BY <2>2
    <3> HIDE DEF Of
    <3>4. CASE s[i] \in S
      <4>1. f[i] = Append(f[i-1], s[i])
        BY <1>3, <3>4 DEF KeepStep
      <4>2. \A y : y \in ToSet(f[i]) <=> y \in ToSet(f[i-1]) \/ y = s[i]
        BY <3>1, <4>1, AppendFacts
      <4>3. \A y : y \in ToSet(f[i]) <=> y \in Of(i)
        BY <3>2, <3>3, <3>4, <4>2
      <4>4. ToSet(f[i]) = Of(i)
        BY <4>3
      <4> QED
        BY <3>1, <4>4
    <3>5. CASE s[i] \notin S
      <4>1. f[i] = f[i-1]
        BY <1>3, <3>5 DEF KeepStep
      <4> QED
        BY <3>1, <3>2, <3>3, <3>5, <4>1
    <3> QED
      BY <3>4, <3>5
  <2> HIDE DEF B
  <2>3. \A i \in 0 .. n : i \in B
    BY <1>2, <2>1, <2>2, UpTo
  <2> QED
    BY <2>3 DEF B
<1>5. ToSet(Keep(s, S)) = Of(n)
  BY <1>2, <1>4
<1>6. \A y : y \in Of(n) <=> y \in ToSet(s) /\ y \in S
  BY ToSetFacts
<1> QED
  BY <1>2, <1>5, <1>6

\* One step up from the classes in s.
ClimbStep(g, i, s) == s \cup UNION {ToSet(g[d]) : d \in s \cap DOMAIN g}
\* Whatever super classes there are.
AllOf(g, c) == {c} \cup UNION {ToSet(g[d]) : d \in DOMAIN g}
\* Climb, step by step.
ClimbRun(f, g, c) ==
    /\ f \in [0 .. Cardinality(DOMAIN g) -> SUBSET AllOf(g, c)] /\ f[0] = {c} /\ Climb(g, c) = f[Cardinality(DOMAIN g)]
    /\ \A i \in 1 .. Cardinality(DOMAIN g) : f[i] = ClimbStep(g, i, f[i-1])
LEMMA ClimbUnfolds ==
  ASSUME NEW g, NEW c, IsFiniteSet(DOMAIN g)
  PROVE  \E f : ClimbRun(f, g, c)
<1> DEFINE n == Cardinality(DOMAIN g)
           D == SUBSET AllOf(g, c)
           G == [p \in (1 .. n) \X D |-> ClimbStep(g, p[1], p[2])]
           z == {c}
           Is(f) == f = [i \in 0 .. Cardinality(DOMAIN g) |->
                        IF i = 0 THEN {c} ELSE LET s == f[i-1] IN s \cup UNION {ToSet(g[d]) : d \in s \cap DOMAIN g}]
<1>1. n \in Nat /\ z \in D
  BY FS_CardinalityType DEF AllOf
<1>2. \A i \in 1 .. n, v \in D : ClimbStep(g, i, v) \in D
  BY DEF ClimbStep, AllOf
<1>3. G \in [(1 .. n) \X D -> D] /\ \A i \in 1 .. n, v \in D : G[<<i, v>>] = ClimbStep(g, i, v)
  BY <1>2
<1> HIDE DEF G, D, z, n
<1>4. PICK f : Steps(f, n, D, z, G)
  BY <1>1, <1>3, StepsExist
<1>5. f = [i \in 0 .. n |-> f[i]] /\ f[0] = z /\ \A i \in 1 .. n : f[i] = ClimbStep(g, i, f[i-1])
  <2>1. \A i \in 1 .. n : i - 1 \in 0 .. n
    BY <1>1
  <2> QED
    BY <1>3, <1>4, <2>1 DEF Steps
<1>6. Is(f)
  <2>1. ASSUME NEW i \in 0 .. n
        PROVE  f[i] = IF i = 0 THEN {c} ELSE LET s == f[i-1] IN s \cup UNION {ToSet(g[d]) : d \in s \cap DOMAIN g}
    <3>1. i = 0 \/ i \in 1 .. n
      BY <1>1
    <3> QED
      BY <3>1, <1>5 DEF ClimbStep, z
  <2> QED
    BY <1>5, <2>1 DEF n
<1>7. PICK h : Is(h) /\ Climb(g, c) = h[Cardinality(DOMAIN g)]
  <2>1. Climb(g, c) = (CHOOSE h : Is(h))[Cardinality(DOMAIN g)]
    BY Zenon DEF Climb
  <2>2. Is(CHOOSE h : Is(h))
    BY <1>6, Zenon
  <2> QED
    BY <2>1, <2>2, Zenon
<1>8. h = [i \in 0 .. n |-> h[i]]
  BY <1>7 DEF n
<1>9. h[0] = z /\ \A i \in 1 .. n : h[i] = ClimbStep(g, i, h[i-1])
  <2>1. ASSUME NEW i \in 0 .. n
        PROVE  h[i] = IF i = 0 THEN z ELSE ClimbStep(g, i, h[i-1])
    BY <1>7 DEF ClimbStep, n, z
  <2>2. 0 \in 0 .. n /\ \A i \in 1 .. n : i \in 0 .. n /\ i # 0
    BY <1>1
  <2> QED
    BY <2>1, <2>2
<1>10. h[0] \in D /\ \A i \in 1 .. n : h[i-1] \in D => h[i] \in D
  BY <1>1, <1>2, <1>9
<1>11. h \in [0 .. n -> D]
  BY <1>1, <1>8, <1>10, StepsIn
<1> QED
  BY <1>7, <1>9, <1>11 DEF D, n, z, ClimbRun

\* The steps up never lose a class.
LEMMA ClimbFacts ==
  ASSUME NEW g, NEW c, IsFiniteSet(DOMAIN g)
  PROVE  c \in Climb(g, c) /\ Climb(g, c) \subseteq AllOf(g, c)
<1> DEFINE n == Cardinality(DOMAIN g)
<1>1. PICK f : ClimbRun(f, g, c)
  BY ClimbUnfolds
<1>2. /\ n \in Nat /\ f \in [0 .. n -> SUBSET AllOf(g, c)] /\ f[0] = {c} /\ Climb(g, c) = f[n]
      /\ \A i \in 1 .. n : f[i-1] \subseteq f[i]
  BY <1>1, FS_CardinalityType DEF ClimbRun, ClimbStep
<1> HIDE DEF n
<1> DEFINE B == {i \in 0 .. n : c \in f[i]}
<1>3. 0 \in B /\ \A i \in 1 .. n : i - 1 \in B => i \in B
  BY <1>2
<1> HIDE DEF B
<1>4. \A i \in 0 .. n : i \in B
  BY <1>2, <1>3, UpTo
<1>5. n \in B /\ f[n] \in SUBSET AllOf(g, c)
  BY <1>2, <1>4
<1> QED
  BY <1>2, <1>5 DEF B

-----------------------------------------------------------------------------
(* What is imported. *)

Descs == [supers : Seq(Types), iface : BOOLEAN, funcs : Seq(Funcs), methods : Seq(Funcs)]
Structs == [n : STRING, embeds : Seq(Selectors)]
\* Every class that the descriptor of c names has a descriptor.
Linked(c) == MemberTypes(clsMap[c]) \cup ToSet(Supers(c)) \subseteq DOMAIN clsMap

LEMMA UniverseFacts ==
  ASSUME U \in Universes
  PROVE  /\ IsFiniteSet(DOMAIN U)
         /\ \A c \in DOMAIN U : /\ c \in Types /\ IsClass(c)
                                /\ U[c].supers \in Seq(Types) /\ U[c].iface \in BOOLEAN /\ U[c].funcs \in Seq(Funcs)
<1>1. U \in [DOMAIN U -> [supers : Seq(Types), iface : BOOLEAN, funcs : Seq(Funcs)]]
  BY UniversesAssumption
<1>2. \A c \in DOMAIN U : U[c] \in [supers : Seq(Types), iface : BOOLEAN, funcs : Seq(Funcs)]
  BY <1>1
<1> QED
  BY <1>2, UniversesAssumption

LEMMA FindableFacts ==
  ASSUME U \in Universes
  PROVE  IsFiniteSet(Findable) /\ \A c \in Findable : c \in Types /\ IsClass(c)
<1>1. IsFiniteSet({DataBindingComponent})
  BY FS_Singleton
<1> QED
  BY <1>1, UniverseFacts, RootAssumption, FS_Union DEF Findable

LEMMA ScanTyped ==
  ASSUME U \in Universes, NEW c \in Findable
  PROVE  Scan(c) \in Descs
<1> DEFINE k == Shown(c)
<1>1. k.supers \in Seq(Types) /\ k.iface \in BOOLEAN /\ k.funcs \in Seq(Funcs)
  <2>1. CASE c \in DOMAIN U
    BY <2>1, UniverseFacts DEF Shown
  <2>2. CASE c \notin DOMAIN U
    BY <2>2 DEF Shown
  <2> QED
    BY <2>1, <2>2
<1> HIDE DEF k
<1>2. \A S : Keep(k.funcs, S) \in Seq(Funcs)
  BY <1>1, KeepFacts
<1>3. Scan(c) = [supers |-> k.supers, iface |-> k.iface,
                 funcs |-> Keep(k.funcs, {f \in ToSet(k.funcs) : IsFunc(f)}),
                 methods |-> Keep(k.funcs, {f \in ToSet(k.funcs) : ~IsFunc(f)})]
  BY DEF Scan, k
<1> QED
  BY <1>1, <1>2, <1>3 DEF Descs

\* The values of a function of a finite set.
LEMMA FiniteImage ==
  ASSUME NEW f, IsFiniteSet(DOMAIN f)
  PROVE  IsFiniteSet({f[x] : x \in DOMAIN f})
<1> DEFINE T == {f[x] : x \in DOMAIN f}
           g == [x \in DOMAIN f |-> f[x]]
<1>1. g \in Surjection(DOMAIN f, T)
  BY DEF Surjection
<1>2. IsFiniteSet(T)
  BY <1>1, FS_Surjection
<1> QED
  BY <1>2

\* The classes that Go structs will become.
LEMMA EmbedderFacts ==
  ASSUME src \in Sources
  PROVE  /\ Embedders(src) \in Seq(Structs)
         /\ \A e \in ToSet(Embedders(src)) : Synthesized(e) \in Descs
         /\ \A c \in GoClasses : IsClass(c)
         /\ IsFiniteSet(GoClasses)
<1>1. src.structs \in Seq(Structs)
  <2>1. src \in [sels : Seq(Selectors), methods : SUBSET STRING, structs : Seq(Structs)]
    BY SourcesAssumption DEF Structs
  <2> QED
    BY <2>1
<1>2. Embedders(src) \in Seq(Structs)
  BY <1>1, KeepFacts DEF Embedders
<1>3. ASSUME NEW e \in ToSet(Embedders(src))
      PROVE  Synthesized(e) \in Descs /\ IsClass(GoClass(e))
  <2>1. e \in Structs
    BY <1>2, <1>3, ToSetFacts
  <2>2. e.n \in STRING /\ e.embeds \in Seq(Selectors)
    BY <2>1 DEF Structs
  <2>3. Embeds(e) \in Seq(Selectors) /\ \A x \in ToSet(Embeds(e)) : IsPrefixed(x)
    BY <2>2, KeepFacts DEF Embeds
  <2>4. ASSUME NEW i \in DOMAIN Embeds(e)
        PROVE  Append(Embeds(e)[i].pkg, Embeds(e)[i].n) \in Types
    <3>1. Embeds(e)[i] \in Selectors /\ IsPrefixed(Embeds(e)[i])
      BY <2>3, <2>4, ToSetFacts
    <3>2. Embeds(e)[i].pkg \in Seq(STRING) /\ Embeds(e)[i].n \in STRING /\ Embeds(e)[i].pkg # <<>>
      BY <3>1 DEF Selectors, IsPrefixed
    <3>3. Append(Embeds(e)[i].pkg, Embeds(e)[i].n) \in Seq(STRING) /\ Len(Append(Embeds(e)[i].pkg, Embeds(e)[i].n)) > 1
      BY <3>2
    <3> QED
      BY <3>3 DEF Types, Panic
  <2>5. Synthesized(e).supers \in Seq(Types)
    <3> DEFINE n == Len(Embeds(e))
    <3>1. n \in Nat /\ DOMAIN Embeds(e) = 1 .. n
      BY <2>3
    <3> HIDE DEF n
    <3>2. [i \in DOMAIN Embeds(e) |-> Append(Embeds(e)[i].pkg, Embeds(e)[i].n)] \in Seq(Types)
      BY <2>4, <3>1
    <3> QED
      BY <3>2 DEF Synthesized
  <2>6. Synthesized(e) \in Descs
    BY <2>5 DEF Synthesized, Descs
  <2>7. IsClass(GoClass(e))
    BY DEF GoClass, IsClass
  <2> QED
    BY <2>6, <2>7
<1>4. IsFiniteSet(GoClasses)
  <2> DEFINE es == Embedders(src)
             g == [i \in DOMAIN es |-> GoClass(es[i])]
  <2>1. IsFiniteSet(DOMAIN g)
    <3>1. DOMAIN g = 1 .. Len(es) /\ Len(es) \in Nat
      BY <1>2
    <3> QED
      BY <3>1, FS_Interval
  <2>2. \A c : c \in GoClasses <=> c \in {g[i] : i \in DOMAIN g}
    BY DEF GoClasses, ToSet
  <2>3. GoClasses = {g[i] : i \in DOMAIN g}
    BY <2>2
  <2> HIDE DEF g
  <2>4. IsFiniteSet({g[i] : i \in DOMAIN g})
    BY <2>1, FiniteImage
  <2> QED
    BY <2>3, <2>4, Zenon
<1> QED
  BY <1>2, <1>3, <1>4 DEF GoClasses

\* What filterReferences leaves of a descriptor names no class it did not name.
LEMMA FilteredFacts ==
  ASSUME NEW d \in Descs, NEW c, NEW s
  PROVE  LET k == [d EXCEPT !.funcs = KeptFuncs(c, d.funcs, s), !.methods = KeptMethods(d.methods, s)]
         IN k \in Descs /\ k.supers = d.supers /\ MemberTypes(k) \subseteq MemberTypes(d)
<1> DEFINE fs == KeptFuncs(c, d.funcs, s)
           ms == KeptMethods(d.methods, s)
           k == [d EXCEPT !.funcs = fs, !.methods = ms]
<1>1. d.funcs \in Seq(Funcs) /\ d.methods \in Seq(Funcs)
  BY DEF Descs
<1>2. fs \in Seq(Funcs) /\ ToSet(fs) \subseteq ToSet(d.funcs)
  BY <1>1, KeepFacts DEF KeptFuncs
<1>3. ms \in Seq(Funcs) /\ ToSet(ms) \subseteq ToSet(d.methods)
  BY <1>1, KeepFacts DEF KeptMethods
<1> HIDE DEF fs, ms
<1>4. k \in Descs /\ k.supers = d.supers /\ k.funcs = fs /\ k.methods = ms
  BY <1>2, <1>3 DEF Descs
<1> HIDE DEF k
<1>5. MemberTypes(k) \subseteq MemberTypes(d)
  BY <1>2, <1>3, <1>4 DEF MemberTypes
<1> QED
  BY <1>4, <1>5 DEF k, fs, ms

\* What Import and filterReferences make of descriptors.
LEMMA FilterFacts ==
  ASSUME NEW cm, cm \in [DOMAIN cm -> Descs], NEW cs, NEW s
  PROVE  /\ Filter(cm, cs, s) \in [DOMAIN cm -> Descs]
         /\ \A c \in DOMAIN cm : /\ Filter(cm, cs, s)[c].supers = cm[c].supers
                                 /\ MemberTypes(Filter(cm, cs, s)[c]) \subseteq MemberTypes(cm[c])
<1> DEFINE k(c) == [cm[c] EXCEPT !.funcs = KeptFuncs(c, cm[c].funcs, s), !.methods = KeptMethods(cm[c].methods, s)]
<1>1. \A c \in DOMAIN cm : k(c) \in Descs /\ k(c).supers = cm[c].supers /\ MemberTypes(k(c)) \subseteq MemberTypes(cm[c])
  <2> TAKE c \in DOMAIN cm
  <2>1. cm[c] \in Descs
    OBVIOUS
  <2> QED
    BY <2>1, FilteredFacts
<1>2. Filter(cm, cs, s) = [c \in DOMAIN cm |-> IF c \in cs THEN k(c) ELSE cm[c]]
  BY DEF Filter
<1> HIDE DEF k
<1> QED
  BY <1>1, <1>2

\* Everything that the importer holds has a descriptor, and from the end of the import
\* of references on so does every class that a descriptor names.
Stages == {"import", "refer", "embed", "implicit", "sigs", "ancestors", "names", "done", "failed", "panicked"}
ImporterTypes == /\ clsMap \in [DOMAIN clsMap -> Descs]
              /\ DOMAIN clsMap \subseteq Findable \cup GoClasses
              /\ classes \subseteq DOMAIN clsMap
              /\ throwables \subseteq classes
              /\ todo \subseteq DOMAIN clsMap
Imported == /\ U \in Universes /\ src \in Sources /\ stage \in Stages /\ ImporterTypes
            /\ stage \in {"import", "refer", "embed"} => DOMAIN clsMap \subseteq Findable
            /\ stage \in {"import", "refer", "embed", "implicit", "sigs", "ancestors", "names"} => throwables = {}
            /\ stage = "refer" => \A c \in DOMAIN clsMap \ todo : Linked(c)
            /\ stage \notin {"import", "refer", "failed"} => \A c \in DOMAIN clsMap : Linked(c)

LEMMA ClassFacts ==
  ASSUME Imported
  PROVE  /\ IsFiniteSet(DOMAIN clsMap)
         /\ \A c \in DOMAIN clsMap : /\ IsClass(c) /\ clsMap[c] \in Descs /\ Supers(c) \in Seq(Types)
                                     /\ clsMap[c].funcs \in Seq(Funcs) /\ clsMap[c].methods \in Seq(Funcs)
<1>1. U \in Universes /\ src \in Sources /\ ImporterTypes
  BY DEF Imported
<1>2. IsFiniteSet(Findable) /\ \A c \in Findable : IsClass(c)
  BY <1>1, FindableFacts
<1>3. IsFiniteSet(GoClasses) /\ \A c \in GoClasses : IsClass(c)
  BY <1>1, EmbedderFacts
<1>4. IsFiniteSet(Findable \cup GoClasses)
  BY <1>2, <1>3, FS_Union
<1>5. IsFiniteSet(DOMAIN clsMap)
  BY <1>1, <1>4, FS_Subset DEF ImporterTypes
<1>6. \A c \in DOMAIN clsMap : IsClass(c) /\ clsMap[c] \in Descs
  BY <1>1, <1>2, <1>3 DEF ImporterTypes
<1> QED
  BY <1>5, <1>6 DEF Descs, Supers

LEMMA ImportedInit == Init => Imported
  BY DEF Init, Imported, ImporterTypes, Stages

LEMMA ImportNamedImported ==
  ASSUME Imported, ImportNamed
  PROVE  Imported'
<1> DEFINE found == Candidates \cap DOMAIN U
           cm == Import(<<>>, found)
<1>1. U \in Universes /\ src \in Sources /\ throwables = {}
  BY DEF Imported, ImportNamed
<1>2. cm \in [found -> Descs]
  <2>1. cm = [c \in found |-> Scan(c)]
    BY DEF Import
  <2> QED
    BY <1>1, <2>1, ScanTyped DEF Findable
<1>3. clsMap' = Filter(cm, found, src) /\ classes' = found /\ todo' = found /\ stage' = "refer"
  BY DEF ImportNamed
<1>4. UNCHANGED <<U, src, sig, all, throwables>>
  BY DEF ImportNamed
<1> HIDE DEF cm
<1>5. clsMap' \in [found -> Descs]
  BY <1>2, <1>3, FilterFacts
<1>6. DOMAIN clsMap' = found /\ found \subseteq Findable /\ Findable' = Findable
  BY <1>4, <1>5 DEF Findable
<1> QED
  BY <1>1, <1>3, <1>4, <1>5, <1>6 DEF Imported, ImporterTypes, Stages

LEMMA ImportReferencedImported ==
  ASSUME Imported, ImportReferenced
  PROVE  Imported'
<1> DEFINE new == UnknownImplicit(clsMap, todo)
<1>1. /\ U \in Universes /\ src \in Sources /\ stage = "refer" /\ throwables = {} /\ classes \subseteq DOMAIN clsMap
      /\ clsMap \in [DOMAIN clsMap -> Descs] /\ DOMAIN clsMap \subseteq Findable /\ todo \subseteq DOMAIN clsMap
      /\ \A c \in DOMAIN clsMap \ todo : Linked(c)
  BY DEF Imported, ImporterTypes, ImportReferenced
<1>2. UNCHANGED <<U, src, classes, sig, all, throwables>> /\ Findable' = Findable
  BY DEF ImportReferenced, Findable
<1>3. \A c \in todo : MemberTypes(clsMap[c]) \cup ToSet(Supers(c)) \subseteq DOMAIN clsMap \cup new
  <2> TAKE c \in todo
  <2>1. IsFiniteSet(DOMAIN clsMap)
    BY ClassFacts
  <2>2. c \in Ancestors(clsMap, c)
    <3> DEFINE g == [d \in DOMAIN clsMap |-> clsMap[d].supers]
    <3>1. IsFiniteSet(DOMAIN g)
      BY <2>1
    <3> HIDE DEF g
    <3>2. c \in Climb(g, c)
      BY <3>1, ClimbFacts
    <3> QED
      BY <3>2 DEF g, Ancestors
  <2>3. c \in (UNION {Ancestors(clsMap, b) : b \in todo}) \cap DOMAIN clsMap
    BY <1>1, <2>2
  <2> QED
    BY <2>3 DEF UnknownImplicit, Supers
<1>4. CASE new = {} /\ clsMap' = Filter(clsMap, DOMAIN clsMap \ classes, src) /\ stage' = "embed" /\ todo' = todo
  <2>1. /\ clsMap' \in [DOMAIN clsMap -> Descs]
        /\ \A c \in DOMAIN clsMap : clsMap'[c].supers = clsMap[c].supers /\ MemberTypes(clsMap'[c]) \subseteq MemberTypes(clsMap[c])
    BY <1>1, <1>4, FilterFacts
  <2>2. \A c \in DOMAIN clsMap : MemberTypes(clsMap[c]) \cup ToSet(Supers(c)) \subseteq DOMAIN clsMap
    BY <1>1, <1>3, <1>4 DEF Linked
  <2>3. DOMAIN clsMap' = DOMAIN clsMap
    BY <2>1
  <2>4. ASSUME NEW c \in DOMAIN clsMap'
        PROVE  Linked(c)'
    <3>1. MemberTypes(clsMap'[c]) \cup ToSet(clsMap'[c].supers) \subseteq DOMAIN clsMap'
      BY <2>1, <2>2, <2>3 DEF Supers
    <3> QED
      BY <3>1 DEF Linked, Supers
  <2> QED
    BY <1>1, <1>2, <1>4, <2>1, <2>3, <2>4 DEF Imported, ImporterTypes, Stages
<1>5. CASE new # {} /\ new \subseteq Findable /\ clsMap' = Import(clsMap, new) /\ todo' = new /\ stage' = stage
  <2>1. clsMap' = [c \in DOMAIN clsMap \cup new |-> IF c \in new THEN Scan(c) ELSE clsMap[c]]
    BY <1>5 DEF Import
  <2>2. clsMap' \in [DOMAIN clsMap' -> Descs] /\ DOMAIN clsMap' = DOMAIN clsMap \cup new
    <3>1. \A c \in new : Scan(c) \in Descs
      BY <1>1, <1>5, ScanTyped
    <3> QED
      BY <1>1, <2>1, <3>1
  <2>3. ASSUME NEW c \in DOMAIN clsMap' \ new
        PROVE  Linked(c)'
    <3>1. c \in DOMAIN clsMap /\ clsMap'[c] = clsMap[c]
      BY <2>1, <2>2
    <3>2. MemberTypes(clsMap[c]) \cup ToSet(clsMap[c].supers) \subseteq DOMAIN clsMap \cup new
      BY <1>1, <1>3, <3>1 DEF Linked, Supers
    <3> QED
      BY <2>2, <3>1, <3>2 DEF Linked, Supers
  <2> HIDE DEF new
  <2> QED
    BY <1>1, <1>2, <1>5, <2>2, <2>3 DEF Imported, ImporterTypes, Stages
<1>6. CASE stage' = "failed" /\ clsMap' = clsMap /\ todo' = todo
  BY <1>1, <1>2, <1>6 DEF Imported, ImporterTypes, Stages
<1> QED
  BY <1>4, <1>5, <1>6 DEF ImportReferenced

\* The struct of a Go class that is new is one whose super classes are known by then.
LEMMA NewGoClassFacts ==
  ASSUME src \in Sources, NEW c \in NewGoClasses, \A i \in DOMAIN Embedders(src) : Described(i)
  PROVE  /\ StructOf(c) \in ToSet(Embedders(src))
         /\ ToSet(Synthesized(StructOf(c)).supers) \subseteq DOMAIN clsMap \cup GoClasses
<1> DEFINE es == Embedders(src)
           First(i) == i \in DOMAIN es /\ GoClass(es[i]) = c /\ \A k \in 1 .. i - 1 : GoClass(es[k]) # c
<1>1. es \in Seq(Structs)
  BY EmbedderFacts
<1>2. DOMAIN es = 1 .. Len(es) /\ Len(es) \in Nat
  BY <1>1
<1>3. \E i \in 1 .. Len(es) : GoClass(es[i]) = c
  <2>1. PICK e \in ToSet(es) : GoClass(e) = c
    BY DEF NewGoClasses, GoClasses
  <2> QED
    BY <1>1, <2>1, ToSetFacts
<1>4. \E i : First(i)
  <2> DEFINE P == {i \in 0 .. Len(es) : \A k \in 1 .. i : GoClass(es[k]) # c}
  <2> HIDE DEF es
  <2>1. SUFFICES ASSUME ~\E i : First(i)
                 PROVE  FALSE
    OBVIOUS
  <2>2. 0 \in P
    BY <1>2
  <2>3. ASSUME NEW i \in 1 .. Len(es), i - 1 \in P
        PROVE  i \in P
    <3>1. ~First(i)
      BY <2>1
    <3>2. GoClass(es[i]) # c
      BY <1>2, <2>3, <3>1
    <3>3. \A k \in 1 .. i : k \in 1 .. i - 1 \/ k = i
      OBVIOUS
    <3> QED
      BY <2>3, <3>2, <3>3
  <2> HIDE DEF P
  <2>4. \A i \in 0 .. Len(es) : i \in P
    BY <1>2, <2>2, <2>3, UpTo
  <2> QED
    BY <1>2, <1>3, <2>4 DEF P
<1>5. StructOf(c) = es[CHOOSE j \in DOMAIN es : GoClass(es[j]) = c /\ \A k \in 1 .. j - 1 : GoClass(es[k]) # c]
  BY DEF StructOf
<1>6. PICK j \in DOMAIN es : First(j) /\ StructOf(c) = es[j]
  <2> DEFINE j == CHOOSE j \in DOMAIN es : GoClass(es[j]) = c /\ \A k \in 1 .. j - 1 : GoClass(es[k]) # c
  <2>1. \E k \in DOMAIN es : First(k)
    BY <1>4, Zenon
  <2>2. j \in DOMAIN es /\ GoClass(es[j]) = c /\ \A k \in 1 .. j - 1 : GoClass(es[k]) # c
    BY <2>1
  <2> HIDE DEF j
  <2>3. StructOf(c) = es[j]
    BY <1>5 DEF j
  <2> QED
    BY <2>2, <2>3
<1>7. Described(j) /\ es[j] \in ToSet(es)
  BY <1>1, <1>6, ToSetFacts
<1>8. DOMAIN clsMap \cup {GoClass(es[k]) : k \in 1 .. j - 1} \subseteq DOMAIN clsMap \cup GoClasses
  <2>1. \A k \in 1 .. j - 1 : es[k] \in ToSet(es)
    BY <1>1, <1>2, <1>6, ToSetFacts
  <2> QED
    BY <2>1 DEF GoClasses
<1>9. GoClass(es[j]) \notin DOMAIN clsMap \cup {GoClass(es[k]) : k \in 1 .. j - 1}
  BY <1>6 DEF NewGoClasses
<1>10. ToSet(Synthesized(es[j]).supers) \subseteq DOMAIN clsMap \cup {GoClass(es[k]) : k \in 1 .. j - 1}
  BY <1>7, <1>9 DEF Described
<1> QED
  BY <1>6, <1>7, <1>8, <1>10

LEMMA EmbedImported ==
  ASSUME Imported, Embed
  PROVE  Imported'
<1>1. /\ U \in Universes /\ src \in Sources /\ throwables = {} /\ stage = "embed"
      /\ ImporterTypes /\ DOMAIN clsMap \subseteq Findable /\ \A c \in DOMAIN clsMap : Linked(c)
  BY DEF Imported, Embed
<1>2. UNCHANGED <<U, src, sig, todo, all, throwables>> /\ Findable' = Findable
  BY DEF Embed, Findable
<1>3. CASE stage' = "failed" /\ UNCHANGED <<clsMap, classes>>
  BY <1>1, <1>2, <1>3 DEF Imported, ImporterTypes, Stages, GoClasses
<1>4. CASE /\ \A i \in DOMAIN Embedders(src) : Described(i)
           /\ clsMap' = [c \in DOMAIN clsMap \cup NewGoClasses |->
                           IF c \in DOMAIN clsMap THEN clsMap[c] ELSE Synthesized(StructOf(c))]
           /\ classes' = classes \cup NewGoClasses
           /\ stage' = "implicit"
  <2>1. \A c \in NewGoClasses : /\ StructOf(c) \in ToSet(Embedders(src))
                                /\ ToSet(Synthesized(StructOf(c)).supers) \subseteq DOMAIN clsMap \cup GoClasses
    BY <1>1, <1>4, NewGoClassFacts
  <2>2. \A c \in NewGoClasses : Synthesized(StructOf(c)) \in Descs
    BY <1>1, <2>1, EmbedderFacts
  <2>3. DOMAIN clsMap' = DOMAIN clsMap \cup GoClasses
    BY <1>4 DEF NewGoClasses
  <2>4. clsMap' \in [DOMAIN clsMap' -> Descs]
    BY <1>1, <1>4, <2>2, <2>3 DEF ImporterTypes
  <2>5. ASSUME NEW c \in DOMAIN clsMap'
        PROVE  Linked(c)'
    <3>1. CASE c \in DOMAIN clsMap
      <4>1. clsMap'[c] = clsMap[c] /\ Linked(c)
        BY <1>1, <1>4, <3>1
      <4> QED
        BY <2>3, <4>1 DEF Linked, Supers
    <3>2. CASE c \notin DOMAIN clsMap
      <4>1. c \in NewGoClasses /\ clsMap'[c] = Synthesized(StructOf(c))
        BY <1>4, <2>3, <3>2 DEF NewGoClasses
      <4>2. MemberTypes(Synthesized(StructOf(c))) = {}
        <5>1. Synthesized(StructOf(c)).funcs = <<>> /\ Synthesized(StructOf(c)).methods = <<>>
          BY DEF Synthesized
        <5>2. ToSet(<<>>) = {}
          BY DEF ToSet
        <5> QED
          BY <5>1, <5>2 DEF MemberTypes
      <4> QED
        BY <2>1, <2>3, <4>1, <4>2 DEF Linked, Supers
    <3> QED
      BY <3>1, <3>2
  <2>6. GoClasses' = GoClasses
    BY <1>2 DEF GoClasses
  <2>7. classes' \subseteq DOMAIN clsMap' /\ DOMAIN clsMap' \subseteq Findable' \cup GoClasses' /\ todo' \subseteq DOMAIN clsMap'
    BY <1>1, <1>2, <1>4, <2>3, <2>6 DEF ImporterTypes, NewGoClasses
  <2>8. ImporterTypes'
    BY <1>1, <1>2, <2>4, <2>7 DEF ImporterTypes
  <2> QED
    BY <1>1, <1>2, <1>4, <2>5, <2>8 DEF Imported, Stages
<1> QED
  BY <1>3, <1>4 DEF Embed

LEMMA IncludeImplicitImported ==
  ASSUME Imported, IncludeImplicit
  PROVE  Imported'
<1>1. /\ U \in Universes /\ src \in Sources /\ throwables = {} /\ ImporterTypes /\ \A c \in DOMAIN clsMap : Linked(c)
  BY DEF Imported, IncludeImplicit
<1>2. UNCHANGED <<U, src, clsMap, all, throwables>> /\ stage' = "sigs" /\ todo' = DOMAIN clsMap
  BY DEF IncludeImplicit
<1>3. classes' \subseteq DOMAIN clsMap
  BY <1>1 DEF IncludeImplicit, ImporterTypes, Linked
<1>4. ImporterTypes'
  BY <1>1, <1>2, <1>3 DEF ImporterTypes, GoClasses, Findable
<1>5. \A c \in DOMAIN clsMap' : Linked(c)'
  BY <1>1, <1>2 DEF Linked, Supers
<1> QED
  BY <1>1, <1>2, <1>4, <1>5 DEF Imported, Stages

\* The later steps leave the descriptors alone.
LEMMA LaterImported ==
  ASSUME Imported, UNCHANGED <<U, src, clsMap>>, stage \in {"sigs", "ancestors", "names"},
         stage' \in {"sigs", "ancestors", "names", "done", "panicked"}, todo' \subseteq DOMAIN clsMap,
         classes' \subseteq DOMAIN clsMap, throwables' = throwables \/ (stage' = "done" /\ throwables' \subseteq classes')
  PROVE  Imported'
<1>1. U \in Universes /\ src \in Sources /\ throwables = {} /\ ImporterTypes /\ \A c \in DOMAIN clsMap : Linked(c)
  BY DEF Imported
<1>2. ImporterTypes'
  BY <1>1 DEF ImporterTypes, GoClasses, Findable
<1>3. \A c \in DOMAIN clsMap' : Linked(c)'
  BY <1>1 DEF Linked, Supers
<1> QED
  BY <1>1, <1>2, <1>3 DEF Imported, Stages

LEMMA ImportedNext ==
  ASSUME Imported, [Next]_vars
  PROVE  Imported'
<1>1. CASE ImportNamed
  BY <1>1, ImportNamedImported
<1>2. CASE ImportReferenced
  BY <1>2, ImportReferencedImported
<1>3. CASE Embed
  BY <1>3, EmbedImported
<1>4. CASE IncludeImplicit
  BY <1>4, IncludeImplicitImported
<1>5. classes \subseteq DOMAIN clsMap /\ todo \subseteq DOMAIN clsMap
  BY DEF Imported, ImporterTypes
<1>6. ASSUME NEW c \in todo, FillSigs(c)
      PROVE  Imported'
  <2>1. /\ UNCHANGED <<U, src, clsMap, classes, throwables>> /\ stage = "sigs" /\ stage' \in {"sigs", "panicked"}
        /\ todo' \subseteq todo
    BY <1>6 DEF FillSigs
  <2> QED
    BY <1>5, <2>1, LaterImported
<1>7. CASE FillAllMethods
  <2>1. /\ UNCHANGED <<U, src, clsMap, classes, todo, throwables>> /\ stage = "sigs"
        /\ stage' \in {"ancestors", "panicked"}
    BY <1>7 DEF FillAllMethods
  <2> QED
    BY <1>5, <2>1, LaterImported
<1>8. CASE IncludeAncestors
  <2>1. /\ UNCHANGED <<U, src, clsMap, throwables>> /\ stage = "ancestors"
        /\ \/ stage' = "panicked" /\ UNCHANGED <<classes, todo>>
           \/ /\ UNION {SigTypes(c) : c \in classes} \subseteq DOMAIN clsMap /\ stage' = "names"
              /\ classes' = classes \cup UNION {SigTypes(c) : c \in classes} /\ todo' = classes'
    BY <1>8 DEF IncludeAncestors
  <2> QED
    BY <1>5, <2>1, LaterImported
<1>9. ASSUME NEW c \in todo, FillJNINames(c)
      PROVE  Imported'
  <2>1. UNCHANGED <<U, src, stage, clsMap, classes, throwables>> /\ stage = "names" /\ todo' \subseteq todo
    BY <1>9 DEF FillJNINames
  <2> QED
    BY <1>5, <2>1, LaterImported
<1>10. CASE FillThrowables
  <2>1. /\ UNCHANGED <<U, src, clsMap, classes, todo>> /\ stage = "names" /\ stage' = "done"
        /\ throwables' \subseteq classes
    BY <1>10 DEF FillThrowables
  <2> QED
    BY <1>5, <2>1, LaterImported
<1>11. CASE UNCHANGED vars
  BY <1>11 DEF vars, Imported, ImporterTypes, Linked, Supers, GoClasses, Findable
<1> QED
  BY <1>1, <1>2, <1>3, <1>4, <1>6, <1>7, <1>8, <1>9, <1>10, <1>11 DEF Next

\* The importer finds only classes that the class path or the Go source has, and keeps a
\* descriptor of every class that it returns (Import, importReferencedClasses, embed).
THEOREM ImportedInvariant == Spec => []Imported
<1> QED
  BY ImportedInit, ImportedNext, PTL DEF Spec

-----------------------------------------------------------------------------
(* The classes that are returned. *)

\* Signatures depend on the descriptors only.
LEMMA SigTypesKept ==
  ASSUME UNCHANGED <<clsMap, all>>
  PROVE  \A c : SigTypes(c)' = SigTypes(c)
<1>1. \A c : Levels(c)' = Levels(c)
  BY Zenon DEF Levels, Above, Supers
<1>2. \A t1, t2 : CommonType(t1, t2)' = CommonType(t1, t2)
  BY <1>1 DEF CommonType
<1>3. \A ts : Common(ts)' = Common(ts)
  BY <1>2, Zenon DEF Common
<1>4. \A sigs : Combine(sigs)' = Combine(sigs)
  BY <1>3 DEF Combine
<1>5. \A fs, n : SigOf(fs, n)' = SigOf(fs, n)
  BY <1>4 DEF SigOf
<1> QED
  BY <1>5 DEF SigTypes, StaticSigTypes, StaticSig

\* The classes that the source names, its Go classes, and those in their members.
NamedClasses == (Candidates \cap DOMAIN U) \cup (GoClasses \ DOMAIN U)
Near == NamedClasses \cup UNION {MemberTypes(clsMap[c]) : c \in NamedClasses}
\* How far the list of classes has come.
Listed == /\ stage \in {"refer", "embed"} => Candidates \cap DOMAIN U \subseteq classes
          /\ stage = "implicit" => NamedClasses \subseteq classes
          /\ stage \in {"sigs", "ancestors", "names", "done"} => Near \subseteq classes
          /\ stage \in {"names", "done"} => \A c \in Near : SigTypes(c) \subseteq classes

LEMMA ListedNext ==
  ASSUME Imported, Listed, [Next]_vars
  PROVE  Listed'
<1>1. CASE ImportNamed
  BY <1>1 DEF ImportNamed, Listed, Candidates
<1>2. CASE ImportReferenced
  BY <1>2 DEF ImportReferenced, Listed, Candidates
<1>3. CASE Embed
  <2>1. stage' = "failed" \/ stage' = "implicit"
    BY <1>3 DEF Embed
  <2>2. CASE stage' = "failed"
    BY <2>2 DEF Listed
  <2>3. CASE stage' = "implicit"
    <3>1. /\ classes' = classes \cup NewGoClasses /\ UNCHANGED <<U, src>>
          /\ DOMAIN clsMap' = DOMAIN clsMap \cup NewGoClasses
      BY <1>3, <2>3 DEF Embed
    <3>2. Candidates \cap DOMAIN U \subseteq classes /\ DOMAIN clsMap \subseteq Findable
      BY <1>3 DEF Embed, Listed, Imported
    <3>3. NamedClasses' = (Candidates \cap DOMAIN U) \cup (GoClasses \ DOMAIN U)
      BY <3>1 DEF NamedClasses, Candidates, GoClasses
    <3>4. DataBindingComponent \notin GoClasses
      BY RootAssumption DEF GoClasses, GoClass
    <3>5. GoClasses \ DOMAIN U \subseteq NewGoClasses
      BY <3>2, <3>4 DEF NewGoClasses, Findable
    <3>6. NamedClasses' \subseteq classes'
      BY <3>1, <3>2, <3>3, <3>5
    <3> QED
      BY <2>3, <3>6 DEF Listed
  <2> QED
    BY <2>1, <2>2, <2>3
<1>4. CASE IncludeImplicit
  <2>1. /\ stage = "implicit" /\ stage' = "sigs" /\ UNCHANGED <<U, src, clsMap>>
        /\ classes' = classes \cup UNION {MemberTypes(clsMap[c]) : c \in classes}
    BY <1>4 DEF IncludeImplicit
  <2>2. NamedClasses \subseteq classes
    BY <2>1 DEF Listed
  <2>3. Near \subseteq classes'
    BY <2>1, <2>2 DEF Near
  <2>4. Near' = Near
    BY <2>1 DEF Near, NamedClasses, Candidates, GoClasses
  <2> QED
    BY <2>1, <2>3, <2>4 DEF Listed
<1>5. ASSUME UNCHANGED <<U, src, clsMap>>
      PROVE  Near' = Near
  BY <1>5 DEF Near, NamedClasses, Candidates, GoClasses
<1>6. ASSUME NEW c \in todo, FillSigs(c)
      PROVE  Listed'
  <2>1. /\ stage = "sigs" /\ stage' \in {"sigs", "panicked"} /\ UNCHANGED <<U, src, clsMap, classes>>
    BY <1>6 DEF FillSigs
  <2> QED
    BY <1>5, <2>1 DEF Listed
<1>7. CASE FillAllMethods
  <2>1. /\ stage = "sigs" /\ stage' \in {"ancestors", "panicked"} /\ UNCHANGED <<U, src, clsMap, classes>>
    BY <1>7 DEF FillAllMethods
  <2> QED
    BY <1>5, <2>1 DEF Listed
<1>8. CASE IncludeAncestors
  <2> DEFINE found == UNION {SigTypes(c) : c \in classes}
  <2>1. /\ UNCHANGED <<U, src, clsMap, sig, all>> /\ stage = "ancestors"
        /\ stage' = "panicked" \/ (classes' = classes \cup found /\ stage' = "names")
    BY <1>8 DEF IncludeAncestors
  <2>2. Near \subseteq classes
    BY <2>1 DEF Listed
  <2>3. \A c \in Near : SigTypes(c) \subseteq found
    BY <2>2
  <2>4. \A c \in Near : SigTypes(c)' = SigTypes(c)
    BY <2>1, SigTypesKept
  <2> HIDE DEF found
  <2> QED
    BY <1>5, <2>1, <2>2, <2>3, <2>4 DEF Listed
<1>9. ASSUME UNCHANGED <<U, src, clsMap, classes, all>>, stage \in {"names", "done"}, stage' \in {"names", "done"}
      PROVE  Listed'
  <2>1. Near' = Near /\ \A c : SigTypes(c)' = SigTypes(c)
    BY <1>5, <1>9, SigTypesKept
  <2> QED
    BY <1>9, <2>1 DEF Listed
<1>10. ASSUME NEW c \in todo, FillJNINames(c)
       PROVE  Listed'
  <2>1. UNCHANGED <<U, src, clsMap, classes, all, stage>> /\ stage = "names"
    BY <1>10 DEF FillJNINames
  <2> QED
    BY <1>9, <2>1
<1>11. CASE FillThrowables
  <2>1. UNCHANGED <<U, src, clsMap, classes, all>> /\ stage = "names" /\ stage' = "done"
    BY <1>11 DEF FillThrowables
  <2> QED
    BY <1>9, <2>1
<1>12. CASE UNCHANGED vars
  <2>1. UNCHANGED <<U, src, stage, clsMap, classes, all>>
    BY <1>12 DEF vars
  <2>2. Near' = Near /\ \A c : SigTypes(c)' = SigTypes(c)
    BY <1>5, <2>1, SigTypesKept
  <2>3. NamedClasses' = NamedClasses /\ (Candidates \cap DOMAIN U)' = Candidates \cap DOMAIN U
    BY <2>1 DEF NamedClasses, Candidates, GoClasses
  <2> QED
    BY <2>1, <2>2, <2>3 DEF Listed
<1> QED
  BY <1>1, <1>2, <1>3, <1>4, <1>6, <1>7, <1>8, <1>10, <1>11, <1>12 DEF Next

\* The types that the Go interface of a class names are those in its signatures.
LEMMA NamedInSigs ==
  ASSUME NEW c
  PROVE  TypesNamed(c) \subseteq SigTypes(c)
<1> SUFFICES ASSUME NEW t \in TypesNamed(c)
             PROVE  t \in SigTypes(c)
  OBVIOUS
<1>1. IsClass(t)
  BY DEF TypesNamed
<1>2. PICK s \in {all[c][n].sig : n \in ProxyMethods(c)} \cup {StaticSig(c, n) : n \in GoFunctions(c)} : t \in ToSet(s.ps) \cup {s.r}
  BY DEF TypesNamed
<1>3. t \in ClassesIn(s)
  BY <1>1, <1>2 DEF ClassesIn, TypesOf
<1>4. ASSUME NEW n \in ProxyMethods(c), s = all[c][n].sig
      PROVE  t \in SigTypes(c)
  BY <1>3, <1>4 DEF SigTypes, ProxyMethods
<1>5. ASSUME NEW n \in GoFunctions(c), s = StaticSig(c, n)
      PROVE  t \in SigTypes(c)
  BY <1>3, <1>5 DEF SigTypes, StaticSigTypes, GoFunctions, Functions
<1> QED
  BY <1>2, <1>4, <1>5

\* The classes that the source names, the Go structs that embed one, and the classes in
\* the members of these are returned; the Go interface of each of them names only classes
\* that are returned too, so the generated packages compile (Import, genInterface).
THEOREM NamedTypesGeneratedHolds == Spec => []NamedTypesGenerated
<1>1. Init => Imported /\ Listed
  BY ImportedInit DEF Init, Listed
<1>2. Imported /\ Listed /\ [Next]_vars => (Imported /\ Listed)'
  BY ImportedNext, ListedNext
<1>3. Listed => NamedTypesGenerated
  <2> SUFFICES ASSUME Listed, Done, NEW c \in Near
               PROVE  c \in classes /\ TypesNamed(c) \subseteq classes
    BY DEF NamedTypesGenerated, Near, NamedClasses
  <2>1. Near \subseteq classes /\ SigTypes(c) \subseteq classes
    BY DEF Listed, Done
  <2> QED
    BY <2>1, NamedInSigs
<1> QED
  BY <1>1, <1>2, <1>3, PTL DEF Spec

-----------------------------------------------------------------------------
(* The super classes of a class. *)

\* The import of references is over.
AllLinked == Imported /\ \A c \in DOMAIN clsMap : Linked(c)

LEMMA SeqSubset ==
  ASSUME NEW S, NEW T, NEW s \in Seq(S), ToSet(s) \subseteq T
  PROVE  s \in Seq(T)
<1>1. s \in Seq(ToSet(s))
  BY ToSetFacts
<1> HIDE DEF ToSet
<1> QED
  BY <1>1

LEMMA SupersLinked ==
  ASSUME AllLinked
  PROVE  \A c \in DOMAIN clsMap : Supers(c) \in Seq(DOMAIN clsMap)
<1> TAKE c \in DOMAIN clsMap
<1>1. Supers(c) \in Seq(Types)
  BY ClassFacts DEF AllLinked
<1>2. ToSet(Supers(c)) \subseteq DOMAIN clsMap
  BY DEF AllLinked, Linked
<1> QED
  BY <1>1, <1>2, SeqSubset

\* The level above a list of classes holds their super classes.
LEMMA AboveFacts ==
  ASSUME AllLinked, NEW l \in Seq(DOMAIN clsMap)
  PROVE  /\ Above(l) \in Seq(DOMAIN clsMap)
         /\ \A d : d \in ToSet(Above(l)) <=> \E c \in ToSet(l) : d \in ToSet(Supers(c))
<1> DEFINE ss == [j \in DOMAIN l |-> Supers(l[j])]
           A == DOMAIN clsMap
<1>1. DOMAIN l = 1 .. Len(l) /\ Len(l) \in Nat /\ \A j \in 1 .. Len(l) : l[j] \in A
  OBVIOUS
<1>2. \A j \in 1 .. Len(l) : Supers(l[j]) \in Seq(A)
  BY <1>1, SupersLinked
<1>3. ss \in Seq(Seq(A)) /\ Len(ss) = Len(l) /\ \A j \in 1 .. Len(l) : ss[j] = Supers(l[j])
  BY <1>1, <1>2
<1> HIDE DEF ss
<1>4. /\ FlattenSeq(ss) \in Seq(A)
      /\ \A d : d \in ToSet(FlattenSeq(ss)) <=> \E j \in 1 .. Len(l) : d \in ToSet(ss[j])
  BY <1>3, FlattenFacts
<1>5. \A d : (\E j \in 1 .. Len(l) : d \in ToSet(ss[j])) <=> \E c \in ToSet(l) : d \in ToSet(Supers(c))
  <2>1. \A c : c \in ToSet(l) <=> \E j \in 1 .. Len(l) : l[j] = c
    BY ToSetFacts
  <2> QED
    BY <1>3, <2>1
<1> QED
  BY <1>4, <1>5 DEF Above, ss

\* The levels found so far: there is one at least.
SomeLevels == Seq(Seq(DOMAIN clsMap)) \ {<<>>}
\* One level more.
LevelsStep(c, i, ls) == Append(ls, Above(Last(ls)))
LEMMA LevelsStepTyped ==
  ASSUME AllLinked, NEW c, NEW i, NEW ls \in SomeLevels
  PROVE  /\ LevelsStep(c, i, ls) \in SomeLevels /\ Len(LevelsStep(c, i, ls)) = Len(ls) + 1
         /\ \A k \in 1 .. Len(ls) : LevelsStep(c, i, ls)[k] = ls[k]
         /\ LevelsStep(c, i, ls)[Len(ls) + 1] = Above(ls[Len(ls)])
         /\ Len(ls) \in Nat \ {0} /\ ls[Len(ls)] \in Seq(DOMAIN clsMap)
<1>1. ls \in Seq(Seq(DOMAIN clsMap)) /\ Len(ls) \in Nat /\ Len(ls) # 0 /\ ls[Len(ls)] \in Seq(DOMAIN clsMap)
  BY DEF SomeLevels
<1>2. Above(ls[Len(ls)]) \in Seq(DOMAIN clsMap) /\ Last(ls) = ls[Len(ls)]
  BY <1>1, AboveFacts DEF Last
<1> DEFINE a == Above(ls[Len(ls)])
           S == Seq(DOMAIN clsMap)
<1>3. a \in S /\ ls \in Seq(S) /\ LevelsStep(c, i, ls) = Append(ls, a)
  BY <1>1, <1>2 DEF LevelsStep
<1> HIDE DEF a, S
<1>4. /\ Append(ls, a) \in Seq(S) /\ Len(Append(ls, a)) = Len(ls) + 1 /\ Append(ls, a)[Len(ls) + 1] = a
      /\ \A k \in 1 .. Len(ls) : Append(ls, a)[k] = ls[k]
  BY <1>3
<1>5. Append(ls, a) # <<>>
  BY <1>1, <1>4
<1> QED
  BY <1>1, <1>3, <1>4, <1>5 DEF SomeLevels, S, a
\* Levels, step by step.
LevelsRun(f, c) ==
    /\ f \in [0 .. Cardinality(DOMAIN clsMap) -> SomeLevels] /\ f[0] = << <<c>> >> /\ Levels(c) = FlattenSeq(f[Cardinality(DOMAIN clsMap)])
    /\ \A i \in 1 .. Cardinality(DOMAIN clsMap) : f[i] = LevelsStep(c, i, f[i-1])
LEMMA LevelsUnfolds ==
  ASSUME AllLinked, NEW c \in DOMAIN clsMap
  PROVE  \E f : LevelsRun(f, c)
<1> DEFINE n == Cardinality(DOMAIN clsMap)
           D == SomeLevels
           G == [p \in (1 .. n) \X D |-> LevelsStep(c, p[1], p[2])]
           z == << <<c>> >>
           Is(f) == f = [i \in 0 .. Cardinality(DOMAIN clsMap) |-> IF i = 0 THEN << <<c>> >> ELSE LET ls == f[i-1] IN Append(ls, Above(Last(ls)))]
<1>1. n \in Nat /\ z \in D
  <2>1. IsFiniteSet(DOMAIN clsMap)
    BY ClassFacts DEF AllLinked
  <2> QED
    BY <2>1, FS_CardinalityType DEF SomeLevels
<1>2. \A i \in 1 .. n, v \in D : LevelsStep(c, i, v) \in D
  BY LevelsStepTyped
<1>3. G \in [(1 .. n) \X D -> D] /\ \A i \in 1 .. n, v \in D : G[<<i, v>>] = LevelsStep(c, i, v)
  BY <1>2
<1> HIDE DEF G, D, z, n
<1>4. PICK f : Steps(f, n, D, z, G)
  BY <1>1, <1>3, StepsExist
<1>5. f = [i \in 0 .. n |-> f[i]] /\ f[0] = z /\ \A i \in 1 .. n : f[i] = LevelsStep(c, i, f[i-1])
  <2>1. \A i \in 1 .. n : i - 1 \in 0 .. n
    BY <1>1
  <2> QED
    BY <1>3, <1>4, <2>1 DEF Steps
<1>6. Is(f)
  <2>1. ASSUME NEW i \in 0 .. n
        PROVE  f[i] = IF i = 0 THEN << <<c>> >> ELSE LET ls == f[i-1] IN Append(ls, Above(Last(ls)))
    <3>1. i = 0 \/ i \in 1 .. n
      BY <1>1
    <3> QED
      BY <3>1, <1>5 DEF LevelsStep, z
  <2> QED
    BY <1>5, <2>1 DEF n
<1>7. PICK h : Is(h) /\ Levels(c) = FlattenSeq(h[Cardinality(DOMAIN clsMap)])
  <2>1. Levels(c) = FlattenSeq((CHOOSE h : Is(h))[Cardinality(DOMAIN clsMap)])
    BY Zenon DEF Levels
  <2>2. Is(CHOOSE h : Is(h))
    BY <1>6, Zenon
  <2> QED
    BY <2>1, <2>2, Zenon
<1>8. h = [i \in 0 .. n |-> h[i]]
  BY <1>7 DEF n
<1>9. h[0] = z /\ \A i \in 1 .. n : h[i] = LevelsStep(c, i, h[i-1])
  <2>1. ASSUME NEW i \in 0 .. n
        PROVE  h[i] = IF i = 0 THEN z ELSE LevelsStep(c, i, h[i-1])
    BY <1>7 DEF LevelsStep, n, z
  <2>2. 0 \in 0 .. n /\ \A i \in 1 .. n : i \in 0 .. n /\ i # 0
    BY <1>1
  <2> QED
    BY <2>1, <2>2
<1>10. h[0] \in D /\ \A i \in 1 .. n : h[i-1] \in D => h[i] \in D
  BY <1>1, <1>2, <1>9
<1>11. h \in [0 .. n -> D]
  BY <1>1, <1>8, <1>10, StepsIn
<1> QED
  BY <1>7, <1>9, <1>11 DEF D, n, z, LevelsRun

SuperGraph == [d \in DOMAIN clsMap |-> clsMap[d].supers]
LEMMA SuperGraphFacts ==
  ASSUME AllLinked
  PROVE  /\ IsFiniteSet(DOMAIN SuperGraph) /\ DOMAIN SuperGraph = DOMAIN clsMap
         /\ \A c \in DOMAIN clsMap : SuperGraph[c] = Supers(c)
         /\ \A c : Ancestors(clsMap, c) = Climb(SuperGraph, c)
         /\ Cardinality(DOMAIN clsMap) \in Nat
<1>1. IsFiniteSet(DOMAIN clsMap)
  BY ClassFacts DEF AllLinked
<1> QED
  BY <1>1, FS_CardinalityType DEF SuperGraph, Supers, Ancestors

\* The levels of a class hold classes, and only ancestors of it.
LEMMA LevelsFacts ==
  ASSUME AllLinked, NEW c \in DOMAIN clsMap
  PROVE  Levels(c) \in Seq(DOMAIN clsMap) /\ ToSet(Levels(c)) \subseteq Ancestors(clsMap, c)
<1> DEFINE n == Cardinality(DOMAIN clsMap)
           g == SuperGraph
           A == DOMAIN clsMap
<1>1. PICK f : LevelsRun(f, c)
  BY LevelsUnfolds
<1>2. PICK u : ClimbRun(u, g, c)
  BY SuperGraphFacts, ClimbUnfolds
<1>3. n \in Nat /\ f \in [0 .. n -> SomeLevels] /\ f[0] = << <<c>> >> /\ Levels(c) = FlattenSeq(f[n])
  BY <1>1, SuperGraphFacts DEF LevelsRun
<1>4. \A i \in 1 .. n : f[i] = LevelsStep(c, i, f[i-1])
  BY <1>1 DEF LevelsRun
<1>5. u[0] = {c} /\ Ancestors(clsMap, c) = u[n]
  BY <1>2, SuperGraphFacts DEF ClimbRun
<1>6. \A i \in 1 .. n : u[i] = u[i-1] \cup UNION {ToSet(Supers(d)) : d \in u[i-1] \cap A}
  BY <1>2, SuperGraphFacts DEF ClimbRun, ClimbStep
<1> DEFINE B == {i \in 0 .. n : Len(f[i]) = i + 1 /\ \A k \in 1 .. i + 1 : ToSet(f[i][k]) \subseteq u[i]}
<1> HIDE DEF n
<1>7. 0 \in B
  <2>1. Len(f[0]) = 1 /\ f[0][1] = <<c>> /\ 0 \in 0 .. n
    BY <1>3
  <2>2. ToSet(<<c>>) = {c}
    BY DEF ToSet
  <2>3. \A k \in 1 .. 0 + 1 : k = 1
    OBVIOUS
  <2> QED
    BY <1>5, <2>1, <2>2, <2>3
<1>8. ASSUME NEW i \in 1 .. n, i - 1 \in B
      PROVE  i \in B
  <2>1. i - 1 \in 0 .. n /\ i \in 0 .. n /\ (i - 1) + 1 = i /\ f[i-1] \in SomeLevels
    BY <1>3
  <2>2. Len(f[i-1]) = i /\ \A k \in 1 .. i : ToSet(f[i-1][k]) \subseteq u[i-1]
    BY <1>8, <2>1
  <2>3. /\ Len(f[i]) = i + 1 /\ \A k \in 1 .. i : f[i][k] = f[i-1][k]
        /\ f[i][i + 1] = Above(f[i-1][i]) /\ f[i-1][i] \in Seq(A)
    <3> DEFINE ls == f[i-1]
    <3>1. ls \in SomeLevels /\ f[i] = LevelsStep(c, i, ls) /\ Len(ls) = i
      BY <1>4, <2>1, <2>2
    <3> HIDE DEF ls
    <3>2. /\ Len(f[i]) = Len(ls) + 1 /\ \A k \in 1 .. Len(ls) : f[i][k] = ls[k]
          /\ f[i][Len(ls) + 1] = Above(ls[Len(ls)]) /\ ls[Len(ls)] \in Seq(A)
      BY <3>1, LevelsStepTyped
    <3> QED
      BY <3>1, <3>2 DEF ls
  <2>4. ToSet(f[i-1][i]) \subseteq u[i-1]
    BY <2>2
  <2>5. ToSet(f[i][i + 1]) \subseteq u[i]
    <3> SUFFICES ASSUME NEW d \in ToSet(f[i][i + 1])
                 PROVE  d \in u[i]
      OBVIOUS
    <3>1. PICK e \in ToSet(f[i-1][i]) : d \in ToSet(Supers(e))
      BY <2>3, AboveFacts
    <3>2. e \in A
      BY <2>3, <3>1, ToSetFacts
    <3> QED
      BY <1>6, <2>4, <3>1, <3>2
  <2>6. \A k \in 1 .. i : ToSet(f[i][k]) \subseteq u[i]
    BY <1>6, <2>2, <2>3
  <2>7. \A k \in 1 .. i + 1 : k \in 1 .. i \/ k = i + 1
    OBVIOUS
  <2> QED
    BY <2>1, <2>3, <2>5, <2>6, <2>7
<1> HIDE DEF B
<1>9. \A i \in 0 .. n : i \in B
  BY <1>3, <1>7, <1>8, UpTo
<1>10. Len(f[n]) = n + 1 /\ \A k \in 1 .. n + 1 : ToSet(f[n][k]) \subseteq u[n]
  <2>1. n \in B
    BY <1>3, <1>9
  <2> QED
    BY <2>1 DEF B
<1>11. f[n] \in Seq(Seq(A))
  BY <1>3 DEF SomeLevels
<1>12. FlattenSeq(f[n]) \in Seq(A) /\ \A y : y \in ToSet(FlattenSeq(f[n])) => \E k \in 1 .. n + 1 : y \in ToSet(f[n][k])
  BY <1>10, <1>11, FlattenFacts
<1> QED
  BY <1>3, <1>5, <1>10, <1>12

-----------------------------------------------------------------------------
(* Common types and signatures. *)

\* Of the values of a function on an interval one is the least and one the greatest.
LEMMA Extremes ==
  ASSUME NEW n \in Nat, n # 0, NEW f \in [1 .. n -> Nat]
  PROVE  \E i, j \in 1 .. n : \A k \in 1 .. n : f[i] <= f[k] /\ f[k] <= f[j]
<1> DEFINE P(m) == \E i, j \in 1 .. n : \A k \in 1 .. m : f[i] <= f[k] /\ f[k] <= f[j]
           B == {m \in 0 .. n : P(m)}
<1>1. 0 \in B
  <2>1. 1 \in 1 .. n /\ 0 \in 0 .. n
    OBVIOUS
  <2>2. P(0)
    BY <2>1
  <2> QED
    BY <2>1, <2>2
<1>2. ASSUME NEW m \in 1 .. n, m - 1 \in B
      PROVE  m \in B
  <2>1. PICK i \in 1 .. n, j \in 1 .. n : \A k \in 1 .. m - 1 : f[i] <= f[k] /\ f[k] <= f[j]
    BY <1>2
  <2>2. f[i] \in Nat /\ f[j] \in Nat /\ f[m] \in Nat
    OBVIOUS
  <2>3. \A k \in 1 .. m : (k \in 1 .. m - 1 \/ k = m) /\ f[k] \in Nat
    OBVIOUS
  <2> DEFINE a == IF f[m] < f[i] THEN m ELSE i
             b == IF f[j] < f[m] THEN m ELSE j
  <2>4. a \in 1 .. n /\ b \in 1 .. n /\ f[a] \in Nat /\ f[b] \in Nat
        /\ f[a] <= f[i] /\ f[a] <= f[m] /\ f[j] <= f[b] /\ f[m] <= f[b]
    BY <2>2
  <2> HIDE DEF a, b
  <2>5. ASSUME NEW k \in 1 .. m
        PROVE  f[a] <= f[k] /\ f[k] <= f[b]
    <3>1. CASE k = m
      BY <2>4, <3>1
    <3>2. CASE k \in 1 .. m - 1
      BY <2>1, <2>2, <2>3, <2>4, <3>2
    <3> QED
      BY <2>3, <3>1, <3>2
  <2>6. \A k \in 1 .. m : f[a] <= f[k] /\ f[k] <= f[b]
    BY <2>5
  <2>7. P(m)
    BY <2>4, <2>6, Zenon
  <2>8. m \in 0 .. n
    OBVIOUS
  <2> QED
    BY <2>7, <2>8
<1> HIDE DEF B
<1>3. n \in B
  <2>1. \A m \in 0 .. n : m \in B
    BY <1>1, <1>2, UpTo
  <2> QED
    BY <2>1
<1> QED
  BY <1>3 DEF B

\* The least and the greatest of a set of numbers that has them.
LEMMA LeastGreatest ==
  ASSUME NEW S \in SUBSET Nat, NEW a \in S, NEW b \in S, \A x \in S : a <= x /\ x <= b
  PROVE  Min(S) = a /\ Max(S) = b
<1>1. a \in Nat /\ b \in Nat /\ \A x \in S : x \in Nat
  OBVIOUS
<1>2. Min(S) = a
  <2> DEFINE m == CHOOSE x \in S : \A y \in S : x =< y
  <2>1. m \in S /\ \A y \in S : m =< y
    OBVIOUS
  <2> HIDE DEF m
  <2>2. m = a
    BY <1>1, <2>1
  <2> QED
    BY <2>2 DEF Min, m
<1>3. Max(S) = b
  <2> DEFINE m == CHOOSE x \in S : \A y \in S : x >= y
  <2>1. \E x \in S : \A y \in S : x >= y
    BY <1>1
  <2>2. m \in S /\ \A y \in S : m >= y
    BY <2>1
  <2> HIDE DEF m
  <2>3. m = b
    BY <1>1, <2>2
  <2> QED
    BY <2>3 DEF Max, m
<1> QED
  BY <1>2, <1>3

SigsOver(X) == [ps : Seq(X), variadic : BOOLEAN, throws : BOOLEAN, hasRet : BOOLEAN, r : X]

\* The shortest and the longest parameter list of signatures.
LEMMA LenFacts ==
  ASSUME NEW X, NEW sigs \in Seq(SigsOver(X)), Len(sigs) > 0
  PROVE  /\ MinLen(sigs) \in Nat /\ MaxLen(sigs) \in Nat
         /\ \A k \in 1 .. Len(sigs) : MinLen(sigs) <= Len(sigs[k].ps) /\ Len(sigs[k].ps) <= MaxLen(sigs)
         /\ \E k \in 1 .. Len(sigs) : Len(sigs[k].ps) = MinLen(sigs)
         /\ \E k \in 1 .. Len(sigs) : Len(sigs[k].ps) = MaxLen(sigs)
<1> DEFINE n == Len(sigs)
           f == [k \in 1 .. n |-> Len(sigs[k].ps)]
           S == {Len(sigs[k].ps) : k \in DOMAIN sigs}
<1>1. n \in Nat /\ n # 0 /\ DOMAIN sigs = 1 .. n
  OBVIOUS
<1>2. f \in [1 .. n -> Nat]
  BY DEF SigsOver
<1>3. \A x : x \in S <=> \E k \in 1 .. n : x = f[k]
  BY <1>1
<1>4. \A k \in 1 .. n : f[k] = Len(sigs[k].ps)
  OBVIOUS
<1>5. MinLen(sigs) = Min(S) /\ MaxLen(sigs) = Max(S)
  BY DEF MinLen, MaxLen
<1> HIDE DEF S, f, n
<1>6. PICK i \in 1 .. n, j \in 1 .. n : \A k \in 1 .. n : f[i] <= f[k] /\ f[k] <= f[j]
  BY <1>1, <1>2, Extremes
<1>7. S \in SUBSET Nat /\ f[i] \in S /\ f[j] \in S /\ \A x \in S : f[i] <= x /\ x <= f[j]
  BY <1>2, <1>3, <1>6
<1>8. Min(S) = f[i] /\ Max(S) = f[j]
  BY <1>7, LeastGreatest
<1> QED
  BY <1>2, <1>4, <1>5, <1>6, <1>8 DEF n

\* Common, step by step; X is what the common type of two of them is one of.
CommonStep(ts, i, t) == CommonType(t, ts[i + 1])
CommonRun(f, X, ts) ==
    /\ f \in [0 .. Len(ts) - 1 -> X] /\ f[0] = ts[1] /\ Common(ts) = f[Len(ts) - 1]
    /\ \A i \in 1 .. Len(ts) - 1 : f[i] = CommonStep(ts, i, f[i-1])
LEMMA CommonUnfolds ==
  ASSUME NEW X, NEW ts \in Seq(X), Len(ts) > 0, \A a, b \in X : CommonType(a, b) \in X
  PROVE  \E f : CommonRun(f, X, ts)
<1> DEFINE n == Len(ts) - 1
           D == X
           G == [p \in (1 .. n) \X D |-> CommonStep(ts, p[1], p[2])]
           z == ts[1]
           Is(f) == f = [i \in 0 .. Len(ts) - 1 |-> IF i = 0 THEN ts[1] ELSE CommonType(f[i-1], ts[i+1])]
<1>1. n \in Nat /\ z \in D
  OBVIOUS
<1>2. \A i \in 1 .. n, v \in D : CommonStep(ts, i, v) \in D
  BY DEF CommonStep
<1>3. G \in [(1 .. n) \X D -> D] /\ \A i \in 1 .. n, v \in D : G[<<i, v>>] = CommonStep(ts, i, v)
  BY <1>2
<1> HIDE DEF G, D, z, n
<1>4. PICK f : Steps(f, n, D, z, G)
  BY <1>1, <1>3, StepsExist
<1>5. f = [i \in 0 .. n |-> f[i]] /\ f[0] = z /\ \A i \in 1 .. n : f[i] = CommonStep(ts, i, f[i-1])
  <2>1. \A i \in 1 .. n : i - 1 \in 0 .. n
    BY <1>1
  <2> QED
    BY <1>3, <1>4, <2>1 DEF Steps
<1>6. Is(f)
  <2>1. ASSUME NEW i \in 0 .. n
        PROVE  f[i] = IF i = 0 THEN ts[1] ELSE CommonType(f[i-1], ts[i+1])
    <3>1. i = 0 \/ i \in 1 .. n
      BY <1>1
    <3> QED
      BY <3>1, <1>5 DEF CommonStep, z
  <2> QED
    BY <1>5, <2>1 DEF n
<1>7. PICK h : Is(h) /\ Common(ts) = h[Len(ts) - 1]
  <2>1. Common(ts) = (CHOOSE h : Is(h))[Len(ts) - 1]
    BY Zenon DEF Common
  <2>2. Is(CHOOSE h : Is(h))
    BY <1>6, Zenon
  <2> QED
    BY <2>1, <2>2, Zenon
<1>8. h = [i \in 0 .. n |-> h[i]]
  BY <1>7 DEF n
<1>9. h[0] = z /\ \A i \in 1 .. n : h[i] = CommonStep(ts, i, h[i-1])
  <2>1. ASSUME NEW i \in 0 .. n
        PROVE  h[i] = IF i = 0 THEN z ELSE CommonStep(ts, i, h[i-1])
    BY <1>7 DEF CommonStep, n, z
  <2>2. 0 \in 0 .. n /\ \A i \in 1 .. n : i \in 0 .. n /\ i # 0
    BY <1>1
  <2> QED
    BY <2>1, <2>2
<1>10. h[0] \in D /\ \A i \in 1 .. n : h[i-1] \in D => h[i] \in D
  BY <1>1, <1>2, <1>9
<1>11. h \in [0 .. n -> D]
  BY <1>1, <1>8, <1>10, StepsIn
<1> QED
  BY <1>7, <1>9, <1>11 DEF D, n, z, CommonRun

\* The common type of types is one of X, if X has that of any two of its own.
LEMMA CommonIn ==
  ASSUME NEW X, NEW ts \in Seq(X), Len(ts) > 0, \A a, b \in X : CommonType(a, b) \in X
  PROVE  Common(ts) \in X
<1>1. PICK f : CommonRun(f, X, ts)
  BY CommonUnfolds
<1>2. Len(ts) - 1 \in Nat
  OBVIOUS
<1> QED
  BY <1>1, <1>2 DEF CommonRun

\* The common type of one type, over and over.
LEMMA CommonSame ==
  ASSUME NEW x, NEW ts \in Seq({x}), Len(ts) > 0
  PROVE  Common(ts) = x
<1>1. \A a, b \in {x} : CommonType(a, b) \in {x}
  BY DEF CommonType
<1>2. Common(ts) \in {x}
  BY <1>1, CommonIn
<1> QED
  BY <1>2

\* What one signature adds to the i-th parameters.
Part(sigs, i, k) == IF i <= MinLen(sigs) THEN <<sigs[k].ps[i]>> ELSE SubSeq(sigs[k].ps, i, Len(sigs[k].ps))
LEMMA PartFacts ==
  ASSUME NEW X, NEW sigs \in Seq(SigsOver(X)), Len(sigs) > 0, NEW i \in Nat \ {0}, NEW k \in 1 .. Len(sigs)
  PROVE  /\ Part(sigs, i, k) \in Seq(X)
         /\ i <= Len(sigs[k].ps) => sigs[k].ps[i] \in ToSet(Part(sigs, i, k))
         /\ i <= MinLen(sigs) => ToSet(Part(sigs, i, k)) = {sigs[k].ps[i]}
<1> DEFINE ps == sigs[k].ps
           s == SubSeq(ps, i, Len(ps))
<1>1. ps \in Seq(X) /\ Len(ps) \in Nat /\ \A j \in 1 .. Len(ps) : ps[j] \in X
  <2>1. sigs[k] \in SigsOver(X)
    OBVIOUS
  <2>2. ps \in Seq(X)
    BY <2>1 DEF SigsOver
  <2> HIDE DEF ps
  <2> QED
    BY <2>2
<1>2. MinLen(sigs) \in Nat /\ MinLen(sigs) <= Len(ps)
  BY LenFacts
<1>3. Part(sigs, i, k) = IF i <= MinLen(sigs) THEN <<ps[i]>> ELSE s
  BY DEF Part
<1> HIDE DEF ps
<1>4. CASE i <= MinLen(sigs)
  <2>1. ps[i] \in X
    BY <1>1, <1>2, <1>4
  <2>2. Part(sigs, i, k) = <<ps[i]>> /\ ToSet(<<ps[i]>>) = {ps[i]}
    BY <1>3, <1>4 DEF ToSet
  <2> QED
    BY <2>1, <2>2 DEF ps
<1>5. CASE i > MinLen(sigs)
  <2>1. \A j \in i .. Len(ps) : ps[j] \in X
    BY <1>1
  <2>2. s \in Seq(X) /\ Len(s) = (IF i <= Len(ps) THEN Len(ps) - i + 1 ELSE 0)
          /\ \A j \in 1 .. Len(ps) - i + 1 : s[j] = ps[i + j - 1]
    BY <1>1, <2>1, SubSeqProperties
  <2>3. Part(sigs, i, k) = s
    BY <1>2, <1>3, <1>5
  <2>4. ASSUME i <= Len(ps)
        PROVE  ps[i] \in ToSet(s)
    <3>1. 1 \in 1 .. Len(ps) - i + 1 /\ 1 \in 1 .. Len(s) /\ i + 1 - 1 = i
      BY <1>1, <2>2, <2>4
    <3>2. s[1] = ps[i]
      BY <2>2, <3>1
    <3> HIDE DEF s
    <3> QED
      BY <2>2, <3>1, <3>2, ToSetFacts
  <2> HIDE DEF s
  <2> QED
    BY <1>2, <1>5, <2>2, <2>3, <2>4 DEF ps
<1> QED
  BY <1>2, <1>4, <1>5

LEMMA SlotFacts ==
  ASSUME NEW X, NEW sigs \in Seq(SigsOver(X)), Len(sigs) > 0, NEW i \in 1 .. LastSlot(sigs)
  PROVE  /\ Slot(sigs, i) \in Seq(X) /\ Len(Slot(sigs, i)) > 0
         /\ i <= MinLen(sigs) => \A y \in ToSet(Slot(sigs, i)) : \E k \in 1 .. Len(sigs) : y = sigs[k].ps[i]
<1> DEFINE n == Len(sigs)
           ss == [k \in 1 .. n |-> Part(sigs, i, k)]
<1>1. n \in Nat /\ DOMAIN sigs = 1 .. n /\ n > 0
  OBVIOUS
<1>2. Slot(sigs, i) = FlattenSeq(ss)
  BY <1>1 DEF Slot, Part
<1>3. /\ MinLen(sigs) \in Nat /\ MaxLen(sigs) \in Nat /\ MinLen(sigs) <= MaxLen(sigs)
      /\ \A k \in 1 .. n : MinLen(sigs) <= Len(sigs[k].ps)
      /\ \E k \in 1 .. n : Len(sigs[k].ps) = MaxLen(sigs)
  BY LenFacts
<1>4. i \in Nat \ {0} /\ i <= MaxLen(sigs)
  BY <1>3 DEF LastSlot
<1>5. /\ \A k \in 1 .. n : Part(sigs, i, k) \in Seq(X)
      /\ \A k \in 1 .. n : i <= Len(sigs[k].ps) => sigs[k].ps[i] \in ToSet(Part(sigs, i, k))
      /\ i <= MinLen(sigs) => \A k \in 1 .. n : ToSet(Part(sigs, i, k)) = {sigs[k].ps[i]}
  BY <1>1, <1>4, PartFacts
<1>6. ss \in Seq(Seq(X)) /\ Len(ss) = n /\ \A k \in 1 .. n : ss[k] = Part(sigs, i, k)
  BY <1>1, <1>5
<1> HIDE DEF ss, n
<1>7. FlattenSeq(ss) \in Seq(X) /\ \A y : y \in ToSet(FlattenSeq(ss)) <=> \E k \in 1 .. n : y \in ToSet(Part(sigs, i, k))
  BY <1>6, FlattenFacts
<1>8. PICK k \in 1 .. n : i <= Len(sigs[k].ps)
  BY <1>3, <1>4
<1>9. sigs[k].ps[i] \in ToSet(FlattenSeq(ss))
  BY <1>5, <1>7, <1>8
<1>10. Len(FlattenSeq(ss)) > 0
  <2> DEFINE fl == FlattenSeq(ss)
             y == sigs[k].ps[i]
  <2>1. fl \in Seq(X)
    BY <1>7
  <2>2. y \in ToSet(fl)
    BY <1>9
  <2> HIDE DEF fl, y
  <2>3. \E j \in 1 .. Len(fl) : fl[j] = y
    BY <2>1, <2>2, ToSetFacts
  <2>4. Len(fl) > 0
    BY <2>1, <2>3
  <2> QED
    BY <2>4 DEF fl
<1> QED
  BY <1>2, <1>5, <1>7, <1>10 DEF n

\* Combining signatures makes one, of as many parameters as LastSlot says.
LEMMA CombineTyped ==
  ASSUME NEW X, \A a, b \in X : CommonType(a, b) \in X, NEW sigs \in Seq(SigsOver(X)), Len(sigs) > 0
  PROVE  Combine(sigs) \in SigsOver(X) /\ LastSlot(sigs) \in Nat /\ Len(Combine(sigs).ps) = LastSlot(sigs)
<1> DEFINE ps == [i \in 1 .. LastSlot(sigs) |-> Common(Slot(sigs, i))]
           rs == [i \in DOMAIN sigs |-> sigs[i].r]
<1>1. LastSlot(sigs) \in Nat
  BY LenFacts DEF LastSlot
<1>2. \A i \in 1 .. LastSlot(sigs) : Common(Slot(sigs, i)) \in X
  BY SlotFacts, CommonIn
<1>3. ps \in Seq(X) /\ Len(ps) = LastSlot(sigs)
  BY <1>1, <1>2
<1>4. Common(rs) \in X
  <2>1. rs \in Seq(X) /\ Len(rs) = Len(sigs)
    <3>1. DOMAIN sigs = 1 .. Len(sigs) /\ Len(sigs) \in Nat
      OBVIOUS
    <3>2. \A k \in 1 .. Len(sigs) : sigs[k].r \in X
      <4> TAKE k \in 1 .. Len(sigs)
      <4>1. sigs[k] \in SigsOver(X)
        OBVIOUS
      <4> QED
        BY <4>1 DEF SigsOver
    <3> QED
      BY <3>1, <3>2
  <2> HIDE DEF rs
  <2> QED
    BY <2>1, CommonIn
<1> HIDE DEF ps, rs
<1>5. /\ Combine(sigs).ps = ps /\ Combine(sigs).r = Common(rs)
      /\ Combine(sigs) = [ps |-> Combine(sigs).ps, variadic |-> Combine(sigs).variadic, throws |-> Combine(sigs).throws,
                          hasRet |-> Combine(sigs).hasRet, r |-> Combine(sigs).r]
      /\ Combine(sigs).variadic \in BOOLEAN /\ Combine(sigs).throws \in BOOLEAN /\ Combine(sigs).hasRet \in BOOLEAN
  BY DEF Combine, ps, rs
<1> QED
  BY <1>1, <1>3, <1>4, <1>5 DEF SigsOver

\* Combining a signature with itself changes nothing.
LEMMA CombineSame ==
  ASSUME NEW X, NEW s \in SigsOver(X)
  PROVE  Combine(<<s, s>>) = s
<1> DEFINE sigs == <<s, s>>
<1>1. sigs \in Seq(SigsOver(X)) /\ Len(sigs) = 2 /\ sigs[1] = s /\ sigs[2] = s /\ DOMAIN sigs = 1 .. 2
  OBVIOUS
<1>2. s.ps \in Seq(X) /\ s.r \in X /\ s.variadic \in BOOLEAN /\ s.throws \in BOOLEAN /\ s.hasRet \in BOOLEAN
  BY DEF SigsOver
<1>3. s = [ps |-> s.ps, variadic |-> s.variadic, throws |-> s.throws, hasRet |-> s.hasRet, r |-> s.r]
  BY DEF SigsOver
<1> HIDE DEF sigs
<1>4. \A k \in 1 .. 2 : sigs[k] = s
  BY <1>1
<1>5. Len(sigs) > 0
  BY <1>1
<1>6. MinLen(sigs) = Len(s.ps) /\ MaxLen(sigs) = Len(s.ps) /\ LastSlot(sigs) = Len(s.ps)
  <2>1. MinLen(sigs) = Len(s.ps) /\ MaxLen(sigs) = Len(s.ps)
    BY <1>1, <1>4, <1>5, LenFacts
  <2> QED
    BY <2>1 DEF LastSlot
<1>7. [i \in 1 .. LastSlot(sigs) |-> Common(Slot(sigs, i))] = s.ps
  <2>1. ASSUME NEW i \in 1 .. LastSlot(sigs)
        PROVE  Common(Slot(sigs, i)) = s.ps[i]
    <3> DEFINE sl == Slot(sigs, i)
    <3>1. sl \in Seq(X)
      BY <1>1, <1>5, SlotFacts
    <3>2. Len(sl) > 0 /\ (i <= MinLen(sigs) => \A y \in ToSet(sl) : \E k \in 1 .. Len(sigs) : y = sigs[k].ps[i])
      BY <1>1, <1>5, SlotFacts
    <3>3. i <= MinLen(sigs)
      BY <1>2, <1>6
    <3>4. \A y \in ToSet(sl) : y = s.ps[i]
      BY <1>1, <1>4, <3>2, <3>3
    <3> HIDE DEF sl
    <3>5. ToSet(sl) \subseteq {s.ps[i]}
      BY <3>4
    <3>6. sl \in Seq({s.ps[i]})
      BY <3>1, <3>5, SeqSubset
    <3> QED
      BY <3>2, <3>6, CommonSame DEF sl
  <2>2. s.ps = [i \in 1 .. Len(s.ps) |-> s.ps[i]]
    BY <1>2
  <2> QED
    BY <1>6, <2>1, <2>2
<1>8. Common([i \in DOMAIN sigs |-> sigs[i].r]) = s.r
  <2> DEFINE rs == [i \in DOMAIN sigs |-> sigs[i].r]
             x == s.r
  <2>1. rs \in Seq({x})
    BY <1>1, <1>4
  <2>2. Len(rs) = 2
    BY <1>1
  <2> HIDE DEF rs, x
  <2>3. Len(rs) > 0
    BY <2>2
  <2>4. Common(rs) = x
    BY <2>1, <2>3, CommonSame
  <2> QED
    BY <2>4 DEF rs, x
<1>9. (MinLen(sigs) # MaxLen(sigs) \/ \E i \in DOMAIN sigs : i > 1 /\ sigs[i].variadic) = s.variadic
  BY <1>1, <1>2, <1>6
<1>10. (\E i \in DOMAIN sigs : sigs[i].throws) = s.throws /\ (\E i \in DOMAIN sigs : sigs[i].hasRet) = s.hasRet
  <2>1. (\E i \in DOMAIN sigs : sigs[i].throws) <=> s.throws
    BY <1>1, <1>4
  <2>2. (\E i \in DOMAIN sigs : sigs[i].hasRet) <=> s.hasRet
    BY <1>1, <1>4
  <2> QED
    BY <1>2, <2>1, <2>2
<1>11. Combine(sigs) = s
  BY <1>3, <1>7, <1>8, <1>9, <1>10, Zenon DEF Combine
<1> QED
  BY <1>11 DEF sigs

\* CombineAll, step by step.
CombineStep(sigs, i, s) == Combine(<<s, sigs[i + 1]>>)
CombineRun(f, X, sigs) ==
    /\ f \in [0 .. Len(sigs) - 1 -> X] /\ f[0] = sigs[1] /\ CombineAll(sigs) = f[Len(sigs) - 1]
    /\ \A i \in 1 .. Len(sigs) - 1 : f[i] = CombineStep(sigs, i, f[i-1])
LEMMA CombineUnfolds ==
  ASSUME NEW X, NEW sigs \in Seq(X), Len(sigs) > 0, \A a, b \in X : Combine(<<a, b>>) \in X
  PROVE  \E f : CombineRun(f, X, sigs)
<1> DEFINE n == Len(sigs) - 1
           D == X
           G == [p \in (1 .. n) \X D |-> CombineStep(sigs, p[1], p[2])]
           z == sigs[1]
           Is(f) == f = [i \in 0 .. Len(sigs) - 1 |-> IF i = 0 THEN sigs[1] ELSE Combine(<<f[i-1], sigs[i+1]>>)]
<1>1. n \in Nat /\ z \in D
  OBVIOUS
<1>2. \A i \in 1 .. n, v \in D : CombineStep(sigs, i, v) \in D
  BY DEF CombineStep
<1>3. G \in [(1 .. n) \X D -> D] /\ \A i \in 1 .. n, v \in D : G[<<i, v>>] = CombineStep(sigs, i, v)
  BY <1>2
<1> HIDE DEF G, D, z, n
<1>4. PICK f : Steps(f, n, D, z, G)
  BY <1>1, <1>3, StepsExist
<1>5. f = [i \in 0 .. n |-> f[i]] /\ f[0] = z /\ \A i \in 1 .. n : f[i] = CombineStep(sigs, i, f[i-1])
  <2>1. \A i \in 1 .. n : i - 1 \in 0 .. n
    BY <1>1
  <2> QED
    BY <1>3, <1>4, <2>1 DEF Steps
<1>6. Is(f)
  <2>1. ASSUME NEW i \in 0 .. n
        PROVE  f[i] = IF i = 0 THEN sigs[1] ELSE Combine(<<f[i-1], sigs[i+1]>>)
    <3>1. i = 0 \/ i \in 1 .. n
      BY <1>1
    <3> QED
      BY <3>1, <1>5 DEF CombineStep, z
  <2> QED
    BY <1>5, <2>1 DEF n
<1>7. PICK h : Is(h) /\ CombineAll(sigs) = h[Len(sigs) - 1]
  <2>1. CombineAll(sigs) = (CHOOSE h : Is(h))[Len(sigs) - 1]
    BY Zenon DEF CombineAll
  <2>2. Is(CHOOSE h : Is(h))
    BY <1>6, Zenon
  <2> QED
    BY <2>1, <2>2, Zenon
<1>8. h = [i \in 0 .. n |-> h[i]]
  BY <1>7 DEF n
<1>9. h[0] = z /\ \A i \in 1 .. n : h[i] = CombineStep(sigs, i, h[i-1])
  <2>1. ASSUME NEW i \in 0 .. n
        PROVE  h[i] = IF i = 0 THEN z ELSE CombineStep(sigs, i, h[i-1])
    BY <1>7 DEF CombineStep, n, z
  <2>2. 0 \in 0 .. n /\ \A i \in 1 .. n : i \in 0 .. n /\ i # 0
    BY <1>1
  <2> QED
    BY <2>1, <2>2
<1>10. h[0] \in D /\ \A i \in 1 .. n : h[i-1] \in D => h[i] \in D
  BY <1>1, <1>2, <1>9
<1>11. h \in [0 .. n -> D]
  BY <1>1, <1>8, <1>10, StepsIn
<1> QED
  BY <1>7, <1>9, <1>11 DEF D, n, z, CombineRun

\* All signatures together make one of X, if any two of X do.
LEMMA CombineAllIn ==
  ASSUME NEW X, NEW sigs \in Seq(X), Len(sigs) > 0, \A a, b \in X : Combine(<<a, b>>) \in X
  PROVE  CombineAll(sigs) \in X
<1>1. PICK f : CombineRun(f, X, sigs)
  BY CombineUnfolds
<1>2. Len(sigs) - 1 \in Nat
  OBVIOUS
<1> QED
  BY <1>1, <1>2 DEF CombineRun

\* Types that the signatures of imported classes are made of.  Only if java.lang.Object
\* has no descriptor can commonType be left without a type.
GoodTypes == (IF Object \in DOMAIN clsMap THEN {t \in Types : IsClass(t) => t \in DOMAIN clsMap} ELSE Types \cup {Panic})
               \cup DOMAIN clsMap
Sigs == SigsOver(GoodTypes)

\* The common type of two such types is one.
LEMMA CommonTypeGood ==
  ASSUME AllLinked
  PROVE  \A a, b \in GoodTypes : CommonType(a, b) \in GoodTypes
<1> SUFFICES ASSUME NEW a \in GoodTypes, NEW b \in GoodTypes
             PROVE  CommonType(a, b) \in GoodTypes
  OBVIOUS
<1> DEFINE both == Keep(Levels(b), ToSet(Levels(a)))
<1>1. CASE a = b
  BY <1>1 DEF CommonType
<1>2. CASE a # b /\ Panic \in {a, b}
  <2>1. CommonType(a, b) = Panic
    BY <1>2 DEF CommonType
  <2> QED
    BY <1>2, <2>1
<1>3. CASE a # b /\ Panic \notin {a, b} /\ ~(IsClass(a) /\ IsClass(b))
  <2>1. CommonType(a, b) = <<>>
    BY <1>3 DEF CommonType
  <2>2. <<>> \in Types /\ ~IsClass(<<>>)
    BY DEF Types, Panic, IsClass
  <2> QED
    BY <2>1, <2>2 DEF GoodTypes
<1>4. CASE a # b /\ Panic \notin {a, b} /\ IsClass(a) /\ IsClass(b)
  <2>1. CommonType(a, b) = IF ~({a, b} \subseteq DOMAIN clsMap) THEN Panic ELSE IF both = <<>> THEN Object ELSE both[1]
    BY <1>4 DEF CommonType
  <2>2. CASE ~({a, b} \subseteq DOMAIN clsMap)
    <3>1. Object \notin DOMAIN clsMap
      BY <1>4, <2>2 DEF GoodTypes
    <3> QED
      BY <2>1, <2>2, <3>1 DEF GoodTypes
  <2>3. CASE {a, b} \subseteq DOMAIN clsMap /\ both = <<>>
    <3>1. CommonType(a, b) = Object
      BY <2>1, <2>3
    <3> QED
      BY <3>1, RootAssumption DEF GoodTypes
  <2>4. CASE {a, b} \subseteq DOMAIN clsMap /\ both # <<>>
    <3>1. both \in Seq(DOMAIN clsMap)
      BY <2>4, LevelsFacts, KeepFacts
    <3> HIDE DEF both
    <3>2. both[1] \in DOMAIN clsMap
      BY <2>4, <3>1
    <3> QED
      BY <2>1, <2>4, <3>2 DEF GoodTypes
  <2> QED
    BY <2>2, <2>3, <2>4
<1> QED
  BY <1>1, <1>2, <1>3, <1>4

\* No type of such a signature is missing, if java.lang.Object is not.
LEMMA GoodNotPanic ==
  ASSUME Imported, Object \in DOMAIN clsMap, NEW s \in Sigs
  PROVE  Panic \notin TypesOf(s) /\ ClassesIn(s) \subseteq DOMAIN clsMap
<1>1. Panic \notin GoodTypes /\ \A t \in GoodTypes : IsClass(t) => t \in DOMAIN clsMap
  <2>1. \A c \in DOMAIN clsMap : IsClass(c)
    BY ClassFacts
  <2>2. ~IsClass(Panic)
    BY DEF IsClass, Panic
  <2> QED
    BY <2>1, <2>2 DEF GoodTypes, Types
<1>2. s.ps \in Seq(GoodTypes) /\ s.r \in GoodTypes
  BY DEF Sigs, SigsOver
<1>3. TypesOf(s) \subseteq GoodTypes
  BY <1>2, ToSetFacts DEF TypesOf
<1> QED
  BY <1>1, <1>3 DEF ClassesIn

\* The signature of one function of an imported class.
LEMMA CommonSigTyped ==
  ASSUME NEW f \in Funcs, ImplicitFuncTypes(f) \subseteq DOMAIN clsMap
  PROVE  CommonSig(f) \in Sigs
<1>1. f.ps \in Seq(Types) /\ f.r \in Types /\ f.thr \in BOOLEAN
  BY DEF Funcs
<1>2. ASSUME NEW t \in Types, t \in ToSet(f.ps) \cup {f.r}
      PROVE  t \in GoodTypes
  BY <1>2 DEF ImplicitFuncTypes, GoodTypes
<1>3. f.ps \in Seq(GoodTypes)
  <2> DEFINE ps == f.ps
  <2>1. ps \in Seq(Types)
    BY <1>1
  <2>2. \A t \in ToSet(ps) : t \in Types
    BY <2>1, ToSetFacts
  <2>3. ToSet(ps) \subseteq GoodTypes
    BY <1>2, <2>2
  <2> HIDE DEF ps
  <2>4. ps \in Seq(GoodTypes)
    BY <2>1, <2>3, SeqSubset
  <2> QED
    BY <2>4 DEF ps
<1>4. f.r \in GoodTypes
  BY <1>1, <1>2
<1> QED
  BY <1>1, <1>3, <1>4 DEF CommonSig, Sigs, SigsOver

\* The overloads that a signature is for.
VariantsIn(fs, n) == {f \in ToSet(fs) : f.n = n}
LEMMA VariantsFacts ==
  ASSUME NEW fs \in Seq(Funcs), NEW n
  PROVE  /\ Variants(fs, n) \in Seq(Funcs)
         /\ ToSet(Variants(fs, n)) = VariantsIn(fs, n)
         /\ n \in NamesOf(fs) => Len(Variants(fs, n)) > 0
<1> DEFINE vs == Variants(fs, n)
<1>1. vs \in Seq(Funcs) /\ \A y : y \in ToSet(vs) <=> y \in ToSet(fs) /\ y \in {f \in ToSet(fs) : f.n = n}
  BY KeepFacts DEF Variants
<1>2. ToSet(vs) = VariantsIn(fs, n)
  <2>1. \A y : y \in ToSet(vs) <=> y \in VariantsIn(fs, n)
    BY <1>1 DEF VariantsIn
  <2> QED
    BY <2>1
<1>3. vs \in Seq(Funcs)
  BY <1>1
<1> HIDE DEF vs
<1>4. ASSUME n \in NamesOf(fs)
      PROVE  Len(vs) > 0
  <2>1. PICK f \in ToSet(vs) : TRUE
    BY <1>2, <1>4 DEF NamesOf, VariantsIn
  <2>2. \E i \in 1 .. Len(vs) : vs[i] = f
    BY <1>3, ToSetFacts
  <2> QED
    BY <1>3, <2>2
<1> QED
  BY <1>2, <1>3, <1>4 DEF vs

\* A signature has as many parameters as the shortest of the overloads V and, if there
\* are longer ones, one more for the rest of the arguments.
Spans(s, V) ==
    \E a, b \in Nat : /\ \A f \in V : a <= Len(f.ps) /\ Len(f.ps) <= b
                      /\ \E f \in V : Len(f.ps) = a
                      /\ \E f \in V : Len(f.ps) = b
                      /\ s.variadic <=> a # b
                      /\ Len(s.ps) = IF a = b THEN a ELSE a + 1
LEMMA SigOfFacts ==
  ASSUME AllLinked, NEW fs \in Seq(Funcs), \A f \in ToSet(fs) : ImplicitFuncTypes(f) \subseteq DOMAIN clsMap,
         NEW n \in NamesOf(fs)
  PROVE  /\ SigOf(fs, n) \in Sigs
         /\ Spans(SigOf(fs, n), VariantsIn(fs, n))
         /\ SigOf(fs, n).throws <=> \E f \in VariantsIn(fs, n) : f.thr
         /\ \A x : (\A f \in VariantsIn(fs, n) : f.r = x) => SigOf(fs, n).r = x
<1> DEFINE vs == Variants(fs, n)
           V == VariantsIn(fs, n)
           k == Len(vs)
           sigs == [i \in DOMAIN vs |-> CommonSig(vs[i])]
<1>1. vs \in Seq(Funcs) /\ ToSet(vs) = V /\ k > 0
  BY VariantsFacts
<1>2. \A f : f \in V <=> \E i \in 1 .. k : vs[i] = f
  <2>1. vs \in Seq(Funcs)
    BY <1>1
  <2> HIDE DEF vs, V
  <2>2. \A f : f \in ToSet(vs) <=> \E i \in 1 .. k : vs[i] = f
    BY <2>1, ToSetFacts
  <2> QED
    BY <1>1, <2>2
<1>3. DOMAIN vs = 1 .. k /\ k \in Nat
  BY <1>1
<1>4. \A i \in 1 .. k : vs[i] \in Funcs /\ CommonSig(vs[i]) \in Sigs
  <2> TAKE i \in 1 .. k
  <2>1. vs[i] \in V /\ vs[i] \in Funcs
    BY <1>1, <1>2
  <2>2. ImplicitFuncTypes(vs[i]) \subseteq DOMAIN clsMap
    BY <2>1 DEF VariantsIn
  <2> QED
    BY <2>1, <2>2, CommonSigTyped
<1>5. sigs \in Seq(Sigs) /\ Len(sigs) = k /\ \A i \in 1 .. k : sigs[i] = CommonSig(vs[i])
  BY <1>3, <1>4
<1>6. SigOf(fs, n) = Combine(sigs)
  BY DEF SigOf
<1> HIDE DEF sigs, vs, k, V
<1>7. sigs \in Seq(SigsOver(GoodTypes)) /\ Len(sigs) > 0
  BY <1>1, <1>5 DEF Sigs
<1>8. Combine(sigs) \in Sigs /\ Len(Combine(sigs).ps) = LastSlot(sigs)
  BY <1>7, CommonTypeGood, CombineTyped DEF Sigs
<1>9. /\ MinLen(sigs) \in Nat /\ MaxLen(sigs) \in Nat
      /\ \A i \in 1 .. Len(sigs) : MinLen(sigs) <= Len(sigs[i].ps) /\ Len(sigs[i].ps) <= MaxLen(sigs)
      /\ \E i \in 1 .. Len(sigs) : Len(sigs[i].ps) = MinLen(sigs)
      /\ \E i \in 1 .. Len(sigs) : Len(sigs[i].ps) = MaxLen(sigs)
  BY <1>7, LenFacts
<1>10. \A i \in 1 .. k : sigs[i].ps = vs[i].ps /\ sigs[i].variadic = FALSE /\ sigs[i].throws = vs[i].thr /\ sigs[i].r = vs[i].r
  BY <1>5 DEF CommonSig
<1>11. DOMAIN sigs = 1 .. k
  BY <1>5
<1>12. Spans(Combine(sigs), V)
  <2> DEFINE a == MinLen(sigs)
             b == MaxLen(sigs)
  <2>1. /\ \A f \in V : a <= Len(f.ps) /\ Len(f.ps) <= b
        /\ \E f \in V : Len(f.ps) = a
        /\ \E f \in V : Len(f.ps) = b
    BY <1>2, <1>5, <1>9, <1>10
  <2>2. Combine(sigs).variadic <=> a # b
    BY <1>10, <1>11 DEF Combine
  <2>3. Len(Combine(sigs).ps) = IF a = b THEN a ELSE a + 1
    BY <1>8 DEF LastSlot
  <2>4. a \in Nat /\ b \in Nat
    BY <1>9
  <2> HIDE DEF a, b
  <2> QED
    BY <2>1, <2>2, <2>3, <2>4 DEF Spans
<1>13. Combine(sigs).throws <=> \E f \in V : f.thr
  BY <1>2, <1>10, <1>11 DEF Combine
<1>14. ASSUME NEW x, \A f \in V : f.r = x
       PROVE  Combine(sigs).r = x
  <2> DEFINE rs == [i \in DOMAIN sigs |-> sigs[i].r]
  <2>1. \A i \in 1 .. k : sigs[i].r = x
    BY <1>2, <1>10, <1>14
  <2>2. rs \in Seq({x})
    BY <1>3, <1>11, <2>1
  <2>3. Len(rs) > 0
    BY <1>1, <1>3, <1>11
  <2>4. Combine(sigs).r = Common(rs)
    BY DEF Combine
  <2> HIDE DEF rs
  <2> QED
    BY <2>2, <2>3, <2>4, CommonSame
<1> QED
  BY <1>6, <1>8, <1>12, <1>13, <1>14 DEF V

-----------------------------------------------------------------------------
(* The signatures of the methods of each class. *)

LEMMA MetFacts ==
  ASSUME NEW A, NEW levels \in Seq(A), NEW d
  PROVE  Met(levels, d) \in Nat /\ (d \notin ToSet(levels) => Met(levels, d) = 0)
<1> DEFINE M == {j \in 2 .. Len(levels) : levels[j] = d}
<1>1. Len(levels) \in Nat /\ DOMAIN levels = 1 .. Len(levels)
  OBVIOUS
<1>2. IsFiniteSet(2 .. Len(levels))
  BY <1>1, FS_Interval
<1>3. IsFiniteSet(M)
  BY <1>2, FS_Subset
<1>4. Cardinality(M) \in Nat
  BY <1>3, FS_CardinalityType
<1>5. ASSUME d \notin ToSet(levels)
      PROVE  Cardinality(M) = 0
  <2>1. M = {}
    BY <1>1, <1>5 DEF ToSet
  <2> QED
    BY <2>1, FS_EmptySet
<1> QED
  BY <1>4, <1>5 DEF Met

\* A value put before copies of another.
LEMMA CopiesTyped ==
  ASSUME NEW X, NEW a \in X, NEW b, NEW n \in Nat, n > 0 => b \in X
  PROVE  LET s == <<a>> \o [j \in 1 .. n |-> b] IN s \in Seq(X) /\ Len(s) > 0
<1> DEFINE t == [j \in 1 .. n |-> b]
<1>1. t \in Seq(X)
  OBVIOUS
<1>2. <<a>> \in Seq(X) /\ Len(<<a>>) = 1
  OBVIOUS
<1> HIDE DEF t
<1>3. <<a>> \o t \in Seq(X) /\ Len(<<a>> \o t) = 1 + Len(t)
  BY <1>1, <1>2
<1>4. Len(t) \in Nat
  BY <1>1
<1> QED
  BY <1>3, <1>4 DEF t

\* Signatures of X stay signatures of X when they take in those of another class, if any
\* two of X together make one of X.
LEMMA WidenedIn ==
  ASSUME AllLinked, NEW c \in DOMAIN clsMap, NEW sg, NEW x \in DOMAIN sg, NEW X,
         x[2] \in NamesOf(clsMap[c].methods), sg[x] \in X,
         x[1] \in ToSet(Levels(c)) => sg[<<c, x[2]>>] \in X,
         \A a, b \in X : Combine(<<a, b>>) \in X
  PROVE  Widened(sg, c)[x] \in X
<1> DEFINE n == Met(Levels(c), x[1])
           a == sg[x]
           b == sg[<<c, x[2]>>]
           sigs == <<a>> \o [j \in 1 .. n |-> b]
<1>1. n \in Nat /\ (n > 0 => x[1] \in ToSet(Levels(c)))
  <2>1. Levels(c) \in Seq(DOMAIN clsMap)
    BY LevelsFacts
  <2> QED
    BY <2>1, MetFacts
<1>2. Widened(sg, c)[x] = CombineAll(sigs)
  BY DEF Widened
<1> HIDE DEF n, a, b
<1>3. a \in X /\ (n > 0 => b \in X)
  BY <1>1 DEF a, b
<1>4. sigs \in Seq(X) /\ Len(sigs) > 0
  BY <1>1, <1>3, CopiesTyped
<1> HIDE DEF sigs
<1> QED
  BY <1>2, <1>4, CombineAllIn

LEMMA WidenedRest ==
  ASSUME NEW c, NEW sg
  PROVE  /\ DOMAIN Widened(sg, c) = DOMAIN sg
         /\ Widened(sg, c) = [x \in DOMAIN sg |-> Widened(sg, c)[x]]
         /\ \A x \in DOMAIN sg : x[2] \notin NamesOf(clsMap[c].methods) => Widened(sg, c)[x] = sg[x]
  BY DEF Widened

LEMMA FilledFacts ==
  ASSUME NEW sg, NEW c
  PROVE  /\ DOMAIN Filled(sg, c) = DOMAIN sg
         /\ \A n \in NamesOf(clsMap[c].methods) :
              <<c, n>> \in DOMAIN sg => Filled(sg, c)[<<c, n>>] = SigOf(clsMap[c].methods, n)
         /\ \A x \in DOMAIN sg \ Own(c) : Filled(sg, c)[x] = sg[x]
         /\ \A x : x \in Own(c) <=> \E n \in NamesOf(clsMap[c].methods) : x = <<c, n>>
  BY DEF Filled, Own

\* Any two signatures make one.
LEMMA CombineGood ==
  ASSUME AllLinked
  PROVE  \A a, b \in Sigs : Combine(<<a, b>>) \in Sigs
<1> TAKE a, b \in Sigs
<1>1. <<a, b>> \in Seq(SigsOver(GoodTypes)) /\ Len(<<a, b>>) > 0
  BY DEF Sigs
<1> HIDE DEF Sigs
<1>2. Combine(<<a, b>>) \in SigsOver(GoodTypes)
  BY <1>1, CommonTypeGood, CombineTyped
<1> QED
  BY <1>2 DEF Sigs

\* The functions and methods of imported classes mention imported classes only.
LEMMA MembersLinked ==
  ASSUME AllLinked, NEW c \in DOMAIN clsMap
  PROVE  /\ clsMap[c].funcs \in Seq(Funcs) /\ \A f \in ToSet(clsMap[c].funcs) : ImplicitFuncTypes(f) \subseteq DOMAIN clsMap
         /\ clsMap[c].methods \in Seq(Funcs) /\ \A f \in ToSet(clsMap[c].methods) : ImplicitFuncTypes(f) \subseteq DOMAIN clsMap
<1>1. MemberTypes(clsMap[c]) \subseteq DOMAIN clsMap
  BY DEF AllLinked, Linked
<1>2. clsMap[c].funcs \in Seq(Funcs) /\ clsMap[c].methods \in Seq(Funcs)
  BY ClassFacts DEF AllLinked
<1> QED
  BY <1>1, <1>2 DEF MemberTypes

\* The signatures filled so far.
SigsFilled ==
    /\ stage \in {"import", "refer", "embed", "implicit", "failed"} => sig = <<>>
    /\ stage \notin {"import", "refer", "embed", "implicit", "failed"} => DOMAIN sig = OwnKeys
    /\ stage \in {"sigs", "ancestors", "names", "done"} => sig \in [OwnKeys -> Sigs]
    /\ stage = "ancestors" => todo = {}

\* The methods of a class have signatures to fill.
LEMMA OwnIn ==
  ASSUME NEW c \in DOMAIN clsMap
  PROVE  Own(c) \subseteq OwnKeys /\ \A n \in NamesOf(clsMap[c].methods) : <<c, n>> \in Own(c)
  BY DEF Own, OwnKeys

\* Filling the signatures of one more class gives signatures again.
LEMMA FilledWidened ==
  ASSUME AllLinked, sig \in [OwnKeys -> Sigs], NEW c \in DOMAIN clsMap
  PROVE  Widened(Filled(sig, c), c) \in [OwnKeys -> Sigs]
<1> DEFINE sg == Filled(sig, c)
<1>1. /\ DOMAIN sg = DOMAIN sig
      /\ \A n \in NamesOf(clsMap[c].methods) : <<c, n>> \in DOMAIN sig => sg[<<c, n>>] = SigOf(clsMap[c].methods, n)
      /\ \A x \in DOMAIN sig \ Own(c) : sg[x] = sig[x]
      /\ \A x : x \in Own(c) <=> \E n \in NamesOf(clsMap[c].methods) : x = <<c, n>>
  BY FilledFacts
<1> HIDE DEF sg
<1>2. \A x \in DOMAIN sg : sg[x] \in Sigs
  <2>1. \A n \in NamesOf(clsMap[c].methods) : SigOf(clsMap[c].methods, n) \in Sigs
    BY MembersLinked, SigOfFacts
  <2> QED
    BY <1>1, <2>1
<1>3. \A x \in DOMAIN sg : Widened(sg, c)[x] \in Sigs
  <2> TAKE x \in DOMAIN sg
  <2>1. CASE x[2] \notin NamesOf(clsMap[c].methods)
    BY <1>2, <2>1, WidenedRest
  <2>2. CASE x[2] \in NamesOf(clsMap[c].methods)
    <3>1. <<c, x[2]>> \in DOMAIN sg
      BY <1>1, <2>2, OwnIn
    <3>2. sg[x] \in Sigs /\ sg[<<c, x[2]>>] \in Sigs
      BY <1>2, <3>1
    <3> QED
      BY <2>2, <3>2, WidenedIn, CombineGood
  <2> QED
    BY <2>1, <2>2
<1>4. DOMAIN Widened(sg, c) = OwnKeys /\ Widened(sg, c) = [x \in DOMAIN sg |-> Widened(sg, c)[x]]
  BY <1>1, WidenedRest
<1>5. DOMAIN sg = OwnKeys
  BY <1>1
<1>6. Widened(sg, c) \in [OwnKeys -> Sigs]
  BY <1>3, <1>4, <1>5
<1> QED
  BY <1>6 DEF sg

LEMMA FillSigsFilled ==
  ASSUME Imported, SigsFilled, NEW c \in todo, FillSigs(c)
  PROVE  SigsFilled'
<1>1. /\ stage = "sigs" /\ sig' = Widened(Filled(sig, c), c) /\ todo' = todo \ {c}
      /\ UNCHANGED <<U, src, clsMap, classes, all, throwables>> /\ stage' \in {"sigs", "panicked"}
  BY DEF FillSigs
<1>2. AllLinked /\ c \in DOMAIN clsMap
  BY <1>1 DEF AllLinked, Imported, ImporterTypes
<1>3. sig \in [OwnKeys -> Sigs]
  BY <1>1 DEF SigsFilled
<1>4. sig' \in [OwnKeys -> Sigs]
  BY <1>1, <1>2, <1>3, FilledWidened
<1>5. Sigs' = Sigs /\ OwnKeys' = OwnKeys
  BY <1>1 DEF Sigs, GoodTypes, Own, OwnKeys
<1> QED
  BY <1>1, <1>4, <1>5 DEF SigsFilled

-----------------------------------------------------------------------------
(* The methods of each class and of its super classes. *)

\* Distinct, step by step.
DistinctStep(fs, i, k) == IF \E f \in ToSet(k) : Overrides(f, fs[i]) THEN k ELSE Append(k, fs[i])
DistinctRun(f, A, fs) ==
    /\ f \in [0 .. Len(fs) -> Seq(A)] /\ f[0] = <<>> /\ Distinct(fs) = f[Len(fs)]
    /\ \A i \in 1 .. Len(fs) : f[i] = DistinctStep(fs, i, f[i-1])
LEMMA DistinctUnfolds ==
  ASSUME NEW A, NEW fs \in Seq(A)
  PROVE  \E f : DistinctRun(f, A, fs)
<1> DEFINE n == Len(fs)
           D == Seq(A)
           G == [p \in (1 .. n) \X D |-> DistinctStep(fs, p[1], p[2])]
           z == <<>>
           Is(f) == f = [i \in 0 .. Len(fs) |->
                        IF i = 0 THEN <<>> ELSE LET k == f[i-1] IN IF \E e \in ToSet(k) : Overrides(e, fs[i]) THEN k ELSE Append(k, fs[i])]
<1>1. n \in Nat /\ z \in D
  OBVIOUS
<1>2. \A i \in 1 .. n, v \in D : DistinctStep(fs, i, v) \in D
  BY DEF DistinctStep
<1>3. G \in [(1 .. n) \X D -> D] /\ \A i \in 1 .. n, v \in D : G[<<i, v>>] = DistinctStep(fs, i, v)
  BY <1>2
<1> HIDE DEF G, D, z, n
<1>4. PICK f : Steps(f, n, D, z, G)
  BY <1>1, <1>3, StepsExist
<1>5. f = [i \in 0 .. n |-> f[i]] /\ f[0] = z /\ \A i \in 1 .. n : f[i] = DistinctStep(fs, i, f[i-1])
  <2>1. \A i \in 1 .. n : i - 1 \in 0 .. n
    BY <1>1
  <2> QED
    BY <1>3, <1>4, <2>1 DEF Steps
<1>6. Is(f)
  <2>1. ASSUME NEW i \in 0 .. n
        PROVE  f[i] = IF i = 0 THEN <<>> ELSE LET k == f[i-1] IN IF \E e \in ToSet(k) : Overrides(e, fs[i]) THEN k ELSE Append(k, fs[i])
    <3>1. i = 0 \/ i \in 1 .. n
      BY <1>1
    <3> QED
      BY <3>1, <1>5 DEF DistinctStep, z
  <2> QED
    BY <1>5, <2>1 DEF n
<1>7. PICK h : Is(h) /\ Distinct(fs) = h[Len(fs)]
  <2>1. Distinct(fs) = (CHOOSE h : Is(h))[Len(fs)]
    BY Zenon DEF Distinct
  <2>2. Is(CHOOSE h : Is(h))
    BY <1>6, Zenon
  <2> QED
    BY <2>1, <2>2, Zenon
<1>8. h = [i \in 0 .. n |-> h[i]]
  BY <1>7 DEF n
<1>9. h[0] = z /\ \A i \in 1 .. n : h[i] = DistinctStep(fs, i, h[i-1])
  <2>1. ASSUME NEW i \in 0 .. n
        PROVE  h[i] = IF i = 0 THEN z ELSE DistinctStep(fs, i, h[i-1])
    BY <1>7 DEF DistinctStep, n, z
  <2>2. 0 \in 0 .. n /\ \A i \in 1 .. n : i \in 0 .. n /\ i # 0
    BY <1>1
  <2> QED
    BY <2>1, <2>2
<1>10. h[0] \in D /\ \A i \in 1 .. n : h[i-1] \in D => h[i] \in D
  BY <1>1, <1>2, <1>9
<1>11. h \in [0 .. n -> D]
  BY <1>1, <1>8, <1>10, StepsIn
<1> QED
  BY <1>7, <1>9, <1>11 DEF D, n, z, DistinctRun

\* Distinct keeps one of the functions that override each other.
NoTwo(k) == \A i, j \in 1 .. Len(k) : Overrides(k[i], k[j]) => i = j
LEMMA DistinctFacts ==
  ASSUME NEW A, NEW fs \in Seq(A)
  PROVE  /\ Distinct(fs) \in Seq(A) /\ ToSet(Distinct(fs)) \subseteq ToSet(fs)
         /\ \A f \in ToSet(fs) : \E g \in ToSet(Distinct(fs)) : Overrides(g, f)
         /\ NoTwo(Distinct(fs))
<1> DEFINE n == Len(fs)
           Ok(i, k) == /\ \A f \in ToSet(k) : \E j \in 1 .. i : f = fs[j]
                       /\ \A j \in 1 .. i : \E g \in ToSet(k) : Overrides(g, fs[j])
                       /\ NoTwo(k)
<1>1. PICK f : DistinctRun(f, A, fs)
  BY DistinctUnfolds
<1>2. n \in Nat /\ f \in [0 .. n -> Seq(A)] /\ f[0] = <<>> /\ Distinct(fs) = f[n] /\ \A i \in 1 .. n : fs[i] \in A
  BY <1>1 DEF DistinctRun
<1>3. \A i \in 1 .. n : f[i] = DistinctStep(fs, i, f[i-1])
  BY <1>1 DEF DistinctRun
<1>4. \A x, y : Overrides(x, x) /\ (Overrides(x, y) <=> Overrides(y, x))
  BY DEF Overrides
<1> DEFINE B == {i \in 0 .. n : Ok(i, f[i])}
<1>5. 0 \in B
  <2>1. ToSet(<<>>) = {} /\ Len(<<>>) = 0
    BY DEF ToSet
  <2> QED
    BY <1>2, <2>1 DEF NoTwo
<1>6. ASSUME NEW i \in 1 .. n, i - 1 \in B
      PROVE  i \in B
  <2> DEFINE k == f[i-1]
             a == Append(k, fs[i])
  <2>1. i - 1 \in 0 .. n /\ i \in 0 .. n
    BY <1>2
  <2>2. k \in Seq(A)
    BY <1>2, <2>1
  <2>3. Ok(i - 1, k)
    BY <1>6
  <2>4. \A j \in 1 .. i : j \in 1 .. i - 1 \/ j = i
    OBVIOUS
  <2>5. \A j \in 1 .. i - 1 : j \in 1 .. i
    OBVIOUS
  <2>6. i \in 1 .. i
    OBVIOUS
  <2>7. f[i] = IF \E e \in ToSet(k) : Overrides(e, fs[i]) THEN k ELSE a
    BY <1>3 DEF DistinctStep
  <2> HIDE DEF k
  <2>8. CASE \E e \in ToSet(k) : Overrides(e, fs[i])
    <3>1. f[i] = k
      BY <2>7, <2>8
    <3>2. Ok(i, k)
      BY <2>3, <2>4, <2>5, <2>8
    <3> QED
      BY <2>1, <3>1, <3>2
  <2>9. CASE ~\E e \in ToSet(k) : Overrides(e, fs[i])
    <3>1. f[i] = a
      BY <2>7, <2>9
    <3>2. /\ Len(k) \in Nat /\ Len(a) = Len(k) + 1 /\ a[Len(k) + 1] = fs[i]
          /\ \A l \in 1 .. Len(k) : a[l] = k[l] /\ k[l] \in ToSet(k)
      BY <1>2, <2>2, ToSetFacts
    <3>3. \A y : y \in ToSet(a) <=> y \in ToSet(k) \/ y = fs[i]
      BY <1>2, <2>2, AppendFacts
    <3> HIDE DEF a
    <3>4. \A e \in ToSet(a) : \E j \in 1 .. i : e = fs[j]
      BY <2>3, <2>5, <2>6, <3>3
    <3>5. \A j \in 1 .. i : \E g \in ToSet(a) : Overrides(g, fs[j])
      BY <1>4, <2>3, <2>4, <3>3
    <3>6. NoTwo(a)
      <4> SUFFICES ASSUME NEW l \in 1 .. Len(a), NEW m \in 1 .. Len(a), Overrides(a[l], a[m])
                   PROVE  l = m
        BY DEF NoTwo
      <4>1. (l \in 1 .. Len(k) \/ l = Len(k) + 1) /\ (m \in 1 .. Len(k) \/ m = Len(k) + 1)
        BY <3>2
      <4>2. CASE l \in 1 .. Len(k) /\ m \in 1 .. Len(k)
        BY <2>3, <3>2, <4>2 DEF NoTwo
      <4>3. CASE l \in 1 .. Len(k) /\ m = Len(k) + 1
        BY <2>9, <3>2, <4>3
      <4>4. CASE l = Len(k) + 1 /\ m \in 1 .. Len(k)
        BY <1>4, <2>9, <3>2, <4>4
      <4> QED
        BY <4>1, <4>2, <4>3, <4>4
    <3> QED
      BY <2>1, <3>1, <3>4, <3>5, <3>6
  <2> QED
    BY <2>8, <2>9
<1> HIDE DEF B
<1>7. n \in B
  <2>1. \A i \in 0 .. n : i \in B
    BY <1>2, <1>5, <1>6, UpTo
  <2> QED
    BY <1>2, <2>1
<1>8. Ok(n, f[n])
  BY <1>7 DEF B
<1>9. \A e : e \in ToSet(fs) <=> \E j \in 1 .. n : fs[j] = e
  BY ToSetFacts
<1> DEFINE k == f[n]
<1>10. k \in Seq(A) /\ Distinct(fs) = k
  BY <1>2
<1>11. /\ \A e \in ToSet(k) : \E j \in 1 .. n : e = fs[j]
       /\ \A j \in 1 .. n : \E g \in ToSet(k) : Overrides(g, fs[j])
       /\ NoTwo(k)
  BY <1>8
<1> HIDE DEF k, n, Ok
<1>12. ToSet(k) \subseteq ToSet(fs) /\ \A e \in ToSet(fs) : \E g \in ToSet(k) : Overrides(g, e)
  BY <1>9, <1>11
<1> QED
  BY <1>10, <1>11, <1>12

\* The ancestors of c as a search from c finds them are those of its super classes found
\* a round before: R is what each class has reached after each round.
Rounds == Cardinality(DOMAIN clsMap) + 1
FromSupers(R, i, c) == {c} \cup UNION {R[i-1][d] : d \in ToSet(Supers(c))}
Reaches(R) ==
    /\ R \in [0 .. Rounds -> [DOMAIN clsMap -> SUBSET DOMAIN clsMap]]
    /\ \A c \in DOMAIN clsMap : R[0][c] = {}
    /\ \A i \in 1 .. Rounds, c \in DOMAIN clsMap : R[i][c] = FromSupers(R, i, c)
    /\ \A c \in DOMAIN clsMap : Ancestors(clsMap, c) = R[Rounds][c]

LEMMA ReachesExists ==
  ASSUME AllLinked
  PROVE  \E R : Reaches(R)
<1> DEFINE A == DOMAIN clsMap
           N == Cardinality(A)
           Up(c) == ToSet(Supers(c))
           n == Rounds
           D == [A -> SUBSET A]
           z == [c \in A |-> {}]
           Step(v) == [c \in A |-> {c} \cup UNION {v[d] : d \in Up(c)}]
           G == [p \in (1 .. n) \X D |-> Step(p[2])]
<1>1. N \in Nat /\ n = N + 1 /\ n \in Nat
  BY SuperGraphFacts DEF Rounds
<1>2. \A c \in A : Up(c) \subseteq A
  BY DEF AllLinked, Linked
<1> HIDE DEF A, N, n
<1>3. z \in D /\ \A v \in D : Step(v) \in D
  <2>1. ASSUME NEW v \in D, NEW c \in A
        PROVE  {c} \cup UNION {v[d] : d \in Up(c)} \in SUBSET A
    BY <1>2
  <2> QED
    BY <2>1
<1>4. G \in [(1 .. n) \X D -> D] /\ \A i \in 1 .. n, v \in D : G[<<i, v>>] = Step(v)
  BY <1>3
<1> HIDE DEF D, z, G, Up
<1>5. PICK R : Steps(R, n, D, z, G)
  BY <1>1, <1>3, <1>4, StepsExist
<1>6. R \in [0 .. n -> D] /\ \A c \in A : R[0][c] = {}
  BY <1>5 DEF Steps, z
<1>7. \A i \in 1 .. n, c \in A : R[i][c] = {c} \cup UNION {R[i-1][d] : d \in Up(c)}
  <2> TAKE i \in 1 .. n, c \in A
  <2>1. i - 1 \in 0 .. n
    BY <1>1
  <2>2. R[i] = Step(R[i-1])
    BY <1>4, <1>5, <1>6, <2>1 DEF Steps
  <2> QED
    BY <2>2
<1>8. \A i \in 0 .. n, c \in A : R[i][c] \subseteq A
  BY <1>6 DEF D
\* A round adds the super classes of what it started from.
<1> DEFINE Grown(i) == \A c \in A : R[i + 1][c] = R[i][c] \cup UNION {Up(d) : d \in R[i][c]}
           B == {i \in 0 .. N : i # 0 => Grown(i)}
<1>9. \A i \in 0 .. N : i \in B
  <2>1. 0 \in B
    BY <1>1
  <2>2. ASSUME NEW i \in 1 .. N, i - 1 \in B
        PROVE  i \in B
    <3>1. i \in 1 .. n /\ i + 1 \in 1 .. n /\ (i + 1) - 1 = i /\ i - 1 \in 0 .. n /\ i \in 0 .. N
      BY <1>1
    <3>2. \A c \in A : c \in R[i][c] /\ R[i][c] = {c} \cup UNION {R[i-1][d] : d \in Up(c)}
      BY <1>7, <3>1
    <3>3. \A c \in A : R[i + 1][c] = {c} \cup UNION {R[i][d] : d \in Up(c)}
      BY <1>7, <3>1
    <3>4. ASSUME NEW c \in A
          PROVE  R[i + 1][c] = R[i][c] \cup UNION {Up(d) : d \in R[i][c]}
      <4>1. CASE i = 1
        <5>1. \A d \in A : R[i-1][d] = {}
          BY <1>6, <4>1
        <5>2. \A d \in A : R[i][d] = {d}
          BY <1>2, <3>2, <5>1
        <5>3. \A y : y \in R[i + 1][c] <=> y = c \/ y \in Up(c)
          BY <1>2, <3>3, <5>2
        <5>4. \A y : y \in R[i][c] \cup UNION {Up(d) : d \in R[i][c]} <=> y = c \/ y \in Up(c)
          BY <5>2
        <5> QED
          BY <5>3, <5>4
      <4>2. CASE i # 1
        <5>1. \A d \in A : R[i][d] = R[i-1][d] \cup UNION {Up(e) : e \in R[i-1][d]}
          <6>1. i - 1 # 0 /\ (i - 1) + 1 = i
            BY <4>2
          <6>2. Grown(i - 1)
            BY <2>2, <6>1
          <6> QED
            BY <6>1, <6>2
        <5>2. ASSUME NEW y \in R[i + 1][c]
              PROVE  y \in R[i][c] \cup UNION {Up(d) : d \in R[i][c]}
          <6>1. CASE y = c
            BY <3>2, <6>1
          <6>2. ASSUME NEW d \in Up(c), y \in R[i][d]
                PROVE  y \in R[i][c] \cup UNION {Up(e) : e \in R[i][c]}
            <7>1. d \in A
              BY <1>2
            <7>2. R[i-1][d] \subseteq R[i][c]
              BY <3>2
            <7> QED
              BY <5>1, <6>2, <7>1, <7>2
          <6> QED
            BY <3>3, <6>1, <6>2
        <5>3. ASSUME NEW y \in R[i][c]
              PROVE  y \in R[i + 1][c]
          <6>1. CASE y = c
            BY <3>3, <6>1
          <6>2. ASSUME NEW d \in Up(c), y \in R[i-1][d]
                PROVE  y \in R[i + 1][c]
            <7>1. y \in R[i][d]
              BY <1>2, <5>1, <6>2
            <7> QED
              BY <3>3, <7>1
          <6> QED
            BY <3>2, <6>1, <6>2
        <5>4. ASSUME NEW e \in R[i][c], NEW y \in Up(e)
              PROVE  y \in R[i + 1][c]
          <6>1. CASE e = c
            <7>1. y \in A /\ y \in R[i][y]
              BY <1>2, <3>2, <5>4, <6>1
            <7> QED
              BY <3>3, <5>4, <6>1, <7>1
          <6>2. ASSUME NEW d \in Up(c), e \in R[i-1][d]
                PROVE  y \in R[i + 1][c]
            <7>1. y \in R[i][d]
              BY <1>2, <5>1, <5>4, <6>2
            <7> QED
              BY <3>3, <7>1
          <6> QED
            BY <3>2, <6>1, <6>2
        <5> QED
          BY <5>2, <5>3, <5>4
      <4> QED
        BY <4>1, <4>2
    <3>5. Grown(i)
      BY <3>4
    <3> HIDE DEF Grown
    <3> QED
      BY <3>1, <3>5
  <2> HIDE DEF B
  <2> QED
    BY <1>1, <2>1, <2>2, UpTo
<1>10. \A c \in A : Ancestors(clsMap, c) = R[n][c]
  <2> TAKE c \in A
  <2>1. PICK u : ClimbRun(u, SuperGraph, c)
    BY SuperGraphFacts, ClimbUnfolds
  <2>2. u[0] = {c} /\ Ancestors(clsMap, c) = u[N]
    BY <2>1, SuperGraphFacts DEF ClimbRun, A, N
  <2>3. \A i \in 1 .. N : u[i] = u[i-1] \cup UNION {Up(d) : d \in u[i-1] \cap A}
    BY <2>1, SuperGraphFacts DEF ClimbRun, ClimbStep, A, N, Up
  <2> DEFINE C == {i \in 0 .. N : u[i] = R[i + 1][c]}
  <2>4. 0 \in C
    <3>1. 1 \in 1 .. n /\ 0 + 1 = 1 /\ 1 - 1 = 0 /\ 0 \in 0 .. N
      BY <1>1
    <3>2. R[1][c] = {c} \cup UNION {R[0][d] : d \in Up(c)}
      BY <1>7, <3>1
    <3>3. R[1][c] = {c}
      BY <1>2, <1>6, <3>2
    <3> QED
      BY <2>2, <3>1, <3>3
  <2>5. ASSUME NEW i \in 1 .. N, i - 1 \in C
        PROVE  i \in C
    <3>1. i \in 0 .. N /\ i # 0 /\ (i - 1) + 1 = i /\ i \in 0 .. n
      BY <1>1
    <3>2. u[i-1] = R[i][c]
      BY <2>5, <3>1
    <3>3. R[i + 1][c] = R[i][c] \cup UNION {Up(d) : d \in R[i][c]}
      BY <1>9, <3>1
    <3>4. R[i][c] \cap A = R[i][c]
      BY <1>8, <3>1
    <3>5. u[i] = R[i + 1][c]
      BY <2>3, <3>2, <3>3, <3>4
    <3> QED
      BY <3>1, <3>5
  <2> HIDE DEF C
  <2>6. N \in C
    <3>1. \A i \in 0 .. N : i \in C
      BY <1>1, <2>4, <2>5, UpTo
    <3> QED
      BY <1>1, <3>1
  <2> QED
    BY <1>1, <2>2, <2>6 DEF C
<1> QED
  BY <1>6, <1>7, <1>10 DEF Reaches, FromSupers, D, A, Up, n

Entry == [funcs : Seq(Funcs), sig : Sigs]
\* Every signature is filled.
AllFilled == AllLinked /\ sig \in [DOMAIN sig -> Sigs] /\ \A c \in DOMAIN clsMap : Own(c) \subseteq DOMAIN sig

LEMMA OwnEntryFacts ==
  ASSUME AllFilled, NEW c \in DOMAIN clsMap, NEW n
  PROVE  /\ OwnEntry(c, n) \in Seq(Entry)
         /\ \A e \in ToSet(OwnEntry(c, n)) : /\ n \in NamesOf(clsMap[c].methods) /\ e.sig = sig[<<c, n>>]
                                             /\ ToSet(e.funcs) = VariantsIn(clsMap[c].methods, n)
         /\ n \in NamesOf(clsMap[c].methods) => ToSet(OwnEntry(c, n)) # {}
<1> DEFINE e == [sig |-> sig[<<c, n>>], funcs |-> Variants(clsMap[c].methods, n)]
<1>1. <<c, n>> \in Own(c) <=> n \in NamesOf(clsMap[c].methods)
  BY DEF Own
<1>2. ToSet(<<>>) = {} /\ ToSet(<<e>>) = {e}
  BY DEF ToSet
<1>3. clsMap[c].methods \in Seq(Funcs)
  BY MembersLinked DEF AllFilled
<1>4. Variants(clsMap[c].methods, n) \in Seq(Funcs) /\ ToSet(Variants(clsMap[c].methods, n)) = VariantsIn(clsMap[c].methods, n)
  BY <1>3, VariantsFacts
<1>5. CASE n \notin NamesOf(clsMap[c].methods)
  <2>1. OwnEntry(c, n) = <<>>
    BY <1>1, <1>5 DEF OwnEntry
  <2> QED
    BY <1>2, <1>5, <2>1
<1>6. CASE n \in NamesOf(clsMap[c].methods)
  <2>1. OwnEntry(c, n) = <<e>>
    BY <1>1, <1>6 DEF OwnEntry
  <2>2. sig[<<c, n>>] \in Sigs
    BY <1>1, <1>6 DEF AllFilled
  <2>3. e \in Entry /\ e.sig = sig[<<c, n>>] /\ e.funcs = Variants(clsMap[c].methods, n)
    BY <1>4, <2>2 DEF Entry
  <2> HIDE DEF e
  <2>4. <<e>> \in Seq(Entry)
    BY <2>3
  <2>5. ToSet(OwnEntry(c, n)) = {e}
    BY <1>2, <2>1
  <2> QED
    BY <1>4, <1>6, <2>1, <2>3, <2>4, <2>5
<1> QED
  BY <1>5, <1>6

\* The method sets of one round.
Keys == (DOMAIN clsMap) \X MethodNames
EntrySets == [Keys -> Seq(Entry)]
LEMMA EntriesFacts ==
  ASSUME AllFilled, NEW m \in EntrySets, NEW c \in DOMAIN clsMap, NEW n \in MethodNames
  PROVE  /\ Entries(m, c, n) \in Seq(Entry)
         /\ \A e : e \in ToSet(Entries(m, c, n)) <=>
                     e \in ToSet(OwnEntry(c, n)) \/ \E d \in ToSet(Supers(c)) : e \in ToSet(m[<<d, n>>])
<1> DEFINE up == Supers(c)
           ss == [j \in DOMAIN up |-> m[<<up[j], n>>]]
<1>1. up \in Seq(DOMAIN clsMap)
  BY SupersLinked DEF AllFilled
<1>2. \A d : d \in ToSet(up) <=> \E j \in 1 .. Len(up) : up[j] = d
  BY <1>1, ToSetFacts
<1>3. DOMAIN up = 1 .. Len(up) /\ Len(up) \in Nat /\ \A j \in 1 .. Len(up) : up[j] \in DOMAIN clsMap
  BY <1>1
<1>4. \A j \in 1 .. Len(up) : m[<<up[j], n>>] \in Seq(Entry)
  BY <1>3 DEF EntrySets, Keys
<1>5. ss \in Seq(Seq(Entry)) /\ Len(ss) = Len(up) /\ \A j \in 1 .. Len(up) : ss[j] = m[<<up[j], n>>]
  BY <1>3, <1>4
<1>6. Entries(m, c, n) = OwnEntry(c, n) \o FlattenSeq(ss)
  BY DEF Entries
<1> HIDE DEF ss, up
<1>7. FlattenSeq(ss) \in Seq(Entry) /\ \A e : e \in ToSet(FlattenSeq(ss)) <=> \E j \in 1 .. Len(ss) : e \in ToSet(ss[j])
  BY <1>5, FlattenFacts
<1>8. OwnEntry(c, n) \in Seq(Entry)
  BY OwnEntryFacts
<1>9. /\ OwnEntry(c, n) \o FlattenSeq(ss) \in Seq(Entry)
      /\ \A e : e \in ToSet(OwnEntry(c, n) \o FlattenSeq(ss)) <=> e \in ToSet(OwnEntry(c, n)) \/ e \in ToSet(FlattenSeq(ss))
  BY <1>7, <1>8, ConcatFacts
<1>10. \A e : e \in ToSet(FlattenSeq(ss)) <=> \E d \in ToSet(up) : e \in ToSet(m[<<d, n>>])
  <2>1. \A e : e \in ToSet(FlattenSeq(ss)) <=> \E j \in 1 .. Len(up) : e \in ToSet(m[<<up[j], n>>])
    BY <1>5, <1>7
  <2>2. \A e : (\E j \in 1 .. Len(up) : e \in ToSet(m[<<up[j], n>>])) <=> \E d \in ToSet(up) : e \in ToSet(m[<<d, n>>])
    BY <1>2
  <2> QED
    BY <2>1, <2>2
<1> QED
  BY <1>6, <1>9, <1>10 DEF up

\* What merging method sets does to the functions, and to the signatures.
LEMMA MergedFuncs ==
  ASSUME NEW es \in Seq(Entry)
  PROVE  /\ Merged(es).funcs \in Seq(Funcs) /\ NoTwo(Merged(es).funcs)
         /\ \A f \in ToSet(Merged(es).funcs) : \E e \in ToSet(es) : f \in ToSet(e.funcs)
         /\ \A e \in ToSet(es) : \A f \in ToSet(e.funcs) : \E g \in ToSet(Merged(es).funcs) : Overrides(g, f)
<1> DEFINE ss == [i \in DOMAIN es |-> es[i].funcs]
           fl == FlattenSeq(ss)
<1>1. DOMAIN es = 1 .. Len(es) /\ Len(es) \in Nat
  OBVIOUS
<1>2. \A i \in 1 .. Len(es) : es[i].funcs \in Seq(Funcs)
  <2> TAKE i \in 1 .. Len(es)
  <2>1. es[i] \in Entry
    OBVIOUS
  <2> QED
    BY <2>1 DEF Entry
<1>3. ss \in Seq(Seq(Funcs)) /\ Len(ss) = Len(es) /\ \A i \in 1 .. Len(es) : ss[i] = es[i].funcs
  BY <1>1, <1>2
<1>4. Merged(es).funcs = Distinct(fl)
  BY DEF Merged
<1> HIDE DEF ss
<1>5. fl \in Seq(Funcs) /\ \A f : f \in ToSet(fl) <=> \E i \in 1 .. Len(ss) : f \in ToSet(ss[i])
  BY <1>3, FlattenFacts
<1> HIDE DEF fl
<1>6. /\ Distinct(fl) \in Seq(Funcs) /\ ToSet(Distinct(fl)) \subseteq ToSet(fl) /\ NoTwo(Distinct(fl))
      /\ \A f \in ToSet(fl) : \E g \in ToSet(Distinct(fl)) : Overrides(g, f)
  BY <1>5, DistinctFacts
<1>7. \A e : e \in ToSet(es) <=> \E i \in 1 .. Len(es) : es[i] = e
  BY ToSetFacts
<1>8. \A f : f \in ToSet(fl) <=> \E e \in ToSet(es) : f \in ToSet(e.funcs)
  BY <1>3, <1>5, <1>7
<1> QED
  BY <1>4, <1>6, <1>8

LEMMA MergedSig ==
  ASSUME NEW X, \A a, b \in X : Combine(<<a, b>>) \in X,
         NEW es \in Seq(Entry), Len(es) > 0, \A e \in ToSet(es) : e.sig \in X
  PROVE  Merged(es).sig \in X
<1> DEFINE ss == [i \in DOMAIN es |-> es[i].sig]
<1>1. DOMAIN es = 1 .. Len(es) /\ Len(es) \in Nat
  OBVIOUS
<1>2. \A i \in 1 .. Len(es) : es[i].sig \in X
  BY ToSetFacts
<1>3. ss \in Seq(X) /\ Len(ss) > 0
  BY <1>1, <1>2
<1>4. Merged(es).sig = CombineAll(ss)
  BY DEF Merged
<1> HIDE DEF ss
<1> QED
  BY <1>3, <1>4, CombineAllIn

LEMMA MergedTyped ==
  ASSUME AllLinked, NEW es \in Seq(Entry), Len(es) > 0
  PROVE  Merged(es) \in Entry
<1>1. \A e \in ToSet(es) : e.sig \in Sigs
  <2>1. \A e \in ToSet(es) : e \in Entry
    BY ToSetFacts
  <2> QED
    BY <2>1 DEF Entry
<1>2. Merged(es).sig \in Sigs
  BY <1>1, CombineGood, MergedSig
<1>3. Merged(es).funcs \in Seq(Funcs)
  BY MergedFuncs
<1>4. Merged(es) = [funcs |-> Merged(es).funcs, sig |-> Merged(es).sig]
  BY DEF Merged
<1> QED
  BY <1>2, <1>3, <1>4 DEF Entry

\* One method set: it has at most one entry, and one if there is anything to merge.
LEMMA MergedEntriesFacts ==
  ASSUME AllFilled, NEW m \in EntrySets, NEW c \in DOMAIN clsMap, NEW n \in MethodNames
  PROVE  LET es == Entries(m, c, n)
             M == MergedEntries(m, c, n)
         IN /\ M \in Seq(Entry) /\ es \in Seq(Entry)
            /\ es = <<>> => M = <<>>
            /\ es # <<>> => M # <<>> /\ M[1] = Merged(es) /\ ToSet(M) = {Merged(es)} /\ Len(es) > 0
<1> DEFINE es == Entries(m, c, n)
<1>1. es \in Seq(Entry)
  BY EntriesFacts
<1>2. MergedEntries(m, c, n) = IF es = <<>> THEN <<>> ELSE <<Merged(es)>>
  BY DEF MergedEntries
<1> HIDE DEF es
<1>3. es # <<>> => Len(es) > 0
  BY <1>1
<1>4. es # <<>> => Merged(es) \in Entry
  BY <1>1, <1>3, MergedTyped DEF AllFilled
<1>5. ToSet(<<Merged(es)>>) = {Merged(es)}
  BY DEF ToSet
<1> QED
  BY <1>1, <1>2, <1>3, <1>4, <1>5 DEF es

\* MethodSets, step by step.
SetsStep(i, m) == [x \in (DOMAIN clsMap) \X MethodNames |-> MergedEntries(m, x[1], x[2])]
SetsRun(f) ==
    /\ f \in [0 .. Rounds -> EntrySets] /\ f[0] = [x \in (DOMAIN clsMap) \X MethodNames |-> <<>>] /\ MethodSets = f[Rounds]
    /\ \A i \in 1 .. Rounds : f[i] = SetsStep(i, f[i-1])
LEMMA SetsUnfolds ==
  ASSUME AllFilled
  PROVE  \E f : SetsRun(f)
<1> DEFINE n == Rounds
           D == EntrySets
           G == [p \in (1 .. n) \X D |-> SetsStep(p[1], p[2])]
           z == [x \in (DOMAIN clsMap) \X MethodNames |-> <<>>]
           Is(f) == f = [i \in 0 .. Rounds |->
                        IF i = 0 THEN [x \in (DOMAIN clsMap) \X MethodNames |-> <<>>]
                        ELSE LET m == f[i-1] IN [x \in (DOMAIN clsMap) \X MethodNames |-> MergedEntries(m, x[1], x[2])]]
<1>1. n \in Nat /\ z \in D
  BY SuperGraphFacts DEF Rounds, EntrySets, Keys, AllFilled
<1>2. \A i \in 1 .. n, v \in D : SetsStep(i, v) \in D
  <2> TAKE i \in 1 .. n, v \in D
  <2>1. \A c \in DOMAIN clsMap, k \in MethodNames : MergedEntries(v, c, k) \in Seq(Entry)
    BY MergedEntriesFacts
  <2> QED
    BY <2>1 DEF SetsStep, EntrySets, Keys
<1>3. G \in [(1 .. n) \X D -> D] /\ \A i \in 1 .. n, v \in D : G[<<i, v>>] = SetsStep(i, v)
  BY <1>2
<1> HIDE DEF G, D, z, n
<1>4. PICK f : Steps(f, n, D, z, G)
  BY <1>1, <1>3, StepsExist
<1>5. f = [i \in 0 .. n |-> f[i]] /\ f[0] = z /\ \A i \in 1 .. n : f[i] = SetsStep(i, f[i-1])
  <2>1. \A i \in 1 .. n : i - 1 \in 0 .. n
    BY <1>1
  <2> QED
    BY <1>3, <1>4, <2>1 DEF Steps
<1>6. Is(f)
  <2>1. ASSUME NEW i \in 0 .. n
        PROVE  f[i] = IF i = 0 THEN [x \in (DOMAIN clsMap) \X MethodNames |-> <<>>]
                      ELSE LET m == f[i-1] IN [x \in (DOMAIN clsMap) \X MethodNames |-> MergedEntries(m, x[1], x[2])]
    <3>1. i = 0 \/ i \in 1 .. n
      BY <1>1
    <3> QED
      BY <3>1, <1>5 DEF SetsStep, z
  <2> QED
    BY <1>5, <2>1 DEF n
<1>7. PICK h : Is(h) /\ MethodSets = h[Rounds]
  <2>1. MethodSets = (CHOOSE h : Is(h))[Rounds]
    BY Zenon DEF MethodSets, Rounds
  <2>2. Is(CHOOSE h : Is(h))
    BY <1>6, Zenon
  <2> QED
    BY <2>1, <2>2, Zenon
<1>8. h = [i \in 0 .. n |-> h[i]]
  BY <1>7 DEF n
<1>9. h[0] = z /\ \A i \in 1 .. n : h[i] = SetsStep(i, h[i-1])
  <2>1. ASSUME NEW i \in 0 .. n
        PROVE  h[i] = IF i = 0 THEN z ELSE SetsStep(i, h[i-1])
    BY <1>7 DEF SetsStep, n, z
  <2>2. 0 \in 0 .. n /\ \A i \in 1 .. n : i \in 0 .. n /\ i # 0
    BY <1>1
  <2> QED
    BY <2>1, <2>2
<1>10. h[0] \in D /\ \A i \in 1 .. n : h[i-1] \in D => h[i] \in D
  BY <1>1, <1>2, <1>9
<1>11. h \in [0 .. n -> D]
  BY <1>1, <1>8, <1>10, StepsIn
<1> QED
  BY <1>7, <1>9, <1>11 DEF D, n, z, SetsRun

\* A method set holds the methods named n of the classes in A: of each of them, one that
\* overrides it, and none besides.
HoldsMethods(M, A, n) ==
    /\ \A d \in A : \A f \in VariantsIn(clsMap[d].methods, n) : M # <<>> /\ \E g \in ToSet(M[1].funcs) : Overrides(g, f)
    /\ M # <<>> => /\ M[1] \in Entry /\ ToSet(M) = {M[1]}
                   /\ \E d \in A : n \in NamesOf(clsMap[d].methods)
                   /\ \A f \in ToSet(M[1].funcs) : \E d \in A : f \in VariantsIn(clsMap[d].methods, n)
                   /\ NoTwo(M[1].funcs)

\* One round of MethodSets keeps that, for the classes that one round more reaches.
LEMMA RoundExact ==
  ASSUME AllFilled, NEW m \in EntrySets, NEW r, NEW c \in DOMAIN clsMap, NEW n \in MethodNames,
         \A d \in ToSet(Supers(c)) : HoldsMethods(m[<<d, n>>], r[d], n)
  PROVE  HoldsMethods(MergedEntries(m, c, n), {c} \cup UNION {r[d] : d \in ToSet(Supers(c))}, n)
<1> DEFINE es == Entries(m, c, n)
           M == MergedEntries(m, c, n)
           A == {c} \cup UNION {r[d] : d \in ToSet(Supers(c))}
           ms == clsMap[c].methods
<1>1. /\ M \in Seq(Entry) /\ es \in Seq(Entry) /\ (es = <<>> => M = <<>>)
      /\ es # <<>> => M # <<>> /\ M[1] = Merged(es) /\ ToSet(M) = {Merged(es)} /\ Len(es) > 0
  BY MergedEntriesFacts
<1>2. \A e : e \in ToSet(es) <=> e \in ToSet(OwnEntry(c, n)) \/ \E d \in ToSet(Supers(c)) : e \in ToSet(m[<<d, n>>])
  BY EntriesFacts
<1>3. /\ \A e \in ToSet(OwnEntry(c, n)) : n \in NamesOf(ms) /\ ToSet(e.funcs) = VariantsIn(ms, n)
      /\ n \in NamesOf(ms) => ToSet(OwnEntry(c, n)) # {}
  BY OwnEntryFacts
<1> HIDE DEF es, M
<1>4. /\ NoTwo(Merged(es).funcs)
      /\ \A f \in ToSet(Merged(es).funcs) : \E e \in ToSet(es) : f \in ToSet(e.funcs)
      /\ \A e \in ToSet(es) : \A f \in ToSet(e.funcs) : \E g \in ToSet(Merged(es).funcs) : Overrides(g, f)
  BY <1>1, MergedFuncs
<1>5. \A e \in ToSet(es) : es # <<>>
  BY DEF ToSet
<1>6. \A x, y, z : Overrides(x, y) /\ Overrides(y, z) => Overrides(x, z)
  BY DEF Overrides
<1>7. ASSUME NEW d \in A, NEW f \in VariantsIn(clsMap[d].methods, n)
      PROVE  M # <<>> /\ \E g \in ToSet(M[1].funcs) : Overrides(g, f)
  <2>1. ASSUME NEW e \in ToSet(es), NEW h \in ToSet(e.funcs), Overrides(h, f)
        PROVE  M # <<>> /\ \E g \in ToSet(M[1].funcs) : Overrides(g, f)
    BY <1>1, <1>4, <1>5, <1>6, <2>1
  <2>2. CASE d = c
    <3>1. n \in NamesOf(ms)
      BY <2>2 DEF VariantsIn, NamesOf
    <3>2. PICK e \in ToSet(OwnEntry(c, n)) : f \in ToSet(e.funcs)
      BY <1>3, <2>2, <3>1
    <3>3. e \in ToSet(es) /\ Overrides(f, f)
      BY <1>2 DEF Overrides
    <3> QED
      BY <2>1, <3>2, <3>3
  <2>3. ASSUME NEW s \in ToSet(Supers(c)), d \in r[s]
        PROVE  M # <<>> /\ \E g \in ToSet(M[1].funcs) : Overrides(g, f)
    <3> DEFINE O == m[<<s, n>>]
    <3>1. HoldsMethods(O, r[s], n)
      OBVIOUS
    <3>2. PICK h \in ToSet(O[1].funcs) : Overrides(h, f)
      BY <2>3, <3>1 DEF HoldsMethods
    <3>3. O[1] \in ToSet(O)
      BY <2>3, <3>1 DEF HoldsMethods
    <3>4. O[1] \in ToSet(es)
      BY <1>2, <3>3
    <3> QED
      BY <2>1, <3>2, <3>4
  <2> QED
    BY <2>2, <2>3
<1>8. ASSUME NEW e \in ToSet(es)
      PROVE  (\E d \in A : n \in NamesOf(clsMap[d].methods)) /\ \A f \in ToSet(e.funcs) : \E d \in A : f \in VariantsIn(clsMap[d].methods, n)
  <2>1. CASE e \in ToSet(OwnEntry(c, n))
    <3>1. c \in A /\ n \in NamesOf(ms) /\ ToSet(e.funcs) = VariantsIn(ms, n)
      BY <1>3, <2>1
    <3> QED
      BY <3>1
  <2>2. ASSUME NEW s \in ToSet(Supers(c)), e \in ToSet(m[<<s, n>>])
        PROVE  (\E d \in A : n \in NamesOf(clsMap[d].methods)) /\ \A f \in ToSet(e.funcs) : \E d \in A : f \in VariantsIn(clsMap[d].methods, n)
    <3> DEFINE O == m[<<s, n>>]
    <3>1. HoldsMethods(O, r[s], n) /\ O # <<>>
      BY <2>2 DEF ToSet
    <3>2. e = O[1]
      BY <2>2, <3>1 DEF HoldsMethods
    <3>3. r[s] \subseteq A
      OBVIOUS
    <3> HIDE DEF O, A
    <3> QED
      BY <3>1, <3>2, <3>3 DEF HoldsMethods
  <2> QED
    BY <1>2, <2>1, <2>2
<1> HIDE DEF A
<1>9. ASSUME M # <<>>
      PROVE  /\ M[1] \in Entry /\ ToSet(M) = {M[1]}
             /\ \E d \in A : n \in NamesOf(clsMap[d].methods)
             /\ \A f \in ToSet(M[1].funcs) : \E d \in A : f \in VariantsIn(clsMap[d].methods, n)
             /\ NoTwo(M[1].funcs)
  <2>1. es # <<>> /\ M[1] = Merged(es) /\ ToSet(M) = {Merged(es)} /\ Len(es) > 0
    BY <1>1, <1>9
  <2>2. M[1] \in Entry
    BY <1>1, <2>1, MergedTyped DEF AllFilled
  <2>3. \E e : e \in ToSet(es)
    <3>1. 1 \in DOMAIN es
      BY <1>1, <2>1
    <3> QED
      BY <3>1 DEF ToSet
  <2> QED
    BY <1>4, <1>8, <2>1, <2>2, <2>3
<1> QED
  BY <1>7, <1>9 DEF HoldsMethods, A, M

LEMMA MethodSetsExact ==
  ASSUME AllFilled
  PROVE  \A c \in DOMAIN clsMap, n \in MethodNames : HoldsMethods(MethodSets[<<c, n>>], Ancestors(clsMap, c), n)
<1>1. PICK f : SetsRun(f)
  BY SetsUnfolds
<1>2. PICK R : Reaches(R)
  BY ReachesExists DEF AllFilled
<1>3. Rounds \in Nat
  BY SuperGraphFacts DEF Rounds, AllFilled
<1> DEFINE B == {i \in 0 .. Rounds : \A c \in DOMAIN clsMap, n \in MethodNames : HoldsMethods(f[i][<<c, n>>], R[i][c], n)}
<1>4. 0 \in B
  <2>1. \A c \in DOMAIN clsMap, n \in MethodNames : f[0][<<c, n>>] = <<>>
    BY <1>1 DEF SetsRun
  <2>2. \A c \in DOMAIN clsMap : R[0][c] = {}
    BY <1>2 DEF Reaches
  <2> QED
    BY <1>3, <2>1, <2>2 DEF HoldsMethods
<1>5. ASSUME NEW i \in 1 .. Rounds, i - 1 \in B
      PROVE  i \in B
  <2>1. i - 1 \in 0 .. Rounds /\ i \in 0 .. Rounds
    BY <1>3
  <2>2. f[i-1] \in EntrySets /\ f[i] = SetsStep(i, f[i-1])
    BY <1>1, <2>1 DEF SetsRun
  <2>3. ASSUME NEW c \in DOMAIN clsMap, NEW n \in MethodNames
        PROVE  HoldsMethods(f[i][<<c, n>>], R[i][c], n)
    <3>1. f[i][<<c, n>>] = MergedEntries(f[i-1], c, n)
      BY <2>2 DEF SetsStep
    <3>2. R[i][c] = {c} \cup UNION {R[i-1][d] : d \in ToSet(Supers(c))}
      BY <1>2 DEF Reaches, FromSupers
    <3>3. ToSet(Supers(c)) \subseteq DOMAIN clsMap
      BY DEF AllFilled, AllLinked, Linked
    <3>4. \A d \in ToSet(Supers(c)) : HoldsMethods(f[i-1][<<d, n>>], R[i-1][d], n)
      BY <1>5, <3>3
    <3> DEFINE m == f[i-1]
               r == R[i-1]
    <3>5. m \in EntrySets /\ \A d \in ToSet(Supers(c)) : HoldsMethods(m[<<d, n>>], r[d], n)
      BY <2>2, <3>4
    <3> HIDE DEF m, r
    <3>6. HoldsMethods(MergedEntries(m, c, n), {c} \cup UNION {r[d] : d \in ToSet(Supers(c))}, n)
      BY <3>5, RoundExact
    <3> QED
      BY <3>1, <3>2, <3>6 DEF m, r
  <2> QED
    BY <2>1, <2>3
<1> HIDE DEF B
<1>6. Rounds \in B
  <2>1. \A i \in 0 .. Rounds : i \in B
    BY <1>3, <1>4, <1>5, UpTo
  <2> QED
    BY <1>3, <2>1
<1> QED
  BY <1>1, <1>2, <1>6 DEF B, SetsRun, Reaches

\* The signature in a method set is one of X if those of the methods in it are.
LEMMA MethodSetsSig ==
  ASSUME AllFilled, NEW X, \A a, b \in X : Combine(<<a, b>>) \in X, NEW n \in MethodNames
  PROVE  \A c \in DOMAIN clsMap :
           (\A d \in Ancestors(clsMap, c) : n \in NamesOf(clsMap[d].methods) => sig[<<d, n>>] \in X)
           => \A e \in ToSet(MethodSets[<<c, n>>]) : e.sig \in X
<1>1. PICK f : SetsRun(f)
  BY SetsUnfolds
<1>2. PICK R : Reaches(R)
  BY ReachesExists DEF AllFilled
<1>3. Rounds \in Nat
  BY SuperGraphFacts DEF Rounds, AllFilled
<1> DEFINE In(A) == \A d \in A : n \in NamesOf(clsMap[d].methods) => sig[<<d, n>>] \in X
           B == {i \in 0 .. Rounds : \A c \in DOMAIN clsMap : In(R[i][c]) => \A e \in ToSet(f[i][<<c, n>>]) : e.sig \in X}
<1>4. 0 \in B
  <2>1. \A c \in DOMAIN clsMap : f[0][<<c, n>>] = <<>>
    BY <1>1 DEF SetsRun
  <2>2. ToSet(<<>>) = {}
    BY DEF ToSet
  <2>3. 0 \in 0 .. Rounds
    BY <1>3
  <2> HIDE DEF In
  <2> QED
    BY <2>1, <2>2, <2>3
<1>5. ASSUME NEW i \in 1 .. Rounds, i - 1 \in B
      PROVE  i \in B
  <2>1. i - 1 \in 0 .. Rounds /\ i \in 0 .. Rounds
    BY <1>3
  <2>2. f[i-1] \in EntrySets /\ f[i] = SetsStep(i, f[i-1])
    BY <1>1, <2>1 DEF SetsRun
  <2>3. ASSUME NEW c \in DOMAIN clsMap, In(R[i][c]), NEW e \in ToSet(f[i][<<c, n>>])
        PROVE  e.sig \in X
    <3> DEFINE m == f[i-1]
               es == Entries(m, c, n)
    <3>1. f[i][<<c, n>>] = MergedEntries(m, c, n)
      BY <2>2 DEF SetsStep
    <3>2. R[i][c] = {c} \cup UNION {R[i-1][d] : d \in ToSet(Supers(c))}
      BY <1>2 DEF Reaches, FromSupers
    <3>3. ToSet(Supers(c)) \subseteq DOMAIN clsMap
      BY DEF AllFilled, AllLinked, Linked
    <3>4. \A d \in ToSet(Supers(c)) : \A x \in ToSet(m[<<d, n>>]) : x.sig \in X
      <4> TAKE d \in ToSet(Supers(c))
      <4>1. In(R[i-1][d])
        BY <2>3, <3>2
      <4> HIDE DEF In
      <4> QED
        BY <1>5, <3>3, <4>1
    <3>5. m \in EntrySets
      BY <2>2
    <3> HIDE DEF m
    <3>6. /\ es \in Seq(Entry) /\ (es = <<>> => MergedEntries(m, c, n) = <<>>)
          /\ es # <<>> => ToSet(MergedEntries(m, c, n)) = {Merged(es)} /\ Len(es) > 0
      BY <3>5, MergedEntriesFacts
    <3>7. \A x : x \in ToSet(es) <=> x \in ToSet(OwnEntry(c, n)) \/ \E d \in ToSet(Supers(c)) : x \in ToSet(m[<<d, n>>])
      BY <3>5, EntriesFacts
    <3>8. \A x \in ToSet(OwnEntry(c, n)) : n \in NamesOf(clsMap[c].methods) /\ x.sig = sig[<<c, n>>]
      BY OwnEntryFacts
    <3> HIDE DEF es
    <3>9. \A x \in ToSet(es) : x.sig \in X
      BY <2>3, <3>2, <3>4, <3>7, <3>8
    <3>10. es # <<>> /\ e = Merged(es)
      <4>1. ToSet(<<>>) = {}
        BY DEF ToSet
      <4> QED
        BY <2>3, <3>1, <3>6, <4>1
    <3>11. Len(es) > 0
      BY <3>6, <3>10
    <3>12. Merged(es).sig \in X
      BY <3>6, <3>9, <3>11, MergedSig
    <3> QED
      BY <3>10, <3>12
  <2> HIDE DEF In
  <2> QED
    BY <2>1, <2>3
<1> HIDE DEF B
<1>6. Rounds \in B
  <2>1. \A i \in 0 .. Rounds : i \in B
    BY <1>3, <1>4, <1>5, UpTo
  <2> QED
    BY <1>3, <2>1
<1> QED
  BY <1>1, <1>2, <1>6 DEF B, SetsRun, Reaches

\* What AllMethods says of a class.
LEMMA AllMethodsFacts ==
  ASSUME AllFilled
  PROVE  /\ DOMAIN AllMethods = DOMAIN clsMap
         /\ \A c \in DOMAIN clsMap : \A n \in DOMAIN AllMethods[c] :
              /\ n \in MethodNames /\ AllMethods[c][n] \in Entry
              /\ AllMethods[c][n] \in ToSet(MethodSets[<<c, n>>])
              /\ \E d \in Ancestors(clsMap, c) : n \in NamesOf(clsMap[d].methods)
              /\ \A f \in ToSet(AllMethods[c][n].funcs) :
                   \E d \in Ancestors(clsMap, c) : f \in VariantsIn(clsMap[d].methods, n)
              /\ NoTwo(AllMethods[c][n].funcs)
         /\ \A c \in DOMAIN clsMap : \A d \in Ancestors(clsMap, c) : \A n : \A f \in VariantsIn(clsMap[d].methods, n) :
              n \in DOMAIN AllMethods[c] /\ \E g \in ToSet(AllMethods[c][n].funcs) : Overrides(g, f)
         /\ \A c \in DOMAIN clsMap : Ancestors(clsMap, c) \subseteq DOMAIN clsMap
<1> DEFINE m == MethodSets
<1>1. AllMethods = [c \in DOMAIN clsMap |-> [n \in {k \in MethodNames : m[<<c, k>>] # <<>>} |-> m[<<c, n>>][1]]]
  BY DEF AllMethods
<1>2. \A c \in DOMAIN clsMap, n \in MethodNames : HoldsMethods(m[<<c, n>>], Ancestors(clsMap, c), n)
  BY MethodSetsExact
<1>3. \A c \in DOMAIN clsMap : Ancestors(clsMap, c) \subseteq DOMAIN clsMap
  <2>1. PICK R : Reaches(R)
    BY ReachesExists DEF AllFilled
  <2>2. Rounds \in 0 .. Rounds
    BY SuperGraphFacts DEF Rounds, AllFilled
  <2> QED
    BY <2>1, <2>2 DEF Reaches
<1> HIDE DEF m
<1>4. \A c \in DOMAIN clsMap : /\ DOMAIN AllMethods[c] = {k \in MethodNames : m[<<c, k>>] # <<>>}
                               /\ \A n \in DOMAIN AllMethods[c] : AllMethods[c][n] = m[<<c, n>>][1]
  BY <1>1
<1>5. ASSUME NEW c \in DOMAIN clsMap, NEW n \in DOMAIN AllMethods[c]
      PROVE  /\ n \in MethodNames /\ AllMethods[c][n] \in Entry
             /\ AllMethods[c][n] \in ToSet(m[<<c, n>>])
             /\ \E d \in Ancestors(clsMap, c) : n \in NamesOf(clsMap[d].methods)
             /\ \A f \in ToSet(AllMethods[c][n].funcs) : \E d \in Ancestors(clsMap, c) : f \in VariantsIn(clsMap[d].methods, n)
             /\ NoTwo(AllMethods[c][n].funcs)
  <2>1. n \in MethodNames /\ m[<<c, n>>] # <<>> /\ AllMethods[c][n] = m[<<c, n>>][1]
    BY <1>4
  <2>2. HoldsMethods(m[<<c, n>>], Ancestors(clsMap, c), n)
    BY <1>2, <2>1
  <2> QED
    BY <2>1, <2>2 DEF HoldsMethods
<1>6. ASSUME NEW c \in DOMAIN clsMap, NEW d \in Ancestors(clsMap, c), NEW n, NEW f \in VariantsIn(clsMap[d].methods, n)
      PROVE  n \in DOMAIN AllMethods[c] /\ \E g \in ToSet(AllMethods[c][n].funcs) : Overrides(g, f)
  <2>1. n \in MethodNames
    BY <1>3 DEF MethodNames, NamesOf, VariantsIn
  <2>2. HoldsMethods(m[<<c, n>>], Ancestors(clsMap, c), n)
    BY <1>2, <2>1
  <2>3. m[<<c, n>>] # <<>> /\ \E g \in ToSet(m[<<c, n>>][1].funcs) : Overrides(g, f)
    BY <2>2 DEF HoldsMethods
  <2> QED
    BY <1>4, <2>1, <2>3
<1> QED
  BY <1>1, <1>3, <1>5, <1>6 DEF m

\* Common signatures depend on the descriptors only.
LEMMA CombineKept ==
  ASSUME UNCHANGED clsMap
  PROVE  (\A sigs : Combine(sigs)' = Combine(sigs)) /\ \A fs, n : SigOf(fs, n)' = SigOf(fs, n)
<1>1. \A c : Levels(c)' = Levels(c)
  BY Zenon DEF Levels, Above, Supers
<1>2. \A t1, t2 : CommonType(t1, t2)' = CommonType(t1, t2)
  BY <1>1 DEF CommonType
<1>3. \A ts : Common(ts)' = Common(ts)
  BY <1>2, Zenon DEF Common
<1>4. \A sigs : Combine(sigs)' = Combine(sigs)
  BY <1>3 DEF Combine
<1> QED
  BY <1>4 DEF SigOf

\* Method sets depend on the descriptors and the signatures only.
LEMMA AllMethodsKept ==
  ASSUME UNCHANGED <<clsMap, sig>>
  PROVE  AllMethods' = AllMethods
<1>1. \A sigs : Combine(sigs)' = Combine(sigs)
  BY CombineKept
<1>2. \A sigs : CombineAll(sigs)' = CombineAll(sigs)
  BY <1>1, Zenon DEF CombineAll
<1>3. \A es : Merged(es)' = Merged(es)
  BY <1>2 DEF Merged
<1>4. \A m, c, n : Entries(m, c, n)' = Entries(m, c, n)
  BY DEF Entries, OwnEntry, Own, Supers
<1>5. \A m, c, n : MergedEntries(m, c, n)' = MergedEntries(m, c, n)
  BY <1>3, <1>4 DEF MergedEntries
<1>6. MethodNames' = MethodNames
  BY DEF MethodNames
<1>7. MethodSets' = MethodSets
  <2> DEFINE Is(f) == f = [i \in 0 .. Rounds |->
                        IF i = 0 THEN [x \in (DOMAIN clsMap) \X MethodNames |-> <<>>]
                        ELSE LET m == f[i-1] IN [x \in (DOMAIN clsMap) \X MethodNames |-> MergedEntries(m, x[1], x[2])]]
             Was(f) == f = [i \in 0 .. Rounds' |->
                        IF i = 0 THEN [x \in (DOMAIN clsMap') \X MethodNames' |-> <<>>]
                        ELSE LET m == f[i-1] IN [x \in (DOMAIN clsMap') \X MethodNames' |-> MergedEntries(m, x[1], x[2])']]
  <2>1. clsMap' = clsMap /\ Rounds' = Rounds
    BY DEF Rounds
  <2>2. ASSUME NEW f
        PROVE  Was(f) <=> Is(f)
    <3> DEFINE is(i) == IF i = 0 THEN [x \in (DOMAIN clsMap) \X MethodNames |-> <<>>]
                        ELSE LET m == f[i-1] IN [x \in (DOMAIN clsMap) \X MethodNames |-> MergedEntries(m, x[1], x[2])]
               was(i) == IF i = 0 THEN [x \in (DOMAIN clsMap') \X MethodNames' |-> <<>>]
                         ELSE LET m == f[i-1] IN [x \in (DOMAIN clsMap') \X MethodNames' |-> MergedEntries(m, x[1], x[2])']
    <3>1. \A i : was(i) = is(i)
      BY <2>1, <1>5, <1>6
    <3>2. /\ Is(f) <=> f = [i \in 0 .. Rounds |-> is(i)]
          /\ Was(f) <=> f = [i \in 0 .. Rounds' |-> was(i)]
      BY Zenon
    <3> HIDE DEF is, was, Is, Was
    <3>3. [i \in 0 .. Rounds' |-> was(i)] = [i \in 0 .. Rounds |-> is(i)]
      BY <2>1, <3>1
    <3> QED
      BY <3>2, <3>3, Zenon
  <2>3. MethodSets = (CHOOSE h : Is(h))[Rounds]
    BY Zenon DEF MethodSets, Rounds
  <2>4. MethodSets' = (CHOOSE h : Was(h))[Rounds']
    BY Zenon DEF MethodSets, Rounds
  <2> HIDE DEF Is, Was
  <2>5. (CHOOSE h : Was(h)) = (CHOOSE h : Is(h))
    BY <2>2, Zenon
  <2> QED
    BY <2>1, <2>3, <2>4, <2>5, Zenon
<1> QED
  BY <1>6, <1>7 DEF AllMethods

-----------------------------------------------------------------------------
(* The invariant of the importer. *)

ImporterInv ==
    /\ Imported /\ SigsFilled
    /\ stage \in {"ancestors", "names", "done"} => all = AllMethods
    /\ stage = "panicked" => Object \notin DOMAIN clsMap

\* In the later stages everything is imported, and at last everything is filled.
LEMMA StageFacts ==
  ASSUME ImporterInv
  PROVE  /\ stage \in {"sigs", "ancestors", "names", "done"} => AllLinked
         /\ stage \in {"ancestors", "names", "done"} => AllFilled
<1>1. stage \in {"sigs", "ancestors", "names", "done"} => AllLinked
  BY DEF ImporterInv, AllLinked, Imported
<1>2. ASSUME stage \in {"ancestors", "names", "done"}
      PROVE  AllFilled
  <2>1. sig \in [OwnKeys -> Sigs]
    BY <1>2 DEF ImporterInv, SigsFilled
  <2>2. DOMAIN sig = OwnKeys /\ sig \in [DOMAIN sig -> Sigs]
    BY <2>1
  <2> QED
    BY <1>1, <1>2, <2>2, OwnIn DEF AllFilled
<1> QED
  BY <1>1, <1>2

LEMMA StaticSigTyped ==
  ASSUME AllLinked, NEW c \in DOMAIN clsMap, NEW n \in NamesOf(clsMap[c].funcs)
  PROVE  StaticSig(c, n) \in Sigs
  BY MembersLinked, SigOfFacts DEF StaticSig

LEMMA ImporterInit == Init => ImporterInv
<1> SUFFICES ASSUME Init
             PROVE  ImporterInv
  OBVIOUS
<1>1. Imported
  BY ImportedInit
<1>2. stage = "import" /\ sig = <<>>
  BY DEF Init
<1>3. DOMAIN sig = {}
  BY <1>2
<1> QED
  BY <1>1, <1>2, <1>3 DEF ImporterInv, SigsFilled

LEMMA FillSigsInv ==
  ASSUME ImporterInv, NEW c \in todo, FillSigs(c)
  PROVE  ImporterInv'
<1>1. stage = "sigs" /\ UNCHANGED <<U, src, clsMap, classes, all, throwables>> /\ stage' \in {"sigs", "panicked"}
  BY DEF FillSigs
<1>2. AllLinked /\ c \in DOMAIN clsMap /\ Imported /\ SigsFilled
  BY <1>1, StageFacts DEF ImporterInv, Imported, ImporterTypes
<1>3. Imported' /\ SigsFilled'
  <2>1. [Next]_vars
    BY DEF Next
  <2> QED
    BY <1>2, <2>1, ImportedNext, FillSigsFilled
<1>4. ASSUME stage' = "panicked", Object \in DOMAIN clsMap
      PROVE  FALSE
  <2> DEFINE sg == Widened(Filled(sig, c), c)
             statics == {StaticSig(c, n) : n \in NamesOf(clsMap[c].funcs)}
  <2>1. sig' = sg /\ Panicked({sg[x] : x \in DOMAIN sg} \cup statics)
    BY <1>1, <1>4 DEF FillSigs
  <2>2. \A s \in statics : s \in Sigs
    BY <1>2, StaticSigTyped
  <2> HIDE DEF sg, statics
  <2>3. \A x \in DOMAIN sg : sg[x] \in Sigs
    <3>1. sig \in [OwnKeys -> Sigs]
      BY <1>1, <1>2 DEF SigsFilled
    <3>2. sg \in [OwnKeys -> Sigs]
      BY <1>2, <3>1, FilledWidened DEF sg
    <3> QED
      BY <3>2
  <2>4. \A s \in Sigs : Panic \notin TypesOf(s)
    BY <1>2, <1>4, GoodNotPanic
  <2> QED
    BY <2>1, <2>2, <2>3, <2>4 DEF Panicked
<1> QED
  BY <1>1, <1>3, <1>4 DEF ImporterInv

LEMMA FillAllMethodsInv ==
  ASSUME ImporterInv, FillAllMethods
  PROVE  ImporterInv'
<1>1. /\ stage = "sigs" /\ todo = {} /\ UNCHANGED <<U, src, clsMap, classes, sig, todo, throwables>>
      /\ all' = AllMethods /\ stage' \in {"ancestors", "panicked"}
      /\ stage' = "panicked" => Panicked(UNION {{all'[c][n].sig : n \in DOMAIN all'[c]} : c \in DOMAIN all'})
  BY DEF FillAllMethods
<1>2. AllLinked /\ Imported /\ SigsFilled
  BY <1>1, StageFacts DEF ImporterInv
<1>3. AllFilled
  <2>1. sig \in [OwnKeys -> Sigs]
    BY <1>1, <1>2 DEF SigsFilled
  <2>2. DOMAIN sig = OwnKeys /\ sig \in [DOMAIN sig -> Sigs]
    BY <2>1
  <2> QED
    BY <1>2, <2>2, OwnIn DEF AllFilled
<1>4. Imported'
  <2>1. [Next]_vars
    BY DEF Next
  <2> QED
    BY <1>2, <2>1, ImportedNext
<1>5. SigsFilled'
  BY <1>1, <1>2 DEF SigsFilled, Sigs, GoodTypes, Own, OwnKeys
<1>6. ASSUME stage' = "panicked", Object \in DOMAIN clsMap
      PROVE  FALSE
  <2> DEFINE am == AllMethods
  <2>1. Panicked(UNION {{am[c][n].sig : n \in DOMAIN am[c]} : c \in DOMAIN am})
    BY <1>1, <1>6
  <2>2. \A c \in DOMAIN am : \A n \in DOMAIN am[c] : am[c][n].sig \in Sigs
    BY <1>3, AllMethodsFacts DEF Entry
  <2> HIDE DEF am
  <2>3. \A s \in Sigs : Panic \notin TypesOf(s)
    BY <1>2, <1>6, GoodNotPanic
  <2> QED
    BY <2>1, <2>2, <2>3 DEF Panicked
<1>7. AllMethods' = AllMethods
  BY <1>1, AllMethodsKept
<1> QED
  BY <1>1, <1>4, <1>5, <1>6, <1>7 DEF ImporterInv

LEMMA IncludeAncestorsInv ==
  ASSUME ImporterInv, IncludeAncestors
  PROVE  ImporterInv'
<1> DEFINE found == UNION {SigTypes(c) : c \in classes}
<1>1. /\ stage = "ancestors" /\ UNCHANGED <<U, src, clsMap, sig, all>>
      /\ stage' = IF found \subseteq DOMAIN clsMap THEN "names" ELSE "panicked"
  BY DEF IncludeAncestors
<1>2. AllLinked /\ AllFilled /\ Imported /\ SigsFilled /\ all = AllMethods /\ classes \subseteq DOMAIN clsMap
  BY <1>1, StageFacts DEF ImporterInv, Imported, ImporterTypes
<1>3. Imported'
  <2>1. [Next]_vars
    BY DEF Next
  <2> QED
    BY <1>2, <2>1, ImportedNext
<1>4. SigsFilled'
  BY <1>1, <1>2 DEF SigsFilled, Sigs, GoodTypes, Own, OwnKeys
<1>5. ASSUME Object \in DOMAIN clsMap
      PROVE  found \subseteq DOMAIN clsMap
  <2>1. \A s \in Sigs : ClassesIn(s) \subseteq DOMAIN clsMap
    BY <1>2, <1>5, GoodNotPanic
  <2>2. \A c \in classes : StaticSigTypes(c) \subseteq DOMAIN clsMap
    BY <1>2, <2>1, StaticSigTyped DEF StaticSigTypes
  <2>3. \A c \in classes : \A n \in DOMAIN all[c] : all[c][n].sig \in Sigs
    BY <1>2, AllMethodsFacts DEF Entry
  <2> QED
    BY <1>2, <2>1, <2>2, <2>3 DEF SigTypes
<1>6. AllMethods' = AllMethods
  BY <1>1, AllMethodsKept
<1> HIDE DEF found
<1> QED
  BY <1>1, <1>2, <1>3, <1>4, <1>5, <1>6 DEF ImporterInv

\* Filling starts with signatures of nothing.
LEMMA NoSigs ==
  ASSUME UNCHANGED <<U, src, clsMap>>, sig' = [x \in OwnKeys |-> NoSig]
  PROVE  sig' \in [OwnKeys' -> Sigs']
<1>1. <<>> \in Types /\ ~IsClass(<<>>) /\ <<>> # Panic
  BY DEF Types, Panic, IsClass
<1>2. NoSig \in Sigs
  <2>1. <<>> \in GoodTypes
    BY <1>1 DEF GoodTypes
  <2> QED
    BY <2>1 DEF NoSig, Sigs, SigsOver
<1>3. Sigs' = Sigs /\ OwnKeys' = OwnKeys
  BY DEF Sigs, GoodTypes, Own, OwnKeys
<1> QED
  BY <1>2, <1>3

LEMMA ImporterNext ==
  ASSUME ImporterInv, [Next]_vars
  PROVE  ImporterInv'
<1>1. Imported /\ SigsFilled /\ Imported'
  BY ImportedNext DEF ImporterInv
<1>2. ASSUME sig = <<>>, sig' = <<>>, stage' \in {"refer", "embed", "implicit", "failed"}
      PROVE  ImporterInv'
  <2>1. SigsFilled'
    BY <1>2 DEF SigsFilled
  <2> QED
    BY <1>1, <1>2, <2>1 DEF ImporterInv
<1>3. CASE ImportNamed
  <2>1. sig = <<>> /\ sig' = <<>> /\ stage' = "refer"
    BY <1>1, <1>3 DEF ImportNamed, SigsFilled
  <2> QED
    BY <1>2, <2>1
<1>4. CASE ImportReferenced
  <2>1. sig = <<>> /\ sig' = <<>> /\ stage' \in {"refer", "embed", "failed"}
    BY <1>1, <1>4 DEF ImportReferenced, SigsFilled
  <2> QED
    BY <1>2, <2>1
<1>5. CASE Embed
  <2>1. sig = <<>> /\ sig' = <<>> /\ stage' \in {"implicit", "failed"}
    BY <1>1, <1>5 DEF Embed, SigsFilled
  <2> QED
    BY <1>2, <2>1
<1>6. CASE IncludeImplicit
  <2>1. /\ UNCHANGED <<U, src, clsMap>> /\ stage' = "sigs" /\ sig' = [x \in OwnKeys |-> NoSig]
    BY <1>6 DEF IncludeImplicit
  <2>2. sig' \in [OwnKeys' -> Sigs']
    BY <2>1, NoSigs
  <2>3. DOMAIN sig' = OwnKeys'
    BY <2>2
  <2>4. SigsFilled'
    BY <2>1, <2>2, <2>3 DEF SigsFilled
  <2> QED
    BY <1>1, <2>1, <2>4 DEF ImporterInv
<1>7. ASSUME NEW c \in todo, FillSigs(c)
      PROVE  ImporterInv'
  BY <1>7, FillSigsInv
<1>8. CASE FillAllMethods
  BY <1>8, FillAllMethodsInv
<1>9. CASE IncludeAncestors
  BY <1>9, IncludeAncestorsInv
<1>11. ASSUME stage = "names", stage' \in {"names", "done"}, UNCHANGED <<U, src, clsMap, sig, all>>
       PROVE  ImporterInv'
  <2>1. AllMethods' = AllMethods
    BY <1>11, AllMethodsKept
  <2>2. SigsFilled'
    BY <1>1, <1>11 DEF SigsFilled, Sigs, GoodTypes, Own, OwnKeys
  <2> QED
    BY <1>1, <1>11, <2>1, <2>2 DEF ImporterInv
<1>12. ASSUME NEW c \in todo, FillJNINames(c)
       PROVE  ImporterInv'
  BY <1>11, <1>12 DEF FillJNINames
<1>13. CASE FillThrowables
  BY <1>11, <1>13 DEF FillThrowables
<1>10. CASE UNCHANGED vars
  <2>1. UNCHANGED <<stage, clsMap, sig, todo, all>>
    BY <1>10 DEF vars
  <2>2. AllMethods' = AllMethods
    BY <2>1, AllMethodsKept
  <2>3. SigsFilled'
    BY <1>1, <2>1 DEF SigsFilled, Sigs, GoodTypes, Own, OwnKeys
  <2> QED
    BY <1>1, <2>1, <2>2, <2>3 DEF ImporterInv
<1> QED
  BY <1>3, <1>4, <1>5, <1>6, <1>7, <1>8, <1>9, <1>10, <1>12, <1>13 DEF Next

\* The invariant of Import: what Imported says of the descriptors; in the later stages
\* every class visited has the signatures of its methods, allMethods is what
\* fillAllMethods computes, and a panic means that java.lang.Object was not imported.
THEOREM ImporterInvariant == Spec => []ImporterInv
<1> QED
  BY ImporterInit, ImporterNext, PTL DEF Spec

\* Whatever the class path and the source are: once the referenced classes are imported
\* every class that a descriptor names has a descriptor, and so has every class that is
\* returned; commonType and fillJNINames meet a class without one, and panic, only if
\* java.lang.Object is not among those imported (importReferencedClasses, Import).
THEOREM ImporterTypeOK == Spec => []TypeOK
<1>1. ImporterInv => TypeOK
  <2> SUFFICES ASSUME ImporterInv
               PROVE  TypeOK
    OBVIOUS
  <2>1. Imported /\ ImporterTypes /\ SigsFilled
    BY DEF ImporterInv, Imported
  <2>2. stage \in {"ancestors", "names", "done"} => DOMAIN all = DOMAIN clsMap
    BY StageFacts, AllMethodsFacts DEF ImporterInv
  <2>3. stage = "panicked" => Object \notin DOMAIN clsMap
    BY DEF ImporterInv
  <2>4. stage \notin {"import", "refer", "failed"} =>
          \A c \in DOMAIN clsMap : MemberTypes(clsMap[c]) \cup ToSet(Supers(c)) \subseteq DOMAIN clsMap
    BY <2>1 DEF Imported, Linked
  <2>5. DOMAIN sig \subseteq OwnKeys
    <3>1. DOMAIN <<>> = {}
      OBVIOUS
    <3> QED
      BY <2>1, <3>1 DEF SigsFilled
  <2> QED
    BY <2>1, <2>2, <2>3, <2>4, <2>5 DEF TypeOK, Imported, ImporterTypes, Stages
<1> QED
  BY <1>1, ImporterInvariant, PTL

-----------------------------------------------------------------------------
(* The stubs of the classes that are returned. *)

\* A stub that GenGo makes a call of is one that GenC and GenH make.
LEMMA CallsDeclared ==
  ASSUME NEW c, clsMap[c].funcs \in Seq(Funcs), NEW x \in GoCalls(c), x.prefix = "cproxy_s" => x.f.pub
  PROVE  x \in CDecls(c)
<1>1. ASSUME NEW n \in GoFunctions(c), NEW f \in SupportedIn(Variants(clsMap[c].funcs, n)), x = CFunc("cproxy_s", f)
      PROVE  x \in StaticDecls(c)
  <2>1. f \in ToSet(clsMap[c].funcs) /\ IsFuncSupported(f)
    <3>1. f \in ToSet(Variants(clsMap[c].funcs, n)) /\ IsFuncSupported(f)
      BY DEF SupportedIn
    <3> QED
      BY <3>1, KeepFacts DEF Variants
  <2>2. f.pub
    BY <1>1 DEF CFunc
  <2> QED
    BY <1>1, <2>1, <2>2 DEF StaticDecls, SupportedIn
<1>2. ASSUME NEW n \in ProxyMethods(c), NEW f \in SupportedIn(all[c][n].funcs),
             NEW pre \in {"cproxy"} \cup {y \in {"csuper"} : IsGoClass(c)}, x = CFunc(pre, f)
      PROVE  x \in MethodDecls(c) \cup SuperDecls(c)
  <2>1. n \in DOMAIN all[c] /\ (pre = "cproxy" \/ (pre = "csuper" /\ IsGoClass(c)))
    BY DEF ProxyMethods
  <2> QED
    BY <1>2, <2>1 DEF MethodDecls, SuperDecls
<1> QED
  BY <1>1, <1>2 DEF GoCalls, CDecls

\* A stub is that of a variant in one of the function sets of its class.
InSets(c, f) == \E fs \in FuncSets(c) : f \in ToSet(fs)
LEMMA DeclsInSets ==
  ASSUME NEW c, clsMap[c].funcs \in Seq(Funcs), NEW x \in CDecls(c)
  PROVE  InSets(c, x.f)
<1>1. ASSUME NEW f \in SupportedIn(clsMap[c].funcs)
      PROVE  InSets(c, f)
  <2>1. f \in ToSet(clsMap[c].funcs) /\ f.n \in NamesOf(clsMap[c].funcs)
    BY DEF SupportedIn, NamesOf
  <2>2. f \in ToSet(Variants(clsMap[c].funcs, f.n))
    BY <2>1, KeepFacts DEF Variants
  <2> QED
    BY <2>1, <2>2 DEF InSets, FuncSets
<1>2. ASSUME NEW n \in DOMAIN all[c], NEW f \in SupportedIn(all[c][n].funcs)
      PROVE  InSets(c, f)
  BY DEF InSets, FuncSets, SupportedIn
<1>3. CASE x \in StaticDecls(c)
  BY <1>1, <1>3 DEF StaticDecls, CFunc
<1>4. CASE x \in MethodDecls(c)
  BY <1>2, <1>4 DEF MethodDecls, CFunc
<1>5. CASE x \in SuperDecls(c)
  BY <1>2, <1>5 DEF SuperDecls, CFunc
<1> QED
  BY <1>3, <1>4, <1>5 DEF CDecls

\* Function sets are lists.
LEMMA SetsTyped ==
  ASSUME ImporterInv, stage \in {"names", "done"}, NEW c \in classes, NEW fs \in FuncSets(c)
  PROVE  fs \in Seq(Funcs)
<1>1. AllFilled /\ all = AllMethods /\ c \in DOMAIN clsMap
  BY StageFacts DEF ImporterInv, Imported, ImporterTypes
<1>2. clsMap[c].funcs \in Seq(Funcs)
  BY <1>1, ClassFacts DEF ImporterInv
<1>3. ASSUME NEW n \in NamesOf(clsMap[c].funcs), fs = Variants(clsMap[c].funcs, n)
      PROVE  fs \in Seq(Funcs)
  BY <1>2, <1>3, KeepFacts DEF Variants
<1>4. ASSUME NEW n \in DOMAIN all[c], fs = all[c][n].funcs
      PROVE  fs \in Seq(Funcs)
  BY <1>1, <1>4, AllMethodsFacts DEF Entry
<1> QED
  BY <1>3, <1>4 DEF FuncSets

\* A variant of a class that has been named bears its parameters, or one of the classes
\* named has no other of its name.
Alone(S, f) == \E d \in S : \E fs \in FuncSets(d) : f \in ToSet(fs) /\ Len(fs) = 1
Named(S) == \A c \in S : \A fs \in FuncSets(c) : \A f \in ToSet(fs) : f \in withArgs \/ Alone(S, f)
NamesGiven == /\ stage \in {"names", "done"} => Named(classes \ todo)
              /\ stage = "names" => todo \subseteq classes
              /\ stage = "done" => todo = {}

LEMMA FillJNINamesNamed ==
  ASSUME ImporterInv, NamesGiven, NEW c \in todo, FillJNINames(c)
  PROVE  NamesGiven'
<1> DEFINE S == classes \ todo
           T == classes \ (todo \ {c})
           long == {fs \in FuncSets(c) : IsOverloaded(fs)}
<1>1. /\ stage = "names" /\ todo' = todo \ {c} /\ UNCHANGED <<stage, clsMap, classes, all>>
      /\ withArgs' = (withArgs \ UNION {ToSet(fs) : fs \in FuncSets(c)}) \cup UNION {ToSet(fs) : fs \in long}
  BY DEF FillJNINames
<1>2. Named(S)
  BY <1>1 DEF NamesGiven
<1>3. \A d : FuncSets(d)' = FuncSets(d)
  BY <1>1 DEF FuncSets
<1>4. \A d \in T : d \in S \/ d = c
  OBVIOUS
<1>5. \A f : Alone(S, f) => Alone(T, f)
  BY DEF Alone
<1> HIDE DEF S
<1>6. ASSUME NEW d \in T, NEW fs \in FuncSets(d), NEW f \in ToSet(fs), f \notin withArgs'
      PROVE  Alone(T, f)
  <2>1. CASE \E gs \in FuncSets(c) : f \in ToSet(gs)
    <3>1. PICK gs \in FuncSets(c) : f \in ToSet(gs)
      BY <2>1
    <3>2. c \in classes /\ c \in T
      BY <1>1 DEF NamesGiven
    <3>3. gs \in Seq(Funcs)
      BY <1>1, <3>2, SetsTyped
    <3>4. ~(Len(gs) > 1)
      BY <1>1, <1>6, <3>1 DEF IsOverloaded
    <3>5. Len(gs) = 1
      <4>1. PICK i \in 1 .. Len(gs) : gs[i] = f
        BY <3>1, <3>3, ToSetFacts
      <4>2. Len(gs) \in Nat
        BY <3>3
      <4>3. \A n \in Nat : ~(n > 1) /\ i \in 1 .. n => n = 1
        OBVIOUS
      <4> QED
        BY <3>4, <4>1, <4>2, <4>3
    <3> QED
      BY <3>1, <3>2, <3>5 DEF Alone
  <2>2. CASE ~\E gs \in FuncSets(c) : f \in ToSet(gs)
    <3>1. d \in S
      BY <1>4, <1>6, <2>2
    <3>2. f \in withArgs \/ Alone(S, f)
      BY <1>2, <1>6, <3>1 DEF Named
    <3>3. f \notin withArgs
      BY <1>1, <1>6, <2>2
    <3> QED
      BY <1>5, <3>2, <3>3
  <2> QED
    BY <2>1, <2>2
<1>7. \A f : Alone(T, f) => Alone(T, f)'
  BY <1>1, <1>3 DEF Alone
<1>8. todo \subseteq classes
  BY <1>1 DEF NamesGiven
<1> QED
  BY <1>1, <1>3, <1>6, <1>7, <1>8 DEF Named, NamesGiven

LEMMA NamesGivenNext ==
  ASSUME ImporterInv, NamesGiven, [Next]_vars
  PROVE  NamesGiven'
<1>1. ASSUME stage' \notin {"names", "done"}
      PROVE  NamesGiven'
  BY <1>1 DEF NamesGiven
<1>2. CASE ImportNamed \/ ImportReferenced \/ Embed \/ IncludeImplicit
  BY <1>1, <1>2 DEF ImportNamed, ImportReferenced, Embed, IncludeImplicit
<1>3. ASSUME NEW c \in todo, FillSigs(c)
      PROVE  NamesGiven'
  BY <1>1, <1>3 DEF FillSigs
<1>4. CASE FillAllMethods
  BY <1>1, <1>4 DEF FillAllMethods
<1>5. CASE IncludeAncestors
  <2>1. stage' = "panicked" \/ (stage' = "names" /\ todo' = classes')
    BY <1>5 DEF IncludeAncestors
  <2> QED
    BY <1>1, <2>1 DEF NamesGiven, Named
<1>6. ASSUME UNCHANGED <<clsMap, classes, all, todo, withArgs>>, stage \in {"names", "done"},
             stage' \in {"names", "done"}, stage' = "names" => stage = "names", todo = {} \/ stage' = stage
      PROVE  NamesGiven'
  <2>1. \A d : FuncSets(d)' = FuncSets(d)
    BY <1>6 DEF FuncSets
  <2>2. \A S, f : Alone(S, f)' = Alone(S, f)
    BY <2>1 DEF Alone
  <2>3. \A S : Named(S)' = Named(S)
    BY <1>6, <2>1, <2>2 DEF Named
  <2>4. Named(classes \ todo)
    BY <1>6 DEF NamesGiven
  <2> QED
    BY <1>6, <2>3, <2>4 DEF NamesGiven
<1>7. CASE FillThrowables
  BY <1>6, <1>7 DEF FillThrowables
<1>8. CASE UNCHANGED vars
  <2>1. UNCHANGED <<stage, clsMap, classes, all, todo, withArgs>>
    BY <1>8 DEF vars
  <2> QED
    BY <1>1, <1>6, <2>1
<1>9. ASSUME NEW c \in todo, FillJNINames(c)
      PROVE  NamesGiven'
  BY <1>9, FillJNINamesNamed
<1> QED
  BY <1>2, <1>3, <1>4, <1>5, <1>7, <1>8, <1>9 DEF Next

\* Whatever classes, overrides and overloads the class path has, and whichever of the classes
\* that share a method names it last: every C stub that the generated Go files call is
\* declared and defined, and no other stub of the class has its name.  The exceptions are
\* those of StubsLink: protected variants, variants that differ only in their result, and two
\* variants that each are alone in some other class.  Also, the function variables that
\* GenPackage declares are those that GenGo assigns.
THEOREM StubsLinkHolds == Spec => []StubsLink
<1>1. Init => ImporterInv /\ NamesGiven
  BY ImporterInit DEF Init, NamesGiven
<1>2. ImporterInv /\ NamesGiven /\ [Next]_vars => (ImporterInv /\ NamesGiven)'
  BY ImporterNext, NamesGivenNext
<1>3. ImporterInv /\ NamesGiven => StubsLink
  <2> DEFINE Confused(f, g) == f.n = g.n /\ (f.ps = g.ps \/ (Alone(classes, f) /\ Alone(classes, g)))
  <2> SUFFICES ASSUME ImporterInv, NamesGiven, Done, NEW c \in classes
               PROVE  /\ \A x \in {y \in GoCalls(c) : y.prefix = "cproxy_s" => y.f.pub} :
                           /\ x \in CDecls(c)
                           /\ \A y \in CDecls(c) : CName(c, y) = CName(c, x) => y = x \/ Confused(x.f, y.f)
                      /\ GoFunctions(c) = PackageVars(c)
    BY DEF StubsLink, Alone
  <2>1. clsMap[c].funcs \in Seq(Funcs)
    BY ClassFacts DEF ImporterInv, Imported, ImporterTypes
  <2>2. Named(classes)
    <3>1. classes \ {} = classes
      OBVIOUS
    <3> QED
      BY <3>1 DEF NamesGiven, Done
  <2>3. \A x \in CDecls(c) : x.f \in withArgs \/ Alone(classes, x.f)
    BY <2>1, <2>2, DeclsInSets DEF InSets, Named
  <2>4. ASSUME NEW x \in CDecls(c), NEW y \in CDecls(c), CName(c, y) = CName(c, x)
        PROVE  y = x \/ Confused(x.f, y.f)
    <3>1. JNIName(y.f) = JNIName(x.f)
      BY <2>4 DEF CName
    <3>2. \A f : f \in withArgs => JNIName(f) = <<f.n, f.ps>>
      BY DEF JNIName
    <3>3. \A f : f \notin withArgs => JNIName(f) = <<f.n>>
      BY DEF JNIName
    <3>4. CASE x.f \in withArgs /\ y.f \in withArgs
      BY <3>1, <3>2, <3>4
    <3>5. CASE x.f \notin withArgs /\ y.f \notin withArgs
      BY <2>3, <3>1, <3>3, <3>5
    <3>6. \A a, b, d : <<a, b>> # <<d>>
      OBVIOUS
    <3> QED
      BY <3>1, <3>2, <3>3, <3>4, <3>5, <3>6
  <2>5. \A x \in GoCalls(c) : (x.prefix = "cproxy_s" => x.f.pub) => x \in CDecls(c)
    BY <2>1, CallsDeclared
  <2>6. GoFunctions(c) = PackageVars(c)
    BY DEF GoFunctions, PackageVars
  <2> QED
    BY <2>4, <2>5, <2>6
<1> QED
  BY <1>1, <1>2, <1>3, PTL DEF Spec

-----------------------------------------------------------------------------
(* The methods that are kept of a class. *)

Wanted == Names(src) \cup {"ToString"}
DeclaredIn(c) == {f \in ToSet(Shown(c).funcs) : f.kind = "method"}
AsShown(c) == c \in Findable /\ \A f : f \in ToSet(clsMap[c].methods) <=> f \in DeclaredIn(c)
AsWanted(c) == c \in Findable /\ \A f : f \in ToSet(clsMap[c].methods) <=> f \in DeclaredIn(c) /\ f.n \in Wanted
OfStruct(c) == c \in GoClasses /\ ToSet(clsMap[c].methods) = {}
\* Those the source names are filtered at once, the others when all are there.
MethodsKept ==
    /\ stage = "refer" => \A c \in DOMAIN clsMap : IF c \in classes THEN AsWanted(c) ELSE AsShown(c)
    /\ stage \notin {"import", "refer", "failed"} => \A c \in DOMAIN clsMap : AsWanted(c) \/ OfStruct(c)

\* What javap does not find has no methods.
LEMMA NothingShown ==
  ASSUME NEW c, c \notin DOMAIN U
  PROVE  DeclaredIn(c) = {}
<1>1. ToSet(<<>>) = {}
  BY DEF ToSet
<1> QED
  BY <1>1 DEF DeclaredIn, Shown

LEMMA ScanKept ==
  ASSUME U \in Universes, NEW c \in Findable
  PROVE  \A f : f \in ToSet(Scan(c).methods) <=> f \in DeclaredIn(c)
<1> DEFINE fs == Shown(c).funcs
<1>1. fs \in Seq(Funcs)
  BY UniverseFacts DEF Shown
<1>2. \A f \in ToSet(fs) : f \in Funcs
  BY <1>1, ToSetFacts
<1>3. \A f \in ToSet(fs) : ~IsFunc(f) <=> f.kind = "method"
  BY <1>2 DEF IsFunc, Funcs
<1>4. Scan(c).methods = Keep(fs, {f \in ToSet(fs) : ~IsFunc(f)})
  BY DEF Scan
<1> HIDE DEF fs
<1>5. \A f : f \in ToSet(Scan(c).methods) <=> f \in ToSet(fs) /\ f \in {g \in ToSet(fs) : ~IsFunc(g)}
  BY <1>1, <1>4, KeepFacts
<1> QED
  BY <1>3, <1>5 DEF DeclaredIn, fs

LEMMA FilterKept ==
  ASSUME NEW cm, cm \in [DOMAIN cm -> Descs], NEW cs, NEW c \in DOMAIN cm
  PROVE  \A f : f \in ToSet(Filter(cm, cs, src)[c].methods) <=>
                  f \in ToSet(cm[c].methods) /\ (c \in cs => f.n \in Wanted)
<1> DEFINE ms == cm[c].methods
           k == [cm[c] EXCEPT !.funcs = KeptFuncs(c, cm[c].funcs, src), !.methods = KeptMethods(ms, src)]
<1>1. cm[c] \in Descs
  OBVIOUS
<1>2. ms \in Seq(Funcs) /\ k.methods = KeptMethods(ms, src)
  BY <1>1 DEF Descs
<1>3. Filter(cm, cs, src)[c] = IF c \in cs THEN k ELSE cm[c]
  BY DEF Filter
<1> HIDE DEF k, ms
<1>4. \A f : f \in ToSet(KeptMethods(ms, src)) <=> f \in ToSet(ms) /\ f \in {g \in ToSet(ms) : g.n \in Names(src) \cup {"ToString"}}
  BY <1>2, KeepFacts DEF KeptMethods
<1>5. CASE c \in cs
  <2>1. Filter(cm, cs, src)[c].methods = KeptMethods(ms, src)
    BY <1>2, <1>3, <1>5
  <2> QED
    BY <1>4, <1>5, <2>1 DEF Wanted, ms
<1>6. CASE c \notin cs
  BY <1>3, <1>6 DEF ms
<1> QED
  BY <1>5, <1>6

LEMMA ImportNamedKept ==
  ASSUME Imported, ImportNamed
  PROVE  MethodsKept'
<1> DEFINE found == Candidates \cap DOMAIN U
           cm == Import(<<>>, found)
<1>1. U \in Universes
  BY DEF Imported
<1>2. cm = [c \in found |-> Scan(c)]
  BY DEF Import
<1>3. cm \in [found -> Descs] /\ DOMAIN cm = found
  BY <1>1, <1>2, ScanTyped DEF Findable
<1>4. clsMap' = Filter(cm, found, src) /\ classes' = found /\ stage' = "refer" /\ UNCHANGED <<U, src>>
  BY DEF ImportNamed
<1>5. \A c \in found : \A f : f \in ToSet(cm[c].methods) <=> f \in DeclaredIn(c)
  BY <1>1, <1>2, ScanKept DEF Findable
<1> HIDE DEF cm
<1>6. \A c \in found : \A f : f \in ToSet(clsMap'[c].methods) <=> f \in DeclaredIn(c) /\ f.n \in Wanted
  BY <1>3, <1>4, <1>5, FilterKept
<1>7. DOMAIN clsMap' = found
  BY <1>3, <1>4 DEF Filter
<1>8. \A c : DeclaredIn(c)' = DeclaredIn(c)
  BY <1>4 DEF DeclaredIn, Shown
<1>9. Wanted' = Wanted
  BY <1>4 DEF Wanted
<1>10. \A c \in found : AsWanted(c)'
  BY <1>4, <1>6, <1>8, <1>9 DEF AsWanted, Findable
<1> QED
  BY <1>4, <1>7, <1>10 DEF MethodsKept

LEMMA ImportReferencedKept ==
  ASSUME Imported, MethodsKept, ImportReferenced
  PROVE  MethodsKept'
<1> DEFINE new == UnknownImplicit(clsMap, todo)
<1>1. /\ U \in Universes /\ stage = "refer" /\ classes \subseteq DOMAIN clsMap
      /\ clsMap \in [DOMAIN clsMap -> Descs]
  BY DEF Imported, ImporterTypes, ImportReferenced
<1>2. UNCHANGED <<U, src, classes>>
  BY DEF ImportReferenced
<1>3. \A c \in DOMAIN clsMap : IF c \in classes THEN AsWanted(c) ELSE AsShown(c)
  BY <1>1 DEF MethodsKept
<1>4. (\A c : DeclaredIn(c)' = DeclaredIn(c)) /\ Wanted' = Wanted /\ Findable' = Findable
  BY <1>2 DEF DeclaredIn, Shown, Wanted, Findable
<1>5. CASE clsMap' = Filter(clsMap, DOMAIN clsMap \ classes, src) /\ stage' = "embed"
  <2>1. DOMAIN clsMap' = DOMAIN clsMap
    BY <1>5 DEF Filter
  <2>2. \A c \in DOMAIN clsMap : \A f : f \in ToSet(clsMap'[c].methods) <=>
          f \in ToSet(clsMap[c].methods) /\ (c \in DOMAIN clsMap \ classes => f.n \in Wanted)
    BY <1>1, <1>5, FilterKept
  <2>3. ASSUME NEW c \in DOMAIN clsMap
        PROVE  AsWanted(c)'
    <3>1. c \in Findable /\ \A f : f \in ToSet(clsMap'[c].methods) <=> f \in DeclaredIn(c) /\ f.n \in Wanted
      BY <1>3, <2>2 DEF AsWanted, AsShown
    <3> QED
      BY <1>2, <1>4, <3>1 DEF AsWanted
  <2> QED
    BY <1>5, <2>1, <2>3 DEF MethodsKept
<1>6. CASE new \subseteq Findable /\ clsMap' = Import(clsMap, new) /\ stage' = stage
  <2>1. clsMap' = [c \in DOMAIN clsMap \cup new |-> IF c \in new THEN Scan(c) ELSE clsMap[c]]
    BY <1>6 DEF Import
  <2>2. DOMAIN clsMap' = DOMAIN clsMap \cup new /\ new \cap DOMAIN clsMap = {}
    BY <2>1 DEF UnknownImplicit
  <2> HIDE DEF new
  <2>3. ASSUME NEW c \in new
        PROVE  c \notin classes /\ AsShown(c)'
    <3>1. c \in Findable /\ clsMap'[c] = Scan(c)
      BY <1>6, <2>1
    <3>2. \A f : f \in ToSet(clsMap'[c].methods) <=> f \in DeclaredIn(c)
      BY <1>1, <3>1, ScanKept
    <3> QED
      BY <1>1, <1>2, <1>4, <2>2, <3>1, <3>2 DEF AsShown
  <2>4. ASSUME NEW c \in DOMAIN clsMap
        PROVE  IF c \in classes THEN AsWanted(c)' ELSE AsShown(c)'
    <3>1. clsMap'[c] = clsMap[c]
      BY <2>1, <2>2
    <3> QED
      BY <1>2, <1>3, <1>4, <3>1 DEF AsShown, AsWanted
  <2> QED
    BY <1>1, <1>2, <1>6, <2>2, <2>3, <2>4 DEF MethodsKept
<1>7. CASE stage' = "failed"
  BY <1>7 DEF MethodsKept
<1> QED
  BY <1>5, <1>6, <1>7 DEF ImportReferenced

LEMMA EmbedKept ==
  ASSUME Imported, MethodsKept, Embed
  PROVE  MethodsKept'
<1>1. stage = "embed" /\ UNCHANGED <<U, src>> /\ \A c \in DOMAIN clsMap : AsWanted(c) \/ OfStruct(c)
  BY DEF MethodsKept, Embed
<1>2. /\ \A c : DeclaredIn(c)' = DeclaredIn(c)
      /\ Wanted' = Wanted /\ GoClasses' = GoClasses /\ Findable' = Findable
  BY <1>1 DEF DeclaredIn, Shown, Wanted, GoClasses, Findable
<1>3. CASE stage' = "failed"
  BY <1>3 DEF MethodsKept
<1>4. CASE /\ clsMap' = [c \in DOMAIN clsMap \cup NewGoClasses |->
                           IF c \in DOMAIN clsMap THEN clsMap[c] ELSE Synthesized(StructOf(c))]
           /\ stage' = "implicit"
  <2>1. ASSUME NEW c \in DOMAIN clsMap
        PROVE  (AsWanted(c) \/ OfStruct(c))'
    <3>1. clsMap'[c] = clsMap[c]
      BY <1>4
    <3> QED
      BY <1>1, <1>2, <3>1 DEF AsWanted, OfStruct
  <2>2. ASSUME NEW c \in NewGoClasses
        PROVE  OfStruct(c)'
    <3>1. c \in GoClasses /\ clsMap'[c] = Synthesized(StructOf(c))
      BY <1>4 DEF NewGoClasses
    <3>2. clsMap'[c].methods = <<>>
      BY <3>1 DEF Synthesized
    <3>3. ToSet(<<>>) = {}
      BY DEF ToSet
    <3> QED
      BY <1>2, <3>1, <3>2, <3>3 DEF OfStruct
  <2>3. DOMAIN clsMap' = DOMAIN clsMap \cup NewGoClasses
    BY <1>4
  <2> QED
    BY <1>4, <2>1, <2>2, <2>3 DEF MethodsKept
<1> QED
  BY <1>3, <1>4 DEF Embed

\* The later steps leave the methods alone.
LEMMA LaterKept ==
  ASSUME MethodsKept, UNCHANGED <<U, src, clsMap>>,
         \/ stage \notin {"import", "refer", "failed"} /\ stage' # "refer"
         \/ stage' = stage /\ classes' = classes
  PROVE  MethodsKept'
<1>1. /\ \A c : DeclaredIn(c)' = DeclaredIn(c)
      /\ Wanted' = Wanted /\ GoClasses' = GoClasses /\ Findable' = Findable
  BY DEF DeclaredIn, Shown, Wanted, GoClasses, Findable
<1>2. \A c : (AsWanted(c)' <=> AsWanted(c)) /\ (AsShown(c)' <=> AsShown(c)) /\ (OfStruct(c)' <=> OfStruct(c))
  BY <1>1 DEF AsWanted, AsShown, OfStruct
<1> QED
  BY <1>2 DEF MethodsKept

LEMMA MethodsKeptNext ==
  ASSUME Imported, MethodsKept, [Next]_vars
  PROVE  MethodsKept'
<1>1. CASE ImportNamed
  BY <1>1, ImportNamedKept
<1>2. CASE ImportReferenced
  BY <1>2, ImportReferencedKept
<1>3. CASE Embed
  BY <1>3, EmbedKept
<1>4. CASE IncludeImplicit
  <2>1. stage = "implicit" /\ stage' = "sigs" /\ UNCHANGED <<U, src, clsMap>>
    BY <1>4 DEF IncludeImplicit
  <2> QED
    BY <2>1, LaterKept
<1>5. ASSUME NEW c \in todo, FillSigs(c)
      PROVE  MethodsKept'
  <2>1. stage = "sigs" /\ stage' \in {"sigs", "panicked"} /\ UNCHANGED <<U, src, clsMap>>
    BY <1>5 DEF FillSigs
  <2> QED
    BY <2>1, LaterKept
<1>6. CASE FillAllMethods
  <2>1. stage = "sigs" /\ stage' \in {"ancestors", "panicked"} /\ UNCHANGED <<U, src, clsMap>>
    BY <1>6 DEF FillAllMethods
  <2> QED
    BY <2>1, LaterKept
<1>7. CASE IncludeAncestors \/ FillThrowables
  <2>1. /\ stage \in {"ancestors", "names"} /\ stage' \in {"names", "done", "panicked"}
        /\ UNCHANGED <<U, src, clsMap>>
    BY <1>7 DEF IncludeAncestors, FillThrowables
  <2> QED
    BY <2>1, LaterKept
<1>8. ASSUME NEW c \in todo, FillJNINames(c)
      PROVE  MethodsKept'
  <2>1. stage = "names" /\ stage' = "names" /\ UNCHANGED <<U, src, clsMap>>
    BY <1>8 DEF FillJNINames
  <2> QED
    BY <2>1, LaterKept
<1>9. CASE UNCHANGED vars
  BY <1>9, LaterKept DEF vars
<1> QED
  BY <1>1, <1>2, <1>3, <1>4, <1>5, <1>6, <1>7, <1>8, <1>9 DEF Next

\* Between importReferencedClasses and the end the methods of a descriptor are those that
\* javap shows and the source mentions by name; filterReferences has been over each class
\* exactly once, whichever way the class was found.
THEOREM MethodsKeptInvariant == Spec => []MethodsKept
<1>1. Init => MethodsKept
  BY DEF Init, MethodsKept
<1> QED
  BY <1>1, ImportedInvariant, MethodsKeptNext, PTL DEF Spec

\* Whatever the class path and the source: a class that is returned has exactly the
\* methods that javap shows of it and of its ancestors and that the source mentions by
\* name (or toString), each signature once; unless an ancestor is the class of a Go
\* struct that javap shows an old version of (filterReferences, fillAllMethods).
THEOREM AllMethodsExactHolds == Spec => []AllMethodsExact
<1>1. ASSUME ImporterInv, MethodsKept
      PROVE  AllMethodsExact
  <2> SUFFICES ASSUME Done, NEW c \in classes, NEW n \in Wanted, Ancestors(clsMap, c) \cap DOMAIN U \cap GoClasses = {}
               PROVE  LET declared == {f \in UNION {ToSet(U[d].funcs) : d \in Ancestors(clsMap, c) \cap DOMAIN U} :
                                         f.kind = "method" /\ f.n = n}
                          got == IF n \in DOMAIN all[c] THEN all[c][n].funcs ELSE <<>>
                      IN /\ \A f \in declared : \E g \in ToSet(got) : Overrides(f, g)
                         /\ ToSet(got) \subseteq declared
                         /\ \A i, j \in DOMAIN got : Overrides(got[i], got[j]) => i = j
    BY DEF AllMethodsExact, Wanted
  <2> DEFINE above == Ancestors(clsMap, c)
             declared == {f \in UNION {ToSet(U[d].funcs) : d \in above \cap DOMAIN U} : f.kind = "method" /\ f.n = n}
             got == IF n \in DOMAIN all[c] THEN all[c][n].funcs ELSE <<>>
  <2>1. AllFilled /\ all = AllMethods /\ c \in DOMAIN clsMap
    BY <1>1, StageFacts DEF Done, ImporterInv, Imported, ImporterTypes
  <2>2. /\ above \subseteq DOMAIN clsMap
        /\ \A d \in above : \A f \in VariantsIn(clsMap[d].methods, n) :
             n \in DOMAIN all[c] /\ \E g \in ToSet(all[c][n].funcs) : Overrides(g, f)
        /\ n \in DOMAIN all[c] =>
             /\ all[c][n] \in Entry /\ NoTwo(all[c][n].funcs)
             /\ \A f \in ToSet(all[c][n].funcs) : \E d \in above : f \in VariantsIn(clsMap[d].methods, n)
    BY <2>1, AllMethodsFacts
  <2>3. \A d \in above \cap DOMAIN U : \A f : f \in VariantsIn(clsMap[d].methods, n) <=>
                                             f \in ToSet(U[d].funcs) /\ f.kind = "method" /\ f.n = n
    <3> TAKE d \in above \cap DOMAIN U
    <3>1. AsWanted(d)
      BY <1>1, <2>2 DEF MethodsKept, OfStruct, Done
    <3> QED
      BY <3>1 DEF AsWanted, DeclaredIn, Shown, VariantsIn
  <2>4. \A d \in above : d \notin DOMAIN U => VariantsIn(clsMap[d].methods, n) = {}
    <3> SUFFICES ASSUME NEW d \in above, d \notin DOMAIN U
                 PROVE  VariantsIn(clsMap[d].methods, n) = {}
      OBVIOUS
    <3>1. AsWanted(d) \/ OfStruct(d)
      BY <1>1, <2>2 DEF MethodsKept, Done
    <3>2. DeclaredIn(d) = {}
      BY NothingShown
    <3> QED
      BY <3>1, <3>2 DEF OfStruct, AsWanted, VariantsIn
  <2> HIDE DEF above
  <2>5. \A f \in declared : \E g \in ToSet(got) : Overrides(f, g)
    <3> TAKE f \in declared
    <3>1. PICK d \in above \cap DOMAIN U : f \in VariantsIn(clsMap[d].methods, n)
      BY <2>3
    <3>2. PICK g \in ToSet(all[c][n].funcs) : n \in DOMAIN all[c] /\ Overrides(g, f)
      BY <2>2, <3>1
    <3> QED
      BY <3>2 DEF Overrides
  <2>6. ToSet(got) \subseteq declared
    <3>1. CASE n \in DOMAIN all[c]
      BY <2>2, <2>3, <2>4, <3>1
    <3>2. CASE n \notin DOMAIN all[c]
      BY <3>2 DEF ToSet
    <3> QED
      BY <3>1, <3>2
  <2>7. \A i, j \in DOMAIN got : Overrides(got[i], got[j]) => i = j
    <3>1. CASE n \in DOMAIN all[c]
      <4>1. got \in Seq(Funcs) /\ NoTwo(got)
        BY <2>2, <3>1 DEF Entry
      <4>2. DOMAIN got = 1 .. Len(got)
        BY <4>1
      <4> QED
        BY <4>1, <4>2 DEF NoTwo
    <3>2. CASE n \notin DOMAIN all[c]
      BY <3>2
    <3> QED
      BY <3>1, <3>2
  <2> QED
    BY <2>5, <2>6, <2>7 DEF above
<1> QED
  BY <1>1, ImporterInvariant, MethodsKeptInvariant, PTL

-----------------------------------------------------------------------------
(* The signatures of methods that no other class of the same line declares. *)

LEMMA DispatchFitsAll ==
  ASSUME NEW fs \in Seq(Funcs), Len(fs) > 0, \A f \in ToSet(fs) : IsFuncSupported(f),
         NEW s \in Sigs, Spans(s, ToSet(fs))
  PROVE  DispatchFits(fs, s)
<1>1. PICK a, b \in Nat : /\ \A f \in ToSet(fs) : a <= Len(f.ps) /\ Len(f.ps) <= b
                          /\ \E f \in ToSet(fs) : Len(f.ps) = a
                          /\ \E f \in ToSet(fs) : Len(f.ps) = b
                          /\ s.variadic <=> a # b
                          /\ Len(s.ps) = IF a = b THEN a ELSE a + 1
  BY DEF Spans
<1>2. \A f \in ToSet(fs) : f \in Funcs
  BY ToSetFacts
<1>3. \A f \in ToSet(fs) : f.ps \in Seq(Types) /\ Len(f.ps) \in Nat /\ DOMAIN f.ps = 1 .. Len(f.ps)
  <2> TAKE f \in ToSet(fs)
  <2>1. f.ps \in Seq(Types)
    BY <1>2 DEF Funcs
  <2> QED
    BY <2>1
<1>4. \A f : f \in SupportedIn(fs) <=> f \in ToSet(fs)
  BY DEF SupportedIn
<1>5. fs[1] \in ToSet(fs)
  <2>1. 1 \in 1 .. Len(fs)
    OBVIOUS
  <2> QED
    BY <2>1, ToSetFacts
<1>6. MinParams(fs) = a
  <2> DEFINE S == {Len(fs[1].ps)} \cup {Len(f.ps) : f \in SupportedIn(fs)}
  <2>1. S \in SUBSET Nat /\ a \in S /\ b \in S /\ \A x \in S : a <= x /\ x <= b
    BY <1>1, <1>3, <1>4, <1>5
  <2>2. MinParams(fs) = Min(S)
    BY DEF MinParams
  <2> HIDE DEF S
  <2> QED
    BY <2>1, <2>2, LeastGreatest
<1>7. a = b => Cardinality(Buckets(fs)) = 1
  <2> SUFFICES ASSUME a = b
               PROVE  Cardinality(Buckets(fs)) = 1
    OBVIOUS
  <2>1. \A x : x \in Buckets(fs) <=> x = a
    BY <1>1, <1>3, <1>4 DEF Buckets
  <2>2. Buckets(fs) = {a}
    BY <2>1
  <2> QED
    BY <2>2, FS_Singleton
<1>8. s.ps \in Seq(GoodTypes)
  BY DEF Sigs, SigsOver
<1>9. DOMAIN s.ps = 1 .. Len(s.ps)
  BY <1>8
<1> DEFINE tail == s.variadic /\ Len(s.ps) = MinParams(fs) + 1
<1>10. a # b => tail
  BY <1>1, <1>6
<1>11. ASSUME NEW f \in SupportedIn(fs), NEW i \in DOMAIN f.ps
       PROVE  IF i > MinParams(fs) THEN tail ELSE i \in DOMAIN s.ps /\ ~(s.variadic /\ i = Len(s.ps))
  <2>1. i \in 1 .. Len(f.ps) /\ Len(f.ps) <= b /\ Len(f.ps) \in Nat
    BY <1>1, <1>3, <1>4
  <2>2. CASE i > a
    BY <1>6, <1>10, <2>1, <2>2
  <2>3. CASE ~(i > a)
    <3>1. i \in 1 .. Len(s.ps)
      BY <1>1, <2>1, <2>3
    <3> QED
      BY <1>1, <1>6, <1>9, <2>1, <2>3, <3>1
  <2> QED
    BY <2>2, <2>3
<1> QED
  BY <1>7, <1>10, <1>11 DEF DispatchFits

\* No class above or below c declares a method of that name.
Lone(c, n) == \A d \in DOMAIN clsMap : n \in NamesOf(clsMap[d].methods) /\ d # c =>
                  c \notin Ancestors(clsMap, d) /\ d \notin Ancestors(clsMap, c)
\* Then no signature of another class is combined with that of c.
LoneSigs ==
    stage \in {"sigs", "ancestors", "names", "done"} =>
      \A c \in DOMAIN clsMap : \A n \in NamesOf(clsMap[c].methods) :
        (stage = "sigs" => c \notin todo) /\ Lone(c, n) => sig[<<c, n>>] = SigOf(clsMap[c].methods, n)

LEMMA LoneSigsFill ==
  ASSUME ImporterInv, LoneSigs, NEW d \in todo, FillSigs(d)
  PROVE  LoneSigs'
<1> DEFINE sf == Filled(sig, d)
           sg == Widened(sf, d)
<1>1. stage = "sigs" /\ UNCHANGED clsMap /\ sig' = sg /\ todo' = todo \ {d} /\ stage' \in {"sigs", "panicked"}
  BY DEF FillSigs
<1>2. AllLinked /\ d \in DOMAIN clsMap /\ DOMAIN sig = OwnKeys
  BY <1>1, StageFacts DEF ImporterInv, Imported, ImporterTypes, SigsFilled
<1>3. /\ DOMAIN sf = DOMAIN sig
      /\ \A n \in NamesOf(clsMap[d].methods) : <<d, n>> \in DOMAIN sig => sf[<<d, n>>] = SigOf(clsMap[d].methods, n)
      /\ \A x \in DOMAIN sig \ Own(d) : sf[x] = sig[x]
      /\ \A x : x \in Own(d) <=> \E n \in NamesOf(clsMap[d].methods) : x = <<d, n>>
  BY FilledFacts
<1> HIDE DEF sf
<1>4. DOMAIN sg = DOMAIN sf /\ \A x \in DOMAIN sf : x[2] \notin NamesOf(clsMap[d].methods) => sg[x] = sf[x]
  BY WidenedRest
<1> HIDE DEF sg
<1>5. ASSUME NEW c \in DOMAIN clsMap, NEW n \in NamesOf(clsMap[c].methods), c \notin todo \ {d}, Lone(c, n)
      PROVE  sg[<<c, n>>] = SigOf(clsMap[c].methods, n)
  <2> DEFINE x == <<c, n>>
             s == SigOf(clsMap[c].methods, n)
  <2>0. x \in DOMAIN sig /\ x \in DOMAIN sf
    BY <1>2, <1>3, OwnIn
  <2>1. sf[x] = s
    <3>1. CASE c = d
      BY <1>3, <2>0, <3>1
    <3>2. CASE c # d
      <4>1. x \notin Own(d)
        BY <1>3, <3>2
      <4> QED
        BY <1>1, <1>3, <1>5, <2>0, <3>2, <4>1 DEF LoneSigs
    <3> QED
      BY <3>1, <3>2
  <2>2. s \in Sigs
    BY <1>2, MembersLinked, SigOfFacts
  <2>3. CASE n \notin NamesOf(clsMap[d].methods)
    BY <1>4, <2>0, <2>1, <2>3
  <2>4. CASE n \in NamesOf(clsMap[d].methods)
    <3>1. x \in DOMAIN sf /\ x[1] = c /\ x[2] = n
      BY <2>0
    <3>2. c \in ToSet(Levels(d)) => sf[<<d, n>>] = s
      <4>1. ToSet(Levels(d)) \subseteq Ancestors(clsMap, d)
        BY <1>2, LevelsFacts
      <4>2. c \in ToSet(Levels(d)) => c = d
        BY <1>2, <1>5, <2>4, <4>1 DEF Lone
      <4> QED
        BY <2>1, <4>2
    <3>3. \A a, b \in {s} : Combine(<<a, b>>) \in {s}
      <4>1. Combine(<<s, s>>) = s
        BY <2>2, CombineSame DEF Sigs
      <4> QED
        BY <4>1
    <3> HIDE DEF x, s
    <3>4. Widened(sf, d)[x] \in {s}
      BY <1>2, <2>1, <2>4, <3>1, <3>2, <3>3, WidenedIn
    <3> QED
      BY <3>4 DEF sg, x, s
  <2> QED
    BY <2>3, <2>4
<1>6. \A c, n : Lone(c, n)' = Lone(c, n)
  BY <1>1 DEF Lone
<1>7. \A fs, n : SigOf(fs, n)' = SigOf(fs, n)
  BY <1>1, CombineKept
<1> QED
  BY <1>1, <1>5, <1>6, <1>7 DEF LoneSigs

LEMMA LoneSigsNext ==
  ASSUME ImporterInv, LoneSigs, [Next]_vars
  PROVE  LoneSigs'
<1>1. ASSUME stage' \notin {"sigs", "ancestors", "names", "done"}
      PROVE  LoneSigs'
  BY <1>1 DEF LoneSigs
<1>2. ASSUME stage \in {"sigs", "ancestors", "names", "done"}, UNCHANGED <<clsMap, sig>>,
             stage' = "sigs" => stage = "sigs" /\ todo' = todo, stage = "sigs" => stage' = "sigs" \/ todo = {}
      PROVE  LoneSigs'
  <2>1. \A c, n : Lone(c, n)' = Lone(c, n)
    BY <1>2 DEF Lone
  <2>2. \A fs, n : SigOf(fs, n)' = SigOf(fs, n)
    BY <1>2, CombineKept
  <2> QED
    BY <1>2, <2>1, <2>2 DEF LoneSigs
<1>3. CASE IncludeImplicit
  <2>1. stage' = "sigs" /\ todo' = DOMAIN clsMap'
    BY <1>3 DEF IncludeImplicit
  <2> QED
    BY <2>1 DEF LoneSigs
<1>4. CASE ImportNamed \/ ImportReferenced \/ Embed
  BY <1>1, <1>4 DEF ImportNamed, ImportReferenced, Embed
<1>5. ASSUME NEW c \in todo, FillSigs(c)
      PROVE  LoneSigs'
  BY <1>5, LoneSigsFill
<1>6. CASE FillAllMethods \/ IncludeAncestors \/ FillThrowables
  BY <1>2, <1>6 DEF FillAllMethods, IncludeAncestors, FillThrowables
<1>7. ASSUME NEW c \in todo, FillJNINames(c)
      PROVE  LoneSigs'
  BY <1>2, <1>7 DEF FillJNINames
<1>8. CASE UNCHANGED vars
  BY <1>1, <1>2, <1>8 DEF vars
<1> QED
  BY <1>3, <1>4, <1>5, <1>6, <1>7, <1>8 DEF Next

\* However Import orders its classes, fillSuperSigs does not touch the signature of a
\* method that no ancestor and no descendant of its class declares: it stays what
\* fillFuncSigs made of the class's own overloads.
THEOREM LoneSigsInvariant == Spec => []LoneSigs
<1>1. Init => LoneSigs
  BY DEF Init, LoneSigs
<1> QED
  BY <1>1, ImporterInvariant, LoneSigsNext, PTL DEF Spec

\* Whatever classes there are, in whatever order their signatures are filled: the Go
\* method of overloads that no ancestor or descendant declares too, and the Go function of
\* static overloads, take the parameters of every overload they dispatch to, the last one
\* variadic if they differ in number (combineSigs, genFuncBody).
THEOREM VariantsCoveredHolds == Spec => []VariantsCovered
<1>1. ASSUME ImporterInv, LoneSigs, Done, NEW c \in classes
      PROVE  /\ \A n \in ProxyMethods(c) :
                  /\ \A d \in DOMAIN clsMap : <<d, n>> \in DOMAIN sig /\ d # c =>
                        c \notin Ancestors(clsMap, d) /\ d \notin Ancestors(clsMap, c)
                  /\ \A f \in ToSet(all[c][n].funcs) : IsFuncSupported(f)
                  => DispatchFits(all[c][n].funcs, all[c][n].sig)
             /\ \A n \in GoFunctions(c) : (\A f \in ToSet(Variants(clsMap[c].funcs, n)) : IsFuncSupported(f))
                                            => DispatchFits(Variants(clsMap[c].funcs, n), StaticSig(c, n))
  <2>1. AllLinked /\ AllFilled /\ all = AllMethods /\ c \in DOMAIN clsMap
    BY <1>1, StageFacts DEF Done, ImporterInv, Imported, ImporterTypes
  <2>2. ASSUME NEW n \in ProxyMethods(c),
               \A d \in DOMAIN clsMap : <<d, n>> \in DOMAIN sig /\ d # c =>
                   c \notin Ancestors(clsMap, d) /\ d \notin Ancestors(clsMap, c),
               \A f \in ToSet(all[c][n].funcs) : IsFuncSupported(f)
        PROVE  DispatchFits(all[c][n].funcs, all[c][n].sig)
    <3> DEFINE V == VariantsIn(clsMap[c].methods, n)
               fs == all[c][n].funcs
               s == SigOf(clsMap[c].methods, n)
    <3>1. Lone(c, n)
      BY <2>1, <2>2 DEF Lone, AllFilled, Own
    <3>2. /\ n \in MethodNames /\ all[c][n] \in Entry /\ all[c][n] \in ToSet(MethodSets[<<c, n>>])
          /\ \E d \in Ancestors(clsMap, c) : n \in NamesOf(clsMap[d].methods)
          /\ \A f \in ToSet(fs) : \E d \in Ancestors(clsMap, c) : f \in VariantsIn(clsMap[d].methods, n)
          /\ \A d \in Ancestors(clsMap, c) : \A f \in VariantsIn(clsMap[d].methods, n) : \E g \in ToSet(fs) : Overrides(g, f)
          /\ Ancestors(clsMap, c) \subseteq DOMAIN clsMap
      BY <2>1, AllMethodsFacts DEF ProxyMethods
    <3>3. \A d \in Ancestors(clsMap, c) : n \in NamesOf(clsMap[d].methods) => d = c
      BY <3>1, <3>2 DEF Lone
    <3>4. n \in NamesOf(clsMap[c].methods) /\ c \in Ancestors(clsMap, c)
      BY <3>2, <3>3
    <3>5. s \in Sigs /\ Spans(s, V)
      BY <2>1, <3>4, MembersLinked, SigOfFacts
    <3>6. sig[<<c, n>>] = s
      BY <1>1, <2>1, <3>1, <3>4 DEF LoneSigs, Done, AllFilled, Own
    <3>7. all[c][n].sig = s
      <4>1. \A a, b \in {s} : Combine(<<a, b>>) \in {s}
        <5>1. Combine(<<s, s>>) = s
          BY <3>5, CombineSame DEF Sigs
        <5> QED
          BY <5>1
      <4>2. \A d \in Ancestors(clsMap, c) : n \in NamesOf(clsMap[d].methods) => sig[<<d, n>>] \in {s}
        BY <3>3, <3>6
      <4> HIDE DEF s
      <4>3. \A e \in ToSet(MethodSets[<<c, n>>]) : e.sig \in {s}
        BY <2>1, <3>2, <4>1, <4>2, MethodSetsSig
      <4> QED
        BY <3>2, <4>3
    <3>8. ASSUME NEW f \in ToSet(fs)
          PROVE  f \in V
      <4>1. PICK d \in Ancestors(clsMap, c) : f \in VariantsIn(clsMap[d].methods, n)
        BY <3>2
      <4>2. n \in NamesOf(clsMap[d].methods)
        BY <4>1 DEF VariantsIn, NamesOf
      <4> QED
        BY <3>3, <4>1, <4>2
    <3>9. \A f \in V : \E g \in ToSet(fs) : g.ps = f.ps
      BY <3>2, <3>4 DEF Overrides
    <3>10. fs \in Seq(Funcs) /\ Len(fs) > 0
      <4>1. fs \in Seq(Funcs)
        BY <3>2 DEF Entry
      <4>2. ToSet(fs) # {}
        BY DEF ProxyMethods, IsFuncSetSupported, SupportedIn
      <4>3. PICK i \in 1 .. Len(fs) : TRUE
        BY <4>1, <4>2, ToSetFacts
      <4> QED
        BY <4>1, <4>3
    <3> HIDE DEF s, V, fs
    <3>11. Spans(s, ToSet(fs))
      BY <3>5, <3>8, <3>9 DEF Spans
    <3>12. DispatchFits(fs, s)
      BY <2>2, <3>5, <3>10, <3>11, DispatchFitsAll DEF fs
    <3> QED
      BY <3>7, <3>12 DEF fs
  <2>3. ASSUME NEW n \in GoFunctions(c), \A f \in ToSet(Variants(clsMap[c].funcs, n)) : IsFuncSupported(f)
        PROVE  DispatchFits(Variants(clsMap[c].funcs, n), StaticSig(c, n))
    <3> DEFINE fs == clsMap[c].funcs
               s == SigOf(fs, n)
    <3>1. n \in NamesOf(fs)
      BY DEF GoFunctions, Functions
    <3>2. fs \in Seq(Funcs) /\ \A f \in ToSet(fs) : ImplicitFuncTypes(f) \subseteq DOMAIN clsMap
      BY <2>1, MembersLinked
    <3> HIDE DEF fs
    <3>3. s \in Sigs /\ Spans(s, VariantsIn(fs, n))
      BY <2>1, <3>1, <3>2, SigOfFacts
    <3>4. Variants(fs, n) \in Seq(Funcs) /\ ToSet(Variants(fs, n)) = VariantsIn(fs, n) /\ Len(Variants(fs, n)) > 0
      BY <3>1, <3>2, VariantsFacts
    <3> HIDE DEF s
    <3>5. DispatchFits(Variants(fs, n), s)
      BY <2>3, <3>3, <3>4, DispatchFitsAll DEF fs
    <3> QED
      BY <3>5 DEF fs, s, StaticSig
  <2> QED
    BY <2>2, <2>3
<1>2. ImporterInv /\ LoneSigs => VariantsCovered
  BY <1>1 DEF VariantsCovered
<1> QED
  BY <1>2, ImporterInvariant, LoneSigsInvariant, PTL

-----------------------------------------------------------------------------
(* The Error method of throwable classes. *)

\* More super classes lead to more ancestors.
LEMMA ClimbMore ==
  ASSUME NEW g, NEW h, NEW c, IsFiniteSet(DOMAIN h), DOMAIN g \subseteq DOMAIN h, \A d \in DOMAIN g : g[d] = h[d]
  PROVE  Climb(g, c) \subseteq Climb(h, c)
<1> DEFINE n == Cardinality(DOMAIN g)
           m == Cardinality(DOMAIN h)
<1>1. IsFiniteSet(DOMAIN g) /\ n \in Nat /\ m \in Nat /\ n <= m
  BY FS_Subset, FS_CardinalityType
<1>2. PICK f : ClimbRun(f, g, c)
  BY <1>1, ClimbUnfolds
<1>3. PICK k : ClimbRun(k, h, c)
  BY ClimbUnfolds
<1>4. /\ f[0] = {c} /\ Climb(g, c) = f[n] /\ \A i \in 1 .. n : f[i] = ClimbStep(g, i, f[i-1])
      /\ k[0] = {c} /\ Climb(h, c) = k[m] /\ \A i \in 1 .. m : k[i] = ClimbStep(h, i, k[i-1])
  BY <1>2, <1>3 DEF ClimbRun
<1> HIDE DEF n, m
<1> DEFINE B == {i \in 0 .. m : (i <= n => f[i] \subseteq k[i]) /\ (i >= n => f[n] \subseteq k[i])}
<1>5. 0 \in B
  BY <1>1, <1>4
<1>6. ASSUME NEW i \in 1 .. m, i - 1 \in B
      PROVE  i \in B
  <2>1. k[i-1] \subseteq k[i]
    BY <1>4 DEF ClimbStep
  <2>2. i <= n => f[i] \subseteq k[i]
    <3> SUFFICES ASSUME i <= n
                 PROVE  f[i] \subseteq k[i]
      OBVIOUS
    <3>1. i \in 1 .. n /\ f[i-1] \subseteq k[i-1]
      BY <1>1, <1>6
    <3> QED
      BY <1>4, <3>1 DEF ClimbStep
  <2>3. i >= n => f[n] \subseteq k[i]
    <3>1. i = n \/ i < n \/ i - 1 >= n
      BY <1>1
    <3> QED
      BY <1>1, <1>6, <2>1, <2>2, <3>1
  <2> QED
    BY <2>2, <2>3
<1> HIDE DEF B
<1>7. \A i \in 0 .. m : i \in B
  BY <1>1, <1>5, <1>6, UpTo
<1> QED
  BY <1>1, <1>4, <1>7 DEF B

\* What is thrown has Throwable among its ancestors.
LEMMA ThrowsFacts ==
  ASSUME AllLinked, NEW c, Throws(c)
  PROVE  Throwable \in Ancestors(clsMap, c)
<1> DEFINE g == [d \in {d \in DOMAIN clsMap : ~clsMap[d].iface} |-> Supers(d)]
<1>1. Throwable \in Climb(g, c)
  BY DEF Throws
<1>2. DOMAIN g \subseteq DOMAIN SuperGraph /\ \A d \in DOMAIN g : g[d] = SuperGraph[d]
  BY SuperGraphFacts
<1> HIDE DEF g
<1>3. Climb(g, c) \subseteq Climb(SuperGraph, c)
  BY <1>2, SuperGraphFacts, ClimbMore
<1> QED
  BY <1>1, <1>3, SuperGraphFacts

Thrown == stage = "done" => \A c \in throwables : Throws(c) /\ Throwable \in DOMAIN clsMap

LEMMA ThrownNext ==
  ASSUME Thrown, [Next]_vars
  PROVE  Thrown'
<1>1. CASE FillThrowables
  <2>1. clsMap' = clsMap /\ throwables' = IF Throwable \in DOMAIN clsMap THEN {c \in classes : Throws(c)} ELSE {}
    BY <1>1 DEF FillThrowables
  <2>2. \A c : Throws(c)' = Throws(c)
    BY <2>1 DEF Throws, Supers
  <2> QED
    BY <2>1, <2>2 DEF Thrown
<1>2. CASE UNCHANGED vars
  <2>1. UNCHANGED <<clsMap, stage, throwables>>
    BY <1>2 DEF vars
  <2>2. \A c : Throws(c)' = Throws(c)
    BY <2>1 DEF Throws, Supers
  <2> QED
    BY <2>1, <2>2 DEF Thrown
<1>3. ASSUME stage' # "done"
      PROVE  Thrown'
  BY <1>3 DEF Thrown
<1>4. CASE ImportNamed \/ ImportReferenced \/ Embed \/ IncludeImplicit \/ FillAllMethods \/ IncludeAncestors
  BY <1>3, <1>4 DEF ImportNamed, ImportReferenced, Embed, IncludeImplicit, FillAllMethods, IncludeAncestors
<1>5. ASSUME NEW c \in todo, FillSigs(c) \/ FillJNINames(c)
      PROVE  Thrown'
  BY <1>3, <1>5 DEF FillSigs, FillJNINames
<1> QED
  BY <1>1, <1>2, <1>4, <1>5 DEF Next

\* A class that Import marks as throwable has java.lang.Throwable among the ancestors that
\* fillThrowableFor climbs through, and that class was imported.
THEOREM ThrownInvariant == Spec => []Thrown
<1>1. Init => Thrown
  BY DEF Init, Thrown
<1> QED
  BY <1>1, ThrownNext, PTL DEF Spec

\* What javap shows of toString, as Java has it.
ToStrings(d) == {f \in ToSet(U[d].funcs) : f.kind = "method" /\ f.n = "ToString"}
Usual(d) == /\ \A f \in ToStrings(d) : f.r = <<"String">> /\ ~f.thr
            /\ ToStrings(d) # {} => \E f \in ToStrings(d) : f.ps = <<>>
AllUsual == \A d \in DOMAIN clsMap \cap DOMAIN U : Usual(d)
\* The signatures that a call without arguments fits, and returns a string and no error.
Plain(s) == s.r = <<"String">> /\ ~s.throws /\ ((s.ps = <<>> /\ ~s.variadic) \/ (s.variadic /\ Len(s.ps) = 1))
StringSigs == {s \in Sigs : Plain(s)}

\* Two of them make one.
LEMMA StringSigsClosed ==
  ASSUME AllLinked
  PROVE  \A a, b \in StringSigs : Combine(<<a, b>>) \in StringSigs
<1> SUFFICES ASSUME NEW a \in StringSigs, NEW b \in StringSigs
             PROVE  Combine(<<a, b>>) \in StringSigs
  OBVIOUS
<1> DEFINE ss == <<a, b>>
           s == Combine(ss)
<1>1. a \in Sigs /\ b \in Sigs /\ Plain(a) /\ Plain(b)
  BY DEF StringSigs
<1>2. ss \in Seq(Sigs) /\ Len(ss) = 2 /\ ss[1] = a /\ ss[2] = b /\ DOMAIN ss = 1 .. 2
  BY <1>1
<1>3. /\ s.r = Common([i \in DOMAIN ss |-> ss[i].r])
      /\ s.variadic <=> MinLen(ss) # MaxLen(ss) \/ \E i \in DOMAIN ss : i > 1 /\ ss[i].variadic
      /\ s.throws <=> \E i \in DOMAIN ss : ss[i].throws
  BY DEF Combine
<1> HIDE DEF ss
<1>4. s \in Sigs /\ Len(s.ps) = LastSlot(ss)
  <2>1. \A x, y \in GoodTypes : CommonType(x, y) \in GoodTypes
    BY CommonTypeGood
  <2> HIDE DEF s
  <2>2. ss \in Seq(SigsOver(GoodTypes)) /\ Len(ss) > 0
    BY <1>2 DEF Sigs
  <2>3. Combine(ss) \in SigsOver(GoodTypes) /\ Len(Combine(ss).ps) = LastSlot(ss)
    BY <2>1, <2>2, CombineTyped
  <2> QED
    BY <2>3 DEF s, Sigs
<1> HIDE DEF s
<1>5. /\ MinLen(ss) \in Nat /\ MaxLen(ss) \in Nat
      /\ MinLen(ss) <= Len(a.ps) /\ Len(a.ps) <= MaxLen(ss)
      /\ MinLen(ss) <= Len(b.ps) /\ Len(b.ps) <= MaxLen(ss)
      /\ MinLen(ss) = Len(a.ps) \/ MinLen(ss) = Len(b.ps)
      /\ MaxLen(ss) = Len(a.ps) \/ MaxLen(ss) = Len(b.ps)
  <2>1. /\ MinLen(ss) \in Nat /\ MaxLen(ss) \in Nat
        /\ \A k \in 1 .. 2 : MinLen(ss) <= Len(ss[k].ps) /\ Len(ss[k].ps) <= MaxLen(ss)
        /\ \E k \in 1 .. 2 : Len(ss[k].ps) = MinLen(ss)
        /\ \E k \in 1 .. 2 : Len(ss[k].ps) = MaxLen(ss)
    <3>1. ss \in Seq(SigsOver(GoodTypes)) /\ Len(ss) > 0
      BY <1>2 DEF Sigs
    <3>2. /\ MinLen(ss) \in Nat /\ MaxLen(ss) \in Nat
          /\ \A k \in 1 .. Len(ss) : MinLen(ss) <= Len(ss[k].ps) /\ Len(ss[k].ps) <= MaxLen(ss)
          /\ \E k \in 1 .. Len(ss) : Len(ss[k].ps) = MinLen(ss)
          /\ \E k \in 1 .. Len(ss) : Len(ss[k].ps) = MaxLen(ss)
      BY <3>1, LenFacts
    <3> QED
      BY <1>2, <3>2
  <2>2. 1 \in 1 .. 2 /\ 2 \in 1 .. 2 /\ \A k \in 1 .. 2 : k = 1 \/ k = 2
    OBVIOUS
  <2>3. MinLen(ss) = Len(a.ps) \/ MinLen(ss) = Len(b.ps)
    BY <1>2, <2>1, <2>2
  <2>4. MaxLen(ss) = Len(a.ps) \/ MaxLen(ss) = Len(b.ps)
    BY <1>2, <2>1, <2>2
  <2> QED
    BY <1>2, <2>1, <2>2, <2>3, <2>4
<1>6. s.r = <<"String">>
  <2> DEFINE rs == [i \in DOMAIN ss |-> ss[i].r]
             str == <<"String">>
  <2>1. \A i \in 1 .. 2 : ss[i].r = str
    <3>1. a.r = str /\ b.r = str
      BY <1>1 DEF Plain
    <3> HIDE DEF str
    <3> QED
      BY <1>2, <3>1
  <2> HIDE DEF str
  <2>2. rs \in Seq({str}) /\ Len(rs) > 0
    BY <1>2, <2>1
  <2> HIDE DEF rs
  <2>3. Common(rs) = str
    BY <2>2, CommonSame
  <2> QED
    BY <1>3, <2>3 DEF rs, str
<1>7. ~s.throws
  BY <1>1, <1>2, <1>3 DEF Plain
<1>8. Len(<<>>) = 0
  OBVIOUS
<1>9. ASSUME b.variadic
      PROVE  s \in StringSigs
  <2>1. s.variadic
    <3>1. 2 \in DOMAIN ss /\ 2 > 1 /\ ss[2].variadic
      BY <1>2, <1>9
    <3> QED
      BY <1>3, <3>1
  <2>2. Len(b.ps) = 1 /\ Len(a.ps) \in {0, 1}
    BY <1>1, <1>8, <1>9 DEF Plain
  <2>3. LastSlot(ss) = 1
    BY <1>5, <2>2 DEF LastSlot
  <2> QED
    BY <1>4, <1>6, <1>7, <2>1, <2>3 DEF StringSigs, Plain
<1>10. ASSUME ~b.variadic
       PROVE  s \in StringSigs
  <2>1. Len(b.ps) = 0
    BY <1>1, <1>8, <1>10 DEF Plain
  <2>2. CASE a.variadic
    <3>1. Len(a.ps) = 1
      BY <1>1, <1>8, <2>2 DEF Plain
    <3>2. MinLen(ss) = 0 /\ MaxLen(ss) = 1
      BY <1>5, <2>1, <3>1
    <3>3. LastSlot(ss) = 1 /\ s.variadic
      BY <1>3, <3>2 DEF LastSlot
    <3> QED
      BY <1>4, <1>6, <1>7, <3>3 DEF StringSigs, Plain
  <2>3. CASE ~a.variadic
    <3>1. Len(a.ps) = 0
      BY <1>1, <1>8, <2>3 DEF Plain
    <3>2. MinLen(ss) = 0 /\ MaxLen(ss) = 0
      BY <1>5, <2>1, <3>1
    <3>3. LastSlot(ss) = 0
      BY <3>2 DEF LastSlot
    <3>4. ~s.variadic
      <4>1. \A i \in DOMAIN ss : i > 1 => i = 2
        BY <1>2
      <4> QED
        BY <1>2, <1>3, <1>10, <3>2, <4>1
    <3>5. s.ps = <<>>
      <4>1. s.ps \in Seq(GoodTypes)
        BY <1>4 DEF Sigs, SigsOver
      <4> QED
        BY <1>4, <3>3, <4>1
    <3> QED
      BY <1>4, <1>6, <1>7, <3>4, <3>5 DEF StringSigs, Plain
  <2> QED
    BY <2>2, <2>3
<1> QED
  BY <1>9, <1>10 DEF s, ss

\* The signature of the toString of one class, overloads included.
LEMMA ToStringSig ==
  ASSUME AllLinked, NEW d \in DOMAIN clsMap, AsWanted(d) \/ OfStruct(d), AllUsual,
         "ToString" \in NamesOf(clsMap[d].methods)
  PROVE  SigOf(clsMap[d].methods, "ToString") \in StringSigs
<1> DEFINE ms == clsMap[d].methods
           V == VariantsIn(ms, "ToString")
           s == SigOf(ms, "ToString")
<1>1. ToSet(ms) # {}
  BY DEF NamesOf
<1>2. AsWanted(d) /\ d \in DOMAIN U
  BY <1>1, NothingShown DEF OfStruct, AsWanted
<1>3. \A f : f \in V <=> f \in ToStrings(d)
  BY <1>2 DEF AsWanted, DeclaredIn, Shown, Wanted, ToStrings, VariantsIn
<1>4. (\A f \in V : f.r = <<"String">> /\ ~f.thr) /\ \E f \in V : f.ps = <<>>
  <2>1. Usual(d)
    BY <1>2 DEF AllUsual
  <2>2. \E f : f \in ToStrings(d)
    <3>1. \E f \in ToSet(ms) : f.n = "ToString"
      BY DEF NamesOf
    <3> QED
      BY <1>3, <3>1 DEF VariantsIn
  <2> QED
    BY <1>3, <2>1, <2>2 DEF Usual
<1>5. ms \in Seq(Funcs) /\ \A f \in ToSet(ms) : ImplicitFuncTypes(f) \subseteq DOMAIN clsMap
  BY MembersLinked
<1>6. /\ s \in Sigs /\ Spans(s, V)
      /\ s.throws <=> \E f \in V : f.thr
      /\ \A x : (\A f \in V : f.r = x) => s.r = x
  <2> HIDE DEF ms
  <2>1. "ToString" \in NamesOf(ms)
    BY DEF ms
  <2> QED
    BY <1>5, <2>1, SigOfFacts
<1>7. \A f \in V : Len(f.ps) \in Nat
  <2> TAKE f \in V
  <2>1. f \in Funcs
    BY <1>5, ToSetFacts DEF VariantsIn
  <2>2. f.ps \in Seq(Types)
    BY <2>1 DEF Funcs
  <2> QED
    BY <2>2
<1> HIDE DEF V, s, ms
<1>8. s.r = <<"String">> /\ ~s.throws
  BY <1>4, <1>6
<1>9. PICK a, b \in Nat : /\ \A f \in V : a <= Len(f.ps) /\ Len(f.ps) <= b
                          /\ s.variadic <=> a # b
                          /\ Len(s.ps) = IF a = b THEN a ELSE a + 1
  BY <1>6 DEF Spans
<1>10. a = 0
  <2>1. PICK f \in V : f.ps = <<>>
    BY <1>4
  <2>2. Len(f.ps) = 0
    BY <2>1
  <2> QED
    BY <1>9, <2>2
<1>11. s.ps \in Seq(GoodTypes)
  BY <1>6 DEF Sigs, SigsOver
<1>12. Len(s.ps) = 0 => s.ps = <<>>
  BY <1>11
<1>13. (s.ps = <<>> /\ ~s.variadic) \/ (s.variadic /\ Len(s.ps) = 1)
  BY <1>9, <1>10, <1>12
<1>14. s \in StringSigs
  BY <1>6, <1>8, <1>13 DEF StringSigs, Plain
<1> QED
  BY <1>14 DEF s, ms

\* Every signature of a toString is one of them.
ToStringSigs ==
    stage \in {"sigs", "ancestors", "names", "done"} /\ AllUsual =>
      \A x \in DOMAIN sig : x[2] = "ToString" /\ (stage = "sigs" => x[1] \notin todo) => sig[x] \in StringSigs

LEMMA ToStringSigsFill ==
  ASSUME ImporterInv, MethodsKept, ToStringSigs, NEW d \in todo, FillSigs(d)
  PROVE  ToStringSigs'
<1> DEFINE sf == Filled(sig, d)
           sg == Widened(sf, d)
<1>1. stage = "sigs" /\ UNCHANGED <<U, clsMap>> /\ sig' = sg /\ todo' = todo \ {d} /\ stage' \in {"sigs", "panicked"}
  BY DEF FillSigs
<1>2. AllLinked /\ d \in DOMAIN clsMap /\ (AsWanted(d) \/ OfStruct(d)) /\ DOMAIN sig = OwnKeys
  BY <1>1, StageFacts DEF ImporterInv, Imported, ImporterTypes, MethodsKept, SigsFilled
<1>3. AllUsual' = AllUsual /\ StringSigs' = StringSigs
  BY <1>1 DEF AllUsual, Usual, ToStrings, StringSigs, Sigs, GoodTypes
<1>4. SUFFICES ASSUME AllUsual, NEW x \in DOMAIN sg, x[2] = "ToString", x[1] \notin todo \ {d}
               PROVE  sg[x] \in StringSigs
  BY <1>1, <1>3 DEF ToStringSigs
<1>5. /\ DOMAIN sf = DOMAIN sig
      /\ \A n \in NamesOf(clsMap[d].methods) : <<d, n>> \in DOMAIN sig => sf[<<d, n>>] = SigOf(clsMap[d].methods, n)
      /\ \A y \in DOMAIN sig \ Own(d) : sf[y] = sig[y]
      /\ \A y : y \in Own(d) <=> \E n \in NamesOf(clsMap[d].methods) : y = <<d, n>>
  BY FilledFacts
<1> HIDE DEF sf
<1>6. DOMAIN sg = DOMAIN sf /\ \A y \in DOMAIN sf : y[2] \notin NamesOf(clsMap[d].methods) => sg[y] = sf[y]
  BY WidenedRest
<1> HIDE DEF sg
<1>7. "ToString" \in NamesOf(clsMap[d].methods) => sf[<<d, "ToString">>] \in StringSigs /\ <<d, "ToString">> \in DOMAIN sf
  BY <1>2, <1>4, <1>5, ToStringSig, OwnIn
<1>8. sf[x] \in StringSigs
  <2>1. CASE x \in Own(d)
    <3>1. PICK n \in NamesOf(clsMap[d].methods) : x = <<d, n>>
      BY <1>5, <2>1
    <3>2. n = "ToString"
      BY <1>4, <3>1
    <3> QED
      BY <1>7, <3>1, <3>2
  <2>2. CASE x \notin Own(d)
    <3>1. x \in DOMAIN sig /\ sf[x] = sig[x]
      BY <1>5, <1>6, <2>2
    <3>2. PICK c \in DOMAIN clsMap : x \in Own(c)
      BY <1>2, <3>1 DEF OwnKeys
    <3>3. x[1] = c /\ c # d
      BY <2>2, <3>2 DEF Own
    <3> QED
      BY <1>1, <1>4, <3>1, <3>3 DEF ToStringSigs
  <2> QED
    BY <2>1, <2>2
<1>9. CASE "ToString" \notin NamesOf(clsMap[d].methods)
  BY <1>4, <1>6, <1>8, <1>9
<1>10. CASE "ToString" \in NamesOf(clsMap[d].methods)
  <2>1. x \in DOMAIN sf /\ x[2] \in NamesOf(clsMap[d].methods) /\ sf[<<d, x[2]>>] \in StringSigs
    BY <1>4, <1>6, <1>7, <1>10
  <2>2. \A a, b \in StringSigs : Combine(<<a, b>>) \in StringSigs
    BY <1>2, StringSigsClosed
  <2>3. Widened(sf, d)[x] \in StringSigs
    BY <1>2, <1>8, <2>1, <2>2, WidenedIn
  <2> QED
    BY <2>3 DEF sg
<1> QED
  BY <1>9, <1>10

LEMMA ToStringSigsNext ==
  ASSUME ImporterInv, MethodsKept, ToStringSigs, [Next]_vars
  PROVE  ToStringSigs'
<1>1. ASSUME stage' \notin {"sigs", "ancestors", "names", "done"}
      PROVE  ToStringSigs'
  BY <1>1 DEF ToStringSigs
<1>2. ASSUME stage \in {"sigs", "ancestors", "names", "done"}, UNCHANGED <<U, clsMap, sig>>,
             stage' = "sigs" => stage = "sigs" /\ todo' = todo, stage = "sigs" => stage' = "sigs" \/ todo = {}
      PROVE  ToStringSigs'
  BY <1>2 DEF ToStringSigs, AllUsual, Usual, ToStrings, StringSigs, Sigs, GoodTypes
<1>3. CASE IncludeImplicit
  <2>1. stage' = "sigs" /\ todo' = DOMAIN clsMap /\ sig' = [x \in OwnKeys |-> NoSig]
    BY <1>3 DEF IncludeImplicit
  <2>2. ASSUME NEW x \in DOMAIN sig'
        PROVE  x[1] \in todo'
    <3>1. x \in OwnKeys
      BY <2>1
    <3>2. PICK c \in DOMAIN clsMap : x \in Own(c)
      BY <3>1 DEF OwnKeys
    <3> QED
      BY <2>1, <3>2 DEF Own
  <2> QED
    BY <2>1, <2>2 DEF ToStringSigs
<1>4. CASE ImportNamed \/ ImportReferenced \/ Embed
  BY <1>1, <1>4 DEF ImportNamed, ImportReferenced, Embed
<1>5. ASSUME NEW c \in todo, FillSigs(c)
      PROVE  ToStringSigs'
  BY <1>5, ToStringSigsFill
<1>6. CASE FillAllMethods \/ IncludeAncestors \/ FillThrowables
  BY <1>2, <1>6 DEF FillAllMethods, IncludeAncestors, FillThrowables
<1>7. ASSUME NEW c \in todo, FillJNINames(c)
      PROVE  ToStringSigs'
  BY <1>2, <1>7 DEF FillJNINames
<1>8. CASE UNCHANGED vars
  BY <1>1, <1>2, <1>8 DEF vars
<1> QED
  BY <1>3, <1>4, <1>5, <1>6, <1>7, <1>8 DEF Next

\* However often fillSuperSigs combines them, the signatures of methods called toString
\* return a string, throw nothing and take no argument or a variadic one.
THEOREM ToStringSigsInvariant == Spec => []ToStringSigs
<1>1. Init => ToStringSigs
  BY DEF Init, ToStringSigs
<1> QED
  BY <1>1, ImporterInvariant, MethodsKeptInvariant, ToStringSigsNext, PTL DEF Spec

\* Whatever the class path and the source, as long as toString is declared as Java has it:
\* the Go proxy of a class that can be thrown has a ToString method, which a call without
\* arguments fits and which returns a string and no error; the Error method that genGo
\* writes for it compiles, though the source may never mention toString.
THEOREM ErrorCallsToStringHolds == Spec => []ErrorCallsToString
<1>1. ASSUME ImporterInv, MethodsKept, Thrown, ToStringSigs, Done, AllUsual,
             Throwable \in DOMAIN U \ GoClasses, ToStrings(Throwable) # {}, NEW c \in throwables
      PROVE  /\ "ToString" \in ProxyMethods(c)
             /\ LET s == all[c]["ToString"].sig
                IN s.r = <<"String">> /\ ~s.throws /\ (s.ps = <<>> \/ (s.variadic /\ Len(s.ps) = 1))
  <2>1. /\ AllLinked /\ AllFilled /\ all = AllMethods /\ c \in DOMAIN clsMap
        /\ Throws(c) /\ Throwable \in DOMAIN clsMap
    BY <1>1, StageFacts DEF Done, ImporterInv, Imported, ImporterTypes, Thrown
  <2>2. Throwable \in Ancestors(clsMap, c)
    BY <2>1, ThrowsFacts
  <2>3. PICK f \in VariantsIn(clsMap[Throwable].methods, "ToString") : f.ps = <<>> /\ f.r = <<"String">>
    <3>1. AsWanted(Throwable)
      BY <1>1, <2>1 DEF MethodsKept, OfStruct, Done
    <3>2. \A g \in ToStrings(Throwable) : g \in VariantsIn(clsMap[Throwable].methods, "ToString")
      BY <1>1, <3>1 DEF AsWanted, DeclaredIn, Shown, Wanted, ToStrings, VariantsIn
    <3>3. Usual(Throwable)
      BY <1>1, <2>1 DEF AllUsual
    <3> QED
      BY <1>1, <3>2, <3>3 DEF Usual
  <2>4. "ToString" \in DOMAIN all[c] /\ \E g \in ToSet(all[c]["ToString"].funcs) : Overrides(g, f)
    BY <2>1, <2>2, AllMethodsFacts
  <2>5. PICK g \in ToSet(all[c]["ToString"].funcs) : g.ps = <<>> /\ g.r = <<"String">>
    BY <2>3, <2>4 DEF Overrides
  <2>6. IsFuncSupported(g)
    <3>1. ToSet(<<>>) = {}
      BY DEF ToSet
    <3>2. <<"String">> # <<"ints">>
      OBVIOUS
    <3> QED
      BY <2>5, <3>1, <3>2 DEF IsFuncSupported, IsSupported
  <2>7. "ToString" \in ProxyMethods(c)
    BY <2>4, <2>5, <2>6 DEF ProxyMethods, IsFuncSetSupported, SupportedIn
  <2>8. "ToString" \in MethodNames /\ all[c]["ToString"] \in ToSet(MethodSets[<<c, "ToString">>])
    BY <2>1, <2>4, AllMethodsFacts
  <2>9. all[c]["ToString"].sig \in StringSigs
    <3>1. \A a, b \in StringSigs : Combine(<<a, b>>) \in StringSigs
      BY <2>1, StringSigsClosed
    <3>2. \A d \in Ancestors(clsMap, c) : "ToString" \in NamesOf(clsMap[d].methods) => sig[<<d, "ToString">>] \in StringSigs
      <4> SUFFICES ASSUME NEW d \in Ancestors(clsMap, c), "ToString" \in NamesOf(clsMap[d].methods)
                   PROVE  sig[<<d, "ToString">>] \in StringSigs
        OBVIOUS
      <4>1. d \in DOMAIN clsMap
        BY <2>1, AllMethodsFacts
      <4>2. <<d, "ToString">> \in DOMAIN sig
        BY <2>1, <4>1 DEF AllFilled, Own
      <4> QED
        BY <1>1, <4>2 DEF ToStringSigs, Done
    <3>3. \A e \in ToSet(MethodSets[<<c, "ToString">>]) : e.sig \in StringSigs
      BY <2>1, <2>8, <3>1, <3>2, MethodSetsSig
    <3> QED
      BY <2>8, <3>3
  <2> QED
    BY <2>7, <2>9 DEF StringSigs, Plain
<1>2. ImporterInv /\ MethodsKept /\ Thrown /\ ToStringSigs => ErrorCallsToString
  BY <1>1 DEF ErrorCallsToString, AllUsual, Usual, ToStrings
<1> QED
  BY <1>2, ImporterInvariant, MethodsKeptInvariant, ThrownInvariant, ToStringSigsInvariant, PTL
=============================================================================
