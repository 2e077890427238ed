----------------------------- MODULE JavaImport -----------------------------
(***************************************************************************)
(* What Go code needs of Java: the references that internal/importers      *)
(* finds in the source, the class descriptors that its java package builds *)
(* from what javap prints, and the stubs that bind/genclasses.go makes of  *)
(* them.  The importer visits the map of its classes in any order.         *)
(*                                                                         *)
(* A class is the sequence of the parts of its name, at least two; a type  *)
(* is a class or a sequence of one: <<"int">>, <<"String">>, <<"bytes">>   *)
(* (byte[]) or <<"ints">> (another array); <<>> is none, or void.          *)
(***************************************************************************)
EXTENDS Naturals, Sequences, SequencesExt, FiniteSets, FiniteSetsExt

CONSTANTS Universes,  \* what javap may find: [class -> [supers, iface, funcs]]
          Sources,    \* the Go sources: [sels, methods, structs]
          Object, Throwable, DataBindingComponent

\* No type: a nil descriptor was asked for its super classes.
Panic == <<"panic">>
Types == Seq(STRING) \ {Panic}
IsClass(t) == Len(t) > 1
\* of: the class that declares the function, one object however many classes list it.
Funcs == [of : Types, kind : {"static", "con", "method"}, n : STRING, ps : Seq(Types), r : Types,
          pub : BOOLEAN, thr : BOOLEAN]
Selectors == [pkg : Seq(STRING), n : STRING, hidden : BOOLEAN]

ASSUME RootAssumption == /\ Object \in Types /\ IsClass(Object)
                         /\ DataBindingComponent \in Types /\ IsClass(DataBindingComponent)
                         /\ DataBindingComponent[1] # "go"
ASSUME UniversesAssumption ==
    \A u \in Universes : /\ IsFiniteSet(DOMAIN u) /\ \A c \in DOMAIN u : c \in Types /\ IsClass(c)
                         /\ u \in [DOMAIN u -> [supers : Seq(Types), iface : BOOLEAN, funcs : Seq(Funcs)]]
                         /\ \A c \in DOMAIN u : \A f \in ToSet(u[c].funcs) : f.of = c
ASSUME SourcesAssumption ==
    Sources \subseteq [sels : Seq(Selectors), methods : SUBSET STRING,
                       structs : Seq([n : STRING, embeds : Seq(Selectors)])]

VARIABLES U, src, stage,
          clsMap,     \* [class imported -> [supers, iface, funcs, methods]]
          classes,    \* the classes Import returns
          batches,    \* the same as they joined the list: a sequence of sets
          sig,        \* [<<class, method name>> -> its common signature]
          todo,       \* the classes whose signatures, at last whose names, are still to fill
          all,        \* [class -> [method name -> [funcs, sig]]]: AllMethods
          withArgs,   \* the functions whose JNI name tells their parameters
          throwables

vars == <<U, src, stage, clsMap, classes, batches, sig, todo, all, withArgs, throwables>>

\* The elements of s that are in S, in their order.
Keep(s, S) ==
    LET kept[i \in 0 .. Len(s)] ==
          IF i = 0 THEN <<>> ELSE IF s[i] \in S THEN Append(kept[i-1], s[i]) ELSE kept[i-1]
    IN kept[Len(s)]

(************************* ast.go: the references **************************)
EmbedRefs(s) == UNION {ToSet(st.embeds) : st \in ToSet(s.structs)}
\* Selectors of the source that Visit reaches: not those of unexported fields.
Visited(s) == {x \in ToSet(s.sels) \cup EmbedRefs(s) : ~x.hidden}
AddRef(x) == [pkg |-> x.pkg, n |-> x.n]
IsPrefixed(x) == x.pkg # <<>>
Refs(s) == {AddRef(x) : x \in {y \in Visited(s) \cup EmbedRefs(s) : IsPrefixed(y)}}
Names(s) == {x.n : x \in Visited(s)} \cup s.methods
\* findEmbeddingStructs: exported structs that embed a prefixed type.
Embeds(st) == Keep(st.embeds, {x \in ToSet(st.embeds) : IsPrefixed(x) /\ ~x.hidden})
Embedders(s) == Keep(s.structs, {st \in ToSet(s.structs) : Embeds(st) # <<>>})

(************************ java.go: class descriptors ***********************)
\* scanClass: what is kept of the members, functions apart from methods.  The data
\* binding library makes its component too late for javap to find it: an empty
\* interface stands for it.
IsFunc(f) == f.kind \in {"static", "con"}
Shown(c) == IF c \in DOMAIN U THEN U[c] ELSE [supers |-> <<>>, iface |-> TRUE, funcs |-> <<>>]
Scan(c) == LET k == Shown(c)
           IN [supers |-> k.supers, iface |-> k.iface,
               funcs |-> Keep(k.funcs, {f \in ToSet(k.funcs) : IsFunc(f)}),
               methods |-> Keep(k.funcs, {f \in ToSet(k.funcs) : ~IsFunc(f)})]
\* Importing names adds the classes javap finds.
Import(cm, cs) == [c \in DOMAIN cm \cup cs |-> IF c \in cs THEN Scan(c) ELSE cm[c]]
\* filterReferences: only what the source mentions by name stays.
KeptFuncs(c, fs, s) == Keep(fs, {f \in ToSet(fs) : [pkg |-> c, n |-> f.n] \in Refs(s)})
KeptNoToString(fs, s) == Keep(fs, {f \in ToSet(fs) : f.n \in Names(s)})
KeptMethods(fs, s) == Keep(fs, {f \in ToSet(fs) : f.n \in Names(s) \cup {"ToString"}})
Filter(cm, cs, s) ==
    [c \in DOMAIN cm |->
       IF c \in cs THEN [cm[c] EXCEPT !.funcs = KeptFuncs(c, cm[c].funcs, s),
                                      !.methods = KeptMethods(cm[c].methods, s)]
       ELSE cm[c]]
ImplicitFuncTypes(f) == {t \in ToSet(f.ps) \cup {f.r} : IsClass(t)}
MethodTypes(k) == UNION {ImplicitFuncTypes(f) : f \in ToSet(k.methods)}
MemberTypes(k) == UNION {ImplicitFuncTypes(f) : f \in ToSet(k.funcs) \cup ToSet(k.methods)}
\* What the super classes in g lead to from c, c included.
Climb(g, c) ==
    LET up[i \in 0 .. Cardinality(DOMAIN g)] ==
          IF i = 0 THEN {c}
          ELSE LET s == up[i-1] IN s \cup UNION {ToSet(g[d]) : d \in s \cap DOMAIN g}
    IN up[Cardinality(DOMAIN g)]
Ancestors(cm, c) == Climb([d \in DOMAIN cm |-> cm[d].supers], c)
\* unknownImplicitClasses: of a class and, through known classes, of its ancestors.
UnknownImplicit(cm, cs) ==
    LET known == (UNION {Ancestors(cm, c) : c \in cs}) \cap DOMAIN cm
    IN (UNION {MemberTypes(cm[c]) \cup ToSet(cm[c].supers) : c \in known}) \ DOMAIN cm

\* The ancestors of c breadth first, c included, once for each path that leads to one.
Supers(c) == clsMap[c].supers
Above(l) == FlattenSeq([j \in DOMAIN l |-> Supers(l[j])])
Levels(c) ==
    LET n == Cardinality(DOMAIN clsMap)
        levels[i \in 0 .. n] ==
          IF i = 0 THEN << <<c>> >> ELSE LET ls == levels[i-1] IN Append(ls, Above(Last(ls)))
    IN FlattenSeq(levels[n])
\* commonType: the first ancestor of t2 that is one of t1.  It falls back on Object
\* even if that is not imported; asked for an ancestor of a class of which there is no
\* descriptor, it panics, and the panic is not recovered.
CommonType(t1, t2) ==
    LET both == Keep(Levels(t2), ToSet(Levels(t1)))
    IN CASE t1 = t2 -> t1
         [] t1 # t2 /\ Panic \in {t1, t2} -> Panic
         [] t1 # t2 /\ Panic \notin {t1, t2} /\ ~(IsClass(t1) /\ IsClass(t2)) -> <<>>
         [] OTHER -> IF ~({t1, t2} \subseteq DOMAIN clsMap) THEN Panic
                     ELSE IF both = <<>> THEN Object ELSE both[1]
Common(ts) ==
    LET common[i \in 0 .. Len(ts) - 1] == IF i = 0 THEN ts[1] ELSE CommonType(common[i-1], ts[i+1])
    IN common[Len(ts) - 1]
MinLen(sigs) == Min({Len(sigs[i].ps) : i \in DOMAIN sigs})
MaxLen(sigs) == Max({Len(sigs[i].ps) : i \in DOMAIN sigs})
\* combineSigs: the i-th parameters; the one after the shortest list takes all the rest.
Slot(sigs, i) ==
    FlattenSeq([k \in DOMAIN sigs |-> IF i <= MinLen(sigs) THEN <<sigs[k].ps[i]>>
                                      ELSE SubSeq(sigs[k].ps, i, Len(sigs[k].ps))])
Unclamped(sigs) == MaxLen(sigs)
LastSlot(sigs) == IF MaxLen(sigs) = MinLen(sigs) THEN MinLen(sigs) ELSE MinLen(sigs) + 1
Combine(sigs) ==
    [ps |-> [i \in 1 .. LastSlot(sigs) |-> Common(Slot(sigs, i))],
     variadic |-> MinLen(sigs) # MaxLen(sigs) \/ \E i \in DOMAIN sigs : i > 1 /\ sigs[i].variadic,
     throws |-> \E i \in DOMAIN sigs : sigs[i].throws,
     hasRet |-> \E i \in DOMAIN sigs : sigs[i].hasRet,
     r |-> Common([i \in DOMAIN sigs |-> sigs[i].r])]
\* One after the other.
CombineAll(sigs) ==
    LET both[i \in 0 .. Len(sigs) - 1] == IF i = 0 THEN sigs[1] ELSE Combine(<<both[i-1], sigs[i+1]>>)
    IN both[Len(sigs) - 1]
NoSig == [ps |-> <<>>, variadic |-> FALSE, throws |-> FALSE, hasRet |-> FALSE, r |-> <<>>]
CommonSig(f) == [ps |-> f.ps, variadic |-> FALSE, throws |-> f.thr, hasRet |-> f.r # <<>>, r |-> f.r]
Variants(fs, n) == Keep(fs, {f \in ToSet(fs) : f.n = n})
SigOf(fs, n) == LET vs == Variants(fs, n) IN Combine([i \in DOMAIN vs |-> CommonSig(vs[i])])
NamesOf(fs) == {f.n : f \in ToSet(fs)}
TypesOf(s) == ToSet(s.ps) \cup {s.r}
ClassesIn(s) == {t \in TypesOf(s) : IsClass(t)}

Init == /\ U \in Universes /\ src \in Sources /\ stage = "import"
        /\ clsMap = <<>> /\ classes = {} /\ batches = <<>> /\ sig = <<>> /\ todo = {} /\ all = <<>>
        /\ withArgs = {} /\ throwables = {}

\* A reference may be to pkg.Class or to pkg.Class.Identifier: both names are tried.
Candidates == UNION {{r.pkg, Append(r.pkg, r.n)} : r \in Refs(src)}
ImportNamed ==
    /\ stage = "import"
    /\ LET found == Candidates \cap DOMAIN U
       IN /\ classes' = found /\ batches' = <<found>>
          /\ clsMap' = Filter(Import(<<>>, found), found, src)
          /\ todo' = found
    /\ stage' = "refer"
    /\ UNCHANGED <<U, src, sig, all, withArgs, throwables>>
\* importReferencedClasses, one round: todo is what the last round imported.
Findable == DOMAIN U \cup {DataBindingComponent}
ImportReferenced ==
    /\ stage = "refer"
    /\ LET new == UnknownImplicit(clsMap, todo)
       IN \/ /\ new = {}
             /\ clsMap' = Filter(clsMap, DOMAIN clsMap \ classes, src)
             /\ stage' = "embed" /\ UNCHANGED todo
          \/ /\ new # {} /\ new \subseteq Findable
             /\ clsMap' = Import(clsMap, new) /\ todo' = new /\ UNCHANGED stage
          \/ /\ ~(new \subseteq Findable)
             /\ stage' = "failed" /\ UNCHANGED <<clsMap, todo>>
    /\ UNCHANGED <<U, src, classes, batches, sig, all, withArgs, throwables>>
\* The descriptors of the Java classes that Go structs will become.
GoClass(e) == <<"go", e.n>>
Synthesized(e) == [supers |-> [i \in DOMAIN Embeds(e) |-> Append(Embeds(e)[i].pkg, Embeds(e)[i].n)],
                   iface |-> FALSE, funcs |-> <<>>, methods |-> <<>>]
GoClasses == {GoClass(e) : e \in ToSet(Embedders(src))}
NewGoClasses == GoClasses \ DOMAIN clsMap
\* The struct a Go class is made for: the first of that name.
StructOf(c) == LET es == Embedders(src)
                   i == CHOOSE i \in DOMAIN es : GoClass(es[i]) = c /\ \A k \in 1 .. i - 1 : GoClass(es[k]) # c
               IN es[i]
\* When its turn comes, it is known already or all its super classes are.
Described(i) ==
    LET known == DOMAIN clsMap \cup {GoClass(Embedders(src)[k]) : k \in 1 .. i - 1}
        e == Embedders(src)[i]
    IN GoClass(e) \in known \/ ToSet(Synthesized(e).supers) \subseteq known
Embed ==
    /\ stage = "embed"
    /\ IF \A i \in DOMAIN Embedders(src) : Described(i)
       THEN /\ clsMap' = [c \in DOMAIN clsMap \cup NewGoClasses |->
                            IF c \in DOMAIN clsMap THEN clsMap[c] ELSE Synthesized(StructOf(c))]
            /\ classes' = classes \cup NewGoClasses /\ batches' = Append(batches, NewGoClasses)
            /\ stage' = "implicit"
       ELSE stage' = "failed" /\ UNCHANGED <<clsMap, classes, batches>>
    /\ UNCHANGED <<U, src, sig, todo, all, withArgs, throwables>>
\* The signatures there will be, none filled yet.
Own(c) == {<<c, n>> : n \in NamesOf(clsMap[c].methods)}
OwnKeys == UNION {Own(c) : c \in DOMAIN clsMap}
\* The classes in parameters and results of the members of the classes so far: the
\* loop ranges over the list as it was, the classes it appends are not visited.
IncludeImplicit ==
    /\ stage = "implicit"
    /\ LET found == UNION {MemberTypes(clsMap[c]) : c \in classes}
       IN classes' = classes \cup found /\ batches' = Append(batches, found \ classes)
    /\ stage' = "sigs" /\ todo' = DOMAIN clsMap /\ sig' = [x \in OwnKeys |-> NoSig]
    /\ UNCHANGED <<U, src, clsMap, all, withArgs, throwables>>

Filled(sg, c) == [x \in DOMAIN sg |-> IF x \in Own(c) THEN SigOf(clsMap[c].methods, x[2]) ELSE sg[x]]
\* fillSuperSigs: the signature of a super class takes in that of c each time a path
\* leads to it, though filling may yet replace it.
Met(levels, d) == Cardinality({j \in 2 .. Len(levels) : levels[j] = d})
Widened(sg, c) ==
    LET levels == Levels(c)
        own == NamesOf(clsMap[c].methods)
    IN [x \in DOMAIN sg |->
          IF x[2] \in own THEN CombineAll(<<sg[x]>> \o [j \in 1 .. Met(levels, x[1]) |-> sg[<<c, x[2]>>]])
          ELSE sg[x]]
StaticSig(c, n) == SigOf(clsMap[c].funcs, n)
Panicked(sigs) == \E s \in sigs : Panic \in TypesOf(s)
FillSigs(c) ==
    /\ stage = "sigs" /\ c \in todo
    /\ LET sg == Widened(Filled(sig, c), c)
           statics == {StaticSig(c, n) : n \in NamesOf(clsMap[c].funcs)}
       IN /\ sig' = sg
          /\ stage' = IF Panicked({sg[x] : x \in DOMAIN sg} \cup statics) THEN "panicked" ELSE stage
    /\ todo' = todo \ {c}
    /\ UNCHANGED <<U, src, clsMap, classes, batches, all, withArgs, throwables>>

\* fillAllMethods: a class's own methods, then those of its super classes in turn; a
\* variant with the signature of an earlier one is overridden by it.
Overrides(f, g) == f.n = g.n /\ f.ps = g.ps /\ f.r = g.r
KeepAll(fs) == fs
Distinct(fs) ==
    LET kept[i \in 0 .. Len(fs)] ==
          IF i = 0 THEN <<>>
          ELSE LET k == kept[i-1]
               IN IF \E f \in ToSet(k) : Overrides(f, fs[i]) THEN k ELSE Append(k, fs[i])
    IN kept[Len(fs)]
Merged(es) == [funcs |-> Distinct(FlattenSeq([i \in DOMAIN es |-> es[i].funcs])),
               sig |-> CombineAll([i \in DOMAIN es |-> es[i].sig])]
OwnEntry(c, n) == IF <<c, n>> \in Own(c)
                  THEN <<[sig |-> sig[<<c, n>>], funcs |-> Variants(clsMap[c].methods, n)]>> ELSE <<>>
MethodNames == UNION {NamesOf(clsMap[c].methods) : c \in DOMAIN clsMap}
\* A method set is a sequence of at most one entry; m holds those of one round less.
Entries(m, c, n) == OwnEntry(c, n) \o FlattenSeq([j \in DOMAIN Supers(c) |-> m[<<Supers(c)[j], n>>]])
MergedEntries(m, c, n) == LET es == Entries(m, c, n) IN IF es = <<>> THEN <<>> ELSE <<Merged(es)>>
MethodSets ==
    LET rounds == Cardinality(DOMAIN clsMap) + 1
        sets[i \in 0 .. rounds] ==
          IF i = 0 THEN [x \in (DOMAIN clsMap) \X MethodNames |-> <<>>]
          ELSE LET m == sets[i-1] IN [x \in (DOMAIN clsMap) \X MethodNames |-> MergedEntries(m, x[1], x[2])]
    IN sets[rounds]
AllMethods ==
    LET m == MethodSets
    IN [c \in DOMAIN clsMap |-> [n \in {k \in MethodNames : m[<<c, k>>] # <<>>} |-> m[<<c, n>>][1]]]
FillAllMethods ==
    /\ stage = "sigs" /\ todo = {}
    /\ all' = AllMethods
    /\ stage' = IF Panicked(UNION {{all'[c][n].sig : n \in DOMAIN all'[c]} : c \in DOMAIN all'})
                THEN "panicked" ELSE "ancestors"
    /\ UNCHANGED <<U, src, clsMap, classes, batches, sig, todo, withArgs, throwables>>
StaticSigTypes(c) == UNION {ClassesIn(StaticSig(c, n)) : n \in NamesOf(clsMap[c].funcs)}
SigTypes(c) == StaticSigTypes(c) \cup UNION {ClassesIn(all[c][n].sig) : n \in DOMAIN all[c]}
\* Classes that only overloaded signatures mention.  The descriptor of a class that is
\* not imported is nil, and asked for its functions.
IncludeAncestors ==
    /\ stage = "ancestors"
    /\ LET found == UNION {SigTypes(c) : c \in classes}
       IN IF found \subseteq DOMAIN clsMap
          THEN /\ classes' = classes \cup found /\ batches' = Append(batches, found \ classes)
               /\ stage' = "names" /\ todo' = classes \cup found
          ELSE stage' = "panicked" /\ UNCHANGED <<classes, batches, todo>>
    /\ UNCHANGED <<U, src, clsMap, sig, all, withArgs, throwables>>

\* fillJNINames: the functions of a class are named one after the other, with their
\* parameters where the class has several variants.  A method of several classes is named
\* by each, and bears the name that the last of them in the list gave it.
FuncSets(c) == {Variants(clsMap[c].funcs, n) : n \in NamesOf(clsMap[c].funcs)}
                 \cup {all[c][n].funcs : n \in DOMAIN all[c]}
BeyondTwo(fs) == Len(fs) > 2
IsOverloaded(fs) == Len(fs) > 1
JoinedBefore(d, c) == \E j \in DOMAIN batches : c \in batches[j] /\ \E i \in 1 .. j - 1 : d \in batches[i]
FillJNINames(c) ==
    /\ stage = "names" /\ c \in todo /\ ~\E d \in todo : JoinedBefore(d, c)
    /\ withArgs' = (withArgs \ UNION {ToSet(fs) : fs \in FuncSets(c)})
                      \cup UNION {ToSet(fs) : fs \in {s \in FuncSets(c) : IsOverloaded(s)}}
    /\ todo' = todo \ {c}
    /\ UNCHANGED <<U, src, stage, clsMap, classes, batches, sig, all, throwables>>
JNIName(f) == IF f \in withArgs THEN <<f.n, f.ps>> ELSE <<f.n>>

\* fillThrowableFor climbs through classes only.
Throws(c) == Throwable \in Climb([d \in {d \in DOMAIN clsMap : ~clsMap[d].iface} |-> Supers(d)], c)
FillThrowables ==
    /\ stage = "names" /\ todo = {}
    /\ stage' = "done"
    /\ throwables' = IF Throwable \in DOMAIN clsMap THEN {c \in classes : Throws(c)} ELSE {}
    /\ UNCHANGED <<U, src, clsMap, classes, batches, sig, todo, all, withArgs>>

Next == \/ ImportNamed \/ ImportReferenced \/ Embed \/ IncludeImplicit
        \/ \E c \in todo : FillSigs(c) \/ FillJNINames(c)
        \/ FillAllMethods \/ IncludeAncestors \/ FillThrowables
Spec == Init /\ [][Next]_vars
=============================================================================
