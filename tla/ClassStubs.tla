----------------------------- MODULE ClassStubs -----------------------------
(***************************************************************************)
(* The Go package Java, the C file and the initialisation that             *)
(* bind/genclasses.go writes for the classes the importer returns, and     *)
(* what the compilers and the programs written against them rely on.       *)
(***************************************************************************)
EXTENDS JavaImport

Done == stage = "done"
IsSupported(t) == t # <<"ints">>
IsFuncSupported(f) == \A t \in ToSet(f.ps) \cup {f.r} : IsSupported(t)
SupportedIn(fs) == {f \in ToSet(fs) : IsFuncSupported(f)}
IsFuncSetSupported(fs) == SupportedIn(fs) # {}
\* The C function of a variant, and what it is called in the C file.
CFunc(prefix, f) == [prefix |-> prefix, f |-> f]
CName(c, x) == <<x.prefix, c, JNIName(x.f)>>
Functions(c) == NamesOf(clsMap[c].funcs)
IsGoClass(c) == c \in GoClasses
\* GenC, and GenH which declares the same.
StaticDecls(c) == {CFunc("cproxy_s", f) : f \in {g \in SupportedIn(clsMap[c].funcs) : g.pub}}
MethodDecls(c) == {CFunc("cproxy", f) : f \in UNION {SupportedIn(all[c][n].funcs) : n \in DOMAIN all[c]}}
SuperDecls(c) == {CFunc("csuper", f) : f \in UNION {SupportedIn(all[c][n].funcs) :
                                                  n \in {m \in DOMAIN all[c] : IsGoClass(c)}}}
CDecls(c) == StaticDecls(c) \cup MethodDecls(c) \cup SuperDecls(c)
\* genGo: the functions assigned, the methods of the proxy types, and what they call.
GoFunctions(c) == {n \in Functions(c) : \E f \in SupportedIn(Variants(clsMap[c].funcs, n)) : f.pub}
ProxyMethods(c) == {n \in DOMAIN all[c] : IsFuncSetSupported(all[c][n].funcs)}
GoCalls(c) ==
    (UNION {{CFunc("cproxy_s", f) : f \in SupportedIn(Variants(clsMap[c].funcs, n))} : n \in GoFunctions(c)})
      \cup UNION {{CFunc(pre, f) : f \in SupportedIn(all[c][n].funcs),
                     pre \in {"cproxy"} \cup {x \in {"csuper"} : IsGoClass(c)}} : n \in ProxyMethods(c)}
\* GenPackage: the function variables a Go program sees.
PackageVars(c) == {n \in Functions(c) : \E f \in SupportedIn(Variants(clsMap[c].funcs, n)) : f.pub}
\* genInterface: the Go interface of the class, and the types its methods name.
InterfaceOf(c) == [n \in {m \in DOMAIN all[c] : IsFuncSetSupported(all[c][m].funcs)} |-> all[c][n].sig]
TypesNamed(c) == {t \in UNION {ToSet(s.ps) \cup {s.r} :
                                 s \in {all[c][n].sig : n \in ProxyMethods(c)}
                                         \cup {StaticSig(c, n) : n \in GoFunctions(c)}} : IsClass(t)}
\* genFuncBody: the parameters the dispatch on the number of arguments reads.
MinParams(fs) == Min({Len(fs[1].ps)} \cup {Len(f.ps) : f \in SupportedIn(fs)})
Buckets(fs) == {Len(f.ps) : f \in SupportedIn(fs)}
DispatchFits(fs, s) ==
    LET minp == MinParams(fs)
        tail == s.variadic /\ Len(s.ps) = minp + 1
    IN /\ Cardinality(Buckets(fs)) # 1 => tail
       /\ \A f \in SupportedIn(fs) : \A i \in DOMAIN f.ps :
            IF i > minp THEN tail ELSE i \in DOMAIN s.ps /\ ~(s.variadic /\ i = Len(s.ps))

-----------------------------------------------------------------------------
\* Beside the types: once the referenced classes are imported, every class that a
\* descriptor names has a descriptor, and so has every class returned; the importer
\* panics only if java.lang.Object has none (all classes are interfaces), which
\* commonType returns whether it has or not (importReferencedClasses, Import, commonType).
TypeOK == /\ DOMAIN clsMap \subseteq Findable \cup GoClasses
          /\ classes \subseteq DOMAIN clsMap /\ throwables \subseteq classes
          /\ stage \in {"import", "refer", "embed", "implicit", "sigs", "ancestors", "names", "done",
                       "failed", "panicked"}
          /\ todo \subseteq DOMAIN clsMap
          /\ DOMAIN sig \subseteq OwnKeys
          /\ stage \in {"ancestors", "names", "done"} => DOMAIN all = DOMAIN clsMap
          /\ stage \notin {"import", "refer", "failed"} =>
               \A c \in DOMAIN clsMap : MemberTypes(clsMap[c]) \cup ToSet(Supers(c)) \subseteq DOMAIN clsMap
          /\ stage = "panicked" => Object \notin DOMAIN clsMap

\* A class has exactly the methods that javap shows of it and of its ancestors and
\* that the Go source mentions by name, each signature once, however the names came in
\* (Import, filterReferences before and after the closure, fillAllMethods).  Not so if an
\* ancestor is the class of a Go struct and an old version of it is on the class path.
AllMethodsExact ==
    Done => \A c \in classes : \A n \in Names(src) \cup {"ToString"} :
        LET above == Ancestors(clsMap, c)
            declared == {f \in UNION {ToSet(U[d].funcs) : d \in above \cap DOMAIN U} :
                           f.kind = "method" /\ f.n = n}
            got == IF n \in DOMAIN all[c] THEN all[c][n].funcs ELSE <<>>
        IN above \cap DOMAIN U \cap GoClasses = {} =>
             /\ \A f \in declared : \E g \in ToSet(got) : Overrides(f, g)
             /\ ToSet(got) \subseteq declared
             /\ \A i, j \in DOMAIN got : Overrides(got[i], got[j]) => i = j

\* The proxy of a throwable class is a Go error: its Error method calls ToString without
\* arguments and returns the string, though the source may never mention the name.  Java's
\* own declarations of toString are as they should be, and no class overloads it without
\* declaring it: combineSigs forgets that its first signature is variadic.
ErrorCallsToString ==
    LET ToStrings(d) == {f \in ToSet(U[d].funcs) : f.kind = "method" /\ f.n = "ToString"}
        Usual(d) == /\ \A f \in ToStrings(d) : f.r = <<"String">> /\ ~f.thr
                    /\ ToStrings(d) # {} => \E f \in ToStrings(d) : f.ps = <<>>
    IN /\ Done /\ Throwable \in DOMAIN U \ GoClasses /\ ToStrings(Throwable) # {}
       /\ \A d \in DOMAIN clsMap \cap DOMAIN U : Usual(d)
       => \A c \in throwables :
            /\ "ToString" \in ProxyMethods(c)
            /\ LET s == all[c]["ToString"].sig
               IN s.r = <<"String">> /\ ~s.throws /\ (s.ps = <<>> \/ (s.variadic /\ Len(s.ps) = 1))

\* Every call that the Go files make to a C stub reaches the stub of the variant meant: it
\* is declared, and no other stub of the class has its name, though the classes that share
\* a method name it in turn (fillJNINames, GenC, genFuncBody).  Left out are the calls to
\* protected variants of a public function, which have no stub, and the two ways in which
\* stubs do get one name: variants that differ only in their result, as those
\* of an override that returns another type, and two variants that each are alone in some
\* other class that may have named them last.
StubsLink ==
    LET Alone(f) == \E d \in classes : \E fs \in FuncSets(d) : f \in ToSet(fs) /\ Len(fs) = 1
        Confused(f, g) == f.n = g.n /\ (f.ps = g.ps \/ (Alone(f) /\ Alone(g)))
    IN Done => \A c \in classes :
        /\ \A x \in {y \in GoCalls(c) : y.prefix = "cproxy_s" => y.f.pub} :
             /\ x \in CDecls(c)
             /\ \A y \in CDecls(c) : CName(c, y) = CName(c, x) => y = x \/ Confused(x.f, y.f)
        /\ GoFunctions(c) = PackageVars(c)

\* The Go interface of a class names only classes that are generated too, for the classes
\* the source names, if javap finds them, and those in the signatures of these.  (The loop
\* that adds classes does not visit those it adds, so the next in a chain of calls can be
\* missing.)
NamedTypesGenerated ==
    LET named == (Candidates \cap DOMAIN U) \cup (GoClasses \ DOMAIN U)
        near == named \cup UNION {MemberTypes(clsMap[c]) : c \in named}
    IN Done => \A c \in near : c \in classes /\ TypesNamed(c) \subseteq classes

\* The common signature of methods that a class declares without inheriting or bequeathing
\* overloads of them covers every variant: the dispatch reads only arguments it has.
\* (combineSigs forgets the shortest variant when it combines a variadic signature.)
VariantsCovered ==
    LET Alone(c, n) == /\ \A d \in DOMAIN clsMap : <<d, n>> \in DOMAIN sig /\ d # c =>
                             c \notin Ancestors(clsMap, d) /\ d \notin Ancestors(clsMap, c)
                       /\ \A f \in ToSet(all[c][n].funcs) : IsFuncSupported(f)
    IN Done => \A c \in classes :
        /\ \A n \in ProxyMethods(c) : Alone(c, n) => DispatchFits(all[c][n].funcs, all[c][n].sig)
        /\ \A n \in GoFunctions(c) : (\A f \in ToSet(Variants(clsMap[c].funcs, n)) : IsFuncSupported(f))
                                       => DispatchFits(Variants(clsMap[c].funcs, n), StaticSig(c, n))

\* fillSuperSigs: the signatures of a class are combined with those of its super classes
\* to preserve the assignability of classes to their super classes.
Assignable ==
    Done => \A c, d \in classes : d \in ToSet(Supers(c)) =>
        \A n \in DOMAIN InterfaceOf(d) : n \in DOMAIN InterfaceOf(c) /\ InterfaceOf(c)[n] = InterfaceOf(d)[n]
=============================================================================
