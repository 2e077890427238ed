------------------------------ MODULE Bindings ------------------------------
(***************************************************************************)
(* A run of cmd/anjb: packages are written, then the generators make the   *)
(* files of every language for every package and for the type error, one   *)
(* call of genPkg after the other.  A generator that meets something it    *)
(* refuses reports it, goes on, and the exit status becomes 1; a file that *)
(* cannot be written ends the process.  What C, Java, Objective-C and Go   *)
(* compilers, the linker and the loader would make of the files is stated  *)
(* as properties of the files of a run that exits with status 0.           *)
(***************************************************************************)
EXTENDS JavaStub, ObjcStub

CONSTANTS Langs,        \* the languages in the order they are generated
          Declarations, \* [bound package -> the declarations it may have]
          TypeDecls,    \* [bound package -> the sequence of its type declarations]
          MaxDecls      \* bound: declarations added to the packages

\* What go/packages gives: the type of a named type is known, of the error types there is
\* one, and parameters and results are sequences.
KnownType(t) ==
    /\ t = [k |-> t.k, p |-> t.p, n |-> t.n, alias |-> t.alias]
    /\ t.k = "named" => <<t.p, t.n>> \in DOMAIN Under
    /\ IsErrorType(t) => t.p = Universe /\ t.n = "error"
KnownSig(sig) == /\ sig.ps \in Seq(TypesIn(sig)) /\ sig.rs \in Seq(TypesIn(sig))
                 /\ \A t \in TypesIn(sig) : KnownType(t)
KnownDecl(d) == /\ d.d \in {"func", "method", "imeth"} => KnownSig(d.sig)
                /\ d.d \in {"var", "field"} => KnownType(d.t)
ASSUME PackagesAssumption ==
    /\ IsFiniteSet(Pkgs)
    /\ DOMAIN TypeDecls = Pkgs /\ \A p \in Pkgs : TypeDecls[p] \in Seq(ToSet(TypeDecls[p]))
    /\ \A p \in Pkgs : \A d \in Declarations[p] \cup ToSet(TypeDecls[p]) : KnownDecl(d)
\* A package declares a type once.
Once(ds) == \A i, j \in DOMAIN ds : ds[i].d = "type" /\ ds[j].d = "type" /\ ds[i].n = ds[j].n => i = j
ASSUME TypesAssumption == \A p \in Pkgs : Once(TypeDecls[p])
ASSUME UniverseAssumption == /\ Universe \notin Pkgs /\ "error" \notin Hidden
                             /\ <<Universe, "error">> \in DOMAIN Under /\ Under[<<Universe, "error">>] = "iface"
\* Whoever asks for Java or Objective-C asks for Go too, as anja does.
ASSUME LangsAssumption == Langs \in Seq({"go", "java", "objc"}) /\ "go" \in ToSet(Langs)

VARIABLES phase,      \* "editing", "running" or "exited"
          todo,       \* the calls of genPkg still to make
          made,       \* the calls that made their files
          exitStatus

vars == <<pk, phase, todo, made, exitStatus>>

\* For every language, every package and then the one of the type error.
PkgSeq == SetToSeq(Pkgs) \o <<Universe>>
GenCalls == LET n == Len(PkgSeq)
            IN [k \in 1 .. Len(Langs) * n |-> <<Langs[((k - 1) \div n) + 1], PkgSeq[((k - 1) % n) + 1]>>]
Errors(l, p) == CASE l = "go" -> GoErrors(p)
                  [] l = "java" -> JavaErrors(p)
                  [] l = "objc" -> ObjcErrors(p)

Init == /\ pk = TypeDecls
        /\ phase = "editing" /\ todo = <<>> /\ made = {} /\ exitStatus = 0

Added == FoldFunctionOnSet(+, 0, [p \in Pkgs |-> Len(pk[p]) - Len(TypeDecls[p])], Pkgs)
\* Declarations follow the types they use, but a method may come before its type.
Declare(p, d) ==
    /\ phase = "editing" /\ Added < MaxDecls
    /\ \A i \in DOMAIN pk[p] : pk[p][i].d = d.d => pk[p][i].n # d.n
    /\ \/ pk' = [pk EXCEPT ![p] = Append(@, d)]
       \/ /\ d.d = "method"
          /\ \E i \in DOMAIN pk[p] : pk' = [pk EXCEPT ![p] = InsertAt(@, i, d)]
    /\ UNCHANGED <<phase, todo, made, exitStatus>>
Run == /\ phase = "editing"
       /\ phase' = "running" /\ todo' = GenCalls
       /\ UNCHANGED <<pk, made, exitStatus>>
\* Mutant: the exit status counts the errors.
GenPkgCounting == /\ phase = "running" /\ todo # <<>>
                  /\ todo' = Tail(todo) /\ made' = made \cup {Head(todo)}
                  /\ exitStatus' = exitStatus + Cardinality(Errors(Head(todo)[1], Head(todo)[2]))
                  /\ UNCHANGED <<pk, phase>>
GenPkg == /\ phase = "running" /\ todo # <<>>
          /\ todo' = Tail(todo) /\ made' = made \cup {Head(todo)}
          /\ exitStatus' = IF Errors(Head(todo)[1], Head(todo)[2]) = {} THEN exitStatus ELSE 1
          /\ UNCHANGED <<pk, phase>>
CannotWrite == /\ phase = "running" /\ todo # <<>>
               /\ phase' = "exited" /\ exitStatus' = 1
               /\ UNCHANGED <<pk, todo, made>>
Exit == /\ phase = "running" /\ todo = <<>>
        /\ phase' = "exited"
        /\ UNCHANGED <<pk, todo, made, exitStatus>>
Next == \/ \E p \in Pkgs : \E d \in Declarations[p] : Declare(p, d)
        \/ Run \/ GenPkg \/ CannotWrite \/ Exit
Spec == Init /\ [][Next]_vars

-----------------------------------------------------------------------------
TypeOK == /\ \A p \in Pkgs : ToSet(pk[p]) \subseteq Declarations[p] \cup ToSet(TypeDecls[p])
          /\ phase \in {"editing", "running", "exited"}
          /\ made \subseteq ToSet(GenCalls) /\ ToSet(todo) \subseteq ToSet(GenCalls)
          /\ exitStatus \in {0, 1}

Done == phase = "exited" /\ exitStatus = 0
NativeOf(m) == [cls |-> m.cls, m |-> m.m, ps |-> Over(JniOf, m.ps), r |-> JniOf(m.r)]
DescriptorOf(m) == [cls |-> m.cls, m |-> m.m, ps |-> Over(SigOf, m.ps), r |-> SigOf(m.r)]
\* What jniSigType spells as javaType does: no wrapper, no class of another package when
\* names clash, no error before another result (that method would be looked up as void).
Spelled(p, m) ==
    /\ \A t \in TypesIn(m.sig) : /\ ~IsWrapperType(t)
                                 /\ t.p \in Pkgs /\ t.p # p => t.n \notin {ClassName[p], ClassName[t.p]}
    /\ Len(m.sig.rs) = 2 => ~IsErrorType(m.sig.rs[1])
Generated(p) == Structs(p) \cup Interfaces(p)
\* A type from a package that only unbound packages lead to (a promoted method, an
\* inferred variable): no bound class touches its package.
Touchable(p) == Touched(p, Cardinality(Pkgs)) \cup {Universe}
ImportClosed(S) == \A q \in S : Imports[q] \cap Pkgs \subseteq S
Remote(p, t) == \E S \in SUBSET Pkgs : p \in S /\ ImportClosed(S) /\ t.p \in Pkgs \ S
Unnameable(t) == t.k \in {"ptr", "named"} /\ t.n \notin Generated(t.p)
Crossing(p) == (UNION {TypesIn(f.sig) : f \in Signatures(p)})
                 \cup {v.t : v \in SupportedVars(Vars(p) \cup Decls(p, "field"))}

\* Every native method of a Java class, taken by the JVM as class, name and JNI types,
\* is a function of the C file.  (genJNIVar names a variable that is called like the
\* package class after a class, so its accessors are left out.)
NativesImplemented ==
    Done => \A p \in All : \A m \in Natives(p) :
        \/ NativeOf(m) \in JniDefs(p)
        \/ \E v \in Vars(p) : v.n = Class(p) /\ m.m \in {<<"set">> \o v.n, <<"get">> \o v.n}

\* Every Go function that the JNI and Objective-C files of a package call is exported by
\* its Go file with the C types they pass and expect.
CallsExported ==
    Done => \A p \in All : /\ <<"go", p>> \in made
                           /\ <<"java", p>> \in made => JniCalls(p) \subseteq Exports(p)
                           /\ <<"objc", p>> \in made => ObjcCalls(p) \subseteq Exports(p)

\* Every C function that Go calls on a foreign object is declared where Go sees it and
\* defined with the same signature by both foreign sides, and every proxy type that
\* Go makes of a foreign reference is one the generated Go package has.  (A hidden
\* interface has none: HiddenHarmless.)
CallbacksMatch ==
    Done => \A p \in All :
        /\ ForeignCalls(p) \subseteq JavaCallbacks(p) \cap ObjcCallbacks(p) \cap GoHeader(p)
        /\ \A t \in ProxyTypesUsed(p) : t[2] \notin Hidden => t \in ProxyTypes(t[1])

\* The classes, constructors and methods that _init looks up by descriptor are those
\* of the generated Java files, for the interfaces whose methods it spells as they do.
LookupsResolve ==
    Done => \A p \in Pkgs :
        /\ ConstructorLookups(p) \subseteq RefnumConstructors(p)
        /\ \A i \in Interfaces(p) :
             (\A m \in IfaceMethods(p, i) : Spelled(p, m)) =>
               \A l \in {x \in MethodLookups(p) : x.cls = JavaTypeName(p, i)} :
                 \E m \in InterfaceDecl(p, i) : DescriptorOf(m) = l

\* Every class whose proxies the C or Objective-C code of a package makes is generated,
\* and initialized (Java: touched) or declared (Objective-C: included) before that code
\* runs, through imports of imports where the package does not import it itself.
\* (Unexported types, and types only unbound packages lead to, are left out.)
ProxiesReady ==
    Done => \A p \in All : \A t \in Crossing(p) :
        \/ t.k \notin {"ptr", "named"} \/ Unnameable(t) \/ Remote(p, t)
        \/ /\ <<t.p, t.n>> \in ObjcClassesNamed(p)
           /\ t.n \in Generated(t.p) /\ t.p \in Touchable(p)

\* What the Objective-C header promises its users, the implementation has.
HeaderImplemented == Done => \A p \in All : <<"objc", p>> \in made =>
                                              ObjcHeader(p) \subseteq Implementation(p)

\* A class has the methods of every interface it declares to implement, whoever declared
\* it, and interfaces that have the same methods do not extend each other in a circle.
Meths(S) == {[m |-> x.m, ps |-> x.ps, r |-> x.r] : x \in S}
InheritanceSound ==
    Done => \A p \in Pkgs :
        /\ \A s \in Structs(p) : \A x \in Implements(p, s) :
              Meths(InterfaceDecl(x[1], x[2])) \subseteq Meths(StructClass(p, s))
        /\ \A i \in Interfaces(p) : \A x \in Extends(p, i) :
              /\ Meths(InterfaceDecl(x[1], x[2])) \subseteq Meths(InterfaceDecl(p, i))
              /\ <<p, i>> \notin Extends(x[1], x[2])

\* The documentation of a method that comes after its type is found, whatever other
\* declarations stand between them.
DocsKept ==
    \A p \in Pkgs : \A i, j \in DOMAIN pk[p] :
        (i < j /\ pk[p][i].d = "type" /\ pk[p][j].d = "method" /\ pk[p][i].n = pk[p][j].of)
          => pk[p][j].n \in MemberDocs(p)[pk[p][j].of]

\* cmd/anjb/doc.go: unexported symbols have no effect on the cross-language interface.
HiddenHarmless ==
    Done => \A p \in Pkgs : \A t \in Crossing(p) :
        t.k \in {"ptr", "named"} /\ t.n \in Hidden => t.n \in Generated(t.p)
=============================================================================
