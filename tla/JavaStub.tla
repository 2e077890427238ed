------------------------------ MODULE JavaStub ------------------------------
(***************************************************************************)
(* The Java classes and the JNI file of a bound package, as                *)
(* bind/genjava.go writes them.  Class and method names are sequences of   *)
(* their parts, so that <<"T", "_">> is the class T_; bytes is byte[] and  *)
(* ArrayOfB its descriptor.                                                *)
(***************************************************************************)
EXTENDS GoStub

JavaTypeName(g, n) == IF n = ClassName[g] THEN <<n, "_">> ELSE <<n>>
Class(p) == <<ClassName[p]>>
ProxyClass(i) == <<"proxy", i>>

JavaBasic == [bool |-> "boolean", int |-> "long", int32 |-> "int", uint8 |-> "byte",
              rune |-> "int", string |-> "String"]
JniBasic == [bool |-> "jboolean", int |-> "jlong", int32 |-> "jint", uint8 |-> "jbyte",
             rune |-> "jint", string |-> "jstring"]
SigBasic == [bool |-> "Z", int |-> "J", int32 |-> "I", uint8 |-> "B", rune |-> "I",
             string |-> "Ljava.lang.String"]
JavaType(g, t) ==
    CASE IsErrorType(t) -> <<"java.lang.Exception">>
      [] IsWrapperType(t) -> <<"java", t.n>>
      [] t.k = "basic" -> <<JavaBasic[t.n]>>
      [] t.k = "bytes" -> <<"bytes">>
      [] OTHER -> <<t.p>> \o JavaTypeName(t.p, t.n)
JniType(t) == CASE t.k = "basic" -> JniBasic[t.n]
                [] t.k = "bytes" -> "jbyteArray"
                [] OTHER -> "jobject"
JniSigType(g, t) ==
    CASE IsErrorType(t) -> <<"java.lang.Exception">>
      [] t.k = "basic" -> <<SigBasic[t.n]>>
      [] t.k = "bytes" -> <<"ArrayOfB">>
      [] OTHER -> <<t.p>> \o JavaTypeName(g, t.n)

\* What the Java language and the JNI specification make of a Java type.
JniTypes == [void |-> "void", boolean |-> "jboolean", long |-> "jlong", int |-> "jint",
             byte |-> "jbyte", bytes |-> "jbyteArray", String |-> "jstring"]
JniOf(jt) == IF Len(jt) = 1 /\ jt[1] \in DOMAIN JniTypes THEN JniTypes[jt[1]] ELSE "jobject"
SigTypes == [void |-> "V", boolean |-> "Z", long |-> "J", int |-> "I",
             byte |-> "B", bytes |-> "ArrayOfB", String |-> "Ljava.lang.String"]
SigOf(jt) == IF Len(jt) = 1 /\ jt[1] \in DOMAIN SigTypes THEN <<SigTypes[jt[1]]>> ELSE jt

Over(F(_), ts) == [i \in DOMAIN ts |-> F(ts[i])]
Meth(cls, m, ps, r) == [cls |-> cls, m |-> m, ps |-> ps, r |-> r]
JavaTypes(g, ts) == Over(LAMBDA t : JavaType(g, t), ts)
\* An error that is the only result, or the second one, becomes an exception.
\* Mutant: a lone error is returned.
JavaResultError(g, rs) == IF rs = <<>> THEN <<"void">> ELSE JavaType(g, rs[1])
JavaResult(g, rs) == IF rs = <<>> \/ (Len(rs) = 1 /\ IsErrorType(rs[1]))
                     THEN <<"void">> ELSE JavaType(g, rs[1])
JniResult(rs) == IF rs = <<>> \/ (Len(rs) = 1 /\ IsErrorType(rs[1]))
                 THEN "void" ELSE JniType(rs[1])

(************************ structs that extend Java **************************)
Embeds(p, s) == {e \in Decls(p, "embed") : e.of = s}
GenNoargCon(p, s) ==
    Embeds(p, s) # {} => /\ \A e \in Embeds(p, s) : e.noarg
                         /\ \A f \in Constructors(p, s) : Len(f.sig.ps) > 0
\* A constructor that takes one int32 would be the one that takes a refnum.
IsConsSigSupported(sig) ==
    /\ IsSigSupported(sig)
    /\ ~(Len(sig.ps) = 1 /\ sig.ps[1].k = "basic" /\ ~sig.ps[1].alias /\ sig.ps[1].n = "int32")
JavaConstructors(p, s) == {f \in Constructors(p, s) : IsConsSigSupported(f.sig)}

(****************************** .java files ********************************)
FuncDecl(p, cls, f) ==
    Meth(cls, Lower[f.n], JavaTypes(p, f.sig.ps), JavaResult(p, f.sig.rs))
Accessors(p, cls, vs) == {Meth(cls, <<"set">> \o v.n, <<JavaType(p, v.t)>>, <<"void">>) : v \in vs}
                           \cup {Meth(cls, <<"get">> \o v.n, <<>>, JavaType(p, v.t)) : v \in vs}
StructClass(p, s) ==
    LET cls == JavaTypeName(p, s) IN
    {Meth(cls, <<"__">> \o f.n, JavaTypes(p, f.sig.ps), <<"int">>) : f \in JavaConstructors(p, s)}
      \cup {Meth(cls, <<"__", "New">>, <<>>, <<"int">>) :
              x \in {y \in {s} : GenNoargCon(p, s) /\ Constructors(p, s) = {}}}
      \cup Accessors(p, cls, SupportedVars(ExportedFields(p, s)))
      \cup {FuncDecl(p, cls, m) : m \in Supported(ExportedMethodSet(p, s))}
PackageClass(p) ==
    {Meth(Class(p), <<"_init">>, <<>>, <<"void">>)} \cup Accessors(p, Class(p), SupportedVars(Vars(p)))
      \cup {FuncDecl(p, Class(p), f) : f \in Supported(Funcs(p))}
ProxyClasses(p) == UNION {{FuncDecl(p, ProxyClass(i), m) : m \in IfaceMethods(p, i)} : i \in Interfaces(p)}
\* The native methods that the Java files of p declare.
Natives(p) == (UNION {StructClass(p, s) : s \in Structs(p)}) \cup PackageClass(p) \cup ProxyClasses(p)
InterfaceDecl(p, i) == {FuncDecl(p, JavaTypeName(p, i), m) : m \in IfaceMethods(p, i)}
ClassesGenerated(p) == {<<p>> \o JavaTypeName(p, n) : n \in Structs(p) \cup Interfaces(p)}

\* Which interfaces a struct implements and an interface extends.
Unaliased(t) == [t EXCEPT !.alias = FALSE]
UnaliasedAll(ts) == Over(Unaliased, ts)
MethodsOf(x) == {<<m.n, UnaliasedAll(m.sig.ps), UnaliasedAll(m.sig.rs)>> : m \in x}
Required(x) == {m \in Decls(x[1], "imeth") : m.of = x[2]}
Open(x) == ~\E d \in Decls(x[1], "unexported method") : d.of = x[2]
Implements(p, s) == {x \in AllIntf : Open(x) /\ MethodsOf(Required(x)) \subseteq MethodsOf(ExportedMethodSet(p, s))}
\* Mutant: interfaces with the same methods extend each other.
ExtendsEqual(p, i) == {x \in AllIntf : /\ Open(x) /\ x # <<p, i>>
                                       /\ MethodsOf(Required(x)) \subseteq MethodsOf(Required(<<p, i>>))}
Extends(p, i) == {x \in AllIntf : /\ Open(x) /\ MethodsOf(Required(x)) \subseteq MethodsOf(Required(<<p, i>>))
                                  /\ Cardinality(Required(x)) < Cardinality(Required(<<p, i>>))}

(******************************** .c file **********************************)
ToC(t) == CASE t.k = "basic" -> CBasic[t.n]
            [] t.k = "bytes" -> "nbyteslice"
            [] OTHER -> "int32_t"
ToCs(ts) == Over(ToC, ts)
JniFunc(cls, m, ps, r) == Meth(cls, m, Over(JniType, ps), r)
JniVarName(p, n) == IF n = <<ClassName[p]>> THEN n \o <<"_">> ELSE n
JniAccessors(cls, v, n) ==
    {JniFunc(cls, <<"set">> \o n, <<v.t>>, "void"), JniFunc(cls, <<"get">> \o n, <<>>, JniType(v.t))}
JniDef(cls, f) == JniFunc(cls, Lower[f.n], f.sig.ps, JniResult(f.sig.rs))
JniStruct(p, s) ==
    LET cls == JavaTypeName(p, s) IN
    {JniFunc(cls, <<"__">> \o f.n, f.sig.ps, "jint") : f \in JavaConstructors(p, s)}
      \cup {JniFunc(cls, <<"__", "New">>, <<>>, "jint") :
              x \in {y \in {s} : Constructors(p, s) = {} /\ GenNoargCon(p, s)}}
      \cup {JniDef(cls, m) : m \in Supported(ExportedMethodSet(p, s))}
      \cup UNION {JniAccessors(cls, v, v.n) : v \in SupportedVars(ExportedFields(p, s))}
JniDefs(p) ==
    {JniFunc(Class(p), <<"_init">>, <<>>, "void")}
      \cup {JniDef(Class(p), f) : f \in Supported(Funcs(p))}
      \cup (UNION {JniAccessors(Class(p), v, JniVarName(p, v.n)) : v \in SupportedVars(Vars(p))})
      \cup (UNION {{JniDef(ProxyClass(i), m) : m \in IfaceMethods(p, i)} : i \in Interfaces(p)})
      \cup UNION {JniStruct(p, s) : s \in Structs(p)}

\* The exports of the Go file that the JNI functions call, with the C types they pass.
Call(p, o, f) == CFunc(p, o, f.n, RefAnd(o, ToCs(f.sig.ps)), CTypes(f.sig.rs))
JniCalls(p) ==
    {Call(p, "", f) : f \in Supported(Funcs(p))}
      \cup (UNION {{CFunc(p, "var_set", v.n, <<ToC(v.t)>>, <<>>),
                   CFunc(p, "var_get", v.n, <<>>, <<CgoType(v.t)>>)} : v \in SupportedVars(Vars(p))})
      \cup (UNION {{Call(p, i, m) : m \in IfaceMethods(p, i)} : i \in Interfaces(p)})
      \cup UNION {{Call(p, "", f) : f \in JavaConstructors(p, s)}
                    \cup {CFunc(p, "new", <<s>>, <<>>, <<"int32_t">>) :
                            x \in {y \in {s} : Constructors(p, s) = {} /\ GenNoargCon(p, s)}}
                    \cup {Call(p, s, m) : m \in Supported(ExportedMethodSet(p, s))}
                    \cup UNION {{CFunc(p, s, v.n \o <<"Set">>, <<"int32_t", ToC(v.t)>>, <<>>),
                                 CFunc(p, s, v.n \o <<"Get">>, <<"int32_t">>, <<CgoType(v.t)>>)} :
                                  v \in SupportedVars(ExportedFields(p, s))} : s \in Structs(p)}

\* genMethodInterfaceProxy and GenH: the C functions Go calls on Java objects.
JavaCallbacks(p) == UNION {{InterfaceMethodSignature(p, i, m) : m \in IfaceMethods(p, i)} : i \in Interfaces(p)}
\* What _init looks up: the classes it makes proxies of, by their refnum constructor,
\* and the methods of the Java interfaces.
\* Mutant: the constructor that takes a refnum is looked up whether generated or not.
ConstructorLookupsAll(p) == {JavaTypeName(p, s) : s \in Structs(p)} \cup {ProxyClass(i) : i \in Interfaces(p)}
ConstructorLookups(p) == {JavaTypeName(p, s) : s \in {x \in Structs(p) : GenNoargCon(p, x)}}
                           \cup {ProxyClass(i) : i \in Interfaces(p)}
RefnumConstructors(p) == {JavaTypeName(p, s) : s \in {x \in Structs(p) : GenNoargCon(p, x)}}
                           \cup {ProxyClass(i) : i \in Interfaces(p)}
MethodLookup(p, i, m) ==
    Meth(JavaTypeName(p, i), Lower[m.n], Over(LAMBDA t : JniSigType(p, t), m.sig.ps),
         IF m.sig.rs = <<>> \/ IsErrorType(m.sig.rs[1]) THEN <<"V">> ELSE JniSigType(p, m.sig.rs[1]))
MethodLookups(p) ==
    UNION {{MethodLookup(p, i, m) : m \in IfaceMethods(p, i)} : i \in Interfaces(p) \ {"error"}}
JavaErrors(p) == {f \in Signatures(p) : BadResults(f.sig)}
\* The static initializer touches the classes of the imported bound packages, which touch theirs.
\* Mutant: only the classes of the packages imported directly.
TouchedDirect(p, n) == {p} \cup (Imports[p] \cap Pkgs)
Touching(p) == LET t[i \in Nat] == IF i = 0 THEN {p}
                                    ELSE t[i-1] \cup ((UNION {Imports[q] : q \in t[i-1]}) \cap Pkgs)
               IN t
Touched(p, n) == Touching(p)[n]
=============================================================================
