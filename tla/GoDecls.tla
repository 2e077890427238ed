------------------------------ MODULE GoDecls ------------------------------
(***************************************************************************)
(* The packages a generator is given and what bind/gen.go and              *)
(* bind/types.go decide about them: which declarations exist for the       *)
(* generators, which types cross the language barrier, which functions are *)
(* constructors, which documentation is found.                             *)
(*                                                                         *)
(* A type is a record: k is its form, p and n its package and name, alias  *)
(* whether it is written as an alias (only types.Unalias sees through it). *)
(* "named" is a named type used directly, "ptr" a pointer to a named type, *)
(* "wrapper" a type imported from a path that begins with Java/.           *)
(***************************************************************************)
EXTENDS Naturals, Sequences, SequencesExt, FiniteSets

CONSTANTS Pkgs,        \* the bound packages (AllPkg)
          Universe,    \* the pseudo package of the type error
          Imports,     \* [package -> the packages it imports], bound or not
          Under,       \* [<<package, name>> -> "struct", "iface" or "basic"]
          Hidden,      \* the unexported type names
          ClassName,   \* [package -> the Java class of its functions]
          Lower        \* [name -> the name as a Java or ObjC method]

VARIABLE pk  \* [package -> its declarations in source order]

All == Pkgs \cup {Universe}
ErrorType == [k |-> "error", p |-> Universe, n |-> "error", alias |-> FALSE]
ErrorMethod == [d |-> "imeth", of |-> "error", n |-> <<"Error">>,
                sig |-> [ps |-> <<>>, rs |-> <<[k |-> "basic", p |-> "", n |-> "string",
                                                alias |-> FALSE]>>]]
Decls(p, kind) == IF p = Universe THEN {d \in {ErrorMethod} : d.d = kind}
                  ELSE {pk[p][i] : i \in {j \in DOMAIN pk[p] : pk[p][j].d = kind}}
TypesIn(sig) == ToSet(sig.ps) \cup ToSet(sig.rs)

(***************************** types.go ************************************)
IsErrorType(t) == t.k = "error"
IsWrapperType(t) == t.k = "wrapper"
IsExported(t) == t.k \in {"named", "ptr"} => t.n \notin Hidden
IsImplementable(sig) == \A t \in TypesIn(sig) : IsExported(t)
IsCallable(f) == IsImplementable(f.sig)
ExportedFields(p, s) == {f \in Decls(p, "field") : f.of = s}
ExportedMethodSet(p, s) == {m \in Decls(p, "method") : m.of = s}
\* makeIfaceSummary
Callable(p, i) == {m \in Decls(p, "imeth") : m.of = i /\ IsCallable(m)}
Implementable(p, i) ==
    /\ ~\E d \in Decls(p, "unexported method") : d.of = i
    /\ \A m \in Decls(p, "imeth") : m.of = i => IsImplementable(m.sig)

(****************************** gen.go *************************************)
\* What Init collects of a package, by the kind of its exported objects.
NamedTypes(p, form) == {n \in {x[2] : x \in {y \in DOMAIN Under : y[1] = p}} :
                          Under[<<p, n>>] = form /\ n \notin Hidden}
Structs(p) == NamedTypes(p, "struct")
Interfaces(p) == NamedTypes(p, "iface")
Funcs(p) == {f \in Decls(p, "func") : IsCallable(f)}
Vars(p) == Decls(p, "var")
Consts(p) == {c \in Decls(p, "const") : c.t.k = "basic" /\ ~c.t.alias}
AllIntf == UNION {{<<p, i>> : i \in Interfaces(p)} : p \in Pkgs}

ValidPkg(p) == p \in Pkgs
IsIface(t) == t.k = "named" /\ Under[<<t.p, t.n>>] = "iface"
SupportedBasics == {"bool", "int", "int32", "uint8", "rune", "string"}
IsSupported(t) ==
    \/ IsErrorType(t) \/ IsWrapperType(t)
    \/ t.k = "bytes"
    \/ /\ t.k = "basic"
       /\ t.n \in SupportedBasics
    \/ /\ t.k = "ptr" \/ IsIface(t)
       /\ ValidPkg(t.p)
IsSigSupported(sig) == \A t \in TypesIn(sig) : IsSupported(t)
Supported(fs) == {f \in fs : IsSigSupported(f.sig)}
SupportedVars(vs) == {v \in vs : IsSupported(v.t)}
IfaceMethods(p, i) == Supported(Callable(p, i))
BadResults(sig) == \/ Len(sig.rs) > 2
                   \/ Len(sig.rs) = 2 /\ ~IsErrorType(sig.rs[2])

\* The struct that f constructs: named New<T>..., returning *T and at most an error.
Constructs(f, p, s) ==
    LET rs == f.sig.rs IN
    /\ Len(rs) \in {1, 2}
    /\ Len(rs) = 2 => IsErrorType(rs[2])
    /\ rs[1].k = "ptr" /\ ~rs[1].alias /\ rs[1].p = p /\ rs[1].n = s
    /\ Len(f.n) > 1 /\ f.n[1] = "New" /\ f.n[2] = s
Constructors(p, s) == {f \in Funcs(p) : Constructs(f, p, s)}

CBasic == [bool |-> "char", int |-> "nint", int32 |-> "int32_t", uint8 |-> "uint8_t",
           rune |-> "int32_t", string |-> "nstring"]
CgoType(t) == CASE t.k = "basic" -> CBasic[t.n]
                [] t.k = "bytes" -> "nbyteslice"
                [] OTHER -> "int32_t"
CTypes(ts) == [i \in DOMAIN ts |-> CgoType(ts[i])]
\* A C function: its package, object and name, and the C types it takes and returns.
CFunc(p, o, n, ps, rs) == [sym |-> <<p, o, n>>, ps |-> ps, rs |-> rs]
RefAnd(o, ps) == IF o = "" THEN ps ELSE <<"int32_t">> \o ps
InterfaceMethodSignature(p, i, m) ==
    CFunc(p, i, m.n, RefAnd(i, CTypes(m.sig.ps)), CTypes(m.sig.rs))

\* parseDocs: the documented members of each type, one declaration after the other; a
\* method that comes before its type makes the entry, an exported type makes it anew.
AddFunc(docs, d) ==
    IF d.d = "method" THEN [docs EXCEPT ![d.of] = @ \cup {d.n}] ELSE docs
\* Mutant: a type declaration starts the whole table anew.
AddTypeAnew(docs, d) == [n \in DOMAIN docs |-> {}]
AddType(docs, d) == IF d.n \in Hidden THEN docs ELSE [docs EXCEPT ![d.n] = {}]
AddDecl(docs, d) == IF d.d = "type" THEN AddType(docs, d) ELSE AddFunc(docs, d)
Documented(p) == {pk[p][i].n : i \in {j \in DOMAIN pk[p] : pk[p][j].d = "type"}}
                   \cup {pk[p][i].of : i \in {j \in DOMAIN pk[p] : pk[p][j].d = "method"}}
ParsedDocs(p) == LET docs[i \in 0 .. Len(pk[p])] ==
                       IF i = 0 THEN [n \in Documented(p) |-> {}] ELSE AddDecl(docs[i-1], pk[p][i])
                 IN docs
MemberDocs(p) == ParsedDocs(p)[Len(pk[p])]
=============================================================================
