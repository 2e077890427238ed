------------------------------- MODULE GoStub -------------------------------
(***************************************************************************)
(* The Go file of a bound package, as bind/gengo.go writes it: the         *)
(* functions it exports to C, the C functions it calls on foreign objects, *)
(* and the proxy types that stand for foreign objects.                     *)
(***************************************************************************)
EXTENDS GoDecls

\* genFuncSignature: the refnum of the receiver comes before the parameters.
Proxy(p, o, f) == CFunc(p, o, f.n, RefAnd(o, CTypes(f.sig.ps)), CTypes(f.sig.rs))
FieldFuncs(p, s) ==
    LET fs == SupportedVars(ExportedFields(p, s)) IN
    {CFunc(p, s, f.n \o <<"Set">>, <<"int32_t", CgoType(f.t)>>, <<>>) : f \in fs}
      \cup {CFunc(p, s, f.n \o <<"Get">>, <<"int32_t">>, <<CgoType(f.t)>>) : f \in fs}
\* Mutant: no default constructor for a struct that has constructors.
StructFuncsLazyNew(p, s) ==
    FieldFuncs(p, s) \cup {Proxy(p, s, m) : m \in Supported(ExportedMethodSet(p, s))}
      \cup {CFunc(p, "new", <<x>>, <<>>, <<"int32_t">>) : x \in {y \in {s} : Constructors(p, y) = {}}}
StructFuncs(p, s) ==
    FieldFuncs(p, s) \cup {Proxy(p, s, m) : m \in Supported(ExportedMethodSet(p, s))}
      \cup {CFunc(p, "new", <<s>>, <<>>, <<"int32_t">>)}
InterfaceFuncs(p, i) == {Proxy(p, i, m) : m \in IfaceMethods(p, i)}
VarFuncs(p) ==
    LET vs == SupportedVars(Vars(p)) IN
    {CFunc(p, "var_set", v.n, <<CgoType(v.t)>>, <<>>) : v \in vs}
      \cup {CFunc(p, "var_get", v.n, <<>>, <<CgoType(v.t)>>) : v \in vs}
\* Every //export of the file.
Exports(p) == (UNION {StructFuncs(p, s) : s \in Structs(p)})
                \cup (UNION {InterfaceFuncs(p, i) : i \in Interfaces(p)})
                \cup VarFuncs(p) \cup {Proxy(p, "", f) : f \in Supported(Funcs(p))}

\* The second half of genInterface: a proxy type, unless nobody can implement it,
\* whose methods call C on the foreign object.
\* Mutant: a proxy type for every interface.
ProxyTypesAll(p) == {<<p, i>> : i \in Interfaces(p)}
ProxyTypes(p) == {<<p, i>> : i \in {j \in Interfaces(p) : Implementable(p, j)}}
ForeignCalls(p) ==
    UNION {{InterfaceMethodSignature(p, x[2], m) : m \in {f \in IfaceMethods(p, x[2]) : ~BadResults(f.sig)}} :
             x \in ProxyTypes(p)}

\* The types genRead turns into Go values: parameters, values set, foreign results.
ReadTypes(p) ==
    (UNION {ToSet(f.sig.ps) : f \in Supported(Funcs(p) \cup Decls(p, "method"))})
      \cup (UNION {TypesIn(m.sig) : m \in UNION {IfaceMethods(p, i) : i \in Interfaces(p)}})
      \cup {v.t : v \in SupportedVars(Vars(p) \cup Decls(p, "field"))}
\* A foreign object becomes a proxy of the package that declares its interface.
ProxyTypesUsed(p) == {<<t.p, t.n>> : t \in {u \in ReadTypes(p) :
                        (IsIface(u) \/ IsErrorType(u)) /\ Implementable(u.p, u.n)}}
Signatures(p) == Supported(Funcs(p) \cup Decls(p, "method"))
                   \cup UNION {IfaceMethods(p, i) : i \in Interfaces(p)}
\* The functions whose results cannot cross, and the method types without a spelling.
GoErrors(p) ==
    {f \in Signatures(p) : BadResults(f.sig)}
      \cup {m \in UNION {IfaceMethods(p, i) : i \in Interfaces(p)} :
              \E t \in TypesIn(m.sig) : t.k = "ptr" /\ Under[<<t.p, t.n>>] = "basic"}
=============================================================================
