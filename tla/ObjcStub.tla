------------------------------ MODULE ObjcStub ------------------------------
(***************************************************************************)
(* The three Objective-C files of a bound package, as bind/genobjc.go      *)
(* writes them: <p>_darwin.h, which Go sees, <P>.objc.h, which users see,  *)
(* and <P>_darwin.m, the implementation.                                   *)
(***************************************************************************)
EXTENDS GoStub

ObjcEmbeds(p, s) == {e \in Decls(p, "objc embed") : e.of = s}

(********************** <p>_darwin.h and the callbacks *********************)
GoHeader(p) ==
    UNION {{InterfaceMethodSignature(p, i, m) : m \in IfaceMethods(p, i)} :
             i \in {j \in Interfaces(p) : Implementable(p, j)}}
ObjcCallbacks(p) ==
    UNION {{InterfaceMethodSignature(p, i, m) : m \in IfaceMethods(p, i)} : i \in Interfaces(p)}

(***************************** summaries ***********************************)
\* An error is an output parameter; the other result is one too if it cannot be nil.
Nullable(t) == t.k \in {"bytes", "ptr", "named", "error", "wrapper"} \/ t.n = "string"
ReturnsVal(rs) == \/ Len(rs) = 1 /\ ~IsErrorType(rs[1])
                  \/ Len(rs) = 2 /\ Nullable(rs[1])
OutParams(rs) == IF ReturnsVal(rs) THEN Tail(rs) ELSE rs
ObjcResult(rs) == CASE rs = <<>> -> "void"
                    [] ReturnsVal(rs) -> "value"
                    [] OTHER -> "BOOL"
Member(cls, n, ps, r) == [cls |-> cls, n |-> n, ps |-> ps, r |-> r]
FuncSummary(cls, n, f) == Member(cls, n, f.sig.ps \o OutParams(f.sig.rs), ObjcResult(f.sig.rs))
InitName(s, f) == <<"init">> \o SubSeq(f.n, 3, Len(f.n))
Inits(p, s) == {FuncSummary(<<s>>, InitName(s, f), [f EXCEPT !.sig.rs = <<>>]) :
                  f \in {g \in Supported(Constructors(p, s)) : ObjcEmbeds(p, s) = {}}}
                 \cup {Member(<<s>>, <<"init">>, <<>>, "value") :
                         x \in {y \in {s} : \/ ObjcEmbeds(p, s) # {}
                                            \/ Constructors(p, s) = {}}}

(********************************* <P>.objc.h ******************************)
Property(cls, v) == {Member(cls, Lower[v.n], <<>>, "value"), Member(cls, <<"set">> \o v.n, <<v.t>>, "void")}
StructH(p, s) ==
    Inits(p, s) \cup (UNION {Property(<<s>>, f) : f \in SupportedVars(ExportedFields(p, s))})
      \cup {FuncSummary(<<s>>, Lower[m.n], m) : m \in Supported(ExportedMethodSet(p, s))}
InterfaceH(p, i) == {FuncSummary(<<i>>, Lower[m.n], m) : m \in IfaceMethods(p, i)}
ObjcHeader(p) ==
    (UNION {StructH(p, s) : s \in Structs(p)}) \cup (UNION {InterfaceH(p, i) : i \in Interfaces(p)})
      \cup (UNION {Property(<<>>, v) : v \in SupportedVars(Vars(p))})
      \cup {FuncSummary(<<>>, f.n, f) : f \in {g \in Supported(Funcs(p)) : ~BadResults(g.sig)}}
      \cup {Member(<<>>, c.n, <<>>, "const") : c \in SupportedVars(Consts(p))}

(****************************** <P>_darwin.m *******************************)
Accessor(cls, v) == {Member(cls, <<"set">> \o v.n, <<v.t>>, "void"), Member(cls, Lower[v.n], <<>>, "value")}
StructM(p, s) ==
    Inits(p, s) \cup (UNION {Accessor(<<s>>, f) : f \in SupportedVars(ExportedFields(p, s))})
      \cup {FuncSummary(<<s>>, Lower[m.n], m) : m \in Supported(ExportedMethodSet(p, s))}
InterfaceM(p, i) == {FuncSummary(<<i>>, Lower[m.n], m) : m \in IfaceMethods(p, i)}
ConstKinds == {"bool", "string", "int", "int32"}
Implementation(p) ==
    (UNION {StructM(p, s) : s \in Structs(p)}) \cup (UNION {InterfaceM(p, i) : i \in Interfaces(p)})
      \cup (UNION {Accessor(<<>>, v) : v \in SupportedVars(Vars(p))})
      \cup {FuncSummary(<<>>, f.n, f) : f \in {g \in Supported(Funcs(p)) : ~BadResults(g.sig)}}
      \cup {Member(<<>>, c.n, <<>>, "const") : c \in {d \in SupportedVars(Consts(p)) : d.t.n \in ConstKinds}}

\* genWrite and the exports that the implementation calls.
Written(t) == CASE t.k = "basic" -> CBasic[t.n]
                [] t.k = "bytes" -> "nbyteslice"
                [] OTHER -> "int32_t"
Send(p, o, f) == CFunc(p, o, f.n, RefAnd(o, [i \in DOMAIN f.sig.ps |-> Written(f.sig.ps[i])]), CTypes(f.sig.rs))
VarCalls(p, v) == {CFunc(p, "var_set", v.n, <<Written(v.t)>>, <<>>), CFunc(p, "var_get", v.n, <<>>, <<CgoType(v.t)>>)}
FieldCalls(p, s, v) == {CFunc(p, s, v.n \o <<"Set">>, <<"int32_t", Written(v.t)>>, <<>>),
                        CFunc(p, s, v.n \o <<"Get">>, <<"int32_t">>, <<CgoType(v.t)>>)}
ObjcCalls(p) ==
    {Send(p, "", f) : f \in Supported(Funcs(p))} \cup (UNION {VarCalls(p, v) : v \in SupportedVars(Vars(p))})
      \cup (UNION {{Send(p, i, m) : m \in IfaceMethods(p, i)} : i \in Interfaces(p)})
      \cup (UNION {{Send(p, s, m) : m \in Supported(ExportedMethodSet(p, s))} : s \in Structs(p)})
      \cup (UNION {UNION {FieldCalls(p, s, v) : v \in SupportedVars(ExportedFields(p, s))} : s \in Structs(p)})
      \cup {CFunc(p, "new", <<s>>, <<>>, <<"int32_t">>) :
              s \in {x \in Structs(p) : ObjcEmbeds(p, x) # {} \/ Constructors(p, x) = {}}}

\* objcType: the classes and protocols that the header names, and the types it refuses.
ObjcTypes(p) == (UNION {TypesIn(f.sig) : f \in Signatures(p)})
                  \cup {v.t : v \in SupportedVars(Vars(p) \cup Decls(p, "field"))}
ObjcClassesNamed(p) == {<<t.p, t.n>> : t \in {u \in ObjcTypes(p) : u.k \in {"ptr", "named", "error"}}}
\* Mutant: a constant of a kind it has no spelling for is not an error.
ObjcErrorsNoConst(p) ==
    {t \in ObjcTypes(p) : IsWrapperType(t) \/ (t.k = "ptr" /\ Under[<<t.p, t.n>>] = "basic")}
      \cup {f \in Signatures(p) : BadResults(f.sig)}
ObjcErrors(p) ==
    {t \in ObjcTypes(p) : IsWrapperType(t) \/ (t.k = "ptr" /\ Under[<<t.p, t.n>>] = "basic")}
      \cup {f \in Signatures(p) : BadResults(f.sig)}
      \cup {c \in SupportedVars(Consts(p)) : c.t.n \notin ConstKinds}
=============================================================================
