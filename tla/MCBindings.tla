----------------------------- MODULE MCBindings -----------------------------
(***************************************************************************)
(* Four bound packages: p imports q and the unbound package x, q imports   *)
(* r, x imports s.  p has a struct called like its Java class, a hidden    *)
(* struct, a hidden interface and a type that is neither of both.          *)
(***************************************************************************)
EXTENDS Bindings

MCPkgs == {"p", "q", "r", "s"}
MCUniverse == "universe"
MCImports == [p |-> {"q", "x"}, q |-> {"r"}, r |-> {}, s |-> {}, x |-> {"s"}, universe |-> {}]
MCUnder == (<<"p", "T">> :> "struct" @@ <<"p", "P">> :> "struct" @@ <<"p", "h">> :> "struct"
            @@ <<"p", "g">> :> "iface" @@ <<"p", "I">> :> "iface" @@ <<"p", "K">> :> "iface" @@ <<"p", "N">> :> "basic"
            @@ <<"q", "J">> :> "iface" @@ <<"r", "A">> :> "struct" @@ <<"s", "B">> :> "struct"
            @@ <<"universe", "error">> :> "iface")
MCHidden == {"g", "h"}
MCClassName == [p |-> "P", q |-> "Q", r |-> "R", s |-> "S", universe |-> "Universe"]
MCLower == <<"F">> :> <<"f">> @@ <<"M">> :> <<"m">> @@ <<"V">> :> <<"v">> @@ <<"P">> :> <<"p">>
           @@ <<"New", "T">> :> <<"new", "T">> @@ <<"New", "T", "X">> :> <<"new", "T", "X">>
           @@ <<"Error">> :> <<"error">>

Type(k, p, n, alias) == [k |-> k, p |-> p, n |-> n, alias |-> alias]
B(n) == Type("basic", "", n, FALSE)
Ptr(p, n) == Type("ptr", p, n, FALSE)
Named(p, n) == Type("named", p, n, FALSE)
Sig(ps, rs) == [ps |-> ps, rs |-> rs]
Plain == {B("int"), B("string"), Type("basic", "", "int32", TRUE), Type("bytes", "", "byte", FALSE),
          Ptr("p", "T"), Named("p", "I"), Ptr("p", "P"), ErrorType}
Odd == {B("complex"), B("uint8"), Type("slice", "", "int", FALSE), Ptr("p", "N"), Ptr("p", "h"), Named("p", "T"),
        Ptr("r", "A"), Ptr("s", "B"), Named("q", "J"), Ptr("x", "E"), Type("wrapper", "", "java.lang.Runnable", FALSE)}
One == {Sig(<<>>, <<>>)} \cup {Sig(<<t>>, <<>>) : t \in Plain \cup Odd}
         \cup {Sig(<<>>, <<t>>) : t \in {ErrorType, B("int"), Ptr("p", "T"), Named("p", "I"), Ptr("s", "B")}}
Two == {Sig(<<B("int")>>, <<Ptr("p", "T"), ErrorType>>), Sig(<<>>, <<B("int"), ErrorType>>),
        Sig(<<>>, <<B("int"), B("int")>>),
        Sig(<<>>, <<ErrorType, ErrorType>>)}
ConsSigs == {Sig(ps, <<Ptr("p", "T")>> \o e) : ps \in {<<>>, <<B("int32")>>, <<B("string")>>},
                                               e \in {<<>>, <<ErrorType>>}}
Members(kind, of, sigs) == {[d |-> kind, of |-> of, n |-> <<"M">>, sig |-> s] : s \in sigs}
Values(kind, n, ts) == {[d |-> kind, n |-> n, t |-> t] : t \in ts}
DeclsOfP ==
    {[d |-> "func", n |-> <<"F">>, sig |-> s] : s \in One \cup Two}
      \cup {[d |-> "func", n |-> n, sig |-> s] : n \in {<<"New", "T">>, <<"New", "T", "X">>}, s \in ConsSigs}
      \cup Values("var", <<"V">>, Plain \cup {Ptr("p", "h"), Named("p", "g"), Ptr("s", "B")})
      \cup Values("var", <<"P">>, {B("int")})
      \cup Values("const", <<"C">>, {B("int"), B("string"), B("rune"), Type("basic", "", "int", TRUE)})
      \cup {[d |-> "field", of |-> "T", n |-> <<"V">>, t |-> t] : t \in {B("int"), Ptr("p", "P"), Ptr("p", "h")}}
      \cup Members("method", "T", One \cup Two)
      \cup Members("imeth", "I", One \cup Two)
      \cup Members("imeth", "K", {Sig(<<>>, <<>>), Sig(<<B("int")>>, <<>>)})
      \cup {[d |-> "unexported method", of |-> "I", n |-> <<"u">>]}
      \cup {[d |-> "embed", of |-> "T", n |-> <<"E">>, noarg |-> b] : b \in BOOLEAN}
      \cup {[d |-> "objc embed", of |-> "T", n |-> <<"E">>]}
MCDeclarations ==
    [p |-> DeclsOfP, q |-> Members("imeth", "J", {Sig(<<>>, <<>>), Sig(<<Ptr("r", "A")>>, <<>>)}),
     r |-> {}, s |-> {}]
TypeDecl(n) == [d |-> "type", n |-> n]
MCTypeDecls == [p |-> <<TypeDecl("T"), TypeDecl("P")>>, q |-> <<TypeDecl("J")>>,
                r |-> <<TypeDecl("A")>>, s |-> <<TypeDecl("B")>>]
MCLangs == <<"go", "java", "objc">>
=============================================================================
