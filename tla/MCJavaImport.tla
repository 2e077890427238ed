---------------------------- MODULE MCJavaImport ----------------------------
(***************************************************************************)
(* A class O that everything extends, a throwable T and an exception X, a  *)
(* chain of classes A < B whose method f may be overloaded, an interface I *)
(* a class P whose methods lead from class to class, a class W whose super *)
(* class is not found, an interface J that overloads its methods with      *)
(* types that have no class in common, an interface N that has but an      *)
(* overloaded method, and interfaces K < L of which K overrides a method   *)
(* with another result and L mentions the data binding component.          *)
(***************************************************************************)
EXTENDS ClassStubs, TLC

O == <<"l", "O">>
T == <<"l", "T">>
X == <<"l", "X">>
A == <<"k", "A">>
B == <<"k", "B">>
I == <<"k", "I">>
P == <<"k", "P">>
V == <<"k", "V">>
W == <<"k", "W">>
Q == <<"k", "Q">>
J == <<"k", "J">>
L == <<"k", "L">>
K == <<"k", "K">>
N == <<"k", "N">>
E == <<"k", "E">>
D == <<"d", "D">>
IntT == <<"int">>
Str == <<"String">>

Func(kind, n, ps, r, pub, thr) == [kind |-> kind, n |-> n, ps |-> ps, r |-> r, pub |-> pub, thr |-> thr]
M(n, ps, r) == Func("method", n, ps, r, TRUE, FALSE)
Cls(c, supers, iface, fs) ==
    [supers |-> supers, iface |-> iface,
     funcs |-> [i \in 1 .. Len(fs) |-> [of |-> c, kind |-> fs[i].kind, n |-> fs[i].n, ps |-> fs[i].ps, r |-> fs[i].r,
                                        pub |-> fs[i].pub, thr |-> fs[i].thr]]]
FsOf(c) == {<<>>, <<M("F", <<IntT>>, <<>>)>>, <<M("F", << <<"bytes">> >>, Str), M("F", <<c>>, IntT)>>,
            <<M("F", <<>>, <<>>), M("F", <<IntT, Str>>, <<>>)>>,
            <<M("F", <<c, IntT>>, c), M("F", << <<"ints">> >>, <<>>), Func("method", "F", <<Str>>, c, TRUE, TRUE)>>}
Statics(c) == <<Func("con", "New", <<>>, c, TRUE, FALSE), Func("con", "New", <<IntT>>, c, FALSE, TRUE),
                Func("static", "Make", <<IntT>>, c, TRUE, FALSE), Func("static", "Make", <<>>, V, TRUE, FALSE)>>
MCUniverses ==
    {O :> Cls(O, <<>>, FALSE, <<M("ToString", <<>>, Str), M("F2", <<>>, <<>>)>>)
       @@ T :> Cls(T, <<O>>, FALSE, <<M("ToString", <<>>, Str), M("G", <<>>, P)>>) @@ X :> Cls(X, <<T>>, FALSE, x.str \o Statics(X))
       @@ I :> Cls(I, <<>>, TRUE, <<M("F", <<I>>, <<>>)>>) @@ L :> Cls(L, <<>>, TRUE, <<M("H", <<>>, L), M("G", <<D>>, <<>>)>>)
       @@ K :> Cls(K, <<L>>, TRUE, <<M("H", <<>>, K)>>) @@ N :> Cls(N, <<>>, TRUE, <<M("G", <<>>, <<>>), M("G", <<IntT, Str>>, <<>>)>>)
       @@ J :> Cls(J, <<>>, TRUE, <<M("F", <<J>>, <<>>), M("F", <<E>>, <<>>),
                                 M("G", <<J>>, <<>>), M("G", <<E>>, <<>>), M("G", <<I>>, <<>>)>>) @@ E :> Cls(E, <<>>, TRUE, <<>>)
       @@ A :> Cls(A, <<O>>, FALSE, fa \o <<M("G", <<>>, X), M("H", <<P>>, <<>>)>>)
       @@ B :> Cls(B, <<A>> \o x.ib, FALSE, fb \o Statics(B))
       @@ V :> Cls(V, <<O>>, FALSE, <<>>) @@ W :> Cls(W, << <<"k", "Missing">> >>, FALSE, <<>>) @@ P :> Cls(P, <<O>>, FALSE, <<M("G", <<>>, Q)>>) @@ Q :> Cls(Q, <<O>>, FALSE, <<M("G", <<>>, I)>>) :
       fa \in FsOf(A), fb \in FsOf(B),
       x \in {[ib |-> <<>>, str |-> <<>>], [ib |-> <<I>>, str |-> <<M("ToString", <<>>, Str), M("ToString", <<IntT>>, Str)>>]}}
Sel(pkg, n, hidden) == [pkg |-> pkg, n |-> n, hidden |-> hidden]
Class(c, hidden) == Sel(<<c[1]>>, c[2], hidden)
Src(sels, methods, structs) == [sels |-> sels, methods |-> methods, structs |-> structs]
MCSources ==
    {Src(<<Class(W, FALSE)>>, {}, <<>>),
     Src(<<Class(T, FALSE)>>, {}, <<>>),
     Src(<<Class(J, FALSE), Sel(<<>>, "F", FALSE)>>, {}, <<>>),
     Src(<<Class(J, FALSE), Sel(<<>>, "G", FALSE)>>, {}, <<>>),
     Src(<<Class(K, FALSE), Class(L, FALSE), Sel(<<>>, "G", FALSE), Sel(<<>>, "H", FALSE)>>, {}, <<>>),
     Src(<<Class(N, FALSE), Sel(<<>>, "G", FALSE)>>, {}, <<>>),
     Src(<<Class(A, FALSE), Class(B, FALSE), Class(I, FALSE), Sel(<<>>, "F", FALSE)>>, {}, <<>>),
     Src(<<Class(A, FALSE), Sel(B, "New", FALSE), Sel(B, "Make", FALSE), Sel(<<>>, "G", FALSE)>>, {}, <<>>),
     Src(<<Sel(X, "Make", FALSE), Sel(<<>>, "H", FALSE), Class(P, TRUE)>>, {}, <<>>),
     Src(<<Class(A, FALSE), Sel(<<>>, "F", FALSE)>>, {"H"}, <<[n |-> "S", embeds |-> <<Class(B, FALSE)>>]>>),
     Src(<<>>, {"F"}, <<[n |-> "S", embeds |-> <<Class(A, FALSE), Class(I, FALSE)>>],
                        [n |-> "R", embeds |-> <<Class(P, TRUE)>>]>>),
     Src(<<Class(<<"k", "Z">>, FALSE)>>, {}, <<[n |-> "S", embeds |-> <<Class(<<"k", "Z">>, FALSE)>>]>>)}
MCObject == O
MCThrowable == T
MCDataBinding == D
=============================================================================
