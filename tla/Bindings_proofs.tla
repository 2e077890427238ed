--------------------------- MODULE Bindings_proofs ---------------------------
(***************************************************************************)
(* Proofs about the generated files for any bound packages, declarations   *)
(* and languages.  A run that exits with status 0 has made every file and  *)
(* met nothing it refuses (the invariant, Books below); what the compilers,*)
(* the linker and the loader make of the files then is a matter of what    *)
(* the generators write, declaration by declaration: lemmas about one      *)
(* package, whatever it declares.                                          *)
(***************************************************************************)
EXTENDS Bindings, Recursion, SequenceTheorems

USE PackagesAssumption, UniverseAssumption, LangsAssumption

-----------------------------------------------------------------------------
(* The calls of genPkg. *)

LEMMA DivMod ==
  ASSUME NEW n \in Nat, n > 0, NEW i \in Nat, NEW j \in 0 .. n - 1
  PROVE  (i * n + j) \div n = i /\ (i * n + j) % n = j
<1> DEFINE k == i * n + j
           q == k \div n
<1>1. k \in Nat /\ q \in Int /\ k = n * q + (k % n) /\ k % n \in 0 .. n - 1
  BY Z3
<1>2. q = i
  <2>1. n * (q - i) = j - (k % n)
    BY <1>1, Z3
  <2>2. CASE q > i
    BY <1>1, <2>1, <2>2, Z3
  <2>3. CASE q < i
    BY <1>1, <2>1, <2>3, Z3
  <2> QED
    BY <1>1, <2>2, <2>3, Z3
<1> QED
  BY <1>1, <1>2, Z3

LEMMA EnumeratesSet ==
  ASSUME NEW S, IsFiniteSet(S)
  PROVE  /\ SetToSeq(S) \in Seq(S)
         /\ ToSet(SetToSeq(S)) = S
<1> DEFINE n == Cardinality(S)
<1>1. n \in Nat /\ IsFiniteSet(1 .. n) /\ Cardinality(1 .. n) = n
  BY FS_CardinalityType, FS_Interval
<1>2. Injection(1 .. n, S) # {}
  BY FS_CardinalityType DEF ExistsBijection, Bijection
<1>3. \E f \in [1 .. n -> S] : IsInjective(f)
  BY <1>2 DEF Injection
<1>4. SetToSeq(S) \in [1 .. n -> S] /\ IsInjective(SetToSeq(S))
  BY <1>3 DEF SetToSeq
<1>5. SetToSeq(S) \in Surjection(1 .. n, S)
  BY <1>1, <1>4, FS_Injection DEF Injection
<1>6. \A x \in S : \E i \in 1 .. n : SetToSeq(S)[i] = x
  BY <1>5 DEF Surjection
<1>7. ASSUME NEW m \in Nat, NEW f \in [1 .. m -> S]
      PROVE  DOMAIN f = 1 .. m /\ f \in Seq(S) /\ \A i \in 1 .. m : f[i] \in S
  OBVIOUS
<1> HIDE DEF n
<1>8. DOMAIN SetToSeq(S) = 1 .. n /\ SetToSeq(S) \in Seq(S) /\ \A i \in 1 .. n : SetToSeq(S)[i] \in S
  BY <1>1, <1>4, <1>7
<1> QED
  BY <1>6, <1>8 DEF ToSet

\* The packages in their order, the universe last.
LEMMA PkgSeqFacts ==
  PkgSeq \in Seq(All) /\ ToSet(PkgSeq) = All /\ Len(PkgSeq) \in Nat /\ Len(PkgSeq) > 0
<1> DEFINE s == SetToSeq(Pkgs)
<1>1. s \in Seq(Pkgs) /\ ToSet(s) = Pkgs
  BY EnumeratesSet
<1> HIDE DEF s
<1>2. PkgSeq = Append(s, Universe)
  BY <1>1 DEF PkgSeq, s
<1>3. s \in Seq(All) /\ Universe \in All
  BY <1>1 DEF All
<1>4. /\ PkgSeq \in Seq(All) /\ Len(PkgSeq) = Len(s) + 1
      /\ \A i \in 1 .. Len(s) : PkgSeq[i] = s[i]
      /\ PkgSeq[Len(s) + 1] = Universe
  BY <1>2, <1>3
<1>5. \A p \in All : p \in ToSet(PkgSeq)
  <2>1. \A p \in Pkgs : \E i \in 1 .. Len(s) : s[i] = p
    BY <1>1, ToSetFacts
  <2>2. \A i \in 1 .. Len(s) + 1 : PkgSeq[i] \in ToSet(PkgSeq)
    BY <1>4, ToSetFacts
  <2>3. Len(s) \in Nat
    BY <1>1
  <2>4. Universe \in ToSet(PkgSeq)
    BY <1>4, <2>2, <2>3
  <2>5. ASSUME NEW p \in Pkgs
        PROVE  p \in ToSet(PkgSeq)
    BY <1>4, <2>1, <2>2, <2>3
  <2> QED
    BY <2>4, <2>5 DEF All
<1>6. \A p \in ToSet(PkgSeq) : p \in All
  BY <1>4, ToSetFacts
<1>7. Len(PkgSeq) \in Nat /\ Len(PkgSeq) > 0
  BY <1>3, <1>4
<1> QED
  BY <1>4, <1>5, <1>6, <1>7

\* Every language is generated for every package and for the type error.
LEMMA CallsOfEveryLanguage ==
  GenCalls \in Seq(ToSet(Langs) \X All) /\ ToSet(GenCalls) = ToSet(Langs) \X All
<1> DEFINE n == Len(PkgSeq)
           L == Len(Langs)
           G == GenCalls
<1>1. n \in Nat /\ n > 0 /\ L \in Nat /\ L * n \in Nat
  BY PkgSeqFacts
<1>2. /\ DOMAIN G = 1 .. L * n
      /\ \A k \in 1 .. L * n : G[k] = <<Langs[((k - 1) \div n) + 1], PkgSeq[((k - 1) % n) + 1]>>
      /\ G = [k \in 1 .. L * n |-> G[k]]
  BY DEF GenCalls
<1>3. ASSUME NEW k \in 1 .. L * n
      PROVE  ((k - 1) \div n) + 1 \in 1 .. L /\ ((k - 1) % n) + 1 \in 1 .. n
  <2> HIDE DEF n, L
  <2> DEFINE q == (k - 1) \div n
             r == (k - 1) % n
  <2>1. q \in Int /\ r \in 0 .. n - 1 /\ k - 1 = n * q + r
    BY <1>1, Z3
  <2>2. q >= 0
    BY <1>1, <2>1, Z3
  <2>3. q < L
    <3> SUFFICES ASSUME q >= L
                 PROVE  FALSE
      BY <1>1, <2>1
    <3>1. n * q >= n * L
      BY <1>1, <2>1, Z3
    <3> QED
      BY <1>1, <2>1, <3>1, Z3
  <2> QED
    BY <1>1, <2>1, <2>2, <2>3
<1>4. \A k \in 1 .. L * n : G[k] \in ToSet(Langs) \X All
  <2>1. /\ \A i \in 1 .. L : Langs[i] \in ToSet(Langs)
        /\ \A j \in 1 .. n : PkgSeq[j] \in All
    <3>1. \A i \in 1 .. L : Langs[i] \in ToSet(Langs)
      BY ToSetFacts
    <3>2. PkgSeq \in Seq(All)
      BY PkgSeqFacts
    <3>3. \A j \in 1 .. n : PkgSeq[j] \in All
      BY <3>2, ToSetFacts
    <3> QED
      BY <3>1, <3>3
  <2> HIDE DEF n, L, G
  <2> QED
    BY <1>2, <1>3, <2>1
<1>5. ASSUME NEW l \in ToSet(Langs), NEW p \in All
      PROVE  <<l, p>> \in ToSet(G)
  <2>1. PICK i \in 1 .. L : Langs[i] = l
    BY DEF ToSet
  <2>2. PICK j \in 1 .. n : PkgSeq[j] = p
    BY PkgSeqFacts DEF ToSet
  <2> DEFINE k == (i - 1) * n + (j - 1) + 1
  <2> HIDE DEF n, L, G
  <2>3. k \in 1 .. L * n
    <3>1. (i - 1) * n >= 0 /\ (i - 1) * n + n <= L * n
      BY <1>1, Z3
    <3> QED
      BY <1>1, <3>1, Z3
  <2>4. (k - 1) \div n = i - 1 /\ (k - 1) % n = j - 1
    <3>1. i - 1 \in Nat /\ j - 1 \in 0 .. n - 1 /\ k - 1 = (i - 1) * n + (j - 1)
      BY <1>1
    <3> QED
      BY <1>1, <3>1, DivMod
  <2>5. G[k] = <<l, p>>
    BY <1>2, <2>1, <2>2, <2>3, <2>4
  <2> QED
    BY <1>2, <2>3, <2>5 DEF ToSet
<1>6. G \in Seq(ToSet(Langs) \X All)
  BY <1>1, <1>2, <1>4
<1>7. \A c \in ToSet(G) : c \in ToSet(Langs) \X All
  BY <1>2, <1>4 DEF ToSet
<1>8. \A c \in ToSet(Langs) \X All : c \in ToSet(G)
  BY <1>5
<1> QED
  BY <1>6, <1>7, <1>8

-----------------------------------------------------------------------------
(* The invariant of a run. *)

PackagesOK ==
    /\ DOMAIN pk = Pkgs
    /\ \A p \in Pkgs : pk[p] \in Seq(Declarations[p] \cup ToSet(TypeDecls[p]))
\* What has been made and what is left are all the calls, and an exit status 0 so far
\* says that nothing was refused in those made.
Books ==
    /\ phase \in {"editing", "running", "exited"} /\ exitStatus \in {0, 1}
    /\ made \subseteq ToSet(GenCalls) /\ todo \in Seq(ToSet(GenCalls))
    /\ phase = "editing" => made = {} /\ todo = <<>> /\ exitStatus = 0
    /\ phase # "editing" /\ exitStatus = 0 =>
         /\ \A c \in ToSet(GenCalls) : c \in made \/ c \in ToSet(todo)
         /\ \A c \in made : Errors(c[1], c[2]) = {}
         /\ phase = "exited" => todo = <<>>
IInv == PackagesOK /\ Books

\* What is reported of a package depends on the packages alone.
LEMMA ErrorsUnchanged ==
  ASSUME pk' = pk, NEW l, NEW p
  PROVE  Errors(l, p)' = Errors(l, p)
<1>1. ASSUME NEW q, NEW k
      PROVE  Decls(q, k)' = Decls(q, k)
  BY DEF Decls
<1>2. ASSUME NEW i
      PROVE  IfaceMethods(p, i)' = IfaceMethods(p, i)
  <2>1. Callable(p, i)' = Callable(p, i)
    BY <1>1 DEF Callable
  <2> QED
    BY <2>1 DEF IfaceMethods, Supported
<1>3. Vars(p)' = Vars(p) /\ Consts(p)' = Consts(p) /\ Funcs(p)' = Funcs(p)
  BY <1>1 DEF Vars, Consts, Funcs
<1>4. Signatures(p)' = Signatures(p)
  <2>1. Supported(Funcs(p) \cup Decls(p, "method"))' = Supported(Funcs(p) \cup Decls(p, "method"))
    BY <1>1, <1>3 DEF Supported
  <2>2. (UNION {IfaceMethods(p, i) : i \in Interfaces(p)})' = UNION {IfaceMethods(p, i) : i \in Interfaces(p)}
    BY <1>2
  <2> QED
    BY <2>1, <2>2 DEF Signatures
<1>5. ObjcTypes(p)' = ObjcTypes(p)
  BY <1>1, <1>3, <1>4 DEF ObjcTypes, SupportedVars
<1>6. GoErrors(p)' = GoErrors(p) /\ JavaErrors(p)' = JavaErrors(p)
  BY <1>2, <1>4 DEF GoErrors, JavaErrors
<1>7. ObjcErrors(p)' = ObjcErrors(p)
  BY <1>3, <1>4, <1>5 DEF ObjcErrors, SupportedVars
<1> QED
  BY <1>6, <1>7 DEF Errors

LEMMA DeclareKeeps ==
  ASSUME IInv, NEW p \in Pkgs, NEW d \in Declarations[p], Declare(p, d)
  PROVE  IInv'
<1> DEFINE D == Declarations[p] \cup ToSet(TypeDecls[p])
<1>1. pk[p] \in Seq(D) /\ d \in D
  BY DEF IInv, PackagesOK
<1>2. CASE pk' = [pk EXCEPT ![p] = Append(@, d)]
  <2>1. Append(pk[p], d) \in Seq(D)
    BY <1>1
  <2> QED
    BY <1>2, <2>1 DEF IInv, PackagesOK, Books, Declare
<1>3. ASSUME NEW i \in DOMAIN pk[p], pk' = [pk EXCEPT ![p] = InsertAt(@, i, d)]
      PROVE  IInv'
  <2>1. InsertAt(pk[p], i, d) \in Seq(D)
    BY <1>1 DEF InsertAt
  <2> QED
    BY <1>3, <2>1 DEF IInv, PackagesOK, Books, Declare
<1> QED
  BY <1>2, <1>3 DEF Declare

LEMMA GenPkgKeeps ==
  ASSUME IInv, GenPkg
  PROVE  IInv'
<1> DEFINE c == Head(todo)
<1>1. todo \in Seq(ToSet(GenCalls)) /\ todo # <<>> /\ phase = "running"
  BY DEF IInv, Books, GenPkg
<1>2. /\ c \in ToSet(GenCalls) /\ Tail(todo) \in Seq(ToSet(GenCalls))
      /\ \A x \in ToSet(todo) : x = c \/ x \in ToSet(Tail(todo))
  <2> DEFINE t == Tail(todo)
  <2>1. c \in ToSet(GenCalls) /\ t \in Seq(ToSet(GenCalls)) /\ c = todo[1] /\ Len(t) = Len(todo) - 1
        /\ \A i \in 1 .. Len(t) : t[i] = todo[i + 1]
    BY <1>1
  <2> HIDE DEF t, c
  <2>2. ASSUME NEW x \in ToSet(todo), x # c
        PROVE  x \in ToSet(t)
    <3>1. PICK i \in 1 .. Len(todo) : todo[i] = x
      BY <1>1, ToSetFacts
    <3>2. Len(todo) \in Nat /\ i # 1
      BY <1>1, <2>1, <2>2, <3>1
    <3>3. i - 1 \in 1 .. Len(t) /\ t[i - 1] = x
      BY <2>1, <3>1, <3>2
    <3> QED
      BY <2>1, <3>3, ToSetFacts, SMTT(40)
  <2> QED
    BY <2>1, <2>2 DEF t
<1>3. PackagesOK'
  BY DEF IInv, PackagesOK, GenPkg
<1>4. Errors(c[1], c[2]) = {} \/ exitStatus' = 1
  BY DEF GenPkg
<1>5. \A l, p : Errors(l, p)' = Errors(l, p)
  BY ErrorsUnchanged DEF GenPkg
<1> HIDE DEF c
<1>6. ASSUME exitStatus' = 0
      PROVE  /\ \A x \in ToSet(GenCalls) : x \in made' \/ x \in ToSet(todo')
             /\ \A x \in made' : Errors(x[1], x[2])' = {}
  <2>1. exitStatus = 0 /\ made' = made \cup {c} /\ todo' = Tail(todo)
    BY <1>1, <1>6 DEF GenPkg, IInv, Books, c
  <2>2. /\ \A x \in ToSet(GenCalls) : x \in made \/ x \in ToSet(todo)
        /\ \A x \in made : Errors(x[1], x[2]) = {}
    BY <1>1, <2>1 DEF IInv, Books
  <2>3. Errors(c[1], c[2]) = {}
    BY <1>4, <1>6
  <2> QED
    BY <1>2, <1>5, <2>1, <2>2, <2>3
<1>7. /\ phase' = "running" /\ exitStatus' \in {0, 1} /\ made' = made \cup {c} /\ todo' = Tail(todo)
  BY <1>1 DEF GenPkg, IInv, Books, c
<1>8. ToSet(GenCalls)' = ToSet(GenCalls)
  BY DEF ToSet, GenCalls, PkgSeq
<1> QED
  BY <1>1, <1>2, <1>3, <1>6, <1>7, <1>8 DEF IInv, Books

\* The invariant holds in every run of anjb.
THEOREM Invariant == Spec => []IInv
<1>1. Init => IInv
  <2> SUFFICES ASSUME Init
               PROVE  IInv
    OBVIOUS
  <2>1. \A p \in Pkgs : TypeDecls[p] \in Seq(Declarations[p] \cup ToSet(TypeDecls[p]))
    OBVIOUS
  <2> QED
    BY <2>1 DEF Init, IInv, PackagesOK, Books
<1>2. IInv /\ [Next]_vars => IInv'
  <2> SUFFICES ASSUME IInv, [Next]_vars
               PROVE  IInv'
    OBVIOUS
  <2>1. ASSUME NEW p \in Pkgs, NEW d \in Declarations[p], Declare(p, d)
        PROVE  IInv'
    BY <2>1, DeclareKeeps
  <2>2. CASE Run
    <3>1. GenCalls \in Seq(ToSet(GenCalls)) /\ made = {} /\ exitStatus = 0
      BY <2>2, CallsOfEveryLanguage DEF Run, IInv, Books
    <3> QED
      BY <2>2, <3>1 DEF Run, IInv, Books, PackagesOK
  <2>3. CASE GenPkg
    BY <2>3, GenPkgKeeps
  <2>4. CASE CannotWrite
    BY <2>4 DEF CannotWrite, IInv, Books, PackagesOK
  <2>5. CASE Exit \/ UNCHANGED vars
    <3>1. \A l, p : Errors(l, p)' = Errors(l, p)
      BY <2>5, ErrorsUnchanged DEF Exit, vars
    <3> QED
      BY <2>5, <3>1 DEF Exit, vars, IInv, Books, PackagesOK
  <2> QED
    BY <2>1, <2>2, <2>3, <2>4, <2>5 DEF Next
<1> QED
  BY <1>1, <1>2, PTL DEF Spec

\* When anjb has ended well every file was made and nothing was refused.
LEMMA DoneFacts ==
  ASSUME IInv, Done
  PROVE  /\ made = ToSet(Langs) \X All
         /\ \A l \in ToSet(Langs), p \in All : Errors(l, p) = {}
<1>1. \A c \in ToSet(GenCalls) : c \in made /\ Errors(c[1], c[2]) = {}
  BY DEF IInv, Books, Done, ToSet
<1>2. made = ToSet(GenCalls)
  BY <1>1 DEF IInv, Books
<1>3. \A l \in ToSet(Langs), p \in All : <<l, p>> \in ToSet(GenCalls)
  BY CallsOfEveryLanguage
<1>4. \A l \in ToSet(Langs), p \in All : Errors(l, p) = {}
  BY <1>1, <1>3
<1> QED
  BY <1>2, <1>4, CallsOfEveryLanguage

\* The declarations of a package, and those of the type error.
LEMMA DeclsKnown ==
  ASSUME PackagesOK, NEW p \in All, NEW k, NEW d \in Decls(p, k)
  PROVE  d.d = k /\ KnownDecl(d)
<1>1. CASE p = Universe
  <2>1. d = ErrorMethod /\ d.d = k
    BY <1>1 DEF Decls
  <2> DEFINE t == [k |-> "basic", p |-> "", n |-> "string", alias |-> FALSE]
  <2>2. ErrorMethod.sig.ps = <<>> /\ ErrorMethod.sig.rs = <<t>> /\ ErrorMethod.d = "imeth"
    BY DEF ErrorMethod
  <2>3. KnownType(t)
    BY DEF KnownType, IsErrorType
  <2> HIDE DEF t
  <2>4. TypesIn(ErrorMethod.sig) = {t}
    BY <2>2 DEF TypesIn, ToSet
  <2>5. KnownSig(ErrorMethod.sig)
    BY <2>2, <2>3, <2>4 DEF KnownSig
  <2>6. KnownDecl(ErrorMethod)
    BY <2>2, <2>5 DEF KnownDecl
  <2> QED
    BY <2>1, <2>6
<1>2. CASE p # Universe
  <2>1. p \in Pkgs /\ pk[p] \in Seq(Declarations[p] \cup ToSet(TypeDecls[p]))
    BY <1>2 DEF All, PackagesOK
  <2>2. PICK i \in DOMAIN pk[p] : d = pk[p][i] /\ pk[p][i].d = k
    BY <1>2 DEF Decls
  <2>3. d \in Declarations[p] \cup ToSet(TypeDecls[p])
    BY <2>1, <2>2
  <2> QED
    BY <2>1, <2>2, <2>3
<1> QED
  BY <1>1, <1>2

-----------------------------------------------------------------------------
(* Objective-C: the header and the implementation. *)

\* What the header of a package declares the implementation has, unless a constant was
\* refused (genobjc.go, errorf).
LEMMA HeaderOfPackage ==
  ASSUME NEW p, ObjcErrors(p) = {}
  PROVE  ObjcHeader(p) \subseteq Implementation(p)
<1>1. \A c, v : Property(c, v) = Accessor(c, v)
  BY DEF Property, Accessor
<1>2. \A s : StructH(p, s) = StructM(p, s)
  BY <1>1 DEF StructH, StructM
<1>3. \A i : InterfaceH(p, i) = InterfaceM(p, i)
  BY DEF InterfaceH, InterfaceM
<1>4. \A c \in SupportedVars(Consts(p)) : c \in {d \in SupportedVars(Consts(p)) : d.t.n \in ConstKinds}
  BY DEF ObjcErrors
<1> QED
  BY <1>1, <1>2, <1>3, <1>4 DEF ObjcHeader, Implementation

\* After a run that exits with 0 the Objective-C implementation of a package (genobjc.go,
\* GenM) has everything its header (GenH) declares: the two enumerate the same declarations,
\* and the one that the implementation leaves out, a constant it cannot represent, is an
\* error that keeps its files from being made.
THEOREM HeadersImplemented == Spec => []HeaderImplemented
<1>1. IInv => HeaderImplemented
  <2> SUFFICES ASSUME IInv, Done, NEW p \in All, <<"objc", p>> \in made
               PROVE  ObjcHeader(p) \subseteq Implementation(p)
    BY DEF HeaderImplemented
  <2>1. Errors("objc", p) = {}
    BY DoneFacts
  <2>2. ObjcErrors(p) = {}
    BY <2>1 DEF Errors
  <2> QED
    BY <2>2, HeaderOfPackage
<1> QED
  BY <1>1, Invariant, PTL

-----------------------------------------------------------------------------
(* C: the exports of the Go file and the functions called. *)

\* Every side spells the C types as the Go side does.
LEMMA SpellingsAgree ==
  /\ \A t : ToC(t) = CgoType(t) /\ Written(t) = CgoType(t)
  /\ \A p, o, f : Call(p, o, f) = Proxy(p, o, f) /\ Send(p, o, f) = Proxy(p, o, f)
<1>1. \A t : ToC(t) = CgoType(t) /\ Written(t) = CgoType(t)
  BY DEF ToC, CgoType, Written
<1>2. \A ts : ToCs(ts) = CTypes(ts) /\ [i \in DOMAIN ts |-> Written(ts[i])] = CTypes(ts)
  BY <1>1 DEF ToCs, Over, CTypes
<1> QED
  BY <1>1, <1>2 DEF Call, Send, Proxy

\* What the Go file exports, part by part.
LEMMA ExportsFacts ==
  ASSUME NEW p
  PROVE  /\ \A f \in Supported(Funcs(p)) : Proxy(p, "", f) \in Exports(p)
         /\ \A v \in SupportedVars(Vars(p)) :
              /\ CFunc(p, "var_set", v.n, <<CgoType(v.t)>>, <<>>) \in Exports(p)
              /\ CFunc(p, "var_get", v.n, <<>>, <<CgoType(v.t)>>) \in Exports(p)
         /\ \A i \in Interfaces(p) : \A m \in IfaceMethods(p, i) : Proxy(p, i, m) \in Exports(p)
         /\ \A s \in Structs(p) :
              /\ CFunc(p, "new", <<s>>, <<>>, <<"int32_t">>) \in Exports(p)
              /\ \A m \in Supported(ExportedMethodSet(p, s)) : Proxy(p, s, m) \in Exports(p)
              /\ \A v \in SupportedVars(ExportedFields(p, s)) :
                   /\ CFunc(p, s, v.n \o <<"Set">>, <<"int32_t", CgoType(v.t)>>, <<>>) \in Exports(p)
                   /\ CFunc(p, s, v.n \o <<"Get">>, <<"int32_t">>, <<CgoType(v.t)>>) \in Exports(p)
<1> DEFINE S == UNION {StructFuncs(p, s) : s \in Structs(p)}
           I == UNION {InterfaceFuncs(p, i) : i \in Interfaces(p)}
           F == {Proxy(p, "", f) : f \in Supported(Funcs(p))}
<1>0. Exports(p) = S \cup I \cup VarFuncs(p) \cup F
  BY DEF Exports
<1>1. ASSUME NEW s \in Structs(p)
      PROVE  StructFuncs(p, s) \subseteq Exports(p)
  <2>1. StructFuncs(p, s) \subseteq S
    OBVIOUS
  <2> HIDE DEF S, I, F
  <2> QED
    BY <1>0, <2>1
<1>2. ASSUME NEW i \in Interfaces(p)
      PROVE  InterfaceFuncs(p, i) \subseteq Exports(p)
  <2>1. InterfaceFuncs(p, i) \subseteq I
    OBVIOUS
  <2> HIDE DEF S, I, F
  <2> QED
    BY <1>0, <2>1
<1>3. VarFuncs(p) \subseteq Exports(p) /\ \A f \in Supported(Funcs(p)) : Proxy(p, "", f) \in Exports(p)
  <2>1. \A f \in Supported(Funcs(p)) : Proxy(p, "", f) \in F
    OBVIOUS
  <2> HIDE DEF S, I, F
  <2> QED
    BY <1>0, <2>1
<1> HIDE DEF S, I, F
<1>4. \A i \in Interfaces(p) : \A m \in IfaceMethods(p, i) : Proxy(p, i, m) \in Exports(p)
  BY <1>2 DEF InterfaceFuncs
<1>5. \A v \in SupportedVars(Vars(p)) :
        /\ CFunc(p, "var_set", v.n, <<CgoType(v.t)>>, <<>>) \in Exports(p)
        /\ CFunc(p, "var_get", v.n, <<>>, <<CgoType(v.t)>>) \in Exports(p)
  BY <1>3 DEF VarFuncs
<1>6. ASSUME NEW s \in Structs(p)
      PROVE  /\ CFunc(p, "new", <<s>>, <<>>, <<"int32_t">>) \in Exports(p)
             /\ \A m \in Supported(ExportedMethodSet(p, s)) : Proxy(p, s, m) \in Exports(p)
             /\ \A v \in SupportedVars(ExportedFields(p, s)) :
                  /\ CFunc(p, s, v.n \o <<"Set">>, <<"int32_t", CgoType(v.t)>>, <<>>) \in Exports(p)
                  /\ CFunc(p, s, v.n \o <<"Get">>, <<"int32_t">>, <<CgoType(v.t)>>) \in Exports(p)
  BY <1>1 DEF StructFuncs, FieldFuncs
<1> QED
  BY <1>3, <1>4, <1>5, <1>6

\* A constructor of a struct is a function of its package.
LEMMA ConstructorsAreFuncs ==
  ASSUME NEW p, NEW s
  PROVE  JavaConstructors(p, s) \subseteq Supported(Funcs(p))
BY DEF JavaConstructors, Constructors, IsConsSigSupported, Supported

LEMMA JniCallsExported ==
  ASSUME NEW p
  PROVE  JniCalls(p) \subseteq Exports(p)
<1>1. \A f \in Supported(Funcs(p)) : Call(p, "", f) \in Exports(p)
  BY SpellingsAgree, ExportsFacts
<1>2. \A v \in SupportedVars(Vars(p)) :
        /\ CFunc(p, "var_set", v.n, <<ToC(v.t)>>, <<>>) \in Exports(p)
        /\ CFunc(p, "var_get", v.n, <<>>, <<CgoType(v.t)>>) \in Exports(p)
  BY SpellingsAgree, ExportsFacts
<1>3. \A i \in Interfaces(p) : \A m \in IfaceMethods(p, i) : Call(p, i, m) \in Exports(p)
  BY SpellingsAgree, ExportsFacts
<1>4. \A s \in Structs(p) :
        /\ \A f \in JavaConstructors(p, s) : Call(p, "", f) \in Exports(p)
        /\ CFunc(p, "new", <<s>>, <<>>, <<"int32_t">>) \in Exports(p)
        /\ \A m \in Supported(ExportedMethodSet(p, s)) : Call(p, s, m) \in Exports(p)
        /\ \A v \in SupportedVars(ExportedFields(p, s)) :
             /\ CFunc(p, s, v.n \o <<"Set">>, <<"int32_t", ToC(v.t)>>, <<>>) \in Exports(p)
             /\ CFunc(p, s, v.n \o <<"Get">>, <<"int32_t">>, <<CgoType(v.t)>>) \in Exports(p)
  BY <1>1, SpellingsAgree, ExportsFacts, ConstructorsAreFuncs
<1> DEFINE V == UNION {{CFunc(p, "var_set", v.n, <<ToC(v.t)>>, <<>>),
                        CFunc(p, "var_get", v.n, <<>>, <<CgoType(v.t)>>)} : v \in SupportedVars(Vars(p))}
           I == UNION {{Call(p, i, m) : m \in IfaceMethods(p, i)} : i \in Interfaces(p)}
           C(s) == {Call(p, "", f) : f \in JavaConstructors(p, s)}
           N(s) == {CFunc(p, "new", <<s>>, <<>>, <<"int32_t">>) :
                      x \in {y \in {s} : Constructors(p, s) = {} /\ GenNoargCon(p, s)}}
           M(s) == {Call(p, s, m) : m \in Supported(ExportedMethodSet(p, s))}
           A(s) == UNION {{CFunc(p, s, v.n \o <<"Set">>, <<"int32_t", ToC(v.t)>>, <<>>),
                           CFunc(p, s, v.n \o <<"Get">>, <<"int32_t">>, <<CgoType(v.t)>>)} :
                            v \in SupportedVars(ExportedFields(p, s))}
           F == {Call(p, "", f) : f \in Supported(Funcs(p))}
           S == UNION {C(s) \cup N(s) \cup M(s) \cup A(s) : s \in Structs(p)}
<1>5. JniCalls(p) = F \cup V \cup I \cup S
  BY DEF JniCalls
<1>6. F \subseteq Exports(p) /\ V \subseteq Exports(p) /\ I \subseteq Exports(p)
  <2>1. F \subseteq Exports(p)
    BY <1>1
  <2>2. V \subseteq Exports(p)
    BY <1>2
  <2>3. I \subseteq Exports(p)
    BY <1>3
  <2> QED
    BY <2>1, <2>2, <2>3
<1>7. ASSUME NEW s \in Structs(p)
      PROVE  C(s) \cup N(s) \cup M(s) \cup A(s) \subseteq Exports(p)
  <2>1. C(s) \subseteq Exports(p) /\ N(s) \subseteq Exports(p) /\ M(s) \subseteq Exports(p)
    BY <1>4
  <2>2. A(s) \subseteq Exports(p)
    BY <1>4
  <2> QED
    BY <2>1, <2>2
<1> HIDE DEF F, V, I, C, N, M, A
<1>8. S \subseteq Exports(p)
  BY <1>7
<1> QED
  BY <1>5, <1>6, <1>8

LEMMA ObjcCallsExported ==
  ASSUME NEW p
  PROVE  ObjcCalls(p) \subseteq Exports(p)
<1>1. \A f \in Supported(Funcs(p)) : Send(p, "", f) \in Exports(p)
  BY SpellingsAgree, ExportsFacts
<1>1i. \A i \in Interfaces(p) : \A m \in IfaceMethods(p, i) : Send(p, i, m) \in Exports(p)
  BY SpellingsAgree, ExportsFacts
<1>1m. \A s \in Structs(p) : \A m \in Supported(ExportedMethodSet(p, s)) : Send(p, s, m) \in Exports(p)
  BY SpellingsAgree, ExportsFacts
<1>2. \A v \in SupportedVars(Vars(p)) : VarCalls(p, v) \subseteq Exports(p)
  BY SpellingsAgree, ExportsFacts DEF VarCalls
<1>3. ASSUME NEW s \in Structs(p), NEW v \in SupportedVars(ExportedFields(p, s))
      PROVE  FieldCalls(p, s, v) \subseteq Exports(p)
  <2>1. Written(v.t) = CgoType(v.t)
    BY SpellingsAgree
  <2>2. /\ CFunc(p, s, v.n \o <<"Set">>, <<"int32_t", CgoType(v.t)>>, <<>>) \in Exports(p)
        /\ CFunc(p, s, v.n \o <<"Get">>, <<"int32_t">>, <<CgoType(v.t)>>) \in Exports(p)
    BY ExportsFacts
  <2> QED
    BY <2>1, <2>2 DEF FieldCalls
<1>4. \A s \in Structs(p) : CFunc(p, "new", <<s>>, <<>>, <<"int32_t">>) \in Exports(p)
  BY ExportsFacts
<1> DEFINE F == {Send(p, "", f) : f \in Supported(Funcs(p))}
           V == UNION {VarCalls(p, v) : v \in SupportedVars(Vars(p))}
           I == UNION {{Send(p, i, m) : m \in IfaceMethods(p, i)} : i \in Interfaces(p)}
           M == UNION {{Send(p, s, m) : m \in Supported(ExportedMethodSet(p, s))} : s \in Structs(p)}
           A == UNION {UNION {FieldCalls(p, s, v) : v \in SupportedVars(ExportedFields(p, s))} : s \in Structs(p)}
           N == {CFunc(p, "new", <<s>>, <<>>, <<"int32_t">>) :
                   s \in {x \in Structs(p) : ObjcEmbeds(p, x) # {} \/ Constructors(p, x) = {}}}
<1>5. ObjcCalls(p) = F \cup V \cup I \cup M \cup A \cup N
  BY DEF ObjcCalls
<1>6. F \subseteq Exports(p) /\ I \subseteq Exports(p) /\ M \subseteq Exports(p)
  <2>1. F \subseteq Exports(p)
    BY <1>1
  <2>2. I \subseteq Exports(p)
    BY <1>1i
  <2>3. M \subseteq Exports(p)
    BY <1>1m
  <2> QED
    BY <2>1, <2>2, <2>3
<1>7. V \subseteq Exports(p) /\ A \subseteq Exports(p) /\ N \subseteq Exports(p)
  <2>1. V \subseteq Exports(p)
    BY <1>2
  <2>2. A \subseteq Exports(p)
    BY <1>3
  <2>3. N \subseteq Exports(p)
    BY <1>4
  <2> QED
    BY <2>1, <2>2, <2>3
<1> HIDE DEF F, V, I, M, A, N
<1> QED
  BY <1>5, <1>6, <1>7

\* The Go functions that the C file of the Java side (genjava.go, GenC) and the Objective-C
\* implementation (genobjc.go, GenM) call are those that gengo.go exports, name by name and
\* C type by C type, for any packages and any order of the languages.
THEOREM LinksToGo == Spec => []CallsExported
<1>1. IInv => CallsExported
  BY DoneFacts, JniCallsExported, ObjcCallsExported DEF CallsExported
<1> QED
  BY <1>1, Invariant, PTL

\* A type of a package that crosses has a proxy in it, unless nobody may implement it.
LEMMA ProxyOfKnownType ==
  ASSUME NEW t, KnownType(t), IsSupported(t), IsIface(t) \/ IsErrorType(t), Implementable(t.p, t.n), t.n \notin Hidden
  PROVE  <<t.p, t.n>> \in ProxyTypes(t.p)
<1>1. <<t.p, t.n>> \in DOMAIN Under /\ Under[<<t.p, t.n>>] = "iface"
  BY DEF KnownType, IsIface
<1>2. t.n \in Interfaces(t.p)
  <2>1. <<t.p, t.n>> \in {y \in DOMAIN Under : y[1] = t.p} /\ <<t.p, t.n>>[2] = t.n
    BY <1>1
  <2>2. t.n \in {x[2] : x \in {y \in DOMAIN Under : y[1] = t.p}}
    BY <2>1
  <2> QED
    BY <1>1, <2>2 DEF Interfaces, NamedTypes
<1> QED
  BY <1>2 DEF ProxyTypes

\* The types of everything a package has are known.
LEMMA ReadTypesKnown ==
  ASSUME PackagesOK, NEW p \in All, NEW t \in ReadTypes(p)
  PROVE  KnownType(t) /\ IsSupported(t)
<1>1. ASSUME NEW k \in {"func", "method", "imeth"}, NEW f \in Decls(p, k), IsSigSupported(f.sig), t \in TypesIn(f.sig)
      PROVE  KnownType(t) /\ IsSupported(t)
  <2>1. KnownSig(f.sig)
    BY <1>1, DeclsKnown DEF KnownDecl
  <2> QED
    BY <1>1, <2>1 DEF KnownSig, IsSigSupported
<1>2. ASSUME NEW k \in {"var", "field"}, NEW v \in Decls(p, k), IsSupported(v.t), t = v.t
      PROVE  KnownType(t) /\ IsSupported(t)
  BY <1>2, DeclsKnown DEF KnownDecl
<1>3. CASE \E f \in Supported(Funcs(p) \cup Decls(p, "method")) : t \in ToSet(f.sig.ps)
  BY <1>1, <1>3 DEF Supported, Funcs, TypesIn
<1>4. CASE \E i \in Interfaces(p) : \E m \in IfaceMethods(p, i) : t \in TypesIn(m.sig)
  BY <1>1, <1>4 DEF IfaceMethods, Supported, Callable
<1>5. CASE \E v \in SupportedVars(Vars(p) \cup Decls(p, "field")) : t = v.t
  BY <1>2, <1>5 DEF SupportedVars, Vars
<1> DEFINE F == UNION {ToSet(f.sig.ps) : f \in Supported(Funcs(p) \cup Decls(p, "method"))}
           Ms == UNION {IfaceMethods(p, i) : i \in Interfaces(p)}
           M == UNION {TypesIn(m.sig) : m \in Ms}
           V == {v.t : v \in SupportedVars(Vars(p) \cup Decls(p, "field"))}
<1>6. ReadTypes(p) = F \cup M \cup V
  BY DEF ReadTypes
<1>7. t \in F => \E f \in Supported(Funcs(p) \cup Decls(p, "method")) : t \in ToSet(f.sig.ps)
  OBVIOUS
<1>8. t \in M => \E i \in Interfaces(p) : \E m \in IfaceMethods(p, i) : t \in TypesIn(m.sig)
  OBVIOUS
<1>9. t \in V => \E v \in SupportedVars(Vars(p) \cup Decls(p, "field")) : t = v.t
  OBVIOUS
<1> HIDE DEF F, M, V
<1> QED
  BY <1>3, <1>4, <1>5, <1>6, <1>7, <1>8, <1>9

\* What a Go proxy calls on a foreign object (gengo.go, genInterface) is declared in the
\* header that cgo reads and defined, with the same C types, by both foreign sides, and the
\* proxy type that genRead makes of a foreign reference exists.
THEOREM CallbacksLink == Spec => []CallbacksMatch
<1>1. IInv => CallbacksMatch
  <2> SUFFICES ASSUME IInv, NEW p \in All
               PROVE  /\ ForeignCalls(p) \subseteq JavaCallbacks(p) \cap ObjcCallbacks(p) \cap GoHeader(p)
                      /\ \A t \in ProxyTypesUsed(p) : t[2] \notin Hidden => t \in ProxyTypes(t[1])
    BY DEF CallbacksMatch
  <2>1. ASSUME NEW x \in ProxyTypes(p), NEW m \in IfaceMethods(p, x[2])
        PROVE  InterfaceMethodSignature(p, x[2], m) \in JavaCallbacks(p) \cap ObjcCallbacks(p) \cap GoHeader(p)
    <3>1. x[2] \in Interfaces(p) /\ Implementable(p, x[2])
      BY DEF ProxyTypes
    <3> QED
      BY <3>1 DEF JavaCallbacks, ObjcCallbacks, GoHeader
  <2>2. ASSUME NEW x \in ProxyTypesUsed(p), x[2] \notin Hidden
        PROVE  x \in ProxyTypes(x[1])
    <3>1. PICK t \in ReadTypes(p) : /\ x = <<t.p, t.n>>
                                    /\ IsIface(t) \/ IsErrorType(t)
                                    /\ Implementable(t.p, t.n)
      BY DEF ProxyTypesUsed
    <3>2. KnownType(t) /\ IsSupported(t)
      BY ReadTypesKnown DEF IInv
    <3>3. x[1] = t.p /\ x[2] = t.n
      BY <3>1
    <3> QED
      BY <2>2, <3>1, <3>2, <3>3, ProxyOfKnownType
  <2> QED
    BY <2>1, <2>2 DEF ForeignCalls
<1> QED
  BY <1>1, Invariant, PTL

-----------------------------------------------------------------------------
(* Java: native methods and the JNI functions that implement them. *)

\* What the JVM makes of a Java type is what the C file calls it.
LEMMA JniTypesFacts ==
  /\ DOMAIN JniTypes = {"void", "boolean", "long", "int", "byte", "String", "bytes"}
  /\ JniTypes["void"] = "void" /\ JniTypes["boolean"] = "jboolean" /\ JniTypes["long"] = "jlong"
  /\ JniTypes["int"] = "jint" /\ JniTypes["byte"] = "jbyte" /\ JniTypes["String"] = "jstring"
  /\ JniTypes["bytes"] = "jbyteArray"
BY DEF JniTypes

LEMMA JavaTypeForms ==
  ASSUME NEW g, NEW t, IsSupported(t)
  PROVE  /\ IsErrorType(t) => JavaType(g, t) = <<"java.lang.Exception">>
         /\ t.k = "basic" => t.n \in SupportedBasics /\ JavaType(g, t) = <<JavaBasic[t.n]>>
         /\ t.k = "bytes" => JavaType(g, t) = <<"bytes">>
         /\ t.k \notin {"error", "basic", "bytes"} => Len(JavaType(g, t)) # 1
<1>1. IsErrorType(t) => JavaType(g, t) = <<"java.lang.Exception">>
  BY DEF JavaType, IsErrorType, IsWrapperType
<1>2. t.k = "basic" => t.n \in SupportedBasics /\ JavaType(g, t) = <<JavaBasic[t.n]>>
  BY DEF JavaType, IsErrorType, IsWrapperType, IsSupported, IsIface
<1>3. t.k = "bytes" => JavaType(g, t) = <<"bytes">>
  BY DEF JavaType, IsErrorType, IsWrapperType
<1>4. t.k \notin {"error", "basic", "bytes"} => Len(JavaType(g, t)) # 1
  <2>1. CASE IsWrapperType(t)
    BY <2>1 DEF JavaType, IsErrorType, IsWrapperType
  <2>2. CASE t.k \notin {"error", "basic", "bytes", "wrapper"}
    <3>1. JavaType(g, t) = <<t.p>> \o JavaTypeName(t.p, t.n)
      BY <2>2 DEF JavaType, IsErrorType, IsWrapperType
    <3>2. JavaTypeName(t.p, t.n) = <<t.n, "_">> \/ JavaTypeName(t.p, t.n) = <<t.n>>
      BY DEF JavaTypeName
    <3> DEFINE T == {t.p, t.n, "_"}
               pre == <<t.p>>
               n == JavaTypeName(t.p, t.n)
    <3>3. pre \in Seq(T) /\ Len(pre) = 1 /\ n \in Seq(T) /\ Len(n) \in {1, 2}
      <4>1. /\ <<t.p>> \in Seq(T) /\ Len(<<t.p>>) = 1
            /\ <<t.n>> \in Seq(T) /\ Len(<<t.n>>) = 1
        OBVIOUS
      <4>2. <<t.n, "_">> \in Seq(T) /\ Len(<<t.n, "_">>) = 2
        OBVIOUS
      <4> HIDE DEF T
      <4> QED
        BY <3>2, <4>1, <4>2
    <3> HIDE DEF T, pre, n
    <3>4. Len(pre \o n) = Len(pre) + Len(n)
      BY <3>3, ConcatProperties, SMTT(30)
    <3> QED
      BY <3>1, <3>3, <3>4 DEF pre, n
  <2> QED
    BY <2>1, <2>2 DEF IsWrapperType
<1> QED
  BY <1>1, <1>2, <1>3, <1>4

LEMMA JniOfJavaType ==
  ASSUME NEW g, NEW t, IsSupported(t)
  PROVE  JniOf(JavaType(g, t)) = JniType(t)
<1>1. CASE t.k = "basic"
  <2>1. t.n \in SupportedBasics /\ JavaType(g, t) = <<JavaBasic[t.n]>> /\ JniType(t) = JniBasic[t.n]
    BY <1>1, JavaTypeForms DEF JniType
  <2>2. JavaBasic[t.n] \in DOMAIN JniTypes /\ JniTypes[JavaBasic[t.n]] = JniBasic[t.n]
    BY <2>1, JniTypesFacts DEF SupportedBasics, JavaBasic, JniBasic
  <2> QED
    BY <2>1, <2>2 DEF JniOf
<1>2. CASE t.k = "bytes"
  BY <1>2, JavaTypeForms, JniTypesFacts DEF JniOf, JniType
<1>3. CASE IsErrorType(t)
  BY <1>3, JavaTypeForms, JniTypesFacts DEF JniOf, JniType, IsErrorType
<1>4. CASE t.k \notin {"error", "basic", "bytes"}
  <2>1. JniType(t) = "jobject"
    BY <1>4 DEF JniType
  <2>2. Len(JavaType(g, t)) # 1
    BY <1>4, JavaTypeForms
  <2> QED
    BY <2>1, <2>2 DEF JniOf
<1> QED
  BY <1>1, <1>2, <1>3, <1>4 DEF IsErrorType

\* A function both sides spell: its parameters and its result.
KnownFunc(f) == KnownSig(f.sig) /\ IsSigSupported(f.sig)

LEMMA KnownFuncFacts ==
  ASSUME NEW f, KnownFunc(f)
  PROVE  /\ \A i \in DOMAIN f.sig.ps : IsSupported(f.sig.ps[i]) /\ f.sig.ps[i] \in TypesIn(f.sig)
         /\ f.sig.rs # <<>> => IsSupported(f.sig.rs[1]) /\ f.sig.rs[1] \in TypesIn(f.sig)
         /\ Len(f.sig.rs) \in Nat /\ (f.sig.rs = <<>> <=> Len(f.sig.rs) = 0)
<1>1. f.sig.ps \in Seq(TypesIn(f.sig)) /\ f.sig.rs \in Seq(TypesIn(f.sig))
      /\ \A t \in TypesIn(f.sig) : IsSupported(t)
  BY DEF KnownFunc, KnownSig, IsSigSupported
<1> QED
  BY <1>1

LEMMA NativeOfParameters ==
  ASSUME NEW p, NEW f, KnownFunc(f)
  PROVE  Over(JniOf, JavaTypes(p, f.sig.ps)) = Over(JniType, f.sig.ps)
<1>1. \A i \in DOMAIN f.sig.ps : JniOf(JavaType(p, f.sig.ps[i])) = JniType(f.sig.ps[i])
  BY KnownFuncFacts, JniOfJavaType
<1> QED
  BY <1>1 DEF JavaTypes, Over

LEMMA NativeOfFunc ==
  ASSUME NEW p, NEW cls, NEW f, KnownFunc(f)
  PROVE  NativeOf(FuncDecl(p, cls, f)) = JniDef(cls, f)
<1>1. Over(JniOf, JavaTypes(p, f.sig.ps)) = Over(JniType, f.sig.ps)
  BY NativeOfParameters
<1>2. JniOf(JavaResult(p, f.sig.rs)) = JniResult(f.sig.rs)
  <2>1. CASE f.sig.rs = <<>> \/ (Len(f.sig.rs) = 1 /\ IsErrorType(f.sig.rs[1]))
    BY <2>1, JniTypesFacts DEF JavaResult, JniResult, JniOf
  <2>2. CASE ~(f.sig.rs = <<>> \/ (Len(f.sig.rs) = 1 /\ IsErrorType(f.sig.rs[1])))
    BY <2>2, KnownFuncFacts, JniOfJavaType DEF JavaResult, JniResult
  <2> QED
    BY <2>1, <2>2
<1> QED
  BY <1>1, <1>2 DEF NativeOf, FuncDecl, JniDef, JniFunc, Meth

\* The accessors of a variable or field.
LEMMA NativeOfAccessors ==
  ASSUME NEW p, NEW cls, NEW v, IsSupported(v.t), NEW m \in Accessors(p, cls, {v})
  PROVE  NativeOf(m) \in JniAccessors(cls, v, v.n)
<1>1. JniOf(JavaType(p, v.t)) = JniType(v.t) /\ JniOf(<<"void">>) = "void"
  BY JniOfJavaType, JniTypesFacts DEF JniOf
<1>2. CASE m = Meth(cls, <<"set">> \o v.n, <<JavaType(p, v.t)>>, <<"void">>)
  <2>1. Over(JniOf, <<JavaType(p, v.t)>>) = Over(JniType, <<v.t>>)
    BY <1>1 DEF Over
  <2> QED
    BY <1>1, <1>2, <2>1 DEF NativeOf, JniAccessors, JniFunc, Meth
<1>3. CASE m = Meth(cls, <<"get">> \o v.n, <<>>, JavaType(p, v.t))
  <2>1. Over(JniOf, <<>>) = Over(JniType, <<>>)
    BY DEF Over
  <2> QED
    BY <1>1, <1>3, <2>1 DEF NativeOf, JniAccessors, JniFunc, Meth
<1> QED
  BY <1>2, <1>3 DEF Accessors

\* A struct class has a JNI function for every native method.
LEMMA StructNatives ==
  ASSUME PackagesOK, NEW p \in All, NEW s, NEW m \in StructClass(p, s)
  PROVE  NativeOf(m) \in JniStruct(p, s)
<1> DEFINE cls == JavaTypeName(p, s)
<1>1. ASSUME NEW f \in Constructors(p, s), IsSigSupported(f.sig)
      PROVE  KnownFunc(f)
  BY <1>1, DeclsKnown DEF Constructors, Funcs, KnownFunc, KnownDecl
<1>2. ASSUME NEW f \in JavaConstructors(p, s), m = Meth(cls, <<"__">> \o f.n, JavaTypes(p, f.sig.ps), <<"int">>)
      PROVE  NativeOf(m) \in JniStruct(p, s)
  <2>1. KnownFunc(f)
    BY <1>1 DEF JavaConstructors, IsConsSigSupported
  <2>2. NativeOf(m) = JniFunc(cls, <<"__">> \o f.n, f.sig.ps, "jint")
    BY <1>2, <2>1, NativeOfParameters, JniTypesFacts DEF NativeOf, JniFunc, Meth, JniOf
  <2> QED
    BY <2>2 DEF JniStruct
<1>3. ASSUME GenNoargCon(p, s), Constructors(p, s) = {}, m = Meth(cls, <<"__", "New">>, <<>>, <<"int">>)
      PROVE  NativeOf(m) \in JniStruct(p, s)
  <2>1. Over(JniOf, <<>>) = Over(JniType, <<>>) /\ JniOf(<<"int">>) = "jint"
    BY JniTypesFacts DEF Over, JniOf
  <2>2. NativeOf(m) = JniFunc(cls, <<"__", "New">>, <<>>, "jint")
    BY <1>3, <2>1 DEF NativeOf, JniFunc, Meth
  <2> QED
    BY <1>3, <2>2 DEF JniStruct
<1>4. ASSUME NEW v \in SupportedVars(ExportedFields(p, s)), m \in Accessors(p, cls, {v})
      PROVE  NativeOf(m) \in JniStruct(p, s)
  <2>1. NativeOf(m) \in JniAccessors(cls, v, v.n)
    BY <1>4, NativeOfAccessors DEF SupportedVars
  <2> QED
    BY <2>1 DEF JniStruct
<1>5. ASSUME NEW f \in Supported(ExportedMethodSet(p, s)), m = FuncDecl(p, cls, f)
      PROVE  NativeOf(m) \in JniStruct(p, s)
  <2>1. KnownFunc(f)
    BY DeclsKnown DEF Supported, ExportedMethodSet, KnownFunc, KnownDecl
  <2>2. NativeOf(m) = JniDef(cls, f)
    BY <1>5, <2>1, NativeOfFunc
  <2> QED
    BY <2>2 DEF JniStruct
<1> HIDE DEF cls
<1>6. \/ \E f \in JavaConstructors(p, s) : m = Meth(cls, <<"__">> \o f.n, JavaTypes(p, f.sig.ps), <<"int">>)
      \/ GenNoargCon(p, s) /\ Constructors(p, s) = {} /\ m = Meth(cls, <<"__", "New">>, <<>>, <<"int">>)
      \/ m \in Accessors(p, cls, SupportedVars(ExportedFields(p, s)))
      \/ \E f \in Supported(ExportedMethodSet(p, s)) : m = FuncDecl(p, cls, f)
  BY DEF StructClass, cls
<1>7. m \in Accessors(p, cls, SupportedVars(ExportedFields(p, s))) =>
        \E v \in SupportedVars(ExportedFields(p, s)) : m \in Accessors(p, cls, {v})
  BY DEF Accessors
<1> QED
  BY <1>2, <1>3, <1>4, <1>5, <1>6, <1>7

\* Every native method that a generated Java class declares (genjava.go, GenJava) has its
\* function in the C file (GenC), under the JNI types the JVM looks for.
THEOREM NativesFound == Spec => []NativesImplemented
<1>1. IInv => NativesImplemented
  <2> SUFFICES ASSUME IInv, NEW p \in All, NEW m \in Natives(p)
               PROVE  \/ NativeOf(m) \in JniDefs(p)
                      \/ \E v \in Vars(p) : v.n = Class(p) /\ m.m \in {<<"set">> \o v.n, <<"get">> \o v.n}
    BY DEF NativesImplemented
  <2>1. ASSUME NEW s \in Structs(p), m \in StructClass(p, s)
        PROVE  NativeOf(m) \in JniDefs(p)
    <3>1. NativeOf(m) \in JniStruct(p, s)
      BY <2>1, StructNatives DEF IInv
    <3> QED
      BY <3>1 DEF JniDefs
  <2>2. ASSUME m = Meth(Class(p), <<"_init">>, <<>>, <<"void">>)
        PROVE  NativeOf(m) \in JniDefs(p)
    <3>1. Over(JniOf, <<>>) = Over(JniType, <<>>) /\ JniOf(<<"void">>) = "void"
      BY JniTypesFacts DEF Over, JniOf
    <3>2. NativeOf(m) = JniFunc(Class(p), <<"_init">>, <<>>, "void")
      BY <2>2, <3>1 DEF NativeOf, JniFunc, Meth
    <3> QED
      BY <3>2 DEF JniDefs
  <2>3. ASSUME NEW v \in SupportedVars(Vars(p)), m \in Accessors(p, Class(p), {v}), v.n # Class(p)
        PROVE  NativeOf(m) \in JniDefs(p)
    <3>1. NativeOf(m) \in JniAccessors(Class(p), v, v.n) /\ JniVarName(p, v.n) = v.n
      BY <2>3, NativeOfAccessors DEF SupportedVars, JniVarName, Class
    <3> QED
      BY <3>1 DEF JniDefs
  <2>4. ASSUME NEW v \in SupportedVars(Vars(p)), m \in Accessors(p, Class(p), {v})
        PROVE  m.m \in {<<"set">> \o v.n, <<"get">> \o v.n}
    BY <2>4 DEF Accessors, Meth
  <2>5. ASSUME NEW f \in Supported(Funcs(p)), m = FuncDecl(p, Class(p), f)
        PROVE  NativeOf(m) \in JniDefs(p)
    <3>1. KnownFunc(f)
      BY DeclsKnown DEF IInv, Supported, Funcs, KnownFunc, KnownDecl
    <3> QED
      BY <2>5, <3>1, NativeOfFunc DEF JniDefs
  <2>6. ASSUME NEW i \in Interfaces(p), NEW f \in IfaceMethods(p, i), m = FuncDecl(p, ProxyClass(i), f)
        PROVE  NativeOf(m) \in JniDefs(p)
    <3>1. KnownFunc(f)
      BY DeclsKnown DEF IInv, IfaceMethods, Supported, Callable, KnownFunc, KnownDecl
    <3>2. NativeOf(m) = JniDef(ProxyClass(i), f)
      BY <2>6, <3>1, NativeOfFunc
    <3> QED
      BY <3>2 DEF JniDefs
  <2>7. \/ \E s \in Structs(p) : m \in StructClass(p, s)
        \/ m \in PackageClass(p)
        \/ m \in ProxyClasses(p)
    BY DEF Natives
  <2>8. m \in PackageClass(p) => \/ m = Meth(Class(p), <<"_init">>, <<>>, <<"void">>)
                                \/ m \in Accessors(p, Class(p), SupportedVars(Vars(p)))
                                \/ \E f \in Supported(Funcs(p)) : m = FuncDecl(p, Class(p), f)
    BY DEF PackageClass
  <2>9. m \in Accessors(p, Class(p), SupportedVars(Vars(p))) =>
          \E v \in SupportedVars(Vars(p)) : m \in Accessors(p, Class(p), {v})
    BY DEF Accessors
  <2>10. m \in ProxyClasses(p) => \E i \in Interfaces(p) : \E f \in IfaceMethods(p, i) : m = FuncDecl(p, ProxyClass(i), f)
    BY DEF ProxyClasses
  <2>11. SupportedVars(Vars(p)) \subseteq Vars(p)
    BY DEF SupportedVars
  <2> QED
    BY <2>1, <2>2, <2>3, <2>4, <2>5, <2>6, <2>7, <2>8, <2>9, <2>10, <2>11
<1> QED
  BY <1>1, Invariant, PTL

-----------------------------------------------------------------------------
(* Java: the methods that _init looks up. *)

LEMMA SigTypesFacts ==
  /\ DOMAIN SigTypes = {"void", "boolean", "long", "int", "byte", "String", "bytes"}
  /\ SigTypes["void"] = "V" /\ SigTypes["boolean"] = "Z" /\ SigTypes["long"] = "J"
  /\ SigTypes["int"] = "I" /\ SigTypes["byte"] = "B" /\ SigTypes["String"] = "Ljava.lang.String"
  /\ SigTypes["bytes"] = "ArrayOfB"
BY DEF SigTypes

\* A type that Spelled accepts has the descriptor of its Java type.
LEMMA SigOfJavaType ==
  ASSUME NEW p, NEW t, IsSupported(t), ~IsWrapperType(t),
         t.p \in Pkgs /\ t.p # p => t.n \notin {ClassName[p], ClassName[t.p]}
  PROVE  SigOf(JavaType(p, t)) = JniSigType(p, t)
<1>1. CASE t.k = "basic"
  <2>1. t.n \in SupportedBasics /\ JavaType(p, t) = <<JavaBasic[t.n]>> /\ JniSigType(p, t) = <<SigBasic[t.n]>>
    BY <1>1, JavaTypeForms DEF JniSigType, IsErrorType
  <2>2. JavaBasic[t.n] \in DOMAIN SigTypes /\ SigTypes[JavaBasic[t.n]] = SigBasic[t.n]
    BY <2>1, SigTypesFacts DEF SupportedBasics, JavaBasic, SigBasic
  <2> QED
    BY <2>1, <2>2 DEF SigOf
<1>2. CASE t.k = "bytes"
  BY <1>2, JavaTypeForms, SigTypesFacts DEF SigOf, JniSigType, IsErrorType
<1>3. CASE IsErrorType(t)
  BY <1>3, JavaTypeForms, SigTypesFacts DEF SigOf, JniSigType, IsErrorType
<1>4. CASE t.k \notin {"error", "basic", "bytes"}
  <2>1. t.p \in Pkgs
    BY <1>4 DEF IsSupported, IsErrorType, ValidPkg
  <2>2. JavaTypeName(t.p, t.n) = JavaTypeName(p, t.n)
    BY <2>1 DEF JavaTypeName
  <2>3. JavaType(p, t) = <<t.p>> \o JavaTypeName(t.p, t.n)
    BY <1>4 DEF JavaType, IsErrorType, IsWrapperType
  <2>4. JniSigType(p, t) = <<t.p>> \o JavaTypeName(p, t.n)
    BY <1>4 DEF JniSigType, IsErrorType
  <2>5. Len(JavaType(p, t)) # 1
    BY <1>4, JavaTypeForms
  <2> QED
    BY <2>2, <2>3, <2>4, <2>5 DEF SigOf
<1> QED
  BY <1>1, <1>2, <1>3, <1>4 DEF IsErrorType

LEMMA LookupOfMethod ==
  ASSUME NEW p, NEW i, NEW m, KnownFunc(m), Spelled(p, m), ~BadResults(m.sig)
  PROVE  DescriptorOf(FuncDecl(p, JavaTypeName(p, i), m)) = MethodLookup(p, i, m)
<1>1. \A t \in TypesIn(m.sig) : SigOf(JavaType(p, t)) = JniSigType(p, t)
  BY SigOfJavaType DEF Spelled, KnownFunc, IsSigSupported
<1>2. Over(SigOf, JavaTypes(p, m.sig.ps)) = Over(LAMBDA t : JniSigType(p, t), m.sig.ps)
  <2>1. \A j \in DOMAIN m.sig.ps : SigOf(JavaType(p, m.sig.ps[j])) = JniSigType(p, m.sig.ps[j])
    BY <1>1, KnownFuncFacts
  <2> QED
    BY <2>1 DEF JavaTypes, Over
<1>3. SigOf(JavaResult(p, m.sig.rs)) = IF m.sig.rs = <<>> \/ IsErrorType(m.sig.rs[1]) THEN <<"V">>
                                       ELSE JniSigType(p, m.sig.rs[1])
  <2>1. SigOf(<<"void">>) = <<"V">>
    BY SigTypesFacts DEF SigOf
  <2>2. CASE m.sig.rs = <<>> \/ IsErrorType(m.sig.rs[1])
    <3>1. m.sig.rs = <<>> \/ Len(m.sig.rs) = 1
      <4>1. Len(m.sig.rs) \in Nat /\ (m.sig.rs = <<>> <=> Len(m.sig.rs) = 0)
        BY KnownFuncFacts
      <4>2. Len(m.sig.rs) = 2 => ~IsErrorType(m.sig.rs[1])
        BY DEF Spelled
      <4>3. ~(Len(m.sig.rs) > 2)
        BY DEF BadResults
      <4> DEFINE n == Len(m.sig.rs)
      <4> HIDE DEF n
      <4>4. m.sig.rs = <<>> \/ n # 2
        BY <2>2, <4>2 DEF n
      <4>5. n \in Nat /\ (m.sig.rs = <<>> <=> n = 0) /\ ~(n > 2)
        BY <4>1, <4>3 DEF n
      <4>6. n = 0 \/ n = 1
        BY <4>4, <4>5
      <4> QED
        BY <4>5, <4>6 DEF n
    <3> QED
      BY <2>1, <2>2, <3>1 DEF JavaResult
  <2>3. CASE ~(m.sig.rs = <<>> \/ IsErrorType(m.sig.rs[1]))
    BY <1>1, <2>3, KnownFuncFacts DEF JavaResult
  <2> QED
    BY <2>2, <2>3
<1> QED
  BY <1>2, <1>3 DEF DescriptorOf, FuncDecl, MethodLookup, Meth

\* What an interface method is, and that its results were not refused.
LEMMA InterfaceMethodFacts ==
  ASSUME PackagesOK, NEW p \in All, NEW i \in Interfaces(p), NEW m \in IfaceMethods(p, i)
  PROVE  /\ KnownFunc(m) /\ m \in Signatures(p)
         /\ m \in Decls(p, "imeth") /\ m.of = i
<1>1. m \in Decls(p, "imeth") /\ m.of = i /\ IsSigSupported(m.sig)
  BY DEF IfaceMethods, Supported, Callable
<1>2. KnownFunc(m)
  BY <1>1, DeclsKnown DEF KnownFunc, KnownDecl
<1>3. m \in UNION {IfaceMethods(p, j) : j \in Interfaces(p)}
  OBVIOUS
<1> QED
  BY <1>1, <1>2, <1>3 DEF Signatures

\* What _init of the C file (genjava.go, GenC) looks up by descriptor, constructors from a
\* reference number and the methods of interfaces, is declared by the generated Java files.
THEOREM InitResolves == Spec => []LookupsResolve
<1>1. IInv => LookupsResolve
  <2> SUFFICES ASSUME IInv, Done, NEW p \in Pkgs, NEW i \in Interfaces(p),
                      \A m \in IfaceMethods(p, i) : Spelled(p, m),
                      NEW l \in MethodLookups(p), l.cls = JavaTypeName(p, i)
               PROVE  \E m \in InterfaceDecl(p, i) : DescriptorOf(m) = l
    BY DEF LookupsResolve, ConstructorLookups, RefnumConstructors
  <2>1. PICK j \in Interfaces(p) : \E m \in IfaceMethods(p, j) : l = MethodLookup(p, j, m)
    BY DEF MethodLookups
  <2>2. PICK m \in IfaceMethods(p, j) : l = MethodLookup(p, j, m)
    BY <2>1
  <2>3. j = i
    <3>1. JavaTypeName(p, i) = JavaTypeName(p, j)
      BY <2>2 DEF MethodLookup, Meth
    <3>2. JavaTypeName(p, i)[1] = i /\ JavaTypeName(p, j)[1] = j
      BY DEF JavaTypeName
    <3> QED
      BY <3>1, <3>2
  <2>4. KnownFunc(m) /\ m \in Signatures(p)
    BY <2>2, InterfaceMethodFacts DEF IInv, All
  <2>5. ~BadResults(m.sig)
    <3>1. Errors("go", p) = {}
      BY DoneFacts DEF All
    <3>2. GoErrors(p) = {}
      BY <3>1 DEF Errors
    <3> QED
      BY <2>4, <3>2 DEF GoErrors
  <2>6. DescriptorOf(FuncDecl(p, JavaTypeName(p, i), m)) = l
    BY <2>2, <2>3, <2>4, <2>5, LookupOfMethod
  <2>7. FuncDecl(p, JavaTypeName(p, i), m) \in InterfaceDecl(p, i)
    BY <2>2, <2>3 DEF InterfaceDecl
  <2> QED
    BY <2>6, <2>7
<1> QED
  BY <1>1, Invariant, PTL

-----------------------------------------------------------------------------
(* Java: what a class inherits. *)

\* Types that differ in their spelling only.
LEMMA AliasesAlike ==
  ASSUME NEW t, NEW u, KnownType(t), KnownType(u), Unaliased(t) = Unaliased(u), NEW g, NEW h
  PROVE  /\ IsSupported(t) = IsSupported(u) /\ IsExported(t) = IsExported(u)
         /\ IsErrorType(t) = IsErrorType(u) /\ JavaType(g, t) = JavaType(h, u)
<1>1. t.k = u.k /\ t.p = u.p /\ t.n = u.n
  <2>1. ASSUME NEW x, KnownType(x)
        PROVE  Unaliased(x).k = x.k /\ Unaliased(x).p = x.p /\ Unaliased(x).n = x.n
    <3>1. DOMAIN x = {"k", "p", "n", "alias"}
      <4>1. x = [k |-> x.k, p |-> x.p, n |-> x.n, alias |-> x.alias]
        BY <2>1 DEF KnownType
      <4>2. DOMAIN [k |-> x.k, p |-> x.p, n |-> x.n, alias |-> x.alias] = {"k", "p", "n", "alias"}
        OBVIOUS
      <4> QED
        BY <4>1, <4>2, Zenon
    <3> QED
      BY <3>1 DEF Unaliased
  <2> QED
    BY <2>1
<1>2. IsErrorType(t) = IsErrorType(u) /\ IsWrapperType(t) = IsWrapperType(u) /\ IsIface(t) = IsIface(u)
  BY <1>1 DEF IsErrorType, IsWrapperType, IsIface
<1>3. IsSupported(t) = IsSupported(u) /\ IsExported(t) = IsExported(u)
  BY <1>1, <1>2 DEF IsSupported, IsExported
<1>4. JavaType(g, t) = JavaType(h, u)
  BY <1>1, <1>2 DEF JavaType
<1> QED
  BY <1>2, <1>3, <1>4

LEMMA SequencesAlike ==
  ASSUME NEW S, NEW a \in Seq(S), NEW T, NEW b \in Seq(T), UnaliasedAll(a) = UnaliasedAll(b)
  PROVE  /\ DOMAIN a = DOMAIN b /\ Len(a) = Len(b) /\ (a = <<>> <=> b = <<>>)
         /\ \A i \in DOMAIN a : Unaliased(a[i]) = Unaliased(b[i])
<1>0. /\ UnaliasedAll(a) = [i \in DOMAIN a |-> Unaliased(a[i])]
      /\ UnaliasedAll(b) = [i \in DOMAIN b |-> Unaliased(b[i])]
  BY DEF UnaliasedAll, Over
<1>1. DOMAIN a = DOMAIN b
  BY <1>0
<1>2. \A i \in DOMAIN a : Unaliased(a[i]) = Unaliased(b[i])
  BY <1>0, <1>1
<1>3. Len(a) = Len(b)
  BY <1>1
<1> QED
  BY <1>1, <1>2, <1>3

\* Methods with the same signature are declared alike, whatever file declares them.
LEMMA SignaturesAlike ==
  ASSUME NEW a, NEW b, NEW g, NEW h, KnownSig(a), KnownSig(b),
         UnaliasedAll(a.ps) = UnaliasedAll(b.ps), UnaliasedAll(a.rs) = UnaliasedAll(b.rs)
  PROVE  /\ IsSigSupported(a) => IsSigSupported(b)
         /\ IsImplementable(a) => IsImplementable(b)
         /\ JavaTypes(g, a.ps) = JavaTypes(h, b.ps) /\ JavaResult(g, a.rs) = JavaResult(h, b.rs)
<1>1. /\ a.ps \in Seq(TypesIn(a)) /\ a.rs \in Seq(TypesIn(a))
      /\ b.ps \in Seq(TypesIn(b)) /\ b.rs \in Seq(TypesIn(b))
  BY DEF KnownSig
<1>2. /\ DOMAIN a.ps = DOMAIN b.ps
      /\ \A i \in DOMAIN a.ps : Unaliased(a.ps[i]) = Unaliased(b.ps[i])
  BY <1>1, SequencesAlike
<1>3. /\ DOMAIN a.rs = DOMAIN b.rs /\ Len(a.rs) = Len(b.rs) /\ (a.rs = <<>> <=> b.rs = <<>>)
      /\ \A i \in DOMAIN a.rs : Unaliased(a.rs[i]) = Unaliased(b.rs[i])
  BY <1>1, SequencesAlike
<1>4. /\ \A i \in DOMAIN a.ps : a.ps[i] \in TypesIn(a) /\ KnownType(a.ps[i])
      /\ \A i \in DOMAIN a.rs : a.rs[i] \in TypesIn(a) /\ KnownType(a.rs[i])
      /\ \A i \in DOMAIN b.ps : KnownType(b.ps[i])
      /\ \A i \in DOMAIN b.rs : KnownType(b.rs[i])
  BY DEF KnownSig, TypesIn, ToSet
<1>5. \A u \in TypesIn(b) : /\ KnownType(u)
                            /\ \E t \in TypesIn(a) : KnownType(t) /\ Unaliased(t) = Unaliased(u)
  <2> TAKE u \in TypesIn(b)
  <2>1. CASE \E i \in DOMAIN b.ps : u = b.ps[i]
    BY <1>2, <1>4, <2>1
  <2>2. CASE \E i \in DOMAIN b.rs : u = b.rs[i]
    BY <1>3, <1>4, <2>2
  <2> QED
    BY <2>1, <2>2 DEF TypesIn, ToSet
<1>6. IsSigSupported(a) => IsSigSupported(b)
  BY <1>5, AliasesAlike DEF IsSigSupported
<1>7. IsImplementable(a) => IsImplementable(b)
  BY <1>5, AliasesAlike DEF IsImplementable
<1>8. JavaTypes(g, a.ps) = JavaTypes(h, b.ps)
  <2>1. \A i \in DOMAIN a.ps : JavaType(g, a.ps[i]) = JavaType(h, b.ps[i])
    BY <1>2, <1>4, AliasesAlike
  <2> QED
    BY <1>2, <2>1 DEF JavaTypes, Over
<1>9. JavaResult(g, a.rs) = JavaResult(h, b.rs)
  <2>1. CASE a.rs = <<>>
    BY <1>3, <2>1 DEF JavaResult
  <2>2. CASE a.rs # <<>>
    <3>1. 1 \in DOMAIN a.rs
      BY <1>1, <2>2
    <3>2. IsErrorType(a.rs[1]) = IsErrorType(b.rs[1]) /\ JavaType(g, a.rs[1]) = JavaType(h, b.rs[1])
      BY <1>3, <1>4, <3>1, AliasesAlike
    <3> QED
      BY <1>3, <3>2 DEF JavaResult
  <2> QED
    BY <2>1, <2>2
<1> QED
  BY <1>6, <1>7, <1>8, <1>9

\* Name and signature of a method are among those of a set of methods, and only then does a
\* method of that set have them.
MethodKey(m) == <<m.n, UnaliasedAll(m.sig.ps), UnaliasedAll(m.sig.rs)>>

LEMMA HasKey ==
  ASSUME NEW S, NEW m \in S
  PROVE  MethodKey(m) \in MethodsOf(S)
BY DEF MethodsOf, MethodKey

LEMMA MethodsAlike ==
  ASSUME NEW T, NEW m, MethodKey(m) \in MethodsOf(T)
  PROVE  \E f \in T : /\ f.n = m.n
                      /\ UnaliasedAll(m.sig.ps) = UnaliasedAll(f.sig.ps)
                      /\ UnaliasedAll(m.sig.rs) = UnaliasedAll(f.sig.rs)
BY DEF MethodsOf, MethodKey

\* A package declares finitely many methods.
LEMMA RequiredFinite ==
  ASSUME PackagesOK, NEW x, x[1] \in Pkgs
  PROVE  Cardinality(Required(x)) \in Nat
<1> DEFINE s == pk[x[1]]
           J == {j \in DOMAIN s : s[j].d = "imeth"}
           D == Decls(x[1], "imeth")
           f == [i \in J |-> s[i]]
<1>1. DOMAIN s = 1 .. Len(s) /\ Len(s) \in Nat
  BY DEF PackagesOK
<1>2. IsFiniteSet(DOMAIN s)
  BY <1>1, FS_Interval
<1>3. IsFiniteSet(J)
  <2>1. J \subseteq DOMAIN s
    OBVIOUS
  <2> QED
    BY <1>2, <2>1, FS_Subset
<1>4. D = {s[i] : i \in J}
  BY DEF Decls
<1> HIDE DEF J, D, s
<1>5. f \in Surjection(J, D)
  BY <1>4 DEF Surjection
<1>6. IsFiniteSet(D)
  BY <1>3, <1>5, FS_Surjection
<1>7. Required(x) \subseteq D
  BY DEF Required, D
<1> QED
  BY <1>6, <1>7, FS_Subset, FS_CardinalityType

\* A class and an interface have the methods of every interface that genStruct and
\* genInterface (genjava.go) make them implement or extend, also one of another package or
\* one whose signatures spell a type through an alias, and no two interfaces extend each
\* other.
THEOREM Inherits == Spec => []InheritanceSound
<1>1. IInv => InheritanceSound
  <2> SUFFICES ASSUME IInv, NEW p \in Pkgs
               PROVE  /\ \A s \in Structs(p) : \A x \in Implements(p, s) :
                            Meths(InterfaceDecl(x[1], x[2])) \subseteq Meths(StructClass(p, s))
                      /\ \A i \in Interfaces(p) : \A x \in Extends(p, i) :
                            /\ Meths(InterfaceDecl(x[1], x[2])) \subseteq Meths(InterfaceDecl(p, i))
                            /\ <<p, i>> \notin Extends(x[1], x[2])
    BY DEF InheritanceSound
  <2>1. ASSUME NEW x \in AllIntf
        PROVE  x = <<x[1], x[2]>> /\ x[1] \in Pkgs /\ x[2] \in Interfaces(x[1])
    BY DEF AllIntf
  <2>2. ASSUME NEW x \in AllIntf, NEW m \in IfaceMethods(x[1], x[2])
        PROVE  KnownFunc(m) /\ m \in Required(x) /\ IsImplementable(m.sig)
    <3>1. x[1] \in All
      BY <2>1 DEF All
    <3>2. KnownFunc(m) /\ m \in Decls(x[1], "imeth") /\ m.of = x[2]
      BY <2>1, <2>2, <3>1, InterfaceMethodFacts DEF IInv
    <3>3. IsImplementable(m.sig)
      BY <2>2 DEF IfaceMethods, Supported, Callable, IsCallable
    <3> QED
      BY <3>2, <3>3 DEF Required
  <2>3. ASSUME NEW s \in Structs(p), NEW x \in Implements(p, s), NEW m \in IfaceMethods(x[1], x[2])
        PROVE  \E f \in StructClass(p, s) : LET e == FuncDecl(x[1], JavaTypeName(x[1], x[2]), m)
                                            IN f.m = e.m /\ f.ps = e.ps /\ f.r = e.r
    <3>1. x \in AllIntf /\ MethodsOf(Required(x)) \subseteq MethodsOf(ExportedMethodSet(p, s))
      BY DEF Implements
    <3>2. KnownFunc(m) /\ m \in Required(x)
      BY <2>2, <2>3, <3>1
    <3>3. PICK f \in ExportedMethodSet(p, s) : /\ f.n = m.n
                                               /\ UnaliasedAll(m.sig.ps) = UnaliasedAll(f.sig.ps)
                                               /\ UnaliasedAll(m.sig.rs) = UnaliasedAll(f.sig.rs)
      <4>1. MethodKey(m) \in MethodsOf(ExportedMethodSet(p, s))
        BY <3>1, <3>2, HasKey
      <4> QED
        BY <4>1, MethodsAlike
    <3>4. KnownSig(m.sig) /\ IsSigSupported(m.sig) /\ KnownSig(f.sig)
      BY <3>2, DeclsKnown DEF KnownFunc, ExportedMethodSet, KnownDecl, IInv, All
    <3>5. /\ IsSigSupported(f.sig) /\ JavaTypes(x[1], m.sig.ps) = JavaTypes(p, f.sig.ps)
          /\ JavaResult(x[1], m.sig.rs) = JavaResult(p, f.sig.rs)
      <4> DEFINE a == m.sig
                 b == f.sig
      <4>1. /\ KnownSig(a) /\ KnownSig(b)
            /\ UnaliasedAll(a.ps) = UnaliasedAll(b.ps) /\ UnaliasedAll(a.rs) = UnaliasedAll(b.rs)
        BY <3>3, <3>4
      <4> HIDE DEF a, b
      <4>2. /\ IsSigSupported(a) => IsSigSupported(b)
            /\ JavaTypes(x[1], a.ps) = JavaTypes(p, b.ps) /\ JavaResult(x[1], a.rs) = JavaResult(p, b.rs)
        BY <4>1, SignaturesAlike, ZenonT(30)
      <4> QED
        BY <3>4, <4>2 DEF a, b
    <3>6. FuncDecl(p, JavaTypeName(p, s), f) \in StructClass(p, s)
      BY <3>5 DEF StructClass, Supported
    <3> QED
      BY <3>3, <3>5, <3>6 DEF FuncDecl, Meth
  <2>4. ASSUME NEW i \in Interfaces(p), NEW x \in Extends(p, i), NEW m \in IfaceMethods(x[1], x[2])
        PROVE  \E f \in InterfaceDecl(p, i) : LET e == FuncDecl(x[1], JavaTypeName(x[1], x[2]), m)
                                              IN f.m = e.m /\ f.ps = e.ps /\ f.r = e.r
    <3>1. x \in AllIntf /\ MethodsOf(Required(x)) \subseteq MethodsOf(Required(<<p, i>>))
      BY DEF Extends
    <3>2. KnownFunc(m) /\ m \in Required(x) /\ IsImplementable(m.sig)
      BY <2>2, <2>4, <3>1
    <3>3. PICK f \in Required(<<p, i>>) : /\ f.n = m.n
                                          /\ UnaliasedAll(m.sig.ps) = UnaliasedAll(f.sig.ps)
                                          /\ UnaliasedAll(m.sig.rs) = UnaliasedAll(f.sig.rs)
      <4>1. MethodKey(m) \in MethodsOf(Required(<<p, i>>))
        BY <3>1, <3>2, HasKey
      <4> QED
        BY <4>1, MethodsAlike
    <3>4. f \in Decls(p, "imeth") /\ f.of = i
      BY DEF Required
    <3>5. KnownSig(m.sig) /\ IsSigSupported(m.sig) /\ KnownSig(f.sig)
      BY <3>2, <3>4, DeclsKnown DEF KnownFunc, KnownDecl, IInv, All
    <3>6. /\ IsSigSupported(f.sig) /\ IsImplementable(f.sig)
          /\ JavaTypes(x[1], m.sig.ps) = JavaTypes(p, f.sig.ps)
          /\ JavaResult(x[1], m.sig.rs) = JavaResult(p, f.sig.rs)
      <4> DEFINE a == m.sig
                 b == f.sig
      <4>1. /\ KnownSig(a) /\ KnownSig(b)
            /\ UnaliasedAll(a.ps) = UnaliasedAll(b.ps) /\ UnaliasedAll(a.rs) = UnaliasedAll(b.rs)
        BY <3>3, <3>5
      <4> HIDE DEF a, b
      <4>2. /\ IsSigSupported(a) => IsSigSupported(b)
            /\ IsImplementable(a) => IsImplementable(b)
            /\ JavaTypes(x[1], a.ps) = JavaTypes(p, b.ps) /\ JavaResult(x[1], a.rs) = JavaResult(p, b.rs)
        BY <4>1, SignaturesAlike, ZenonT(30)
      <4> QED
        BY <3>2, <3>5, <4>2 DEF a, b
    <3>7. f \in IfaceMethods(p, i)
      BY <3>4, <3>6 DEF IfaceMethods, Supported, Callable, IsCallable
    <3>8. FuncDecl(p, JavaTypeName(p, i), f) \in InterfaceDecl(p, i)
      BY <3>7 DEF InterfaceDecl
    <3> QED
      BY <3>3, <3>6, <3>8 DEF FuncDecl, Meth
  <2>5. ASSUME NEW i \in Interfaces(p), NEW x \in Extends(p, i)
        PROVE  <<p, i>> \notin Extends(x[1], x[2])
    <3>1. x \in AllIntf /\ Cardinality(Required(x)) < Cardinality(Required(<<p, i>>))
      BY DEF Extends
    <3>2. <<p, i>> \in Extends(x[1], x[2]) => Cardinality(Required(<<p, i>>)) < Cardinality(Required(x))
      BY <2>1, <3>1 DEF Extends
    <3>3. Cardinality(Required(x)) \in Nat /\ Cardinality(Required(<<p, i>>)) \in Nat
      <4>1. x[1] \in Pkgs /\ <<p, i>>[1] \in Pkgs
        BY <2>1, <3>1
      <4> QED
        BY <4>1, RequiredFinite DEF IInv
    <3> QED
      BY <3>1, <3>2, <3>3
  <2>6. ASSUME NEW S, NEW x,
               \A m \in IfaceMethods(x[1], x[2]) :
                 \E f \in S : LET e == FuncDecl(x[1], JavaTypeName(x[1], x[2]), m)
                              IN f.m = e.m /\ f.ps = e.ps /\ f.r = e.r
        PROVE  Meths(InterfaceDecl(x[1], x[2])) \subseteq Meths(S)
    BY <2>6 DEF Meths, InterfaceDecl
  <2>7. ASSUME NEW s \in Structs(p), NEW x \in Implements(p, s)
        PROVE  Meths(InterfaceDecl(x[1], x[2])) \subseteq Meths(StructClass(p, s))
    <3> DEFINE S == StructClass(p, s)
    <3>1. \A m \in IfaceMethods(x[1], x[2]) :
            \E f \in S : LET e == FuncDecl(x[1], JavaTypeName(x[1], x[2]), m)
                         IN f.m = e.m /\ f.ps = e.ps /\ f.r = e.r
      BY <2>3
    <3> HIDE DEF S
    <3>2. Meths(InterfaceDecl(x[1], x[2])) \subseteq Meths(S)
      BY <3>1, <2>6
    <3> QED
      BY <3>2 DEF S
  <2>8. ASSUME NEW i \in Interfaces(p), NEW x \in Extends(p, i)
        PROVE  Meths(InterfaceDecl(x[1], x[2])) \subseteq Meths(InterfaceDecl(p, i))
    <3> DEFINE S == InterfaceDecl(p, i)
    <3>1. \A m \in IfaceMethods(x[1], x[2]) :
            \E f \in S : LET e == FuncDecl(x[1], JavaTypeName(x[1], x[2]), m)
                         IN f.m = e.m /\ f.ps = e.ps /\ f.r = e.r
      BY <2>4
    <3> HIDE DEF S
    <3>2. Meths(InterfaceDecl(x[1], x[2])) \subseteq Meths(S)
      BY <3>1, <2>6
    <3> QED
      BY <3>2 DEF S
  <2> QED
    BY <2>5, <2>7, <2>8
<1> QED
  BY <1>1, Invariant, PTL

-----------------------------------------------------------------------------
(* The classes that a package touches. *)

\* The recursive function of the static initializers: what is touched after a round of
\* imports, from what was touched before it.
LEMMA TouchingUnfolds ==
  ASSUME NEW p
  PROVE  /\ Touching(p) \in [Nat -> SUBSET (Pkgs \cup {p})]
         /\ Touching(p)[0] = {p}
         /\ \A n \in Nat : Touching(p)[n + 1] =
              Touching(p)[n] \cup ((UNION {Imports[q] : q \in Touching(p)[n]}) \cap Pkgs)
<1> DEFINE D == SUBSET (Pkgs \cup {p})
           More(S) == S \cup ((UNION {Imports[q] : q \in S}) \cap Pkgs)
           z == {p}
           G == [x \in Nat \X D |-> More(x[2])]
           Is(f) == f = [i \in Nat |-> IF i = 0 THEN {p}
                                       ELSE f[i-1] \cup ((UNION {Imports[q] : q \in f[i-1]}) \cap Pkgs)]
<1>1. \A S \in D : More(S) \in D
  OBVIOUS
<1>2. G \in [Nat \X D -> D] /\ z \in D
  BY <1>1
<1>3. \A n \in Nat, S \in D : G[<<n, S>>] = More(S)
  OBVIOUS
<1> HIDE DEF G, D, z
<1>4. PICK f : Iterates(f, D, z, G)
  BY <1>2, RecursionExists
<1>5. f \in [Nat -> D] /\ f[0] = {p} /\ \A n \in Nat : f[n + 1] = G[<<n + 1, f[n]>>]
  BY <1>4 DEF Iterates, z
<1>6. Is(f)
  <2>1. ASSUME NEW i \in Nat
        PROVE  f[i] = IF i = 0 THEN {p} ELSE More(f[i-1])
    <3>1. CASE i = 0
      BY <1>5, <3>1
    <3>2. CASE i # 0
      <4>1. i - 1 \in Nat /\ (i - 1) + 1 = i
        BY <3>2
      <4>2. f[i] = G[<<i, f[i - 1]>>] /\ f[i - 1] \in D
        BY <4>1, <1>5
      <4> QED
        BY <4>2, <1>3, <3>2
    <3> QED
      BY <3>1, <3>2
  <2> QED
    BY <1>5, <2>1
<1>7. Is(Touching(p))
  BY <1>6, Zenon DEF Touching
<1> DEFINE t == Touching(p)
<1>8. t[0] = {p}
  BY <1>7
<1>9. ASSUME NEW n \in Nat
      PROVE  t[n + 1] = More(t[n])
  <2>1. n + 1 \in Nat /\ n + 1 # 0 /\ (n + 1) - 1 = n
    OBVIOUS
  <2> QED
    BY <1>7, <2>1
<1>10. DOMAIN t = Nat
  BY <1>7
<1>11. \A n \in Nat : t[n] \in D
  <2> DEFINE A == {n \in Nat : t[n] \in D}
  <2> HIDE DEF t
  <2>1. 0 \in A
    BY <1>2, <1>8 DEF z
  <2>2. ASSUME NEW n \in Nat, n \in A
        PROVE  n + 1 \in A
    <3>1. t[n + 1] = More(t[n]) /\ t[n] \in D
      BY <1>9, <2>2
    <3>2. More(t[n]) \in D
      BY <1>1, <3>1
    <3> HIDE DEF More
    <3> QED
      BY <3>1, <3>2
  <2> HIDE DEF A
  <2>3. \A n \in Nat : n \in A
    BY <2>1, <2>2, NatSetInduction
  <2> QED
    BY <2>3 DEF A
<1>12. t \in [Nat -> D]
  <2>1. t = [n \in Nat |-> t[n]]
    BY <1>7, <1>10
  <2> HIDE DEF t
  <2> QED
    BY <2>1, <1>11
<1> QED
  BY <1>8, <1>9, <1>12 DEF D

\* As many rounds as there are packages reach every bound package that bound packages lead
\* to: as long as an import is missing, a round adds a package.
LEMMA TouchedClosed ==
  ASSUME NEW p \in Pkgs, NEW S, S = Touched(p, Cardinality(Pkgs))
  PROVE  p \in S /\ S \in SUBSET Pkgs /\ ImportClosed(S)
<1> DEFINE t == Touching(p)
           More(V) == V \cup ((UNION {Imports[q] : q \in V}) \cap Pkgs)
<1>1. \A n \in Nat : t[n] \in SUBSET Pkgs /\ t[n + 1] = More(t[n])
  <2>1. Pkgs \cup {p} = Pkgs
    OBVIOUS
  <2> QED
    BY <2>1, TouchingUnfolds
<1>2. t[0] = {p}
  BY TouchingUnfolds
<1> HIDE DEF t
<1>3. \A V : ImportClosed(V) => More(V) = V
  BY DEF ImportClosed
<1>4. \A V \in SUBSET Pkgs : More(V) = V => ImportClosed(V)
  BY DEF ImportClosed
<1> DEFINE A == {n \in Nat : /\ p \in t[n]
                             /\ ImportClosed(t[n]) \/ Cardinality(t[n]) >= n + 1}
<1>5. 0 \in A
  <2>1. Cardinality(t[0]) = 1
    BY <1>2, FS_Singleton
  <2>2. Cardinality(t[0]) >= 0 + 1
    BY <2>1
  <2>3. p \in t[0]
    BY <1>2
  <2> QED
    BY <2>2, <2>3
<1>6. ASSUME NEW n \in Nat, n \in A
      PROVE  n + 1 \in A
  <2>1. p \in t[n + 1]
    BY <1>1, <1>6
  <2>2. CASE ImportClosed(t[n])
    <3>1. t[n + 1] = t[n]
      BY <1>1, <1>3, <2>2
    <3> QED
      BY <2>1, <2>2, <3>1
  <2>3. CASE ~ImportClosed(t[n])
    <3>1. t[n + 1] # t[n] /\ t[n] \subseteq t[n + 1]
      BY <1>1, <1>4, <2>3
    <3>2. n + 1 \in Nat /\ t[n + 1] \in SUBSET Pkgs /\ t[n] \in SUBSET Pkgs
      BY <1>1
    <3>3. IsFiniteSet(t[n + 1]) /\ IsFiniteSet(t[n])
      BY <3>2, PackagesAssumption, FS_Subset
    <3>4. Cardinality(t[n]) \in Nat /\ Cardinality(t[n + 1]) \in Nat
      BY <3>3, FS_CardinalityType
    <3>5. Cardinality(t[n]) < Cardinality(t[n + 1])
      <4>1. t[n] \in SUBSET t[n + 1]
        BY <3>1
      <4>2. Cardinality(t[n]) <= Cardinality(t[n + 1]) /\ Cardinality(t[n]) # Cardinality(t[n + 1])
        BY <3>1, <3>3, <4>1, FS_Subset
      <4> QED
        BY <3>4, <4>2
    <3>6. Cardinality(t[n]) >= n + 1
      BY <1>6, <2>3
    <3> QED
      BY <2>1, <3>4, <3>5, <3>6
  <2> QED
    BY <2>2, <2>3
<1> HIDE DEF A
<1>7. \A n \in Nat : n \in A
  BY <1>5, <1>6, NatSetInduction
<1> DEFINE N == Cardinality(Pkgs)
<1>8. N \in Nat
  BY PackagesAssumption, FS_CardinalityType
<1> HIDE DEF N
<1>9. Cardinality(t[N]) <= N /\ Cardinality(t[N]) \in Nat
  <2>1. IsFiniteSet(t[N])
    BY <1>1, <1>8, PackagesAssumption, FS_Subset
  <2> QED
    BY <1>1, <1>8, <2>1, PackagesAssumption, FS_Subset, FS_CardinalityType DEF N
<1>10. S = t[N]
  BY DEF Touched, t, N
<1>11. p \in t[N] /\ ImportClosed(t[N])
  BY <1>7, <1>8, <1>9 DEF A
<1> QED
  BY <1>1, <1>8, <1>10, <1>11

\* A pointer or named type that crosses is one of a bound package, and that of a bound
\* package: the method of the type error takes and returns none (types.go, isSupported).
LEMMA TypesOfPackage ==
  ASSUME NEW p \in All, NEW t \in Crossing(p), t.k \in {"ptr", "named"}
  PROVE  t.p \in Pkgs /\ p \in Pkgs
<1>1. IsSupported(t)
  <2>1. CASE t \in UNION {TypesIn(f.sig) : f \in Signatures(p)}
    <3>1. PICK f \in Signatures(p) : t \in TypesIn(f.sig)
      BY <2>1
    <3>2. IsSigSupported(f.sig)
      BY <3>1 DEF Signatures, Supported, IfaceMethods
    <3> QED
      BY <3>1, <3>2 DEF IsSigSupported
  <2>2. CASE t \in {v.t : v \in SupportedVars(Vars(p) \cup Decls(p, "field"))}
    BY <2>2 DEF SupportedVars
  <2> QED
    BY <2>1, <2>2 DEF Crossing
<1>2. t.p \in Pkgs
  BY <1>1 DEF IsSupported, IsErrorType, IsWrapperType, ValidPkg
<1>3. ASSUME p = Universe
      PROVE  FALSE
  <2>1. \A k, d : d \in Decls(p, k) => d = ErrorMethod /\ k = "imeth"
    <3>1. ErrorMethod.d = "imeth"
      BY DEF ErrorMethod
    <3> QED
      BY <1>3, <3>1 DEF Decls
  <2>2. \A f \in Signatures(p) : f = ErrorMethod
    BY <2>1 DEF Signatures, Supported, Funcs, IfaceMethods, Callable
  <2>3. SupportedVars(Vars(p) \cup Decls(p, "field")) = {}
    BY <2>1 DEF SupportedVars, Vars
  <2>4. t \in TypesIn(ErrorMethod.sig)
    BY <2>2, <2>3 DEF Crossing
  <2> DEFINE b == [k |-> "basic", p |-> "", n |-> "string", alias |-> FALSE]
  <2>5. ErrorMethod.sig.ps = <<>> /\ ErrorMethod.sig.rs = <<b>> /\ b.k = "basic"
    BY DEF ErrorMethod
  <2> HIDE DEF b
  <2>6. TypesIn(ErrorMethod.sig) = {b}
    BY <2>5 DEF TypesIn, ToSet
  <2> QED
    BY <2>4, <2>5, <2>6
<1> QED
  BY <1>2, <1>3 DEF All

\* The class of every proxy that the C or Objective-C code of a package makes is generated,
\* named in the header of that package and touched by its static initializer (genjava.go,
\* GenJava), however long the chain of imports: what is not touched
\* only unbound packages lead to.
THEOREM ProxiesMade == Spec => []ProxiesReady
<1>1. ASSUME NEW p \in All, NEW t \in Crossing(p), t.k \in {"ptr", "named"}, ~Unnameable(t), ~Remote(p, t)
      PROVE  /\ <<t.p, t.n>> \in ObjcClassesNamed(p)
             /\ t.n \in Generated(t.p) /\ t.p \in Touchable(p)
  <2>1. t.p \in Pkgs /\ p \in Pkgs
    BY <1>1, TypesOfPackage
  <2>2. <<t.p, t.n>> \in ObjcClassesNamed(p)
    BY <1>1 DEF ObjcClassesNamed, ObjcTypes, Crossing
  <2>3. t.n \in Generated(t.p)
    BY <1>1 DEF Unnameable
  <2> DEFINE S == Touched(p, Cardinality(Pkgs))
  <2>4. p \in S /\ S \in SUBSET Pkgs /\ ImportClosed(S)
    BY <2>1, TouchedClosed
  <2> HIDE DEF S
  <2>5. t.p \in S
    BY <1>1, <2>1, <2>4 DEF Remote
  <2> QED
    BY <2>2, <2>3, <2>5 DEF Touchable, S
<1>2. ProxiesReady
  BY <1>1, Zenon DEF ProxiesReady
<1> QED
  BY <1>2, PTL

-----------------------------------------------------------------------------
(* The documentation. *)

TypesOnce == \A p \in Pkgs : Once(pk[p])

\* A sequence with an element inserted before another (SequencesExt).
LEMMA InsertFacts ==
  ASSUME NEW D, NEW s \in Seq(D), NEW k \in DOMAIN s, NEW d \in D,
         NEW t, t = InsertAt(s, k, d)
  PROVE  /\ DOMAIN t = 1 .. Len(s) + 1 /\ t[k] = d
         /\ \A i \in 1 .. k - 1 : t[i] = s[i]
         /\ \A i \in k + 1 .. Len(s) + 1 : t[i] = s[i - 1]
<1> DEFINE a == SubSeq(s, 1, k - 1)
           b == SubSeq(s, k, Len(s))
           c == <<d>>
           e == a \o c
<1>1. Len(s) \in Nat /\ k \in 1 .. Len(s) /\ t = e \o b
  BY DEF InsertAt
<1>2. a \in Seq(D) /\ Len(a) = k - 1 /\ \A i \in 1 .. k - 1 : a[i] = s[i]
  OBVIOUS
<1>3. b \in Seq(D) /\ Len(b) = Len(s) - k + 1 /\ \A i \in 1 .. Len(s) - k + 1 : b[i] = s[k + i - 1]
  OBVIOUS
<1>4. c \in Seq(D) /\ Len(c) = 1 /\ c[1] = d
  OBVIOUS
<1> HIDE DEF a, b, c
<1>5. /\ e \in Seq(D) /\ Len(e) = k
      /\ \A i \in 1 .. k : e[i] = IF i < k THEN a[i] ELSE d
  <2>1. /\ e \in Seq(D) /\ Len(e) = Len(a) + Len(c)
        /\ \A i \in 1 .. Len(a) + Len(c) : e[i] = IF i <= Len(a) THEN a[i] ELSE c[i - Len(a)]
    <3>1. a \in Seq(D) /\ c \in Seq(D)
      BY <1>2, <1>4
    <3> QED
      BY <3>1, ConcatProperties
  <2>2. \A i \in 1 .. k : i <= k - 1 <=> i < k
    BY <1>1
  <2>3. ~(k < k) /\ k - (k - 1) = 1 /\ (k - 1) + 1 = k /\ \A i \in 1 .. k : ~(i < k) => i = k
    BY <1>1
  <2> HIDE DEF e
  <2>4. Len(e) = k
    BY <1>1, <1>2, <1>4, <2>1
  <2>5. ASSUME NEW i \in 1 .. k
        PROVE  e[i] = IF i < k THEN a[i] ELSE d
    <3>1. e[i] = IF i <= k - 1 THEN a[i] ELSE c[i - (k - 1)]
      BY <1>1, <1>2, <1>4, <2>1, <2>3
    <3>2. i < k \/ (i = k /\ c[i - (k - 1)] = d)
      BY <1>1, <1>4, <2>3
    <3> QED
      BY <2>2, <2>3, <3>1, <3>2
  <2> QED
    BY <2>1, <2>4, <2>5
<1> HIDE DEF e
<1>6. /\ t \in Seq(D) /\ Len(t) = Len(e) + Len(b)
      /\ \A i \in 1 .. Len(e) + Len(b) : t[i] = IF i <= Len(e) THEN e[i] ELSE b[i - Len(e)]
  <2>1. e \in Seq(D) /\ b \in Seq(D)
    BY <1>3, <1>5
  <2>2. /\ e \o b \in Seq(D) /\ Len(e \o b) = Len(e) + Len(b)
        /\ \A i \in 1 .. Len(e) + Len(b) : (e \o b)[i] = IF i <= Len(e) THEN e[i] ELSE b[i - Len(e)]
    BY <2>1, ConcatProperties
  <2> QED
    BY <1>1, <2>2
<1>7. DOMAIN t = 1 .. Len(s) + 1 /\ k + (Len(s) - k + 1) = Len(s) + 1
  BY <1>1, <1>3, <1>5, <1>6, SMTT(30)
<1>8. \A i \in 1 .. Len(s) + 1 : t[i] = IF i <= k THEN e[i] ELSE b[i - k]
  BY <1>3, <1>5, <1>6, <1>7
<1>9. \A i \in k + 1 .. Len(s) + 1 : i - k \in 1 .. Len(s) - k + 1 /\ k + (i - k) - 1 = i - 1 /\ ~(i <= k)
                                      /\ i \in 1 .. Len(s) + 1
  BY <1>1
<1>10. \A i \in 1 .. k - 1 : i <= k /\ i < k /\ i \in 1 .. k /\ i \in 1 .. Len(s) + 1
  BY <1>1
<1>11. k <= k /\ ~(k < k) /\ k \in 1 .. k /\ k \in 1 .. Len(s) + 1
  BY <1>1
<1>12. t[k] = d
  BY <1>5, <1>8, <1>11
<1>13. \A i \in 1 .. k - 1 : t[i] = s[i]
  BY <1>2, <1>5, <1>8, <1>10
<1>14. ASSUME NEW i \in k + 1 .. Len(s) + 1
       PROVE  t[i] = s[i - 1]
  <2>1. t[i] = b[i - k]
    BY <1>8, <1>9
  <2> QED
    BY <1>3, <1>9, <2>1
<1> QED
  BY <1>7, <1>12, <1>13, <1>14

\* Declaring a type a second time is not possible (the Go type checker), in whatever order
\* types and methods come.
LEMMA DeclareOnce ==
  ASSUME IInv, TypesOnce, NEW p \in Pkgs, NEW d \in Declarations[p], Declare(p, d)
  PROVE  TypesOnce'
<1> DEFINE s == pk[p]
           D == Declarations[p] \cup ToSet(TypeDecls[p])
<1>1. DOMAIN pk = Pkgs /\ s \in Seq(D)
  BY DEF IInv, PackagesOK
<1>2. \A i, j \in 1 .. Len(s) : s[i].d = "type" /\ s[j].d = "type" /\ s[i].n = s[j].n => i = j
  BY <1>1 DEF TypesOnce, Once
<1>3. \A i \in 1 .. Len(s) : s[i].d = d.d => s[i].n # d.n
  BY <1>1 DEF Declare
<1>4. SUFFICES ASSUME NEW t, pk' = [pk EXCEPT ![p] = t], Once(t)
               PROVE  TypesOnce'
  <2>1. CASE pk' = [pk EXCEPT ![p] = Append(@, d)]
    <3> DEFINE t == Append(s, d)
    <3>1. DOMAIN t = 1 .. Len(s) + 1 /\ t[Len(s) + 1] = d /\ \A i \in 1 .. Len(s) : t[i] = s[i]
      BY <1>1
    <3>2. Len(s) \in Nat
      BY <1>1
    <3> HIDE DEF t, s
    <3>3. Once(t)
      BY <1>2, <1>3, <3>1, <3>2, SMTT(30) DEF Once
    <3> QED
      BY <2>1, <3>3, <1>4 DEF t, s
  <2>2. ASSUME d.d = "method", NEW k \in DOMAIN s, pk' = [pk EXCEPT ![p] = InsertAt(@, k, d)]
        PROVE  TypesOnce'
    <3> DEFINE t == InsertAt(s, k, d)
    <3>1. /\ DOMAIN t = 1 .. Len(s) + 1 /\ t[k] = d
          /\ \A i \in 1 .. k - 1 : t[i] = s[i]
          /\ \A i \in k + 1 .. Len(s) + 1 : t[i] = s[i - 1]
      BY <1>1, <2>2, InsertFacts
    <3>2. Len(s) \in Nat /\ k \in 1 .. Len(s)
      BY <1>1, <2>2
    <3> HIDE DEF t, s
    <3>3. ASSUME NEW i \in DOMAIN t, t[i].d = "type"
          PROVE  \/ i < k /\ i \in 1 .. Len(s) /\ t[i] = s[i]
                 \/ i > k /\ i - 1 \in 1 .. Len(s) /\ t[i] = s[i - 1]
      <4>1. i # k
        BY <2>2, <3>1, <3>3
      <4> QED
        BY <3>1, <3>2, <3>3, <4>1, SMTT(30)
    <3>4. ASSUME NEW i \in DOMAIN t, NEW j \in DOMAIN t, t[i].d = "type", t[j].d = "type", t[i].n = t[j].n
          PROVE  i = j
      <4>1. i \in Int /\ j \in Int /\ k \in Int
        BY <3>1, <3>2
      <4>2. CASE i < k /\ i \in 1 .. Len(s) /\ t[i] = s[i]
        BY <1>2, <3>3, <3>4, <4>1, <4>2
      <4>3. CASE i > k /\ i - 1 \in 1 .. Len(s) /\ t[i] = s[i - 1]
        BY <1>2, <3>3, <3>4, <4>1, <4>3, SMTT(30)
      <4> QED
        BY <3>3, <3>4, <4>2, <4>3
    <3>5. Once(t)
      BY <3>4 DEF Once
    <3> QED
      BY <2>2, <3>5, <1>4 DEF t, s
  <2> QED
    BY <2>1, <2>2 DEF Declare
<1> QED
  BY <1>1, <1>4 DEF TypesOnce

\* A package declares no type twice.
LEMMA TypesDeclaredOnce == Spec => []TypesOnce
<1>1. Init => TypesOnce
  BY TypesAssumption DEF Init, TypesOnce
<1>2. IInv /\ TypesOnce /\ [Next]_vars => TypesOnce'
  <2>1. pk' = pk /\ TypesOnce => TypesOnce'
    BY DEF TypesOnce
  <2>2. ASSUME IInv, TypesOnce, NEW p \in Pkgs, NEW d \in Declarations[p], Declare(p, d)
        PROVE  TypesOnce'
    BY <2>2, DeclareOnce
  <2> QED
    BY <2>1, <2>2 DEF Next, Run, GenPkg, CannotWrite, Exit, vars
<1> QED
  BY <1>1, <1>2, Invariant, PTL DEF Spec

\* The recursive function of parseDocs, one declaration after the other.
LEMMA ParsedDocsUnfold ==
  ASSUME NEW p, NEW V, pk[p] \in Seq(V),
         NEW t, t = ParsedDocs(p)
  PROVE  /\ \A i \in 0 .. Len(pk[p]) : DOMAIN t[i] = Documented(p)
         /\ \A i \in 1 .. Len(pk[p]) : t[i] = AddDecl(t[i - 1], pk[p][i])
<1> DEFINE s == pk[p]
           z == [n \in Documented(p) |-> {}]
           N == {s[i].n : i \in DOMAIN s}
           D == [Documented(p) -> SUBSET N]
           G == [x \in Nat \X D |-> IF x[1] \in DOMAIN s THEN AddDecl(x[2], s[x[1]]) ELSE x[2]]
           Is(f) == f = [i \in 0 .. Len(pk[p]) |-> IF i = 0 THEN [n \in Documented(p) |-> {}]
                                                 ELSE AddDecl(f[i-1], pk[p][i])]
<1>1. DOMAIN s = 1 .. Len(s) /\ Len(s) \in Nat
  OBVIOUS
<1>2. z \in D
  OBVIOUS
<1>3. ASSUME NEW docs \in D, NEW i \in DOMAIN s
      PROVE  AddDecl(docs, s[i]) \in D
  <2>1. AddFunc(docs, s[i]) \in D
    <3>1. s[i].n \in N
      BY <1>3
    <3> HIDE DEF N, s
    <3> QED
      BY <3>1, <1>3 DEF AddFunc
  <2>2. AddType(docs, s[i]) \in D
    <3> HIDE DEF N, s
    <3> QED
      BY <1>3 DEF AddType
  <2> QED
    BY <2>1, <2>2 DEF AddDecl
<1> HIDE DEF D
<1>4. G \in [Nat \X D -> D]
  <2>1. ASSUME NEW n \in Nat, NEW docs \in D
        PROVE  (IF n \in DOMAIN s THEN AddDecl(docs, s[n]) ELSE docs) \in D
    BY <1>3, <2>1
  <2> HIDE DEF s
  <2> QED
    BY <2>1
<1>5. \A n \in DOMAIN s, docs \in D : G[<<n, docs>>] = AddDecl(docs, s[n])
  BY <1>1
<1> HIDE DEF G, z
<1>6. PICK f : Iterates(f, D, z, G)
  BY <1>2, <1>4, RecursionExists
<1>7. f \in [Nat -> D] /\ f[0] = z /\ \A n \in Nat : f[n + 1] = G[<<n + 1, f[n]>>]
  BY <1>6 DEF Iterates
<1> HIDE DEF s
<1>8. ASSUME NEW i \in 1 .. Len(s)
      PROVE  f[i] = AddDecl(f[i - 1], s[i])
  <2>1. i - 1 \in Nat /\ (i - 1) + 1 = i /\ i \in DOMAIN s
    BY <1>1, <1>8
  <2>2. f[i] = G[<<i, f[i - 1]>>] /\ f[i - 1] \in D
    BY <1>7, <2>1
  <2> QED
    BY <1>5, <2>1, <2>2
<1> DEFINE g == [i \in 0 .. Len(s) |-> f[i]]
<1>9. Is(g)
  <2>1. ASSUME NEW i \in 0 .. Len(s)
        PROVE  g[i] = IF i = 0 THEN z ELSE AddDecl(g[i - 1], s[i])
    <3>1. CASE i = 0
      BY <1>7, <3>1
    <3>2. CASE i # 0
      <4>1. i \in 1 .. Len(s) /\ i - 1 \in 0 .. Len(s)
        BY <1>1, <3>2
      <4>2. g[i] = f[i] /\ g[i - 1] = f[i - 1]
        BY <4>1
      <4> QED
        BY <1>8, <3>2, <4>1, <4>2
    <3> QED
      BY <3>1, <3>2
  <2>2. g = [i \in 0 .. Len(s) |-> IF i = 0 THEN z ELSE AddDecl(g[i - 1], s[i])]
    BY <2>1
  <2> QED
    BY <2>2 DEF z, s
<1>10. Is(t)
  <2> HIDE DEF g
  <2>1. Is(ParsedDocs(p))
    BY <1>9, Zenon DEF ParsedDocs
  <2> HIDE DEF Is
  <2> QED
    BY <2>1, Zenon
<1>11. t = [i \in 0 .. Len(s) |-> IF i = 0 THEN z ELSE AddDecl(t[i - 1], s[i])]
  BY <1>10 DEF z, s
<1>12. /\ t[0] = z
       /\ \A i \in 1 .. Len(s) : t[i] = AddDecl(t[i - 1], s[i])
  <2>1. ASSUME NEW i \in 0 .. Len(s)
        PROVE  t[i] = IF i = 0 THEN z ELSE AddDecl(t[i - 1], s[i])
    BY <1>11, Zenon
  <2>2. 0 \in 0 .. Len(s) /\ \A i \in 1 .. Len(s) : i \in 0 .. Len(s) /\ i # 0
    BY <1>1
  <2>3. t[0] = z
    BY <2>1, <2>2
  <2>4. ASSUME NEW i \in 1 .. Len(s)
        PROVE  t[i] = AddDecl(t[i - 1], s[i])
    BY <2>1, <2>2
  <2> QED
    BY <2>3, <2>4
<1> DEFINE A == {i \in Nat : i <= Len(s) => t[i] \in D}
<1>13. 0 \in A
  BY <1>2, <1>12
<1>14. ASSUME NEW i \in Nat, i \in A
       PROVE  i + 1 \in A
  <2>1. SUFFICES ASSUME i + 1 <= Len(s)
                 PROVE  t[i + 1] \in D
    OBVIOUS
  <2>2. t[i] \in D /\ i + 1 \in 1 .. Len(s) /\ (i + 1) - 1 = i
    BY <1>1, <1>14, <2>1
  <2>3. t[i + 1] = AddDecl(t[i], s[i + 1])
    BY <1>12, <2>2
  <2> QED
    BY <1>1, <1>3, <2>2, <2>3 DEF s
<1> HIDE DEF A
<1>15. \A i \in Nat : i \in A
  BY <1>13, <1>14, NatSetInduction
<1>16. \A i \in 0 .. Len(s) : DOMAIN t[i] = Documented(p)
  BY <1>1, <1>15 DEF A, D
<1> QED
  BY <1>12, <1>16 DEF s

\* What is documented of a type stays, unless the type itself is declared.
LEMMA AddDeclKeeps ==
  ASSUME NEW docs, NEW d, NEW n \in DOMAIN docs, ~(d.d = "type" /\ d.n = n)
  PROVE  docs[n] \subseteq AddDecl(docs, d)[n]
<1>1. docs[n] \subseteq AddFunc(docs, d)[n]
  BY DEF AddFunc
<1>2. d.n # n => docs[n] \subseteq AddType(docs, d)[n]
  BY DEF AddType
<1> QED
  BY <1>1, <1>2 DEF AddDecl

\* The documentation of a method that comes after its type is found (gen.go, parseDocs),
\* whatever stands before, between and after them.
THEOREM DocumentationKept == Spec => []DocsKept
<1>1. IInv /\ TypesOnce => DocsKept
  <2> SUFFICES ASSUME IInv, TypesOnce, NEW p \in Pkgs, NEW i \in DOMAIN pk[p], NEW j \in DOMAIN pk[p],
                      i < j, pk[p][i].d = "type", pk[p][j].d = "method", pk[p][i].n = pk[p][j].of
               PROVE  pk[p][j].n \in MemberDocs(p)[pk[p][j].of]
    BY DEF DocsKept
  <2> DEFINE s == pk[p]
             V == Declarations[p] \cup ToSet(TypeDecls[p])
             t == ParsedDocs(p)
             n == s[j].of
             m == s[j].n
  <2>1. s \in Seq(V)
    BY DEF IInv, PackagesOK
  <2>2. DOMAIN s = 1 .. Len(s) /\ Len(s) \in Nat /\ i \in 1 .. Len(s) /\ j \in 1 .. Len(s)
    BY <2>1
  <2>3. /\ \A k \in 0 .. Len(s) : DOMAIN t[k] = Documented(p)
        /\ \A k \in 1 .. Len(s) : t[k] = AddDecl(t[k - 1], s[k])
    BY <2>1, ParsedDocsUnfold
  <2>4. n \in Documented(p)
    BY DEF Documented
  <2>5. \A k \in 1 .. Len(s) : s[k].d = "type" /\ s[k].n = n => k = i
    BY <2>2 DEF TypesOnce, Once
  <2>6. s[j].d = "method" /\ i < j
    OBVIOUS
  <2>7. MemberDocs(p) = t[Len(s)]
    BY DEF MemberDocs
  <2> HIDE DEF s, V, t, n, m
  <2>8. m \in t[j][n]
    <3>1. t[j] = AddFunc(t[j - 1], s[j]) /\ DOMAIN t[j - 1] = Documented(p)
      BY <2>2, <2>3, <2>6 DEF AddDecl
    <3>2. AddFunc(t[j - 1], s[j]) = [t[j - 1] EXCEPT ![n] = @ \cup {m}]
      BY <2>6 DEF AddFunc, n, m
    <3> QED
      BY <2>4, <3>1, <3>2
  <2> DEFINE A == {k \in Nat : j <= k /\ k <= Len(s) => m \in t[k][n]}
  <2>9. 0 \in A
    BY <2>2
  <2>10. ASSUME NEW k \in Nat, k \in A
         PROVE  k + 1 \in A
    <3>1. SUFFICES ASSUME j <= k + 1, k + 1 <= Len(s)
                   PROVE  m \in t[k + 1][n]
      OBVIOUS
    <3>2. CASE j = k + 1
      BY <2>8, <3>2
    <3>3. CASE j # k + 1
      <4>1. j <= k /\ k + 1 \in 1 .. Len(s) /\ k \in 0 .. Len(s) /\ (k + 1) - 1 = k /\ k + 1 # i
        BY <2>2, <2>6, <3>1, <3>3
      <4>2. m \in t[k][n] /\ n \in DOMAIN t[k]
        BY <2>3, <2>4, <2>10, <3>1, <4>1
      <4>3. t[k + 1] = AddDecl(t[k], s[k + 1])
        BY <2>3, <4>1
      <4>4. ~(s[k + 1].d = "type" /\ s[k + 1].n = n)
        BY <2>5, <4>1
      <4> QED
        BY <4>2, <4>3, <4>4, AddDeclKeeps
    <3> QED
      BY <3>2, <3>3
  <2> HIDE DEF A
  <2>11. \A k \in Nat : k \in A
    BY <2>9, <2>10, NatSetInduction
  <2>12. m \in t[Len(s)][n]
    BY <2>2, <2>11 DEF A
  <2> QED
    BY <2>7, <2>12 DEF s, n, m
<1> QED
  BY <1>1, Invariant, TypesDeclaredOnce, PTL

-----------------------------------------------------------------------------
(* Types. *)

\* Type correctness: the declarations of a package are declarations it may have, and the
\* calls of genPkg made and to make are calls of the run (cmd/anjb/main.go, run).
THEOREM TypeCorrect == Spec => []TypeOK
<1>1. IInv => TypeOK
  <2> SUFFICES ASSUME IInv
               PROVE  TypeOK
    OBVIOUS
  <2>1. ASSUME NEW p \in Pkgs
        PROVE  ToSet(pk[p]) \subseteq Declarations[p] \cup ToSet(TypeDecls[p])
    BY ToSetFacts, ZenonT(30) DEF IInv, PackagesOK
  <2>2. ToSet(todo) \subseteq ToSet(GenCalls)
    BY ToSetFacts DEF IInv, Books
  <2> QED
    BY <2>1, <2>2 DEF TypeOK, IInv, Books
<1> QED
  BY <1>1, Invariant, PTL

=============================================================================
