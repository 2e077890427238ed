# A formal model of anja

`anja` builds Go packages into Android, Apple and desktop libraries; `anjb`
generates the bindings through which the two sides of such a library call each
other. This directory holds TLA+ modules of its core, the TLC configurations
that check them, and proofs for TLAPS. Paths below are relative to the
repository.

The first subject is the one thing in the repository that every user program
depends on at run time and that no test can exercise thoroughly: the life of an
object that is shared between two garbage-collected languages.

## 1. The system

### Components, what they keep, how they interact

| component | state | operations | models |
|---|---|---|---|
| `bind/seq/ref.go`: Go reference table | `refs`: `next`, `refs` (object to number), `objs` (number to object and count), one mutex | `ToRefNum`, `Inc`, `Delete`, `Ref.Get`, `FromRefNum`, `Bind_IncNum` | `GoRefs`, `SeqBridge` |
| `bind/java/Seq.java`: Java reference table | `RefTracker`: `next`, `javaRefs`, `javaObjs`, its monitor; `GoRefQueue`: the queue and the set `refs`; `RefMap`: two sorted arrays | `inc`, `incRefnum`, `dec`, `get`; `track`; the queue thread; `put`, `get`, `remove`, `grow` | `JavaTracker`, `SeqBridge`, `RefMap` |
| `seq_android.c.support`, `seq_jvm.c.support`, `seq.go.support` | cached classes and methods | `go_seq_to_refnum`, `go_seq_to_refnum_go`, `go_seq_from_refnum`, `go_seq_unwrap`, `go_seq_inc_ref`, `go_seq_dec_ref`, `FinalizeRef` | `SeqBridge` |
| `seq_darwin.m.support`: Objective-C reference table | `RefTracker`: `_next`, `_refs`, `_objs` | `assignRefnumAndIncRefcount`, `inc`, `dec`, `get`, `GoSeqRef` | `ObjcTracker`, `ObjcBridge` |
| `gengo.go`, `genjava.go`, `genobjc.go` | the text being emitted | functions, classes, interfaces, constructors, proxies, callbacks | `GoStub`, `JavaStub`, `ObjcStub`, `Bindings`; what the emitted code does to references is part of `SeqBridge` and `ObjcBridge` |
| `genclasses.go`, `genobjcw.go` | the text being emitted | wrappers of imported classes | `ClassStubs` (Java), `ObjcBridge` (references) |
| `gen.go`, `types.go`, `bind.go` | package scope, docs, names | `Init`, `parseDocs`, constructors, method sets | `GoDecls` |
| `internal/importers` | references found in Go code, classes found by `javap` and `clang` | analysis, import | `JavaImport` (Java) |
| `cmd/anjb` | exit status | one pass over packages and languages | `Bindings` |
| `cmd/anja` | flags, environments per target, work directory, toolchain directory, `./build` | `init`, `build`, `bind`, `install`, `clean` | `AnjaPlan`, `Anja`, `AppleTags`, `AppBuild` |
| `cmd/anja/writer.go` | offset, zip writer, manifest, current file | `Create`, `Write`, `Close` | not modelled |
| `internal/binres` | string pools, XML nodes, resource tables | marshalling both ways | not modelled |
| `internal/mobileinit` | the JVM and the context | `RunOnJVM` | not modelled |
| `asset`, `gendex.go`, `dex.go`, `context_android` | - | platform I/O, generated data | not modelled |

The generated bindings are the centre. `anjb` emits code on both sides; that code
calls the two tables and the C support files between them. `anja bind` runs
`anjb` and the compilers for every target. Nothing but object numbers (`int32`,
negative for Go objects, positive for foreign ones, 41 for null) and copies of
plain data cross the language barrier.

### What is hard

* Every crossing has windows: a number has left one side, and the other side has
  not yet turned it into an object. `seq_darwin.m.support:40-47` describes the
  window and the remedy, a count taken before the crossing and given up after.
* Four kinds of actors run at once: threads calling in both directions, both
  garbage collectors, Go's finalizer goroutine and Java's `GoRefQueue` thread.
* Two locks are nested across the barrier: `RefTracker.inc` of a proxy calls into
  Go with the monitor held.
* Numbers leave the tables and objects come back under new ones.
* The commands run several compilers at once, share slices between goroutines,
  and leave files behind when a step fails.

### What makes each component correct

* Tables: each count is exactly the number of those who will give it up; the two
  maps of a table are inverse; no lookup meets an unknown number; a number
  means the object it was made for; an object is pinned exactly while it is held.
* Generators: whatever one of the emitted files calls, looks up, declares or
  extends, another one has, with the same types; the outcome does not depend on
  the order of declarations.
* Importer: complete and the same whatever order a map is visited in.
* Commands: targets built side by side do not influence each other; what one
  invocation leaves behind is never built into the output of another; a failed
  run does not make the next one fail; success means a whole output.

`PROJECT.json` lists each component with its status and each hazard at its line,
with the properties that cover it or the reason why none does yet.

## 2. Modules

| module | what it is |
|---|---|
| `GoRefs` | the Go table: one operator per critical section of `refs` |
| `JavaTracker` | the Java table: one operator per synchronized method |
| `SeqBridge` | the composition: threads, proxies, Refs, collectors, the queue thread, the finalizer |
| `Ownership` | the abstract specification: who holds what, what is pinned |
| `MCSeqBridge` | instances for TLC |
| `SeqBridge_proofs` | the theorems about `SeqBridge` |
| `RefMap` | the arrays under `RefTracker.javaObjs`: tombstones, compaction, growth |
| `IntMap` | the abstract specification of `RefMap`: a map whose bindings are made and removed one at a time |
| `MCRefMap` | the instance for TLC |
| `RefMap_proofs` | the theorems about `RefMap` |
| `ObjcTracker` | the Objective-C table: one operator per `@synchronized` section |
| `ObjcBridge` | the composition of `GoRefs` and `ObjcTracker`; a second implementation of `Ownership` |
| `MCObjcBridge` | the instance for TLC |
| `ObjcBridge_proofs` | the theorems about `ObjcBridge` |
| `GoDecls` | bound packages and what `gen.go` and `types.go` decide about them |
| `GoStub`, `JavaStub`, `ObjcStub` | what the three generators write for a package |
| `Bindings` | a run of `anjb`, and what compilers, linker and loader make of its files |
| `MCBindings` | four packages and the declarations they may have |
| `Bindings_proofs` | the theorems about `Bindings` |
| `Recursion` | induction, that recursive functions exist, loops and the elements of sequences, for these proofs and those below |
| `JavaImport`, `ClassStubs` | the importer of Java classes, and the stubs generated of them |
| `MCJavaImport` | Java classes and Go sources |
| `ClassStubs_proofs` | the theorems about the importer and the stubs |
| `AnjaPlan` | what one invocation of `anja` will do |
| `Anja` | invocations over the directories they share, with failures and kills |
| `Anja_proofs` | the theorems about plans, `./build`, the work directories and the outputs |
| `AppleTags` | the goroutines of `goAppleBind` and the slice they share |
| `AppleTags_proofs` | when the shared slice does no harm |
| `AppBuild` | `anja build`: compile, read symbols, pack, judge |
| `MCAnja`, `MCAppleTags`, `MCAppBuild` | the instances for TLC |

### State of `SeqBridge` and the code

* `goNext`, `goRefs`, `goObjs` and `jNext`, `javaRefs`, `javaObjs` are the fields
  of the two tables.
* `monitor` is the monitor of `RefTracker`. All its methods but one finish in the
  critical section they start, and need only `monitor = Free` as a guard.
  `inc` of a `Proxy` keeps it across the call into Go: `SendProxy` takes it, `IncGo`
  releases it. The mutex of `refs` is never held across another step, so each
  of its critical sections is one step.
* A `Holder` is whatever holds a counted number: a thread with a value in flight,
  a Java proxy or class of a Go object until its `GoRef` is destroyed, a Go `Ref`
  until it is finalized. `num` is the number held, and `means` the object the
  number was made for. `means` is not in the program: it is the ghost against
  which lookups are judged.
* Slots (`Proxies`, `Classes`, `Refs`) are the identities of Java and Go heap
  objects the bindings make; they are reused when freed. `reserved` marks the
  slot a value in flight will be given on arrival (an allocation never fails
  half-way in the model). `queued` means that the collector has enqueued the
  `GoRef`, or the finalizer, and `abandoned` that an object was lost before it was
  tracked.
* `Classes` are Java classes written in Go (`GoObject` but not `Proxy`): they are
  tracked as Java objects and hold a Go number too. `unwraps` marks a call that
  goes on in `go_seq_unwrap`.
* `pc`, `arg`, `got` are a thread's program point, the slot its step works on, and
  the result of its lookup.

| action | code |
|---|---|
| `SendTracked` | `go_seq_to_refnum`, `RefTracker.inc` on a plain object |
| `SendProxy`, `IncGo` | the same on a `Proxy`: `incRefnum`, `Seq.incGoRef`, `seq.Inc` |
| `SendReceiver` | `go_seq_to_refnum_go` |
| `GoLookup`, `GoDelete` | the two critical sections of `Ref.Get` |
| `GoWrap` | `FromRefNum` with its finalizer |
| `SendGo` | the emitted `ToRefNum` |
| `NewProxy` | `go_seq_from_refnum` of a negative number, the proxy's constructor, `Seq.trackGoRef` |
| `FailConstructor` | an emitted constructor whose Go function returned an object and an error |
| `SendRef`, `IncJava` | the two halves of `Bind_IncNum` |
| `JavaGet`, `JavaDec` | the two halves of `go_seq_from_refnum` of a positive number, and `go_seq_unwrap` |
| `NewJava`, `CollectJava`, `CollectProxy`, `CollectRef` | the heaps and their collectors (external) |
| `DaemonRemove`, `DaemonDestroy` | the loop of the `GoRefQueue` thread |
| `FinalizeRef` | the finalizer goroutine |

A collector is a nondeterministic actor: it may take whatever no frame and no
table keeps reachable, at any time or never. User code is nondeterministic too:
it drops objects and sends any it can still name. A call with several object
arguments is several threads, in any order; a result is a thread of the other
direction.

The lookups, increments and decrements have their failing branches in the code
(panic, `RuntimeException`, `LOG_FATAL`). Their guards in the model are the
conditions of the successful branches, and `NoUnknownRef` says that no thread,
and neither finalizer, is ever in front of one whose guard is false.

### `RefMap`

`SeqBridge` takes `javaObjs` for a function from numbers to Refs; `RefMap` shows that
the class may be taken so. `next`, `live`, `keys` and `objs` are its fields, the
arrays as functions from 0. `RefTracker` calls it with its monitor held, so a call
is one action: `Remove`, and `put` in its three cases, `PutFound` (the key has an
entry: a live one of the same object or a tombstone), `PutFits` and `PutGrown` (`grow`
first). `Arrays.binarySearch` is external and modelled by what it returns on sorted
keys: the index of the key, or the place where it belongs. The loop of `grow` is the
one ascending list of the entries it keeps (`Keeps`). Two exceptions are guards:
`put` of another object to a bound key, and `grow` with a wrong `live`, which
`LiveExact` shows never to occur. `MaxCapacity` bounds the length of the arrays.

### `ObjcTracker` and `ObjcBridge`

The same threads, holders and ghosts as in `SeqBridge`. What differs is memory: there
is no collector and no queue on the Objective-C side. An object dies in the very step that drops
its last strong reference (`Arc`), which may be the end of a call, an assignment in the
user's program or a decrement of the tracker. A box (an object with a `GoSeqRef` in
`_ref`) then has its `dealloc` to run, and that calls `DestroyRef`, which is
`seq.Delete`; `lock` is the box whose `dealloc` runs inside the tracker's
`@synchronized` section, and everybody else waits for it. `_refs` maps addresses
that it does not retain, so an object of the model is an address, and `NewPlain` may put
another object where a dead one was.

### `GoDecls`, the stubs, `Bindings`

`pk` is the source: for each package the sequence of its declarations. `Declare` extends
it, a method also in front of its type; `Run` starts `anjb`, `GenPkg` is one call of `genPkg`, which
reports what it refuses and goes on, `CannotWrite` ends the process, `Exit` ends it in
order. The files of a package are sets: exported functions with their C types
(`Exports`), native methods (`Natives`), JNI functions (`JniDefs`) and what they call
(`JniCalls`), descriptors looked up (`ConstructorLookups`, `MethodLookups`), members of
header and implementation (`ObjcHeader`, `Implementation`), and so on. A name is a
sequence of parts, for the mangling joins parts with separators. `Errors` is what each generator refuses.
Four assumptions say what `go/packages` and `anja` guarantee: declarations are well
formed (`PackagesAssumption`), a package declares a type once (`TypesAssumption`), `error` is the one interface of the package `Universe`
(`UniverseAssumption`), and Go is among the languages (`LangsAssumption`; both
`-lang=go,java` and `-lang=go,objc` of `anja` have it).

### `JavaImport`, `ClassStubs`

`src` is a Go source reduced to its selectors, the method names of its interfaces and the structs
that embed Java classes; `U` is what `javap` would print. The stages are those of
`Import`: the classes named, the classes they refer to, the synthesized classes of
structs that embed, those in the members of the classes so far, the signatures, the classes that
appear only in these, and the names of the C functions. `todo` is the rest of the iteration over
the map `clsMap`: any order. `ClassStubs` says what `genclasses.go` makes of the result.

Widening is `fillSuperSigs` as it stands: the signature of a super class takes in that of its
subclass also while it is still zero (`NoSig`), and may panic doing so.

The last stage, `FillJNINames`, goes through the list of classes. `batches` is that list, as the sequence
of the sets that joined it; within a set any order is possible here, which is more than the order of a
map or of `javap`'s output gives. A class names each function of its own with its parameters if
it has several variants of it, else without, and the function is one object (`of` is the class that
declares it) for all classes that list it: the last one decides (`withArgs`). `CName` is the name that the C file
then has for a function (`CFunc`) of a class: its prefix, its class and `JNIName`, in which the
result plays no part. `GenC` writes one definition for each `CFunc`, and two with the same `CName` do
not compile. A name is a tuple of parts; that the prefix `cproxy_s` of static functions and `cproxy`, followed by
a package whose first part is `s`, are written with the same characters is below that.

Two stages end a run before `done`. `failed` is an error of `Import`: a referenced class that
`javap` does not find, or a Go struct that embeds one. `panicked` is a nil descriptor asked for
its super classes or its functions. The closure over references gives every class that a
descriptor names a descriptor of its own, so only one name is left that can lead to this:
`java.lang.Object`, on which `commonType` falls back (`java.go:366`) whether it was imported or
not. `javap` prints no super class of an interface, so overloads whose parameters are unrelated
interfaces, in a source that leads to no class at all, are enough. `TypeOK` says that nothing else is.
The type that such a fall-back yields is followed as any other, and `Panic` stands for what
comes of asking for its ancestors. In `clsMap[c].iface` a class knows whether it is an interface, through
which `fillThrowableFor` does not climb. One class is imported though `javap` does not find it: the
component of the data binding library, for which the code makes an empty interface
(`DataBindingComponent`).

Three assumptions, of `javap` and of Go: `Object` and the data binding component are
classes, the latter not in the package of Go structs (`RootAssumption`), a class path has finitely many
classes with lists of super classes and members, each of which knows its class (`UniversesAssumption`), and sources are
lists of selectors and structs (`SourcesAssumption`). That no class is its own ancestor, as Java
has it, is not needed by the proofs; the loops of the code would not end on one, those of the
model climb as often as there are classes.

### `AnjaPlan`, `Anja`

`AnjaPlan` parses the targets and unfolds a command into steps; the members of a step
(`todo`) are the goroutines of an `errgroup`, which waits for all. `Anja` runs
`MaxRuns` invocations: binds one after the other, `init` and `clean` beside them. `build` maps
every file of every directory under `./build` to the invocation that wrote it, `out` every
output to its writer, its libraries and whether it was closed without an error. Every
tool may fail (the second disjunct of each action), and `Crash` kills a process between any
two steps. A failure leaves what the code leaves: a copy may fail before or after its file is there
(`CopyFile`), `init` may fail after `anjb` is installed (`Install`), or find that it cannot make its
directory (`MakeHome`), and a removal of a framework may stop half way (`Remnant`). Removals
whose error the code ignores may fail too: of the work directory (`Exit`, `MakeWork`),
of the toolchain directory by `init` (`Reset`), of a source copy (`RemoveEntry`).
Four fields of `run` are ghosts: `blocked` and `spoilt`, the directories where an invocation's own copy
met a file that exists, and where it was stopped; `unremoved`, those it could not remove;
`kept`, whether the work directory was one of these. `Block`, `Spoil` and `Strand` end
the member of a step in these ways. With `-n` no copy is made, but the directory is
removed for real (`bind_desktop.go:224` calls `os.RemoveAll`): killed there, a bind leaves a
part of what another one had copied whole (`Torn`). A member of a step that is done is
dropped from `todo` together with its state (`unit`).

### `AppleTags`, `AppBuild`

`AppleTags` models the Go slice as the language has it: a length, and either the shared
array or one of its own, where `append` writes in place if the capacity allows it. `AppBuild` follows
`runBuildImpl`: the lines of `nm` through the pipe to the goroutine that matches them, the
package, and the verdict on its imports after it. A line that does not fit the scanner's
buffer leaves `nm` stuck for ever, as in the code.

## 3. Runs

`MCSeqBridge.tla` gives both tables two numbers (`GoMin`, `JavaMax`); the configurations choose
the sets.

| run | instance | states | checks |
|---|---|---|---|
| `bridge` | 2 threads, 2 proxies, 1 class, 2 Refs, 1 plain Java object, 1 Go object, 2 numbers each side | about 260 000 | all safety properties, and the refinement of `Ownership` |
| `bridge_live` | a smaller instance | about 58 000 | `CrossingsEnd`, `QueuesDrain` |
| `bridge_constructor` | the smallest with a constructor | stops at the violation | `NothingAbandoned` |
| `refmap` | 5 keys, 2 objects, arrays of 2, 4 and 8 | about 1 500 | `Sorted`, `LiveExact`, `HalfFree`, `LengthensForLive`, `ImplementsMap` |
| `objc_bridge` | 2 threads, 2 boxes, 2 Refs, 1 plain object, 2 Go objects | about 167 000 | `TypeOK`, `TablesOK`, `PinsWhileHeld` |
| `bindings` | 4 packages, some 140 declarations, two at a time, 3 languages | about 613 000 | nine properties of the files of a successful run |
| `bindings_hidden` | the same | stops at the violation | `HiddenHarmless` |
| `java_import` | 50 universes of 15 classes, 12 sources, every map order | about 62 500 | six properties of the result and its stubs |
| `java_assignable` | the same | stops at the violation | `Assignable` |
| `commands` | 2 invocations out of 12 commands | about 476 000 | `TypeOK`, `OwnSources`, `OnlyAfterInterruption`, `WholeOutput`, `NothingLeft` |
| `apple_tags` | 2 platforms, 3 tags | stops at the violation | `PlatformTags` |
| `build_imports` | 2 target lists, 3 packages | stops at the violation | `ImportsRecognised` |

What the properties say:

* `GoCountExact`, `JavaCountExact`: a count is the cardinality of the holders of the
  number; a number nobody holds is not in the table.
* `TablesOK`: the maps of a table are inverse, and numbers are not used again.
* `SameObject`: a number held still stands for the object it was made for.
* `NoUnknownRef`: see above.
* `HeldIsAlive`: what Go holds a number of has not been collected in Java.
* `MonitorReleased`: whoever holds the monitor is about to do the step that
  releases it, and can.
* `PinsWhileHeld`: `SeqBridge` implements `Ownership`, under the mapping `Held`,
  `Pinned`.
* `CrossingsEnd`: each thread is idle again and again, unless others take the
  monitor again and again.
* `QueuesDrain`: both queues are empty again and again, unless the collectors keep
  filling them, or others keep taking the monitor.

* `Sorted`, `LiveExact`: what the binary search and `grow` rely on.
* `HalfFree`, `LengthensForLive`: after a growth half of the arrays is free, and the
  arrays lengthen only for live entries. Between them: a tracker that pins few
  objects at a time stays small however many numbers it hands out (they are
  never used again, so each leaves a tombstone), and growths are rare.
* `ImplementsMap`: `RefMap` implements `IntMap` with `map` as what `get` returns.

`objc_bridge`: `TablesOK` says that both tables count their holders exactly, that a number
stands for the object it was made for though addresses are used again, and that no thread,
finalizer or `dealloc` is in front of a `LOG_FATAL` or a panic. `PinsWhileHeld` is the
same specification that the Java bridge implements.

`bindings`, of the files of a run that exits with 0:

* `NativesImplemented`: each native method of a Java class is a JNI function, by
  mangled name and JNI types; `CallsExported`: each Go function that JNI and
  Objective-C code call is exported with the C types passed.
* `CallbacksMatch`: each C function that Go calls on a foreign object is declared for Go
  and defined by both foreign sides, and each proxy type made exists in its package. A
  hidden interface type in an exported signature is left out: `gengo.go:446` makes a proxy
  of it that no package declares, a part of what `bindings_hidden` finds.
* `LookupsResolve`: `_init` finds every class, constructor and method it looks up. An
  interface method with two results of which the first is an error is left out:
  `genjava.go:1507` looks it up as void, and `genjava.go:820` declares it with the return
  type `java.lang.Exception`.
* `ProxiesReady`: a class whose proxies a package's C code makes is generated, and
  initialized before, through imports of imports if need be.
* `HeaderImplemented`: the Objective-C implementation has all its header declares.
* `InheritanceSound`: a class has the methods of what it implements or extends, and
  interfaces do not extend each other in a circle.
* `DocsKept`: the documentation of a method behind its type is found, whatever stands in
  between. (In front of its type it is lost: `gen.go:269` starts the entry anew.)

`java_import`:

* `AllMethodsExact`: a class has exactly the methods that `javap` shows of it and its
  ancestors and the source mentions, each signature once.
* `ErrorCallsToString`: the proxy of a throwable has a method `ToString` for its `Error` to call.
* `StubsLink`: each C stub that Go files call is declared and defined, and no other stub of its class has
  its name, whichever of the classes that share a function named it last. Two kinds of pairs are left out,
  since the code does give them one name (below): functions that differ in their result only, and functions each of which is
  alone in some class. So are calls to protected variants of a public static function, which
  `genGo` makes and `GenC` gives no stub.
* `NamedTypesGenerated`: the Go interfaces name generated classes only.
* `VariantsCovered`: the dispatch over overloads reads only arguments it has.
* `TypeOK`, beside types: the closure over references is complete when the signatures are
  filled, and a panic has `java.lang.Object` missing for its cause.

`commands`:

* `OwnSources`: what is compiled in `./build/...` is this invocation's own copy, whole, and
  beside it nothing but what an interrupted copy or removal left (the removal may be that of a
  later bind with `-n`): a whole copy that a killed process left is never built into another library.
* `OnlyAfterInterruption`: a bind meets a file in its way only after an earlier one over
  the same directory was killed or could not finish or remove its copy.
* `WholeOutput`: an output last written by a bind that succeeded is whole and has the
  libraries of exactly the targets asked for.
* `NothingLeft`: an invocation that ends by itself leaves neither work directory nor
  sources, but with `-work`, where its copy was stopped, or where a removal failed.

Cases in which a property excludes something are stated in the comment in front of
it, with the code that makes it necessary.

### Why these bounds

Two threads are enough for every pair of windows to overlap. Two Refs and two
Java slots let one object be held twice on the same side, and a slot be reused
while an older one of the same object is queued. Two numbers per table
let an object leave its table and come back under a new number while an old user
is still about. Larger instances (two classes, three threads with one Ref)
were run once without finding anything. Beyond the bound are
overflows: `next == Integer.MAX_VALUE` in `Seq.java:183` is a throw that changes
nothing and becomes the guard `CanTrack`; the underflow panic of `ref.go:74`
becomes `CanNumber`. In `refmap` five keys fill arrays of two and of four entries,
so that a full array is met with every number of tombstones in every place, and
compacted in place as well as doubled. The null number 41 touches no table and is left out.

In `objc_bridge` two boxes and two Refs let an object die inside the tracker while
another with the same contents is being sent; two Go objects keep the symmetric pair apart.
Numbers stop at `ObjcMax` (the code has no check there).

In `bindings` `p` imports `q` and, through a package that is not bound, `s`; `q` imports `r`:
every way one package can lead to a type of another. Two declarations beside the
types meet every pair that can interact (a constructor and a method, an interface
and one that extends it, a method before and behind its type). `MaxDecls` is the bound.

In `java_import` methods are overloaded with 0 to 2 parameters, in a class and in its super
class, with and without variadic forms; sources name classes directly, through methods
only, through fields of hidden structs, and through embedding. Two interfaces that have no
class in common, not even `Object`, are overloaded against one another (the import panics), and
one class has a super class that is not on the class path (it fails). Interfaces `K` and `L` have a method
of which one's result overrides the other's, and the data binding component in a signature; `N` has an
overloaded method that reaches no class at all; `A`, `I` and their subclass `B`, which has both of their
methods as variants, may be named in any order.

In `commands` the 12 commands have every platform kind, two sets of generated
files that overlap, modules on and off, `-n`, `-work`, rejected targets, `init` and
`clean`. Two invocations (`MaxRuns`) are enough for one to meet what another left, and the
theorems of section 4 hold for any number of them. A bind runs alone among binds: nothing in the code protects
two in one directory from each other. `apple_tags` takes three tags, the fewest for
which a slice grown one by one has room left (`Capacity` covers eight).

### Fairness

`FairSpec` assumes weak fairness of a thread's continuation, of the `GoRefQueue`
thread and of the finalizer goroutine: the operating system and the Go scheduler
run what can run. It assumes nothing of the user program, which need not send
anything, nothing of the collectors, which need never collect, and nothing of
the monitor: Java does not promise that a waiting thread ever gets it. Hence the
two liveness properties except the behaviours in which others keep taking it.
A continuation that needs the monitor is not continuously enabled while others
come and go, which is why the exception cannot be dropped. The order of the
`ReferenceQueue` is not assumed.

### Findings

`bridge_constructor`: for a Go function `NewT() (*T, error)` the generator emits a Java
constructor that throws the error (`genjava.go:1158-1162`) before it assigns
`refnum` and calls `Seq.trackGoRef` (`genjava.go:440-449`). If the function
returned an object together with its error, Go has counted it, and nothing on
the Java side will ever give that count up. `cmd/anjb/doc.go:227-231` promises
that an unreachable proxy is reported so that the reference can be removed.
The other emitted functions with an object and an error make the proxy first.

`bindings_hidden`: `isSupported` (`gen.go:504`, `:509`) accepts pointers to hidden types and
hidden interfaces of a bound package. For a variable of a hidden struct (`var V *h`) or of a hidden interface
(`var V g`, which the trace of the run has) all three generators succeed
and name a class nobody generates. `cmd/anjb/doc.go:182` says that unexported symbols
have no effect on the interface. Functions and methods are skipped in some
generators and places only.

`java_assignable`: `Import` visits its map of classes in random order; where a subclass comes
before its super class, filling the latter undoes the widening that `fillSuperSigs`
did for the former (`java.go:275-281`), and the Go interfaces of the two are
not assignable, which is what `java.go:408` is about.

`apple_tags`: the goroutines of `goAppleBind` append to one slice (`bind_iosapp.go:69`).
With three `-tags` it has room for a fourth element, and the commands of one
platform may run with the tag of another. `env.go:77` promises each its own.

`build_imports`: `nmRE` (`build.go:181`) still lets through paths of `golang.org/x` only, while
`build.go:174` and `build_androidapp.go:172` look for paths of this repository. Every
`anja build` of an app ends in "does not import", after the package has been written,
and OpenAL is never packed.

Without a run of its own, since no document contradicts it: two stubs of a class can get one name,
and the C file then defines a function twice and does not compile. `StubsLink` says in which cases.
`FuncSig` keeps the variants of a method apart by name and descriptor, result included (`java.go:100-104`,
`1095-1100`), and the stubs are named without the result: `fillJNINames` (`java.go:315-324`) uses the parameters,
and those only where a class has several variants. An override with another result (or the bridge
method that `javap` prints of it) and what it overrides are then two definitions of one C function. The second way
needs three classes: the functions are shared (`java.go:307-310`), so a subclass that inherits two
variants from two classes, and names them with their parameters, loses these to the two classes if
they come later in the list, since each has its variant alone. TLC reaches both in the
instance of `java_import` (`K` and `L`; `A`, `I` and `B`).

## 4. Proofs

`SeqBridge_proofs` proves, for all sets of threads, objects and slots and all
bounds of the numbers, with the assumptions of `GoRefs`, `JavaTracker` and
`SeqBridge` (bounds are integers on the right side of the first number; the sets
of threads, slots and objects do not meet where the program's types keep them
apart; there are finitely many holders):

* `Invariant`: `Spec => []IInv`;
* from it `TypeCorrect`, `GoCounts`, `JavaCounts`, `TablesInverse`, `Identity`,
  `KnownNumbers`, `Alive`, `MonitorComesBack`, one for each safety property of `bridge`;
* `Implements`: `Spec => PinsWhileHeld`, the refinement of `Ownership`.

The inductive invariant `IInv` is `Books /\ Control`.

`Books` relates the tables to the holders: types, exact counts, inverse maps, and
`HolderOK`, that a number held is in the table with the right object. Steps change
the books in seven ways only (`BooksToRefNum`, `BooksInc`, `BooksDelete`,
`BooksTrackerInc`, `BooksIncRefnum`, `BooksDec`, `BooksHandOver`), each a lemma
about an arbitrary holder. They rest on four lemmas that say how the cardinality
of `Holders(n)` changes when a holder takes up, gives up or hands over a number
(`FiniteSetTheorems` gives the arithmetic).

The books alone are not inductive: that `IncGo` finds its number in the table
depends on the slot in its argument being live, which depends on the collector not
having taken it. `Control` supplies this. `ThreadOK` says what a thread has in
hand at each program point, `ArgOK` that a reserved slot belongs to one thread,
`SlotOK` that a slot has a number exactly from use to release, `MonitorOK` who
may hold the monitor, and `HeldIsAlive` closes the circle: a number held keeps
the Java object in the table, and the table keeps it from the collector. There is one
lemma per action.

For `Implements` the books give `PinnedIsHeld`: the pinned objects are the objects
held. With it a step that takes up, hands over or gives up a number is an
`Acquire`, `Move` or `Release`, and every other step stutters.

`RefMap_proofs` proves, for all sets of keys and objects and every first length that is
a power of two and at least 2 (`CapacityAssumption`; 16 in the code), what `refmap` checks:
`ArraysTypeCorrect`, `KeysSorted`, `LiveCounts`, `PutsAreRare`, `LengthensWhenNeeded`,
`ArraysImplementMap`. Its invariant says that the arrays have a power of two for their
length, ascend over the entries in use and are empty behind them, and that `live` counts
the entries with an object. Two lemmas about any two arrays carry the proof: `Insertion`
(an insertion where the key belongs shifts every binding and adds one) and `Compaction`
(the kept entries are the bindings, in order). `GetBound` says that `get` finds what is
bound, so a step that rebinds one key (`Rebinds`) is a step of `IntMap`. That the length is
a power of two matters: with arrays of 12 entries `grow` would lengthen them for 5.

`ObjcBridge_proofs` proves `TypeCorrect`, `TablesCorrect` and `Implements` from `Invariant`,
for all sets of threads, slots and objects, under `SlotsAssumption`, `FreeAssumption`,
`FiniteAssumption` and `ObjcMaxAssumption`. Its invariant is `Books /\ Control` again, with
memory in place of a collector: `StrongOK` (a box with a strong reference is alive) and
`LockOK` (who has the tracker's section is a box whose `dealloc` runs). `TablesOK` needs
`Control`, for an address is used again when its object is dead, and only then may
`_refs` still not know it.

`Anja_proofs` proves `BlockedByInterruption`, `LeavesNothing`, `CompilesOwnSources`, `TypeCorrect` and
`WritesWholeOutput` for any number of invocations and any commands, from one invariant (`OutputInvariant`),
`OInv`. Its part `IInv` is about `./build` and the work directories. `Control`: binds run in order,
and each member of a step is at its own point. `Books`: `WriterOK`, that every file under `./build`
was written by an invocation that still has the directory in hand, died there, or could not finish
or remove it; `CopyOK`, how far each copy is;
and `OnlyAfterInterruption`. `WorkOK`: who still has a work directory. `CommandsAssumption`
says that a directory lists a file once, and that any two sets of generated files have one
in common (`seq.go`): without it a copy that a kill left whole would not be in the way of the
next one, and `OwnSources` would fail.

The other parts: `StepOK` says in which step of its plan a bind is, and that it has no directory in
hand whose removal stopped before, for that would meet its own files (`IInv` is inductive only with
this). `OutOK` says that an output last written by a bind is as that step wants it, or being
written, or the bind has failed. What these need of a plan is the theorem `PlansSound`, for every
command line of tokens and any host: a bind is a sequence of known steps, its libraries go to the
directories of known targets (`Dirs`), and no two of its steps pack the same file or compile in the
same directory. It follows the command line into the plan: `BuildTargets` and `DesktopTargets`
(valid tokens become pairs of
the tables, all of one kind of platform; `NoDupFacts`: each once), `NativePlans` (one target after
the other, where a file named by its target meets no earlier one), and `PlansJoin` for two
plans in a row. That targets are named once is needed: `-desktoptargets=host,linux` on Linux would
otherwise write a native library twice.

`AppleTags_proofs` delimits a finding: `TagsOfOwnPlatform` says that with no spare capacity
behind the flag's slice (`NoSpareCapacity`: one, two, four or eight tags) each command has the
tags of its own platform, for any number of targets. With spare capacity, `apple_tags`
shows it does not.

`Bindings_proofs` proves, for any packages, declarations and order of languages, all that
`bindings` checks: `HeadersImplemented`, `LinksToGo`, `CallbacksLink`, `NativesFound`,
`InitResolves`, `ProxiesMade`, `Inherits`, `DocumentationKept` and `TypeCorrect`. The invariant is
small: a package holds known declarations (`PackagesOK`), and every call of `genPkg` of a run was
made, is to be made, or its failure shows in the exit status (`Books`). What is long is
what generators owe each other: one lemma per pair of generators and kind of declaration,
from the fact that a run which exits with 0 refused nothing (`DoneFacts`). That a class inherits
soundly needs `AliasesAlike` and `SignaturesAlike` (signatures that differ by an alias are
declared alike in both packages), and that extension is not circular needs the finiteness of
`Required`. `ProxiesMade` counts: every round of static initializers adds a package or has
reached all that imports lead to, so as many rounds as there are packages suffice
(`TouchedClosed`). `DocumentationKept` follows one entry of the table from its type to the end of
the package; it needs that a package declares a type once (`TypesAssumption`, kept by every
step: `TypesDeclaredOnce`). Both are about recursive functions, and
induction is not to be had from the library, whose theorems take an operator. `Recursion`
proves it for a *set* of numbers (`NatSetInduction`, from the well-founded inclusion
of finite sets), and from it that a function with the recursive equation exists
(`RecursionExists`), without which nothing is known of the one that is chosen.
The two exclusions in `CallbacksMatch` and `LookupsResolve` were found by these
proofs; the instance for TLC now has the declarations that show them.

`ClassStubs_proofs` proves, for any class path and any Go source under the three assumptions
above, all that `java_import` checks: `ImporterTypeOK`, `AllMethodsExactHolds`, `StubsLinkHolds`,
`NamedTypesGeneratedHolds`, `VariantsCoveredHolds`, `ErrorCallsToStringHolds`. The importer is loops
over lists that build lists, written as recursive functions. Each is unfolded once into
its steps (`StepsExist` gives the values, `UpTo` the induction over them), and the lemmas
`KeepFacts`, `FlattenFacts`, `CommonFacts`, `DistinctFacts` and their like say what it computes; the rest
of the proof never sees a recursion again. The argument:

* `Imported`: a descriptor is of a class that the class path or the source has, every class returned has one,
  and from the second round on only those of the last round may name classes without one
  (`Linked`). This is what makes `NamedTypesGenerated` hold: the
  packages can mention nothing that has no descriptor.
* `ImporterInv` adds the signatures: `SigsFilled`, that all of them, filled or still zero, are of known
  types; and that the method sets are those `AllMethods` computes. A panic needs a type that
  no descriptor has; the common type of two known types is known, or `Object`. Hence the last
  part of `TypeOK`. What is shown of combined signatures is shown of a set of signatures that
  `Combine` does not leave, whatever is combined in whatever order: the order of the map
  cannot matter to it.
* `NamesGiven`, for `StubsLink`: of the classes named so far, every function bears its parameters or is alone
  in one of them. Two functions with one `CName` bear both their parameters, which are then the
  same, or neither, and then each is alone somewhere: the two pairs that are left out.
* `MethodsKept`: a class has the methods shown and wanted, though some are filtered when they are named and others after the
  closure. For `AllMethodsExact` the rounds of `MethodSets` are followed: after
  `i` rounds a set has the methods of the ancestors at most `i` steps away, and as many rounds as there are
  classes reach them all.
* `LoneSigs`, for `VariantsCovered`: no order of the map changes the signature of a method that no
  ancestor or descendant declares. For all others the property is false, and so excluded:
  `combineSigs` forgets the shortest list when it combines a signature that is variadic already.
* `Thrown` and `ToStringSigs`, for `ErrorCallsToString`: a class marked as throwable descends from
  `Throwable` and so inherits its `toString`, which is kept though nobody mentions it; and the
  signatures a call without arguments fits are such a set that `Combine` does not leave.

Model-checked only: `CrossingsEnd` and `QueuesDrain`, for liveness under fairness is out of the
prover's reach. Every other property that a passing run checks is a theorem. `Assignable`,
`HiddenHarmless`, `NothingAbandoned`, `PlatformTags` and `ImportsRecognised` are false of the code (Findings).

## 5. Not modelled

Strings, byte slices and numbers are copied and have no life of their own across
the barrier. Local frames and global references of JNI are bookkeeping of the
JVM. Reference cycles through both tables are never collected; `doc.go` says so,
and it is not a property of the model. Generated text as text, the APK signature,
external tools and platform I/O are out of scope.

* The Objective-C importer parses the output of `clang` into descriptors of the same shape as the
  Java importer's, without overloads or a second pass over a map: what would be left
  of it is text. Of `genobjcw.go` the steps on references are in `ObjcBridge`.
* `writer.go` and `internal/binres` write byte formats sequentially: offsets, padding and
  tables at fixed places, no state that survives a call, nothing concurrent.
* `RunOnJVM` is one goroutine that sends once; attaching threads is the JVM's affair.
* `string.go` is arithmetic on single characters.
* The choice of an NDK (`env.go:444-473`) and the environments of the targets read files once.
  Versions are compared as strings there (`env.go:460`).
* Two binds at once in one directory: see the bounds of `commands`.

## 6. Plan

1. The parts of the Objective-C wrappers of imported classes (`genobjcw.go`) that are not about
   references.
2. Two disagreements have no run of their own yet: the panic of `java.go:366`, which `TypeOK` delimits,
   and the forgotten variadic parameter of `combineSigs`, which `VariantsCovered` and `ErrorCallsToString` leave out.
