# A TLA+ model of the clojure-rt runtime

clojure-rt compiles Clojure with LLVM. A frontend in Clojure analyses a program
and writes an annotated syntax tree; a backend in C++ generates and runs code for
it on top of a runtime in C. Memory is managed by reference counts. This project
models the parts of the backend in which threads meet, the values of the runtime
as counted objects that are reused in place, and the decisions of the compiler
about references, types and overloads. It checks them with TLC on small
instances, and proves the safety properties of all the concurrent parts and of
arithmetic with TLAPS.

## The system and its hard parts

| Part | State | Operations | What makes it hard | What makes it correct |
|---|---|---|---|---|
| Epoch-based reclamation, `runtime/Ebr.c` | global epoch, one `ThreadState` per thread, list of retired objects | enter, flush, leave a critical section; retire; synchronize and reclaim | no lock and no fence on the side of the readers; stores may be delayed | what a thread loaded from a shared location is not released while it uses it; what is retired is released in the end |
| Reference counts, `runtime/Object.h` | count and mode (local or shared) of every object | retain, release, reuse in place, promote | the fast path of a local object is not atomic; an object changes mode when it is published | counts are exact; a local object belongs to one thread; nobody sees a change in place |
| Vars, `runtime/Var.c` | root, stacks of dynamic bindings | bind, deref, unbind | deref loads a root and retains it later | covered by the two parts above |
| Concurrent hash map, `runtime/ConcurrentHashMap.c` | cells with hash, key, value and two links | assoc, putIfAbsent, getOrCreate, get, dissoc | cells are claimed, linked and published in separate accesses, with help from others | a linearizable map; whoever waits for a key gets it |
| Keywords, `runtime/Keyword.c` | two concurrent maps and a counter | create, toString | two maps are updated one after the other without a lock | one string, one id, and it can be printed |
| Namespaces, `runtime/Namespace.c` | two immutable maps behind atomic pointers | intern, refer, import, unmap, alias, unalias | compare-and-swap loops that act on what they read before | no update is lost; all threads get the same Var |
| Inline caches and JIT, `jit/JITEngine.cpp`, `bridge/InstanceCallStub.cpp` | per call site a type, an epoch and a bridge; modules that are loaded, retired, removed; compilations in progress | call, miss, compile, retire, flush | a bridge may be replaced and removed while someone runs it; callers join compilations | the code that runs is for the right type, current and not removed |
| Threads, `tools/ThreadPool.cpp`, `Ebr_init`, `Ebr_shutdown` | the queue of tasks, the registry of `ThreadState`s, the reclaimer | start, enqueue, run, stop, join, shut down | registry slots are handed over; condition variables without a condition | no slot with two owners, nothing freed that is used, shutdown ends |
| Class registry, `state/`, `tools/EdnParser.cpp` | classes and protocols by name and number, overloads, static fields | load protocols, classes, extensions; validate; resolve a call | linking in phases with exceptions in between; extensions change classes that were validated | counts are right on every error path; what was accepted keeps its promises |
| Vectors, lists, maps, sequences, `runtime/Persistent*.c` | trees, cells and arrays with reference counts | the operations of Clojure, transients | a value is changed in place when its owner is the only one; sequences borrow blocks | the same result as a copy, exact counts |
| Strings, symbols, scopes, functions, `runtime/` | pieces, names, contexts, methods, call-site slots | concat, iterate, bind, set!, call, variadic packing | pieces and maps are shared; a slot compares addresses | texts do not change, the right method gets the right arguments |
| Numbers, `runtime/Numbers.c`, `codegen/invoke/` | integers of 32 bits, doubles, big integers, ratios | arithmetic and comparison, folding | one operation has many overloads, chosen by what is known | the answer does not depend on the choice |
| Code generator, `codegen/` | stacks of bindings and of temporaries, landing pads | one translation per kind of node | what to release on every path, exceptions included | every value is released once |
| Frontend, `frontend/src/clojure/rt/passes.clj` | the syntax tree | the memory management pass | last uses of variables on every branch | the code balances its references |

How they interact: generated code calls the runtime, and an instance call that
misses its cache calls back into the engine, which compiles on the pool's
threads. Every pool thread runs a task inside a critical section of Ebr; main is
inside one from construction to destruction of the engine. Var roots, namespace
maps, cells of the concurrent map and bridges are shared locations: their readers
borrow, their writers retire what they replace with `autorelease`. What is
published is promoted to the shared mode of its reference count first.

The list of hazards in `PROJECT.json` names the lines where this can go wrong.

## Modules

| Module | Models | Composed of |
|---|---|---|
| `GracePeriod` | the promise of Ebr | |
| `Ebr`, `EbrProofs` | `Ebr.c` at the level of memory accesses | implements `GracePeriod` |
| `RefCount`, `RefCountProofs`, `MCRefCount` | `Object.h` and `Var.c` | uses the grace period as atomic steps |
| `Namespace`, `NamespaceProofs`, `MCNamespace` | `Namespace.c` | |
| `ConcurrentMap` | the promise of the concurrent map | |
| `ConcurrentHashMap`, `ConcurrentHashMapProofs`, `MCConcurrentHashMap` | `ConcurrentHashMap.c` | implements `ConcurrentMap` |
| `Keyword`, `KeywordProofs`, `MCKeyword` | `Keyword.c` | uses the operations of `ConcurrentMap` as atomic steps |
| `InlineCache`, `InlineCacheProofs` | a call site, `JITEngine::compileGeneric`, class loading, with the grace period of Ebr | |
| `Lifecycle`, `LifecycleProofs` | threads from start to shutdown, with the registry of Ebr | |
| `Cells` | objects with a plain count: allocation, retain, reuse | |
| `Heap` | releases that go on to what an object owned | `Cells` |
| `VectorOps`, `Vector`, `MCVector` | `PersistentVector.c`, `PersistentVectorNode.c` | `Heap` |
| `CollectionOps` | lists, array maps, sequences, chunks, iterators | `VectorOps` |
| `TextOps` | strings, builders, symbols | `CollectionOps` |
| `BindingOps` | Vars with dynamic bindings, execution contexts | `CollectionOps` |
| `FunctionOps` | functions, variadic calls, slots of call sites, metadata | `TextOps`, `BindingOps` |
| `NamespaceOps` | namespaces, their register and the look-up of Vars as counted objects | `FunctionOps` |
| `Collections`, `MCCollections` | a program that calls all of these | `NamespaceOps` |
| `NumberOps` | `Numbers.c`, `Ratio.c`, `BigInteger.c`, `Integer.c` | `Cells` |
| `ValueEncoding` | `RTValue.h`, `ValueEncoder.cpp`: values as tagged words | `NumberOps`, `ObjectTypeSet` |
| `Arithmetic`, `ArithmeticProofs`, `MCArithmetic` | overloads, intrinsics and constant folding | `ValueEncoding` |
| `OwnershipPass` | the memory management pass of `passes.clj` | |
| `CodeGen` | `codegen/`: nodes, guards, landing pads, types of tests | `OwnershipPass` |
| `CompiledCode`, `MCCompiledCode` | a compiled function runs | `CodeGen`, `Heap` |
| `ObjectTypeSet` | static types, restriction and determination | |
| `ClassDescription` | `EdnParser.cpp` | `ObjectTypeSet`, `Heap` |
| `ClassRegistry`, `MCClassRegistry` | loading, validation, resolution of calls | `ClassDescription` |

The `...Ops` modules are pure: a C function is an operator from a heap and its
arguments to a heap and its result, every retain and release included. The module
that uses them has the state and the actions. Those built on `Heap` use RECURSIVE
operators (for releases and trees) and so have no theorems. `NumberOps` is built
on `Cells`, since a number owns no other object, and its one recursion, `gcd`, is
a recursive function. Neither it nor the concurrent modules reach a RECURSIVE
operator, and `Arithmetic` and each of the concurrent modules have a module of
proofs.

An `MC...` module gives an instance its symmetry or its sets of values. `Ebr`,
`InlineCache` and `Lifecycle` need neither, as their runs check liveness, and are
checked as they are.

A definition whose comment starts with "Mutant" is a plausible mistake in the code
that the definition after it models. `PROJECT.json` pairs it with the property
that it breaks: TLC finds the property violated when the mistake is put in.

## Plan

Done: reclamation, reference counts, namespaces, the concurrent map, keywords,
inline caches, life of the threads; vectors, collections, texts, scopes,
functions, namespaces as counted objects; numbers and intrinsics; the memory
management pass and the code generator; classes. Proofs of the safety properties
of `Ebr`, `RefCount`, `Namespace`, `ConcurrentHashMap`, `Keyword`, `InlineCache`,
`Lifecycle` and `Arithmetic`, and of the refinements of `GracePeriod` and
`ConcurrentMap`.

Next, in this order:

1. The new map of a namespace is in local mode when it is published
   (`Namespace.c:228`): composition of `Namespace` with `RefCount`.
2. The stack that a task captures and hands to the worker that runs it
   (`Exceptions.cpp`, `ThreadPool.cpp`).
3. Proofs about the types of the compiler (`ObjectTypeSet`, which has no
   recursion): what a restriction and a join keep.

## Epoch-based reclamation (`GracePeriod`, `Ebr`, `EbrProofs`)

`backend/runtime/Ebr.c` lets threads use pointers that they loaded from a shared
location (a `Var` root, the map of a `Namespace`, a cell of a
`ConcurrentHashMap`) without retaining them first. `GracePeriod` states the
promise in five actions: an object is shared, used, retired, a thread becomes
quiescent, and a retired object is reclaimed only when no thread still uses it.

`Ebr` is the code, one action per access to shared memory:

| Code | Actions |
|---|---|
| `Ebr_enter_critical` | `EnterLoad`, `EnterActive`, `EnterEpoch` |
| `Ebr_flush_critical` | `FlushLoad`, `FlushStore` |
| `Ebr_leave_critical` | `Leave` |
| `Var_bindRoot`, `Var_peek`, `Var_unbindRoot` as users | `Publish`, `Borrow`, `Unlink` |
| `autorelease` | `AutoreleaseLoad`, `AutoreleasePush` |
| `Ebr_synchronize_and_reclaim` | `SyncLock`, `SyncBarrier`, `SyncBarrierDone`, `SyncScanActive`, `SyncScanEpoch`, `SyncAdvance`, `SyncSteal`, `SyncWalk`, `SyncUnlock` |

The stores to `active` and `local_epoch` go through a first-in first-out buffer
per thread (`stores`) that `Drain` empties at arbitrary moments: this is the
reordering of a store with later loads that x86 performs and the reason why the
code calls `membarrier` (or `mprotect`) in `issue_global_barrier`.
`SyncBarrier(u)` empties the buffer of one thread; the threads pass the barrier
at different moments. Loads are executed in program order. The relaxed loads of
the C code would also permit, on ARM, that a pointer load overtakes the epoch
load before it; that reordering is not modelled.

`entered[t]` is a history variable: the global epoch at the moment `t` stored its
`local_epoch`, which may be later than the epoch it stores. The release in
`SyncWalk` may run destructors that call `autorelease` again: `Unlink` is
therefore enabled for the owner of the mutex during the walk.

Epochs are natural numbers. In the code they are 32-bit and wrap; a wrong
advance would need a thread suspended between the load and the store of
`Ebr_enter_critical` for about 2^32 synchronizations.

Run `ebr` (two threads, one object, epochs 0..2, buffers of one store): an object
is dated, survives one advance and is reclaimed after the second; without the
barrier, with an object dated one epoch too late or with a scan that forgets a
thread the instance fails. `MaxEpoch` only stops new synchronizations. It checks
safety, the inductive invariant `IndInv` of the proofs, the refinement of
`GracePeriod` and, under fairness, `Reclamation`: what is retired is reclaimed,
although both threads go on entering, flushing and leaving.

Fairness of `Reclamation`: a function that was entered runs to its end and a
store buffer drains (weak fairness); a thread calls `Ebr_flush_critical` again
and again (strong fairness; `CodeGen.cpp` and `RecurNode.cpp` emit it at function
ends and loop backedges, and a pool thread leaves its critical section after
every task); a synchronization starts again and again (strong fairness, because
threads compete for the mutex; `Ebr_force_reclaim` loops until nothing is
pending).

### Proofs

`EbrProofs` proves, for every set of threads and objects, every epoch bound and
every buffer size: `Spec => []IndInv`, and from it `TypeOK`,
`NoUseAfterReclaim`, `EpochLag` and the refinement `Spec => GP!GPSpec`. The
assumptions are the named `ASSUME`s of `Ebr`.

`NoUseAfterReclaim` is not inductive. The argument goes through `EpochLag`: an
object is released two epochs after its date, the date is no earlier than the
epoch in which any borrower's section began (`BorrowedAreYoung`), and the epoch
leads a running section by at most one. For that the advance must have seen every
section that began before it (`ScannedAreCurrent`), which holds because after the
barrier such a section has no buffered store left (`OldSectionsVisible`) and
memory differs from a thread's view only by its buffered stores
(`BufferEndsInView`).

## Reference counts (`RefCount`, `RefCountProofs`)

An object starts in local mode, where its count is loaded and stored without
atomic operations; `promoteToShared` sets `SHARED_BIT` before the object is
published, and from then on counts change atomically. `Object_isReusable` takes
the bit away again from an object with one reference.

The model splits the fast paths into their load and their store
(`RetainLoad`/`RetainStore`, `ReleaseLoad`/`ReleaseStore`, `ReuseLoad`/
`ReuseInPlace`), walks a promotion object by object (`PromoteNext`,
`PromoteDown`, `PromoteUp`), and publishes through a Var (`BindExchange`,
`UnbindRoot`, `Peek`). The grace period of Ebr is one step here: `Reclaim` waits
for the threads that were in a section at the time of `Retire`, which is what
`Ebr` proves.

Run `refcount`: two threads, a chain of two objects, one of which is of a type that
is promoted shallowly, one Var. `CountsAreExact`
relates every count to the references that exist, the ones a thread has in hand
included; `LocalMeansExclusive` says that an object in local mode is reachable
from one thread only, and `InPlaceUnseen` that an object that is changed in place
is in nobody else's hands. One object shows the race of two counters, the second
one shows that promotion has to reach children. The threads and the slots of the
pending list are symmetric, the objects are not, as one of them is shallow: 1.9
million states. Deadlock is not checked:
objects are finite and end up destroyed.

`Shallow` is the set of objects whose promotion marks them alone
(`Object_promoteToSharedShallow`, the default case of `Object.h:524`). The types are:

- symbols, which refer to a name, handed out by `Symbol_getName` (`Symbol.c:83`), and
  to metadata;
- reverse sequences, which refer to a vector; compound strings, which refer to the
  vector of their pieces; string builders; execution contexts, which refer to the
  map of bindings; exceptions, with the data they carry;
- big integers, ratios, simple strings and bridged objects, which refer to nothing
  that is counted;
- vectors and lists as far as their metadata goes: `PersistentVector_promoteToShared`
  (`PersistentVector.c:133`) and `PersistentList_promoteToShared`
  (`PersistentList.c:226`) promote the elements and leave the metadata out.

A shallow promotion is enough if the object refers to nothing or to something that
is shared already, and `PromotionsCover` says so of the promotions under way. The
code does not see to it. **All properties of this section hold in the behaviours
that keep `PromotionsCover`** (`CoveredSpec`): the program may share a symbol whose
name is already shared, but not one whose name only this thread has used. Without
that condition TLC finds a second thread that counts a local object, and
`LocalMeansExclusive`, `CountsAreExact` and `NoDangling` fail: a defect of the code, listed in the
last section but one.

What can be reached is the least set of objects that contains the start and is
closed under `child` (`Reach`), and the count is compared with the number of
places that hold a reference (`Refs`): an object that refers to it, a position
among the references of a thread, the hand of a thread, the root of the Var, a
slot of the pending list. The pending list is a function on slots for the same
reason: two references to one object are two places.

### Proofs

`RefCountProofs` proves `CountsAreExact`, `NoDangling`, `LocalMeansExclusive` and
`InPlaceUnseen` for every set of threads and objects, chains of any length,
all bounds and all sets of shallow objects, in the behaviours of `CoveredSpec`. The
theorems state the condition, which the code does not keep for the types listed
above; for `Spec` TLC refutes the first three. The assumptions on the constants are
that there is a thread and that `MaxRefs` is at least one.

None of the properties is inductive, nor is their conjunction. `RefCountInv` has:

- `Counted`: the count of a live object is the number of places that refer to it,
  and a dead object has none;
- `Acyclic`: no object reaches itself. A new object refers to old ones, and a
  change in place puts an object into one that nobody else refers to;
- `Exclusive`: there is an assignment of owners to local objects that agrees with
  all who hold or refer to them. The owner of an object is that of the object that
  refers to it, so that a thread that reaches a local object at the end of
  a chain owns it. An assignment is what makes this inductive: "at most one thread
  reaches it" is not, as it says nothing of objects that nobody holds;
- `BorrowedHeld`: what a thread borrowed is the root or waits on the pending list
  for this thread too;
- `CallInv`: what a thread has loaded of a local object is still there, and a
  caller of `Object_isReusable` that has loaded a count of 1 has the only reference
  in its hand;
- `PathInv`: a promotion goes down a chain of local objects whose words it has
  loaded, and behind it all are shared. This is where `PromotionsCover` is needed:
  a promotion that stops at a shallow object has to leave nothing local below it.

The core of the argument is that a thread with the only reference in its hand
can destroy or change the object, for then no other place leads to it (`NoWay`)
and what the others reach does not change (`ReachKept`). A local object has one
owner and the owner one program counter, so that the loads and stores of two
threads never meet on it. Each action has a lemma that states its effect on every
part of the invariant.

`NothingLeaksTheorem` is the converse of `NoDangling`: an object that is alive can
be reached from an anchor, that is from the root, the pending list, a reference
that a thread has yet to release, or the hand of a thread in a function of
`Object.h`. It also assumes that the objects are finitely many. No release
leaves a count of zero behind (`Positive`, inductive together with `RefCountInv`),
so that an object without an anchor is kept by one that refers to it and has no
anchor either. By `Acyclic` the keeper reaches more objects than the one it keeps;
hence there is no such object, as one of those that reach the most would need a
keeper too. TLC has checked `Positive` and `NothingLeaks` on the instance of the
run.


## Namespaces (`Namespace`, `NamespaceProofs`)

A namespace holds two immutable maps, of mappings and of aliases, behind atomic
pointers. Every operation loads a map, decides on it, builds a new one and swaps
it in if the old one is still there. The actions are the loads, decisions and
swaps of `Namespace_intern`, `Namespace_reference`, `Namespace_unmap`,
`Namespace_addAlias` and `Namespace_removeAlias`; maps are functions with an
identity that the compare-and-swap compares. A map has room for `MaxEntries`
symbols, as `PersistentArrayMap` has for `HASHTABLE_THRESHOLD`; `MapFull` is the
exception of an insertion into a full map.

Run `namespace` (two threads, three symbols, maps of two): `NoLostUpdate` (a swap
changes one symbol of the map that is current, not of the map that was loaded),
`KeptUntilRemoved` (no referral replaces an interned Var and no alias another
one, although the decision and the swap are separate steps). Three symbols for two places are the
smallest instance in which a map is full and a lost update can be seen.
`CanonicalUnlessReferred`: as long as a symbol has never been referred
(`referred` remembers it), all who intern it get the Var that is mapped. Deadlock
is not checked because identities of maps and Vars are finite and a
run may use them up.

The condition is needed: with a symbol that refers to a foreign Var, the second
loop of `Namespace_intern` swaps in its own Var after a failed swap without
looking again, and two threads get two Vars (`ReplaceCas`, `ReplaceRetry`).

`NamespaceOps` has the same functions for one thread, with the references that
they own, and the register of namespaces; see the section on collections.

### Proofs

`NamespaceProofs` proves `NoLostUpdate`, `KeptUntilRemoved` and
`CanonicalUnlessReferred` for every set of threads, symbols, Vars and namespaces,
every limit of entries and any number of updates. The assumptions are that Vars,
foreign values and nil are different and that the limit is a positive number.

A call that is about to swap acts on a map it loaded earlier. `NamespaceInv` says
that the version of that map is not ahead of the current one, and that it *is* the
current map if the versions agree (`LoadedMap`); and it has what the call read in
it (`Checked`): `intern` found nothing under its symbol, `reference` no interned
Var, `addAlias` no alias. A swap that succeeds then acts on facts that are still
true. In the second loop of `intern` (`ReplaceCas`) nothing was read again, and
all that is left is that the symbol has referred to a foreign value: this is where
`CanonicalUnlessReferred` needs its condition.


## The concurrent hash map (`ConcurrentMap`, `ConcurrentHashMap`, `ConcurrentHashMapProofs`)

`ConcurrentMap` states what callers may count on: an update takes effect in one
step between call and return, an answer that a key is absent was true at some
moment of the call (`seen` remembers the values the key has had), and an
insertion fails for lack of space only if the key is not there.

`ConcurrentHashMap` is the table. `insertOrFind` becomes `InsertHome`, `SameKey`,
`FollowLink`, `Hop`, `LinearProbe`, `SetLink` and `Overcrowded`; what its callers
do with the cell is `StoreValue`, `StoreKey` and `Found`; `get` and `dissoc` are
`Look`, `Match`, `TakeGet`, `TakeDissoc` and `NextCell`. Every step is one access
to a cell. `Contents` maps the cells to the abstract map: a key counts from the
store of `entry->key` on. Size, threshold and hashes are constants.

The steps are interleaved in program order, which x86 preserves here: the stores
of link, value and key leave a thread in this order, and others wait for the key.
On ARM the relaxed loads of the links permit more than is modelled. The counts
of keys and values are left to `RefCount` and `Ebr`: a value that `get` is about
to retain has at worst been retired by `autorelease`.

Run `concurrent_hash_map`: a table of four cells and any number of calls by two
threads about three keys and two values. Two keys have the same hash, their chain
wraps around the end of the table, and the third key belongs to the bucket they
overflow into; insertions look one cell ahead, so that some fail, and can meet a
cell that is claimed and not linked. Two values tell `assoc` from `putIfAbsent`.
A third thread adds no new kind of encounter: the second one can do what it would
do while the first stands still between two accesses. `AwaitedKeysCome` and the
absence of deadlock stand for the end of the waits in `isSameKey`: whoever waits
for a key waits for a thread that has only unconditional steps left before it
publishes the key. Chains of three and more cells have been explored with larger
thresholds and fewer values, but are not part of the run.

### Proofs

`ConcurrentHashMapProofs` proves, for every number of threads, keys, values and
cells, every hash function and every threshold from 1 to the size of the table
less one: the refinement `Spec => ImplementsMap`, `AwaitedKeysCome`, that no key is
in two cells (`OneCell`), and that nothing in a cell but its value is taken back
(`Kept`). `Kept` is why a load of `keyHash` and the compare-and-swap that follows
may be one step of the model: if the load sees a hash the swap is not tried, and
if the swap fails it sees the hash that stays. That values are none of the three
marks for answers is assumed by name.

The chain of a bucket begins at its home cell, whoever has that, and goes over its
other cells in the order of their distance from home, round the end of the table.
`TableInvariant` says of the table that

- the cells between the home of a bucket and a cell of the bucket are claimed
  (`Packed`), so that no key comes in behind a thread that has passed;
- a link leads to a cell of the same bucket and passes over cells of others only
  (`Links`);
- the chain in front of a cell is complete by the time the cell is linked
  (`Chained`), because whoever claims a cell has gone through that chain;

and of each call that its key is in no cell that it has passed, that nobody can
still publish it there, and that a claimed cell belongs to one thread. A thread
that goes round the table and comes to its home cell again has a special place in
the argument (`Wrapped`): it has seen every cell claimed by then, so that its key
can no longer enter the table. Such an insertion may go round for ever in a
completely full table; safety holds all the same. The run's four cells have three
keys, so only the proof covers a full table.

## Keywords (`Keyword`, `KeywordProofs`)

`Keyword_create` looks the string up, draws an id, enters it into
`keywordsInverted`, tries to enter it into `keywords`, and takes it out of
`keywordsInverted` if another thread was first. The operations of the maps are
single steps, which the refinement above justifies; insertions may throw
(`Throw`), and `lost` remembers the ids that an exception of the second map leaves
in `keywordsInverted`.

Run `keyword` (three threads, two strings, five ids): `Interned` and the
inductive invariant `KeywordInv` of the proofs, with exceptions. Deadlock is not checked: ids are bounded by
`MaxKeyword`.

### Proofs

`KeywordProofs` proves `Interned`, `Printable` and `NoOrphans` for every set of
threads and strings and every bound on ids. None of them is inductive. `KeywordInv` adds that a drawn id belongs to one thread or to one
entry of `keywords` (`IdsAreOwned`: the counter is ahead of all of them), that
`keywordsInverted` is ahead of `keywords` (`InvertedFirst`), that an entry of
`keywords` is final (`FirstWins`), and that every id in `keywordsInverted` has a
place or an owner (`Accounted`): the removal of a loser's id then never touches
an id that someone was given.

## Inline caches and compilation (`InlineCache`, `InlineCacheProofs`)

One call site. Its slot holds a type, an epoch of the class registry and a
bridge. A call compares type and epoch and runs the bridge on a hit; on a miss
`InstanceCallSlowPath` has a bridge compiled on a pool thread, looks at the slot
again and stores the new one. `compileGeneric` joins a compilation that is active
under the same module name, and otherwise goes through the stages of a task:
generating code, loading it, retiring the module that had the name, looking up
the symbol, leaving `activeCompilations`, setting the future. Each stage can
fail. Retired modules are removed by Ebr when every section that was open has
passed a flush; sections open and close as in the code, and the grace period is
one step.

Classes are stored only while no call is in progress, as `main.cpp` loads them
before it runs user code. A call made from inside a bridge of the same site is
not modelled. `MaxICEpoch`, `MaxEpoch` and the set of bridge names bound the
instances; `LinkFails` and `InnerFlush` switch on failing links and bridges whose
method is a Clojure function that flushes. Deadlock is not checked because bridge names are used
up.

Run `inline_cache` (two callers, two types, failures, one load of classes):
`NoModuleLost`, a module that is loaded is tracked or retired, whatever the
interleaving of a compilation that ends with one that begins; `FreshCode`, no
bridge of older classes runs; and `CallsEnd`, every miss is answered, under weak
fairness of callers and pool threads, which the operating system schedules;
compilations end.

What does not hold in the code, and is possible in the model:

- a caller joins a compilation for an instance of another type, because the
  module name does not contain the type (`JITEngine.cpp:177`);
- the double check of the slot finds a bridge that this very caller's
  compilation has retired (`InstanceCallStub.cpp:111`);
- the old module is retired before the new one is linked, and the slot keeps the
  old bridge when the link fails (`LinkFails`, `JITEngine.cpp:262`);
- a bridge that calls a Clojure function is removed while the function runs
  (`InnerFlush`), against the assumption of the comment at
  `InstanceCallStub.cpp:67-71`.

### Proofs

`InlineCacheProofs` proves `FreshCode`, `NoModuleLost` and that a module name has
one compilation at a time (`OneCompilation`), for every number of callers, types
and compilations, with failing links and flushing bridges or without.

`FreshCode` speaks of the callers that run a bridge; to be inductive it needs what
the slot holds (`Sound`: a finished bridge, and one for the loaded classes if the
epoch in the key is current), what a caller has loaded from it or is about to store
(`CallSound`), and that a compilation that is still going on was begun for the
classes that are loaded (`FreshBuilds`). That one is kept by a load of classes
because someone waits for every such compilation (`Awaited`) and classes are loaded
while nobody calls. `NoModuleLost` follows from `Tracked`: exactly the module in
`moduleTrackers` is loaded and not retired.


## Life of the threads (`Lifecycle`, `LifecycleProofs`)

From the constructor of `JITEngine` to the end of `Ebr_shutdown`: the pool
workers, the reclaimer and main register (`RegisterCount`, `RegisterScan`,
`RegisterNew`: the scan for a terminated `ThreadState` goes cell by cell), run
tasks inside critical sections, and leave (`UnregisterCount`, two stores). Main
enqueues tasks, stops and joins the pool, leaves its section, waits in
`Ebr_force_reclaim` until two threads are counted, synchronizes until nothing is
pending, unregisters, and shuts the reclaimer down. The reclaimer waits on a
condition variable without looking at any condition, so that a signal is lost
when it is not waiting (`Wake`). Epochs are kept relative to the global one: a
section lags by 0 or 1, and an object goes at age 2; that this is all there is
to know is `EpochLag` of `Ebr`. The two pools are one.

Run `lifecycle` (two workers, two tasks; a worker may be so late that it takes
over the slot of one that has left): `OneOwner`, `NoUseAfterFree`,
`AllReleased`, and `ShutdownEnds` under weak fairness of every
thread; main's tasks are finite. Deadlock is not checked separately: the system
stops after shutdown, and stopping before it violates `ShutdownEnds`. Spurious wakeups, which pthread_cond_wait permits, only add
synchronizations and are left out.

### Proofs

`LifecycleProofs` proves `OneOwner`, `NoUseAfterFree` and `AllReleased` for every
number of workers and tasks. The assumptions are that the threads are different and
that there is a worker, as the constructor of `JITEngine` gives a pool one at least.

`LifecycleInv` adds that a thread has a `ThreadState` exactly between its
registration and its unregistration, and that this one is not marked as terminated
(`Owned`): the mark is what a take-over looks for and changes in the same step, so
no two threads can get one. `ShutdownOrder` relates the steps of main to those of
the others: workers leave when the pool has stopped and the queue is empty, main
goes on when they have left, and frees when the reclaimer has left. `TasksKept` says
that a task that was enqueued and has not run is in the queue or with the worker that
took it. At the end all three leave no place for a task or its garbage.

## Persistent vectors (`Cells`, `Heap`, `VectorOps`, `Vector`)

`Cells` has objects with a count and the references they own, how they are created
and retained. Values are integers: addresses, boxed values, nil and null. `Release`
of `Heap` destroys an object with its last reference and goes on to what it owned. One thread works alone here, so a count
is a plain number; `RefCount` has the modes and the races.

`VectorOps` translates `PersistentVector.c` and `PersistentVectorNode.c` function
by function: `conj`, `assoc`, `pop` with the tree operations under them
(`pushTail`, `replacePath`, `popTail`), their transient forms,
`withMeta`, `transient`, `persistent!`, `createMany`, the look-ups, `equals`,
`hash` and `reduce`. Each of them consumes its vector and updates it in place if
it has the only reference. `Vector` is a program with two variables that calls
them, on a vector that it gives away or also keeps (`Passed`).

Run `vector` (two slots per node, created lengths 0, 2, 5 and 10, at most 11
elements, four calls): eleven elements need three levels, ten fill the second
one, five leave a tail over a full tree, two fill the tail. Four calls are enough
to share a vector, change one holder's version, change it again and read the
other's.

- `CallsAreRight`: every result has the elements it should have, by index and by
  walking; every answer is right at both ends of the range; equality depends on
  elements only, which relies on one shape of tree per length.
- `CountsCover`: no object has fewer counts than references, those of metadata
  included, be it a boxed value or an object. One thing is left out: where `conj`,
  `assoc` and `pop` may not change a vector they copy it with memcpy and do not
  retain its metadata (`PersistentVector.c:193`, `209`, `274`, `659`), which is then
  freed too early. The guard `CopiesMeta` keeps the program from such a call on a
  vector whose metadata is an object. Counts are not exact:
  the code leaks some nodes (below).
- `SmallVectorsPersist`: a vector that does not fill its tail (fewer than
  `RRB_BRANCHING` elements) keeps its elements whatever is done to others. `Persistent` states this of all vectors; the code does not keep
  it (below).
- `TransientIsolated`: a transient changes no other vector.

## Collections, texts, scopes, functions, namespaces (`Collections`)

`CollectionOps`, `TextOps`, `BindingOps`, `FunctionOps` and `NamespaceOps` are
the C functions on heaps; `Collections` is a program with two variables that
calls them. `want` remembers what each variable's value should be, `got` the last
answer and the right one, `lost` the references that the code is known to forget
(an address) or to release twice (its negative). To keep the run short the
program works on one family of values at a time, and a read comes last for its
variable.

- Collections: lists, array maps (with room for two entries, so that the full map
  throws), vectors of up to six elements, chunked and reverse sequences, chunks.
- Texts: static, dynamic and compound strings, builders, symbols. A compound string
  with an empty piece is concatenated and compacted but neither iterated nor
  compared.
- Scopes: `RT_bind`, `RT_bind_map`, clones, `deref`, `set!`, with three dynamic
  Vars and one that is not.
- Functions: methods of fixed and variable arity with captured values, called at
  two call sites whose slots own the callee they saw last; calls of keywords, maps
  and vectors; the list of further arguments; metadata.
- Namespaces: the register with `user` and `clojure.core`, intern, refer, unmap,
  aliases, `getOrCreateVar`, `getCurrentVar`, `registerVar` and
  `initializeDefaultNamespaces`. Equal symbols are one object. A call that
  `Namespace_reference` would refuse, and a look-up that would free
  `clojure.core`, are guarded away (below).

Run `collections` (five calls, four on texts, two before a collection is called as
a function; lengths 0, 1 and 5):

- `CollectionsPersist`: what a variable has keeps its elements, entries, text,
  bindings or methods, whatever is done with what it was made from. One call is
  left out: `PersistentVectorChunkedSeq_reduce2` moves the sequence on in place even if
  others have it (`PersistentVectorChunkedSeq.c:222`); the program makes it only on a
  sequence of its own or an empty one.
- `AnswersAreRight`: every answer, every series of elements that a reducing
  function is given, every callee and its arguments are right; values are equal
  exactly if their contents are, and then their hashes are equal too.
- `CountsAreExact`: each object has as many counts as references, but for `lost`.
- `BlockIsCurrent`: the block that a sequence remembers without owning it is the
  one its position lies in.

In both runs deadlock is not checked: the calls are counted (`MaxOps`).

## Arithmetic (`NumberOps`, `ValueEncoding`, `Arithmetic`, `ArithmeticProofs`)

`NumberOps` translates the runtime's numbers. `Half` of the integers are
negative (2^31 in the code) and a C long has twice the bits of an integer, numbers
are fractions, doubles are a coarse set of fractions with infinities and NaN, and
gmp is exact. Operations on big integers
and ratios write into an operand that nobody else has (`IntoReusable`).

`ValueEncoding` has the words that hold values: a tag of 16 bits and what is below
it. A double is stored as it is, so that its first bits must not look like a tag;
the NaN of an invalid operation does, and is replaced when it is packed
(`RT_boxDouble`). Operands go from the variables of the program through the packing,
the tests and the unpacking of the overload that is called.

`Arithmetic` compiles and runs a call: the overload that `StaticCallNode.cpp`
chooses from the class table and what is known of each operand (nothing, its type,
its value), the tests of types at run time, or the general function; the code of
the intrinsic; and the constant that the compiler computes itself.

Run `arithmetic` (`Half` = 4; integers -4, 0 and 3, a double, two big integers, a
ratio, a string, a keyword and nil; two calls in a row, numbers up to 300): every pair of operand
types at every degree of knowledge, with operands on both sides of each overflow
boundary; the second call is on the result of the first.

- `AnswersAreRight`: the exact or rounded answer, an exception exactly when one is
  due, and no integer left in a ratio, whichever overload was chosen.
- `NumbersAreIntact`: no number that is still named changes, and each operand is
  consumed once on every path.
- `StaticsAgree`: the type and the constant that the compiler computed are true.

Calls that the code is known to get wrong (`Mishandled`) are excluded with
`Defects = FALSE`; they are listed below.

### Proofs

`ArithmeticProofs` proves the three properties for every width of integers
(`Half` > 1), every bound on the size of numbers (`MaxNum`) and of calls
(`MaxOps`), any finite set of variables, any initial integers within the width, big
integers, doubles and ratios that are not whole (`OperandsAssumption`), and any heap with room for the values that the variables
name, the constants of the module and the temporaries of one call
(`MemoryAssumption`: the code does not look for failures of allocation). The
hypothesis `Defects = FALSE`, the setting of the run, excludes the calls of
`Mishandled`; with them the properties are false. What doubles there are is not a
parameter: the theorems are about the coarse set of `NumberOps`.

None of the properties is inductive: that an answer is right rests on the operands
being the numbers that the program means and on nobody else having the object
that the result is written into. `ArithmeticInv` has:

- `HeapInv`: a cell is free, or has a big integer with denominator 1, a ratio with a
  positive one, or a string; its count is the number of variables that name it and
  one more for a constant of the module;
- `ValueInv` of every variable: an integer within its width, a double, or a pointer
  to a cell in use, with the value that the program should have, and no whole number
  in a ratio;
- that there are at most as many constants as variables, so that memory suffices;
- `LastInv`: what the last call gave is what it should have given, and its type and
  constant are true.

The argument goes up in the order of the code:

1. `gcd` is a recursive function over all pairs of integers, so that it must first
   be shown to exist: partial solutions up to any bound exist and agree
   (`SolutionsExtend`, `SolutionsAgree`). Every step is an induction stated by the
   smallest counterexample (`SmallestOf`, from the well-foundedness of the natural
   numbers), which needs no operator as a parameter. Then `gcd` divides both
   numbers and no greater number does, and `Frac` gives lowest terms.
2. Every operation of the runtime `Consumes` its operands: the counts of all other
   cells are as before, those of the operands are lower by the references
   given away, and what is still named is unchanged. The writing of a result into
   an operand (`IntoReusable`) is right because a count of one leaves nobody
   else.
3. Each overload `Yields` the answer of the operation: the integer ones unless they
   overflow, the mixed ones through their conversions, the general function by the
   types it finds.
4. Packing and unpacking are inverse (`ReadBack`, `Packed`), for which the double of
   an invalid operation has to be replaced as `RT_boxDouble` does.
5. The overload that is called fits the operands, whether the compiler knew
   (`PossibleFits`) or the tests at run time chose (`HitsFit`, `TestedFirst`). What
   the compiler folds is the answer (`FoldRight`, `FoldedRight`).
6. A call passes a reference for each argument, has room for what it allocates
   (`EnoughRoom`) and replaces the variable's value (`ReturnedRight`): `CallStep`
   and `MathStep`.

TLC has checked `ArithmeticInv` on the instance of the run, too.

## Ownership in compiled code (`OwnershipPass`, `CodeGen`, `CompiledCode`)

Every call of compiled code consumes its arguments. `OwnershipPass` is
`memory-management-pass` of `passes.clj`: which variables to retain or release
before a node (`:drop-memory`), and which to release when it throws
(`:unwind-memory`), with the assertions of the pass. `CodeGen` translates each
kind of node: what it evaluates, protects (`CleanupChainGuard`), calls and
releases; the chain of releasing blocks, landing pads and their cache
(`MemoryManagement.cpp`); calls of functions, Vars, keywords, maps and vectors
with their slots; top-level forms; the bridges of instance calls; and what
`getType` knows of a test, on which `IfNode` drops branches. Types in the program
are never restricted (`ObjectTypeSet::all()` is what every caller passes down), so
the paths for a branch of impossible type are not there. `CompiledCode` runs the
result once; every call may return or throw.

Run `compiled_code`: every function of two parameters whose body is one operation
on another (about thirteen thousand, with captured variables, inner functions,
recur and constants of every kind), every closed expression at the top level, and
two bridges.

- `NoUseAfterFree`: no freed object is retained or released.
- `ReturnsBalanced`, `UnwindsBalanced`: when the function returns, or leaves with
  an exception from whichever call, each object has exactly the references that
  are left.
- `TestsDecide`: a branch that was dropped is one that no value of the test
  selects.

Depth two is where one node's guidance meets another's guard; deeper bodies repeat
it. `Regular` leaves out what the pass and the generator are known to get wrong,
listed below. Deadlock is not checked because a function ends.

## Classes (`ObjectTypeSet`, `ClassDescription`, `ClassRegistry`)

At the start a file of protocols, one of classes and one of extensions are loaded.
`ClassDescription` is the parser: numbering, names, signatures, overloads and
merging, with every check that throws. `ClassRegistry` creates hulls, links
parents, registers, validates implementations and extends, with what the handlers
of `ThreadsafeCompilerState.cpp` give back when a step throws; then compiled code
resolves instance calls.

Run `classes`: each combination of five protocol files, some seventy class files
and seventeen extension files, legal or not.

- `CountsAreExact`: references have one owner on error paths too; `lost` has what
  the code forgets.
- `ProtocolsAreKept`: a class that was accepted is an instance of its protocols and
  answers their methods, whatever extensions are loaded later.
- `ExtensionsAdd`: an extension changes neither the overload that an existing call
  goes to nor the index of a static field.

Deadlock is not checked: a load that fails ends the program.

## What is proved and what is only checked

Proved with TLAPS for all values of the constants, each along the inductive
invariant that its section describes:

| Module | Theorems that state a property of a run | Others |
|---|---|---|
| `EbrProofs` | `IndInv`, `NoUseAfterReclaim`, refinement of `GracePeriod` | `TypeOK`, `EpochLag` |
| `RefCountProofs` | `CountsAreExact`, `NoDangling`, `LocalMeansExclusive`, `InPlaceUnseen` (all for `CoveredSpec`: no shallow promotion leaves a local object behind) | `RefCountInv`, `NothingLeaks` |
| `NamespaceProofs` | `NoLostUpdate`, `KeptUntilRemoved`, `CanonicalUnlessReferred` | `NamespaceInv` |
| `ConcurrentHashMapProofs` | `AwaitedKeysCome`, refinement of `ConcurrentMap` | `TableInvariant`, `OneCell`, `Kept` |
| `KeywordProofs` | `KeywordInv`, `Interned` | `NoOrphans`, `Printable` |
| `InlineCacheProofs` | `FreshCode`, `NoModuleLost` | `ICInv`, `OneCompilation` |
| `LifecycleProofs` | `OneOwner`, `NoUseAfterFree`, `AllReleased` | `LifecycleInv` |
| `ArithmeticProofs` | `AnswersAreRight`, `NumbersAreIntact`, `StaticsAgree` (all for `Defects = FALSE`) | `ArithmeticInv` |

Each of these modules' type invariants is part of its inductive invariant and so
is proved with it. Constants have the named `ASSUME`s of their modules, which TLC
evaluates in the runs: sets that must not overlap, bounds that are numbers, at
least one thread.

Only checked by TLC, on the instances named above:

- liveness: `Reclamation` of `Ebr`, `CallsEnd` of `InlineCache`, `ShutdownEnds` of
  `Lifecycle`. They rest on fairness and enabledness, which the prover does not
  reason about;
- all that rests on RECURSIVE operators: `Vector`, `Collections`, `CompiledCode` and
  `ClassRegistry`, whose properties are about what releases, trees, translations and
  descriptions compute. The one recursion that is proved about is `gcd`, a recursive
  function on numbers, by the smallest counterexample; a release that follows the
  references of a heap, or the translation of a tree, has no such measure in the
  prover's reach.

## Seen in the code while modelling, without a run

The models have these where they can be run and the runs keep away from them by
the guards and constants named above.

Vectors and collections:
- `replacePath` and `pushTail` compare `self->transientID == vectorTransientID`,
  which is 0 = 0 for persistent vectors: shared nodes are updated in place
  (`PersistentVectorNode.c:93`), against the comment at `PersistentVector.c:281`.
- The tail path of `assoc` leaks the old tail, `replacePath` the replaced root or
  child; `conj`, `assoc` and `pop` of a shared vector copy the metadata without a
  retain (`PersistentVector.c:193`, `209`, `274`, `659`). Vectors built by a transient keep nodes with a transient id, which
  `promoteToShared` refuses; it does not promote metadata
  (`PersistentVector.c:133-142`).
- `PersistentList_createMany` reverses in place and rewires the empty list; `first`
  of an empty list is the null marker; `PersistentList_hash` is exponential.
- `PersistentArrayMap_withMeta` leaks a shared map; `createMany` keeps duplicate
  keys and leaks on a throw; `equals` takes a missing key for nil.
- `PersistentVectorChunkedSeq_reduce2` advances a shared sequence in place
  (`PersistentVectorChunkedSeq.c:222`).
- `String_iteratorNext` underflows for an empty piece; `String_replace` leaves the
  hash unset and runs out of an empty string.
- `RT_bind_map` leaks the map of bindings when the new map is full.

Functions and namespaces:
- `Keyword_invoke` takes a found nil for absence. `RT_invokeMethodWithFrame`
  releases arguments that compiled code has consumed.
- The second loop of `Namespace_intern`, for a symbol that refers to a value from
  elsewhere, does not look the symbol up again when its swap fails
  (`Namespace.c:287`): two threads that intern such a symbol each store and return a
  Var of their own, although the table above `Namespace_checkReplacement` does not let
  a native mapping be replaced. `CanonicalUnlessReferred` leaves such symbols out.
- `getCurrentVar` releases `clojure.core` once too often when it falls back on it
  (`ThreadsafeCompilerState.cpp:563-564`, `600-601`).
- `Namespace_reference` releases `self`, `sym`, `val` and the old mapping twice when
  it refuses to replace an interned Var (`Namespace.c:408-415`), although it
  "Consumes `self`, `sym`, and `val` arguments" (`Namespace.c:361`). A full map makes
  `Namespace_intern`, `Namespace_reference` and `Namespace_addAlias` forget what they hold.
- `Keyword_create` does not release its string when one of its maps throws
  (`Keyword.c:36-40`).

Compiler:
- A branch is chosen wrongly for `(if (:k 5) a b)`, whose test is nil
  (`IfNode.cpp:139`), and for `(if (if c true (f)) a b)`, where the join keeps the
  constant (`ObjectTypeSet.h:167`).
- `throw`, `instance?` and host interop keep a consumed variable on the unwind list;
  an unused let name before another binding is never dropped; `with-meta` and `def`
  disagree with the pass on the order of the metadata; the Var of a `def` whose
  value throws, and the captured variables of a function that throws, leak; a bridge
  that finds no overload leaks its arguments (`CodeGen.cpp:208`).
- `new` with constructors chosen at run time gives back a packed value under a type
  that says it is not packed (`NewNode.cpp:192`).
- `memory_management_test.clj:38-49` describes that the first user owns a variable;
  the code gives it to the last.

Arithmetic: `Integer_div` leaves a negative denominator; the smallest integer
divided by -1; `Mul_DB` converts the wrong operand (`InvokeManager_Math.cpp:666`);
a division by zero in `Div_RI` and `Div_RB` releases the operands twice; folds of
`Add`, `Sub` and `Mul` wrap where the program throws; equality of numbers of
different types depends on what is known statically; `Numbers_log10` computes a power.

Classes: numbers of classes without `:object-type` start at 1000 in every file, so
that protocols and classes share them; a failure while linking leaks the list in
hand; validation comes after registration; an extension advances no epoch and is not
validated; a call looks into one block although validation accepts methods from any;
`ClassExtension_setIndexedStaticField` returns its value without a retain; a cycle of
`:extends` recurses for ever.

Reference counts: promotion marks symbols, reverse sequences, compound strings,
string builders, execution contexts and exceptions without what they refer to
(`Object.h:524`), and vectors and lists without their metadata
(`PersistentVector.c:133`, `PersistentList.c:226`); a second thread then counts a local
object, a symbol's name for instance (`Symbol.c:83`). The run and the theorems are
about behaviours in which that does not happen (`PromotionsCover`). `threadsafeState`, `activeCompilations` and
`moduleTrackers` are declared after the pools and destroyed before them
(`JITEngine.h:85`).

## What is not modelled

Load-load reordering as on ARM; the wrap-around of the 32-bit epoch; failures of
memory allocation (the code does not look for them); stack traces and exception
texts (`Exceptions.cpp`), which format and look symbols up; LLVM's types and the
optimisation of modules; the frontend's other passes and
the bytecode, a sequential rewriting and an encoding of the tree; the command
line; printing. `src/examples/utf8proc` (about eighteen thousand lines, vendored)
and the generated `bytecode.cljc` are not part of the program's own logic.
`PROJECT.json` gives a reason for each part.
