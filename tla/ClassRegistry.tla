--------------------------- MODULE ClassRegistry ---------------------------
(***************************************************************************)
(* The classes and protocols of the program                                *)
(* (backend/state/ThreadsafeCompilerState.cpp, runtime/Class.c): the start *)
(* of the program loads a file of protocols, one of classes and one of     *)
(* extensions; an exception ends the program.  Compiled code then resolves *)
(* calls of instance methods against what was loaded.                      *)
(*                                                                         *)
(* A class is an object of the heap.  It owns its superclasses, the        *)
(* protocols it implements, its description's parent and the values and    *)
(* functions of the description.                                           *)
(***************************************************************************)
EXTENDS ClassDescription

CONSTANTS ProtocolFiles, ClassFiles, ExtensionFiles,  \* what may be loaded
          Probes,       \* argument types that calls are made with
          MaxLost       \* bound on forgotten references

ASSUME ClassRegistryAssumption == MaxLost \in Nat

VARIABLES heap,
          classRegistry,      \* byName and byId
          protocolRegistry,
          varRoots,           \* functions that extensions bound to Vars
          phase,              \* what is loaded next, "running" or "down"
          validated,          \* history: <<class, protocol>> that was checked
          lost                \* history: references that no one will release

vars == <<heap, classRegistry, protocolRegistry, varRoots, phase, validated, lost>>

(* A boxed value that files refer to, and a function; the runtime keeps    *)
(* one reference to each.                                                  *)
Item == 1
Fn == 2

NoEntries == [key \in {} |-> Null]
EmptyRegistry == [byName |-> NoEntries, byId |-> NoEntries]

Init ==
  /\ heap = Alloc(Alloc(EmptyHeap, "item", <<>>, <<>>).h, "fn", <<>>, <<>>).h
  /\ classRegistry = EmptyRegistry /\ protocolRegistry = EmptyRegistry
  /\ varRoots = NoEntries /\ phase = "protocols"
  /\ validated = {} /\ lost = <<>>

-----------------------------------------------------------------------------
(* Classes on the heap.                                                    *)
Class(h, a) == h[a].info

Kids(c) == c.supers \o c.protocols \o <<c.extends>> \o Owned(c.desc)

Update(h, a, c) == [h EXCEPT ![a].info = c, ![a].kids = Kids(c)]

(* Class_create and Class_createProtocol, for a description that becomes   *)
(* the compiler extension.                                                 *)
Class_create(h, desc) ==
  LET c == [name |-> desc.name, registerId |-> determinedType(desc.type), desc |-> desc,
            supers |-> <<>>, protocols |-> <<>>, extends |-> Null]
  IN  Alloc(RetainAll(h, Owned(desc)), "class", Kids(c), c)

RECURSIVE Class_isInstance(_, _, _)
Class_isInstance(h, current, target) ==
  LET c == Class(h, target) IN
  \/ Class(h, current).registerId \in {c.registerId, objectRootType}
  \/ \E i \in DOMAIN c.supers : Class_isInstance(h, current, c.supers[i])
  \/ \E i \in DOMAIN c.protocols : Class_isInstance(h, current, c.protocols[i])

(* Class_addProtocol swaps in a longer list and retires the old one.       *)
Class_addProtocol(h, a, proto) ==
  Update(Retain(h, proto), a, [Class(h, a) EXCEPT !.protocols = Append(@, proto)])

(* ThreadsafeRegistry.                                                     *)
Put(f, key, a) == [k \in DOMAIN f \cup {key} |-> IF k = key THEN a ELSE f[k]]
Get(f, key) == IF key \in DOMAIN f THEN f[key] ELSE Null

registerObject(h, reg, a) ==
  LET c == Class(h, a)
  IN  [h |-> ReleaseAll(RetainAll(h, <<a, a>>),
                        <<Get(reg.byName, c.name), Get(reg.byId, c.registerId)>>),
       reg |-> [byName |-> Put(reg.byName, c.name, a), byId |-> Put(reg.byId, c.registerId, a)]]

RetainEntries(h, f) == FoldFunction(LAMBDA v, g : Retain(g, v), h, f)
ReleaseEntries(h, f) == FoldFunction(LAMBDA v, g : Release(g, v), h, f)

Destroyed(h, reg) == ReleaseEntries(ReleaseEntries(h, reg.byName), reg.byId)

-----------------------------------------------------------------------------
(* Loading a file.                                                         *)

(* buildClasses throws on the first description with an error in it.  The  *)
(* constructor does not release the static fields it has read by then.     *)
BuildFails(built) ==
  built.duplicateIds \/ \E k \in DOMAIN built.descs : built.descs[k].bad

Forgotten(built, desc) ==
  IF built.duplicateIds \/ desc.badEarly THEN <<>>
  ELSE [k \in DOMAIN desc.staticFields |-> desc.staticFields[k].value]

(* Phase 1: a hull for every class.  Result: the heap, and the hulls by    *)
(* name.                                                                   *)
Hulls(h, built) ==
  LET add(s, desc, new) == [h |-> new.h, local |-> Put(s.local, desc.name, new.r)]
      step(s, desc) == add(s, desc, Class_create(s.h, desc))
  IN  FoldLeft(step, [h |-> h, local |-> NoEntries], built.descs)

(* Phase 2: parents are looked up in the file, then in the registry of the *)
(* same kind, then in the other one.                                       *)
ParentOf(local, first, second, name) ==
  IF name \in DOMAIN local THEN local[name]
  ELSE IF name \in DOMAIN first.byName THEN first.byName[name]
  ELSE Get(second.byName, name)

Parents(h, local, first, second, a) ==
  LET names == Class(h, a).desc.parents
  IN  [i \in DOMAIN names |-> ParentOf(local, first, second, names[i])]

\* Mutant: the parent that the description keeps is not counted.
LinkUncounted(h, a, parents) ==
  IF parents = <<>> THEN h
  ELSE Update(RetainAll(h, parents), a,
              [Class(h, a) EXCEPT !.supers = parents, !.extends = parents[1]])

Link(h, a, parents) ==
  IF parents = <<>> THEN h
  ELSE Update(RetainAll(h, parents \o <<parents[1]>>), a,
              [Class(h, a) EXCEPT !.supers = parents, !.extends = parents[1]])

LinkAll(hulls, names, first, second) ==
  LET link(n, h) == Link(h, hulls.local[n], Parents(h, hulls.local, first, second, hulls.local[n]))
  IN  FoldSet(link, hulls.h, names)

(* The parents found before the first one that is missing stay retained in *)
(* a list that no class owns.                                              *)
Found(parents) == SubSeq(parents, 1, SelectInSeq(parents, LAMBDA p : p = Null) - 1)

LinkPartly(h, a, found) ==
  IF found = <<>> THEN h
  ELSE Update(RetainAll(h, found \o <<found[1]>>), a, [Class(h, a) EXCEPT !.extends = found[1]])

(* Phase 3: registration in both maps; the load's own reference goes.      *)
RegisterAll(h, reg, local) ==
  LET taken(r, a) == [r EXCEPT !.h = Release(@, a)]
      step(a, s) == taken(registerObject(s.h, s.reg, a), a)
  IN  FoldFunction(step, [h |-> h, reg |-> reg], local)

(* Phase 4: the protocols of :implements that are known.                   *)
Implemented(desc) ==
  LET names == SetToSeq(DOMAIN desc.implements \cap DOMAIN protocolRegistry.byName)
  IN  [i \in DOMAIN names |-> protocolRegistry.byName[names[i]]]

LinkProtocols(a, h) ==
  LET link(ps) == Update(RetainAll(h, ps), a, [Class(h, a) EXCEPT !.protocols = ps])
  IN  link(Implemented(Class(h, a).desc))

-----------------------------------------------------------------------------
(* validateProtocolImplementations.                                        *)
RECURSIVE Hierarchy(_, _)
Hierarchy(h, a) == {a} \cup UNION {Hierarchy(h, p) : p \in Range(Class(h, a).supers)}

(* The methods of a protocol and its parents, by name.                     *)
requiredMethods(h, proto) ==
  UNION {LET fns == Class(h, p).desc.instanceFns
         IN  UNION {{<<name, fn>> : fn \in Range(fns[name])} : name \in DOMAIN fns} :
         p \in Hierarchy(h, proto)}

(* The implementations of a method in all the blocks of a class.           *)
allImpls(desc, name) ==
  UNION {Range(desc.implements[p][name]) :
         p \in {q \in DOMAIN desc.implements : name \in DOMAIN desc.implements[q]}}

\* Mutant: one arity of a method is enough.
signatureMatchesAny(protoFn, implFn) == TRUE

signatureMatches(protoFn, implFn) ==
  /\ Len(implFn.argTypes) = Len(protoFn.argTypes)
  /\ \A k \in DOMAIN protoFn.argTypes :
       \/ k = 1 /\ protoFn.isInstance /\ implFn.isInstance
       \/ Same(protoFn.argTypes[k], dynamicType)
       \/ Same(protoFn.argTypes[k], implFn.argTypes[k])

Valid(h, desc) ==
  \A p \in DOMAIN desc.implements \cap DOMAIN protocolRegistry.byName :
    LET required == requiredMethods(h, protocolRegistry.byName[p])
        methods == desc.implements[p]
    IN  /\ \A m \in required : \E fn \in allImpls(desc, m[1]) : signatureMatches(m[2], fn)
        /\ \A name \in DOMAIN methods :
             /\ \E m \in required : m[1] = name
             /\ name \in DOMAIN desc.instanceFns =>
                  \A fn \in Range(methods[name]), own \in Range(desc.instanceFns[name]) :
                    Len(fn.argTypes) # Len(own.argTypes)

-----------------------------------------------------------------------------
(* An exception leaves main: the engine and its registries are destroyed.  *)
End(h) ==
  /\ heap' = ReleaseEntries(Destroyed(Destroyed(h, protocolRegistry), classRegistry), varRoots)
  /\ classRegistry' = EmptyRegistry /\ protocolRegistry' = EmptyRegistry
  /\ varRoots' = NoEntries /\ phase' = "down" /\ validated' = {}

(* What buildClasses does to a file with an error in it; `kept' is what    *)
(* its caller then forgets.                                                *)
Reject(built, kept) ==
  /\ BuildFails(built)
  /\ \E desc \in {d \in Range(built.descs) : built.duplicateIds \/ d.bad} :
       /\ End(RetainAll(heap, Forgotten(built, desc) \o kept))
       /\ lost' = lost \o Forgotten(built, desc) \o kept

(* Phase 2 reaches a class with an unknown parent, after it has linked     *)
(* some of the others.                                                     *)
Unlinkable(hulls, first, second) ==
  {n \in DOMAIN hulls.local :
     Null \in Range(Parents(hulls.h, hulls.local, first, second, hulls.local[n]))}

LinkFails(hulls, first, second) ==
  \E n \in Unlinkable(hulls, first, second) :
    \E found \in {Found(Parents(hulls.h, hulls.local, first, second, hulls.local[n]))},
       linked \in SUBSET (DOMAIN hulls.local \ Unlinkable(hulls, first, second)) :
      /\ End(ReleaseEntries(LinkPartly(LinkAll(hulls, linked, first, second), hulls.local[n],
                                       found), hulls.local))
      /\ lost' = lost \o found

Linked(hulls, first, second) ==
  [hulls EXCEPT !.h = LinkAll(hulls, DOMAIN hulls.local, first, second)]

storeInternalProtocols(built) ==
  /\ phase = "protocols"
  /\ \/ Reject(built, <<>>)
     \/ /\ ~BuildFails(built)
        /\ \E hulls \in {Hulls(heap, built)} :
             \/ LinkFails(hulls, protocolRegistry, classRegistry)
             \/ /\ Unlinkable(hulls, protocolRegistry, classRegistry) = {}
                /\ \E done \in {RegisterAll(Linked(hulls, protocolRegistry, classRegistry).h,
                                            protocolRegistry, hulls.local)} :
                     heap' = done.h /\ protocolRegistry' = done.reg
                /\ phase' = "classes" /\ UNCHANGED <<classRegistry, varRoots, validated, lost>>

(* The classes are registered before the implementations are checked, and  *)
(* in the registry when a class that is not as it should be ends the       *)
(* program.                                                                *)
Accept(h, reg, classes) ==
  \/ /\ \A a \in classes : Valid(h, Class(h, a).desc)
     /\ heap' = h /\ classRegistry' = reg
     /\ validated' = UNION {{a} \X Range(Class(h, a).protocols) : a \in classes}
     /\ phase' = "extensions" /\ UNCHANGED <<protocolRegistry, varRoots>>
  \/ /\ \E a \in classes : ~Valid(h, Class(h, a).desc)
     /\ heap' = Destroyed(Destroyed(h, protocolRegistry), reg)
     /\ classRegistry' = EmptyRegistry /\ protocolRegistry' = EmptyRegistry
     /\ phase' = "down" /\ UNCHANGED <<varRoots, validated>>

storeInternalClasses(built) ==
  /\ phase = "classes"
  /\ \/ Reject(built, <<>>)
     \/ /\ ~BuildFails(built)
        /\ \E hulls \in {Hulls(heap, built)} :
             \/ LinkFails(hulls, classRegistry, protocolRegistry)
             \/ /\ Unlinkable(hulls, classRegistry, protocolRegistry) = {}
                /\ \E done \in {RegisterAll(Linked(hulls, classRegistry, protocolRegistry).h,
                                            classRegistry, hulls.local)} :
                     Accept(FoldSet(LinkProtocols, done.h, Range(hulls.local)), done.reg,
                            Range(hulls.local))
                /\ UNCHANGED lost

(* extendInternalClasses: descriptions are merged into those of the class  *)
(* of the name, if there is one, and all its protocols are added again.    *)
Extended(h, a, c, new) ==
  FoldLeft(LAMBDA g, p : Class_addProtocol(g, a, p),
           Update(ReleaseAll(RetainAll(h, Owned(new)), Owned(c.desc)), a, [c EXCEPT !.desc = new]),
           Implemented(new))

Extend(h, desc) ==
  LET to(a, c) == Extended(h, a, c, merge(c.desc, desc))
      class(a) == to(a, Class(h, a))
  IN  IF desc.name \in DOMAIN classRegistry.byName THEN class(classRegistry.byName[desc.name])
      ELSE h

(* Of the functions that a file of extensions binds to Vars, phase 5.      *)
Replaced(defs) == [n \in DOMAIN defs |-> Get(varRoots, n)]

BindVars(h, defs) == ReleaseEntries(RetainEntries(h, defs), Replaced(defs))

(* The file was retained for phase 5, and an exception leaks it.           *)
extendInternalClasses(built, defs) ==
  /\ phase = "extensions"
  /\ \/ Reject(built, built.values \o [i \in 1 .. Cardinality(DOMAIN defs) |-> Fn])
     \/ /\ ~BuildFails(built)
        /\ heap' = BindVars(FoldLeft(Extend, heap, built.descs), defs)
        /\ varRoots' = [n \in DOMAIN varRoots \cup DOMAIN defs |->
                          IF n \in DOMAIN defs THEN defs[n] ELSE varRoots[n]]
        /\ phase' = "running"
        /\ UNCHANGED <<classRegistry, protocolRegistry, validated, lost>>

-----------------------------------------------------------------------------
(* Resolving a call.                                                       *)

(* The overloads of a method, as generateDeterminedInstanceCall finds      *)
(* them: the class's own ones, then those of one block of :implements, the *)
(* first in hash order, then the parent's.                                 *)
RECURSIVE Versions(_, _)
Versions(a, method) ==
  LET d == Class(heap, a).desc
      blocks == {p \in DOMAIN d.implements : method \in DOMAIN d.implements[p]}
  IN  IF method \in DOMAIN d.instanceFns THEN {d.instanceFns[method]}
      ELSE IF blocks # {} THEN {d.implements[p][method] : p \in blocks}
      ELSE IF d.parentName \in DOMAIN classRegistry.byName \ {d.name}
           THEN Versions(classRegistry.byName[d.parentName], method)
      ELSE {}

staticallyPossible(fn, args) ==
  /\ Len(fn.argTypes) = Len(args)
  /\ \A i \in DOMAIN args : ~isEmpty(restriction(args[i], fn.argTypes[i]))

(* With types that are all known the first overload that fits is called.   *)
bestMatch(versions, args) ==
  SelectInSeq(versions, LAMBDA fn : staticallyPossible(fn, args))

(* predictInstanceCallType keeps a reference to the class unless all the   *)
(* types are known.                                                        *)
predictInstanceCallType(a, method, args) ==
  /\ phase = "running" /\ Len(lost) < MaxLost
  /\ method \in DOMAIN Class(heap, a).desc.instanceFns
  /\ \E i \in DOMAIN args : ~isDetermined(args[i])
  /\ heap' = Retain(heap, a) /\ lost' = Append(lost, a)
  /\ UNCHANGED <<classRegistry, protocolRegistry, varRoots, phase, validated>>

(* ClassExtension_setIndexedStaticField takes the caller's reference.      *)
setIndexedStaticField(a, i, value) ==
  /\ phase = "running"
  /\ i \in DOMAIN Class(heap, a).desc.staticFields
  /\ heap' = Release(Update(Retain(heap, value), a,
                            [Class(heap, a) EXCEPT !.desc.staticFields[i].value = value]),
                     Class(heap, a).desc.staticFields[i].value)
  /\ UNCHANGED <<classRegistry, protocolRegistry, varRoots, phase, validated, lost>>

Shutdown == phase = "running" /\ End(heap) /\ UNCHANGED lost

Registered == Range(classRegistry.byName)

BuiltProtocols == {buildClasses(file) : file \in ProtocolFiles}
BuiltClasses == {buildClasses(file) : file \in ClassFiles}
BuiltExtensions == {buildClasses(file) : file \in ExtensionFiles}

Next ==
  \/ \E built \in BuiltProtocols : storeInternalProtocols(built)
  \/ \E built \in BuiltClasses : storeInternalClasses(built)
  \/ \E built \in BuiltExtensions, defs \in {NoEntries, [n \in {"f"} |-> Fn]} :
       extendInternalClasses(built, defs)
  \/ \E a \in Registered :
       \/ \E m \in DOMAIN Class(heap, a).desc.instanceFns, args \in Probes :
            predictInstanceCallType(a, m, args)
       \/ \E i \in 1 .. 2, v \in {Item, -1} : setIndexedStaticField(a, i, v)
  \/ Shutdown

Spec == Init /\ [][Next]_vars

-----------------------------------------------------------------------------
TypeOK ==
  /\ \A a \in Addr : heap[a].rc \in Nat
  /\ phase \in {"protocols", "classes", "extensions", "running", "down"}
  /\ lost \in Seq(Int) /\ validated \subseteq Addr \X Addr

(* Every reference has one owner, on the paths that end in an exception    *)
(* too: when the program is down, nothing is left but what the code        *)
(* forgets, and nothing was freed while a registry, a class or a compiled  *)
(* call still had it.                                                      *)
Owners(f, a) == Cardinality({k \in DOMAIN f : f[k] = a})

CountsAreExact ==
  LET refs == Refs(heap) \o lost \o <<Item, Fn>>
  IN  \A a \in Addr :
        heap[a].rc = Times(a, refs) + Owners(varRoots, a)
                     + Owners(classRegistry.byName, a) + Owners(classRegistry.byId, a)
                     + Owners(protocolRegistry.byName, a) + Owners(protocolRegistry.byId, a)

RECURSIVE Ancestors(_)
Ancestors(a) ==
  {a} \cup UNION {Ancestors(p) : p \in Range(Class(heap, a).supers \o Class(heap, a).protocols)}

(* A class whose file was accepted keeps its promises, whatever extensions *)
(* are loaded later: it is an instance of the protocols it implements and  *)
(* of their parents, of no class with a declared type that is not above    *)
(* it, and a call of each method of these protocols finds an overload with *)
(* the arguments that the protocol declares.  (A method that is in several *)
(* blocks, or also among the class's own methods, is looked up in one      *)
(* place only and can be missed.)                                          *)
ProtocolsAreKept ==
  /\ \A v \in validated :
       LET d == Class(heap, v[1]).desc IN
       /\ \A p \in Ancestors(v[2]) : Class_isInstance(heap, p, v[1])
       /\ \A m \in requiredMethods(heap, v[2]) :
            \/ m[1] \in DOMAIN d.instanceFns
            \/ Cardinality({p \in DOMAIN d.implements : m[1] \in DOMAIN d.implements[p]}) > 1
            \/ \A versions \in Versions(v[1], m[1]) :
                 bestMatch(versions, [m[2].argTypes EXCEPT ![1] = d.type]) # 0
  /\ \A a, c \in Registered :
       /\ Class(heap, c).registerId < FirstClassId
       /\ Class_isInstance(heap, c, a)
       => c \in Ancestors(a) \/ Class(heap, c).registerId = objectRootType

(* Extensions only add: a call whose argument types are known goes to the  *)
(* overload it went to before, unless the class now has a method of its    *)
(* own or a second block with the name, and a static field keeps the index *)
(* that was compiled into the code.                                        *)
ExtensionsAdd ==
  [][phase = "extensions" /\ phase' = "running" =>
       \A a \in Registered :
         LET old == Class(heap, a).desc
             new == Class(heap', a).desc
             same(o, n) == \A args \in Probes : (\A i \in DOMAIN args : isDetermined(args[i])) /\ bestMatch(o, args) # 0
                             => bestMatch(n, args) = bestMatch(o, args)
                                /\ n[bestMatch(n, args)] = o[bestMatch(o, args)]
         IN  /\ \A m \in DOMAIN old.instanceFns : same(old.instanceFns[m], new.instanceFns[m])
             /\ \A p \in DOMAIN old.implements : \A m \in DOMAIN old.implements[p] :
                  same(old.implements[p][m], new.implements[p][m])
             /\ \A i \in DOMAIN old.staticFields :
                  StaticFieldIndex(new, old.staticFields[i].name) = i]_vars
=============================================================================
