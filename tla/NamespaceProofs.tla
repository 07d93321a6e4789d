-------------------------- MODULE NamespaceProofs --------------------------
(***************************************************************************)
(* The updates of a namespace are correct for any number of threads,       *)
(* symbols and values: no update is lost, nothing is replaced that has to  *)
(* be kept, and a symbol that never referred to a foreign value has one    *)
(* Var.                                                                    *)
(*                                                                         *)
(* The argument is the one behind every compare-and-swap of Namespace.c:   *)
(* if the map is still the one that was loaded, what the caller has read   *)
(* in it is still true.                                                    *)
(***************************************************************************)
EXTENDS Namespace, FiniteSetTheorems, TLAPS

Labels == {"run", "intern", "intern_cas", "replace_cas", "reference",
           "reference_cas", "unmap", "unmap_cas", "alias", "alias_cas",
           "unalias", "unalias_cas"}
MappingCas == {"intern_cas", "replace_cas", "reference_cas", "unmap_cas"}
AliasSwaps == {"alias_cas", "unalias_cas"}

\* The arguments of the call in progress.
Arguments(t) ==
  /\ pc[t] # "run" => sym[t] \in Symbols
  /\ pc[t] \in {"intern_cas", "replace_cas"} => v[t] \in Vars
  /\ pc[t] \in {"reference", "reference_cas"} => val[t] \in Foreign
  /\ pc[t] \in {"alias", "alias_cas"} => val[t] \in Targets

\* A thread about to swap has a map that was there, and that is still there if
\* the version is the same.
LoadedMap(t) ==
  /\ pc[t] \in MappingCas =>
       /\ mapVal[t] \in Map(Values)
       /\ mapVal[t].ver <= mappings.ver
       /\ mapVal[t].ver = mappings.ver => mapVal[t] = mappings
  /\ pc[t] \in AliasSwaps =>
       /\ mapVal[t] \in Map(Targets)
       /\ mapVal[t].ver <= aliases.ver
       /\ mapVal[t].ver = aliases.ver => mapVal[t] = aliases

\* What the call has read in the map it loaded.
Checked(t) ==
  /\ pc[t] \in {"intern_cas", "alias_cas"} => mapVal[t].map[sym[t]] = Nil
  /\ pc[t] = "reference_cas" => ~Interned(mapVal[t].map[sym[t]])
  /\ pc[t] = "replace_cas" => sym[t] \in referred

CallInv(t) == Arguments(t) /\ LoadedMap(t) /\ Checked(t)

\* Only a referral maps a symbol to a foreign value, and the Var that was given
\* out for a symbol without one is the Var that is there.
Canonical ==
  \A s \in Symbols \ referred :
    /\ mappings.map[s] \notin Foreign
    /\ canon[s] \subseteq {mappings.map[s]}

NamespaceInv == TypeOK /\ (\A t \in Threads : CallInv(t)) /\ Canonical

-----------------------------------------------------------------------------
\* The state that belongs to the calls of the threads.
LocalTypes ==
  /\ pc \in [Threads -> Labels]
  /\ sym \in [Threads -> Symbols \cup {Nil}]
  /\ val \in [Threads -> Values \cup Targets \cup {Nil}]
  /\ mapVal \in [Threads -> Map(Values) \cup Map(Targets)]
  /\ v \in [Threads -> Vars \cup {Nil}]

\* A step of t leaves the calls of the other threads alone.
OthersKept(t) ==
  \A u \in Threads \ {t} :
    /\ pc'[u] = pc[u] /\ sym'[u] = sym[u] /\ val'[u] = val[u]
    /\ mapVal'[u] = mapVal[u] /\ v'[u] = v[u]

\* The map m becomes a newer one, with another value for the symbol s.
Updated(m, n, S, s) ==
  /\ n \in Map(S)
  /\ n.ver = m.ver + 1
  /\ \A r \in Symbols : r # s => n.map[r] = m.map[r]

\* What every step of a thread does to the namespace.
Effect(t) ==
  /\ LocalTypes' /\ OthersKept(t) /\ CallInv(t)'
  /\ mappings' = mappings \/ Updated(mappings, mappings', Values, sym[t])
  /\ aliases' = aliases \/ Updated(aliases, aliases', Targets, sym[t])
  /\ created' \subseteq Vars
  /\ canon' \in [Symbols -> SUBSET Vars]
  /\ referred \subseteq referred' /\ referred' \subseteq Symbols
  /\ Canonical'

-----------------------------------------------------------------------------
\* A new map has the version 0.
LEMMA EmptyType == Empty \in Map(Values) /\ Empty \in Map(Targets)
BY BoundsAssumption DEF Empty, Map

\* The versions of the maps are numbers and their entries have their types.
LEMMA MapType ==
  ASSUME NEW S, NEW m \in Map(S)
  PROVE  m.ver \in Nat /\ m.map \in [Symbols -> S \cup {Nil}]
BY BoundsAssumption DEF Map

\* The map that a successful swap installs.
LEMMA AssocUpdates ==
  ASSUME NEW t \in Threads, NEW S, NEW x \in S \cup {Nil}, NEW m \in Map(S),
         mapVal[t] = m, sym[t] \in Symbols, Swap(m, t)
  PROVE  /\ Updated(m, Assoc(t, x), S, sym[t])
         /\ Assoc(t, x).map[sym[t]] = x
BY BoundsAssumption DEF Assoc, Map, Swap, Updated

\* The call of t ends.
LEMMA FinishEnds ==
  ASSUME NamespaceInv, NEW t \in Threads, Finish(t)
  PROVE  LocalTypes' /\ OthersKept(t) /\ CallInv(t)'
<1> USE DEF NamespaceInv, TypeOK, Finish, Goto
<1>1. LocalTypes'
  BY EmptyType DEF LocalTypes, Labels
<1>2. pc'[t] = "run"
  OBVIOUS
<1>3. OthersKept(t)
  BY DEF OthersKept
<1>4. CallInv(t)'
  BY <1>2 DEF CallInv, Arguments, LoadedMap, Checked, MappingCas, AliasSwaps
<1>5. QED
  BY <1>1, <1>3, <1>4

\* The call of t loads a map.
LEMMA LoadLoads ==
  ASSUME NamespaceInv, NEW t \in Threads, NEW m \in Map(Values) \cup Map(Targets),
         NEW l \in Labels, Load(t, m, l), v' \in [Threads -> Vars \cup {Nil}],
         \A u \in Threads \ {t} : v'[u] = v[u]
  PROVE  /\ LocalTypes' /\ OthersKept(t)
         /\ pc'[t] = l /\ mapVal'[t] = m /\ sym'[t] = sym[t] /\ val'[t] = val[t]
BY DEF NamespaceInv, TypeOK, Load, Goto, LocalTypes, OthersKept, Labels

\* The call of t goes back to look again.
LEMMA GotoGoes ==
  ASSUME NamespaceInv, NEW t \in Threads, NEW l \in Labels, Goto(t, l),
         UNCHANGED <<sym, val, mapVal, v>>
  PROVE  /\ LocalTypes' /\ OthersKept(t)
         /\ pc'[t] = l /\ sym'[t] = sym[t] /\ val'[t] = val[t]
BY DEF NamespaceInv, TypeOK, Goto, LocalTypes, OthersKept, Labels

\* A swap succeeds only on the map that was loaded.
LEMMA SwapFacts ==
  ASSUME NamespaceInv, NEW t \in Threads
  PROVE  /\ pc[t] \in MappingCas /\ Swap(mappings, t) => mapVal[t] = mappings
         /\ pc[t] \in AliasSwaps /\ Swap(aliases, t) => mapVal[t] = aliases
         /\ pc[t] # "run" => sym[t] \in Symbols
BY DEF NamespaceInv, CallInv, Arguments, LoadedMap, Swap, MappingCas, AliasSwaps
-----------------------------------------------------------------------------
\* The call of another thread is not disturbed.
LEMMA OtherCalls ==
  ASSUME NamespaceInv, NEW t \in Threads, Effect(t), NEW u \in Threads, u # t
  PROVE  CallInv(u)'
<1> USE DEF NamespaceInv, Effect
<1>1. /\ pc'[u] = pc[u] /\ sym'[u] = sym[u] /\ val'[u] = val[u]
      /\ mapVal'[u] = mapVal[u] /\ v'[u] = v[u]
  BY DEF OthersKept
<1>2. Arguments(u)'
  BY <1>1 DEF CallInv, Arguments
<1>3. Checked(u)'
  BY <1>1 DEF CallInv, Checked, Interned
<1>4. /\ mappings.ver \in Nat /\ aliases.ver \in Nat
      /\ pc[u] \in MappingCas \cup AliasSwaps => mapVal[u].ver \in Nat
  BY MapType DEF TypeOK, CallInv, LoadedMap
<1>5. /\ mappings' = mappings \/ mappings'.ver = mappings.ver + 1
      /\ aliases' = aliases \/ aliases'.ver = aliases.ver + 1
  BY DEF Updated
<1>6. LoadedMap(u)
  BY DEF CallInv
<1>7. LoadedMap(u)'
  BY <1>1, <1>4, <1>5, <1>6 DEF LoadedMap
<1>8. QED
  BY <1>2, <1>3, <1>7 DEF CallInv

\* A step with such an effect keeps the invariant.
LEMMA EffectKeeps ==
  ASSUME NamespaceInv, NEW t \in Threads, Effect(t)
  PROVE  NamespaceInv'
<1>1. TypeOK'
  BY DEF NamespaceInv, Effect, TypeOK, LocalTypes, Labels, Updated
<1>2. \A u \in Threads : CallInv(u)'
  BY OtherCalls DEF Effect
<1>3. QED
  BY <1>1, <1>2 DEF NamespaceInv, Effect

-----------------------------------------------------------------------------
\* A call begins.
LEMMA StartEffect ==
  ASSUME NamespaceInv, NEW t \in Threads, Start(t)
  PROVE  Effect(t)
<1> USE DEF NamespaceInv, TypeOK
<1>1. PICK s \in Symbols, l \in {"intern", "reference", "unmap", "alias", "unalias"},
           x \in Foreign \cup Targets \cup {Nil} :
        /\ Call(t, l, s, x)
        /\ l = "reference" => x \in Foreign
        /\ l = "alias" => x \in Targets
  BY DEF Start
<1>2. LocalTypes' /\ OthersKept(t)
  BY <1>1 DEF Call, Goto, LocalTypes, OthersKept, Labels, Values
<1>3. pc'[t] = l /\ sym'[t] = s /\ val'[t] = x
  BY <1>1 DEF Call, Goto
<1>4. CallInv(t)'
  BY <1>1, <1>3 DEF CallInv, Arguments, LoadedMap, Checked, MappingCas, AliasSwaps
<1>5. UNCHANGED <<mappings, aliases, created, canon, referred>>
  BY <1>1 DEF Call
<1>6. QED
  BY <1>2, <1>4, <1>5 DEF Effect, Canonical

\* Namespace_intern looks the symbol up.
LEMMA InternEffect ==
  ASSUME NamespaceInv, NEW t \in Threads, InternFound(t) \/ InternMissing(t)
  PROVE  Effect(t)
<1> USE DEF NamespaceInv, TypeOK
<1>1. sym[t] \in Symbols
  BY SwapFacts DEF InternFound, InternMissing
<1>2. mappings.map \in [Symbols -> Values \cup {Nil}]
  BY MapType
<1>3. CASE InternFound(t)
  <2>1. LocalTypes' /\ OthersKept(t) /\ CallInv(t)'
    BY <1>3, FinishEnds DEF InternFound
  <2>2. /\ canon' = [canon EXCEPT ![sym[t]] = @ \cup {mappings.map[sym[t]]}]
        /\ mappings.map[sym[t]] \in Vars
        /\ UNCHANGED <<mappings, aliases, created, referred>>
    BY <1>3 DEF InternFound, Interned
  <2>3. canon' \in [Symbols -> SUBSET Vars] /\ Canonical'
    BY <1>1, <2>2 DEF Canonical
  <2>4. QED
    BY <2>1, <2>2, <2>3 DEF Effect
<1>4. CASE InternMissing(t)
  <2> DEFINE o == mappings.map[sym[t]]
  <2>1. /\ o \notin Vars
        /\ Load(t, mappings, InternNext(o))
        /\ UNCHANGED <<mappings, aliases, canon, referred>>
    BY <1>4 DEF InternMissing, Interned
  <2>2. /\ v' \in [Threads -> Vars \cup {Nil}]
        /\ v'[t] \in Vars
        /\ \A u \in Threads \ {t} : v'[u] = v[u]
        /\ created' \subseteq Vars
    BY <1>4 DEF InternMissing
  <2>3. InternNext(o) \in {"intern_cas", "replace_cas"}
    BY DEF InternNext
  <2>4. /\ LocalTypes' /\ OthersKept(t)
        /\ pc'[t] = InternNext(o) /\ mapVal'[t] = mappings /\ sym'[t] = sym[t]
    BY <2>1, <2>2, <2>3, LoadLoads DEF Labels
  <2>5. Arguments(t)'
    BY <1>1, <2>2, <2>3, <2>4 DEF Arguments
  <2>6. LoadedMap(t)'
    BY <2>1, <2>3, <2>4, MapType DEF LoadedMap, AliasSwaps
  <2>7. Checked(t)'
    BY <1>1, <1>2, <2>1, <2>4 DEF Checked, InternNext, Canonical, Values
  <2>8. QED
    BY <2>1, <2>2, <2>4, <2>5, <2>6, <2>7 DEF Effect, CallInv, Canonical
<1>5. QED
  BY <1>3, <1>4

\* A swap of Namespace_intern, for a new symbol or over a foreign mapping.
LEMMA InternCasEffect ==
  ASSUME NamespaceInv, NEW t \in Threads,
         InternCas(t) \/ ReplaceCas(t) \/ ReplaceRetry(t)
  PROVE  Effect(t)
<1> USE DEF NamespaceInv, TypeOK
<1>1. sym[t] \in Symbols /\ v[t] \in Vars
  BY DEF CallInv, Arguments, InternCas, ReplaceCas, ReplaceRetry
<1>2. CASE InternCas(t)
  <2>1. /\ Goto(t, "intern")
        /\ UNCHANGED <<aliases, created, sym, val, mapVal, v, canon, referred>>
        /\ mapVal[t].map[sym[t]] = Nil
    BY <1>2 DEF InternCas, CallInv, Checked
  <2>2. LocalTypes' /\ OthersKept(t) /\ CallInv(t)'
    <3>1. /\ LocalTypes' /\ OthersKept(t)
          /\ pc'[t] = "intern" /\ sym'[t] = sym[t]
      BY <2>1, GotoGoes DEF Labels
    <3>2. QED
      BY <1>1, <3>1 DEF CallInv, Arguments, LoadedMap, Checked, MappingCas, AliasSwaps
  <2>3. CASE Swap(mappings, t)
    <3>1. mapVal[t] = mappings
      BY <1>2, <2>3, SwapFacts DEF InternCas, MappingCas
    <3>2. mappings' = Assoc(t, v[t])
      BY <1>2, <2>3 DEF InternCas
    <3>3. /\ Updated(mappings, mappings', Values, sym[t])
          /\ mappings'.map[sym[t]] = v[t]
      BY <1>1, <2>3, <3>1, <3>2, AssocUpdates DEF Values
    <3>4. canon[sym[t]] = {} \/ sym[t] \in referred
      BY <1>1, <2>1, <3>1, ValuesAssumption DEF Canonical
    <3>5. Canonical'
      BY <1>1, <2>1, <3>3, <3>4, ValuesAssumption DEF Canonical, Updated
    <3>6. QED
      BY <2>1, <2>2, <3>3, <3>5 DEF Effect
  <2>4. CASE ~Swap(mappings, t)
    <3>1. mappings' = mappings
      BY <1>2, <2>4 DEF InternCas
    <3>2. QED
      BY <2>1, <2>2, <3>1 DEF Effect, Canonical
  <2>5. QED
    BY <2>3, <2>4
<1>3. CASE ReplaceCas(t)
  <2>1. /\ LocalTypes' /\ OthersKept(t) /\ CallInv(t)'
        /\ sym[t] \in referred
    BY <1>3, FinishEnds DEF ReplaceCas, CallInv, Checked
  <2>2. /\ mappings' = Assoc(t, v[t])
        /\ canon' = [canon EXCEPT ![sym[t]] = @ \cup {v[t]}]
        /\ UNCHANGED <<aliases, created, referred>>
    BY <1>3 DEF ReplaceCas
  <2>3. Updated(mappings, mappings', Values, sym[t])
    <3>1. Swap(mappings, t) /\ mapVal[t] = mappings
      BY <1>3, SwapFacts DEF ReplaceCas, MappingCas
    <3>2. QED
      BY <1>1, <2>2, <3>1, AssocUpdates DEF Values
  <2>4. canon' \in [Symbols -> SUBSET Vars] /\ Canonical'
    BY <1>1, <2>1, <2>2, <2>3 DEF Canonical, Updated
  <2>5. QED
    BY <2>1, <2>2, <2>3, <2>4 DEF Effect
<1>4. CASE ReplaceRetry(t)
  <2>1. /\ Load(t, mappings, "replace_cas") /\ pc[t] = "replace_cas"
        /\ UNCHANGED <<mappings, aliases, created, v, canon, referred>>
    BY <1>4 DEF ReplaceRetry
  <2>2. /\ LocalTypes' /\ OthersKept(t)
        /\ pc'[t] = "replace_cas" /\ mapVal'[t] = mappings /\ sym'[t] = sym[t]
    BY <2>1, LoadLoads DEF Labels
  <2>3. CallInv(t)'
    BY <1>1, <2>1, <2>2, MapType
       DEF CallInv, Arguments, LoadedMap, Checked, AliasSwaps
  <2>4. QED
    BY <2>1, <2>2, <2>3 DEF Effect, Canonical
<1>5. QED
  BY <1>2, <1>3, <1>4

\* Namespace_reference.
LEMMA ReferenceEffect ==
  ASSUME NamespaceInv, NEW t \in Threads,
         ReferenceSame(t) \/ ReferenceRejected(t) \/ ReferenceLoad(t) \/ ReferenceCas(t)
  PROVE  Effect(t)
<1> USE DEF NamespaceInv, TypeOK
<1>1. sym[t] \in Symbols /\ val[t] \in Foreign
  BY DEF CallInv, Arguments, ReferenceSame, ReferenceRejected, ReferenceLoad, ReferenceCas
<1>2. CASE ReferenceSame(t) \/ ReferenceRejected(t)
  <2>1. LocalTypes' /\ OthersKept(t) /\ CallInv(t)'
    BY <1>2, FinishEnds DEF ReferenceSame, ReferenceRejected
  <2>2. UNCHANGED <<mappings, aliases, created, canon, referred>>
    BY <1>2 DEF ReferenceSame, ReferenceRejected
  <2>3. QED
    BY <2>1, <2>2 DEF Effect, Canonical
<1>3. CASE ReferenceLoad(t)
  <2>1. /\ Load(t, mappings, "reference_cas") /\ ~Interned(mappings.map[sym[t]])
        /\ UNCHANGED <<mappings, aliases, created, v, canon, referred>>
    BY <1>3 DEF ReferenceLoad
  <2>2. /\ LocalTypes' /\ OthersKept(t)
        /\ pc'[t] = "reference_cas" /\ mapVal'[t] = mappings
        /\ sym'[t] = sym[t] /\ val'[t] = val[t]
    BY <2>1, LoadLoads DEF Labels
  <2>3. CallInv(t)'
    BY <1>1, <2>1, <2>2, MapType
       DEF CallInv, Arguments, LoadedMap, Checked, AliasSwaps, Interned
  <2>4. QED
    BY <2>1, <2>2, <2>3 DEF Effect, Canonical
<1>4. CASE ReferenceCas(t) /\ Swap(mappings, t)
  <2>1. /\ mappings' = Assoc(t, val[t])
        /\ referred' = referred \cup {sym[t]}
        /\ Finish(t)
        /\ UNCHANGED <<aliases, created, canon>>
    BY <1>4 DEF ReferenceCas
  <2>2. mapVal[t] = mappings
    BY <1>4, SwapFacts DEF ReferenceCas, MappingCas
  <2>3. Updated(mappings, mappings', Values, sym[t])
    BY <1>1, <1>4, <2>1, <2>2, AssocUpdates DEF Values
  <2>4. Canonical'
    BY <2>1, <2>3 DEF Canonical, Updated
  <2>5. QED
    BY <1>1, <2>1, <2>3, <2>4, FinishEnds DEF Effect
<1>5. CASE ReferenceCas(t) /\ ~Swap(mappings, t)
  <2>1. /\ Goto(t, "reference")
        /\ UNCHANGED <<mappings, referred, sym, val, mapVal, v, aliases, created, canon>>
    BY <1>5 DEF ReferenceCas
  <2>2. /\ LocalTypes' /\ OthersKept(t)
        /\ pc'[t] = "reference" /\ sym'[t] = sym[t] /\ val'[t] = val[t]
    BY <2>1, GotoGoes DEF Labels
  <2>3. CallInv(t)'
    BY <1>1, <2>2 DEF CallInv, Arguments, LoadedMap, Checked, MappingCas, AliasSwaps
  <2>4. QED
    BY <2>1, <2>2, <2>3 DEF Effect, Canonical
<1>6. QED
  BY <1>2, <1>3, <1>4, <1>5

\* Namespace_unmap.
LEMMA UnmapEffect ==
  ASSUME NamespaceInv, NEW t \in Threads, UnmapLoad(t) \/ UnmapCas(t)
  PROVE  Effect(t)
<1> USE DEF NamespaceInv, TypeOK
<1>1. sym[t] \in Symbols
  BY DEF CallInv, Arguments, UnmapLoad, UnmapCas
<1>2. CASE UnmapLoad(t) /\ mappings.map[sym[t]] = Nil
  <2>1. Finish(t) /\ UNCHANGED <<mappings, aliases, created, canon, referred>>
    BY <1>2 DEF UnmapLoad
  <2>2. QED
    BY <2>1, FinishEnds DEF Effect, Canonical
<1>3. CASE UnmapLoad(t) /\ mappings.map[sym[t]] # Nil
  <2>1. /\ Load(t, mappings, "unmap_cas")
        /\ UNCHANGED <<mappings, aliases, created, v, canon, referred>>
    BY <1>3 DEF UnmapLoad
  <2>2. /\ LocalTypes' /\ OthersKept(t)
        /\ pc'[t] = "unmap_cas" /\ mapVal'[t] = mappings /\ sym'[t] = sym[t]
    BY <2>1, LoadLoads DEF Labels
  <2>3. CallInv(t)'
    BY <1>1, <2>1, <2>2, MapType DEF CallInv, Arguments, LoadedMap, Checked, AliasSwaps
  <2>4. QED
    BY <2>1, <2>2, <2>3 DEF Effect, Canonical
<1>4. CASE UnmapCas(t) /\ Swap(mappings, t)
  <2>1. /\ mappings' = Assoc(t, Nil)
        /\ canon' = [canon EXCEPT ![sym[t]] = {}]
        /\ Finish(t)
        /\ UNCHANGED <<aliases, created, referred>>
    BY <1>4 DEF UnmapCas
  <2>2. mapVal[t] = mappings
    BY <1>4, SwapFacts DEF UnmapCas, MappingCas
  <2>3. /\ Updated(mappings, mappings', Values, sym[t])
        /\ mappings'.map[sym[t]] = Nil
    BY <1>1, <1>4, <2>1, <2>2, AssocUpdates
  <2>4. canon' \in [Symbols -> SUBSET Vars] /\ Canonical'
    BY <1>1, <2>1, <2>3, ValuesAssumption DEF Canonical, Updated
  <2>5. QED
    BY <2>1, <2>3, <2>4, FinishEnds DEF Effect
<1>5. CASE UnmapCas(t) /\ ~Swap(mappings, t)
  <2>1. /\ Goto(t, "unmap")
        /\ UNCHANGED <<mappings, canon, sym, val, mapVal, v, aliases, created, referred>>
    BY <1>5 DEF UnmapCas
  <2>2. /\ LocalTypes' /\ OthersKept(t)
        /\ pc'[t] = "unmap" /\ sym'[t] = sym[t]
    BY <2>1, GotoGoes DEF Labels
  <2>3. CallInv(t)'
    BY <1>1, <2>2 DEF CallInv, Arguments, LoadedMap, Checked, MappingCas, AliasSwaps
  <2>4. QED
    BY <2>1, <2>2, <2>3 DEF Effect, Canonical
<1>6. QED
  BY <1>2, <1>3, <1>4, <1>5

\* Namespace_addAlias and Namespace_removeAlias.
LEMMA AliasEffect ==
  ASSUME NamespaceInv, NEW t \in Threads, AliasStep(t)
  PROVE  Effect(t)
<1> USE DEF NamespaceInv, TypeOK
<1>1. /\ sym[t] \in Symbols
      /\ pc[t] \in {"alias", "alias_cas"} => val[t] \in Targets
  BY DEF CallInv, Arguments, AliasStep, AliasLoad, AliasCas, UnaliasLoad, UnaliasCas
<1>2. CASE /\ AliasLoad(t) \/ UnaliasLoad(t)
           /\ Finish(t)
  <2>1. UNCHANGED <<mappings, aliases, created, canon, referred>>
    BY <1>2 DEF AliasLoad, UnaliasLoad
  <2>2. QED
    BY <1>2, <2>1, FinishEnds DEF Effect, Canonical
<1>3. CASE /\ AliasLoad(t) \/ UnaliasLoad(t)
           /\ ~Finish(t)
  <2>1. PICK l \in {"alias_cas", "unalias_cas"} :
          /\ Load(t, aliases, l)
          /\ l = "alias_cas" => pc[t] = "alias" /\ aliases.map[sym[t]] = Nil
          /\ UNCHANGED <<mappings, aliases, created, v, canon, referred>>
    BY <1>3 DEF AliasLoad, UnaliasLoad
  <2>2. /\ LocalTypes' /\ OthersKept(t)
        /\ pc'[t] = l /\ mapVal'[t] = aliases /\ sym'[t] = sym[t] /\ val'[t] = val[t]
    BY <2>1, LoadLoads DEF Labels
  <2>3. CallInv(t)'
    BY <1>1, <2>1, <2>2, MapType DEF CallInv, Arguments, LoadedMap, Checked, MappingCas
  <2>4. QED
    BY <2>1, <2>2, <2>3 DEF Effect, Canonical
<1>4. CASE /\ AliasCas(t) \/ UnaliasCas(t)
           /\ Swap(aliases, t)
  <2>1. PICK x \in Targets \cup {Nil} : aliases' = Assoc(t, x)
    BY <1>1, <1>4 DEF AliasCas, UnaliasCas
  <2>2. Finish(t) /\ UNCHANGED <<mappings, created, canon, referred>>
    BY <1>4 DEF AliasCas, UnaliasCas
  <2>3. mapVal[t] = aliases
    BY <1>4, SwapFacts DEF AliasCas, UnaliasCas, AliasSwaps
  <2>4. Updated(aliases, aliases', Targets, sym[t])
    BY <1>1, <1>4, <2>1, <2>3, AssocUpdates
  <2>5. QED
    BY <2>2, <2>4, FinishEnds DEF Effect, Canonical
<1>5. CASE /\ AliasCas(t) \/ UnaliasCas(t)
           /\ ~Swap(aliases, t)
  <2>1. PICK l \in {"alias", "unalias"} :
          Goto(t, l) /\ (l = "alias" => pc[t] = "alias_cas")
    BY <1>5 DEF AliasCas, UnaliasCas
  <2>2. UNCHANGED <<aliases, sym, val, mapVal, v, mappings, created, canon, referred>>
    BY <1>5 DEF AliasCas, UnaliasCas
  <2>3. /\ LocalTypes' /\ OthersKept(t)
        /\ pc'[t] = l /\ sym'[t] = sym[t] /\ val'[t] = val[t]
    BY <2>1, <2>2, GotoGoes DEF Labels
  <2>4. CallInv(t)'
    BY <1>1, <2>1, <2>3 DEF CallInv, Arguments, LoadedMap, Checked, MappingCas, AliasSwaps
  <2>5. QED
    BY <2>2, <2>3, <2>4 DEF Effect, Canonical
<1>6. QED
  BY <1>2, <1>3, <1>4, <1>5 DEF AliasStep

\* Every step has such an effect.
LEMMA StepEffect ==
  ASSUME NamespaceInv, Next
  PROVE  \E t \in Threads : Effect(t)
<1>1. PICK t \in Threads : Start(t) \/ MappingStep(t) \/ AliasStep(t) \/ MapFull(t)
  BY DEF Next
<1>2. CASE MapFull(t)
  <2>1. Finish(t) /\ UNCHANGED <<mappings, aliases, created, canon, referred>>
    BY <1>2 DEF MapFull
  <2>2. QED
    BY <2>1, FinishEnds DEF NamespaceInv, TypeOK, Effect, Canonical
<1>3. QED
  BY <1>1, <1>2, StartEffect, InternEffect, InternCasEffect, ReferenceEffect,
     UnmapEffect, AliasEffect DEF MappingStep

-----------------------------------------------------------------------------
\* The inductive invariant holds for any number of threads that use the
\* namespace.
THEOREM NamespaceInvariant == Spec => []NamespaceInv
<1>1. Init => NamespaceInv
  <2> SUFFICES ASSUME Init PROVE NamespaceInv
    OBVIOUS
  <2>1. TypeOK
    BY EmptyType DEF Init, TypeOK
  <2>2. \A t \in Threads : CallInv(t)
    BY DEF Init, CallInv, Arguments, LoadedMap, Checked, MappingCas, AliasSwaps
  <2>3. Canonical
    BY ValuesAssumption DEF Init, Empty, Canonical
  <2>4. QED
    BY <2>1, <2>2, <2>3 DEF NamespaceInv
<1>2. NamespaceInv /\ [Next]_vars => NamespaceInv'
  <2>1. ASSUME NamespaceInv, Next PROVE NamespaceInv'
    BY <2>1, StepEffect, EffectKeeps
  <2>2. ASSUME NamespaceInv, UNCHANGED vars PROVE NamespaceInv'
    BY <2>2 DEF NamespaceInv, TypeOK, CallInv, Arguments, LoadedMap, Checked,
                Canonical, vars
  <2>3. QED
    BY <2>1, <2>2
<1>3. QED
  BY <1>1, <1>2, PTL DEF Spec

\* Until a symbol has referred to a foreign value or is unmapped, every call of
\* Namespace_intern for it returns the same Var.
THEOREM CanonicalTheorem == Spec => []CanonicalUnlessReferred
<1>1. NamespaceInv => CanonicalUnlessReferred
  <2> SUFFICES ASSUME NamespaceInv, NEW s \in Symbols \ referred
               PROVE  Cardinality(canon[s]) <= 1
    BY DEF CanonicalUnlessReferred
  <2>1. canon[s] \in SUBSET {mappings.map[s]}
    BY DEF NamespaceInv, Canonical
  <2>2. IsFiniteSet({mappings.map[s]}) /\ Cardinality({mappings.map[s]}) = 1
    BY FS_Singleton
  <2>3. Cardinality(canon[s]) <= Cardinality({mappings.map[s]})
    BY <2>1, <2>2, FS_Subset
  <2>4. QED
    BY <2>2, <2>3
<1>2. QED
  BY <1>1, NamespaceInvariant, PTL

\* No successful swap of Namespace.c undoes the update of another thread: it
\* changes one symbol of the map that is there.
THEOREM NoLostUpdateTheorem == Spec => NoLostUpdate
<1> DEFINE OneSymbol ==
      /\ \A r, s \in Symbols :
           mappings'.map[r] # mappings.map[r] /\ mappings'.map[s] # mappings.map[s]
             => r = s
      /\ \A r, s \in Symbols :
           aliases'.map[r] # aliases.map[r] /\ aliases'.map[s] # aliases.map[s]
             => r = s
<1>1. NamespaceInv /\ [Next]_vars => [OneSymbol]_vars
  <2> SUFFICES ASSUME NamespaceInv, Next PROVE OneSymbol
    OBVIOUS
  <2>1. PICK t \in Threads : Effect(t)
    BY StepEffect
  <2>2. QED
    BY <2>1 DEF Effect, Updated
<1>2. QED
  BY <1>1, NamespaceInvariant, PTL DEF Spec, NoLostUpdate

\* An alias keeps its target and an interned Var is not replaced by a referral,
\* whatever calls race (Namespace_addAlias, Namespace_reference).
THEOREM KeptTheorem == Spec => KeptUntilRemoved
<1> DEFINE Kept ==
      \A s \in Symbols :
        /\ aliases.map[s] # Nil => aliases'.map[s] \in {aliases.map[s], Nil}
        /\ Interned(mappings.map[s]) => mappings'.map[s] \notin Foreign
<1>1. NamespaceInv /\ [Next]_vars => [Kept]_vars
  <2> SUFFICES ASSUME NamespaceInv, Next PROVE Kept
    OBVIOUS
  <2>1. PICK t \in Threads : Start(t) \/ MappingStep(t) \/ AliasStep(t) \/ MapFull(t)
    BY DEF Next
  <2>2. (mappings' = mappings /\ aliases' = aliases) => Kept
    BY ValuesAssumption DEF Interned
  <2>3. CASE ReferenceCas(t) /\ Swap(mappings, t)
    <3>1. /\ mappings' = Assoc(t, val[t]) /\ mapVal[t] = mappings
          /\ sym[t] \in Symbols /\ val[t] \in Foreign
          /\ ~Interned(mappings.map[sym[t]])
          /\ aliases' = aliases
      BY <2>3, SwapFacts
         DEF ReferenceCas, MappingCas, NamespaceInv, CallInv, Arguments, Checked
    <3>2. Updated(mappings, mappings', Values, sym[t])
      BY <2>3, <3>1, AssocUpdates DEF Values, NamespaceInv, TypeOK
    <3>3. QED
      BY <3>1, <3>2, ValuesAssumption DEF Updated, Interned
  <2>4. CASE InternCas(t) \/ ReplaceCas(t) \/ UnmapCas(t)
    <3>1. CASE mappings' = mappings /\ aliases' = aliases
      BY <2>2, <3>1
    <3>2. CASE ~(mappings' = mappings /\ aliases' = aliases)
      <4>1. /\ Swap(mappings, t) /\ mapVal[t] = mappings
            /\ sym[t] \in Symbols /\ aliases' = aliases
        BY <2>4, <3>2, SwapFacts DEF InternCas, ReplaceCas, UnmapCas, MappingCas
      <4>2. PICK x \in Vars \cup {Nil} : mappings' = Assoc(t, x)
        BY <2>4, <4>1
           DEF InternCas, ReplaceCas, UnmapCas, NamespaceInv, CallInv, Arguments
      <4>3. /\ Updated(mappings, mappings', Values, sym[t])
            /\ mappings'.map[sym[t]] = x
        BY <4>1, <4>2, AssocUpdates DEF Values, NamespaceInv, TypeOK
      <4>4. QED
        BY <4>1, <4>3, ValuesAssumption DEF Updated, Interned
    <3>3. QED
      BY <3>1, <3>2
  <2>5. CASE AliasCas(t) /\ Swap(aliases, t)
    <3>1. /\ aliases' = Assoc(t, val[t]) /\ mapVal[t] = aliases
          /\ sym[t] \in Symbols /\ val[t] \in Targets
          /\ aliases.map[sym[t]] = Nil
          /\ mappings' = mappings
      BY <2>5, SwapFacts
         DEF AliasCas, AliasSwaps, NamespaceInv, CallInv, Arguments, Checked
    <3>2. Updated(aliases, aliases', Targets, sym[t])
      BY <2>5, <3>1, AssocUpdates DEF NamespaceInv, TypeOK
    <3>3. QED
      BY <3>1, <3>2, ValuesAssumption DEF Updated, Interned
  <2>6. CASE UnaliasCas(t) /\ Swap(aliases, t)
    <3>1. /\ aliases' = Assoc(t, Nil) /\ mapVal[t] = aliases
          /\ sym[t] \in Symbols /\ mappings' = mappings
      BY <2>6, SwapFacts DEF UnaliasCas, AliasSwaps
    <3>2. /\ Updated(aliases, aliases', Targets, sym[t])
          /\ aliases'.map[sym[t]] = Nil
      BY <2>6, <3>1, AssocUpdates DEF NamespaceInv, TypeOK
    <3>3. QED
      BY <3>1, <3>2, ValuesAssumption DEF Updated, Interned
  <2>7. CASE \/ (ReferenceCas(t) /\ ~Swap(mappings, t))
             \/ ((AliasCas(t) \/ UnaliasCas(t)) /\ ~Swap(aliases, t))
    BY <2>2, <2>7 DEF ReferenceCas, AliasCas, UnaliasCas
  <2>8. CASE \/ Start(t) \/ InternFound(t) \/ InternMissing(t) \/ ReplaceRetry(t)
             \/ ReferenceSame(t) \/ ReferenceRejected(t) \/ ReferenceLoad(t)
    <3>1. mappings' = mappings /\ aliases' = aliases
      BY <2>8 DEF Start, Call, InternFound, InternMissing, ReplaceRetry,
                  ReferenceSame, ReferenceRejected, ReferenceLoad
    <3>2. QED
      BY <2>2, <3>1
  <2>9. CASE UnmapLoad(t) \/ AliasLoad(t) \/ UnaliasLoad(t) \/ MapFull(t)
    <3>1. mappings' = mappings /\ aliases' = aliases
      BY <2>9 DEF UnmapLoad, AliasLoad, UnaliasLoad, MapFull
    <3>2. QED
      BY <2>2, <3>1
  <2>10. QED
    BY <2>1, <2>3, <2>4, <2>5, <2>6, <2>7, <2>8, <2>9 DEF MappingStep, AliasStep
<1>2. QED
  BY <1>1, NamespaceInvariant, PTL DEF Spec, KeptUntilRemoved
=============================================================================
