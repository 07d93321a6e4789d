----------------------------- MODULE Namespace -----------------------------
(***************************************************************************)
(* One Namespace of backend/runtime/Namespace.c: the lock-free updates of  *)
(* its mappings and its aliases by Namespace_intern, Namespace_reference,  *)
(* Namespace_unmap, Namespace_addAlias and Namespace_removeAlias.          *)
(*                                                                         *)
(* Every update loads a map, builds a new one and installs it by a         *)
(* compare-and-swap of the pointer.  A map is a value with a version that  *)
(* stands for the identity of the PersistentArrayMap: the caller is in a   *)
(* critical section, so an address is not reused while it may be compared. *)
(***************************************************************************)
EXTENDS Integers, FiniteSets

CONSTANTS
  Threads,
  Symbols,     \* unqualified symbols
  Vars,        \* Vars that Namespace_intern may create for this namespace
  Foreign,     \* classes and Vars of other namespaces
  Targets,     \* namespaces an alias may stand for
  Nil,
  MaxEntries,  \* HASHTABLE_THRESHOLD: entries of a PersistentArrayMap
  MaxVersion   \* bound: successful updates of each map

ASSUME ValuesAssumption ==
  /\ Vars \cap Foreign = {}
  /\ Nil \notin Vars \cup Foreign \cup Targets
ASSUME BoundsAssumption == MaxEntries \in Nat \ {0} /\ MaxVersion \in Nat

VARIABLES
  mappings,  \* the current map from symbols to Vars and classes
  aliases,   \* the current map from symbols to namespaces
  created,   \* Vars that Var_create_interned has made
  pc,        \* pc[t]: what t does next, "run" outside the functions
  sym,       \* sym[t]: the symbol of its call
  val,       \* val[t]: the value of Namespace_reference or Namespace_addAlias
  mapVal,    \* mapVal[t]: the map it has loaded
  v,         \* v[t]: the Var that Namespace_intern has made for its own call
  canon,     \* history: Vars that Namespace_intern gave out, by symbol, since
             \* the symbol was last unmapped
  referred   \* history: symbols that Namespace_reference has mapped

vars == <<mappings, aliases, created, pc, sym, val, mapVal, v, canon, referred>>

Values == Vars \cup Foreign
Map(S) == [ver : 0 .. MaxVersion, map : [Symbols -> S \cup {Nil}]]

TypeOK ==
  /\ mappings \in Map(Values)
  /\ aliases \in Map(Targets)
  /\ created \subseteq Vars
  /\ pc \in [Threads -> {"run", "intern", "intern_cas", "replace_cas",
                         "reference", "reference_cas", "unmap", "unmap_cas",
                         "alias", "alias_cas", "unalias", "unalias_cas"}]
  /\ sym \in [Threads -> Symbols \cup {Nil}]
  /\ val \in [Threads -> Values \cup Targets \cup {Nil}]
  /\ mapVal \in [Threads -> Map(Values) \cup Map(Targets)]
  /\ v \in [Threads -> Vars \cup {Nil}]
  /\ canon \in [Symbols -> SUBSET Vars]
  /\ referred \subseteq Symbols

Empty == [ver |-> 0, map |-> [s \in Symbols |-> Nil]]

Init ==
  /\ mappings = Empty
  /\ aliases = Empty
  /\ created = {}
  /\ pc = [t \in Threads |-> "run"]
  /\ sym = [t \in Threads |-> Nil]
  /\ val = [t \in Threads |-> Nil]
  /\ mapVal = [t \in Threads |-> Empty]
  /\ v = [t \in Threads |-> Nil]
  /\ canon = [s \in Symbols |-> {}]
  /\ referred = {}

-----------------------------------------------------------------------------
Goto(t, l) == pc' = [pc EXCEPT ![t] = l]

\* A call with a symbol and a value.
Call(t, l, s, x) ==
  /\ pc[t] = "run"
  /\ Goto(t, l)
  /\ sym' = [sym EXCEPT ![t] = s]
  /\ val' = [val EXCEPT ![t] = x]
  /\ UNCHANGED <<mappings, aliases, created, mapVal, v, canon, referred>>

\* The call ends, by its return or by an exception.
Finish(t) ==
  /\ Goto(t, "run")
  /\ sym' = [sym EXCEPT ![t] = Nil]
  /\ val' = [val EXCEPT ![t] = Nil]
  /\ mapVal' = [mapVal EXCEPT ![t] = Empty]
  /\ v' = [v EXCEPT ![t] = Nil]

\* The call loads m and goes on at l.
Load(t, m, l) ==
  /\ mapVal' = [mapVal EXCEPT ![t] = m]
  /\ Goto(t, l)
  /\ UNCHANGED <<sym, val>>

\* The map of the call with its symbol bound to x (or unbound), as a new map.
Assoc(t, x) ==
  [ver |-> mapVal[t].ver + 1, map |-> [mapVal[t].map EXCEPT ![sym[t]] = x]]

\* PersistentArrayMap_assoc has no room for the symbol.
Full(t) ==
  /\ mapVal[t].map[sym[t]] = Nil
  /\ Cardinality({s \in Symbols : mapVal[t].map[s] # Nil}) >= MaxEntries

\* Mutant: the new map is stored whatever map is there by now.
SwapBlind(m, t) == mapVal[t].ver < MaxVersion

\* The compare-and-swap of t on m succeeds.
Swap(m, t) == mapVal[t].ver = m.ver /\ m.ver < MaxVersion

\* Namespace_isInternedMapping, for the Vars this namespace makes.
Interned(x) == x \in Vars

-----------------------------------------------------------------------------
\* Namespace_intern: look the symbol up, and return the Var that is there.
InternFound(t) ==
  LET o == mappings.map[sym[t]] IN
  /\ pc[t] = "intern"
  /\ Interned(o)
  /\ canon' = [canon EXCEPT ![sym[t]] = @ \cup {o}]
  /\ Finish(t)
  /\ UNCHANGED <<mappings, aliases, created, referred>>

\* Otherwise there is nothing, or a mapping that may be replaced (all that
\* Namespace_checkReplacement refuses is an interned Var); a Var is made unless
\* the call has one already.
InternNext(o) == IF o = Nil THEN "intern_cas" ELSE "replace_cas"

InternMissing(t) ==
  LET o == mappings.map[sym[t]] IN
  /\ pc[t] = "intern"
  /\ ~Interned(o)
  /\ IF v[t] = Nil
     THEN \E n \in Vars \ created :
            v' = [v EXCEPT ![t] = n] /\ created' = created \cup {n}
     ELSE UNCHANGED <<v, created>>
  /\ Load(t, mappings, InternNext(o))
  /\ UNCHANGED <<mappings, aliases, canon, referred>>

\* Mutant: a call that loses the race returns its own Var.
InternCasStubborn(t) ==
  /\ pc[t] = "intern_cas"
  /\ ~Full(t)
  /\ mappings' = IF Swap(mappings, t) THEN Assoc(t, v[t]) ELSE mappings
  /\ canon' = [canon EXCEPT ![sym[t]] = @ \cup {v[t]}]
  /\ Finish(t)
  /\ UNCHANGED <<aliases, created, referred>>

\* The first loop installs the Var where there was nothing and looks again.
InternCas(t) ==
  /\ pc[t] = "intern_cas"
  /\ ~Full(t)
  /\ mappings' = IF Swap(mappings, t) THEN Assoc(t, v[t]) ELSE mappings
  /\ Goto(t, "intern")
  /\ UNCHANGED <<aliases, created, sym, val, mapVal, v, canon, referred>>

\* The second loop replaces a foreign mapping; when the swap fails it reloads
\* the map and tries again without looking at the mapping.
ReplaceCas(t) ==
  /\ pc[t] = "replace_cas"
  /\ ~Full(t)
  /\ Swap(mappings, t)
  /\ mappings' = Assoc(t, v[t])
  /\ canon' = [canon EXCEPT ![sym[t]] = @ \cup {v[t]}]
  /\ Finish(t)
  /\ UNCHANGED <<aliases, created, referred>>

ReplaceRetry(t) ==
  /\ pc[t] = "replace_cas"
  /\ mapVal[t].ver # mappings.ver
  /\ Load(t, mappings, "replace_cas")
  /\ UNCHANGED <<mappings, aliases, created, v, canon, referred>>

-----------------------------------------------------------------------------
\* Namespace_reference, also behind Namespace_refer and
\* Namespace_importClassSym: the value is there already.
ReferenceSame(t) ==
  /\ pc[t] = "reference"
  /\ mappings.map[sym[t]] = val[t]
  /\ Finish(t)
  /\ UNCHANGED <<mappings, aliases, created, canon, referred>>

\* An interned Var is not replaced: IllegalStateException.
ReferenceRejected(t) ==
  /\ pc[t] = "reference"
  /\ Interned(mappings.map[sym[t]])
  /\ Finish(t)
  /\ UNCHANGED <<mappings, aliases, created, canon, referred>>

ReferenceLoad(t) ==
  /\ pc[t] = "reference"
  /\ mappings.map[sym[t]] # val[t]
  /\ ~Interned(mappings.map[sym[t]])
  /\ Load(t, mappings, "reference_cas")
  /\ UNCHANGED <<mappings, aliases, created, v, canon, referred>>

\* Mutant: after a lost race the value is stored in the newer map at once.
ReferenceCasBlind(t) ==
  /\ pc[t] = "reference_cas"
  /\ ~Full(t)
  /\ mappings.ver < MaxVersion
  /\ mappings' = [ver |-> mappings.ver + 1,
                  map |-> [mappings.map EXCEPT ![sym[t]] = val[t]]]
  /\ referred' = referred \cup {sym[t]}
  /\ Finish(t)
  /\ UNCHANGED <<aliases, created, canon>>

ReferenceCas(t) ==
  /\ pc[t] = "reference_cas"
  /\ ~Full(t)
  /\ IF Swap(mappings, t)
     THEN /\ mappings' = Assoc(t, val[t])
          /\ referred' = referred \cup {sym[t]}
          /\ Finish(t)
     ELSE /\ Goto(t, "reference")
          /\ UNCHANGED <<mappings, referred, sym, val, mapVal, v>>
  /\ UNCHANGED <<aliases, created, canon>>

\* Namespace_unmap.
UnmapLoad(t) ==
  /\ pc[t] = "unmap"
  /\ IF mappings.map[sym[t]] = Nil
     THEN Finish(t)
     ELSE Load(t, mappings, "unmap_cas") /\ UNCHANGED v
  /\ UNCHANGED <<mappings, aliases, created, canon, referred>>

UnmapCas(t) ==
  /\ pc[t] = "unmap_cas"
  /\ IF Swap(mappings, t)
     THEN /\ mappings' = Assoc(t, Nil)
          /\ canon' = [canon EXCEPT ![sym[t]] = {}]
          /\ Finish(t)
     ELSE /\ Goto(t, "unmap")
          /\ UNCHANGED <<mappings, canon, sym, val, mapVal, v>>
  /\ UNCHANGED <<aliases, created, referred>>

-----------------------------------------------------------------------------
\* Namespace_addAlias: the alias exists (with another namespace:
\* IllegalStateException), or it is added.
AliasLoad(t) ==
  /\ pc[t] = "alias"
  /\ IF aliases.map[sym[t]] # Nil
     THEN Finish(t)
     ELSE Load(t, aliases, "alias_cas") /\ UNCHANGED v
  /\ UNCHANGED <<mappings, aliases, created, canon, referred>>

AliasCas(t) ==
  /\ pc[t] = "alias_cas"
  /\ ~Full(t)
  /\ IF Swap(aliases, t)
     THEN aliases' = Assoc(t, val[t]) /\ Finish(t)
     ELSE Goto(t, "alias") /\ UNCHANGED <<aliases, sym, val, mapVal, v>>
  /\ UNCHANGED <<mappings, created, canon, referred>>

\* Namespace_removeAlias.
UnaliasLoad(t) ==
  /\ pc[t] = "unalias"
  /\ IF aliases.map[sym[t]] = Nil
     THEN Finish(t)
     ELSE Load(t, aliases, "unalias_cas") /\ UNCHANGED v
  /\ UNCHANGED <<mappings, aliases, created, canon, referred>>

UnaliasCas(t) ==
  /\ pc[t] = "unalias_cas"
  /\ IF Swap(aliases, t)
     THEN aliases' = Assoc(t, Nil) /\ Finish(t)
     ELSE Goto(t, "unalias") /\ UNCHANGED <<aliases, sym, val, mapVal, v>>
  /\ UNCHANGED <<mappings, created, canon, referred>>

-----------------------------------------------------------------------------
\* PersistentArrayMap_assoc throws UnsupportedOperationException through the
\* function that called it.
MapFull(t) ==
  /\ pc[t] \in {"intern_cas", "replace_cas", "reference_cas", "alias_cas"}
  /\ Full(t)
  /\ Finish(t)
  /\ UNCHANGED <<mappings, aliases, created, canon, referred>>

Start(t) ==
  \E s \in Symbols :
    \/ Call(t, "intern", s, Nil)
    \/ \E x \in Foreign : Call(t, "reference", s, x)
    \/ Call(t, "unmap", s, Nil)
    \/ \E n \in Targets : Call(t, "alias", s, n)
    \/ Call(t, "unalias", s, Nil)

MappingStep(t) ==
  \/ InternFound(t) \/ InternMissing(t) \/ InternCas(t)
  \/ ReplaceCas(t) \/ ReplaceRetry(t)
  \/ ReferenceSame(t) \/ ReferenceRejected(t) \/ ReferenceLoad(t)
  \/ ReferenceCas(t)
  \/ UnmapLoad(t) \/ UnmapCas(t)

AliasStep(t) ==
  AliasLoad(t) \/ AliasCas(t) \/ UnaliasLoad(t) \/ UnaliasCas(t)

Next ==
  \E t \in Threads : Start(t) \/ MappingStep(t) \/ AliasStep(t) \/ MapFull(t)

Spec == Init /\ [][Next]_vars

-----------------------------------------------------------------------------
\* No update is lost: whatever its loop did before, a successful swap of
\* Namespace_intern, Namespace_reference or Namespace_unmap changes one symbol
\* and keeps what other threads have installed meanwhile for the others.
NoLostUpdate ==
  [][/\ \A r, s \in Symbols :
          mappings'.map[r] # mappings.map[r] /\ mappings'.map[s] # mappings.map[s]
            => r = s
     /\ \A r, s \in Symbols :
          aliases'.map[r] # aliases.map[r] /\ aliases'.map[s] # aliases.map[s]
            => r = s]_vars

\* What is there is kept until it is unmapped or unaliased, whatever calls race:
\* an alias keeps its target (Namespace_addAlias throws), and a referral never
\* replaces a Var that is interned under the symbol (Namespace_reference throws).
KeptUntilRemoved ==
  [][\A s \in Symbols :
       /\ aliases.map[s] # Nil => aliases'.map[s] \in {aliases.map[s], Nil}
       /\ Interned(mappings.map[s]) => mappings'.map[s] \notin Foreign]_vars

\* Threads that intern a symbol at the same time all get the same Var until it
\* is unmapped, as long as the symbol has never referred to a foreign value.
CanonicalUnlessReferred ==
  \A s \in Symbols \ referred : Cardinality(canon[s]) <= 1
=============================================================================
