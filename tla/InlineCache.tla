---------------------------- MODULE InlineCache ----------------------------
(***************************************************************************)
(* The inline cache of one call site: the code that                        *)
(* InvokeManager::generateDynamicInstanceCall emits, InstanceCallSlowPath, *)
(* JITEngine::compileGeneric for the bridges of the call site, and the     *)
(* reclamation of the modules it replaces.                                 *)
(*                                                                         *)
(* All bridges of a call site have one module name, so activeCompilations  *)
(* and moduleTrackers hold at most one of them.  A bridge is known by the  *)
(* compilation that makes it; the thread of the compilation pool that runs *)
(* the compilation is known by the bridge.  Ebr is reduced to epochs: what *)
(* was retired goes when the global epoch is two higher.                   *)
(***************************************************************************)
EXTENDS Integers, FiniteSets

CONSTANTS
  Threads,
  Types,       \* types of the instances that the call site meets
  Bridges,     \* compilations
  None,
  LinkFails,   \* whether the symbol lookup after linking may fail
  InnerFlush,  \* whether the method is a Clojure function, which may flush
  MaxICEpoch,  \* bound: loads of classes or protocols
  MaxEpoch     \* bound: global epochs

ASSUME NoneAssumption == None \notin Bridges \cup Types
ASSUME BoundsAssumption ==
  /\ LinkFails \in BOOLEAN
  /\ InnerFlush \in BOOLEAN
  /\ MaxICEpoch \in Nat
  /\ MaxEpoch \in Nat

VARIABLES
  slot,         \* the InlineCache: key and value, read and written at once
  icEpoch,      \* globalMethodICEpoch, and the state of the class registry
  active,       \* the compilation in activeCompilations
  tracker,      \* the bridge in moduleTrackers
  stage,        \* stage[b]: how far the compilation of b is
  made,         \* made[b]: the type and the class registry b is compiled for
  code,         \* code[b]: where the machine code of b is in its life
  retiredAt,    \* retiredAt[b]: the epoch when the module of b was retired
  global_epoch,
  local_epoch,  \* local_epoch of every caller and of every compilation
  pc,           \* pc[t]: what the caller does next
  type,         \* type[t]: the type of its instance
  pair,         \* pair[t]: the contents of the slot it has loaded or stores
  bridge        \* bridge[t]: the compilation it waits for, the code it runs

vars == <<slot, icEpoch, active, tracker, stage, made, code, retiredAt,
          global_epoch, local_epoch, pc, type, pair, bridge>>
engineVars == <<active, tracker, stage, made, code, retiredAt>>
ebrVars    == <<global_epoch, local_epoch>>
callVars   == <<pc, type, pair, bridge>>

Out  == -1   \* local_epoch outside critical sections
Key(e, y) == [epoch |-> e, type |-> y]
Cell == [key : [epoch : 0 .. MaxICEpoch, type : Types], value : Bridges]
Zero == [key |-> Key(0, None), value |-> None]
Running == {"queued", "coded", "tracked"}

TypeOK ==
  /\ slot \in Cell \cup {Zero}
  /\ icEpoch \in 0 .. MaxICEpoch
  /\ active \in Bridges \cup {None}
  /\ tracker \in Bridges \cup {None}
  /\ stage \in [Bridges -> Running \cup {"unused", "linked", "broken",
                                         "done", "failed"}]
  /\ made \in [Bridges -> [epoch : 0 .. MaxICEpoch, type : Types \cup {None}]]
  /\ code \in [Bridges -> {"none", "loaded", "retired", "removed"}]
  /\ retiredAt \in [Bridges -> 0 .. MaxEpoch]
  /\ global_epoch \in 0 .. MaxEpoch
  /\ local_epoch \in [Threads \cup Bridges -> {Out} \cup 0 .. MaxEpoch]
  /\ pc \in [Threads -> {"out", "in", "compare", "miss", "wait", "reload",
                         "check", "store", "exec"}]
  /\ type \in [Threads -> Types \cup {None}]
  /\ pair \in [Threads -> Cell \cup {Zero}]
  /\ bridge \in [Threads -> Bridges \cup {None}]
  /\ \A t \in Threads : bridge[t] # None <=> pc[t] \in {"wait", "reload", "check",
                                                      "store", "exec"}

Init ==
  /\ slot = Zero
  /\ icEpoch = 0
  /\ active = None
  /\ tracker = None
  /\ stage = [b \in Bridges |-> "unused"]
  /\ made = [b \in Bridges |-> Key(0, None)]
  /\ code = [b \in Bridges |-> "none"]
  /\ retiredAt = [b \in Bridges |-> 0]
  /\ global_epoch = 0
  /\ local_epoch = [p \in Threads \cup Bridges |-> Out]
  /\ pc = [t \in Threads |-> "out"]
  /\ type = [t \in Threads |-> None]
  /\ pair = [t \in Threads |-> Zero]
  /\ bridge = [t \in Threads |-> None]

-----------------------------------------------------------------------------
Goto(t, from, to) == pc[t] = from /\ pc' = [pc EXCEPT ![t] = to]

\* Ebr_enter_critical, Ebr_flush_critical and Ebr_leave_critical of a caller.
SetLocal(p, e) == local_epoch' = [local_epoch EXCEPT ![p] = e]

Enter(t) ==
  /\ Goto(t, "out", "in")
  /\ SetLocal(t, global_epoch)
  /\ UNCHANGED <<slot, icEpoch, engineVars, global_epoch, type, pair, bridge>>

Flush(t) ==
  /\ pc[t] = "in" \/ (InnerFlush /\ pc[t] = "exec")
  /\ local_epoch[t] # global_epoch
  /\ SetLocal(t, global_epoch)
  /\ UNCHANGED <<slot, icEpoch, engineVars, global_epoch, callVars>>

Leave(t) ==
  /\ Goto(t, "in", "out")
  /\ SetLocal(t, Out)
  /\ UNCHANGED <<slot, icEpoch, engineVars, global_epoch, type, pair, bridge>>

Expired(b, e) == code[b] = "retired" /\ e - retiredAt[b] >= 2

\* Ebr_synchronize_and_reclaim; the release of a retired module is
\* destroyModule and JITEngine::removeModule.
Synchronize ==
  /\ global_epoch < MaxEpoch
  /\ \A p \in Threads \cup Bridges : local_epoch[p] \in {Out, global_epoch}
  /\ global_epoch' = global_epoch + 1
  /\ code' = [b \in Bridges |->
                IF Expired(b, global_epoch + 1) THEN "removed" ELSE code[b]]
  /\ UNCHANGED <<slot, icEpoch, active, tracker, stage, made, retiredAt,
                 local_epoch, callVars>>

\* storeInternalClasses and storeInternalProtocols; main calls them before it
\* starts user code.
StoreClasses ==
  /\ icEpoch < MaxICEpoch
  /\ \A t \in Threads : pc[t] \in {"out", "in"}
  /\ icEpoch' = icEpoch + 1
  /\ UNCHANGED <<slot, engineVars, ebrVars, callVars>>

-----------------------------------------------------------------------------
\* The compiled call: load the slot, then the epoch, and compare.  The guard
\* on Bridges is a bound: every caller that may miss finds a compilation.
InCall == {t \in Threads : pc[t] \in {"compare", "miss"}}

LoadSlot(t, y) ==
  /\ Cardinality({b \in Bridges : stage[b] = "unused"}) > Cardinality(InCall)
  /\ Goto(t, "in", "compare")
  /\ type' = [type EXCEPT ![t] = y]
  /\ pair' = [pair EXCEPT ![t] = slot]
  /\ UNCHANGED <<slot, icEpoch, engineVars, ebrVars, bridge>>

\* Mutant: the epoch is left out of the comparison.
HitTypeOnly(t) == pair[t].key.type = type[t]

Hit(t) == pair[t].key = Key(icEpoch, type[t])

Compare(t) ==
  /\ pc[t] = "compare"
  /\ IF Hit(t)
     THEN /\ pc' = [pc EXCEPT ![t] = "exec"]
          /\ bridge' = [bridge EXCEPT ![t] = pair[t].value]
     ELSE pc' = [pc EXCEPT ![t] = "miss"] /\ UNCHANGED bridge
  /\ UNCHANGED <<slot, icEpoch, engineVars, ebrVars, type, pair>>

\* compileGeneric under compilationMutex: a compilation of the same module is
\* joined, whatever type it is for; otherwise one is queued.
Request(t) ==
  /\ Goto(t, "miss", "wait")
  /\ IF active # None
     THEN /\ bridge' = [bridge EXCEPT ![t] = active]
          /\ UNCHANGED <<active, stage, made>>
     ELSE \E b \in Bridges :
            /\ stage[b] = "unused"
            /\ active' = b
            /\ stage' = [stage EXCEPT ![b] = "queued"]
            /\ made' = [made EXCEPT ![b].type = type[t]]
            /\ bridge' = [bridge EXCEPT ![t] = b]
  /\ UNCHANGED <<slot, icEpoch, tracker, code, retiredAt, ebrVars, type, pair>>

\* future.get() returns, or throws what the compilation threw.
Answer(t) ==
  /\ Goto(t, "wait", "reload")
  /\ stage[bridge[t]] = "done"
  /\ UNCHANGED <<slot, icEpoch, engineVars, ebrVars, type, pair, bridge>>

\* The call is over, by its return or by an exception.
Finish(t, from) ==
  /\ Goto(t, from, "in")
  /\ type' = [type EXCEPT ![t] = None]
  /\ pair' = [pair EXCEPT ![t] = Zero]
  /\ bridge' = [bridge EXCEPT ![t] = None]
  /\ UNCHANGED <<slot, icEpoch, engineVars, ebrVars>>

Rejected(t) == pc[t] = "wait" /\ stage[bridge[t]] = "failed" /\ Finish(t, "wait")

\* InstanceCallSlowPath loads the slot again, then the epoch; if someone has
\* updated the slot for the same type it returns what is there.
ReloadSlot(t) ==
  /\ Goto(t, "reload", "check")
  /\ pair' = [pair EXCEPT ![t] = slot]
  /\ UNCHANGED <<slot, icEpoch, engineVars, ebrVars, type, bridge>>

CheckSlot(t) ==
  /\ pc[t] = "check"
  /\ IF Hit(t)
     THEN /\ pc' = [pc EXCEPT ![t] = "exec"]
          /\ bridge' = [bridge EXCEPT ![t] = pair[t].value]
          /\ UNCHANGED pair
     ELSE /\ pc' = [pc EXCEPT ![t] = "store"]
          /\ pair' = [pair EXCEPT ![t] = [key |-> Key(icEpoch, type[t]),
                                          value |-> bridge[t]]]
          /\ UNCHANGED bridge
  /\ UNCHANGED <<slot, icEpoch, engineVars, ebrVars, type>>

StoreSlot(t) ==
  /\ Goto(t, "store", "exec")
  /\ slot' = pair[t]
  /\ UNCHANGED <<icEpoch, engineVars, ebrVars, type, pair, bridge>>

\* The bridge returns to the call site.
Return(t) == Finish(t, "exec")

-----------------------------------------------------------------------------
\* A thread of the pool takes the task, enters its critical section and
\* generates the code from the class registry, or throws.
Generate(b) ==
  /\ stage[b] = "queued"
  /\ SetLocal(b, global_epoch)
  /\ \/ /\ stage' = [stage EXCEPT ![b] = "coded"]
        /\ made' = [made EXCEPT ![b].epoch = icEpoch]
        /\ UNCHANGED active
     \/ /\ stage' = [stage EXCEPT ![b] = "broken"]
        /\ active' = None
        /\ UNCHANGED made
  /\ UNCHANGED <<slot, icEpoch, tracker, code, retiredAt, global_epoch, callVars>>

\* Mutant: the tracker of the old module is overwritten.
TrackOver(b) ==
  /\ stage[b] = "coded"
  /\ stage' = [stage EXCEPT ![b] = "tracked"]
  /\ tracker' = b
  /\ code' = [code EXCEPT ![b] = "loaded"]
  /\ UNCHANGED <<slot, icEpoch, active, made, retiredAt, ebrVars, callVars>>

\* Under engineMutex: the module of the same name is retired, and replaced.
Track(b) ==
  /\ stage[b] = "coded"
  /\ stage' = [stage EXCEPT ![b] = "tracked"]
  /\ tracker' = b
  /\ code' = [c \in Bridges |-> IF c = b THEN "loaded"
                                ELSE IF c = tracker THEN "retired" ELSE code[c]]
  /\ retiredAt' = [c \in Bridges |->
                     IF c = tracker THEN global_epoch ELSE retiredAt[c]]
  /\ UNCHANGED <<slot, icEpoch, active, made, ebrVars, callVars>>

\* The lookup links the module; then activeCompilations forgets the module,
\* after a failure too.
Link(b) ==
  /\ stage[b] = "tracked"
  /\ \/ stage' = [stage EXCEPT ![b] = "linked"]
     \/ LinkFails /\ stage' = [stage EXCEPT ![b] = "broken"]
  /\ active' = None
  /\ UNCHANGED <<slot, icEpoch, tracker, made, code, retiredAt, ebrVars, callVars>>

\* Mutant: the exception of a task does not reach its future.
FulfilSuccess(b) ==
  /\ stage[b] = "linked"
  /\ stage' = [stage EXCEPT ![b] = "done"]
  /\ UNCHANGED <<slot, icEpoch, active, tracker, made, code, retiredAt, ebrVars,
                 callVars>>

\* The task returns or throws, and the future with it.
Fulfil(b) ==
  /\ \/ stage[b] = "linked" /\ stage' = [stage EXCEPT ![b] = "done"]
     \/ stage[b] = "broken" /\ stage' = [stage EXCEPT ![b] = "failed"]
  /\ UNCHANGED <<slot, icEpoch, active, tracker, made, code, retiredAt, ebrVars,
                 callVars>>

\* The thread of the pool leaves the critical section of the task.
LeaveTask(b) ==
  /\ stage[b] \in {"done", "failed"}
  /\ local_epoch[b] # Out
  /\ SetLocal(b, Out)
  /\ UNCHANGED <<slot, icEpoch, engineVars, global_epoch, callVars>>

-----------------------------------------------------------------------------
CallStep(t) ==
  \/ Compare(t) \/ Request(t) \/ Answer(t) \/ Rejected(t) \/ ReloadSlot(t)
  \/ CheckSlot(t) \/ StoreSlot(t) \/ Return(t)

Task(b) == Generate(b) \/ Track(b) \/ Link(b) \/ Fulfil(b) \/ LeaveTask(b)

Next ==
  \/ \E t \in Threads : Enter(t) \/ Flush(t) \/ Leave(t) \/ CallStep(t)
  \/ \E t \in Threads, y \in Types : LoadSlot(t, y)
  \/ \E b \in Bridges : Task(b)
  \/ Synchronize
  \/ StoreClasses

Spec == Init /\ [][Next]_vars

\* A caller in the middle of a call goes on, and the pool runs its tasks.
FairSpec ==
  /\ Spec
  /\ \A t \in Threads : WF_vars(CallStep(t))
  /\ \A b \in Bridges : WF_vars(Task(b))

-----------------------------------------------------------------------------
\* After a load of classes no caller runs a bridge compiled before it: that is
\* what the epoch in the key is for.
FreshCode ==
  \A t \in Threads : pc[t] = "exec" => made[bridge[t]].epoch = icEpoch

\* No module is lost: what has been loaded is the one in moduleTrackers, or it
\* was handed to Ebr.
NoModuleLost == \A b \in Bridges : code[b] = "loaded" => b = tracker

\* Every miss is answered: no caller waits for ever for its bridge, also when
\* the compilation it joined fails.
CallsEnd == \A t \in Threads : pc[t] \in {"miss", "wait"} ~> pc[t] \in {"in", "exec"}
=============================================================================
