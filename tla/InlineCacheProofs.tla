-------------------------- MODULE InlineCacheProofs -------------------------
(***************************************************************************)
(* The inline cache of a call site runs no stale bridge and loses no       *)
(* module, for any number of callers, types and compilations.              *)
(***************************************************************************)
EXTENDS InlineCache, TLAPS

Pending == Running \cup {"linked", "broken"}

\* activeCompilations holds the compilation that runs, if there is one.
ActiveRuns == \A b \in Bridges : b = active <=> stage[b] \in Running

\* Someone waits for every compilation that has not yet answered.
Awaited ==
  \A b \in Bridges :
    stage[b] \in Pending => \E t \in Threads : pc[t] = "wait" /\ bridge[t] = b

\* A compilation is made for the classes that are loaded.
Fresh(b) == made[b].epoch = icEpoch
FreshBuilds ==
  \A b \in Bridges : stage[b] \in {"coded", "tracked", "linked"} => Fresh(b)

\* Contents of the slot: a finished bridge, and one for the loaded classes if
\* the key says so.
Sound(p) ==
  p.value # None =>
    /\ stage[p.value] = "done"
    /\ p.key.epoch <= icEpoch
    /\ p.key.epoch = icEpoch => Fresh(p.value)

\* What a caller knows of the bridge and of the slot.
CallSound(t) ==
  /\ pc[t] \notin {"out", "in"} => type[t] \in Types
  /\ pc[t] = "wait" => /\ stage[bridge[t]] # "unused"
                       /\ stage[bridge[t]] = "done" => Fresh(bridge[t])
  /\ pc[t] \in {"reload", "check", "store", "exec"} =>
       stage[bridge[t]] = "done" /\ Fresh(bridge[t])
  /\ pc[t] \in {"compare", "check"} => Sound(pair[t])
  /\ pc[t] = "store" => pair[t].value = bridge[t] /\ pair[t].key.epoch = icEpoch

\* moduleTrackers has the module that is loaded, and no other.
Tracked == \A b \in Bridges : code[b] = "loaded" <=> b = tracker

ICInv ==
  /\ TypeOK /\ ActiveRuns /\ Awaited /\ FreshBuilds
  /\ Sound(slot) /\ (\A t \in Threads : CallSound(t)) /\ Tracked
-----------------------------------------------------------------------------

\* Contents of the slot are empty or have a bridge, a type and an epoch.
LEMMA CellFacts ==
  ASSUME NEW p \in Cell \cup {Zero}
  PROVE  /\ p.value \in Bridges \cup {None}
         /\ p.key.epoch \in 0 .. MaxICEpoch
         /\ p.key.type \in Types => p.value \in Bridges
BY NoneAssumption, BoundsAssumption DEF Cell, Zero, Key

\* A hit is on contents that are sound, with a bridge for the loaded classes.
LEMMA HitFacts ==
  ASSUME ICInv, NEW t \in Threads, pc[t] \in {"compare", "check"}, Hit(t)
  PROVE  /\ pair[t].value \in Bridges
         /\ stage[pair[t].value] = "done" /\ Fresh(pair[t].value)
<1>1. pair[t] \in Cell \cup {Zero} /\ type[t] \in Types /\ Sound(pair[t])
  BY DEF ICInv, TypeOK, CallSound
<1>2. pair[t].key.type = type[t] /\ pair[t].key.epoch = icEpoch
  BY DEF Hit, Key
<1>3. pair[t].value \in Bridges
  BY <1>1, <1>2, CellFacts
<1>4. QED
  BY <1>1, <1>2, <1>3, NoneAssumption DEF Sound

\* What holds of the engine and of the calls a step leaves alone.
LEMMA EngineKept ==
  ASSUME ICInv, UNCHANGED <<slot, icEpoch, active, tracker, stage, made, code>>
  PROVE  /\ ActiveRuns' /\ FreshBuilds' /\ Sound(slot)' /\ Tracked'
         /\ \A u \in Threads :
              (/\ pc'[u] = pc[u] /\ type'[u] = type[u]
               /\ pair'[u] = pair[u] /\ bridge'[u] = bridge[u]) => CallSound(u)'
BY DEF ICInv, ActiveRuns, FreshBuilds, Fresh, Sound, Tracked, CallSound

-----------------------------------------------------------------------------
\* Critical sections of the callers.
LEMMA CriticalStep ==
  ASSUME ICInv, NEW t \in Threads, Enter(t) \/ Flush(t) \/ Leave(t)
  PROVE  ICInv'
<1> USE DEF ICInv, TypeOK, Enter, Flush, Leave, Goto, SetLocal, engineVars, callVars
<1>1. TypeOK'
  BY DEF Out
<1>2. Awaited'
  BY DEF Awaited
<1>3. CallSound(t)'
  BY DEF CallSound, Sound, Fresh
<1>4. QED
  BY <1>1, <1>2, <1>3, EngineKept

\* The call site loads the slot.
LEMMA LoadSlotStep ==
  ASSUME ICInv, NEW t \in Threads, NEW y \in Types, LoadSlot(t, y)
  PROVE  ICInv'
<1> USE DEF ICInv, TypeOK, LoadSlot, Goto, engineVars, ebrVars
<1>1. TypeOK'
  OBVIOUS
<1>2. Awaited'
  BY DEF Awaited
<1>3. CallSound(t)'
  BY DEF CallSound, Sound, Fresh
<1>4. QED
  BY <1>1, <1>2, <1>3, EngineKept

\* The call site compares the key, and runs the bridge or misses.
LEMMA CompareStep ==
  ASSUME ICInv, NEW t \in Threads, Compare(t)
  PROVE  ICInv'
<1> USE DEF ICInv
<1>1. /\ pc[t] = "compare"
      /\ UNCHANGED <<slot, icEpoch, engineVars, ebrVars, type, pair>>
  BY DEF Compare
<1>2. CASE Hit(t)
  <2>1. /\ pair[t].value \in Bridges
        /\ stage[pair[t].value] = "done" /\ Fresh(pair[t].value)
    BY <1>1, <1>2, HitFacts
  <2>2. /\ pc' = [pc EXCEPT ![t] = "exec"]
        /\ bridge' = [bridge EXCEPT ![t] = pair[t].value]
    BY <1>2 DEF Compare
  <2>3. TypeOK' /\ Awaited' /\ CallSound(t)'
    BY <1>1, <2>1, <2>2, NoneAssumption
       DEF TypeOK, Awaited, CallSound, Fresh, engineVars, ebrVars
  <2>4. QED
    BY <1>1, <2>2, <2>3, EngineKept DEF TypeOK, engineVars
<1>3. CASE ~Hit(t)
  <2>1. pc' = [pc EXCEPT ![t] = "miss"] /\ UNCHANGED bridge
    BY <1>3 DEF Compare
  <2>2. TypeOK' /\ Awaited' /\ CallSound(t)'
    BY <1>1, <2>1 DEF TypeOK, Awaited, CallSound, engineVars, ebrVars
  <2>3. QED
    BY <1>1, <2>1, <2>2, EngineKept DEF TypeOK, engineVars
<1>4. QED
  BY <1>2, <1>3

\* compileGeneric joins the compilation that runs.
LEMMA JoinStep ==
  ASSUME ICInv, NEW t \in Threads, Request(t), active # None
  PROVE  ICInv'
<1> USE DEF ICInv, TypeOK, Request, Goto, ebrVars
<1>1. TypeOK'
  OBVIOUS
<1>2. Awaited'
  BY DEF Awaited
<1>3. CallSound(t)'
  BY DEF CallSound, ActiveRuns, Running
<1>4. QED
  BY <1>1, <1>2, <1>3, EngineKept

\* compileGeneric queues a compilation.
LEMMA QueueStep ==
  ASSUME ICInv, NEW t \in Threads, Request(t), active = None
  PROVE  ICInv'
<1> USE DEF ICInv
<1>1. PICK b \in Bridges :
        /\ stage[b] = "unused"
        /\ active' = b
        /\ stage' = [stage EXCEPT ![b] = "queued"]
        /\ made' = [made EXCEPT ![b].type = type[t]]
        /\ bridge' = [bridge EXCEPT ![t] = b]
  BY DEF Request
<1>2. /\ pc[t] = "miss" /\ pc' = [pc EXCEPT ![t] = "wait"]
      /\ UNCHANGED <<slot, icEpoch, tracker, code, retiredAt, ebrVars, type, pair>>
  BY DEF Request, Goto
<1>3. TypeOK'
  <2>1. made' \in [Bridges -> [epoch : 0 .. MaxICEpoch, type : Types \cup {None}]]
    BY <1>1, <1>2 DEF TypeOK, CallSound
  <2>2. QED
    BY <1>1, <1>2, <2>1, NoneAssumption DEF TypeOK, ebrVars, Running
<1>4. ActiveRuns' /\ Tracked'
  BY <1>1, <1>2, NoneAssumption DEF ActiveRuns, Tracked, Running, TypeOK
<1>5. Awaited'
  BY <1>1, <1>2 DEF Awaited, TypeOK
<1>6. FreshBuilds'
  BY <1>1, <1>2 DEF FreshBuilds, Fresh, TypeOK
<1>7. \A c \in Bridges : c # b => stage'[c] = stage[c] /\ made'[c] = made[c]
  BY <1>1 DEF TypeOK
<1>8. Sound(slot)'
  BY <1>1, <1>2, <1>7, CellFacts DEF Sound, Fresh, TypeOK
<1>9. \A u \in Threads : CallSound(u)'
  <2>1. CallSound(t)'
    BY <1>1, <1>2 DEF CallSound, TypeOK
  <2>2. ASSUME NEW u \in Threads, u # t PROVE CallSound(u)'
    <3>1. /\ pc'[u] = pc[u] /\ bridge'[u] = bridge[u]
          /\ CallSound(u) /\ pair[u] \in Cell \cup {Zero}
      BY <1>1, <1>2, <2>2 DEF TypeOK
    <3>2. pc[u] \in {"compare", "check"} => Sound(pair[u])'
      BY <1>1, <1>2, <1>7, <3>1, CellFacts DEF CallSound, Sound, Fresh
    <3>3. pc[u] \in {"wait", "reload", "check", "store", "exec"} =>
            bridge[u] \in Bridges /\ bridge[u] # b
      BY <1>1, <3>1 DEF CallSound, TypeOK
    <3>4. QED
      BY <1>2, <1>7, <3>1, <3>2, <3>3 DEF CallSound, Fresh
  <2>3. QED
    BY <2>1, <2>2
<1>10. QED
  BY <1>3, <1>4, <1>5, <1>6, <1>8, <1>9

\* The future answers, and the slot is read again.
LEMMA AnswerStep ==
  ASSUME ICInv, NEW t \in Threads, Answer(t) \/ ReloadSlot(t)
  PROVE  ICInv'
<1> USE DEF ICInv, TypeOK, Answer, ReloadSlot, Goto, engineVars, ebrVars
<1>1. TypeOK'
  OBVIOUS
<1>2. Awaited'
  BY DEF Awaited, Pending, Running
<1>3. CallSound(t)'
  BY DEF CallSound, Sound, Fresh
<1>4. QED
  BY <1>1, <1>2, <1>3, EngineKept

\* The call returns, or ends with the exception of the compilation.
LEMMA FinishStep ==
  ASSUME ICInv, NEW t \in Threads, Rejected(t) \/ Return(t)
  PROVE  ICInv'
<1> USE DEF ICInv, engineVars, ebrVars
<1>1. /\ pc[t] = "exec" \/ (pc[t] = "wait" /\ stage[bridge[t]] = "failed")
      /\ pc' = [pc EXCEPT ![t] = "in"] /\ type' = [type EXCEPT ![t] = None]
      /\ pair' = [pair EXCEPT ![t] = Zero] /\ bridge' = [bridge EXCEPT ![t] = None]
      /\ UNCHANGED <<slot, icEpoch, engineVars, ebrVars>>
  BY DEF Rejected, Return, Finish, Goto
<1>2. TypeOK'
  BY <1>1 DEF TypeOK
<1>3. Awaited'
  BY <1>1 DEF Awaited, Pending, Running, TypeOK
<1>4. CallSound(t)'
  BY <1>1 DEF CallSound, TypeOK
<1>5. \A u \in Threads \ {t} : /\ pc'[u] = pc[u] /\ type'[u] = type[u]
                              /\ pair'[u] = pair[u] /\ bridge'[u] = bridge[u]
  BY <1>1 DEF TypeOK
<1>6. QED
  BY <1>1, <1>2, <1>3, <1>4, <1>5, EngineKept

\* The slow path runs what it finds in the slot or prepares to store its own
\* bridge.
LEMMA CheckSlotStep ==
  ASSUME ICInv, NEW t \in Threads, CheckSlot(t)
  PROVE  ICInv'
<1> USE DEF ICInv, engineVars, ebrVars
<1>1. CASE Hit(t)
  <2>1. /\ pair[t].value \in Bridges
        /\ stage[pair[t].value] = "done" /\ Fresh(pair[t].value)
    BY <1>1, HitFacts DEF CheckSlot
  <2>2. /\ pc[t] = "check" /\ pc' = [pc EXCEPT ![t] = "exec"]
        /\ bridge' = [bridge EXCEPT ![t] = pair[t].value]
        /\ UNCHANGED <<slot, icEpoch, engineVars, ebrVars, type, pair>>
    BY <1>1 DEF CheckSlot
  <2>3. TypeOK' /\ Awaited' /\ CallSound(t)'
    BY <2>1, <2>2, NoneAssumption DEF TypeOK, Awaited, CallSound, Fresh
  <2>4. QED
    BY <2>2, <2>3, EngineKept DEF TypeOK
<1>2. CASE ~Hit(t)
  <2> DEFINE p == [key |-> Key(icEpoch, type[t]), value |-> bridge[t]]
  <2>1. p \in Cell /\ p.key.epoch = icEpoch /\ p.value = bridge[t]
    BY NoneAssumption DEF Cell, Key, TypeOK, CallSound, CheckSlot
  <2>2. /\ pc[t] = "check" /\ pc' = [pc EXCEPT ![t] = "store"]
        /\ pair' = [pair EXCEPT ![t] = p]
        /\ UNCHANGED <<slot, icEpoch, engineVars, ebrVars, type, bridge>>
    BY <1>2 DEF CheckSlot
  <2> HIDE DEF p
  <2>3. TypeOK'
    BY <2>1, <2>2 DEF TypeOK
  <2>4. Awaited'
    BY <2>2 DEF TypeOK, Awaited
  <2>5. CallSound(t)'
    BY <2>1, <2>2 DEF TypeOK, CallSound, Fresh
  <2>6. QED
    BY <2>2, <2>3, <2>4, <2>5, EngineKept DEF TypeOK
<1>3. QED
  BY <1>1, <1>2

\* The slow path stores its bridge.
LEMMA StoreSlotStep ==
  ASSUME ICInv, NEW t \in Threads, StoreSlot(t)
  PROVE  ICInv'
<1> USE DEF ICInv, TypeOK, StoreSlot, Goto, engineVars, ebrVars
<1>1. TypeOK'
  OBVIOUS
<1>2. Awaited' /\ ActiveRuns' /\ FreshBuilds' /\ Tracked'
  BY DEF Awaited, ActiveRuns, FreshBuilds, Fresh, Tracked
<1>3. Sound(slot)'
  BY BoundsAssumption DEF Sound, Fresh, CallSound
<1>4. \A u \in Threads : CallSound(u)'
  BY DEF CallSound, Sound, Fresh
<1>5. QED
  BY <1>1, <1>2, <1>3, <1>4

-----------------------------------------------------------------------------
\* A step of the compilation b keeps what others know, if b was not done and
\* what is made of it does not matter to them.
LEMMA BuildKeeps ==
  ASSUME ICInv, NEW b \in Bridges, stage[b] \notin {"unused", "done"},
         UNCHANGED <<slot, icEpoch, pc, type, pair, bridge>>,
         \A c \in Bridges : c # b => stage'[c] = stage[c] /\ made'[c] = made[c],
         stage'[b] # "unused", stage'[b] = "done" => Fresh(b)'
  PROVE  Sound(slot)' /\ \A u \in Threads : CallSound(u)'
<1> USE DEF ICInv
<1>1. ASSUME NEW p \in Cell \cup {Zero}, Sound(p) PROVE Sound(p)'
  BY <1>1, CellFacts DEF Sound, Fresh
<1>2. Sound(slot)'
  BY <1>1 DEF TypeOK, Sound
<1>3. ASSUME NEW u \in Threads PROVE CallSound(u)'
  <2>1. CallSound(u) /\ pair[u] \in Cell \cup {Zero}
    BY DEF TypeOK
  <2>2. pc[u] \in {"compare", "check"} => Sound(pair[u])'
    BY <1>1, <2>1 DEF CallSound, Sound
  <2>3. pc[u] \in {"wait", "reload", "check", "store", "exec"} => bridge[u] \in Bridges
    BY DEF TypeOK
  <2>4. QED
    BY <2>1, <2>2, <2>3 DEF CallSound, Fresh
<1>4. QED
  BY <1>2, <1>3

\* The task generates the code of its bridge, or throws.
LEMMA GenerateStep ==
  ASSUME ICInv, NEW b \in Bridges, Generate(b)
  PROVE  ICInv'
<1> USE DEF ICInv, Generate, SetLocal, callVars
<1>1. /\ made' \in [Bridges -> [epoch : 0 .. MaxICEpoch, type : Types \cup {None}]]
      /\ \A c \in Bridges : c # b => made'[c] = made[c]
      /\ stage'[b] = "coded" => Fresh(b)'
  <2>1. CASE /\ stage' = [stage EXCEPT ![b] = "coded"]
             /\ made' = [made EXCEPT ![b].epoch = icEpoch]
    <3>1. made'[b] = [made[b] EXCEPT !.epoch = icEpoch]
      BY <2>1 DEF TypeOK
    <3>2. Fresh(b)'
      BY <3>1 DEF TypeOK, Fresh
    <3>3. made'[b] \in [epoch : 0 .. MaxICEpoch, type : Types \cup {None}]
      BY <3>1 DEF TypeOK
    <3>4. QED
      BY <2>1, <3>2, <3>3 DEF TypeOK
  <2>2. CASE stage' = [stage EXCEPT ![b] = "broken"] /\ UNCHANGED made
    BY <2>2 DEF TypeOK
  <2>3. QED
    BY <2>1, <2>2
<1>2. /\ stage[b] = "queued" /\ stage'[b] \in {"coded", "broken"}
      /\ \A c \in Bridges : c # b => stage'[c] = stage[c]
      /\ active' = IF stage'[b] = "coded" THEN active ELSE None
  BY DEF TypeOK
<1>3. TypeOK'
  BY <1>1 DEF TypeOK, Out, Running
<1>4. ActiveRuns'
  BY <1>2, NoneAssumption DEF TypeOK, ActiveRuns, Running
<1>5. Awaited' /\ Tracked'
  BY <1>2 DEF TypeOK, Awaited, Tracked, Pending, Running
<1>6. FreshBuilds'
  BY <1>1, <1>2 DEF TypeOK, FreshBuilds, Fresh
<1>7. Sound(slot)' /\ \A u \in Threads : CallSound(u)'
  BY <1>1, <1>2, BuildKeeps
<1>8. QED
  BY <1>3, <1>4, <1>5, <1>6, <1>7

\* The module is added, and the one of the same name is retired.
LEMMA TrackStep ==
  ASSUME ICInv, NEW b \in Bridges, Track(b)
  PROVE  ICInv'
<1> USE DEF ICInv, TypeOK, Track, ebrVars, callVars
<1>1. TypeOK'
  BY DEF Running
<1>2. ActiveRuns' /\ Awaited' /\ FreshBuilds'
  BY DEF ActiveRuns, Awaited, FreshBuilds, Fresh, Pending, Running
<1>3. Tracked'
  <2> SUFFICES ASSUME NEW c \in Bridges PROVE code'[c] = "loaded" <=> c = b
    BY DEF Tracked
  <2>1. CASE c = b
    BY <2>1
  <2>2. CASE c # b /\ c = tracker
    BY <2>2
  <2>3. CASE c # b /\ c # tracker
    <3>1. code'[c] = code[c] /\ code[c] # "loaded"
      BY <2>3 DEF Tracked
    <3>2. QED
      BY <2>3, <3>1
  <2>4. QED
    BY <2>1, <2>2, <2>3
<1>4. Sound(slot)' /\ \A u \in Threads : CallSound(u)'
  BY BuildKeeps
<1>5. QED
  BY <1>1, <1>2, <1>3, <1>4

\* The module is linked and activeCompilations forgets it.
LEMMA LinkStep ==
  ASSUME ICInv, NEW b \in Bridges, Link(b)
  PROVE  ICInv'
<1> USE DEF ICInv, TypeOK, Link, ebrVars, callVars
<1>1. TypeOK'
  BY DEF Running
<1>2. ActiveRuns'
  BY NoneAssumption DEF ActiveRuns, Running
<1>3. Awaited' /\ FreshBuilds' /\ Tracked'
  BY DEF Awaited, FreshBuilds, Fresh, Tracked, Pending, Running
<1>4. Sound(slot)' /\ \A u \in Threads : CallSound(u)'
  BY BuildKeeps
<1>5. QED
  BY <1>1, <1>2, <1>3, <1>4

\* The future has its value or its exception.
LEMMA FulfilStep ==
  ASSUME ICInv, NEW b \in Bridges, Fulfil(b)
  PROVE  ICInv'
<1> USE DEF ICInv, TypeOK, Fulfil, ebrVars, callVars
<1>1. TypeOK'
  BY DEF Running
<1>2. ActiveRuns'
  BY DEF ActiveRuns, Running
<1>3. Awaited' /\ FreshBuilds' /\ Tracked'
  BY DEF Awaited, FreshBuilds, Fresh, Tracked, Pending, Running
<1>4. stage'[b] = "done" => Fresh(b)'
  BY DEF FreshBuilds, Fresh
<1>5. Sound(slot)' /\ \A u \in Threads : CallSound(u)'
  BY <1>4, BuildKeeps
<1>6. QED
  BY <1>1, <1>2, <1>3, <1>5

\* The pool thread leaves its critical section.
LEMMA LeaveTaskStep ==
  ASSUME ICInv, NEW b \in Bridges, LeaveTask(b)
  PROVE  ICInv'
<1> USE DEF ICInv, TypeOK, LeaveTask, SetLocal, engineVars, callVars
<1>1. TypeOK'
  BY DEF Out
<1>2. Awaited'
  BY DEF Awaited
<1>3. QED
  BY <1>1, <1>2, EngineKept

\* The epoch advances and retired modules are removed.
LEMMA SynchronizeStep ==
  ASSUME ICInv, Synchronize
  PROVE  ICInv'
<1> USE DEF ICInv, TypeOK, Synchronize, callVars
<1>1. TypeOK'
  BY BoundsAssumption
<1>2. ActiveRuns' /\ Awaited' /\ FreshBuilds' /\ Sound(slot)'
  BY DEF ActiveRuns, Awaited, FreshBuilds, Fresh, Sound
<1>3. \A u \in Threads : CallSound(u)'
  BY DEF CallSound, Sound, Fresh
<1>4. Tracked'
  BY DEF Tracked, Expired
<1>5. QED
  BY <1>1, <1>2, <1>3, <1>4

\* Classes are loaded while nobody is in a call, so nothing is being compiled
\* and what is in the slot has an older epoch from now on.
LEMMA StoreClassesStep ==
  ASSUME ICInv, StoreClasses
  PROVE  ICInv'
<1> USE DEF ICInv, StoreClasses, engineVars, ebrVars, callVars
<1>1. TypeOK'
  BY BoundsAssumption DEF TypeOK
<1>2. ActiveRuns' /\ Awaited' /\ Tracked'
  BY DEF ActiveRuns, Awaited, Tracked
<1>3. FreshBuilds'
  BY DEF FreshBuilds, Awaited, Pending, Running
<1>4. Sound(slot)'
  <2>1. slot \in Cell \cup {Zero} /\ icEpoch \in Nat /\ icEpoch' = icEpoch + 1
    BY BoundsAssumption DEF TypeOK
  <2>2. slot.key.epoch \in Nat
    BY <2>1, CellFacts, BoundsAssumption
  <2>3. QED
    BY <2>1, <2>2 DEF Sound
<1>5. \A u \in Threads : CallSound(u)'
  BY DEF CallSound
<1>6. QED
  BY <1>1, <1>2, <1>3, <1>4, <1>5

-----------------------------------------------------------------------------
\* The inductive invariant of the call site.
THEOREM ICInvariant == Spec => []ICInv
<1>1. Init => ICInv
  <2> SUFFICES ASSUME Init PROVE ICInv
    OBVIOUS
  <2>1. TypeOK
    BY BoundsAssumption, NoneAssumption DEF Init, TypeOK, Key, Out
  <2>2. ActiveRuns /\ Awaited /\ FreshBuilds /\ Tracked
    BY NoneAssumption
       DEF Init, ActiveRuns, Awaited, FreshBuilds, Tracked, Pending, Running
  <2>3. Sound(slot) /\ \A t \in Threads : CallSound(t)
    BY DEF Init, Zero, Sound, CallSound
  <2>4. QED
    BY <2>1, <2>2, <2>3 DEF ICInv
<1>2. ICInv /\ [Next]_vars => ICInv'
  <2>1. ASSUME ICInv, Next PROVE ICInv'
    BY <2>1, CriticalStep, LoadSlotStep, CompareStep, JoinStep, QueueStep,
       AnswerStep, FinishStep, CheckSlotStep, StoreSlotStep, GenerateStep,
       TrackStep, LinkStep, FulfilStep, LeaveTaskStep, SynchronizeStep,
       StoreClassesStep
       DEF Next, CallStep, Task
  <2>2. ASSUME ICInv, UNCHANGED vars PROVE ICInv'
    <3> USE <2>2 DEF ICInv, vars
    <3>1. TypeOK'
      BY DEF TypeOK
    <3>2. Awaited'
      BY DEF Awaited
    <3>3. QED
      BY <3>1, <3>2, EngineKept
  <2>3. QED
    BY <2>1, <2>2
<1>3. QED
  BY <1>1, <1>2, PTL DEF Spec

\* After a load of classes no caller runs a bridge compiled before it
\* (generateDynamicInstanceCall, InstanceCallSlowPath).
THEOREM FreshCodeTheorem == Spec => []FreshCode
<1>1. ICInv => FreshCode
  BY DEF ICInv, CallSound, Fresh, FreshCode
<1>2. QED
  BY <1>1, ICInvariant, PTL

\* No loaded module is lost by compileGeneric when it replaces the tracker.
THEOREM NoModuleLostTheorem == Spec => []NoModuleLost
<1>1. ICInv => NoModuleLost
  BY DEF ICInv, Tracked, NoModuleLost
<1>2. QED
  BY <1>1, ICInvariant, PTL

\* A call site is compiled once at a time: activeCompilations keeps a second
\* request from compiling a module of the same name.
OneCompilation ==
  \A b, c \in Bridges : stage[b] \in Running /\ stage[c] \in Running => b = c

\* compileGeneric never runs two compilations of one module name.
THEOREM OneCompilationTheorem == Spec => []OneCompilation
<1>1. ICInv => OneCompilation
  BY DEF ICInv, ActiveRuns, OneCompilation
<1>2. QED
  BY <1>1, ICInvariant, PTL
=============================================================================
