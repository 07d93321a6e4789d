------------------------- MODULE ConcurrentHashMap -------------------------
(***************************************************************************)
(* runtime/ConcurrentHashMap.c: an open-addressing table after Preshing's  *)
(* Leapfrog.  The cells of a bucket are chained by byte-sized distances:   *)
(* longLeap leads from the home cell to the second cell of the bucket,     *)
(* shortLeap from there on.  A cell is claimed by a compare-and-swap of    *)
(* its keyHash, linked, and published by the store of its key; whoever     *)
(* meets a claimed cell of his bucket helps to link it.                    *)
(*                                                                         *)
(* Every step is one atomic access of a cell.  A load of keyHash and the   *)
(* compare-and-swap that follows when it is 0 are one step: a keyHash      *)
(* never changes again once it is set.                                     *)
(***************************************************************************)
EXTENDS Integers

CONSTANTS
  Threads, Keys, Values,
  Null,              \* RT_boxNull
  Size,              \* of the table: sizeMask + 1
  resizingThreshold, \* how far an insertion looks for a free cell
  Hash               \* Hash[k]: the hash of k, where 0 counts as 1

ASSUME SizeAssumption == Size \in Nat \ {0}
ASSUME ThresholdAssumption == resizingThreshold \in 1 .. (Size - 1)
ASSUME HashAssumption == Hash \in [Keys -> Nat \ {0}]
ASSUME NullAssumption == Null \notin Keys \cup Values

Index == 0 .. (Size - 1)
Cell == [key : Keys \cup {Null}, value : Values \cup {Null},
         keyHash : Nat, shortLeap : 0 .. Size, longLeap : 0 .. Size]
Empty == [key |-> Null, value |-> Null, keyHash |-> 0,
          shortLeap |-> 0, longLeap |-> 0]

VARIABLES
  array,     \* the cells
  request,   \* request[t]: the call that t is in, or NoRequest
  answer,    \* answer[t]: what the call returns
  pc,
  idx,       \* idx[t]: the cell t looks at
  link,      \* link[t]: the cell whose leap t follows or sets
  leap,      \* leap[t]: "shortLeap" or "longLeap"
  probes,    \* linearProbesRemaining
  seen       \* history: the values that the key has had during the call

vars == <<array, request, answer, pc, idx, link, leap, probes, seen>>

Contents == [k \in Keys |->
               IF \E i \in Index : array[i].key = k
               THEN array[CHOOSE i \in Index : array[i].key = k].value
               ELSE Null]

Map == INSTANCE ConcurrentMap WITH map <- Contents

ASSUME AnswersAssumption == Values \cap {Map!Pending, Map!Nil, Map!Overflow} = {}

Steps == {"idle", "home", "same", "link", "hop", "probe", "joined", "setlink",
          "join", "value", "key", "found", "look", "match", "take", "next",
          "return"}

TypeOK ==
  /\ array \in [Index -> Cell]
  /\ request \in [Threads -> Map!Requests \cup {Map!NoRequest}]
  /\ answer \in [Threads -> Values \cup {Map!Pending, Map!Nil, Map!Overflow}]
  /\ pc \in [Threads -> Steps]
  /\ idx \in [Threads -> Index]
  /\ link \in [Threads -> Index]
  /\ leap \in [Threads -> {"shortLeap", "longLeap"}]
  /\ probes \in [Threads -> 0 .. resizingThreshold]
  /\ seen \in [Threads -> SUBSET (Values \cup {Null})]

\* ConcurrentHashMap_create.
Init ==
  /\ array = [i \in Index |-> Empty]
  /\ request = [t \in Threads |-> Map!NoRequest]
  /\ answer = [t \in Threads |-> Map!Pending]
  /\ pc = [t \in Threads |-> "idle"]
  /\ idx = [t \in Threads |-> 0]
  /\ link = [t \in Threads |-> 0]
  /\ leap = [t \in Threads |-> "longLeap"]
  /\ probes = [t \in Threads |-> 0]
  /\ seen = [t \in Threads |-> {}]

-----------------------------------------------------------------------------
Key(t)  == request[t].key
KeyHash(t) == Hash[Key(t)]
Bucket(h) == h % Size
At(t) == array[idx[t]]

Goto(t, step) == pc' = [pc EXCEPT ![t] = step]

\* The distance from the cell of the link to the current one.
Delta(t) == (idx[t] - link[t]) % Size

Call(t, r) ==
  /\ pc[t] = "idle"
  /\ request' = [request EXCEPT ![t] = r]
  /\ idx' = [idx EXCEPT ![t] = Bucket(Hash[r.key])]
  /\ seen' = [seen EXCEPT ![t] = {Contents[r.key]}]
  /\ Goto(t, IF r.op \in Map!Lookups THEN "look" ELSE "home")
  /\ UNCHANGED <<array, answer, link, leap, probes>>

Return(t) ==
  /\ pc[t] = "return"
  /\ request' = [request EXCEPT ![t] = Map!NoRequest]
  /\ answer' = [answer EXCEPT ![t] = Map!Pending]
  /\ idx' = [idx EXCEPT ![t] = 0]
  /\ link' = [link EXCEPT ![t] = 0]
  /\ leap' = [leap EXCEPT ![t] = "longLeap"]
  /\ probes' = [probes EXCEPT ![t] = 0]
  /\ seen' = [seen EXCEPT ![t] = {}]
  /\ Goto(t, "idle")
  /\ UNCHANGED array

\* insertOrFind returns: its locals are gone.
LeaveInsert(t) ==
  /\ link' = [link EXCEPT ![t] = 0]
  /\ leap' = [leap EXCEPT ![t] = "longLeap"]
  /\ probes' = [probes EXCEPT ![t] = 0]

Claim(t) == array' = [array EXCEPT ![idx[t]].keyHash = KeyHash(t)]

-----------------------------------------------------------------------------
\* insertOrFind: the home cell.
InsertHome(t) ==
  /\ pc[t] = "home"
  /\ CASE At(t).keyHash = 0          -> Claim(t) /\ Goto(t, "value")
       [] At(t).keyHash = KeyHash(t) -> Goto(t, "same") /\ UNCHANGED array
       [] OTHER                      -> Goto(t, "link") /\ UNCHANGED array
  /\ UNCHANGED <<request, answer, idx, link, leap, probes, seen>>

\* isSameKey waits until the key is published.  Off the end of the chain,
\* another key means a cell to be linked.
SameKey(t) ==
  /\ pc[t] \in {"same", "joined"}
  /\ At(t).key # Null
  /\ IF At(t).key = Key(t)
     THEN Goto(t, "found") /\ LeaveInsert(t)
     ELSE /\ Goto(t, IF pc[t] = "same" THEN "link" ELSE "join")
          /\ UNCHANGED <<link, leap, probes>>
  /\ UNCHANGED <<array, request, answer, idx, seen>>

\* followLink.
FollowLink(t) ==
  LET d == At(t)[leap[t]] IN
  /\ pc[t] = "link"
  /\ IF d > 0
     THEN /\ idx' = [idx EXCEPT ![t] = (@ + d) % Size]
          /\ leap' = [leap EXCEPT ![t] = "shortLeap"]
          /\ Goto(t, "hop")
          /\ UNCHANGED <<link, probes>>
     ELSE /\ link' = [link EXCEPT ![t] = idx[t]]
          /\ probes' = [probes EXCEPT ![t] = resizingThreshold]
          /\ Goto(t, "probe")
          /\ UNCHANGED <<idx, leap>>
  /\ UNCHANGED <<array, request, answer, seen>>

\* A linked cell, once its hash is visible.
Hop(t) ==
  /\ pc[t] = "hop"
  /\ At(t).keyHash # 0
  /\ Goto(t, IF At(t).keyHash = KeyHash(t) THEN "same" ELSE "link")
  /\ UNCHANGED <<array, request, answer, idx, link, leap, probes, seen>>

\* What the cell that holds the hash h is to a linear probe.
Probed(t, h) ==
  IF h = 0 THEN "setlink"
  ELSE IF h = KeyHash(t) THEN "joined"
  ELSE IF Bucket(h) = Bucket(KeyHash(t)) THEN "join" ELSE "probe"

\* The linear search from the end of the chain.
LinearProbe(t) ==
  LET i == (idx[t] + 1) % Size  h == array[i].keyHash IN
  /\ pc[t] = "probe"
  /\ probes[t] > 0
  /\ probes' = [probes EXCEPT ![t] = @ - 1]
  /\ idx' = [idx EXCEPT ![t] = i]
  /\ array' = IF h = 0 THEN [array EXCEPT ![i].keyHash = KeyHash(t)] ELSE array
  /\ Goto(t, Probed(t, h))
  /\ UNCHANGED <<request, answer, link, leap, seen>>

Overcrowded(t) ==
  /\ pc[t] = "probe"
  /\ probes[t] = 0
  /\ answer' = [answer EXCEPT ![t] = Map!Overflow]
  /\ Goto(t, "return")
  /\ UNCHANGED <<array, request, idx, link, leap, probes, seen>>

\* prevLink is set: behind a cell of one's own, or to help with another's.
SetLink(t) ==
  /\ pc[t] \in {"setlink", "join"}
  /\ array' = [array EXCEPT ![link[t]][leap[t]] = Delta(t)]
  /\ IF pc[t] = "setlink"
     THEN Goto(t, "value") /\ LeaveInsert(t)
     ELSE /\ Goto(t, "link")
          /\ leap' = [leap EXCEPT ![t] = "shortLeap"]
          /\ UNCHANGED <<link, probes>>
  /\ UNCHANGED <<request, answer, idx, seen>>

-----------------------------------------------------------------------------
\* InsertedNew: the value, then the key.
StoreValue(t) ==
  /\ pc[t] = "value"
  /\ array' = [array EXCEPT ![idx[t]].value = request[t].value]
  /\ Goto(t, "key")
  /\ UNCHANGED <<request, answer, idx, link, leap, probes, seen>>

\* Mutant: the key is not published.
StoreKeyNot(t) ==
  /\ pc[t] = "key"
  /\ answer' = [answer EXCEPT ![t] = Map!Answer(request[t], Null)]
  /\ Goto(t, "return")
  /\ UNCHANGED <<array, request, idx, link, leap, probes, seen>>

StoreKey(t) ==
  /\ pc[t] = "key"
  /\ array' = [array EXCEPT ![idx[t]].key = Key(t)]
  /\ answer' = [answer EXCEPT ![t] = Map!Answer(request[t], Null)]
  /\ Map!Witness(Key(t), At(t).value)
  /\ Goto(t, "return")
  /\ UNCHANGED <<request, idx, link, leap, probes>>

\* Mutant: putIfAbsent replaces what it finds.
FoundReplaces(t) ==
  LET r == request[t] IN
  /\ pc[t] = "found"
  /\ array' = [array EXCEPT ![idx[t]].value = r.value]
  /\ answer' = [answer EXCEPT ![t] = Map!Answer(r, At(t).value)]
  /\ Map!Witness(r.key, r.value)
  /\ Goto(t, "return")
  /\ UNCHANGED <<request, idx, link, leap, probes>>

\* AlreadyFound: assoc exchanges the value, putIfAbsent replaces Null.
Found(t) ==
  LET r == request[t]  v == Map!Updated(r, At(t).value) IN
  /\ pc[t] = "found"
  /\ array' = [array EXCEPT ![idx[t]].value = v]
  /\ answer' = [answer EXCEPT ![t] = Map!Answer(r, At(t).value)]
  /\ Map!Witness(r.key, v)
  /\ Goto(t, "return")
  /\ UNCHANGED <<request, idx, link, leap, probes>>

-----------------------------------------------------------------------------
\* get and dissoc: tryGettingFromEntry, tryDeletingFromEntry.  An empty cell
\* ends dissoc; get goes on.
Look(t) ==
  LET h == At(t).keyHash IN
  /\ pc[t] = "look"
  /\ CASE h = KeyHash(t) ->
            Goto(t, "match") /\ UNCHANGED answer
       [] h = 0 /\ request[t].op = "dissoc" ->
            Goto(t, "return") /\ answer' = [answer EXCEPT ![t] = Map!Nil]
       [] OTHER ->
            Goto(t, "next") /\ UNCHANGED answer
  /\ UNCHANGED <<array, request, idx, link, leap, probes, seen>>

Match(t) ==
  /\ pc[t] = "match"
  /\ At(t).key # Null
  /\ Goto(t, IF At(t).key = Key(t) THEN "take" ELSE "next")
  /\ UNCHANGED <<array, request, answer, idx, link, leap, probes, seen>>

TakeGet(t) ==
  /\ pc[t] = "take"
  /\ request[t].op = "get"
  /\ IF At(t).value = Null
     THEN Goto(t, "next") /\ UNCHANGED answer
     ELSE Goto(t, "return") /\ answer' = [answer EXCEPT ![t] = At(t).value]
  /\ UNCHANGED <<array, request, idx, link, leap, probes, seen>>

TakeDissoc(t) ==
  /\ pc[t] = "take"
  /\ request[t].op = "dissoc"
  /\ array' = [array EXCEPT ![idx[t]].value = Null]
  /\ answer' = [answer EXCEPT ![t] = Map!Nil]
  /\ Map!Witness(Key(t), Null)
  /\ Goto(t, "return")
  /\ UNCHANGED <<request, idx, link, leap, probes>>

NextCell(t) ==
  LET d == At(t)[leap[t]] IN
  /\ pc[t] = "next"
  /\ IF d > 0
     THEN /\ idx' = [idx EXCEPT ![t] = (@ + d) % Size]
          /\ leap' = [leap EXCEPT ![t] = "shortLeap"]
          /\ Goto(t, "look")
          /\ UNCHANGED answer
     ELSE /\ answer' = [answer EXCEPT ![t] = Map!Nil]
          /\ Goto(t, "return")
          /\ UNCHANGED <<idx, leap>>
  /\ UNCHANGED <<array, request, link, probes, seen>>

-----------------------------------------------------------------------------
Step(t) ==
  \/ InsertHome(t) \/ SameKey(t) \/ FollowLink(t) \/ Hop(t) \/ LinearProbe(t)
  \/ Overcrowded(t) \/ SetLink(t) \/ StoreValue(t) \/ StoreKey(t) \/ Found(t)
  \/ Look(t) \/ Match(t) \/ TakeGet(t) \/ TakeDissoc(t) \/ NextCell(t)
  \/ Return(t)

Next == \E t \in Threads : Step(t) \/ \E r \in Map!Requests : Call(t, r)

Spec == Init /\ [][Next]_vars

-----------------------------------------------------------------------------
\* The table implements the map: every update takes effect at once, no lookup
\* misses a key that was there all along, and no insertion fails for a key that
\* is there.
ImplementsMap == Map!Spec

\* Nobody spins for ever in isSameKey: a cell that is claimed and has no key yet
\* belongs to a thread that is about to publish it, and is past the point where
\* its insertion could fail.
AwaitedKeysCome ==
  \A i \in Index : array[i].keyHash # 0 /\ array[i].key = Null =>
    \E t \in Threads : idx[t] = i /\ pc[t] \in {"setlink", "value", "key"}
=============================================================================
