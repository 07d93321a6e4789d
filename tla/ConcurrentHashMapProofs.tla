---------------------- MODULE ConcurrentHashMapProofs ----------------------
(***************************************************************************)
(* The table implements the map for any number of threads, keys and cells, *)
(* even when it is full.                                                   *)
(*                                                                         *)
(* Distances are counted from the home cell of a bucket, round the table.  *)
(* The argument rests on four facts that no step undoes.  A cell that is   *)
(* claimed stays claimed for its hash, and its key stays.  The cells       *)
(* between the home cell of a bucket and a cell of the bucket are claimed, *)
(* so that no key enters behind the back of a thread that has passed.  A   *)
(* leap passes over cells of other buckets only.  And by the time a cell   *)
(* is linked, so is the whole chain in front of it.                        *)
(*                                                                         *)
(* An insertion that goes round the table and meets its home cell again    *)
(* has seen every cell claimed, and none of them for its key: from then on *)
(* the key can no longer enter the table.                                  *)
(***************************************************************************)
EXTENDS ConcurrentHashMap, TLAPS

\* The distance from b to i, and the cell at distance d from i.
Dist(b, i) == IF b <= i THEN i - b ELSE i - b + Size
Forward(i, d) == IF i + d < Size THEN i + d ELSE i + d - Size

Claimed(i) == array[i].keyHash # 0
In(i, b) == Claimed(i) /\ Bucket(array[i].keyHash) = b
Home(t) == Bucket(KeyHash(t))

\* The chain of the bucket b: its home cell, whoever has claimed that, and its
\* other cells.
OnChain(b, e) == e = b \/ In(e, b)
LeapOf(b, e) == IF e = b THEN array[e].longLeap ELSE array[e].shortLeap

Between(b, e, d) ==
  \A j \in Index : 0 < Dist(e, j) /\ Dist(e, j) < d => Claimed(j) /\ ~In(j, b)

ChainedTo(b, i) ==
  \A e \in Index : Dist(b, e) < Dist(b, i) /\ OnChain(b, e) => LeapOf(b, e) > 0

\* A leap of d from e to the next cell of the bucket b.
LinkOK(b, e, d) ==
  /\ d <= resizingThreshold
  /\ Claimed(e)
  /\ In(Forward(e, d), b)
  /\ Between(b, e, d)

-----------------------------------------------------------------------------
\* The table.
Published ==
  \A i \in Index : array[i].key # Null => array[i].keyHash = Hash[array[i].key]

Packed ==
  \A i \in Index : Claimed(i) =>
    LET b == Bucket(array[i].keyHash)
    IN \A j \in Index : Dist(b, j) <= Dist(b, i) => Claimed(j)

Links ==
  \A e \in Index :
    /\ array[e].longLeap > 0 => LinkOK(e, e, array[e].longLeap)
    /\ array[e].shortLeap > 0 =>
         LinkOK(Bucket(array[e].keyHash), e, array[e].shortLeap)

Linking(i) == \E t \in Threads : pc[t] = "setlink" /\ idx[t] = i

Chained ==
  \A i \in Index :
    Claimed(i) /\ ~Linking(i) => ChainedTo(Bucket(array[i].keyHash), i)

OneCell ==
  \A i, j \in Index : array[i].key = array[j].key /\ array[i].key # Null => i = j

TableInv ==
  Published /\ Packed /\ Links /\ Chained /\ OneCell /\ AwaitedKeysCome

-----------------------------------------------------------------------------
\* The calls.
InsertSteps == {"home", "same", "link", "hop", "probe", "joined", "setlink",
                "join", "value", "key", "found"}
LookupSteps == {"look", "match", "take", "next"}
Probing   == {"probe", "joined", "join", "setlink"}
Inserting == {"same", "link", "hop"} \cup Probing
Claimant(t) == pc[t] \in {"setlink", "value", "key"}

CallInv(t) ==
  /\ pc[t] = "idle" <=> request[t] = Map!NoRequest
  /\ pc[t] = "idle" => leap[t] = "longLeap"
  /\ pc[t] \in InsertSteps => request[t].op \in Map!Inserts
  /\ pc[t] \in LookupSteps => request[t].op \in Map!Lookups
  /\ pc[t] = "return" <=> answer[t] # Map!Pending

\* A claimed cell that is not published belongs to one thread, and its key is
\* nowhere else.
ClaimInv(t) ==
  /\ Claimant(t) =>
       /\ array[idx[t]].keyHash = KeyHash(t)
       /\ array[idx[t]].key = Null
       /\ \A j \in Index : array[j].key # Key(t)
       /\ \A u \in Threads :
            Claimant(u) /\ (idx[u] = idx[t] \/ Key(u) = Key(t)) => u = t
  /\ pc[t] = "key" => array[idx[t]].value = request[t].value
  /\ pc[t] \in {"found", "take"} => array[idx[t]].key = Key(t)
  /\ pc[t] \in {"same", "joined", "match"} => array[idx[t]].keyHash = KeyHash(t)

\* The cell of the chain that t has reached.
Anchor(t) == IF pc[t] \in Probing THEN link[t] ELSE idx[t]

Place(t) ==
  /\ pc[t] = "home" => idx[t] = Home(t) /\ leap[t] = "longLeap"
  /\ pc[t] \in LookupSteps \cup Inserting =>
       IF leap[t] = "longLeap" THEN Anchor(t) = Home(t)
                               ELSE In(Anchor(t), Home(t))
  /\ pc[t] \in Inserting => Claimed(Anchor(t))
  /\ pc[t] \in Probing =>
       /\ Dist(link[t], idx[t]) = resizingThreshold - probes[t]
       /\ Between(Home(t), link[t], Dist(link[t], idx[t]))
       /\ idx[t] # link[t] => Claimed(idx[t])
       /\ IF pc[t] = "probe" THEN idx[t] # link[t] => ~In(idx[t], Home(t))
                             ELSE idx[t] # link[t] /\ In(idx[t], Home(t))

\* The cell j is claimed for good, and not for the key of t.
NotMine(t, j) ==
  /\ Claimed(j)
  /\ array[j].keyHash = KeyHash(t) => array[j].key \notin {Null, Key(t)}

Absent(k) ==
  /\ \A j \in Index : array[j].key # k
  /\ \A u \in Threads : Claimant(u) => Key(u) # k

\* t has gone round a full table ...
Full == \A j \in Index : Claimed(j)
Wrapped(t) == Full /\ Absent(Key(t))

\* ... or has passed every cell up to the one it has reached.
Regular(t) ==
  /\ leap[t] = "shortLeap" => Anchor(t) # Home(t)
  /\ \A j \in Index :
       Dist(Home(t), j) < Dist(Home(t), Anchor(t)) => NotMine(t, j)
  /\ ChainedTo(Home(t), Anchor(t))
  /\ pc[t] \in {"link"} \cup Probing => NotMine(t, Anchor(t))
  /\ pc[t] \in Probing => Dist(Home(t), link[t]) <= Dist(Home(t), idx[t])

Progress(t) ==
  /\ pc[t] \in Inserting => Wrapped(t) \/ Regular(t)
  /\ pc[t] = "setlink" => Regular(t)
  /\ pc[t] = "join" => NotMine(t, idx[t])

\* A lookup has the cell of its key still before it, or the key was absent.
Ahead(t, i) ==
  /\ array[i].key = Key(t)
  /\ Dist(Home(t), idx[t]) <= Dist(Home(t), i)
  /\ pc[t] = "next" => idx[t] # i
  /\ leap[t] = "shortLeap" => idx[t] # Home(t)

Search(t) ==
  pc[t] \in LookupSteps => Null \in seen[t] \/ \E i \in Index : Ahead(t, i)

Seen(t) == pc[t] # "idle" => Contents[Key(t)] \in seen[t]

ThreadInv(t) ==
  /\ CallInv(t) /\ ClaimInv(t) /\ Place(t) /\ Progress(t) /\ Search(t)
  /\ Seen(t)

TableInvariant == TypeOK /\ TableInv /\ (\A t \in Threads : ThreadInv(t))
-----------------------------------------------------------------------------
\* Distances.
LEMMA DistType ==
  ASSUME NEW b \in Index, NEW i \in Index
  PROVE  /\ Dist(b, i) \in Index /\ Dist(b, i) \in Nat
         /\ Dist(b, i) = 0 <=> b = i
  BY SizeAssumption DEF Dist, Index

LEMMA DistMod ==
  ASSUME NEW b \in Index, NEW i \in Index
  PROVE  (i - b) % Size = Dist(b, i)
  BY SizeAssumption DEF Dist, Index

LEMMA DistInjective ==
  ASSUME NEW b \in Index, NEW i \in Index, NEW j \in Index,
         Dist(b, i) = Dist(b, j)
  PROVE  i = j
  BY SizeAssumption DEF Dist, Index

\* From b by way of e to i: directly, or round the table.
LEMMA DistSum ==
  ASSUME NEW b \in Index, NEW e \in Index, NEW i \in Index
  PROVE  IF Dist(b, e) <= Dist(b, i)
         THEN Dist(b, i) = Dist(b, e) + Dist(e, i)
         ELSE Dist(b, i) + Size = Dist(b, e) + Dist(e, i)
  BY SizeAssumption DEF Dist, Index

LEMMA ForwardType ==
  ASSUME NEW i \in Index, NEW d \in Index
  PROVE  /\ Forward(i, d) \in Index
         /\ (i + d) % Size = Forward(i, d)
         /\ Dist(i, Forward(i, d)) = d
  BY SizeAssumption DEF Dist, Forward, Index

LEMMA DistForward ==
  ASSUME NEW b \in Index, NEW i \in Index
  PROVE  Forward(b, Dist(b, i)) = i
  BY SizeAssumption DEF Dist, Forward, Index

LEMMA NextDist ==
  ASSUME NEW a \in Index, NEW i \in Index, NEW p \in 1 .. resizingThreshold,
         Dist(a, i) = resizingThreshold - p
  PROVE  /\ (i + 1) % Size \in Index
         /\ (i + 1) % Size # a
         /\ Dist(a, (i + 1) % Size) = Dist(a, i) + 1
<1>1. 1 \in Index
  BY SizeAssumption, ThresholdAssumption DEF Index
<1>2. (i + 1) % Size = Forward(i, 1) /\ Forward(i, 1) \in Index
  BY <1>1, ForwardType
<1>3. Dist(a, Forward(i, 1)) = Dist(a, i) + 1 /\ Forward(i, 1) # a
  BY SizeAssumption, ThresholdAssumption DEF Dist, Forward, Index
<1> QED BY <1>2, <1>3

LEMMA BucketType ==
  ASSUME NEW h \in Nat
  PROVE  Bucket(h) \in Index
  BY SizeAssumption DEF Bucket, Index

-----------------------------------------------------------------------------
\* What a store into a cell changes.
LEMMA StoreHash ==
  ASSUME NEW a \in [Index -> Cell], NEW i \in Index, NEW h \in Nat,
         NEW n, n = [a EXCEPT ![i].keyHash = h]
  PROVE  /\ n \in [Index -> Cell]
         /\ \A j \in Index : j # i => n[j] = a[j]
         /\ n[i].keyHash = h /\ n[i].key = a[i].key /\ n[i].value = a[i].value
         /\ n[i].longLeap = a[i].longLeap /\ n[i].shortLeap = a[i].shortLeap
  BY DEF Cell

LEMMA StoreCellValue ==
  ASSUME NEW a \in [Index -> Cell], NEW i \in Index, NEW v \in Values \cup {Null},
         NEW n, n = [a EXCEPT ![i].value = v]
  PROVE  /\ n \in [Index -> Cell]
         /\ \A j \in Index : j # i => n[j] = a[j]
         /\ n[i].keyHash = a[i].keyHash /\ n[i].key = a[i].key /\ n[i].value = v
         /\ n[i].longLeap = a[i].longLeap /\ n[i].shortLeap = a[i].shortLeap
  BY DEF Cell

LEMMA StoreCellKey ==
  ASSUME NEW a \in [Index -> Cell], NEW i \in Index, NEW k \in Keys,
         NEW n, n = [a EXCEPT ![i].key = k]
  PROVE  /\ n \in [Index -> Cell]
         /\ \A j \in Index : j # i => n[j] = a[j]
         /\ n[i].keyHash = a[i].keyHash /\ n[i].key = k /\ n[i].value = a[i].value
         /\ n[i].longLeap = a[i].longLeap /\ n[i].shortLeap = a[i].shortLeap
  BY DEF Cell

-----------------------------------------------------------------------------
\* The map that the table stands for.
ContentsOf(a) ==
  [k \in Keys |-> IF \E i \in Index : a[i].key = k
                  THEN a[CHOOSE i \in Index : a[i].key = k].value
                  ELSE Null]

LEMMA ContentsDef == Contents = ContentsOf(array) /\ Contents' = ContentsOf(array')
  BY DEF Contents, ContentsOf

LEMMA ContentsOfAt ==
  ASSUME NEW a, NEW k \in Keys, NEW i \in Index, a[i].key = k,
         \A j \in Index : a[j].key = k => j = i
  PROVE  ContentsOf(a)[k] = a[i].value
<1>1. (CHOOSE j \in Index : a[j].key = k) = i
  OBVIOUS
<1> QED BY <1>1 DEF ContentsOf

LEMMA ContentsAt ==
  ASSUME OneCell, NEW k \in Keys, NEW i \in Index, array[i].key = k
  PROVE  Contents[k] = array[i].value
<1>1. \A j \in Index : array[j].key = k => j = i
  BY NullAssumption DEF OneCell
<1> QED BY <1>1, ContentsOfAt, ContentsDef

LEMMA ContentsNone ==
  ASSUME NEW k \in Keys, \A i \in Index : array[i].key # k
  PROVE  Contents[k] = Null
  BY DEF Contents

LEMMA ContentsType ==
  ASSUME array \in [Index -> Cell]
  PROVE  Contents \in [Keys -> Values \cup {Null}]
<1> SUFFICES ASSUME NEW k \in Keys
             PROVE  (IF \E i \in Index : array[i].key = k
                     THEN array[CHOOSE i \in Index : array[i].key = k].value
                     ELSE Null) \in Values \cup {Null}
  BY DEF Contents
<1>1. CASE \E i \in Index : array[i].key = k
  <2>1. (CHOOSE i \in Index : array[i].key = k) \in Index
    BY <1>1
  <2> QED BY <2>1, <1>1 DEF Cell
<1> QED BY <1>1

\* Only the values of published cells matter ...
LEMMA ContentsSame ==
  ASSUME \A j \in Index :
           /\ array'[j].key = array[j].key
           /\ array[j].key # Null => array'[j].value = array[j].value
  PROVE  Contents' = Contents
<1>1. ASSUME NEW k \in Keys
      PROVE  (CHOOSE j \in Index : array'[j].key = k)
               = (CHOOSE j \in Index : array[j].key = k)
  OBVIOUS
<1>2. ASSUME NEW k \in Keys, \E j \in Index : array[j].key = k
      PROVE  array'[CHOOSE j \in Index : array'[j].key = k].value
               = array[CHOOSE j \in Index : array[j].key = k].value
  <2>1. /\ (CHOOSE j \in Index : array[j].key = k) \in Index
        /\ array[CHOOSE j \in Index : array[j].key = k].key = k
    BY <1>2
  <2> QED BY <1>1, <2>1, NullAssumption
<1> QED BY <1>2 DEF Contents

\* ... and a store into the cell of a key changes the map at that key.
LEMMA ContentsSet ==
  ASSUME NEW k \in Keys, NEW i \in Index, NEW v, OneCell,
         \A j \in Index : j # i => array'[j] = array[j] /\ array[j].key # k,
         array[i].key \in {Null, k}, array'[i].key = k, array'[i].value = v
  PROVE  Contents' = [Contents EXCEPT ![k] = v]
<1>1. ContentsOf(array')[k] = v
  BY ContentsOfAt
<1>2. ASSUME NEW l \in Keys, l # k
      PROVE  ContentsOf(array')[l] = ContentsOf(array)[l]
  <2>1. \A j \in Index : array'[j].key = l <=> array[j].key = l
    BY <1>2, NullAssumption
  <2>2. CASE \E j \in Index : array[j].key = l
    <3>1. PICK j \in Index : array[j].key = l
      BY <2>2
    <3>2. j # i
      BY <1>2, <3>1, NullAssumption
    <3>3. \A m \in Index : array[m].key = l => m = j
      BY <3>1, NullAssumption DEF OneCell
    <3>4. ContentsOf(array)[l] = array[j].value
      BY <3>1, <3>3, ContentsOfAt
    <3>5. ContentsOf(array')[l] = array'[j].value
      BY <2>1, <3>1, <3>3, ContentsOfAt
    <3> QED BY <3>2, <3>4, <3>5
  <2>3. CASE ~\E j \in Index : array[j].key = l
    BY <2>1, <2>3 DEF ContentsOf
  <2> QED BY <2>2, <2>3
<1>3. /\ ContentsOf(array) = [l \in Keys |-> ContentsOf(array)[l]]
      /\ ContentsOf(array') = [l \in Keys |-> ContentsOf(array')[l]]
  BY DEF ContentsOf
<1> QED BY <1>1, <1>2, <1>3, ContentsDef

\* The answers.
LEMMA AnswerType ==
  ASSUME NEW r \in Map!Requests, NEW v \in Values \cup {Null}
  PROVE  /\ Map!Answer(r, v) \in Values \cup {Map!Nil}
         /\ Map!Answer(r, v) # Map!Pending
         /\ r.op \in Map!Inserts => Map!Updated(r, v) \in Values
<1>1. r.op \in {"assoc", "putIfAbsent", "getOrCreate"} => r.value \in Values
  BY DEF Map!Requests, Map!Inserts, Map!Lookups
<1>2. r.op \in {"assoc", "putIfAbsent", "getOrCreate", "get", "dissoc"}
  BY DEF Map!Requests, Map!Inserts, Map!Lookups
<1>3. Map!Answer(r, v) \in Values \cup {Map!Nil}
  BY <1>1, <1>2 DEF Map!Answer
<1>4. Map!Pending \notin Values \cup {Map!Nil}
  BY AnswersAssumption DEF Map!Pending, Map!Nil
<1>5. r.op \in Map!Inserts => Map!Updated(r, v) \in Values
  BY <1>1, <1>2 DEF Map!Updated, Map!Inserts
<1> QED BY <1>3, <1>4, <1>5

-----------------------------------------------------------------------------
\* What no step undoes.
Kept ==
  \A i \in Index :
    /\ Claimed(i) => array'[i].keyHash = array[i].keyHash
    /\ array[i].key # Null => array'[i].key = array[i].key
    /\ array[i].longLeap > 0 => array'[i].longLeap > 0
    /\ array[i].shortLeap > 0 => array'[i].shortLeap > 0

OthersKept(t) ==
  \A u \in Threads \ {t} :
    /\ request'[u] = request[u] /\ answer'[u] = answer[u] /\ pc'[u] = pc[u]
    /\ idx'[u] = idx[u] /\ link'[u] = link[u] /\ leap'[u] = leap[u]
    /\ probes'[u] = probes[u] /\ seen[u] \subseteq seen'[u]

\* A cell is claimed for a key that is nowhere in the table, next to claimed
\* cells.
Claims(t, i) ==
  /\ ~Claimant(t) /\ Claimant(t)'
  /\ idx'[t] = i
  /\ array'[i].keyHash = KeyHash(t)
  /\ Absent(Key(t))
  /\ \A j \in Index : Dist(Home(t), j) < Dist(Home(t), i) => Claimed(j)
  /\ pc'[t] = "setlink" \/ i = Home(t)

\* What a step of t does to the table.
Effect(t) ==
  /\ array' \in [Index -> Cell]
  /\ Kept
  /\ OthersKept(t)
  /\ \A i \in Index :
       /\ ~Claimed(i) /\ array'[i].keyHash # 0 => Claims(t, i)
       /\ array'[i].key # array[i].key =>
            pc[t] = "key" /\ i = idx[t] /\ array'[i].key = Key(t)
       /\ array'[i].value # array[i].value =>
            \/ array[i].key # Null /\ array[i].key = Key(t)
            \/ pc[t] = "value" /\ i = idx[t]
       /\ array'[i].longLeap # array[i].longLeap =>
            LinkOK(i, i, array'[i].longLeap)
       /\ array'[i].shortLeap # array[i].shortLeap =>
            LinkOK(Bucket(array[i].keyHash), i, array'[i].shortLeap)
  /\ Claimant(t)' =>
       /\ request'[t] = request[t]
       /\ IF Claimant(t)
          THEN idx'[t] = idx[t]
          ELSE idx'[t] \in Index /\ ~Claimed(idx'[t]) /\ Absent(Key(t))
  /\ Claimant(t) /\ ~Claimant(t)' => pc[t] = "key" /\ array'[idx[t]].key = Key(t)
  /\ pc'[t] = "setlink" => pc[t] # "setlink"
  /\ pc[t] = "setlink" =>
       \A b, i \in Index : b = Home(t) /\ i = idx[t] => ChainedTo(b, i)'

LEMMA CellsKept ==
  ASSUME TypeOK, Kept, NEW i \in Index, Claimed(i)
  PROVE  /\ Claimed(i)'
         /\ array'[i].keyHash = array[i].keyHash
         /\ \A b \in Index : In(i, b)' <=> In(i, b)
  BY DEF Kept, Claimed, In, TypeOK, Cell

LEMMA BetweenKept ==
  ASSUME TypeOK, Kept, NEW b \in Index, NEW e \in Index, NEW d \in Nat,
         Between(b, e, d)
  PROVE  Between(b, e, d)'
  BY CellsKept DEF Between

LEMMA LinkKept ==
  ASSUME TypeOK, Kept, NEW b \in Index, NEW e \in Index, NEW d \in Index,
         LinkOK(b, e, d)
  PROVE  LinkOK(b, e, d)'
<1>1. Forward(e, d) \in Index /\ d \in Nat
  BY ForwardType, SizeAssumption DEF Index
<1> QED BY <1>1, CellsKept, BetweenKept DEF LinkOK, In

LEMMA ChainKept ==
  ASSUME TypeOK, Kept, NEW b \in Index, NEW i \in Index, ChainedTo(b, i),
         \A j \in Index : Dist(b, j) < Dist(b, i) => Claimed(j)
  PROVE  ChainedTo(b, i)'
<1> SUFFICES ASSUME NEW e \in Index, Dist(b, e) < Dist(b, i), OnChain(b, e)'
             PROVE  LeapOf(b, e)' > 0
  BY DEF ChainedTo
<1>1. Claimed(e)
  OBVIOUS
<1>2. OnChain(b, e)
  BY <1>1, CellsKept DEF OnChain
<1>3. LeapOf(b, e) > 0
  BY <1>2 DEF ChainedTo
<1> QED BY <1>3 DEF LeapOf, Kept

LEMMA NotMineKept ==
  ASSUME TypeOK, Kept, NEW t \in Threads, NEW j \in Index, NotMine(t, j),
         request'[t] = request[t]
  PROVE  NotMine(t, j)'
<1>1. Claimed(j)' /\ array'[j].keyHash = array[j].keyHash
  BY CellsKept DEF NotMine
<1>2. KeyHash(t)' = KeyHash(t) /\ Key(t)' = Key(t)
  BY DEF KeyHash, Key
<1>3. array[j].keyHash = KeyHash(t) => array'[j].key = array[j].key
  BY DEF NotMine, Kept
<1> QED BY <1>1, <1>2, <1>3 DEF NotMine

\* The types that a call in progress gives.
LEMMA CallTypes ==
  ASSUME TypeOK, NEW t \in Threads, CallInv(t), pc[t] # "idle"
  PROVE  /\ request[t] \in Map!Requests
         /\ Key(t) \in Keys /\ Key(t) # Null
         /\ KeyHash(t) \in Nat \ {0}
         /\ Home(t) \in Index
         /\ request[t].op \in Map!Inserts => request[t].value \in Values
<1>1. request[t] \in Map!Requests
  BY DEF TypeOK, CallInv
<1>2. Key(t) \in Keys
  BY <1>1 DEF Key, Map!Requests
<1>3. KeyHash(t) \in Nat \ {0}
  BY <1>2, HashAssumption DEF KeyHash
<1>4. Home(t) \in Index
  BY <1>3, BucketType DEF Home
<1>5. request[t].op \in Map!Inserts => request[t].value \in Values
  BY <1>1 DEF Map!Requests, Map!Inserts, Map!Lookups
<1> QED BY <1>1, <1>2, <1>3, <1>4, <1>5, NullAssumption
-----------------------------------------------------------------------------
\* The table after a step.
LEMMA EffectPublished ==
  ASSUME TableInvariant, NEW t \in Threads, Effect(t)
  PROVE  Published' /\ OneCell'
<1>1. TypeOK /\ Published /\ OneCell /\ CallInv(t) /\ ClaimInv(t) /\ Kept
  BY DEF TableInvariant, TableInv, ThreadInv, Effect
<1>2. ASSUME NEW i \in Index, array'[i].key # array[i].key
      PROVE  /\ i = idx[t] /\ array'[i].key = Key(t)
             /\ array'[i].keyHash = Hash[Key(t)]
             /\ \A j \in Index : array[j].key # Key(t)
  <2>1. pc[t] = "key" /\ i = idx[t] /\ array'[i].key = Key(t)
    BY <1>2 DEF Effect
  <2>2. array[i].keyHash = KeyHash(t) /\ \A j \in Index : array[j].key # Key(t)
    BY <1>1, <2>1 DEF ClaimInv, Claimant
  <2>3. KeyHash(t) # 0
    BY <1>1, <2>1, CallTypes
  <2> QED BY <1>1, <2>1, <2>2, <2>3 DEF Kept, Claimed, KeyHash
<1>3. ASSUME NEW i \in Index, array'[i].key # Null
      PROVE  array'[i].keyHash = Hash[array'[i].key]
  <2>1. CASE array'[i].key = array[i].key
    <3>1. array[i].key \in Keys
      BY <1>1, <1>3, <2>1 DEF TypeOK, Cell
    <3>2. array[i].keyHash = Hash[array[i].key] /\ array[i].keyHash # 0
      BY <1>1, <1>3, <2>1, <3>1, HashAssumption DEF Published
    <3> QED BY <1>1, <2>1, <3>2 DEF Kept, Claimed
  <2> QED BY <1>2, <2>1
<1>4. Published'
  BY <1>3 DEF Published
<1>5. OneCell'
  BY <1>1, <1>2 DEF OneCell, Kept
<1> QED BY <1>4, <1>5

LEMMA EffectPacked ==
  ASSUME TableInvariant, NEW t \in Threads, Effect(t)
  PROVE  Packed'
<1>1. TypeOK /\ Packed /\ CallInv(t) /\ Kept
  BY DEF TableInvariant, TableInv, ThreadInv, Effect
<1> SUFFICES ASSUME NEW i \in Index, Claimed(i)',
                    NEW j \in Index,
                    Dist(Bucket(array'[i].keyHash), j)
                      <= Dist(Bucket(array'[i].keyHash), i)
             PROVE  Claimed(j)'
  BY DEF Packed
<1>2. CASE Claimed(i)
  <2>1. array'[i].keyHash = array[i].keyHash
    BY <1>1, <1>2, CellsKept
  <2>2. Claimed(j)
    BY <1>1, <1>2, <2>1 DEF Packed
  <2> QED BY <1>1, <2>2, CellsKept
<1>3. CASE ~Claimed(i)
  <2>1. Claims(t, i)
    BY <1>3 DEF Effect, Claimed
  <2>2. Bucket(array'[i].keyHash) = Home(t)
    BY <2>1 DEF Claims, Home
  <2>3. pc'[t] \in {"setlink", "value", "key"} /\ request'[t] = request[t]
    BY <2>1 DEF Claims, Effect, Claimant
  <2>4. CASE j = i
    BY <2>4
  <2>5. CASE j # i
    <3>1. Home(t) \in Index
      BY <1>1, <2>2, BucketType DEF Effect, Cell
    <3>2. Dist(Home(t), j) < Dist(Home(t), i)
      <4>1. Dist(Home(t), j) \in Nat /\ Dist(Home(t), i) \in Nat
        BY <3>1, DistType
      <4>2. Dist(Home(t), j) # Dist(Home(t), i)
        BY <2>5, <3>1, DistInjective
      <4> QED BY <2>2, <4>1, <4>2
    <3>3. Claimed(j)
      BY <2>1, <3>2 DEF Claims
    <3> QED BY <1>1, <3>3, CellsKept
  <2> QED BY <2>4, <2>5
<1> QED BY <1>2, <1>3

LEMMA EffectLinks ==
  ASSUME TableInvariant, NEW t \in Threads, Effect(t)
  PROVE  Links'
<1>1. TypeOK /\ Links /\ Kept /\ array' \in [Index -> Cell]
  BY DEF TableInvariant, TableInv, Effect
<1>2. ASSUME NEW e \in Index, NEW d \in Nat \ {0}, d = array'[e].longLeap
      PROVE  LinkOK(e, e, d)'
  <2>1. LinkOK(e, e, d)
    BY <1>1, <1>2 DEF Links, Effect
  <2>2. d \in Index
    BY <2>1, ThresholdAssumption, SizeAssumption DEF LinkOK, Index
  <2> QED BY <1>1, <2>1, <2>2, LinkKept
<1>3. ASSUME NEW e \in Index, NEW d \in Nat \ {0}, d = array'[e].shortLeap,
             NEW b, b = Bucket(array'[e].keyHash)
      PROVE  LinkOK(b, e, d)'
  <2>1. LinkOK(Bucket(array[e].keyHash), e, d)
    BY <1>1, <1>3 DEF Links, Effect
  <2>2. d \in Index
    BY <2>1, ThresholdAssumption, SizeAssumption DEF LinkOK, Index
  <2>3. b = Bucket(array[e].keyHash)
    BY <1>1, <1>3, <2>1, CellsKept DEF LinkOK
  <2>4. b \in Index
    BY <1>1, <1>3, BucketType DEF Cell
  <2>5. LinkOK(b, e, d)
    BY <2>1, <2>3
  <2> QED BY <1>1, <2>2, <2>4, <2>5, LinkKept
<1>4. \A e \in Index : array'[e].longLeap \in Nat /\ array'[e].shortLeap \in Nat
  BY <1>1, SizeAssumption DEF Cell
<1> QED BY <1>2, <1>3, <1>4 DEF Links, LinkOK, Between, In, Claimed

LEMMA EffectChained ==
  ASSUME TableInvariant, NEW t \in Threads, Effect(t)
  PROVE  Chained'
<1>1. TypeOK /\ Packed /\ Chained /\ CallInv(t) /\ ClaimInv(t) /\ Kept
      /\ array' \in [Index -> Cell] /\ OthersKept(t)
  BY DEF TableInvariant, TableInv, ThreadInv, Effect
<1>2. ASSUME NEW i \in Index, Claimed(i)', ~Linking(i)', NEW b,
             b = Bucket(array'[i].keyHash)
      PROVE  ChainedTo(b, i)'
  <2>1. b \in Index
    BY <1>1, <1>2, BucketType DEF Cell
  <2>2. CASE Claimed(i) /\ ~Linking(i)
    <3>1. b = Bucket(array[i].keyHash)
      BY <1>1, <1>2, <2>2, CellsKept
    <3>2. ChainedTo(b, i)
      BY <1>1, <2>2, <3>1 DEF Chained
    <3>3. \A j \in Index : Dist(b, j) < Dist(b, i) => Claimed(j)
      <4> SUFFICES ASSUME NEW j \in Index, Dist(b, j) < Dist(b, i)
                   PROVE  Claimed(j)
        OBVIOUS
      <4>1. Dist(b, j) <= Dist(b, i)
        BY <2>1, DistType DEF Index
      <4> QED BY <1>1, <2>2, <3>1, <4>1 DEF Packed
    <3> QED BY <1>1, <2>1, <3>2, <3>3, ChainKept
  <2>3. CASE Claimed(i) /\ Linking(i)
    <3>1. PICK u \in Threads : pc[u] = "setlink" /\ idx[u] = i
      BY <2>3 DEF Linking
    <3>2. u = t
      BY <1>1, <1>2, <3>1 DEF Linking, OthersKept
    <3>3. array[i].keyHash = KeyHash(t)
      BY <1>1, <3>1, <3>2 DEF ClaimInv, Claimant
    <3>4. array'[i].keyHash = KeyHash(t)
      BY <1>1, <2>3, <3>3, CellsKept
    <3>5. b = Home(t)
      BY <1>2, <3>4 DEF Home
    <3> QED BY <2>1, <3>1, <3>2, <3>5 DEF Effect
  <2>4. CASE ~Claimed(i)
    <3>1. Claims(t, i)
      BY <1>2, <2>4 DEF Effect, Claimed
    <3>2. i = Home(t)
      BY <1>2, <3>1 DEF Claims, Linking
    <3>3. b = i
      BY <1>2, <3>1, <3>2 DEF Claims, Home
    <3>4. \A e \in Index : ~(Dist(i, e) < Dist(i, i))
      BY SizeAssumption DEF Dist, Index
    <3> QED BY <3>3, <3>4 DEF ChainedTo
  <2> QED BY <2>2, <2>3, <2>4
<1> QED BY <1>2 DEF Chained, ChainedTo, OnChain, LeapOf, In, Claimed

LEMMA EffectAwaited ==
  ASSUME TableInvariant, NEW t \in Threads, Effect(t)
  PROVE  AwaitedKeysCome'
<1>1. TypeOK /\ AwaitedKeysCome /\ CallInv(t) /\ Kept /\ OthersKept(t)
  BY DEF TableInvariant, TableInv, ThreadInv, Effect
<1> SUFFICES ASSUME NEW i \in Index, Claimed(i)', array'[i].key = Null
             PROVE  \E u \in Threads : idx'[u] = i /\ Claimant(u)'
  BY DEF AwaitedKeysCome, Claimed, Claimant
<1>2. CASE ~Claimed(i)
  BY <1>2 DEF Effect, Claims, Claimed
<1>3. CASE Claimed(i)
  <2>1. array[i].key = Null
    BY <1>1 DEF Kept
  <2>2. PICK u \in Threads : idx[u] = i /\ Claimant(u)
    BY <1>1, <1>3, <2>1 DEF AwaitedKeysCome, Claimed, Claimant
  <2>3. CASE u # t
    BY <1>1, <2>2, <2>3 DEF OthersKept, Claimant
  <2>4. CASE u = t
    <3>1. pc[t] # "idle" /\ Key(t) # Null
      BY <1>1, <2>2, <2>4, CallTypes DEF Claimant
    <3>2. Claimant(t)'
      BY <2>2, <2>4, <3>1 DEF Effect
    <3> QED BY <2>2, <2>4, <3>2 DEF Effect
  <2> QED BY <2>3, <2>4
<1> QED BY <1>2, <1>3

LEMMA EffectTable ==
  ASSUME TableInvariant, NEW t \in Threads, Effect(t)
  PROVE  TableInv'
  BY EffectPublished, EffectPacked, EffectLinks, EffectChained, EffectAwaited
     DEF TableInv
-----------------------------------------------------------------------------
\* The other calls after a step.
LEMMA OtherLocals ==
  ASSUME TypeOK, NEW t \in Threads, NEW u \in Threads, u # t, OthersKept(t)
  PROVE  /\ request'[u] = request[u] /\ answer'[u] = answer[u] /\ pc'[u] = pc[u]
         /\ idx'[u] = idx[u] /\ link'[u] = link[u] /\ leap'[u] = leap[u]
         /\ probes'[u] = probes[u] /\ seen[u] \subseteq seen'[u]
         /\ Key(u)' = Key(u) /\ KeyHash(u)' = KeyHash(u) /\ Home(u)' = Home(u)
         /\ Claimant(u)' <=> Claimant(u)
         /\ Anchor(u)' = Anchor(u)
         /\ idx[u] \in Index /\ link[u] \in Index /\ Anchor(u) \in Index
  BY DEF OthersKept, Key, KeyHash, Home, Claimant, Anchor, TypeOK

LEMMA EffectClaims ==
  ASSUME TableInvariant, NEW t \in Threads, NEW u \in Threads, u # t, Effect(t)
  PROVE  CallInv(u)' /\ ClaimInv(u)'
<1>1. TypeOK /\ CallInv(u) /\ ClaimInv(u) /\ Kept /\ OthersKept(t)
  BY DEF TableInvariant, TableInv, ThreadInv, Effect
<1>2. /\ request'[u] = request[u] /\ answer'[u] = answer[u] /\ pc'[u] = pc[u]
      /\ idx'[u] = idx[u] /\ leap'[u] = leap[u]
      /\ Key(u)' = Key(u) /\ KeyHash(u)' = KeyHash(u)
      /\ Claimant(u)' <=> Claimant(u)
      /\ idx[u] \in Index
  BY <1>1, OtherLocals
<1>3. CallInv(u)'
  BY <1>1, <1>2 DEF CallInv
<1>4. ASSUME Claimant(u)
      PROVE  /\ array'[idx[u]].keyHash = KeyHash(u)
             /\ array'[idx[u]].key = Null
             /\ \A j \in Index : array'[j].key # Key(u)
             /\ \A w \in Threads :
                  Claimant(w)' /\ (idx'[w] = idx[u] \/ Key(w)' = Key(u)) => w = u
             /\ array'[idx[u]].value = array[idx[u]].value
  <2>1. pc[u] # "idle" /\ KeyHash(u) # 0
    BY <1>1, <1>4, CallTypes DEF Claimant
  <2>2. /\ array[idx[u]].keyHash = KeyHash(u) /\ array[idx[u]].key = Null
        /\ \A j \in Index : array[j].key # Key(u)
        /\ \A w \in Threads :
             Claimant(w) /\ (idx[w] = idx[u] \/ Key(w) = Key(u)) => w = u
    BY <1>1, <1>4 DEF ClaimInv
  <2>3. Claimed(idx[u])
    BY <2>1, <2>2 DEF Claimed
  <2>4. array'[idx[u]].keyHash = KeyHash(u)
    BY <1>1, <1>2, <2>2, <2>3 DEF Kept
  <2>5. \A j \in Index :
          array'[j].key # array[j].key =>
            Claimant(t) /\ j = idx[t] /\ array'[j].key = Key(t)
    BY DEF Effect, Claimant
  <2>6. array'[idx[u]].key = Null /\ \A j \in Index : array'[j].key # Key(u)
    BY <1>2, <2>2, <2>5
  <2>7. ASSUME NEW w \in Threads, Claimant(w)',
               idx'[w] = idx[u] \/ Key(w)' = Key(u)
        PROVE  w = u
    <3>1. CASE w # t
      BY <1>1, <2>2, <2>7, <3>1, OtherLocals
    <3>2. CASE w = t
      <4>1. Key(t)' = Key(t)
        BY <2>7, <3>2 DEF Effect, Key
      <4>2. CASE Claimant(t)
        BY <2>2, <2>7, <3>2, <4>1, <4>2 DEF Effect
      <4>3. CASE ~Claimant(t)
        BY <1>4, <2>3, <2>7, <3>2, <4>1, <4>3 DEF Effect, Absent
      <4> QED BY <4>2, <4>3
    <3> QED BY <3>1, <3>2
  <2>8. array'[idx[u]].value = array[idx[u]].value
    BY <1>2, <2>2 DEF Effect, Claimant
  <2> QED BY <2>4, <2>6, <2>7, <2>8
<1>5. pc[u] = "key" => array'[idx[u]].value = request[u].value
  BY <1>1, <1>4 DEF ClaimInv, Claimant
<1>6. pc[u] \in {"found", "take"} => array'[idx[u]].key = Key(u)
  <2> SUFFICES ASSUME pc[u] \in {"found", "take"}
               PROVE  array'[idx[u]].key = Key(u)
    OBVIOUS
  <2>1. Key(u) # Null
    BY <1>1, CallTypes
  <2> QED BY <1>1, <1>2, <2>1 DEF ClaimInv, Kept
<1>7. pc[u] \in {"same", "joined", "match"} => array'[idx[u]].keyHash = KeyHash(u)
  <2> SUFFICES ASSUME pc[u] \in {"same", "joined", "match"}
               PROVE  array'[idx[u]].keyHash = KeyHash(u)
    OBVIOUS
  <2>1. KeyHash(u) # 0
    BY <1>1, CallTypes
  <2> QED BY <1>1, <1>2, <2>1 DEF ClaimInv, Kept, Claimed
<1>8. ClaimInv(u)'
  <2>1. Claimant(u)' =>
          /\ array'[idx'[u]].keyHash = KeyHash(u)'
          /\ array'[idx'[u]].key = Null
          /\ \A j \in Index : array'[j].key # Key(u)'
          /\ \A w \in Threads :
               Claimant(w)' /\ (idx'[w] = idx'[u] \/ Key(w)' = Key(u)') => w = u
    BY <1>2, <1>4
  <2> QED BY <1>2, <1>5, <1>6, <1>7, <2>1 DEF ClaimInv
<1> QED BY <1>3, <1>8

LEMMA EffectPlace ==
  ASSUME TableInvariant, NEW t \in Threads, NEW u \in Threads, u # t, Effect(t)
  PROVE  Place(u)'
<1>1. TypeOK /\ CallInv(u) /\ Place(u) /\ Kept /\ OthersKept(t)
  BY DEF TableInvariant, TableInv, ThreadInv, Effect
<1>2. /\ pc'[u] = pc[u] /\ idx'[u] = idx[u] /\ link'[u] = link[u]
      /\ leap'[u] = leap[u] /\ probes'[u] = probes[u] /\ Home(u)' = Home(u)
      /\ Anchor(u)' = Anchor(u)
      /\ idx[u] \in Index /\ link[u] \in Index /\ Anchor(u) \in Index
  BY <1>1, OtherLocals
<1>3. pc[u] # "idle" => Home(u) \in Index
  BY <1>1, CallTypes
<1>4. \A i, b \in Index :
        /\ Claimed(i) => Claimed(i)'
        /\ Claimed(i) => (In(i, b)' <=> In(i, b))
  BY <1>1, CellsKept
<1>5. pc[u] \in LookupSteps \cup Inserting =>
        IF leap[u] = "longLeap" THEN Anchor(u) = Home(u)
                                ELSE \A a, h \in Index : a = Anchor(u) /\ h = Home(u) => In(a, h)'
  BY <1>1, <1>2, <1>4 DEF Place, In
<1>6. pc[u] \in Inserting => \A a \in Index : a = Anchor(u) => Claimed(a)'
  BY <1>1, <1>2, <1>4 DEF Place
<1>7. ASSUME pc[u] \in Probing, NEW h \in Index, h = Home(u), NEW a \in Index,
             a = link[u], NEW i \in Index, i = idx[u]
      PROVE  /\ Dist(a, i) = resizingThreshold - probes[u]
             /\ Between(h, a, Dist(a, i))'
             /\ i # a => Claimed(i)'
             /\ IF pc[u] = "probe" THEN i # a => ~In(i, h)'
                                   ELSE i # a /\ In(i, h)'
  <2>1. /\ Dist(a, i) = resizingThreshold - probes[u]
        /\ Between(h, a, Dist(a, i))
        /\ i # a => Claimed(i)
        /\ IF pc[u] = "probe" THEN i # a => ~In(i, h) ELSE i # a /\ In(i, h)
    BY <1>1, <1>7 DEF Place
  <2>2. Dist(a, i) \in Nat
    BY DistType, SizeAssumption DEF Index
  <2>3. Between(h, a, Dist(a, i))'
    BY <1>1, <2>1, <2>2, BetweenKept
  <2> QED BY <1>4, <2>1, <2>3
<1>8. pc[u] = "home" => idx[u] = Home(u) /\ leap[u] = "longLeap"
  BY <1>1 DEF Place
<1>9. pc[u] \in Probing => pc[u] # "idle"
  BY DEF Probing
<1>10. pc[u] \in LookupSteps \cup Inserting => pc[u] # "idle"
  BY DEF LookupSteps, Inserting, Probing
<1> QED
  BY <1>2, <1>3, <1>5, <1>6, <1>7, <1>8, <1>9, <1>10 DEF Place, In, Claimed, Between
LEMMA EffectRegular ==
  ASSUME TableInvariant, NEW t \in Threads, NEW u \in Threads, u # t, Effect(t),
         pc[u] \in Inserting, Regular(u)
  PROVE  Regular(u)'
<1>1. TypeOK /\ CallInv(u) /\ Kept /\ OthersKept(t) /\ pc[u] # "idle"
  BY DEF TableInvariant, TableInv, ThreadInv, Effect, Inserting, Probing
<1>2. /\ pc'[u] = pc[u] /\ idx'[u] = idx[u] /\ link'[u] = link[u]
      /\ leap'[u] = leap[u] /\ Home(u)' = Home(u) /\ Anchor(u)' = Anchor(u)
      /\ request'[u] = request[u] /\ Anchor(u) \in Index
  BY <1>1, OtherLocals
<1>3. Home(u) \in Index
  BY <1>1, CallTypes
<1>4. \A j \in Index : NotMine(u, j) => NotMine(u, j)'
  BY <1>1, <1>2, NotMineKept
<1>5. ASSUME NEW h \in Index, h = Home(u), NEW a \in Index, a = Anchor(u)
      PROVE  /\ \A j \in Index : Dist(h, j) < Dist(h, a) => NotMine(u, j)'
             /\ ChainedTo(h, a)'
             /\ pc[u] \in {"link"} \cup Probing => NotMine(u, a)'
  <2>1. \A j \in Index : Dist(h, j) < Dist(h, a) => NotMine(u, j)
    BY <1>5 DEF Regular
  <2>2. ChainedTo(h, a)
    BY <1>5 DEF Regular
  <2>3. \A j \in Index : Dist(h, j) < Dist(h, a) => Claimed(j)
    BY <2>1 DEF NotMine
  <2>4. ChainedTo(h, a)'
    BY <1>1, <2>2, <2>3, ChainKept
  <2> QED BY <1>4, <1>5, <2>1, <2>4 DEF Regular
<1> QED BY <1>2, <1>3, <1>5
        DEF Regular, ChainedTo, OnChain, LeapOf, In, Claimed, NotMine

LEMMA EffectProgress ==
  ASSUME TableInvariant, NEW t \in Threads, NEW u \in Threads, u # t, Effect(t)
  PROVE  Progress(u)'
<1>1. TypeOK /\ CallInv(u) /\ Progress(u) /\ Kept /\ OthersKept(t)
  BY DEF TableInvariant, TableInv, ThreadInv, Effect
<1>2. /\ pc'[u] = pc[u] /\ idx'[u] = idx[u] /\ Key(u)' = Key(u)
      /\ request'[u] = request[u] /\ idx[u] \in Index
  BY <1>1, OtherLocals
<1>3. ASSUME Wrapped(u)
      PROVE  Wrapped(u)'
  <2>1. Full /\ Absent(Key(u))
    BY <1>3 DEF Wrapped
  <2>2. Full'
    BY <1>1, <2>1, CellsKept DEF Full
  <2>3. \A j \in Index : array'[j].key # Key(u)
    BY <2>1 DEF Absent, Effect, Claimant
  <2>4. Claimant(t)' => Claimant(t) /\ Key(t)' = Key(t)
    <3> SUFFICES ASSUME Claimant(t)'
                 PROVE  Claimant(t) /\ Key(t)' = Key(t)
      OBVIOUS
    <3>1. idx'[t] \in Index => Claimed(idx'[t])
      BY <2>1 DEF Full
    <3>2. idx'[t] \in Index \/ Claimant(t)
      BY DEF Effect
    <3> QED BY <3>1, <3>2 DEF Effect, Key
  <2>5. \A w \in Threads : Claimant(w)' => Key(w)' # Key(u)
    BY <1>1, <2>1, <2>4, OtherLocals DEF Absent
  <2> QED BY <1>2, <2>2, <2>3, <2>5 DEF Wrapped, Absent
<1>4. pc[u] \in Inserting /\ Regular(u) => Regular(u)'
  BY EffectRegular
<1>5. ASSUME NEW i \in Index, i = idx[u], NotMine(u, i)
      PROVE  NotMine(u, i)'
  BY <1>1, <1>2, <1>5, NotMineKept
<1>6. pc[u] = "join" => NotMine(u, idx[u])'
  BY <1>1, <1>2, <1>5 DEF Progress, NotMine, Claimed
<1>7. pc[u] = "setlink" => pc[u] \in Inserting
  BY DEF Inserting, Probing
<1> QED BY <1>1, <1>2, <1>3, <1>4, <1>6, <1>7 DEF Progress

LEMMA EffectSearch ==
  ASSUME TableInvariant, NEW t \in Threads, NEW u \in Threads, u # t, Effect(t)
  PROVE  Search(u)'
<1>1. TypeOK /\ CallInv(u) /\ Search(u) /\ Kept /\ OthersKept(t)
  BY DEF TableInvariant, TableInv, ThreadInv, Effect
<1>2. /\ pc'[u] = pc[u] /\ idx'[u] = idx[u] /\ leap'[u] = leap[u]
      /\ Key(u)' = Key(u) /\ Home(u)' = Home(u) /\ seen[u] \subseteq seen'[u]
  BY <1>1, OtherLocals
<1> SUFFICES ASSUME pc[u] \in LookupSteps, Null \notin seen[u]
             PROVE  \E i \in Index : Ahead(u, i)'
  BY <1>2 DEF Search
<1>3. PICK i \in Index : Ahead(u, i)
  BY <1>1 DEF Search
<1>4. Key(u) # Null
  BY <1>1, CallTypes DEF LookupSteps
<1>5. array'[i].key = array[i].key
  BY <1>1, <1>3, <1>4 DEF Ahead, Kept
<1> QED BY <1>2, <1>3, <1>5 DEF Ahead
-----------------------------------------------------------------------------
\* How a call moves along its chain.
LEMMA NoneMine ==
  ASSUME TableInvariant, NEW t \in Threads, pc[t] # "idle",
         \A j \in Index : NotMine(t, j) \/ ~In(j, Home(t))
  PROVE  Absent(Key(t))
<1>1. TypeOK /\ Published /\ CallInv(t)
  BY DEF TableInvariant, TableInv, ThreadInv
<1>2. Key(t) \in Keys /\ Key(t) # Null /\ KeyHash(t) # 0 /\ Home(t) \in Index
  BY <1>1, CallTypes
<1>3. ASSUME NEW j \in Index
      PROVE  array[j].keyHash = KeyHash(t) => array[j].key \notin {Null, Key(t)}
  BY <1>2 DEF NotMine, In, Claimed, Home
<1>4. \A j \in Index : array[j].key # Key(t)
  BY <1>1, <1>2, <1>3 DEF Published, KeyHash
<1>5. ASSUME NEW u \in Threads, Claimant(u)
      PROVE  Key(u) # Key(t)
  <2>1. ClaimInv(u) /\ idx[u] \in Index
    BY DEF TableInvariant, ThreadInv, TypeOK
  <2>2. array[idx[u]].keyHash = KeyHash(u) /\ array[idx[u]].key = Null
    BY <1>5, <2>1 DEF ClaimInv
  <2> QED BY <1>3, <2>1, <2>2 DEF KeyHash
<1> QED BY <1>4, <1>5 DEF Absent

\* From a cell e of the chain over cells of other buckets to the cell i.
LEMMA Advance ==
  ASSUME TypeOK, NEW t \in Threads, CallInv(t), pc[t] # "idle",
         NEW e \in Index, NEW i \in Index, i # e,
         \A j \in Index : Dist(Home(t), j) <= Dist(Home(t), e) => NotMine(t, j),
         Between(Home(t), e, Dist(e, i))
  PROVE  IF Dist(Home(t), e) < Dist(Home(t), i)
         THEN \A j \in Index :
                Dist(Home(t), j) < Dist(Home(t), i) => NotMine(t, j)
         ELSE \A j \in Index : NotMine(t, j)
<1> DEFINE h == Home(t)
<1>1. h \in Index
  BY CallTypes
<1>2. \A j \in Index : Claimed(j) /\ ~In(j, h) => NotMine(t, j)
  BY DEF NotMine, In, Home
<1> HIDE DEF h
<1>3. \A j \in Index : 0 < Dist(e, j) /\ Dist(e, j) < Dist(e, i) => NotMine(t, j)
  BY <1>2 DEF Between, h
<1>4. \A j \in Index : Dist(h, j) <= Dist(h, e) => NotMine(t, j)
  BY DEF h
<1>5. Dist(h, e) \in Index /\ Dist(h, i) \in Index /\ Dist(e, i) \in Index
  BY <1>1, DistType
<1>6. Dist(h, i) # Dist(h, e)
  BY <1>1, DistInjective
<1>7. ASSUME NEW j \in Index, Dist(h, e) < Dist(h, i) => Dist(h, j) < Dist(h, i)
      PROVE  NotMine(t, j)
  <2>1. Dist(h, j) \in Index /\ Dist(e, j) \in Index
    BY <1>1, DistType
  <2>2. CASE Dist(h, j) <= Dist(h, e)
    BY <1>4, <2>2
  <2>3. CASE Dist(h, e) < Dist(h, j)
    <3>1. Dist(h, j) = Dist(h, e) + Dist(e, j)
      BY <1>1, <1>5, <2>1, <2>3, DistSum DEF Index
    <3>2. IF Dist(h, e) <= Dist(h, i)
          THEN Dist(h, i) = Dist(h, e) + Dist(e, i)
          ELSE Dist(h, i) + Size = Dist(h, e) + Dist(e, i)
      BY <1>1, DistSum
    <3>3. 0 < Dist(e, j) /\ Dist(e, j) < Dist(e, i)
      BY <1>5, <1>6, <1>7, <2>1, <2>3, <3>1, <3>2, SizeAssumption DEF Index
    <3> QED BY <1>3, <3>3
  <2> QED BY <1>5, <2>1, <2>2, <2>3 DEF Index
<1> QED BY <1>7 DEF h

LEMMA PassedAnchor ==
  ASSUME TypeOK, NEW t \in Threads, CallInv(t), Regular(t),
         pc[t] \in {"link"} \cup Probing
  PROVE  \A j \in Index :
           Dist(Home(t), j) <= Dist(Home(t), Anchor(t)) => NotMine(t, j)
<1>1. Home(t) \in Index /\ Anchor(t) \in Index
  BY CallTypes DEF TypeOK, Anchor, Probing
<1> SUFFICES ASSUME NEW j \in Index,
                    Dist(Home(t), j) <= Dist(Home(t), Anchor(t))
             PROVE  NotMine(t, j)
  OBVIOUS
<1>2. Dist(Home(t), j) \in Nat /\ Dist(Home(t), Anchor(t)) \in Nat
  BY <1>1, DistType
<1>3. CASE Dist(Home(t), j) < Dist(Home(t), Anchor(t))
  BY <1>3 DEF Regular
<1>4. CASE Dist(Home(t), j) = Dist(Home(t), Anchor(t))
  <2>1. j = Anchor(t)
    BY <1>1, <1>4, DistInjective
  <2> QED BY <2>1 DEF Regular
<1> QED BY <1>2, <1>3, <1>4

\* The leap that a call follows.
LEMMA FollowedLeap ==
  ASSUME TypeOK, Links, NEW t \in Threads, CallInv(t), Place(t),
         pc[t] \in LookupSteps \cup {"link"},
         NEW d, d = At(t)[leap[t]], d > 0
  PROVE  /\ d \in Index
         /\ LinkOK(Home(t), idx[t], d)
         /\ (idx[t] + d) % Size \in Index
         /\ In((idx[t] + d) % Size, Home(t))
         /\ Dist(idx[t], (idx[t] + d) % Size) = d
<1>1. idx[t] \in Index /\ leap[t] \in {"shortLeap", "longLeap"}
      /\ array[idx[t]] \in Cell
  BY DEF TypeOK
<1>2. Anchor(t) = idx[t] /\ pc[t] \in LookupSteps \cup Inserting
  BY DEF Anchor, LookupSteps, Probing, Inserting
<1>3. d \in Nat
  BY <1>1, SizeAssumption DEF At, Cell
<1>4. LinkOK(Home(t), idx[t], d)
  <2>1. CASE leap[t] = "longLeap"
    <3>1. idx[t] = Home(t) /\ array[idx[t]].longLeap = d
      BY <1>2, <2>1 DEF Place, At
    <3> QED BY <1>1, <3>1 DEF Links
  <2>2. CASE leap[t] = "shortLeap"
    <3>1. In(idx[t], Home(t)) /\ array[idx[t]].shortLeap = d
      BY <1>2, <2>2 DEF Place, At
    <3> QED BY <1>1, <3>1 DEF Links, In
  <2> QED BY <1>1, <2>1, <2>2
<1>5. d \in Index
  BY <1>3, <1>4, ThresholdAssumption, SizeAssumption DEF LinkOK, Index
<1>6. Forward(idx[t], d) \in Index /\ (idx[t] + d) % Size = Forward(idx[t], d)
      /\ Dist(idx[t], Forward(idx[t], d)) = d
  BY <1>1, <1>5, ForwardType
<1> QED BY <1>4, <1>5, <1>6 DEF LinkOK

\* The next cell of a linear probe.
LEMMA ProbedCell ==
  ASSUME TypeOK, NEW t \in Threads, CallInv(t), Place(t),
         pc[t] = "probe", probes[t] > 0,
         NEW i, i = (idx[t] + 1) % Size
  PROVE  /\ i \in Index
         /\ i # link[t]
         /\ Dist(link[t], i) = resizingThreshold - (probes[t] - 1)
         /\ Between(Home(t), link[t], Dist(link[t], i))
<1>1. idx[t] \in Index /\ link[t] \in Index /\ probes[t] \in 0 .. resizingThreshold
  BY DEF TypeOK
<1>2. /\ Dist(link[t], idx[t]) = resizingThreshold - probes[t]
      /\ Between(Home(t), link[t], Dist(link[t], idx[t]))
      /\ idx[t] # link[t] => Claimed(idx[t]) /\ ~In(idx[t], Home(t))
  BY DEF Place, Probing
<1>3. probes[t] \in 1 .. resizingThreshold
  BY <1>1, ThresholdAssumption, SizeAssumption
<1>4. i \in Index /\ i # link[t] /\ Dist(link[t], i) = Dist(link[t], idx[t]) + 1
  BY <1>1, <1>2, <1>3, NextDist
<1>5. Between(Home(t), link[t], Dist(link[t], i))
  <2> SUFFICES ASSUME NEW j \in Index, 0 < Dist(link[t], j),
                      Dist(link[t], j) < Dist(link[t], i)
               PROVE  Claimed(j) /\ ~In(j, Home(t))
    BY DEF Between
  <2>1. Dist(link[t], j) \in Index /\ Dist(link[t], idx[t]) \in Index
    BY <1>1, DistType
  <2>2. CASE Dist(link[t], j) < Dist(link[t], idx[t])
    BY <1>2, <2>2 DEF Between
  <2>3. CASE Dist(link[t], j) = Dist(link[t], idx[t])
    <3>1. j = idx[t]
      BY <1>1, <2>3, DistInjective
    <3>2. Dist(link[t], idx[t]) # 0
      BY <2>1, <2>3 DEF Index
    <3>3. idx[t] # link[t]
      BY <1>1, <3>2, DistType
    <3> QED BY <1>2, <3>1, <3>3
  <2> QED BY <1>4, <2>1, <2>2, <2>3 DEF Index
<1> QED BY <1>1, <1>2, <1>4, <1>5, ThresholdAssumption, SizeAssumption DEF Index
-----------------------------------------------------------------------------
\* Steps that do not write to the table.
ReadOnly(t) ==
  TypeOK' /\ array' = array /\ OthersKept(t) /\ ~Claimant(t) /\ ~Claimant(t)'

\* The call of t after its own step.
Own(t) ==
  /\ CallInv(t)' /\ ClaimInv(t)' /\ Place(t)' /\ Progress(t)' /\ Search(t)'
  /\ Seen(t)'

LEMMA ReadOnlyEffect ==
  ASSUME TypeOK, NEW t \in Threads, ReadOnly(t)
  PROVE  Effect(t) /\ Contents' = Contents
<1>1. Kept
  BY DEF ReadOnly, Kept
<1>2. pc'[t] # "setlink" /\ pc[t] # "setlink"
  BY DEF ReadOnly, Claimant
<1>3. Contents' = Contents
  BY DEF ReadOnly, Contents
<1> QED BY <1>1, <1>2, <1>3 DEF ReadOnly, Effect, TypeOK, Claimed

\* A read-only step within a call.
Within(t) == ReadOnly(t) /\ request' = request /\ seen' = seen

LEMMA WithinCall ==
  ASSUME TableInvariant, NEW t \in Threads, Within(t), pc[t] # "idle",
         pc'[t] # "idle", pc'[t] # "return" => answer'[t] = answer[t],
         pc[t] # "return", pc'[t] = "return" => answer'[t] # Map!Pending,
         pc'[t] \in InsertSteps => pc[t] \in InsertSteps,
         pc'[t] \in LookupSteps => pc[t] \in LookupSteps
  PROVE  /\ Effect(t) /\ Contents' = Contents
         /\ CallInv(t)' /\ Seen(t)'
         /\ Key(t)' = Key(t) /\ KeyHash(t)' = KeyHash(t) /\ Home(t)' = Home(t)
         /\ \A i \in Index : /\ Claimed(i)' <=> Claimed(i)
                             /\ array'[i] = array[i]
                             /\ NotMine(t, i)' <=> NotMine(t, i)
         /\ \A i, b \in Index : /\ In(i, b)' <=> In(i, b)
                                /\ LeapOf(b, i)' = LeapOf(b, i)
         /\ \A b, e \in Index : \A d \in Nat :
              /\ Between(b, e, d)' <=> Between(b, e, d)
              /\ ChainedTo(b, e)' <=> ChainedTo(b, e)
         /\ Wrapped(t) => Wrapped(t)'
<1>1. TypeOK /\ CallInv(t) /\ Seen(t)
  BY DEF TableInvariant, ThreadInv
<1>2. Effect(t) /\ Contents' = Contents
  BY <1>1, ReadOnlyEffect DEF Within
<1>3. /\ array' = array /\ request' = request /\ seen' = seen
      /\ OthersKept(t) /\ ~Claimant(t)'
  BY DEF Within, ReadOnly
<1>4. CallInv(t)'
  BY <1>1, <1>3 DEF CallInv
<1>5. /\ Seen(t)'
      /\ Key(t)' = Key(t) /\ KeyHash(t)' = KeyHash(t) /\ Home(t)' = Home(t)
  BY <1>1, <1>2, <1>3 DEF Seen, Key, KeyHash, Home
<1>6. /\ \A i \in Index : /\ Claimed(i)' <=> Claimed(i)
                          /\ array'[i] = array[i]
                          /\ NotMine(t, i)' <=> NotMine(t, i)
      /\ \A i, b \in Index : /\ In(i, b)' <=> In(i, b)
                             /\ LeapOf(b, i)' = LeapOf(b, i)
  BY <1>3, <1>5 DEF Claimed, NotMine, In, LeapOf
<1>7. \A b, e \in Index : \A d \in Nat :
        /\ Between(b, e, d)' <=> Between(b, e, d)
        /\ ChainedTo(b, e)' <=> ChainedTo(b, e)
  BY <1>3 DEF Between, ChainedTo, OnChain, In, Claimed, LeapOf
<1>8. Wrapped(t) => Wrapped(t)'
  <2>1. \A u \in Threads : Claimant(u)' => Claimant(u) /\ Key(u)' = Key(u)
    BY <1>3 DEF OthersKept, Claimant, Key
  <2> QED BY <1>3, <1>5, <2>1 DEF Wrapped, Full, Absent, Claimed
<1> QED BY <1>2, <1>4, <1>5, <1>6, <1>7, <1>8

LEMMA CallStep ==
  ASSUME TableInvariant, NEW t \in Threads, NEW r \in Map!Requests, Call(t, r)
  PROVE  ReadOnly(t) /\ Own(t) /\ Contents' = Contents
<1>1. TypeOK /\ CallInv(t)
  BY DEF TableInvariant, ThreadInv
<1>2. r.key \in Keys /\ r.op \in Map!Inserts \cup Map!Lookups /\ r # Map!NoRequest
  BY DEF Map!Requests, Map!NoRequest, Map!Inserts, Map!Lookups
<1>3. Hash[r.key] \in Nat /\ Bucket(Hash[r.key]) \in Index
  BY <1>2, HashAssumption, BucketType
<1>4. /\ pc[t] = "idle" /\ request' = [request EXCEPT ![t] = r]
      /\ idx' = [idx EXCEPT ![t] = Bucket(Hash[r.key])]
      /\ seen' = [seen EXCEPT ![t] = {Contents[r.key]}]
      /\ pc' = [pc EXCEPT ![t] = IF r.op \in Map!Lookups THEN "look" ELSE "home"]
      /\ UNCHANGED <<array, answer, link, leap, probes>>
  BY DEF Call, Goto
<1>5. Contents[r.key] \in Values \cup {Null}
  BY <1>1, <1>2, ContentsType DEF TypeOK
<1>6. TypeOK'
  <2>1. request' \in [Threads -> Map!Requests \cup {Map!NoRequest}]
    BY <1>1, <1>4 DEF TypeOK
  <2>2. pc' \in [Threads -> Steps]
    BY <1>1, <1>4 DEF TypeOK, Steps
  <2>3. idx' \in [Threads -> Index]
    BY <1>1, <1>3, <1>4 DEF TypeOK
  <2>4. seen' \in [Threads -> SUBSET (Values \cup {Null})]
    BY <1>1, <1>4, <1>5 DEF TypeOK
  <2> QED BY <1>1, <1>4, <2>1, <2>2, <2>3, <2>4 DEF TypeOK
<1>7. OthersKept(t)
  BY <1>1, <1>4 DEF OthersKept, TypeOK
<1>8. /\ pc'[t] = IF r.op \in Map!Lookups THEN "look" ELSE "home"
      /\ request'[t] = r /\ idx'[t] = Bucket(Hash[r.key])
      /\ seen'[t] = {Contents[r.key]} /\ leap'[t] = "longLeap"
      /\ answer'[t] = Map!Pending
  BY <1>1, <1>4 DEF TypeOK, CallInv
<1>9. ReadOnly(t)
  BY <1>4, <1>6, <1>7, <1>8 DEF ReadOnly, Claimant
<1>10. Contents' = Contents
  BY <1>1, <1>9, ReadOnlyEffect
<1>11. Key(t)' = r.key /\ Home(t)' = idx'[t]
  BY <1>8 DEF Key, Home, KeyHash
<1>12. CallInv(t)'
  BY <1>2, <1>8 DEF CallInv, InsertSteps, LookupSteps, Map!Inserts, Map!Lookups
<1>13. ClaimInv(t)'
  BY <1>8 DEF ClaimInv, Claimant
<1>14. Place(t)' /\ Progress(t)'
  BY <1>8, <1>11 DEF Place, Progress, Anchor, LookupSteps, Inserting, Probing
<1>15. Search(t)'
  <2> SUFFICES ASSUME Contents[r.key] # Null
               PROVE  \E i \in Index : Ahead(t, i)'
    BY <1>8 DEF Search
  <2>1. PICK i \in Index : array[i].key = r.key
    BY <1>2, ContentsNone
  <2>2. Dist(idx'[t], idx'[t]) = 0 /\ Dist(idx'[t], i) \in Index
    BY <1>3, <1>8, DistType
  <2>3. Dist(idx'[t], idx'[t]) <= Dist(idx'[t], i)
    BY <2>2 DEF Index
  <2> QED BY <1>4, <1>8, <1>11, <2>1, <2>3 DEF Ahead
<1>16. Seen(t)'
  BY <1>8, <1>10, <1>11 DEF Seen
<1> QED BY <1>9, <1>10, <1>12, <1>13, <1>14, <1>15, <1>16 DEF Own

LEMMA ReturnStep ==
  ASSUME TableInvariant, NEW t \in Threads, Return(t)
  PROVE  ReadOnly(t) /\ Own(t) /\ Contents' = Contents
<1>1. TypeOK /\ CallInv(t)
  BY DEF TableInvariant, ThreadInv
<1>2. 0 \in Index /\ 0 \in 0 .. resizingThreshold
  BY SizeAssumption, ThresholdAssumption DEF Index
<1>3. TypeOK' /\ OthersKept(t)
  BY <1>1, <1>2 DEF Return, Goto, TypeOK, Steps, OthersKept
<1>4. /\ pc[t] = "return" /\ pc'[t] = "idle" /\ request'[t] = Map!NoRequest
      /\ leap'[t] = "longLeap" /\ answer'[t] = Map!Pending /\ array' = array
  BY <1>1 DEF Return, Goto, TypeOK
<1>5. ReadOnly(t)
  BY <1>3, <1>4 DEF ReadOnly, Claimant
<1>6. CallInv(t)' /\ ClaimInv(t)' /\ Search(t)' /\ Seen(t)'
  BY <1>4 DEF CallInv, ClaimInv, Claimant, Search, Seen, InsertSteps, LookupSteps
<1>7. Place(t)' /\ Progress(t)'
  BY <1>4 DEF Place, Progress, LookupSteps, Inserting, Probing
<1> QED BY <1>1, <1>5, <1>6, <1>7, ReadOnlyEffect DEF Own

LEMMA HomeRead ==
  ASSUME TableInvariant, NEW t \in Threads, InsertHome(t), At(t).keyHash # 0
  PROVE  Within(t) /\ Own(t) /\ Contents' = Contents
<1>1. TypeOK /\ CallInv(t) /\ Place(t)
  BY DEF TableInvariant, ThreadInv
<1> DEFINE p == IF At(t).keyHash = KeyHash(t) THEN "same" ELSE "link"
<1>2. /\ pc[t] = "home" /\ pc' = [pc EXCEPT ![t] = p]
      /\ UNCHANGED <<array, request, answer, idx, link, leap, probes, seen>>
  BY DEF InsertHome, Goto
<1>3. TypeOK' /\ OthersKept(t)
  BY <1>1, <1>2 DEF TypeOK, Steps, OthersKept
<1>4. pc'[t] = p /\ idx'[t] = idx[t] /\ leap'[t] = leap[t] /\ answer'[t] = answer[t]
  BY <1>1, <1>2 DEF TypeOK
<1>5. Within(t)
  BY <1>2, <1>3, <1>4 DEF Within, ReadOnly, Claimant
<1>6. /\ CallInv(t)' /\ Seen(t)' /\ Contents' = Contents
      /\ Home(t)' = Home(t) /\ KeyHash(t)' = KeyHash(t)
      /\ \A i \in Index : Claimed(i)' <=> Claimed(i)
      /\ \A i \in Index : NotMine(t, i)' <=> NotMine(t, i)
  BY <1>2, <1>4, <1>5, WithinCall DEF InsertSteps, LookupSteps
<1>7. idx[t] \in Index /\ idx[t] = Home(t) /\ leap[t] = "longLeap" /\ Claimed(idx[t])
  BY <1>1, <1>2 DEF Place, TypeOK, Claimed, At
<1>8. p \in {"same", "link"} /\ Anchor(t)' = idx[t]
  BY <1>4 DEF Anchor, Probing
<1>9. ClaimInv(t)'
  BY <1>2, <1>4, <1>6 DEF ClaimInv, Claimant, At
<1>10. Place(t)'
  BY <1>4, <1>6, <1>7, <1>8 DEF Place, LookupSteps, Inserting, Probing
<1>11. Regular(t)'
  <2>1. \A j \in Index : ~(Dist(idx[t], j) < Dist(idx[t], idx[t]))
    BY <1>7, SizeAssumption DEF Dist, Index
  <2>2. p = "link" => NotMine(t, idx[t])
    BY <1>7 DEF NotMine, At
  <2>3. (p = "link" => NotMine(t, idx[t]))'
    BY <1>2, <1>4, <1>6, <1>7, <2>2 DEF NotMine, Claimed, At
  <2>4. ChainedTo(Home(t), Anchor(t))'
    BY <1>6, <1>7, <1>8, <2>1 DEF ChainedTo
  <2>5. pc'[t] \in {"link"} \cup Probing => NotMine(t, Anchor(t))'
    BY <1>2, <1>4, <1>6, <1>7, <1>8, <2>2 DEF Probing, NotMine, Claimed
  <2> QED BY <1>4, <1>6, <1>7, <1>8, <2>1, <2>4, <2>5 DEF Regular, Probing
<1>12. Progress(t)'
  BY <1>4, <1>8, <1>11 DEF Progress
<1>13. Search(t)'
  BY <1>4, <1>8 DEF Search, LookupSteps
<1> QED BY <1>5, <1>6, <1>9, <1>10, <1>12, <1>13 DEF Own

LEMMA SameKeyStep ==
  ASSUME TableInvariant, NEW t \in Threads, SameKey(t)
  PROVE  Within(t) /\ Own(t) /\ Contents' = Contents
<1>1. TypeOK /\ CallInv(t) /\ ClaimInv(t) /\ Place(t) /\ Progress(t)
  BY DEF TableInvariant, ThreadInv
<1>2. /\ pc[t] \in {"same", "joined"} /\ At(t).key # Null
      /\ UNCHANGED <<array, request, answer, idx, seen>>
  BY DEF SameKey
<1>3. 0 \in Index /\ 0 \in 0 .. resizingThreshold
  BY SizeAssumption, ThresholdAssumption DEF Index
<1>4. TypeOK' /\ OthersKept(t)
  BY <1>1, <1>2, <1>3 DEF SameKey, Goto, LeaveInsert, TypeOK, Steps, OthersKept
<1>5. CASE At(t).key = Key(t)
  <2>1. pc'[t] = "found" /\ idx'[t] = idx[t] /\ answer'[t] = answer[t]
    BY <1>1, <1>2, <1>5 DEF SameKey, Goto, TypeOK
  <2>2. Within(t)
    BY <1>2, <1>4, <2>1 DEF Within, ReadOnly, Claimant
  <2>3. CallInv(t)' /\ Seen(t)' /\ Contents' = Contents /\ Key(t)' = Key(t)
    BY <1>2, <2>1, <2>2, WithinCall DEF InsertSteps, LookupSteps
  <2>4. ClaimInv(t)'
    BY <1>2, <1>5, <2>1, <2>3 DEF ClaimInv, Claimant, At
  <2>5. Place(t)' /\ Progress(t)' /\ Search(t)'
    BY <2>1 DEF Place, Progress, Search, LookupSteps, Inserting, Probing
  <2> QED BY <2>2, <2>3, <2>4, <2>5 DEF Own
<1>6. CASE At(t).key # Key(t)
  <2> DEFINE p == IF pc[t] = "same" THEN "link" ELSE "join"
  <2>1. /\ pc'[t] = p /\ idx'[t] = idx[t] /\ answer'[t] = answer[t]
        /\ link' = link /\ leap' = leap /\ probes' = probes
    BY <1>1, <1>2, <1>6 DEF SameKey, Goto, TypeOK
  <2>2. Within(t)
    BY <1>2, <1>4, <2>1 DEF Within, ReadOnly, Claimant
  <2>3. /\ CallInv(t)' /\ Seen(t)' /\ Contents' = Contents /\ Key(t)' = Key(t)
        /\ Home(t)' = Home(t)
        /\ \A i \in Index : /\ Claimed(i)' <=> Claimed(i)
                            /\ NotMine(t, i)' <=> NotMine(t, i)
        /\ \A i, b \in Index : In(i, b)' <=> In(i, b)
        /\ \A b, e \in Index : \A d \in Nat :
             /\ Between(b, e, d)' <=> Between(b, e, d)
             /\ ChainedTo(b, e)' <=> ChainedTo(b, e)
        /\ Wrapped(t) => Wrapped(t)'
    BY <1>2, <2>1, <2>2, WithinCall DEF InsertSteps, LookupSteps
  <2>4. idx[t] \in Index /\ link[t] \in Index /\ Home(t) \in Index
    BY <1>1, <1>2, CallTypes DEF TypeOK
  <2>5. Dist(link[t], idx[t]) \in Nat
    BY <2>4, DistType
  <2>6. Anchor(t)' = Anchor(t) /\ Anchor(t) \in Index
    BY <1>2, <2>1, <2>4 DEF Anchor, Probing
  <2>7. ClaimInv(t)' /\ Search(t)'
    BY <1>2, <2>1 DEF ClaimInv, Claimant, Search, LookupSteps
  <2>8. Place(t)'
    <3>1. IF leap[t] = "longLeap" THEN Anchor(t) = Home(t) ELSE In(Anchor(t), Home(t))
      BY <1>1, <1>2 DEF Place, Inserting, Probing
    <3>2. Claimed(Anchor(t))
      BY <1>1, <1>2 DEF Place, Inserting, Probing
    <3>3. pc[t] = "joined" =>
            /\ Dist(link[t], idx[t]) = resizingThreshold - probes[t]
            /\ Between(Home(t), link[t], Dist(link[t], idx[t]))
            /\ Claimed(idx[t]) /\ idx[t] # link[t] /\ In(idx[t], Home(t))
      BY <1>1, <1>2 DEF Place, Probing
    <3>4. IF leap'[t] = "longLeap" THEN Anchor(t)' = Home(t)' ELSE In(Anchor(t), Home(t))'
      BY <2>1, <2>3, <2>4, <2>6, <3>1 DEF In, Claimed
    <3>5. Claimed(Anchor(t))'
      BY <2>3, <2>6, <3>2 DEF Claimed
    <3>6. pc[t] = "joined" =>
            /\ Dist(link'[t], idx'[t]) = resizingThreshold - probes'[t]
            /\ Between(Home(t), link[t], Dist(link[t], idx[t]))'
            /\ Claimed(idx[t])' /\ idx'[t] # link'[t] /\ In(idx[t], Home(t))'
      BY <2>1, <2>3, <2>4, <2>5, <3>3 DEF Between, Claimed, In
    <3> QED BY <1>2, <2>1, <3>4, <3>5, <3>6 DEF Place, Probing
  <2>9. NotMine(t, idx[t])
    <3>1. At(t).keyHash = KeyHash(t) /\ KeyHash(t) # 0
      BY <1>1, <1>2, CallTypes DEF ClaimInv, At
    <3> QED BY <1>2, <1>6, <3>1 DEF NotMine, Claimed, At
  <2>10. Regular(t) => Regular(t)'
    <3> SUFFICES ASSUME Regular(t) PROVE Regular(t)'
      OBVIOUS
    <3>1. \A j \in Index :
            Dist(Home(t), j) < Dist(Home(t), Anchor(t)) => NotMine(t, j)'
      BY <2>3 DEF Regular
    <3>2. ChainedTo(Home(t), Anchor(t))'
      BY <1>2, <2>3, <2>4, <2>6 DEF Regular, ChainedTo, OnChain, In, Claimed, LeapOf
    <3>3. NotMine(t, Anchor(t))
      BY <1>2, <2>9 DEF Regular, Anchor, Probing
    <3>4. NotMine(t, Anchor(t))'
      BY <1>2, <2>3, <2>6, <3>3 DEF NotMine, Claimed
    <3>5. pc'[t] \in Probing => Dist(Home(t), link[t]) <= Dist(Home(t), idx[t])
      BY <1>2, <2>1 DEF Regular, Probing
    <3> QED BY <2>1, <2>3, <2>6, <3>1, <3>2, <3>4, <3>5 DEF Regular
  <2>11. Progress(t)'
    <3>1. Wrapped(t) \/ Regular(t)
      BY <1>1, <1>2 DEF Progress, Inserting, Probing
    <3>2. NotMine(t, idx[t])'
      BY <1>2, <2>3, <2>4, <2>9 DEF NotMine, Claimed
    <3> QED BY <1>2, <2>1, <2>3, <2>10, <3>1, <3>2 DEF Progress
  <2> QED BY <2>2, <2>3, <2>7, <2>8, <2>11 DEF Own
<1> QED BY <1>5, <1>6

LEMMA HopStep ==
  ASSUME TableInvariant, NEW t \in Threads, Hop(t)
  PROVE  Within(t) /\ Own(t) /\ Contents' = Contents
<1>1. TypeOK /\ CallInv(t) /\ Place(t) /\ Progress(t)
  BY DEF TableInvariant, ThreadInv
<1> DEFINE p == IF At(t).keyHash = KeyHash(t) THEN "same" ELSE "link"
<1>2. /\ pc[t] = "hop" /\ pc' = [pc EXCEPT ![t] = p]
      /\ UNCHANGED <<array, request, answer, idx, link, leap, probes, seen>>
  BY DEF Hop, Goto
<1>3. TypeOK' /\ OthersKept(t)
  BY <1>1, <1>2 DEF TypeOK, Steps, OthersKept
<1>4. pc'[t] = p /\ idx'[t] = idx[t] /\ leap'[t] = leap[t] /\ answer'[t] = answer[t]
  BY <1>1, <1>2 DEF TypeOK
<1>5. Within(t)
  BY <1>2, <1>3, <1>4 DEF Within, ReadOnly, Claimant
<1>6. /\ CallInv(t)' /\ Seen(t)' /\ Contents' = Contents
      /\ Home(t)' = Home(t) /\ KeyHash(t)' = KeyHash(t) /\ Key(t)' = Key(t)
      /\ \A i \in Index : /\ Claimed(i)' <=> Claimed(i)
                          /\ NotMine(t, i)' <=> NotMine(t, i)
      /\ \A i, b \in Index : In(i, b)' <=> In(i, b)
      /\ Wrapped(t) => Wrapped(t)'
  BY <1>2, <1>4, <1>5, WithinCall DEF InsertSteps, LookupSteps
<1>7. idx[t] \in Index /\ Home(t) \in Index
  BY <1>1, <1>2, CallTypes DEF TypeOK
<1>8. Anchor(t) = idx[t] /\ Anchor(t)' = idx[t] /\ p \in {"same", "link"}
  BY <1>2, <1>4 DEF Anchor, Probing
<1>9. ClaimInv(t)' /\ Search(t)'
  BY <1>2, <1>4, <1>6 DEF ClaimInv, Claimant, At, Search, LookupSteps
<1>10. /\ Claimed(idx[t])
       /\ IF leap[t] = "longLeap" THEN idx[t] = Home(t) ELSE In(idx[t], Home(t))
  BY <1>1, <1>2, <1>8 DEF Place, Inserting, Probing
<1>11. Place(t)'
  <2>1. IF leap'[t] = "longLeap" THEN Anchor(t)' = Home(t)' ELSE In(Anchor(t), Home(t))'
    BY <1>2, <1>4, <1>6, <1>7, <1>8, <1>10 DEF In, Claimed
  <2>2. Claimed(Anchor(t))'
    BY <1>2, <1>8, <1>10 DEF Claimed
  <2> QED BY <1>4, <1>8, <2>1, <2>2 DEF Place, Probing
<1>12. Regular(t) => Regular(t)'
  <2> SUFFICES ASSUME Regular(t) PROVE Regular(t)'
    OBVIOUS
  <2>1. \A j \in Index : Dist(Home(t), j) < Dist(Home(t), idx[t]) => NotMine(t, j)'
    BY <1>6, <1>8 DEF Regular
  <2>2. ChainedTo(Home(t), Anchor(t))'
    BY <1>2, <1>6, <1>8 DEF Regular, ChainedTo, OnChain, In, Claimed, LeapOf
  <2>3. p = "link" => NotMine(t, idx[t])
    BY <1>10 DEF NotMine, At
  <2>4. pc'[t] \in {"link"} \cup Probing => NotMine(t, Anchor(t))'
    BY <1>2, <1>4, <1>6, <1>8, <2>3 DEF NotMine, Claimed, Probing
  <2>5. leap'[t] = "shortLeap" => Anchor(t)' # Home(t)'
    BY <1>4, <1>6, <1>8 DEF Regular
  <2> QED BY <1>4, <1>6, <1>8, <2>1, <2>2, <2>4, <2>5 DEF Regular, Probing
<1>13. Progress(t)'
  BY <1>1, <1>2, <1>4, <1>6, <1>8, <1>12 DEF Progress, Inserting, Probing
<1> QED BY <1>5, <1>6, <1>9, <1>11, <1>13 DEF Own

LEMMA FollowLinkStep ==
  ASSUME TableInvariant, NEW t \in Threads, FollowLink(t)
  PROVE  Within(t) /\ Own(t) /\ Contents' = Contents
<1>1. TypeOK /\ Links /\ CallInv(t) /\ Place(t) /\ Progress(t)
  BY DEF TableInvariant, TableInv, ThreadInv
<1> DEFINE d == At(t)[leap[t]]
<1>2. pc[t] = "link" /\ UNCHANGED <<array, request, answer, seen>>
  BY DEF FollowLink
<1>3. /\ idx[t] \in Index /\ Home(t) \in Index /\ leap[t] \in {"shortLeap", "longLeap"}
      /\ Anchor(t) = idx[t] /\ Key(t) \in Keys
  BY <1>1, <1>2, CallTypes DEF TypeOK, Anchor, Probing
<1>4. d \in Nat
  BY <1>1, <1>3, SizeAssumption DEF At, TypeOK, Cell
<1>5. /\ Claimed(idx[t])
      /\ IF leap[t] = "longLeap" THEN idx[t] = Home(t) ELSE In(idx[t], Home(t))
  BY <1>1, <1>2, <1>3 DEF Place, Inserting, Probing
<1>6. CASE d > 0
  <2> DEFINE n == (idx[t] + d) % Size
  <2>1. /\ d \in Index /\ n \in Index /\ In(n, Home(t)) /\ Dist(idx[t], n) = d
        /\ Between(Home(t), idx[t], d)
    BY <1>1, <1>2, <1>6, FollowedLeap DEF LinkOK
  <2>2. n # idx[t]
    BY <1>3, <1>6, <2>1, DistType
  <2>3. /\ idx' = [idx EXCEPT ![t] = n]
        /\ leap' = [leap EXCEPT ![t] = "shortLeap"]
        /\ pc' = [pc EXCEPT ![t] = "hop"]
        /\ UNCHANGED <<link, probes>>
    BY <1>1, <1>6 DEF FollowLink, Goto, TypeOK
  <2> HIDE DEF n, d
  <2>4. TypeOK' /\ OthersKept(t)
    BY <1>1, <1>2, <2>1, <2>3 DEF TypeOK, Steps, OthersKept
  <2>5. pc'[t] = "hop" /\ idx'[t] = n /\ leap'[t] = "shortLeap" /\ answer'[t] = answer[t]
    BY <1>1, <1>2, <2>3 DEF TypeOK
  <2>6. Within(t)
    BY <1>2, <2>4, <2>5 DEF Within, ReadOnly, Claimant
  <2>7. /\ CallInv(t)' /\ Seen(t)' /\ Contents' = Contents
        /\ Home(t)' = Home(t) /\ Key(t)' = Key(t)
        /\ \A i \in Index : /\ Claimed(i)' <=> Claimed(i)
                            /\ NotMine(t, i)' <=> NotMine(t, i)
        /\ \A b, e \in Index : LeapOf(b, e)' = LeapOf(b, e)
        /\ \A i, b \in Index : In(i, b)' <=> In(i, b)
        /\ Wrapped(t) => Wrapped(t)'
    BY <1>2, <2>5, <2>6, WithinCall DEF InsertSteps, LookupSteps
  <2>8. Anchor(t)' = n
    BY <2>5 DEF Anchor, Probing
  <2>9. ClaimInv(t)' /\ Search(t)'
    BY <2>5 DEF ClaimInv, Claimant, Search, LookupSteps
  <2>10. Place(t)'
    <3>1. In(Anchor(t), Home(t))' /\ Claimed(Anchor(t))'
      BY <1>2, <1>3, <2>1, <2>7, <2>8 DEF In, Claimed
    <3> QED BY <2>5, <3>1 DEF Place, Probing
  <2>11. ASSUME Regular(t)
         PROVE  Wrapped(t)' \/ Regular(t)'
    <3>1. \A j \in Index : Dist(Home(t), j) <= Dist(Home(t), idx[t]) => NotMine(t, j)
      BY <1>1, <1>2, <1>3, <2>11, PassedAnchor
    <3>2. IF Dist(Home(t), idx[t]) < Dist(Home(t), n)
          THEN \A j \in Index : Dist(Home(t), j) < Dist(Home(t), n) => NotMine(t, j)
          ELSE \A j \in Index : NotMine(t, j)
      BY <1>1, <1>2, <1>3, <2>1, <2>2, <3>1, Advance
    <3>3. CASE Dist(Home(t), idx[t]) < Dist(Home(t), n)
      <4>1. \A j \in Index :
              Dist(Home(t)', j) < Dist(Home(t)', Anchor(t)') => NotMine(t, j)'
        BY <2>7, <2>8, <3>2, <3>3
      <4>2. Anchor(t)' # Home(t)'
        BY <1>3, <2>1, <2>7, <2>8, <3>3, DistType
      <4>3. ChainedTo(Home(t), n)
        <5> SUFFICES ASSUME NEW e \in Index, Dist(Home(t), e) < Dist(Home(t), n),
                            OnChain(Home(t), e)
                     PROVE  LeapOf(Home(t), e) > 0
          BY DEF ChainedTo
        <5>1. /\ Dist(Home(t), e) \in Nat /\ Dist(Home(t), idx[t]) \in Nat
              /\ Dist(Home(t), n) \in Nat /\ Dist(idx[t], e) \in Nat
          BY <1>3, <2>1, DistType
        <5>2. CASE Dist(Home(t), e) < Dist(Home(t), idx[t])
          BY <1>3, <2>11, <5>2 DEF Regular, ChainedTo
        <5>3. CASE Dist(Home(t), e) = Dist(Home(t), idx[t])
          <6>1. e = idx[t]
            BY <1>3, <5>3, DistInjective
          <6>2. LeapOf(Home(t), e) = d
            BY <1>3, <1>5, <2>11, <6>1 DEF LeapOf, Regular, At, d
          <6> QED BY <1>6, <6>2
        <5>4. CASE Dist(Home(t), idx[t]) < Dist(Home(t), e)
          <6>1. Dist(Home(t), e) = Dist(Home(t), idx[t]) + Dist(idx[t], e)
            BY <1>3, <5>1, <5>4, DistSum
          <6>2. Dist(Home(t), n) = Dist(Home(t), idx[t]) + d
            BY <1>3, <2>1, <3>3, <5>1, DistSum
          <6>3. 0 < Dist(idx[t], e) /\ Dist(idx[t], e) < d
            BY <1>4, <5>1, <5>4, <6>1, <6>2
          <6>4. ~In(e, Home(t))
            BY <2>1, <6>3 DEF Between
          <6>5. e # Home(t)
            BY <1>3, <5>1, <5>4, DistType
          <6> QED BY <6>4, <6>5 DEF OnChain
        <5> QED BY <5>1, <5>2, <5>3, <5>4
      <4>4. ChainedTo(Home(t), Anchor(t))'
        BY <1>2, <2>7, <2>8, <4>3 DEF ChainedTo, OnChain, In, Claimed, LeapOf
      <4> QED BY <2>5, <4>1, <4>2, <4>4 DEF Regular, Probing
    <3>4. CASE ~(Dist(Home(t), idx[t]) < Dist(Home(t), n))
      <4>1. Full
        BY <3>2, <3>4 DEF Full, NotMine
      <4>2. Absent(Key(t))
        BY <1>2, <3>2, <3>4, NoneMine
      <4> QED BY <2>7, <4>1, <4>2 DEF Wrapped
    <3> QED BY <3>3, <3>4
  <2>12. Progress(t)'
    <3>1. Wrapped(t) \/ Regular(t)
      BY <1>1, <1>2 DEF Progress, Inserting, Probing
    <3> QED BY <2>5, <2>7, <2>11, <3>1 DEF Progress
  <2> QED BY <2>6, <2>7, <2>9, <2>10, <2>12 DEF Own
<1>7. CASE ~(d > 0)
  <2>1. /\ link' = [link EXCEPT ![t] = idx[t]]
        /\ probes' = [probes EXCEPT ![t] = resizingThreshold]
        /\ pc' = [pc EXCEPT ![t] = "probe"]
        /\ UNCHANGED <<idx, leap>>
    BY <1>7 DEF FollowLink, Goto
  <2>2. resizingThreshold \in 0 .. resizingThreshold
    BY ThresholdAssumption
  <2>3. TypeOK' /\ OthersKept(t)
    BY <1>1, <1>2, <1>3, <2>1, <2>2 DEF TypeOK, Steps, OthersKept
  <2>4. /\ pc'[t] = "probe" /\ idx'[t] = idx[t] /\ link'[t] = idx[t]
        /\ leap'[t] = leap[t] /\ answer'[t] = answer[t]
        /\ probes'[t] = resizingThreshold
    BY <1>1, <1>2, <2>1 DEF TypeOK
  <2>5. Within(t)
    BY <1>2, <2>3, <2>4 DEF Within, ReadOnly, Claimant
  <2>6. /\ CallInv(t)' /\ Seen(t)' /\ Contents' = Contents
        /\ Home(t)' = Home(t) /\ Key(t)' = Key(t)
        /\ \A i \in Index : /\ Claimed(i)' <=> Claimed(i)
                            /\ NotMine(t, i)' <=> NotMine(t, i)
        /\ \A i, b \in Index : In(i, b)' <=> In(i, b)
        /\ Wrapped(t) => Wrapped(t)'
    BY <1>2, <2>4, <2>5, WithinCall DEF InsertSteps, LookupSteps
  <2>7. Anchor(t)' = idx[t]
    BY <2>4 DEF Anchor, Probing
  <2>8. ClaimInv(t)' /\ Search(t)'
    BY <2>4 DEF ClaimInv, Claimant, Search, LookupSteps
  <2>9. Place(t)'
    <3>1. IF leap'[t] = "longLeap" THEN Anchor(t)' = Home(t)' ELSE In(Anchor(t), Home(t))'
      BY <1>2, <1>5, <2>4, <2>6, <2>7 DEF In, Claimed
    <3>2. Claimed(Anchor(t))'
      BY <1>2, <1>5, <2>7 DEF Claimed
    <3>3. Dist(idx[t], idx[t]) = 0
      BY <1>3, DistType
    <3>4. Between(Home(t), link[t], Dist(link[t], idx[t]))'
      <4>1. \A j \in Index : Dist(idx[t], j) \in Nat
        BY <1>3, DistType
      <4>2. \A j \in Index : ~(0 < Dist(idx[t], j) /\ Dist(idx[t], j) < 0)
        BY <4>1
      <4> QED BY <2>4, <3>3, <4>2 DEF Between
    <3>5. Dist(link'[t], idx'[t]) = resizingThreshold - probes'[t]
      BY <2>4, <3>3, ThresholdAssumption
    <3> QED BY <2>4, <3>1, <3>2, <3>4, <3>5 DEF Place, Probing
  <2>10. Regular(t) => Regular(t)'
    <3> SUFFICES ASSUME Regular(t) PROVE Regular(t)'
      OBVIOUS
    <3>1. \A j \in Index : Dist(Home(t), j) < Dist(Home(t), idx[t]) => NotMine(t, j)'
      BY <1>3, <2>6 DEF Regular
    <3>2. ChainedTo(Home(t), Anchor(t))'
      BY <1>2, <1>3, <2>6, <2>7 DEF Regular, ChainedTo, OnChain, In, Claimed, LeapOf
    <3>3. NotMine(t, Anchor(t))'
      BY <1>2, <1>3, <2>6, <2>7 DEF Regular, NotMine, Claimed
    <3>4. leap'[t] = "shortLeap" => Anchor(t)' # Home(t)'
      BY <1>3, <2>4, <2>6, <2>7 DEF Regular
    <3>5. Dist(Home(t)', link'[t]) <= Dist(Home(t)', idx'[t])
      BY <1>3, <2>4, <2>6, DistType
    <3> QED BY <2>4, <2>6, <2>7, <3>1, <3>2, <3>3, <3>4, <3>5 DEF Regular
  <2>11. Progress(t)'
    <3>1. Wrapped(t) \/ Regular(t)
      BY <1>1, <1>2 DEF Progress, Inserting, Probing
    <3> QED BY <2>4, <2>6, <2>10, <3>1 DEF Progress
  <2> QED BY <2>5, <2>6, <2>8, <2>9, <2>11 DEF Own
<1> QED BY <1>6, <1>7

LEMMA OvercrowdedStep ==
  ASSUME TableInvariant, NEW t \in Threads, Overcrowded(t)
  PROVE  Within(t) /\ Own(t) /\ Contents' = Contents
<1>1. TypeOK
  BY DEF TableInvariant
<1>2. /\ pc[t] = "probe" /\ pc' = [pc EXCEPT ![t] = "return"]
      /\ answer' = [answer EXCEPT ![t] = Map!Overflow]
      /\ UNCHANGED <<array, request, idx, link, leap, probes, seen>>
  BY DEF Overcrowded, Goto
<1>3. TypeOK' /\ OthersKept(t)
  BY <1>1, <1>2 DEF TypeOK, Steps, OthersKept
<1>4. pc'[t] = "return" /\ answer'[t] # Map!Pending
  BY <1>1, <1>2 DEF TypeOK, Map!Overflow, Map!Pending
<1>5. Within(t)
  BY <1>2, <1>3, <1>4 DEF Within, ReadOnly, Claimant
<1>6. CallInv(t)' /\ Seen(t)' /\ Contents' = Contents
  BY <1>2, <1>4, <1>5, WithinCall DEF InsertSteps, LookupSteps
<1>7. ClaimInv(t)' /\ Place(t)' /\ Progress(t)' /\ Search(t)'
  BY <1>4 DEF ClaimInv, Claimant, Place, Progress, Search, LookupSteps, Inserting,
              Probing
<1> QED BY <1>5, <1>6, <1>7 DEF Own

\* A probe of the next cell i: either t has not come home yet, or it has gone
\* round the table.
LEMMA ProbeProgress ==
  ASSUME TableInvariant, NEW t \in Threads, pc[t] = "probe", probes[t] > 0,
         NEW i, i = (idx[t] + 1) % Size, Regular(t)
  PROVE  IF Dist(Home(t), link[t]) < Dist(Home(t), i)
         THEN \A j \in Index :
                Dist(Home(t), j) < Dist(Home(t), i) => NotMine(t, j)
         ELSE Wrapped(t)
<1>1. TypeOK /\ CallInv(t) /\ Place(t)
  BY DEF TableInvariant, ThreadInv
<1>2. i \in Index /\ i # link[t] /\ Between(Home(t), link[t], Dist(link[t], i))
  BY <1>1, ProbedCell
<1>3. link[t] \in Index /\ Anchor(t) = link[t]
  BY <1>1 DEF TypeOK, Anchor, Probing
<1>4. \A j \in Index :
        Dist(Home(t), j) <= Dist(Home(t), link[t]) => NotMine(t, j)
  BY <1>1, <1>3, PassedAnchor DEF Probing
<1>5. IF Dist(Home(t), link[t]) < Dist(Home(t), i)
      THEN \A j \in Index : Dist(Home(t), j) < Dist(Home(t), i) => NotMine(t, j)
      ELSE \A j \in Index : NotMine(t, j)
  BY <1>1, <1>2, <1>3, <1>4, Advance
<1>6. (\A j \in Index : NotMine(t, j)) => Wrapped(t)
  BY NoneMine DEF Wrapped, Full, NotMine
<1> QED BY <1>5, <1>6

LEMMA ProbeRead ==
  ASSUME TableInvariant, NEW t \in Threads, LinearProbe(t),
         Claimed((idx[t] + 1) % Size)
  PROVE  Within(t) /\ Own(t) /\ Contents' = Contents
<1>1. TypeOK /\ CallInv(t) /\ Place(t) /\ Progress(t)
  BY DEF TableInvariant, ThreadInv
<1> DEFINE i == (idx[t] + 1) % Size
           p == Probed(t, array[i].keyHash)
<1>2. /\ pc[t] = "probe" /\ probes[t] > 0
      /\ probes' = [probes EXCEPT ![t] = @ - 1]
      /\ idx' = [idx EXCEPT ![t] = i]
      /\ pc' = [pc EXCEPT ![t] = p]
      /\ UNCHANGED <<array, request, answer, link, leap, seen>>
  BY DEF LinearProbe, Goto, Claimed
<1>3. /\ i \in Index /\ i # link[t]
      /\ Dist(link[t], i) = resizingThreshold - (probes[t] - 1)
      /\ Between(Home(t), link[t], Dist(link[t], i))
  BY <1>1, <1>2, ProbedCell
<1>4. Claimed(i)
  OBVIOUS
<1>5. /\ p \in {"joined", "join", "probe"}
      /\ p = "joined" <=> array[i].keyHash = KeyHash(t)
      /\ p # "probe" <=> In(i, Home(t))
  BY <1>4 DEF Probed, Claimed, In, Home
<1>6. Regular(t) =>
        IF Dist(Home(t), link[t]) < Dist(Home(t), i)
        THEN \A j \in Index : Dist(Home(t), j) < Dist(Home(t), i) => NotMine(t, j)
        ELSE Wrapped(t)
  BY <1>2, ProbeProgress
<1> HIDE DEF i, p
<1>7. /\ idx[t] \in Index /\ link[t] \in Index /\ Home(t) \in Index
      /\ probes[t] \in 0 .. resizingThreshold
  BY <1>1, <1>2, CallTypes DEF TypeOK
<1>8. TypeOK' /\ OthersKept(t)
  <2>1. probes[t] - 1 \in 0 .. resizingThreshold
    BY <1>2, <1>7, ThresholdAssumption
  <2> QED BY <1>1, <1>2, <1>3, <1>5, <2>1 DEF TypeOK, Steps, OthersKept
<1>9. /\ pc'[t] = p /\ idx'[t] = i /\ link'[t] = link[t] /\ leap'[t] = leap[t]
      /\ answer'[t] = answer[t] /\ probes'[t] = probes[t] - 1
  BY <1>1, <1>2 DEF TypeOK
<1>10. Within(t)
  BY <1>2, <1>5, <1>8, <1>9 DEF Within, ReadOnly, Claimant
<1>11. /\ CallInv(t)' /\ Seen(t)' /\ Contents' = Contents
       /\ Home(t)' = Home(t) /\ KeyHash(t)' = KeyHash(t) /\ Key(t)' = Key(t)
       /\ \A j \in Index : /\ Claimed(j)' <=> Claimed(j)
                           /\ NotMine(t, j)' <=> NotMine(t, j)
       /\ Wrapped(t) => Wrapped(t)'
  BY <1>2, <1>5, <1>9, <1>10, WithinCall DEF InsertSteps, LookupSteps
<1>12. Anchor(t) = link[t] /\ Anchor(t)' = link[t]
  BY <1>2, <1>5, <1>9 DEF Anchor, Probing
<1>13. ClaimInv(t)' /\ Search(t)'
  BY <1>2, <1>5, <1>9, <1>11 DEF ClaimInv, Claimant, Search, LookupSteps
<1>14. Place(t)'
  <2>1. /\ Claimed(link[t])
        /\ IF leap[t] = "longLeap" THEN link[t] = Home(t) ELSE In(link[t], Home(t))
    BY <1>1, <1>2, <1>12 DEF Place, Inserting, Probing
  <2>2. IF leap'[t] = "longLeap" THEN Anchor(t)' = Home(t)' ELSE In(Anchor(t), Home(t))'
    BY <1>2, <1>9, <1>11, <1>12, <2>1 DEF In, Claimed
  <2>3. Claimed(Anchor(t))'
    BY <1>2, <1>12, <2>1 DEF Claimed
  <2>4. /\ Dist(link'[t], idx'[t]) = resizingThreshold - probes'[t]
        /\ Between(Home(t), link[t], Dist(link[t], idx[t]))'
    BY <1>2, <1>3, <1>9, <1>11 DEF Between, In, Claimed
  <2>5. Claimed(idx[t])' /\ idx'[t] # link'[t]
    BY <1>2, <1>3, <1>4, <1>9 DEF Claimed
  <2>6. IF pc'[t] = "probe" THEN ~In(idx[t], Home(t))' ELSE In(idx[t], Home(t))'
    BY <1>2, <1>5, <1>9, <1>11 DEF In, Claimed
  <2> QED BY <1>5, <1>9, <2>2, <2>3, <2>4, <2>5, <2>6 DEF Place, Probing
<1>15. ASSUME Regular(t)
       PROVE  Wrapped(t)' \/ Regular(t)'
  <2>1. CASE Dist(Home(t), link[t]) < Dist(Home(t), i)
    <3>1. \A j \in Index : Dist(Home(t), j) < Dist(Home(t), link[t]) => NotMine(t, j)'
      BY <1>11, <1>12, <1>15 DEF Regular
    <3>2. ChainedTo(Home(t), Anchor(t))'
      BY <1>2, <1>11, <1>12, <1>15
         DEF Regular, ChainedTo, OnChain, In, Claimed, LeapOf
    <3>3. NotMine(t, Anchor(t))'
      BY <1>2, <1>11, <1>12, <1>15 DEF Regular, NotMine, Claimed, Probing
    <3>4. leap'[t] = "shortLeap" => Anchor(t)' # Home(t)'
      BY <1>9, <1>11, <1>12, <1>15 DEF Regular
    <3>5. Dist(Home(t)', link'[t]) <= Dist(Home(t)', idx'[t])
      BY <1>3, <1>7, <1>9, <1>11, <2>1, DistType
    <3> QED BY <1>9, <1>11, <1>12, <3>1, <3>2, <3>3, <3>4, <3>5 DEF Regular
  <2> QED BY <1>6, <1>11, <1>15, <2>1
<1>16. p = "join" => NotMine(t, idx[t])'
  BY <1>2, <1>4, <1>5, <1>9, <1>11 DEF NotMine, Claimed
<1>17. Progress(t)'
  <2>1. Wrapped(t) \/ Regular(t)
    BY <1>1, <1>2 DEF Progress, Inserting, Probing
  <2> QED BY <1>5, <1>9, <1>11, <1>15, <1>16, <2>1 DEF Progress
<1> QED BY <1>10, <1>11, <1>13, <1>14, <1>17 DEF Own

-----------------------------------------------------------------------------
\* Steps that claim a cell.
Claiming(t, i) ==
  /\ array' = [array EXCEPT ![i].keyHash = KeyHash(t)]
  /\ ~Claimed(i) /\ pc[t] \notin {"idle", "setlink", "value", "key"}
  /\ TypeOK' /\ OthersKept(t) /\ request' = request /\ seen' = seen
  /\ Claimant(t)' /\ idx'[t] = i /\ answer'[t] = answer[t]
  /\ Absent(Key(t))
  /\ \A j \in Index : Dist(Home(t), j) < Dist(Home(t), i) => Claimed(j)
  /\ pc'[t] = "setlink" \/ i = Home(t)
  /\ pc'[t] # "key" /\ pc[t] \in InsertSteps

LEMMA ClaimingEffect ==
  ASSUME TableInvariant, NEW t \in Threads, NEW i \in Index, Claiming(t, i)
  PROVE  /\ Effect(t) /\ Contents' = Contents
         /\ CallInv(t)' /\ ClaimInv(t)' /\ Seen(t)' /\ Search(t)'
         /\ Key(t)' = Key(t) /\ KeyHash(t)' = KeyHash(t) /\ Home(t)' = Home(t)
         /\ In(i, Home(t))'
<1>1. TypeOK /\ Published /\ CallInv(t) /\ Seen(t) /\ array \in [Index -> Cell]
  BY DEF TableInvariant, TableInv, ThreadInv, TypeOK
<1>2. KeyHash(t) \in Nat \ {0} /\ Home(t) \in Index
  BY <1>1, CallTypes DEF Claiming
<1>3. /\ array' \in [Index -> Cell]
      /\ \A j \in Index : j # i => array'[j] = array[j]
      /\ array'[i].keyHash = KeyHash(t) /\ array'[i].key = array[i].key
      /\ array'[i].value = array[i].value
      /\ array'[i].longLeap = array[i].longLeap
      /\ array'[i].shortLeap = array[i].shortLeap
  <2>1. array' = [array EXCEPT ![i].keyHash = KeyHash(t)] /\ KeyHash(t) \in Nat
    BY <1>2 DEF Claiming
  <2> QED BY <1>1, <2>1, StoreHash
<1>4. Kept
  BY <1>3 DEF Kept, Claiming, Claimed
<1>5. Claims(t, i)
  BY <1>3 DEF Claiming, Claims, Claimant
<1>6. pc[t] # "setlink" /\ pc[t] # "key" /\ ~Claimant(t)
  BY DEF Claiming, Claimant
<1>7. Effect(t)
  <2>1. \A j \in Index :
          /\ ~Claimed(j) /\ array'[j].keyHash # 0 => Claims(t, j)
          /\ array'[j].key = array[j].key
          /\ array'[j].value = array[j].value
          /\ array'[j].longLeap = array[j].longLeap
          /\ array'[j].shortLeap = array[j].shortLeap
    BY <1>3, <1>5 DEF Claimed
  <2>2. /\ request'[t] = request[t] /\ idx'[t] \in Index /\ ~Claimed(idx'[t])
        /\ Absent(Key(t)) /\ OthersKept(t) /\ Claimant(t)'
    BY DEF Claiming
  <2> QED BY <1>3, <1>4, <1>6, <2>1, <2>2 DEF Effect
<1>8. Contents' = Contents
  BY <1>3, ContentsSame
<1>9. /\ Key(t)' = Key(t) /\ KeyHash(t)' = KeyHash(t) /\ Home(t)' = Home(t)
  BY DEF Claiming, Key, KeyHash, Home
<1>10. In(i, Home(t))'
  BY <1>2, <1>3, <1>9 DEF In, Claimed, Home
<1>11. CallInv(t)' /\ Seen(t)' /\ Search(t)'
  BY <1>1, <1>8, <1>9
     DEF CallInv, Claiming, Claimant, InsertSteps, LookupSteps, Seen, Search
<1>12. ClaimInv(t)'
  <2>1. array[i].key = Null
    BY <1>1, HashAssumption DEF Claiming, Claimed, Published, TypeOK, Cell
  <2>2. \A j \in Index : array'[j].key # Key(t)
    BY <1>3 DEF Claiming, Absent
  <2>3. ASSUME NEW u \in Threads, Claimant(u)', idx'[u] = i \/ Key(u)' = Key(t)
        PROVE  u = t
    <3> SUFFICES ASSUME u # t PROVE FALSE
      OBVIOUS
    <3>1. /\ Claimant(u) /\ idx[u] = idx'[u] /\ Key(u)' = Key(u) /\ idx[u] \in Index
      BY <1>1, <2>3, OtherLocals DEF Claiming
    <3>2. Key(u) # Key(t)
      BY <3>1 DEF Claiming, Absent
    <3>3. CallInv(u) /\ ClaimInv(u) /\ pc[u] # "idle"
      BY <3>1 DEF TableInvariant, ThreadInv, Claimant
    <3>4. Claimed(idx[u])
      BY <1>1, <3>1, <3>3, CallTypes DEF ClaimInv, Claimed
    <3> QED BY <2>3, <3>1, <3>2, <3>4 DEF Claiming
  <2>4. idx'[t] = i /\ pc'[t] \in {"setlink", "value"}
    BY DEF Claiming, Claimant
  <2>5. array'[idx'[t]].keyHash = KeyHash(t)' /\ array'[idx'[t]].key = Null
    BY <1>3, <1>9, <2>1, <2>4
  <2>6. /\ \A j \in Index : array'[j].key # Key(t)'
        /\ \A u \in Threads :
             Claimant(u)' /\ (idx'[u] = idx'[t] \/ Key(u)' = Key(t)') => u = t
    BY <1>9, <2>2, <2>3, <2>4
  <2> QED BY <2>4, <2>5, <2>6 DEF ClaimInv
<1> QED BY <1>7, <1>8, <1>9, <1>10, <1>11, <1>12

LEMMA HomeClaim ==
  ASSUME TableInvariant, NEW t \in Threads, InsertHome(t), At(t).keyHash = 0
  PROVE  Claiming(t, idx[t]) /\ Own(t)
<1>1. TypeOK /\ Packed /\ CallInv(t) /\ Place(t)
  BY DEF TableInvariant, TableInv, ThreadInv
<1>2. pc[t] = "home"
  BY DEF InsertHome
<1>3. idx[t] \in Index /\ idx[t] = Home(t) /\ KeyHash(t) \in Nat \ {0}
  BY <1>1, <1>2, CallTypes DEF Place, TypeOK
<1>4. /\ array' = [array EXCEPT ![idx[t]].keyHash = KeyHash(t)]
      /\ pc' = [pc EXCEPT ![t] = "value"]
      /\ UNCHANGED <<request, answer, idx, link, leap, probes, seen>>
  BY <1>3 DEF InsertHome, Claim, Goto
<1>5. array' \in [Index -> Cell]
  <2>1. KeyHash(t) \in Nat /\ array \in [Index -> Cell]
    BY <1>1, <1>3 DEF TypeOK
  <2> QED BY <1>3, <1>4, <2>1, StoreHash
<1>6. TypeOK' /\ OthersKept(t)
  BY <1>1, <1>4, <1>5 DEF TypeOK, Steps, OthersKept
<1>7. pc'[t] = "value" /\ idx'[t] = idx[t]
  BY <1>1, <1>4 DEF TypeOK
<1>8. ~Claimed(idx[t])
  BY DEF Claimed, At
<1>9. \A j \in Index : ~In(j, Home(t))
  <2> SUFFICES ASSUME NEW j \in Index, In(j, Home(t)) PROVE FALSE
    OBVIOUS
  <2>1. Dist(Home(t), idx[t]) <= Dist(Home(t), j)
    BY <1>3, DistType
  <2> QED BY <1>1, <1>3, <1>8, <2>1 DEF Packed, In
<1>10. Absent(Key(t))
  BY <1>2, <1>9, NoneMine
<1>11. \A j \in Index : ~(Dist(Home(t), j) < Dist(Home(t), idx[t]))
  BY <1>3, SizeAssumption DEF Dist, Index
<1>12. Claiming(t, idx[t])
  BY <1>2, <1>3, <1>4, <1>6, <1>7, <1>8, <1>10, <1>11
     DEF Claiming, Claimant, InsertSteps
<1>13. Place(t)' /\ Progress(t)'
  BY <1>7 DEF Place, Progress, LookupSteps, Inserting, Probing
<1> QED BY <1>3, <1>12, <1>13, ClaimingEffect DEF Own

LEMMA ProbeClaim ==
  ASSUME TableInvariant, NEW t \in Threads, LinearProbe(t),
         NEW i, i = (idx[t] + 1) % Size, ~Claimed(i)
  PROVE  Claiming(t, i) /\ Own(t)
<1>1. TypeOK /\ Packed /\ CallInv(t) /\ Place(t) /\ Progress(t)
  BY DEF TableInvariant, TableInv, ThreadInv
<1>2. pc[t] = "probe" /\ probes[t] > 0
  BY DEF LinearProbe
<1>3. /\ i \in Index /\ i # link[t]
      /\ Dist(link[t], i) = resizingThreshold - (probes[t] - 1)
      /\ Between(Home(t), link[t], Dist(link[t], i))
  BY <1>1, <1>2, ProbedCell
<1>4. ~Claimed(i)
  OBVIOUS
<1>5. /\ array' = [array EXCEPT ![i].keyHash = KeyHash(t)]
      /\ probes' = [probes EXCEPT ![t] = @ - 1]
      /\ idx' = [idx EXCEPT ![t] = i]
      /\ pc' = [pc EXCEPT ![t] = "setlink"]
      /\ UNCHANGED <<request, answer, link, leap, seen>>
  BY <1>4 DEF LinearProbe, Goto, Claimed, Probed
<1>6. /\ idx[t] \in Index /\ link[t] \in Index /\ Home(t) \in Index
      /\ probes[t] \in 0 .. resizingThreshold /\ KeyHash(t) \in Nat \ {0}
  BY <1>1, <1>2, CallTypes DEF TypeOK
<1>7. Regular(t) /\ ~Wrapped(t)
  BY <1>1, <1>2, <1>3, <1>4 DEF Progress, Inserting, Probing, Wrapped, Full
<1>8. /\ Dist(Home(t), link[t]) < Dist(Home(t), i)
      /\ \A j \in Index : Dist(Home(t), j) < Dist(Home(t), i) => NotMine(t, j)
  BY <1>2, <1>7, ProbeProgress
<1>9. array' \in [Index -> Cell]
  <2>1. KeyHash(t) \in Nat /\ array \in [Index -> Cell]
    BY <1>1, <1>6 DEF TypeOK
  <2> QED BY <1>3, <1>5, <2>1, StoreHash
<1>10. TypeOK' /\ OthersKept(t)
  <2>1. probes[t] - 1 \in 0 .. resizingThreshold
    BY <1>2, <1>6, ThresholdAssumption
  <2> QED BY <1>1, <1>3, <1>5, <1>9, <2>1 DEF TypeOK, Steps, OthersKept
<1>11. /\ pc'[t] = "setlink" /\ idx'[t] = i /\ link'[t] = link[t]
       /\ leap'[t] = leap[t] /\ probes'[t] = probes[t] - 1
       /\ answer'[t] = answer[t] /\ request'[t] = request[t]
  BY <1>1, <1>5 DEF TypeOK
<1>12. Absent(Key(t))
  <2>1. ASSUME NEW j \in Index
        PROVE  NotMine(t, j) \/ ~In(j, Home(t))
    <3>1. Dist(Home(t), j) \in Nat /\ Dist(Home(t), i) \in Nat
      BY <1>3, <1>6, DistType
    <3>2. CASE Dist(Home(t), j) < Dist(Home(t), i)
      BY <1>8, <3>2
    <3>3. CASE Dist(Home(t), i) <= Dist(Home(t), j)
      BY <1>1, <1>3, <1>4, <3>3 DEF Packed, In
    <3> QED BY <3>1, <3>2, <3>3
  <2> QED BY <1>2, <2>1, NoneMine
<1>13. Claiming(t, i)
  BY <1>2, <1>4, <1>5, <1>8, <1>10, <1>11, <1>12
     DEF Claiming, Claimant, InsertSteps, NotMine
<1>14. /\ Effect(t) /\ CallInv(t)' /\ ClaimInv(t)' /\ Seen(t)' /\ Search(t)'
       /\ Home(t)' = Home(t) /\ In(i, Home(t))'
  BY <1>3, <1>13, ClaimingEffect
<1>15. Kept
  BY <1>14 DEF Effect
<1>16. Anchor(t) = link[t] /\ Anchor(t)' = link[t]
  BY <1>2, <1>11 DEF Anchor, Probing
<1>17. /\ Claimed(link[t])
       /\ IF leap[t] = "longLeap" THEN link[t] = Home(t) ELSE In(link[t], Home(t))
  BY <1>1, <1>2, <1>16 DEF Place, Inserting, Probing
<1>18. ASSUME NEW a \in Index, a = link[t], NEW h \in Index, h = Home(t)
       PROVE  /\ Claimed(a)' /\ (In(a, h)' <=> In(a, h))
              /\ Between(h, a, Dist(a, i))'
              /\ ChainedTo(h, a)' /\ NotMine(t, a)'
              /\ \A j \in Index : Dist(h, j) < Dist(h, a) => NotMine(t, j)'
  <2>1. Claimed(a)' /\ (In(a, h)' <=> In(a, h))
    BY <1>1, <1>15, <1>17, <1>18, CellsKept
  <2>2. Dist(a, i) \in Nat
    BY <1>3, DistType
  <2>3. Between(h, a, Dist(a, i))'
    BY <1>1, <1>3, <1>15, <1>18, <2>2, BetweenKept
  <2>4. /\ ChainedTo(h, a) /\ NotMine(t, a)
        /\ \A j \in Index : Dist(h, j) < Dist(h, a) => NotMine(t, j)
    BY <1>2, <1>7, <1>16, <1>18 DEF Regular, Probing
  <2>5. \A j \in Index : NotMine(t, j) => NotMine(t, j)'
    BY <1>1, <1>11, <1>15, NotMineKept
  <2>6. ChainedTo(h, a)'
    BY <1>1, <1>15, <2>4, ChainKept DEF NotMine
  <2> QED BY <2>1, <2>3, <2>4, <2>5, <2>6
<1>19. Place(t)'
  <2>1. IF leap'[t] = "longLeap" THEN Anchor(t)' = Home(t)' ELSE In(Anchor(t), Home(t))'
    BY <1>6, <1>11, <1>14, <1>16, <1>17, <1>18 DEF In, Claimed
  <2>2. Claimed(Anchor(t))'
    BY <1>6, <1>16, <1>18 DEF Claimed
  <2>3. Dist(link'[t], idx'[t]) = resizingThreshold - probes'[t] /\ idx'[t] # link'[t]
    BY <1>3, <1>11
  <2>4. Between(Home(t), link[t], Dist(link[t], idx[t]))'
    BY <1>6, <1>11, <1>14, <1>18 DEF Between, In, Claimed
  <2>5. In(idx[t], Home(t))' /\ Claimed(idx[t])'
    BY <1>11, <1>14 DEF In, Claimed
  <2> QED BY <1>11, <2>1, <2>2, <2>3, <2>4, <2>5 DEF Place, Probing
<1>20. Regular(t)'
  <2>1. ChainedTo(Home(t), Anchor(t))'
    BY <1>6, <1>14, <1>16, <1>18 DEF ChainedTo, OnChain, In, Claimed, LeapOf
  <2>2. NotMine(t, Anchor(t))'
    BY <1>6, <1>16, <1>18 DEF NotMine, Claimed
  <2>3. \A j \in Index :
          Dist(Home(t)', j) < Dist(Home(t)', Anchor(t)') => NotMine(t, j)'
    BY <1>6, <1>14, <1>16, <1>18
  <2>4. leap'[t] = "shortLeap" => Anchor(t)' # Home(t)'
    BY <1>7, <1>11, <1>14, <1>16 DEF Regular
  <2>5. Dist(Home(t)', link'[t]) <= Dist(Home(t)', idx'[t])
    <3>1. Dist(Home(t), link[t]) \in Nat /\ Dist(Home(t), i) \in Nat
      BY <1>3, <1>6, DistType
    <3>2. Dist(Home(t), link[t]) <= Dist(Home(t), i)
      BY <1>8, <3>1
    <3> QED BY <1>11, <1>14, <3>2
  <2> QED BY <2>1, <2>2, <2>3, <2>4, <2>5 DEF Regular
<1>21. Progress(t)'
  BY <1>11, <1>20 DEF Progress
<1> QED BY <1>13, <1>14, <1>19, <1>21 DEF Own

-----------------------------------------------------------------------------
\* A link is set: the chain is complete up to the current cell.
LEMMA SetLinkStep ==
  ASSUME TableInvariant, NEW t \in Threads, SetLink(t)
  PROVE  TypeOK' /\ Effect(t) /\ Own(t) /\ Contents' = Contents /\ seen' = seen
<1>1. TypeOK /\ CallInv(t) /\ ClaimInv(t) /\ Place(t) /\ Progress(t) /\ Seen(t)
  BY DEF TableInvariant, ThreadInv
<1>2. /\ pc[t] \in {"setlink", "join"}
      /\ array' = [array EXCEPT ![link[t]][leap[t]] = Delta(t)]
      /\ UNCHANGED <<request, answer, idx, seen>>
  BY DEF SetLink
<1>3. /\ idx[t] \in Index /\ link[t] \in Index /\ Home(t) \in Index
      /\ leap[t] \in {"shortLeap", "longLeap"} /\ array \in [Index -> Cell]
      /\ KeyHash(t) \in Nat \ {0}
  BY <1>1, <1>2, CallTypes DEF TypeOK
<1>4. /\ Delta(t) = Dist(link[t], idx[t])
      /\ Dist(link[t], idx[t]) \in Index /\ Dist(link[t], idx[t]) \in Nat
      /\ Dist(link[t], idx[t]) = 0 => link[t] = idx[t]
  <2>1. Delta(t) = Dist(link[t], idx[t])
    BY <1>3, DistMod DEF Delta
  <2> QED BY <1>3, <2>1, DistType
<1>5. /\ Claimed(link[t]) /\ In(idx[t], Home(t)) /\ idx[t] # link[t]
      /\ IF leap[t] = "longLeap" THEN link[t] = Home(t) ELSE In(link[t], Home(t))
      /\ Between(Home(t), link[t], Delta(t))
      /\ Delta(t) = resizingThreshold - probes[t] /\ probes[t] \in Nat
  BY <1>1, <1>2, <1>4 DEF Place, Inserting, Probing, Anchor, TypeOK
<1>6. Delta(t) > 0 /\ Delta(t) \in Nat /\ Delta(t) \in Index
  BY <1>4, <1>5
<1>7. /\ array' \in [Index -> Cell]
      /\ \A j \in Index : j # link[t] => array'[j] = array[j]
      /\ array'[link[t]].keyHash = array[link[t]].keyHash
      /\ array'[link[t]].key = array[link[t]].key
      /\ array'[link[t]].value = array[link[t]].value
      /\ array'[link[t]].longLeap =
           IF leap[t] = "longLeap" THEN Delta(t) ELSE array[link[t]].longLeap
      /\ array'[link[t]].shortLeap =
           IF leap[t] = "shortLeap" THEN Delta(t) ELSE array[link[t]].shortLeap
  <2>1. /\ array \in [Index -> Cell] /\ link[t] \in Index /\ Delta(t) \in Index
        /\ leap[t] \in {"shortLeap", "longLeap"}
    BY <1>3, <1>6
  <2>2. array' = [array EXCEPT ![link[t]][leap[t]] = Delta(t)]
    BY <1>2
  <2>3. ASSUME NEW i \in Index, i = link[t], NEW d \in Index, d = Delta(t),
               NEW f \in {"shortLeap", "longLeap"}, f = leap[t]
        PROVE  /\ array' \in [Index -> Cell]
               /\ \A j \in Index : j # i => array'[j] = array[j]
               /\ array'[i].keyHash = array[i].keyHash /\ array'[i].key = array[i].key
               /\ array'[i].value = array[i].value
               /\ array'[i].longLeap = IF f = "longLeap" THEN d ELSE array[i].longLeap
               /\ array'[i].shortLeap = IF f = "shortLeap" THEN d ELSE array[i].shortLeap
    <3>1. array' = [array EXCEPT ![i][f] = d]
      BY <2>2, <2>3
    <3>2. d \in 0 .. Size
      BY SizeAssumption DEF Index
    <3>3. CASE f = "shortLeap"
      BY <2>1, <3>1, <3>2, <3>3 DEF Cell
    <3>4. CASE f = "longLeap"
      BY <2>1, <3>1, <3>2, <3>4 DEF Cell
    <3> QED BY <3>3, <3>4
  <2> QED BY <2>1, <2>3
<1>8. \A j \in Index :
        /\ array'[j].keyHash = array[j].keyHash
        /\ array'[j].key = array[j].key /\ array'[j].value = array[j].value
        /\ array'[j].longLeap # array[j].longLeap =>
             j = link[t] /\ leap[t] = "longLeap" /\ array'[j].longLeap = Delta(t)
        /\ array'[j].shortLeap # array[j].shortLeap =>
             j = link[t] /\ leap[t] = "shortLeap" /\ array'[j].shortLeap = Delta(t)
  BY <1>3, <1>7
<1>9. Kept
  <2>1. \A j \in Index : array[j].longLeap \in Nat /\ array[j].shortLeap \in Nat
    BY <1>3, SizeAssumption DEF Cell
  <2> QED BY <1>6, <1>8, <2>1 DEF Kept
<1>10. LinkOK(Home(t), link[t], Delta(t))
  <2>1. Delta(t) <= resizingThreshold
    BY <1>5, ThresholdAssumption
  <2>2. Forward(link[t], Delta(t)) = idx[t]
    BY <1>3, <1>4, DistForward
  <2> QED BY <1>5, <2>1, <2>2 DEF LinkOK
<1>11. pc[t] = "join" \/ pc[t] = "setlink"
  BY <1>2
<1>12. pc'[t] = (IF pc[t] = "setlink" THEN "value" ELSE "link")
  BY <1>1 DEF SetLink, Goto, TypeOK
<1>13. TypeOK' /\ OthersKept(t)
  <2>1. 0 \in Index /\ 0 \in 0 .. resizingThreshold
    BY SizeAssumption, ThresholdAssumption DEF Index
  <2> QED BY <1>1, <1>2, <1>7, <2>1
          DEF SetLink, Goto, LeaveInsert, TypeOK, Steps, OthersKept
<1>14. ASSUME NEW h \in Index, h = Home(t), NEW i \in Index, i = idx[t], Regular(t)
       PROVE  ChainedTo(h, i)'
  <2> SUFFICES ASSUME NEW e \in Index, Dist(h, e) < Dist(h, i), OnChain(h, e)'
               PROVE  LeapOf(h, e)' > 0
    BY DEF ChainedTo
  <2>1. OnChain(h, e)
    BY <1>8 DEF OnChain, In, Claimed
  <2>2. Anchor(t) = link[t]
    BY <1>2 DEF Anchor, Probing
  <2>3. Dist(h, link[t]) <= Dist(h, i)
    BY <1>2, <1>14 DEF Regular, Probing
  <2>4. /\ Dist(h, e) \in Nat /\ Dist(h, i) \in Nat /\ Dist(h, link[t]) \in Nat
        /\ Dist(link[t], e) \in Nat /\ Dist(link[t], i) \in Nat
    BY <1>3, DistType
  <2>5. CASE Dist(h, e) < Dist(h, link[t])
    <3>1. LeapOf(h, e) > 0
      BY <1>14, <2>1, <2>2, <2>5 DEF Regular, ChainedTo
    <3> QED BY <1>9, <3>1 DEF Kept, LeapOf
  <2>6. CASE Dist(h, e) = Dist(h, link[t])
    <3>1. e = link[t]
      BY <1>3, <2>6, DistInjective
    <3>2. CASE leap[t] = "longLeap"
      BY <1>5, <1>6, <1>7, <1>14, <3>1, <3>2 DEF LeapOf
    <3>3. CASE leap[t] = "shortLeap"
      <4>1. e # h
        BY <1>14, <2>2, <3>1, <3>3 DEF Regular
      <4> QED BY <1>6, <1>7, <3>1, <3>3, <4>1 DEF LeapOf
    <3> QED BY <1>3, <3>2, <3>3
  <2>7. CASE Dist(h, link[t]) < Dist(h, e)
    <3>1. Dist(h, e) = Dist(h, link[t]) + Dist(link[t], e)
      BY <1>3, <2>4, <2>7, DistSum
    <3>2. Dist(h, i) = Dist(h, link[t]) + Dist(link[t], i)
      BY <1>3, <2>3, DistSum
    <3>3. 0 < Dist(link[t], e) /\ Dist(link[t], e) < Delta(t)
      BY <1>4, <1>14, <2>4, <2>7, <3>1, <3>2
    <3>4. ~In(e, h)
      BY <1>5, <1>14, <3>3 DEF Between
    <3>5. e # h
      BY <2>4, <2>7, DistType
    <3> QED BY <2>1, <3>4, <3>5 DEF OnChain
  <2> QED BY <2>4, <2>5, <2>6, <2>7
<1>15. Effect(t)
  <2>1. \A j \in Index :
          /\ ~Claimed(j) => array'[j].keyHash = 0
          /\ array'[j].longLeap # array[j].longLeap =>
               LinkOK(j, j, array'[j].longLeap)
          /\ array'[j].shortLeap # array[j].shortLeap =>
               LinkOK(Bucket(array[j].keyHash), j, array'[j].shortLeap)
    BY <1>5, <1>8, <1>10 DEF Claimed, In
  <2>2. pc[t] = "setlink" => Regular(t)
    BY <1>1 DEF Progress
  <2>3. /\ Claimant(t)' <=> Claimant(t)
        /\ pc'[t] # "setlink" /\ request'[t] = request[t] /\ idx'[t] = idx[t]
    BY <1>2, <1>12 DEF Claimant
  <2> QED BY <1>7, <1>8, <1>9, <1>13, <1>14, <2>1, <2>2, <2>3 DEF Effect
<1>16. Contents' = Contents
  BY <1>8, ContentsSame
<1>17. /\ Key(t)' = Key(t) /\ KeyHash(t)' = KeyHash(t) /\ Home(t)' = Home(t)
       /\ request'[t] = request[t] /\ answer'[t] = answer[t] /\ idx'[t] = idx[t]
  BY <1>2 DEF Key, KeyHash, Home
<1>18. CallInv(t)' /\ Search(t)' /\ Seen(t)'
  BY <1>1, <1>2, <1>12, <1>16, <1>17
     DEF CallInv, InsertSteps, LookupSteps, Search, Seen
<1>19. CASE pc[t] = "setlink"
  <2>1. pc'[t] = "value"
    BY <1>12, <1>19
  <2>2. /\ array[idx[t]].keyHash = KeyHash(t) /\ array[idx[t]].key = Null
        /\ \A j \in Index : array[j].key # Key(t)
        /\ \A u \in Threads :
             Claimant(u) /\ (idx[u] = idx[t] \/ Key(u) = Key(t)) => u = t
    BY <1>1, <1>19 DEF ClaimInv, Claimant
  <2>3. \A u \in Threads : u # t =>
          /\ Claimant(u)' <=> Claimant(u)
          /\ Key(u)' = Key(u) /\ idx'[u] = idx[u]
    BY <1>1, <1>13, OtherLocals
  <2>4. ClaimInv(t)'
    BY <1>3, <1>8, <1>17, <2>1, <2>2, <2>3 DEF ClaimInv
  <2>5. Place(t)' /\ Progress(t)'
    BY <2>1 DEF Place, Progress, LookupSteps, Inserting, Probing
  <2> QED BY <1>2, <1>13, <1>15, <1>16, <1>18, <2>4, <2>5 DEF Own
<1>20. CASE pc[t] = "join"
  <2>1. pc'[t] = "link" /\ leap'[t] = "shortLeap"
    BY <1>1, <1>12, <1>20 DEF SetLink, TypeOK
  <2>2. Anchor(t) = link[t] /\ Anchor(t)' = idx[t]
    BY <1>17, <1>20, <2>1 DEF Anchor, Probing
  <2>3. ClaimInv(t)'
    BY <2>1 DEF ClaimInv, Claimant
  <2>4. In(idx[t], Home(t))' /\ Claimed(idx[t])'
    BY <1>3, <1>5, <1>8, <1>17 DEF In, Claimed
  <2>5. Place(t)'
    <3>1. In(Anchor(t), Home(t))' /\ Claimed(Anchor(t))'
      BY <1>17, <2>2, <2>4 DEF In, Claimed
    <3> QED BY <2>1, <3>1 DEF Place, Probing
  <2>6. \A j \in Index : NotMine(t, j) => NotMine(t, j)'
    BY <1>1, <1>9, <1>17, NotMineKept
  <2>7. ASSUME Regular(t)
        PROVE  Regular(t)'
    <3>1. \A j \in Index : Dist(Home(t), j) <= Dist(Home(t), link[t]) => NotMine(t, j)
      BY <1>1, <1>20, <2>2, <2>7, PassedAnchor DEF Probing
    <3>2. Dist(Home(t), link[t]) <= Dist(Home(t), idx[t])
      BY <1>20, <2>7 DEF Regular, Probing
    <3>3. Dist(Home(t), link[t]) < Dist(Home(t), idx[t])
      <4>1. Dist(Home(t), link[t]) \in Nat /\ Dist(Home(t), idx[t]) \in Nat
        BY <1>3, DistType
      <4>2. Dist(Home(t), link[t]) # Dist(Home(t), idx[t])
        BY <1>3, <1>5, DistInjective
      <4> QED BY <3>2, <4>1, <4>2
    <3>4. \A j \in Index : Dist(Home(t), j) < Dist(Home(t), idx[t]) => NotMine(t, j)
      <4>1. Between(Home(t), link[t], Dist(link[t], idx[t]))
        BY <1>4, <1>5
      <4> QED BY <1>1, <1>3, <1>5, <1>20, <3>1, <3>3, <4>1, Advance
    <3>5. NotMine(t, idx[t])
      BY <1>1, <1>20 DEF Progress
    <3>6. \A j \in Index :
            Dist(Home(t)', j) < Dist(Home(t)', Anchor(t)') => NotMine(t, j)'
      BY <1>17, <2>2, <2>6, <3>4
    <3>7. NotMine(t, Anchor(t))'
      BY <1>3, <1>8, <1>17, <2>2, <3>5 DEF NotMine, Claimed
    <3>8. ChainedTo(Home(t), Anchor(t))'
      BY <1>3, <1>14, <1>17, <2>2, <2>7 DEF ChainedTo, OnChain, In, Claimed, LeapOf
    <3>9. Anchor(t)' # Home(t)'
      BY <1>3, <1>17, <2>2, <3>3, DistType
    <3> QED BY <2>1, <3>6, <3>7, <3>8, <3>9 DEF Regular, Probing
  <2>8. Wrapped(t) => Wrapped(t)'
    <3>1. \A u \in Threads : Claimant(u)' => Claimant(u) /\ Key(u)' = Key(u)
      BY <1>1, <1>13, <2>1, OtherLocals DEF Claimant
    <3> QED BY <1>8, <1>17, <3>1 DEF Wrapped, Full, Absent, Claimed
  <2>9. Progress(t)'
    <3>1. Wrapped(t) \/ Regular(t)
      BY <1>1, <1>20 DEF Progress, Inserting, Probing
    <3> QED BY <2>1, <2>7, <2>8, <3>1 DEF Progress
  <2> QED BY <1>2, <1>13, <1>15, <1>16, <1>18, <2>3, <2>5, <2>9 DEF Own
<1> QED BY <1>11, <1>19, <1>20

-----------------------------------------------------------------------------
\* Steps that store a value or a key.
LEMMA StoreValueStep ==
  ASSUME TableInvariant, NEW t \in Threads, StoreValue(t)
  PROVE  TypeOK' /\ Effect(t) /\ Own(t) /\ Contents' = Contents /\ seen' = seen
<1>1. /\ TypeOK /\ CallInv(t) /\ ClaimInv(t) /\ Seen(t)
      /\ array \in [Index -> Cell] /\ idx[t] \in Index
  BY DEF TableInvariant, ThreadInv, TypeOK
<1>2. /\ pc[t] = "value" /\ pc' = [pc EXCEPT ![t] = "key"]
      /\ array' = [array EXCEPT ![idx[t]].value = request[t].value]
      /\ UNCHANGED <<request, answer, idx, link, leap, probes, seen>>
  BY DEF StoreValue, Goto
<1>3. request[t].value \in Values \cup {Null}
  BY <1>1, <1>2, CallTypes DEF CallInv, InsertSteps
<1>4. /\ array' \in [Index -> Cell]
      /\ \A j \in Index : j # idx[t] => array'[j] = array[j]
      /\ array'[idx[t]].keyHash = array[idx[t]].keyHash
      /\ array'[idx[t]].key = array[idx[t]].key
      /\ array'[idx[t]].value = request[t].value
      /\ array'[idx[t]].longLeap = array[idx[t]].longLeap
      /\ array'[idx[t]].shortLeap = array[idx[t]].shortLeap
  BY <1>1, <1>2, <1>3, StoreCellValue
<1>5. \A j \in Index :
        /\ array'[j].keyHash = array[j].keyHash /\ array'[j].key = array[j].key
        /\ array'[j].longLeap = array[j].longLeap
        /\ array'[j].shortLeap = array[j].shortLeap
        /\ array'[j].value # array[j].value => j = idx[t]
  BY <1>4
<1>6. TypeOK' /\ OthersKept(t)
  BY <1>1, <1>2, <1>4 DEF TypeOK, Steps, OthersKept
<1>7. pc'[t] = "key" /\ idx'[t] = idx[t] /\ request'[t] = request[t]
      /\ answer'[t] = answer[t]
  BY <1>1, <1>2 DEF TypeOK
<1>8. Kept
  BY <1>5 DEF Kept
<1>9. Effect(t)
  BY <1>2, <1>4, <1>5, <1>6, <1>7, <1>8 DEF Effect, Claimant, Claimed
<1>10. /\ array[idx[t]].keyHash = KeyHash(t) /\ array[idx[t]].key = Null
       /\ \A j \in Index : array[j].key # Key(t)
       /\ \A u \in Threads :
            Claimant(u) /\ (idx[u] = idx[t] \/ Key(u) = Key(t)) => u = t
  BY <1>1, <1>2 DEF ClaimInv, Claimant
<1>11. Contents' = Contents
  BY <1>5, <1>10, ContentsSame
<1>12. Key(t)' = Key(t) /\ KeyHash(t)' = KeyHash(t)
  BY <1>2 DEF Key, KeyHash
<1>13. CallInv(t)' /\ Search(t)' /\ Seen(t)'
  BY <1>1, <1>2, <1>7, <1>11, <1>12
     DEF CallInv, InsertSteps, LookupSteps, Search, Seen
<1>14. Place(t)' /\ Progress(t)'
  BY <1>7 DEF Place, Progress, LookupSteps, Inserting, Probing
<1>15. \A u \in Threads : u # t =>
         /\ Claimant(u)' <=> Claimant(u)
         /\ Key(u)' = Key(u) /\ idx'[u] = idx[u]
  BY <1>1, <1>6, OtherLocals
<1>16. ClaimInv(t)'
  <2>1. /\ array'[idx'[t]].keyHash = KeyHash(t)' /\ array'[idx'[t]].key = Null
        /\ \A j \in Index : array'[j].key # Key(t)'
    BY <1>1, <1>5, <1>7, <1>10, <1>12
  <2>2. \A u \in Threads :
          Claimant(u)' /\ (idx'[u] = idx'[t] \/ Key(u)' = Key(t)') => u = t
    BY <1>7, <1>10, <1>12, <1>15
  <2>3. array'[idx'[t]].value = request'[t].value
    BY <1>4, <1>7
  <2> QED BY <1>7, <2>1, <2>2, <2>3 DEF ClaimInv
<1> QED BY <1>2, <1>6, <1>9, <1>11, <1>13, <1>14, <1>16 DEF Own

\* An update: the map changes at the key of t, and every call about that key
\* sees it.
MapSet(t, v) ==
  /\ Contents' = [Contents EXCEPT ![Key(t)] = v]
  /\ Map!Witness(Key(t), v)

LEMMA WitnessSeen ==
  ASSUME TableInvariant, NEW t \in Threads, pc[t] # "idle", NEW v, MapSet(t, v),
         NEW u \in Threads, pc'[u] # "idle" => pc[u] # "idle",
         request'[u] = request[u]
  PROVE  seen[u] \subseteq seen'[u] /\ Seen(u)'
<1>1. TypeOK /\ CallInv(u) /\ Seen(u) /\ CallInv(t)
  BY DEF TableInvariant, ThreadInv
<1>2. seen'[u] = IF request[u] # Map!NoRequest /\ request[u].key = Key(t)
                 THEN seen[u] \cup {v} ELSE seen[u]
  BY DEF MapSet, Map!Witness
<1>3. Key(u)' = Key(u) /\ Key(u) = request[u].key
  BY DEF Key
<1>4. ASSUME pc'[u] # "idle"
      PROVE  Contents'[Key(u)] \in seen'[u]
  <2>1. pc[u] # "idle" /\ request[u] # Map!NoRequest
    BY <1>1, <1>4 DEF CallInv
  <2>2. Key(u) \in Keys /\ Key(t) \in Keys
    BY <1>1, <2>1, CallTypes
  <2>3. Contents[Key(u)] \in seen[u]
    BY <1>1, <2>1 DEF Seen
  <2>4. DOMAIN Contents = Keys
    BY DEF Contents
  <2>5. Contents'[Key(u)] = IF Key(u) = Key(t) THEN v ELSE Contents[Key(u)]
    BY <2>2, <2>4 DEF MapSet
  <2> QED BY <1>2, <1>3, <2>1, <2>3, <2>5
<1> QED BY <1>2, <1>3, <1>4 DEF Seen

LEMMA WitnessType ==
  ASSUME TypeOK, NEW k, NEW v \in Values \cup {Null}, Map!Witness(k, v)
  PROVE  seen' \in [Threads -> SUBSET (Values \cup {Null})]
  BY DEF TypeOK, Map!Witness

\* What StoreKey, Found and TakeDissoc have in common: they store into the cell
\* of their key, and return.
Updates(t, v) ==
  /\ pc' = [pc EXCEPT ![t] = "return"]
  /\ array' \in [Index -> Cell]
  /\ \A j \in Index :
       /\ j # idx[t] => array'[j] = array[j]
       /\ array'[j].keyHash = array[j].keyHash
       /\ array'[j].longLeap = array[j].longLeap
       /\ array'[j].shortLeap = array[j].shortLeap
  /\ array'[idx[t]].key = Key(t) /\ array'[idx[t]].value = v
  /\ answer' \in [Threads -> Values \cup {Map!Pending, Map!Nil, Map!Overflow}]
  /\ answer'[t] # Map!Pending
  /\ \A u \in Threads : u # t => answer'[u] = answer[u]
  /\ Map!Witness(Key(t), v)
  /\ UNCHANGED <<request, idx, link, leap, probes>>

LEMMA UpdatesStep ==
  ASSUME TableInvariant, NEW t \in Threads, NEW v \in Values \cup {Null},
         pc[t] \in {"key", "found", "take"}, Updates(t, v),
         pc[t] = "key" => array[idx[t]].value = v
  PROVE  TypeOK' /\ Effect(t) /\ Own(t) /\ MapSet(t, v)
<1>1. /\ TypeOK /\ OneCell /\ CallInv(t) /\ ClaimInv(t) /\ idx[t] \in Index
  BY DEF TableInvariant, TableInv, ThreadInv, TypeOK
<1>2. Key(t) \in Keys /\ Key(t) # Null
  BY <1>1, CallTypes
<1>3. /\ array[idx[t]].key \in {Null, Key(t)}
      /\ pc[t] # "key" => array[idx[t]].key = Key(t)
      /\ \A j \in Index : j # idx[t] => array[j].key # Key(t)
  <2>1. CASE pc[t] = "key"
    BY <1>1, <2>1 DEF ClaimInv, Claimant
  <2>2. CASE pc[t] \in {"found", "take"}
    BY <1>1, <1>2, <2>2 DEF ClaimInv, OneCell
  <2> QED BY <2>1, <2>2
<1>4. Contents' = [Contents EXCEPT ![Key(t)] = v]
  BY <1>1, <1>2, <1>3, ContentsSet DEF Updates
<1>5. MapSet(t, v)
  BY <1>4 DEF MapSet, Updates
<1>6. TypeOK'
  <2>1. seen' \in [Threads -> SUBSET (Values \cup {Null})]
    BY <1>1, WitnessType DEF Updates
  <2> QED BY <1>1, <2>1 DEF Updates, TypeOK, Steps
<1>7. pc'[t] = "return" /\ \A u \in Threads : u # t => pc'[u] = pc[u]
  BY <1>1 DEF Updates, TypeOK
<1>8. \A u \in Threads : seen[u] \subseteq seen'[u] /\ Seen(u)'
  <2>1. pc[t] # "idle" /\ request' = request
    BY DEF Updates
  <2> QED BY <1>5, <1>7, <2>1, WitnessSeen
<1>9. OthersKept(t)
  BY <1>7, <1>8 DEF OthersKept, Updates
<1>10. Kept
  BY <1>1, <1>3 DEF Updates, Kept
<1>11. Effect(t)
  <2>1. \A j \in Index :
          /\ ~Claimed(j) => array'[j].keyHash = 0
          /\ array'[j].key # array[j].key =>
               pc[t] = "key" /\ j = idx[t] /\ array'[j].key = Key(t)
          /\ array'[j].value # array[j].value =>
               array[j].key # Null /\ array[j].key = Key(t)
          /\ array'[j].longLeap = array[j].longLeap
          /\ array'[j].shortLeap = array[j].shortLeap
    BY <1>2, <1>3 DEF Updates, Claimed
  <2>2. /\ ~Claimant(t)' /\ (Claimant(t) => pc[t] = "key")
        /\ pc[t] # "setlink" /\ pc'[t] # "setlink"
        /\ array'[idx[t]].key = Key(t) /\ array' \in [Index -> Cell]
    BY <1>7 DEF Claimant, Updates
  <2> QED BY <1>9, <1>10, <2>1, <2>2 DEF Effect
<1>12. CallInv(t)' /\ ClaimInv(t)' /\ Search(t)'
  BY <1>1, <1>7 DEF CallInv, ClaimInv, Claimant, Search, InsertSteps, LookupSteps,
                   Updates
<1>13. Place(t)' /\ Progress(t)'
  BY <1>7 DEF Place, Progress, LookupSteps, Inserting, Probing
<1> QED BY <1>5, <1>6, <1>8, <1>11, <1>12, <1>13 DEF Own

LEMMA StoreKeyStep ==
  ASSUME TableInvariant, NEW t \in Threads, StoreKey(t)
  PROVE  TypeOK' /\ Effect(t) /\ Own(t) /\ MapSet(t, request[t].value)
<1>1. /\ TypeOK /\ CallInv(t) /\ ClaimInv(t) /\ idx[t] \in Index
      /\ array \in [Index -> Cell]
  BY DEF TableInvariant, ThreadInv, TypeOK
<1>2. /\ pc[t] = "key" /\ pc' = [pc EXCEPT ![t] = "return"]
      /\ array' = [array EXCEPT ![idx[t]].key = Key(t)]
      /\ answer' = [answer EXCEPT ![t] = Map!Answer(request[t], Null)]
      /\ Map!Witness(Key(t), array[idx[t]].value)
      /\ UNCHANGED <<request, idx, link, leap, probes>>
  BY DEF StoreKey, Goto, At
<1>3. /\ request[t] \in Map!Requests /\ Key(t) \in Keys
      /\ request[t].value \in Values /\ array[idx[t]].value = request[t].value
  BY <1>1, <1>2, CallTypes DEF CallInv, ClaimInv, InsertSteps
<1>4. /\ array' \in [Index -> Cell]
      /\ \A j \in Index : j # idx[t] => array'[j] = array[j]
      /\ array'[idx[t]].keyHash = array[idx[t]].keyHash
      /\ array'[idx[t]].key = Key(t)
      /\ array'[idx[t]].value = array[idx[t]].value
      /\ array'[idx[t]].longLeap = array[idx[t]].longLeap
      /\ array'[idx[t]].shortLeap = array[idx[t]].shortLeap
  BY <1>1, <1>2, <1>3, StoreCellKey
<1>5. /\ Map!Answer(request[t], Null) \in Values \cup {Map!Nil}
      /\ Map!Answer(request[t], Null) # Map!Pending
  BY <1>3, AnswerType
<1>6. Updates(t, request[t].value)
  BY <1>1, <1>2, <1>3, <1>4, <1>5 DEF Updates, TypeOK
<1> QED BY <1>2, <1>3, <1>6, UpdatesStep

LEMMA FoundStep ==
  ASSUME TableInvariant, NEW t \in Threads, Found(t)
  PROVE  /\ TypeOK' /\ Effect(t) /\ Own(t)
         /\ MapSet(t, Map!Updated(request[t], array[idx[t]].value))
<1>1. /\ TypeOK /\ CallInv(t) /\ ClaimInv(t) /\ idx[t] \in Index
      /\ array \in [Index -> Cell]
  BY DEF TableInvariant, ThreadInv, TypeOK
<1> DEFINE v == Map!Updated(request[t], array[idx[t]].value)
           a == Map!Answer(request[t], array[idx[t]].value)
<1>2. /\ pc[t] = "found" /\ pc' = [pc EXCEPT ![t] = "return"]
      /\ array' = [array EXCEPT ![idx[t]].value = v]
      /\ answer' = [answer EXCEPT ![t] = a]
      /\ Map!Witness(Key(t), v)
      /\ UNCHANGED <<request, idx, link, leap, probes>>
  BY DEF Found, Goto, At, Key
<1>3. /\ request[t] \in Map!Requests /\ request[t].op \in Map!Inserts
      /\ array[idx[t]].value \in Values \cup {Null} /\ array[idx[t]].key = Key(t)
  BY <1>1, <1>2, CallTypes DEF CallInv, ClaimInv, InsertSteps, Cell
<1>4. a \in Values \cup {Map!Nil} /\ a # Map!Pending /\ v \in Values \cup {Null}
  BY <1>3, AnswerType
<1> HIDE DEF v, a
<1>5. /\ array' \in [Index -> Cell]
      /\ \A j \in Index : j # idx[t] => array'[j] = array[j]
      /\ array'[idx[t]].keyHash = array[idx[t]].keyHash
      /\ array'[idx[t]].key = array[idx[t]].key
      /\ array'[idx[t]].value = v
      /\ array'[idx[t]].longLeap = array[idx[t]].longLeap
      /\ array'[idx[t]].shortLeap = array[idx[t]].shortLeap
  BY <1>1, <1>2, <1>4, StoreCellValue
<1>6. Updates(t, v)
  BY <1>1, <1>2, <1>3, <1>4, <1>5 DEF Updates, TypeOK
<1>7. TypeOK' /\ Effect(t) /\ Own(t) /\ MapSet(t, v)
  BY <1>2, <1>4, <1>6, UpdatesStep
<1> QED BY <1>7 DEF v

LEMMA TakeDissocStep ==
  ASSUME TableInvariant, NEW t \in Threads, TakeDissoc(t)
  PROVE  TypeOK' /\ Effect(t) /\ Own(t) /\ MapSet(t, Null)
<1>1. /\ TypeOK /\ ClaimInv(t) /\ idx[t] \in Index /\ array \in [Index -> Cell]
  BY DEF TableInvariant, ThreadInv, TypeOK
<1>2. /\ pc[t] = "take" /\ pc' = [pc EXCEPT ![t] = "return"]
      /\ array' = [array EXCEPT ![idx[t]].value = Null]
      /\ answer' = [answer EXCEPT ![t] = Map!Nil]
      /\ Map!Witness(Key(t), Null)
      /\ UNCHANGED <<request, idx, link, leap, probes>>
  BY DEF TakeDissoc, Goto
<1>3. array[idx[t]].key = Key(t)
  BY <1>1, <1>2 DEF ClaimInv
<1>4. Map!Nil # Map!Pending /\ Null \in Values \cup {Null}
  BY DEF Map!Nil, Map!Pending
<1>5. /\ array' \in [Index -> Cell]
      /\ \A j \in Index : j # idx[t] => array'[j] = array[j]
      /\ array'[idx[t]].keyHash = array[idx[t]].keyHash
      /\ array'[idx[t]].key = array[idx[t]].key
      /\ array'[idx[t]].value = Null
      /\ array'[idx[t]].longLeap = array[idx[t]].longLeap
      /\ array'[idx[t]].shortLeap = array[idx[t]].shortLeap
  BY <1>1, <1>2, <1>4, StoreCellValue
<1>6. Updates(t, Null)
  BY <1>1, <1>2, <1>3, <1>4, <1>5 DEF Updates, TypeOK
<1> QED BY <1>2, <1>4, <1>6, UpdatesStep

-----------------------------------------------------------------------------
\* Lookups.
LEMMA LookupReturns ==
  ASSUME TableInvariant, NEW t \in Threads, Within(t), pc[t] \in LookupSteps,
         pc'[t] = "return", answer'[t] # Map!Pending
  PROVE  Own(t) /\ Contents' = Contents
<1>1. CallInv(t)' /\ Seen(t)' /\ Contents' = Contents
  BY WithinCall DEF InsertSteps, LookupSteps
<1>2. ClaimInv(t)' /\ Place(t)' /\ Progress(t)' /\ Search(t)'
  BY DEF ClaimInv, Claimant, Place, Progress, Search, LookupSteps, Inserting, Probing
<1> QED BY <1>1, <1>2 DEF Own

\* A lookup that stays at its cell.
LEMMA LookupStays ==
  ASSUME TableInvariant, NEW t \in Threads, Within(t),
         pc[t] \in LookupSteps, pc'[t] \in LookupSteps,
         answer'[t] = answer[t], idx'[t] = idx[t], leap'[t] = leap[t],
         pc'[t] = "match" => At(t).keyHash = KeyHash(t),
         pc'[t] = "take" => At(t).key = Key(t),
         pc'[t] = "next" => Null \in seen[t] \/ At(t).key # Key(t)
  PROVE  Own(t) /\ Contents' = Contents
<1>1. TypeOK /\ CallInv(t) /\ Place(t) /\ Search(t) /\ pc[t] # "idle"
  BY DEF TableInvariant, ThreadInv, LookupSteps
<1>2. /\ CallInv(t)' /\ Seen(t)' /\ Contents' = Contents
      /\ Key(t)' = Key(t) /\ KeyHash(t)' = KeyHash(t) /\ Home(t)' = Home(t)
  BY <1>1, WithinCall DEF InsertSteps, LookupSteps
<1>3. array' = array /\ seen' = seen
  BY DEF Within, ReadOnly
<1>4. pc'[t] \notin Probing /\ pc[t] \notin Probing
  BY DEF LookupSteps, Probing
<1>5. Anchor(t) = idx[t] /\ Anchor(t)' = idx[t]
  BY <1>4 DEF Anchor
<1>6. ClaimInv(t)'
  BY <1>2, <1>3 DEF ClaimInv, Claimant, LookupSteps, At
<1>7. Place(t)'
  <2>1. IF leap[t] = "longLeap" THEN idx[t] = Home(t) ELSE In(idx[t], Home(t))
    BY <1>1, <1>5 DEF Place
  <2>2. IF leap'[t] = "longLeap" THEN Anchor(t)' = Home(t)' ELSE In(Anchor(t), Home(t))'
    BY <1>2, <1>3, <1>5, <2>1 DEF In, Claimed
  <2>3. pc'[t] # "home" /\ pc'[t] \notin Inserting
    BY DEF LookupSteps, Inserting, Probing
  <2> QED BY <1>4, <2>2, <2>3 DEF Place
<1>8. Progress(t)'
  BY DEF Progress, LookupSteps, Inserting, Probing
<1>9. Search(t)'
  <2> SUFFICES ASSUME Null \notin seen[t]
               PROVE  \E i \in Index : Ahead(t, i)'
    BY <1>3 DEF Search
  <2>1. PICK i \in Index : Ahead(t, i)
    BY <1>1 DEF Search
  <2>2. pc'[t] = "next" => idx[t] # i
    BY <2>1 DEF Ahead, At
  <2> QED BY <1>2, <1>3, <2>1, <2>2 DEF Ahead
<1> QED BY <1>2, <1>6, <1>7, <1>8, <1>9 DEF Own

LEMMA LookStep ==
  ASSUME TableInvariant, NEW t \in Threads, Look(t)
  PROVE  Within(t) /\ Own(t) /\ Contents' = Contents
<1>1. TypeOK /\ Published /\ CallInv(t)
  BY DEF TableInvariant, TableInv, ThreadInv
<1>2. pc[t] = "look" /\ UNCHANGED <<array, request, idx, link, leap, probes, seen>>
  BY DEF Look
<1>3. Key(t) \in Keys /\ Key(t) # Null /\ KeyHash(t) # 0 /\ KeyHash(t) = Hash[Key(t)]
  BY <1>1, <1>2, CallTypes DEF KeyHash
<1>4. Map!Nil # Map!Pending /\ idx[t] \in Index
  BY <1>1 DEF Map!Nil, Map!Pending, TypeOK
<1>5. TypeOK' /\ OthersKept(t)
  BY <1>1, <1>2, <1>3 DEF Look, Goto, TypeOK, Steps, OthersKept
<1>6. /\ pc'[t] \in {"match", "next", "return"}
      /\ pc'[t] = "return" => answer'[t] = Map!Nil
      /\ pc'[t] # "return" => answer'[t] = answer[t]
      /\ pc'[t] = "match" => At(t).keyHash = KeyHash(t)
      /\ pc'[t] = "next" => At(t).keyHash # KeyHash(t)
  BY <1>1, <1>2, <1>3 DEF Look, Goto, TypeOK
<1>7. Within(t)
  BY <1>2, <1>5, <1>6 DEF Within, ReadOnly, Claimant
<1>8. CASE pc'[t] = "return"
  BY <1>2, <1>4, <1>6, <1>7, <1>8, LookupReturns DEF LookupSteps
<1>9. CASE pc'[t] # "return"
  <2>1. At(t).key = Key(t) => At(t).keyHash = KeyHash(t)
    BY <1>1, <1>3, <1>4 DEF Published, At
  <2>2. pc[t] \in LookupSteps /\ pc'[t] \in LookupSteps /\ pc'[t] # "take"
    BY <1>2, <1>6, <1>9 DEF LookupSteps
  <2> QED BY <1>2, <1>6, <1>7, <1>9, <2>1, <2>2, LookupStays
<1> QED BY <1>8, <1>9

LEMMA MatchStep ==
  ASSUME TableInvariant, NEW t \in Threads, Match(t)
  PROVE  Within(t) /\ Own(t) /\ Contents' = Contents
<1>1. TypeOK
  BY DEF TableInvariant
<1>2. /\ pc[t] = "match"
      /\ pc' = [pc EXCEPT ![t] = IF At(t).key = Key(t) THEN "take" ELSE "next"]
      /\ UNCHANGED <<array, request, answer, idx, link, leap, probes, seen>>
  BY DEF Match, Goto
<1>3. TypeOK' /\ OthersKept(t)
  BY <1>1, <1>2 DEF TypeOK, Steps, OthersKept
<1>4. pc'[t] = IF At(t).key = Key(t) THEN "take" ELSE "next"
  BY <1>1, <1>2 DEF TypeOK
<1>5. Within(t)
  BY <1>2, <1>3, <1>4 DEF Within, ReadOnly, Claimant
<1>6. /\ pc[t] \in LookupSteps /\ pc'[t] \in LookupSteps /\ pc'[t] # "match"
      /\ answer'[t] = answer[t] /\ idx'[t] = idx[t] /\ leap'[t] = leap[t]
  BY <1>2, <1>4 DEF LookupSteps
<1> QED BY <1>4, <1>5, <1>6, LookupStays

LEMMA TakeGetStep ==
  ASSUME TableInvariant, NEW t \in Threads, TakeGet(t)
  PROVE  Within(t) /\ Own(t) /\ Contents' = Contents
<1>1. TypeOK /\ OneCell /\ CallInv(t) /\ ClaimInv(t) /\ Seen(t)
  BY DEF TableInvariant, TableInv, ThreadInv
<1>2. pc[t] = "take" /\ UNCHANGED <<array, request, idx, link, leap, probes, seen>>
  BY DEF TakeGet
<1>3. Key(t) \in Keys /\ idx[t] \in Index /\ At(t).key = Key(t)
      /\ At(t).value \in Values \cup {Null}
  BY <1>1, <1>2, CallTypes DEF ClaimInv, At, TypeOK, Cell
<1>4. At(t).value = Contents[Key(t)] /\ At(t).value \in seen[t]
  BY <1>1, <1>2, <1>3, ContentsAt DEF At, Seen
<1>5. Map!Pending \notin Values
  BY AnswersAssumption
<1>6. TypeOK' /\ OthersKept(t)
  BY <1>1, <1>2, <1>3 DEF TakeGet, Goto, TypeOK, Steps, OthersKept
<1>7. CASE At(t).value = Null
  <2>1. pc'[t] = "next" /\ answer' = answer
    BY <1>1, <1>7 DEF TakeGet, Goto, TypeOK
  <2>2. Within(t)
    BY <1>2, <1>6, <2>1 DEF Within, ReadOnly, Claimant
  <2>3. /\ pc[t] \in LookupSteps /\ pc'[t] \in LookupSteps
        /\ answer'[t] = answer[t] /\ idx'[t] = idx[t] /\ leap'[t] = leap[t]
        /\ Null \in seen[t]
    BY <1>2, <1>4, <1>7, <2>1 DEF LookupSteps
  <2> QED BY <2>1, <2>2, <2>3, LookupStays
<1>8. CASE At(t).value # Null
  <2>1. pc'[t] = "return" /\ answer'[t] = At(t).value
    BY <1>1, <1>8 DEF TakeGet, Goto, TypeOK
  <2>2. Within(t)
    BY <1>2, <1>6, <2>1 DEF Within, ReadOnly, Claimant
  <2>3. answer'[t] # Map!Pending /\ pc[t] \in LookupSteps
    BY <1>2, <1>3, <1>5, <1>8, <2>1 DEF LookupSteps
  <2> QED BY <2>1, <2>2, <2>3, LookupReturns
<1> QED BY <1>7, <1>8

\* The chain leads on as long as the key is ahead.
LEMMA AheadLinked ==
  ASSUME TableInvariant, NEW t \in Threads, pc[t] = "next",
         NEW i \in Index, Ahead(t, i)
  PROVE  At(t)[leap[t]] > 0
<1>1. TypeOK /\ Published /\ Chained /\ CallInv(t) /\ Place(t)
  BY DEF TableInvariant, TableInv, ThreadInv
<1>2. /\ Key(t) \in Keys /\ Key(t) # Null /\ KeyHash(t) # 0 /\ Home(t) \in Index
      /\ idx[t] \in Index /\ leap[t] \in {"shortLeap", "longLeap"}
  BY <1>1, CallTypes DEF TypeOK
<1>3. array[i].key = Key(t) /\ array[i].keyHash = KeyHash(t)
  BY <1>1, <1>2 DEF Ahead, Published, KeyHash
<1>4. ~Linking(i)
  <2> SUFFICES ASSUME NEW u \in Threads, pc[u] = "setlink", idx[u] = i
               PROVE  FALSE
    BY DEF Linking
  <2>1. ClaimInv(u)
    BY DEF TableInvariant, ThreadInv
  <2> QED BY <1>2, <1>3, <2>1 DEF ClaimInv, Claimant
<1>5. ChainedTo(Home(t), i)
  BY <1>1, <1>2, <1>3, <1>4 DEF Chained, Claimed, Home
<1>6. Dist(Home(t), idx[t]) < Dist(Home(t), i)
  <2>1. Dist(Home(t), idx[t]) \in Nat /\ Dist(Home(t), i) \in Nat
    BY <1>2, DistType
  <2>2. Dist(Home(t), idx[t]) # Dist(Home(t), i)
    BY <1>2, DistInjective DEF Ahead
  <2> QED BY <2>1, <2>2 DEF Ahead
<1>7. IF leap[t] = "longLeap" THEN idx[t] = Home(t) ELSE In(idx[t], Home(t))
  BY <1>1 DEF Place, Anchor, LookupSteps, Probing
<1>8. LeapOf(Home(t), idx[t]) > 0
  BY <1>2, <1>5, <1>6, <1>7 DEF ChainedTo, OnChain
<1>9. LeapOf(Home(t), idx[t]) = At(t)[leap[t]]
  BY <1>2, <1>7 DEF LeapOf, At, Ahead
<1> QED BY <1>8, <1>9

LEMMA NextCellStep ==
  ASSUME TableInvariant, NEW t \in Threads, NextCell(t)
  PROVE  Within(t) /\ Own(t) /\ Contents' = Contents
<1>1. TypeOK /\ Links /\ Published /\ CallInv(t) /\ Place(t) /\ Search(t)
  BY DEF TableInvariant, TableInv, ThreadInv
<1>2. pc[t] = "next" /\ UNCHANGED <<array, request, link, probes, seen>>
  BY DEF NextCell
<1> DEFINE d == At(t)[leap[t]]
<1>3. CASE d > 0
  <2> DEFINE n == (idx[t] + d) % Size
  <2>1. /\ d \in Index /\ n \in Index /\ In(n, Home(t)) /\ Dist(idx[t], n) = d
        /\ Between(Home(t), idx[t], d)
    BY <1>1, <1>2, <1>3, FollowedLeap DEF LinkOK, LookupSteps
  <2>2. /\ idx' = [idx EXCEPT ![t] = n]
        /\ leap' = [leap EXCEPT ![t] = "shortLeap"]
        /\ pc' = [pc EXCEPT ![t] = "look"]
        /\ answer' = answer
    BY <1>1, <1>3 DEF NextCell, Goto, TypeOK
  <2> HIDE DEF n, d
  <2>3. TypeOK' /\ OthersKept(t)
    BY <1>1, <1>2, <2>1, <2>2 DEF TypeOK, Steps, OthersKept
  <2>4. pc'[t] = "look" /\ idx'[t] = n /\ leap'[t] = "shortLeap"
        /\ answer'[t] = answer[t]
    BY <1>1, <2>2 DEF TypeOK
  <2>5. Within(t)
    BY <1>2, <2>3, <2>4 DEF Within, ReadOnly, Claimant
  <2>6. /\ CallInv(t)' /\ Seen(t)' /\ Contents' = Contents
        /\ Key(t)' = Key(t) /\ Home(t)' = Home(t)
    BY <1>2, <2>4, <2>5, WithinCall DEF InsertSteps, LookupSteps
  <2>7. Anchor(t)' = n
    BY <2>4 DEF Anchor, Probing
  <2>8. ClaimInv(t)' /\ Progress(t)'
    BY <2>4 DEF ClaimInv, Claimant, Progress, Inserting, Probing
  <2>9. Place(t)'
    <3>1. In(Anchor(t), Home(t))'
      BY <1>2, <2>1, <2>6, <2>7 DEF In, Claimed
    <3> QED BY <2>4, <3>1 DEF Place, Inserting, Probing
  <2>10. Search(t)'
    <3> SUFFICES ASSUME Null \notin seen[t]
                 PROVE  \E i \in Index : Ahead(t, i)'
      BY <1>2 DEF Search
    <3>1. PICK i \in Index : Ahead(t, i)
      BY <1>1, <1>2 DEF Search, LookupSteps
    <3>2. /\ Key(t) \in Keys /\ Key(t) # Null /\ KeyHash(t) # 0 /\ Home(t) \in Index
          /\ idx[t] \in Index
      BY <1>1, <1>2, CallTypes DEF TypeOK
    <3>3. In(i, Home(t))
      BY <1>1, <3>1, <3>2 DEF Ahead, Published, KeyHash, In, Claimed, Home
    <3>4. /\ Dist(Home(t), idx[t]) \in Nat /\ Dist(Home(t), i) \in Nat
          /\ Dist(Home(t), n) \in Nat /\ Dist(idx[t], i) \in Nat
          /\ Dist(idx[t], n) \in Nat
      BY <2>1, <3>2, DistType
    <3>5. Dist(Home(t), idx[t]) <= Dist(Home(t), i) /\ idx[t] # i
      BY <1>2, <3>1 DEF Ahead
    <3>6. Dist(Home(t), i) = Dist(Home(t), idx[t]) + Dist(idx[t], i)
      BY <3>2, <3>5, DistSum
    <3>7. Dist(idx[t], i) # 0
      BY <3>2, <3>5, DistType
    <3>8. d <= Dist(idx[t], i)
      BY <2>1, <3>3, <3>4, <3>7 DEF Between
    <3>9. Dist(Home(t), i) \in Index
      BY <3>2, DistType
    <3>10. Dist(Home(t), n) = Dist(Home(t), idx[t]) + d
      <4>1. IF Dist(Home(t), idx[t]) <= Dist(Home(t), n)
            THEN Dist(Home(t), n) = Dist(Home(t), idx[t]) + Dist(idx[t], n)
            ELSE Dist(Home(t), n) + Size = Dist(Home(t), idx[t]) + Dist(idx[t], n)
        BY <2>1, <3>2, DistSum
      <4> QED BY <2>1, <3>4, <3>6, <3>8, <3>9, <4>1, SizeAssumption DEF Index
    <3>11. Dist(Home(t), n) <= Dist(Home(t), i) /\ Dist(Home(t), n) # 0
      BY <1>3, <2>1, <3>4, <3>6, <3>8, <3>10
    <3>12. n # Home(t)
      BY <2>1, <3>2, <3>11, DistType
    <3> QED BY <1>2, <2>4, <2>6, <3>1, <3>11, <3>12 DEF Ahead
  <2> QED BY <2>5, <2>6, <2>8, <2>9, <2>10 DEF Own
<1>4. CASE ~(d > 0)
  <2>1. /\ answer' = [answer EXCEPT ![t] = Map!Nil]
        /\ pc' = [pc EXCEPT ![t] = "return"] /\ UNCHANGED <<idx, leap>>
    BY <1>4 DEF NextCell, Goto
  <2>2. TypeOK' /\ OthersKept(t)
    BY <1>1, <1>2, <2>1 DEF TypeOK, Steps, OthersKept
  <2>3. pc'[t] = "return" /\ answer'[t] # Map!Pending
    BY <1>1, <2>1 DEF TypeOK, Map!Nil, Map!Pending
  <2>4. Within(t)
    BY <1>2, <2>2, <2>3 DEF Within, ReadOnly, Claimant
  <2> QED BY <1>2, <2>3, <2>4, LookupReturns DEF LookupSteps
<1> QED BY <1>3, <1>4

-----------------------------------------------------------------------------
\* The invariant.
LEMMA SeenKept ==
  ASSUME TableInvariant, NEW t \in Threads, NEW u \in Threads, u # t,
         OthersKept(t), Contents' = Contents
  PROVE  Seen(u)'
<1>1. TypeOK /\ Seen(u)
  BY DEF TableInvariant, ThreadInv
<1>2. pc'[u] = pc[u] /\ Key(u)' = Key(u) /\ seen[u] \subseteq seen'[u]
  BY <1>1, OtherLocals
<1> QED BY <1>1, <1>2 DEF Seen

\* What is left to show of a step of t when the table and the other threads
\* are looked after.
LEMMA Combine ==
  ASSUME TableInvariant, NEW t \in Threads, TypeOK', Effect(t), Own(t),
         \A u \in Threads : u # t => Seen(u)'
  PROVE  TableInvariant'
<1>1. TableInv'
  BY EffectTable
<1>2. ASSUME NEW u \in Threads
      PROVE  ThreadInv(u)'
  <2>1. CASE u = t
    BY <2>1 DEF Own, ThreadInv
  <2>2. CASE u # t
    BY <2>2, EffectClaims, EffectPlace, EffectProgress, EffectSearch DEF ThreadInv
  <2> QED BY <2>1, <2>2
<1> QED BY <1>1, <1>2 DEF TableInvariant

LEMMA SameMap ==
  ASSUME TableInvariant, NEW t \in Threads, TypeOK', Effect(t), Own(t),
         Contents' = Contents
  PROVE  TableInvariant'
<1>1. \A u \in Threads : u # t => Seen(u)'
  BY SeenKept DEF Effect
<1> QED BY <1>1, Combine

LEMMA ChangedMap ==
  ASSUME TableInvariant, NEW t \in Threads, TypeOK', Effect(t), Own(t),
         NEW v, MapSet(t, v), pc[t] # "idle"
  PROVE  TableInvariant'
<1>1. ASSUME NEW u \in Threads, u # t
      PROVE  Seen(u)'
  <2>1. pc'[u] = pc[u] /\ request'[u] = request[u]
    BY <1>1 DEF Effect, OthersKept
  <2> QED BY <2>1, WitnessSeen
<1> QED BY <1>1, Combine

LEMMA ReadOnlyInv ==
  ASSUME TableInvariant, NEW t \in Threads, ReadOnly(t), Own(t)
  PROVE  TableInvariant' /\ Effect(t)
<1>1. TypeOK
  BY DEF TableInvariant
<1>2. TypeOK'
  BY DEF ReadOnly
<1>3. Effect(t) /\ Contents' = Contents
  BY <1>1, ReadOnlyEffect
<1> QED BY <1>2, <1>3, SameMap

LEMMA HomeInv ==
  ASSUME TableInvariant, NEW t \in Threads, InsertHome(t)
  PROVE  TableInvariant' /\ Effect(t) /\ Contents' = Contents
<1>1. CASE At(t).keyHash = 0
  <2>1. Claiming(t, idx[t]) /\ Own(t)
    BY <1>1, HomeClaim
  <2>2. idx[t] \in Index
    BY DEF TableInvariant, TypeOK
  <2>3. Effect(t) /\ Contents' = Contents
    BY <2>1, <2>2, ClaimingEffect
  <2>4. TypeOK'
    BY <2>1 DEF Claiming
  <2> QED BY <2>1, <2>3, <2>4, SameMap
<1>2. CASE At(t).keyHash # 0
  BY <1>2, HomeRead, ReadOnlyInv DEF Within
<1> QED BY <1>1, <1>2

LEMMA ProbeInv ==
  ASSUME TableInvariant, NEW t \in Threads, LinearProbe(t)
  PROVE  TableInvariant' /\ Effect(t) /\ Contents' = Contents
<1>1. PICK i : i = (idx[t] + 1) % Size
  OBVIOUS
<1>2. CASE ~Claimed(i)
  <2>1. Claiming(t, i) /\ Own(t)
    BY <1>1, <1>2, ProbeClaim
  <2>2. i \in Index
    BY <1>1, SizeAssumption DEF Index, TableInvariant, TypeOK
  <2>3. Effect(t) /\ Contents' = Contents
    BY <2>1, <2>2, ClaimingEffect
  <2>4. TypeOK'
    BY <2>1 DEF Claiming
  <2> QED BY <2>1, <2>3, <2>4, SameMap
<1>3. CASE Claimed(i)
  <2>1. Claimed((idx[t] + 1) % Size)
    BY <1>1, <1>3
  <2> QED BY <2>1, ProbeRead, ReadOnlyInv DEF Within
<1> QED BY <1>2, <1>3

LEMMA StepInv ==
  ASSUME TableInvariant, NEW t \in Threads,
         Step(t) \/ \E r \in Map!Requests : Call(t, r)
  PROVE  TableInvariant' /\ Effect(t)
<1>1. CASE \E r \in Map!Requests : Call(t, r)
  BY <1>1, CallStep, ReadOnlyInv
<1>2. CASE Return(t)
  BY <1>2, ReturnStep, ReadOnlyInv
<1>3. CASE InsertHome(t)
  BY <1>3, HomeInv
<1>4. CASE LinearProbe(t)
  BY <1>4, ProbeInv
<1>5. CASE SameKey(t) \/ Hop(t) \/ FollowLink(t) \/ Overcrowded(t)
  BY <1>5, SameKeyStep, HopStep, FollowLinkStep, OvercrowdedStep, ReadOnlyInv
     DEF Within
<1>6. CASE Look(t) \/ Match(t) \/ TakeGet(t) \/ NextCell(t)
  BY <1>6, LookStep, MatchStep, TakeGetStep, NextCellStep, ReadOnlyInv DEF Within
<1>7. CASE SetLink(t)
  BY <1>7, SetLinkStep, SameMap
<1>8. CASE StoreValue(t)
  BY <1>8, StoreValueStep, SameMap
<1>9. CASE StoreKey(t)
  <2>1. pc[t] # "idle"
    BY <1>9 DEF StoreKey
  <2>2. PICK v : v = request[t].value
    OBVIOUS
  <2>3. TypeOK' /\ Effect(t) /\ Own(t) /\ MapSet(t, v)
    BY <1>9, <2>2, StoreKeyStep
  <2> QED BY <2>1, <2>3, ChangedMap
<1>10. CASE Found(t)
  <2>1. pc[t] # "idle"
    BY <1>10 DEF Found
  <2>2. PICK v : v = Map!Updated(request[t], array[idx[t]].value)
    OBVIOUS
  <2>3. TypeOK' /\ Effect(t) /\ Own(t) /\ MapSet(t, v)
    BY <1>10, <2>2, FoundStep
  <2> QED BY <2>1, <2>3, ChangedMap
<1>11. CASE TakeDissoc(t)
  <2>1. pc[t] # "idle"
    BY <1>11 DEF TakeDissoc
  <2> QED BY <1>11, <2>1, TakeDissocStep, ChangedMap
<1> QED BY <1>1, <1>2, <1>3, <1>4, <1>5, <1>6, <1>7, <1>8, <1>9, <1>10, <1>11
        DEF Step

LEMMA InitInv == Init => TableInvariant
<1> SUFFICES ASSUME Init
             PROVE  TableInvariant
  OBVIOUS
<1>1. /\ array \in [Index -> Cell]
      /\ \A i \in Index :
           /\ array[i].key = Null /\ array[i].keyHash = 0
           /\ array[i].longLeap = 0 /\ array[i].shortLeap = 0
  BY SizeAssumption DEF Init, Empty, Cell
<1>2. \A t \in Threads :
        /\ pc[t] = "idle" /\ request[t] = Map!NoRequest /\ leap[t] = "longLeap"
        /\ answer[t] = Map!Pending
  BY DEF Init
<1>3. TypeOK
  <2>1. 0 \in Index /\ 0 \in 0 .. resizingThreshold
    BY SizeAssumption, ThresholdAssumption DEF Index
  <2>2. seen \in [Threads -> SUBSET (Values \cup {Null})]
    BY DEF Init
  <2> QED BY <1>1, <2>1, <2>2 DEF Init, TypeOK, Steps
<1>4. TableInv
  BY <1>1 DEF TableInv, Published, Packed, Links, Chained, OneCell,
              AwaitedKeysCome, Claimed
<1>5. ASSUME NEW t \in Threads
      PROVE  ThreadInv(t)
  <2>1. CallInv(t) /\ ClaimInv(t) /\ Seen(t) /\ Search(t)
    BY <1>2 DEF CallInv, ClaimInv, Seen, Search, Claimant, InsertSteps, LookupSteps
  <2>2. Place(t) /\ Progress(t)
    BY <1>2 DEF Place, Progress, LookupSteps, Inserting, Probing
  <2> QED BY <2>1, <2>2 DEF ThreadInv
<1> QED BY <1>3, <1>4, <1>5 DEF TableInvariant

LEMMA StutterInv ==
  ASSUME TableInvariant, UNCHANGED vars
  PROVE  TableInvariant'
<1>1. TypeOK' /\ TableInv'
  BY DEF TableInvariant, vars, TypeOK, TableInv, Published, Packed, Links,
         LinkOK, Between, Chained, ChainedTo, Linking, OnChain, LeapOf, OneCell,
         AwaitedKeysCome, Claimed, In
<1>2. ASSUME NEW t \in Threads
      PROVE  ThreadInv(t)'
  <2>1. ThreadInv(t)
    BY DEF TableInvariant
  <2>2. Contents' = Contents
    BY DEF Contents, vars
  <2>3. CallInv(t)' /\ ClaimInv(t)' /\ Seen(t)' /\ Search(t)'
    BY <2>1, <2>2 DEF ThreadInv, vars, CallInv, ClaimInv, Claimant, Seen, Search,
                      Ahead, Key, KeyHash, Home
  <2>4. Place(t)' /\ Progress(t)'
    BY <2>1 DEF ThreadInv, vars, Place, Progress, Wrapped, Regular, NotMine,
                Absent, Full, Claimant, Key, KeyHash, Home, Anchor, Between,
                ChainedTo, OnChain, LeapOf, Claimed, In
  <2> QED BY <2>3, <2>4 DEF ThreadInv
<1> QED BY <1>1, <1>2 DEF TableInvariant

\* In every state of the table that the code can reach: published keys are
\* stored once and under their hash, the chain of every bucket leads from its
\* home cell over every cell of the bucket that is not just being linked, and
\* every thread in insertOrFind, get or dissoc has left behind no cell in which
\* its key is or may still come.
THEOREM TableInvariantTheorem == Spec => []TableInvariant
<1>1. TableInvariant /\ [Next]_vars => TableInvariant'
  BY StepInv, StutterInv DEF Next
<1> QED BY <1>1, InitInv, PTL DEF Spec

\* For any number of threads and any size of the table: whoever spins in
\* isSameKey (or on a linked cell whose hash is not visible) waits for a thread
\* that has claimed the cell and goes on to publish its key.
THEOREM AwaitedTheorem == Spec => []AwaitedKeysCome
<1>1. TableInvariant => AwaitedKeysCome
  BY DEF TableInvariant, TableInv
<1> QED BY <1>1, TableInvariantTheorem, PTL

\* No key is ever stored in two cells, however many threads insert it at once
\* and help each other to link.
THEOREM OneCellTheorem == Spec => []OneCell
<1>1. TableInvariant => OneCell
  BY DEF TableInvariant, TableInv
<1> QED BY <1>1, TableInvariantTheorem, PTL

\* No step takes back the hash that a cell was claimed for, a key that was
\* published or a link that was set.  It is why a load of keyHash and the
\* compare-and-swap that follows when it was 0 may be one step of the model, and
\* why a reader need not look at a cell twice.
THEOREM KeptTheorem == Spec => [][Kept]_vars
<1>1. TableInvariant /\ [Next]_vars => [Kept]_vars
  BY StepInv DEF Next, Effect
<1> QED BY <1>1, TableInvariantTheorem, PTL DEF Spec

-----------------------------------------------------------------------------
\* The table implements the map.

\* A call that is not about to return has no answer yet.
LEMMA InCall ==
  ASSUME TableInvariant, NEW t \in Threads, pc[t] \notin {"idle", "return"}
  PROVE  /\ request[t] # Map!NoRequest /\ answer[t] = Map!Pending
         /\ request[t] \in Map!Requests /\ Key(t) \in Keys
         /\ Key(t) = request[t].key
         /\ pc[t] \in InsertSteps => request[t].op \in Map!Inserts
         /\ pc[t] \in LookupSteps => request[t].op \in Map!Lookups
<1>1. TypeOK /\ CallInv(t)
  BY DEF TableInvariant, ThreadInv
<1>2. request[t] # Map!NoRequest /\ answer[t] = Map!Pending
  BY <1>1 DEF CallInv
<1>3. request[t] \in Map!Requests
  BY <1>1, <1>2 DEF TypeOK
<1>4. Key(t) \in Keys
  BY <1>1, CallTypes
<1> QED BY <1>1, <1>2, <1>3, <1>4 DEF CallInv, Key

\* A published cell is no longer being linked: its chain is complete.
LEMMA PublishedChain ==
  ASSUME TableInvariant, NEW t \in Threads, pc[t] \notin {"idle", "return"},
         NEW i \in Index, array[i].key = Key(t)
  PROVE  /\ array[i].keyHash = KeyHash(t) /\ In(i, Home(t))
         /\ ChainedTo(Home(t), i)
         /\ \A j \in Index : Dist(Home(t), j) <= Dist(Home(t), i) => Claimed(j)
<1>1. TypeOK /\ Published /\ Packed /\ Chained
  BY DEF TableInvariant, TableInv
<1>2. Key(t) \in Keys /\ Key(t) # Null
  BY InCall, NullAssumption
<1>3. array[i].keyHash = KeyHash(t)
  BY <1>1, <1>2 DEF Published, KeyHash
<1>4. KeyHash(t) # 0
  BY <1>2, HashAssumption DEF KeyHash
<1>5. Claimed(i) /\ In(i, Home(t)) /\ Bucket(array[i].keyHash) = Home(t)
  BY <1>3, <1>4 DEF Claimed, In, Home
<1>6. ~Linking(i)
  <2> SUFFICES ASSUME NEW u \in Threads, pc[u] = "setlink", idx[u] = i
               PROVE  FALSE
    BY DEF Linking
  <2>1. ClaimInv(u) /\ Claimant(u)
    BY DEF TableInvariant, ThreadInv, Claimant
  <2> QED BY <1>2, <2>1 DEF ClaimInv
<1>7. ChainedTo(Home(t), i)
  BY <1>1, <1>5, <1>6 DEF Chained
<1>8. \A j \in Index : Dist(Home(t), j) <= Dist(Home(t), i) => Claimed(j)
  BY <1>1, <1>5 DEF Packed
<1> QED BY <1>3, <1>5, <1>7, <1>8

\* An insertion that gives up has looked at every cell that its key could be in.
LEMMA OvercrowdedAbsent ==
  ASSUME TableInvariant, NEW t \in Threads, pc[t] = "probe", probes[t] = 0
  PROVE  \A i \in Index : array[i].key # Key(t)
<1>1. /\ TypeOK /\ Links /\ CallInv(t) /\ Place(t)
      /\ Wrapped(t) \/ Regular(t)
  BY DEF TableInvariant, TableInv, ThreadInv, Progress, Inserting, Probing
<1>2. CASE Wrapped(t)
  BY <1>2 DEF Wrapped, Absent
<1>3. CASE Regular(t)
  <2> SUFFICES ASSUME NEW i \in Index, array[i].key = Key(t)
               PROVE  FALSE
    OBVIOUS
  <2>1. Home(t) \in Index
    BY <1>1, CallTypes
  <2>2. PICK b \in Index : b = Home(t)
    BY <2>1
  <2>3. PICK e \in Index : e = link[t]
    BY <1>1 DEF TypeOK
  <2>4. Anchor(t) = e /\ idx[t] \in Index
    BY <1>1, <2>3 DEF Anchor, Probing, TypeOK
  <2>5. array[i].keyHash = KeyHash(t) /\ ChainedTo(b, i)
    BY <2>2, PublishedChain
  <2>6. ~NotMine(t, i)
    BY <2>5 DEF NotMine
  <2>7. \A j \in Index : Dist(b, j) <= Dist(b, e) => NotMine(t, j)
    BY <1>1, <1>3, <2>2, <2>4, PassedAnchor DEF Probing
  <2>8. Dist(b, e) < Dist(b, i)
    <3>1. Dist(b, e) \in Nat /\ Dist(b, i) \in Nat
      BY DistType
    <3> QED BY <2>6, <2>7, <3>1
  <2>9. OnChain(b, e)
    BY <1>1, <2>2, <2>4 DEF Place, Inserting, Probing, OnChain
  <2>10. PICK d : d = LeapOf(b, e)
    OBVIOUS
  <2>11. d > 0
    BY <2>5, <2>8, <2>9, <2>10 DEF ChainedTo
  <2>12. LinkOK(b, e, d)
    <3>1. CASE e = b
      BY <1>1, <2>10, <2>11, <3>1 DEF LeapOf, Links
    <3>2. CASE e # b
      BY <1>1, <2>9, <2>10, <2>11, <3>2 DEF LeapOf, Links, OnChain, In
    <3> QED BY <3>1, <3>2
  <2>13. d \in 0 .. Size
    BY <1>1, <2>10 DEF LeapOf, TypeOK, Cell
  <2>14. d \in Index /\ d <= resizingThreshold
    BY <2>12, <2>13, SizeAssumption, ThresholdAssumption DEF LinkOK, Index
  <2>15. PICK f \in Index : f = Forward(e, d) /\ Dist(e, f) = d
    BY <2>14, ForwardType
  <2>16. In(f, b)
    BY <2>12, <2>15 DEF LinkOK
  <2>17. /\ Dist(e, idx[t]) = resizingThreshold
         /\ Between(b, e, resizingThreshold)
         /\ idx[t] # e => ~In(idx[t], b)
    BY <1>1, <2>2, <2>3, ThresholdAssumption DEF Place, Probing
  <2>18. CASE d < resizingThreshold
    BY <2>11, <2>15, <2>16, <2>17, <2>18 DEF Between
  <2>19. CASE d = resizingThreshold
    <3>1. f = idx[t]
      BY <2>4, <2>15, <2>17, <2>19, DistInjective
    <3>2. idx[t] # e
      BY <2>4, <2>17, DistType, ThresholdAssumption
    <3> QED BY <2>16, <2>17, <3>1, <3>2
  <2>20. d < resizingThreshold \/ d = resizingThreshold
    BY <2>13, <2>14, ThresholdAssumption
  <2> QED BY <2>18, <2>19, <2>20
<1> QED BY <1>1, <1>2, <1>3

\* dissoc may stop at a cell that nobody has claimed.
LEMMA EmptyMeansAbsent ==
  ASSUME TableInvariant, NEW t \in Threads, pc[t] = "look", ~Claimed(idx[t])
  PROVE  Null \in seen[t]
<1>1. Search(t) /\ idx[t] \in Index
  BY DEF TableInvariant, ThreadInv, TypeOK
<1> SUFFICES ASSUME NEW i \in Index, Ahead(t, i)
             PROVE  FALSE
  BY <1>1 DEF Search, LookupSteps
<1>2. array[i].key = Key(t) /\ Dist(Home(t), idx[t]) <= Dist(Home(t), i)
  BY DEF Ahead
<1>3. Claimed(idx[t])
  BY <1>1, <1>2, PublishedChain
<1> QED BY <1>3

LEMMA ChainEndMeansAbsent ==
  ASSUME TableInvariant, NEW t \in Threads, pc[t] = "next", ~(At(t)[leap[t]] > 0)
  PROVE  Null \in seen[t]
<1>1. Search(t)
  BY DEF TableInvariant, ThreadInv
<1> QED BY <1>1, AheadLinked DEF Search, LookupSteps

-----------------------------------------------------------------------------
\* Every step is a step of the map, or leaves it alone.
LEMMA MapCall ==
  ASSUME TableInvariant, NEW t \in Threads, NEW r \in Map!Requests, Call(t, r)
  PROVE  Map!Call(t, r)
<1>1. TypeOK /\ CallInv(t) /\ pc[t] = "idle"
  BY DEF TableInvariant, ThreadInv, Call
<1>2. request[t] = Map!NoRequest /\ answer[t] = Map!Pending
  BY <1>1 DEF CallInv
<1>3. answer' = [answer EXCEPT ![t] = Map!Pending]
  BY <1>1, <1>2 DEF TypeOK, Call
<1>4. Contents' = Contents
  BY CallStep
<1> QED BY <1>2, <1>3, <1>4 DEF Call, Map!Call

LEMMA MapReturn ==
  ASSUME TableInvariant, NEW t \in Threads, Return(t)
  PROVE  Map!Return(t)
<1>1. CallInv(t) /\ pc[t] = "return"
  BY DEF TableInvariant, ThreadInv, Return
<1>2. request[t] # Map!NoRequest /\ answer[t] # Map!Pending
  BY <1>1 DEF CallInv
<1>3. Contents' = Contents
  BY ReturnStep
<1> QED BY <1>2, <1>3 DEF Return, Map!Return

LEMMA MapPerform ==
  ASSUME TableInvariant, NEW t \in Threads, pc[t] \notin {"idle", "return"},
         NEW v, Contents[Key(t)] = v,
         MapSet(t, Map!Updated(request[t], v)),
         answer' = [answer EXCEPT ![t] = Map!Answer(request[t], v)],
         request' = request
  PROVE  Map!Perform(t)
<1>1. /\ request[t] # Map!NoRequest /\ answer[t] = Map!Pending
      /\ Key(t) = request[t].key
  BY InCall
<1> QED BY <1>1 DEF Map!Perform, MapSet

LEMMA MapStoreKey ==
  ASSUME TableInvariant, NEW t \in Threads, StoreKey(t)
  PROVE  Map!Perform(t)
<1>1. /\ pc[t] = "key" /\ request' = request
      /\ answer' = [answer EXCEPT ![t] = Map!Answer(request[t], Null)]
  BY DEF StoreKey
<1>2. request[t] \in Map!Requests /\ Key(t) \in Keys
      /\ request[t].op \in Map!Inserts
  BY <1>1, InCall DEF InsertSteps
<1>3. \A i \in Index : array[i].key # Key(t)
  BY <1>1 DEF TableInvariant, ThreadInv, ClaimInv, Claimant
<1>4. Contents[Key(t)] = Null
  BY <1>2, <1>3, ContentsNone
<1>5. Map!Updated(request[t], Null) = request[t].value
  BY <1>2 DEF Map!Updated, Map!Inserts
<1>6. MapSet(t, Map!Updated(request[t], Null))
  BY <1>5, StoreKeyStep
<1> QED BY <1>1, <1>4, <1>6, MapPerform

LEMMA MapFound ==
  ASSUME TableInvariant, NEW t \in Threads, Found(t)
  PROVE  Map!Perform(t)
<1>1. PICK v : v = array[idx[t]].value
  OBVIOUS
<1>2. /\ pc[t] = "found" /\ request' = request
      /\ answer' = [answer EXCEPT ![t] = Map!Answer(request[t], v)]
  BY <1>1 DEF Found, At
<1>3. Key(t) \in Keys
  BY <1>2, InCall
<1>4. OneCell /\ idx[t] \in Index /\ array[idx[t]].key = Key(t)
  BY <1>2 DEF TableInvariant, TableInv, ThreadInv, ClaimInv, TypeOK
<1>5. Contents[Key(t)] = v
  BY <1>1, <1>3, <1>4, ContentsAt
<1>6. MapSet(t, Map!Updated(request[t], v))
  BY <1>1, FoundStep
<1> QED BY <1>2, <1>5, <1>6, MapPerform

LEMMA MapTakeDissoc ==
  ASSUME TableInvariant, NEW t \in Threads, TakeDissoc(t)
  PROVE  Map!Perform(t)
<1>1. PICK v : v = Contents[Key(t)]
  OBVIOUS
<1>2. /\ pc[t] = "take" /\ request' = request /\ request[t].op = "dissoc"
      /\ answer' = [answer EXCEPT ![t] = Map!Nil]
  BY DEF TakeDissoc
<1>3. Map!Updated(request[t], v) = Null /\ Map!Answer(request[t], v) = Map!Nil
  BY <1>2 DEF Map!Updated, Map!Answer
<1>4. MapSet(t, Map!Updated(request[t], v))
  BY <1>3, TakeDissocStep
<1> QED BY <1>1, <1>2, <1>3, <1>4, MapPerform

\* A get that reads a value: it is the one that the key has at that moment.
LEMMA MapTakeGet ==
  ASSUME TableInvariant, NEW t \in Threads, TakeGet(t), At(t).value # Null
  PROVE  Map!Perform(t)
<1>1. PICK v : v = array[idx[t]].value
  OBVIOUS
<1>2. /\ pc[t] = "take" /\ request' = request /\ request[t].op = "get"
      /\ answer' = [answer EXCEPT ![t] = v] /\ v # Null /\ seen' = seen
  BY <1>1 DEF TakeGet, At
<1>3. Key(t) \in Keys
  BY <1>2, InCall
<1>4. /\ TypeOK /\ OneCell /\ idx[t] \in Index /\ array[idx[t]].key = Key(t)
  BY <1>2 DEF TableInvariant, TableInv, ThreadInv, ClaimInv, TypeOK
<1>5. Contents[Key(t)] = v
  BY <1>1, <1>3, <1>4, ContentsAt
<1>6. Map!Updated(request[t], v) = v /\ Map!Answer(request[t], v) = v
  BY <1>2 DEF Map!Updated, Map!Answer
<1>7. Contents' = [Contents EXCEPT ![Key(t)] = v]
  <2>1. Contents \in [Keys -> Values \cup {Null}]
    BY <1>4, ContentsType DEF TypeOK
  <2>2. Contents' = Contents
    BY TakeGetStep
  <2> QED BY <1>5, <2>1, <2>2
<1>8. Map!Witness(Key(t), v)
  <2>1. ASSUME NEW u \in Threads, request[u] # Map!NoRequest,
               request[u].key = Key(t)
        PROVE  v \in seen[u]
    <3>1. CallInv(u) /\ Seen(u)
      BY DEF TableInvariant, ThreadInv
    <3>2. pc[u] # "idle" /\ Key(u) = Key(t)
      BY <2>1, <3>1 DEF CallInv, Key
    <3> QED BY <1>5, <3>1, <3>2 DEF Seen
  <2>2. seen = [u \in Threads |-> seen[u]]
    BY <1>4 DEF TypeOK
  <2>3. [u \in Threads |-> IF request[u] # Map!NoRequest /\ request[u].key = Key(t)
                           THEN seen[u] \cup {v} ELSE seen[u]]
          = [u \in Threads |-> seen[u]]
    <3>1. ASSUME NEW u \in Threads
          PROVE  (IF request[u] # Map!NoRequest /\ request[u].key = Key(t)
                  THEN seen[u] \cup {v} ELSE seen[u]) = seen[u]
      BY <2>1
    <3> QED BY <3>1
  <2> QED BY <1>2, <2>2, <2>3 DEF Map!Witness
<1>9. MapSet(t, Map!Updated(request[t], v))
  BY <1>6, <1>7, <1>8 DEF MapSet
<1> QED BY <1>2, <1>5, <1>6, <1>9, MapPerform

LEMMA MapMiss ==
  ASSUME TableInvariant, NEW t \in Threads, pc[t] \in LookupSteps,
         Null \in seen[t], answer' = [answer EXCEPT ![t] = Map!Nil],
         Contents' = Contents, request' = request, seen' = seen
  PROVE  Map!Miss(t)
<1>1. /\ request[t] # Map!NoRequest /\ answer[t] = Map!Pending
      /\ request[t].op \in Map!Lookups
  BY InCall DEF LookupSteps
<1> QED BY <1>1 DEF Map!Miss

LEMMA MapFail ==
  ASSUME TableInvariant, NEW t \in Threads, Overcrowded(t)
  PROVE  Map!Fail(t)
<1>1. /\ pc[t] = "probe" /\ probes[t] = 0 /\ request' = request /\ seen' = seen
      /\ answer' = [answer EXCEPT ![t] = Map!Overflow]
  BY DEF Overcrowded
<1>2. /\ request[t] # Map!NoRequest /\ answer[t] = Map!Pending
      /\ request[t].op \in Map!Inserts
      /\ Key(t) \in Keys /\ Key(t) = request[t].key
  BY <1>1, InCall DEF InsertSteps
<1>3. Contents[Key(t)] = Null
  BY <1>1, <1>2, OvercrowdedAbsent, ContentsNone
<1>4. Contents' = Contents
  BY OvercrowdedStep
<1> QED BY <1>1, <1>2, <1>3, <1>4 DEF Map!Fail

LEMMA MapLook ==
  ASSUME TableInvariant, NEW t \in Threads, Look(t)
  PROVE  Map!Miss(t) \/ UNCHANGED <<Contents, request, answer, seen>>
<1>1. /\ pc[t] = "look" /\ request' = request /\ seen' = seen
      /\ \/ answer' = answer
         \/ At(t).keyHash = 0 /\ answer' = [answer EXCEPT ![t] = Map!Nil]
  BY DEF Look
<1>2. Contents' = Contents
  BY LookStep
<1>3. CASE At(t).keyHash = 0 /\ answer' = [answer EXCEPT ![t] = Map!Nil]
  <2>1. Null \in seen[t]
    BY <1>1, <1>3, EmptyMeansAbsent DEF At, Claimed
  <2> QED BY <1>1, <1>2, <1>3, <2>1, MapMiss DEF LookupSteps
<1> QED BY <1>1, <1>2, <1>3

LEMMA MapNextCell ==
  ASSUME TableInvariant, NEW t \in Threads, NextCell(t)
  PROVE  Map!Miss(t) \/ UNCHANGED <<Contents, request, answer, seen>>
<1>1. /\ pc[t] = "next" /\ request' = request /\ seen' = seen
      /\ \/ answer' = answer
         \/ ~(At(t)[leap[t]] > 0) /\ answer' = [answer EXCEPT ![t] = Map!Nil]
  BY DEF NextCell
<1>2. Contents' = Contents
  BY NextCellStep
<1>3. CASE ~(At(t)[leap[t]] > 0) /\ answer' = [answer EXCEPT ![t] = Map!Nil]
  <2>1. Null \in seen[t]
    BY <1>1, <1>3, ChainEndMeansAbsent
  <2> QED BY <1>1, <1>2, <1>3, <2>1, MapMiss DEF LookupSteps
<1> QED BY <1>1, <1>2, <1>3

LEMMA MapStep ==
  ASSUME TableInvariant, NEW t \in Threads,
         Step(t) \/ \E r \in Map!Requests : Call(t, r)
  PROVE  Map!Next \/ UNCHANGED <<Contents, request, answer, seen>>
<1>1. CASE \E r \in Map!Requests : Call(t, r)
  BY <1>1, MapCall DEF Map!Next
<1>2. CASE Return(t)
  BY <1>2, MapReturn DEF Map!Next
<1>3. CASE StoreKey(t) \/ Found(t) \/ TakeDissoc(t)
  BY <1>3, MapStoreKey, MapFound, MapTakeDissoc DEF Map!Next
<1>4. CASE TakeGet(t)
  <2>1. CASE At(t).value # Null
    BY <1>4, <2>1, MapTakeGet DEF Map!Next
  <2>2. CASE At(t).value = Null
    BY <1>4, <2>2, TakeGetStep DEF TakeGet
  <2> QED BY <2>1, <2>2
<1>5. CASE Overcrowded(t)
  BY <1>5, MapFail DEF Map!Next
<1>6. CASE Look(t) \/ NextCell(t)
  BY <1>6, MapLook, MapNextCell DEF Map!Next
<1>7. CASE InsertHome(t)
  BY <1>7, HomeInv DEF InsertHome
<1>8. CASE LinearProbe(t)
  BY <1>8, ProbeInv DEF LinearProbe
<1>9. CASE SameKey(t)
  BY <1>9, SameKeyStep DEF SameKey
<1>10. CASE Hop(t)
  BY <1>10, HopStep DEF Hop
<1>11. CASE FollowLink(t)
  BY <1>11, FollowLinkStep DEF FollowLink
<1>12. CASE SetLink(t)
  BY <1>12, SetLinkStep DEF SetLink
<1>13. CASE StoreValue(t)
  BY <1>13, StoreValueStep DEF StoreValue
<1>14. CASE Match(t)
  BY <1>14, MatchStep DEF Match
<1> QED BY <1>1, <1>2, <1>3, <1>4, <1>5, <1>6, <1>7, <1>8, <1>9, <1>10, <1>11,
           <1>12, <1>13, <1>14 DEF Step

\* ConcurrentHashMap.c is linearizable, whatever the number of threads, keys and
\* cells: every assoc, putIfAbsent, getOrCreate and dissoc that finds its key,
\* and every get that returns a value, takes effect at one instant of the call;
\* get and dissoc report a missing key only if it was missing at some time of
\* the call; and insertOrFind gives up only for a key that is not there.
THEOREM RefinementTheorem == Spec => ImplementsMap
<1>1. Init => Map!Init
  <2> SUFFICES ASSUME Init
               PROVE  Contents = [k \in Keys |-> Null]
    BY DEF Init, Map!Init
  <2>1. \A i \in Index : array[i].key = Null
    BY DEF Init, Empty
  <2>2. ASSUME NEW k \in Keys
        PROVE  ~\E i \in Index : array[i].key = k
    BY <2>1, NullAssumption
  <2> QED BY <2>2 DEF Contents
<1>2. TableInvariant /\ [Next]_vars => [Map!Next]_(Map!vars)
  <2> SUFFICES ASSUME TableInvariant, [Next]_vars
               PROVE  Map!Next \/ UNCHANGED <<Contents, request, answer, seen>>
    BY DEF Map!vars
  <2>1. CASE Next
    BY <2>1, MapStep DEF Next
  <2>2. CASE UNCHANGED vars
    BY <2>2 DEF vars, Contents
  <2> QED BY <2>1, <2>2
<1> QED BY <1>1, <1>2, TableInvariantTheorem, PTL DEF Spec, ImplementsMap, Map!Spec
=============================================================================
