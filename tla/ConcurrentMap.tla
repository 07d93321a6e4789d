--------------------------- MODULE ConcurrentMap ---------------------------
(***************************************************************************)
(* What runtime/ConcurrentHashMap.c promises to its callers: a map whose   *)
(* updates take effect at one instant of the call, and whose failures to   *)
(* find a key are true at some instant of the call (linearizability).      *)
(***************************************************************************)
CONSTANTS Threads, Keys, Values, Null

Inserts == {"assoc", "putIfAbsent", "getOrCreate"}
Lookups == {"get", "dissoc"}
Requests == [op : Inserts, key : Keys, value : Values] \cup [op : Lookups, key : Keys]
NoRequest == [op |-> "none"]
Pending   == "pending"
Nil       == "nil"
Overflow  == "overflow"

VARIABLES
  map,       \* map[k]: the value of k, or Null
  request,   \* request[t]: the call that t is in, or NoRequest
  answer,    \* answer[t]: what the call will return, once that is settled
  seen       \* seen[t]: the values that the key has had during the call

vars == <<map, request, answer, seen>>

TypeOK ==
  /\ map \in [Keys -> Values \cup {Null}]
  /\ request \in [Threads -> Requests \cup {NoRequest}]
  /\ answer \in [Threads -> Values \cup {Pending, Nil, Overflow}]
  /\ seen \in [Threads -> SUBSET (Values \cup {Null})]

Init ==
  /\ map = [k \in Keys |-> Null]
  /\ request = [t \in Threads |-> NoRequest]
  /\ answer = [t \in Threads |-> Pending]
  /\ seen = [t \in Threads |-> {}]

\* What a call that finds v under its key answers, and what it leaves there.
Answer(r, v) ==
  CASE r.op = "get"         -> IF v = Null THEN Nil ELSE v
    [] r.op = "putIfAbsent" -> IF v = Null THEN Nil ELSE v
    [] r.op = "getOrCreate" -> IF v = Null THEN r.value ELSE v
    [] OTHER                -> Nil

Updated(r, v) ==
  CASE r.op = "assoc"  -> r.value
    [] r.op = "dissoc" -> Null
    [] r.op = "get"    -> v
    [] OTHER           -> IF v = Null THEN r.value ELSE v

\* Every thread that is in a call about k sees a change of k.
Witness(k, v) ==
  seen' = [t \in Threads |->
             IF request[t] # NoRequest /\ request[t].key = k
             THEN seen[t] \cup {v} ELSE seen[t]]

Call(t, r) ==
  /\ request[t] = NoRequest
  /\ request' = [request EXCEPT ![t] = r]
  /\ answer' = [answer EXCEPT ![t] = Pending]
  /\ seen' = [seen EXCEPT ![t] = {map[r.key]}]
  /\ UNCHANGED map

Perform(t) ==
  /\ request[t] # NoRequest
  /\ answer[t] = Pending
  /\ LET r == request[t]  v == Updated(r, map[r.key]) IN
       /\ map' = [map EXCEPT ![r.key] = v]
       /\ answer' = [answer EXCEPT ![t] = Answer(r, map[r.key])]
       /\ Witness(r.key, v)
  /\ UNCHANGED request

\* get and dissoc may answer that the key is absent if it was, at some time.
Miss(t) ==
  /\ request[t] # NoRequest
  /\ request[t].op \in Lookups
  /\ answer[t] = Pending
  /\ Null \in seen[t]
  /\ answer' = [answer EXCEPT ![t] = Nil]
  /\ UNCHANGED <<map, request, seen>>

\* The table is overcrowded: only for a key that is not in the map.
Fail(t) ==
  /\ request[t] # NoRequest
  /\ request[t].op \in Inserts
  /\ answer[t] = Pending
  /\ map[request[t].key] = Null
  /\ answer' = [answer EXCEPT ![t] = Overflow]
  /\ UNCHANGED <<map, request, seen>>

Return(t) ==
  /\ request[t] # NoRequest
  /\ answer[t] # Pending
  /\ request' = [request EXCEPT ![t] = NoRequest]
  /\ answer' = [answer EXCEPT ![t] = Pending]
  /\ seen' = [seen EXCEPT ![t] = {}]
  /\ UNCHANGED map

Next ==
  \E t \in Threads :
    \/ \E r \in Requests : Call(t, r)
    \/ Perform(t) \/ Miss(t) \/ Fail(t) \/ Return(t)

Spec == Init /\ [][Next]_vars
=============================================================================
