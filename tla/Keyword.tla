------------------------------ MODULE Keyword ------------------------------
(***************************************************************************)
(* Interning of keywords (runtime/Keyword.c) by several threads.           *)
(* A keyword is an id; keywords maps strings to ids and keywordsInverted   *)
(* ids to strings, and the two are updated one after the other without a   *)
(* lock.  Each operation of a ConcurrentHashMap is one step here, which    *)
(* ConcurrentMap justifies; an insertion of a new key may find the table   *)
(* overcrowded and throw.                                                  *)
(***************************************************************************)
EXTENDS Integers, FiniteSets

CONSTANTS
  Threads,
  Strings,
  MaxKeyword    \* bound on minUnusedKeyword

ASSUME MaxKeywordAssumption == MaxKeyword \in Nat \ {0}

Ids == 1 .. MaxKeyword
NoId == 0
NoString == "none"

VARIABLES
  keywords,           \* keywords[s]: the id of s, or NoId
  keywordsInverted,   \* keywordsInverted[n]: the string of n, or NoString
  minUnusedKeyword,
  pc,
  string,             \* string[t]: the argument of Keyword_create
  new,                \* new[t]: the id it has drawn
  returned,           \* history: returned[s] are the ids it has returned for s
  lost                \* history: ids whose call ended by an exception of the
                      \* second map

vars == <<keywords, keywordsInverted, minUnusedKeyword, pc, string, new, returned,
          lost>>

TypeOK ==
  /\ keywords \in [Strings -> Ids \cup {NoId}]
  /\ keywordsInverted \in [Ids -> Strings \cup {NoString}]
  /\ minUnusedKeyword \in 1 .. (MaxKeyword + 1)
  /\ pc \in [Threads -> {"idle", "get", "draw", "invert", "put", "undo"}]
  /\ string \in [Threads -> Strings \cup {NoString}]
  /\ new \in [Threads -> Ids \cup {NoId}]
  /\ returned \in [Strings -> SUBSET Ids]
  /\ lost \subseteq Ids

Init ==
  /\ keywords = [s \in Strings |-> NoId]
  /\ keywordsInverted = [n \in Ids |-> NoString]
  /\ minUnusedKeyword = 1
  /\ pc = [t \in Threads |-> "idle"]
  /\ string = [t \in Threads |-> NoString]
  /\ new = [t \in Threads |-> NoId]
  /\ returned = [s \in Strings |-> {}]
  /\ lost = {}

-----------------------------------------------------------------------------
Goto(t, from, to) == pc[t] = from /\ pc' = [pc EXCEPT ![t] = to]

\* A call of Keyword_create.
Call(t, s) ==
  /\ Goto(t, "idle", "get")
  /\ string' = [string EXCEPT ![t] = s]
  /\ UNCHANGED <<keywords, keywordsInverted, minUnusedKeyword, new, returned, lost>>

\* Keyword_create returns n.
Return(t, n) ==
  /\ returned' = [returned EXCEPT ![string[t]] = @ \cup {n}]
  /\ pc' = [pc EXCEPT ![t] = "idle"]
  /\ string' = [string EXCEPT ![t] = NoString]
  /\ new' = [new EXCEPT ![t] = NoId]
  /\ UNCHANGED lost

\* The first look, without any lock.
Get(t) ==
  /\ pc[t] = "get"
  /\ IF keywords[string[t]] # NoId
     THEN Return(t, keywords[string[t]])
     ELSE Goto(t, "get", "draw") /\ UNCHANGED <<string, new, returned, lost>>
  /\ UNCHANGED <<keywords, keywordsInverted, minUnusedKeyword>>

\* Mutant: the counter is not advanced.
DrawSame(t) ==
  /\ minUnusedKeyword <= MaxKeyword
  /\ Goto(t, "draw", "invert")
  /\ new' = [new EXCEPT ![t] = minUnusedKeyword]
  /\ UNCHANGED <<keywords, keywordsInverted, minUnusedKeyword, string, returned, lost>>

\* atomic_fetch_add of minUnusedKeyword.
Draw(t) ==
  /\ minUnusedKeyword <= MaxKeyword
  /\ Goto(t, "draw", "invert")
  /\ new' = [new EXCEPT ![t] = minUnusedKeyword]
  /\ minUnusedKeyword' = minUnusedKeyword + 1
  /\ UNCHANGED <<keywords, keywordsInverted, string, returned, lost>>

\* keywordsInverted first.
Invert(t) ==
  /\ Goto(t, "invert", "put")
  /\ keywordsInverted' = [keywordsInverted EXCEPT ![new[t]] = string[t]]
  /\ UNCHANGED <<keywords, minUnusedKeyword, string, new, returned, lost>>

\* Mutant: the id goes into keywords whatever is there.
PutAssoc(t) ==
  /\ pc[t] = "put"
  /\ keywords' = [keywords EXCEPT ![string[t]] = new[t]]
  /\ Return(t, new[t])
  /\ UNCHANGED <<keywordsInverted, minUnusedKeyword>>

\* putIfAbsent into keywords: the first one wins.
Put(t) ==
  /\ pc[t] = "put"
  /\ IF keywords[string[t]] = NoId
     THEN /\ keywords' = [keywords EXCEPT ![string[t]] = new[t]]
          /\ Return(t, new[t])
     ELSE /\ Goto(t, "put", "undo")
          /\ UNCHANGED <<keywords, string, new, returned, lost>>
  /\ UNCHANGED <<keywordsInverted, minUnusedKeyword>>

\* The loser takes its id out of keywordsInverted and returns the winner's.
Undo(t) ==
  /\ pc[t] = "undo"
  /\ keywordsInverted' = [keywordsInverted EXCEPT ![new[t]] = NoString]
  /\ Return(t, keywords[string[t]])
  /\ UNCHANGED <<keywords, minUnusedKeyword>>

\* The table is overcrowded: the map throws through Keyword_create, which has
\* nothing to catch it, so that an id that is in keywordsInverted stays there.
Throw(t) ==
  /\ \/ pc[t] = "invert" /\ UNCHANGED lost
     \/ pc[t] = "put" /\ keywords[string[t]] = NoId /\ lost' = lost \cup {new[t]}
  /\ pc' = [pc EXCEPT ![t] = "idle"]
  /\ string' = [string EXCEPT ![t] = NoString]
  /\ new' = [new EXCEPT ![t] = NoId]
  /\ UNCHANGED <<keywords, keywordsInverted, minUnusedKeyword, returned>>

Step(t) == Get(t) \/ Draw(t) \/ Invert(t) \/ Put(t) \/ Undo(t) \/ Throw(t)

Next == \E t \in Threads : Step(t) \/ \E s \in Strings : Call(t, s)

Spec == Init /\ [][Next]_vars

-----------------------------------------------------------------------------
\* A thread is between the drawing of an id and the end of the call.
Busy(t) == pc[t] \in {"invert", "put", "undo"}

\* The string of a call.
StringOfCall ==
  \A t \in Threads : pc[t] \in {"get", "draw", "invert", "put", "undo"} =>
                       string[t] \in Strings

\* A drawn id is below the counter and belongs to one thread or to one entry of
\* keywords, never to two of them.
IdsAreOwned ==
  /\ \A t \in Threads : Busy(t) => new[t] \in Ids /\ new[t] < minUnusedKeyword
  /\ \A t, u \in Threads : Busy(t) /\ Busy(u) /\ new[t] = new[u] => t = u
  /\ \A s \in Strings : keywords[s] < minUnusedKeyword
  /\ \A t \in Threads, s \in Strings : Busy(t) => keywords[s] # new[t]

\* The inverted map is ahead of keywords.
InvertedFirst ==
  /\ \A s \in Strings : keywords[s] # NoId => keywordsInverted[keywords[s]] = s
  /\ \A t \in Threads : pc[t] = "put" => keywordsInverted[new[t]] = string[t]

\* An entry of keywords is final, and all that is ever returned.
FirstWins ==
  /\ \A t \in Threads : pc[t] = "undo" => keywords[string[t]] # NoId
  /\ \A s \in Strings : returned[s] \subseteq {keywords[s]} \ {NoId}

\* Every id in keywordsInverted is in keywords, or in the hands of a thread, or
\* was left by an exception.
Accounted ==
  \A n \in Ids : keywordsInverted[n] # NoString =>
    \/ keywords[keywordsInverted[n]] = n
    \/ n \in lost
    \/ \E t \in Threads : pc[t] \in {"put", "undo"} /\ new[t] = n

\* The inductive invariant behind Interned, Printable and NoOrphans: ids have one owner
\* from the draw on, and both maps change in the order Keyword_create changes
\* them.
KeywordInv ==
  /\ TypeOK /\ StringOfCall /\ IdsAreOwned
  /\ InvertedFirst /\ FirstWins /\ Accounted

\* One string is one keyword and two strings are two, whichever threads create
\* them at the same time: keywords are compared by id.
Interned ==
  \A s, u \in Strings, m, n \in Ids :
    m \in returned[s] /\ n \in returned[u] => (m = n <=> s = u)

\* Whoever has found a keyword can look up its string (the comment in
\* Keyword_create and the assertion of Keyword_toString), also while the losers
\* of a race clean up.
Printable ==
  /\ \A s \in Strings : keywords[s] # NoId => keywordsInverted[keywords[s]] = s
  /\ \A s \in Strings : \A n \in returned[s] : keywordsInverted[n] = s

\* When no call is in progress the two maps are inverses of each other: a lost
\* race leaves nothing behind, and only an exception of the second map does.
NoOrphans ==
  (\A t \in Threads : pc[t] = "idle") =>
    \A n \in Ids :
      keywordsInverted[n] # NoString =>
        keywords[keywordsInverted[n]] = n \/ n \in lost
=============================================================================
