--------------------------- MODULE KeywordProofs ---------------------------
(***************************************************************************)
(* Interning is correct for any number of threads, strings and keywords.   *)
(***************************************************************************)
EXTENDS Keyword, TLAPS

\* Before any call the maps are empty.
LEMMA KeywordInit == Init => KeywordInv
<1> SUFFICES ASSUME Init PROVE KeywordInv
  OBVIOUS
<1>1. TypeOK
  BY MaxKeywordAssumption DEF Init, TypeOK, Ids, NoId
<1>2. \A t \in Threads : pc[t] = "idle"
  BY DEF Init
<1>3. \A s \in Strings : keywords[s] = NoId /\ returned[s] = {}
  BY DEF Init
<1>4. StringOfCall /\ InvertedFirst /\ FirstWins
  BY <1>2, <1>3 DEF StringOfCall, InvertedFirst, FirstWins
<1>5. IdsAreOwned
  BY <1>2, <1>3 DEF IdsAreOwned, Busy, Init, NoId
<1>6. Accounted
  BY DEF Accounted, Init
<1>7. QED
  BY <1>1, <1>4, <1>5, <1>6 DEF KeywordInv

\* A step of Keyword_create keeps the types.
LEMMA TypeStep ==
  ASSUME KeywordInv, Next
  PROVE  TypeOK'
<1> USE DEF KeywordInv, TypeOK, Goto, Ids, NoId
<1>1. ASSUME NEW t \in Threads, NEW s \in Strings, Call(t, s) PROVE TypeOK'
  BY <1>1 DEF Call
<1>2. ASSUME NEW t \in Threads, Get(t) PROVE TypeOK'
  <2>1. string[t] \in Strings
    BY <1>2 DEF Get, StringOfCall
  <2>2. CASE keywords[string[t]] # NoId
    <3>1. /\ Return(t, keywords[string[t]])
          /\ UNCHANGED <<keywords, keywordsInverted, minUnusedKeyword>>
      BY <1>2, <2>2 DEF Get
    <3>2. returned' \in [Strings -> SUBSET Ids]
      BY <2>1, <2>2, <3>1 DEF Return
    <3>3. QED
      BY <3>1, <3>2 DEF Return
  <2>3. CASE keywords[string[t]] = NoId
    BY <1>2, <2>3 DEF Get
  <2>4. QED
    BY <2>2, <2>3
<1>3. ASSUME NEW t \in Threads, Draw(t) PROVE TypeOK'
  BY <1>3, MaxKeywordAssumption DEF Draw
<1>4. ASSUME NEW t \in Threads, Invert(t) PROVE TypeOK'
  <2>1. string[t] \in Strings
    BY <1>4 DEF Invert, StringOfCall
  <2>2. keywordsInverted' \in [Ids -> Strings \cup {NoString}]
    BY <1>4, <2>1 DEF Invert
  <2>3. QED
    BY <1>4, <2>2 DEF Invert
<1>5. ASSUME NEW t \in Threads, Put(t) PROVE TypeOK'
  <2>1. string[t] \in Strings /\ new[t] \in Ids
    BY <1>5 DEF Put, StringOfCall, IdsAreOwned, Busy
  <2>2. CASE keywords[string[t]] = NoId
    <3>1. /\ keywords' = [keywords EXCEPT ![string[t]] = new[t]]
          /\ Return(t, new[t])
          /\ UNCHANGED <<keywordsInverted, minUnusedKeyword>>
      BY <1>5, <2>2 DEF Put
    <3>2. keywords' \in [Strings -> Ids \cup {NoId}]
      BY <2>1, <3>1
    <3>3. returned' \in [Strings -> SUBSET Ids]
      BY <2>1, <3>1 DEF Return
    <3>4. QED
      BY <3>1, <3>2, <3>3 DEF Return
  <2>3. CASE keywords[string[t]] # NoId
    BY <1>5, <2>3 DEF Put
  <2>4. QED
    BY <2>2, <2>3
<1>6. ASSUME NEW t \in Threads, Undo(t) PROVE TypeOK'
  <2>1. string[t] \in Strings /\ keywords[string[t]] \in Ids
    BY <1>6 DEF Undo, StringOfCall, FirstWins
  <2>2. returned' \in [Strings -> SUBSET Ids]
    BY <1>6, <2>1 DEF Undo, Return
  <2>3. keywordsInverted' \in [Ids -> Strings \cup {NoString}]
    BY <1>6 DEF Undo
  <2>4. QED
    BY <1>6, <2>2, <2>3 DEF Undo, Return
<1>7. ASSUME NEW t \in Threads, Throw(t) PROVE TypeOK'
  <2>1. new[t] \in Ids
    BY <1>7 DEF Throw, IdsAreOwned, Busy
  <2>2. lost' \in {lost, lost \cup {new[t]}}
    BY <1>7 DEF Throw
  <2>3. lost' \subseteq Ids
    BY <2>1, <2>2
  <2>4. /\ pc' = [pc EXCEPT ![t] = "idle"]
        /\ string' = [string EXCEPT ![t] = NoString]
        /\ new' = [new EXCEPT ![t] = NoId]
        /\ UNCHANGED <<keywords, keywordsInverted, minUnusedKeyword, returned>>
    BY <1>7 DEF Throw
  <2>5. QED
    BY <2>3, <2>4
<1>8. QED
  BY <1>1, <1>2, <1>3, <1>4, <1>5, <1>6, <1>7 DEF Next, Step

\* A step keeps the string of every call in progress.
LEMMA StringStep ==
  ASSUME KeywordInv, Next
  PROVE  StringOfCall'
<1> USE DEF KeywordInv, TypeOK, Goto, StringOfCall
<1>1. ASSUME NEW t \in Threads, NEW s \in Strings, Call(t, s) PROVE StringOfCall'
  BY <1>1 DEF Call
<1>2. ASSUME NEW t \in Threads, Get(t) PROVE StringOfCall'
  BY <1>2 DEF Get, Return
<1>3. ASSUME NEW t \in Threads, Draw(t) PROVE StringOfCall'
  BY <1>3 DEF Draw
<1>4. ASSUME NEW t \in Threads, Invert(t) PROVE StringOfCall'
  BY <1>4 DEF Invert
<1>5. ASSUME NEW t \in Threads, Put(t) PROVE StringOfCall'
  BY <1>5 DEF Put, Return
<1>6. ASSUME NEW t \in Threads, Undo(t) PROVE StringOfCall'
  BY <1>6 DEF Undo, Return
<1>7. ASSUME NEW t \in Threads, Throw(t) PROVE StringOfCall'
  BY <1>7 DEF Throw
<1>8. QED
  BY <1>1, <1>2, <1>3, <1>4, <1>5, <1>6, <1>7 DEF Next, Step

\* A drawn id is passed on to keywords or dropped, never shared.
LEMMA IdsStep ==
  ASSUME KeywordInv, Next
  PROVE  IdsAreOwned'
<1> USE DEF KeywordInv, TypeOK, Goto, IdsAreOwned, Busy, Ids, NoId
<1>1. ASSUME NEW t \in Threads, NEW s \in Strings, Call(t, s) PROVE IdsAreOwned'
  BY <1>1 DEF Call
<1>2. ASSUME NEW t \in Threads, Get(t) PROVE IdsAreOwned'
  <2>1. keywords' = keywords /\ minUnusedKeyword' = minUnusedKeyword
    BY <1>2 DEF Get
  <2>2. \A u \in Threads : Busy(u)' => Busy(u) /\ new'[u] = new[u]
    BY <1>2 DEF Get, Return
  <2>3. QED
    BY <2>1, <2>2
<1>3. ASSUME NEW t \in Threads, Draw(t) PROVE IdsAreOwned'
  <2>1. /\ new' = [new EXCEPT ![t] = minUnusedKeyword]
        /\ minUnusedKeyword' = minUnusedKeyword + 1
        /\ pc' = [pc EXCEPT ![t] = "invert"]
        /\ keywords' = keywords
        /\ minUnusedKeyword \in Ids
    BY <1>3, MaxKeywordAssumption DEF Draw
  <2>2. \A u \in Threads : Busy(u)' => new'[u] \in Ids /\ new'[u] < minUnusedKeyword'
    BY <2>1
  <2>3. \A u, w \in Threads : Busy(u)' /\ Busy(w)' /\ new'[u] = new'[w] => u = w
    BY <2>1
  <2>4. \A s \in Strings : keywords'[s] < minUnusedKeyword'
    BY <2>1
  <2>5. \A u \in Threads, s \in Strings : Busy(u)' => keywords'[s] # new'[u]
    BY <2>1
  <2>6. QED
    BY <2>2, <2>3, <2>4, <2>5
<1>4. ASSUME NEW t \in Threads, Invert(t) PROVE IdsAreOwned'
  BY <1>4 DEF Invert
<1>5. ASSUME NEW t \in Threads, Put(t) PROVE IdsAreOwned'
  <2>1. CASE keywords[string[t]] = NoId
    <3>1. /\ keywords' = [keywords EXCEPT ![string[t]] = new[t]]
          /\ pc' = [pc EXCEPT ![t] = "idle"]
          /\ new' = [new EXCEPT ![t] = NoId]
          /\ minUnusedKeyword' = minUnusedKeyword
          /\ pc[t] = "put"
      BY <1>5, <2>1 DEF Put, Return
    <3>2. \A u \in Threads : Busy(u)' => Busy(u) /\ u # t /\ new'[u] = new[u]
      BY <3>1
    <3>3. \A s \in Strings : keywords'[s] \in {keywords[s], new[t]}
      BY <3>1
    <3>4. Busy(t)
      BY <3>1
    <3>5. QED
      BY <3>1, <3>2, <3>3, <3>4
  <2>2. CASE keywords[string[t]] # NoId
    BY <1>5, <2>2 DEF Put
  <2>3. QED
    BY <2>1, <2>2
<1>6. ASSUME NEW t \in Threads, Undo(t) PROVE IdsAreOwned'
  BY <1>6 DEF Undo, Return
<1>7. ASSUME NEW t \in Threads, Throw(t) PROVE IdsAreOwned'
  BY <1>7 DEF Throw
<1>8. QED
  BY <1>1, <1>2, <1>3, <1>4, <1>5, <1>6, <1>7 DEF Next, Step

\* keywordsInverted changes only under ids that keywords does not hold, and only
\* under the thread's own.
LEMMA InvertedStep ==
  ASSUME KeywordInv, Next
  PROVE  InvertedFirst'
<1> USE DEF KeywordInv, TypeOK, Goto, InvertedFirst, NoId
<1>1. ASSUME NEW t \in Threads, NEW s \in Strings, Call(t, s) PROVE InvertedFirst'
  BY <1>1 DEF Call
<1>2. ASSUME NEW t \in Threads, Get(t) PROVE InvertedFirst'
  BY <1>2 DEF Get, Return
<1>3. ASSUME NEW t \in Threads, Draw(t) PROVE InvertedFirst'
  BY <1>3 DEF Draw
<1>4. ASSUME NEW t \in Threads, Invert(t) PROVE InvertedFirst'
  BY <1>4 DEF Invert, IdsAreOwned, Busy, StringOfCall
<1>5. ASSUME NEW t \in Threads, Put(t) PROVE InvertedFirst'
  BY <1>5 DEF Put, Return, StringOfCall
<1>6. ASSUME NEW t \in Threads, Undo(t) PROVE InvertedFirst'
  BY <1>6 DEF Undo, Return, IdsAreOwned, Busy
<1>7. ASSUME NEW t \in Threads, Throw(t) PROVE InvertedFirst'
  BY <1>7 DEF Throw
<1>8. QED
  BY <1>1, <1>2, <1>3, <1>4, <1>5, <1>6, <1>7 DEF Next, Step

\* An entry of keywords never changes, and a call returns the entry.
LEMMA FirstWinsStep ==
  ASSUME KeywordInv, Next
  PROVE  FirstWins'
<1> USE DEF KeywordInv, TypeOK, Goto, FirstWins, NoId
<1>1. ASSUME NEW t \in Threads, NEW s \in Strings, Call(t, s) PROVE FirstWins'
  BY <1>1 DEF Call
<1>2. ASSUME NEW t \in Threads, Get(t) PROVE FirstWins'
  BY <1>2 DEF Get, Return, StringOfCall
<1>3. ASSUME NEW t \in Threads, Draw(t) PROVE FirstWins'
  BY <1>3 DEF Draw
<1>4. ASSUME NEW t \in Threads, Invert(t) PROVE FirstWins'
  BY <1>4 DEF Invert
<1>5. ASSUME NEW t \in Threads, Put(t) PROVE FirstWins'
  <2>1. string[t] \in Strings /\ new[t] \in Ids
    BY <1>5 DEF Put, StringOfCall, IdsAreOwned, Busy
  <2>2. CASE keywords[string[t]] = NoId
    <3>1. /\ keywords' = [keywords EXCEPT ![string[t]] = new[t]]
          /\ pc' = [pc EXCEPT ![t] = "idle"]
          /\ string' = [string EXCEPT ![t] = NoString]
          /\ returned' = [returned EXCEPT ![string[t]] = @ \cup {new[t]}]
      BY <1>5, <2>2 DEF Put, Return
    <3>2. returned[string[t]] = {}
      BY <2>1, <2>2
    <3>3. new[t] # NoId
      BY <2>1 DEF Ids
    <3>4. \A s \in Strings : returned'[s] \subseteq {keywords'[s]} \ {NoId}
      BY <2>1, <3>1, <3>2, <3>3
    <3>5. \A u \in Threads : pc'[u] = "undo" => keywords'[string'[u]] # NoId
      <4>1. \A u \in Threads : pc'[u] = "undo" =>
              pc[u] = "undo" /\ string'[u] = string[u] /\ string[u] \in Strings
        BY <3>1 DEF StringOfCall
      <4>2. QED
        BY <2>1, <3>1, <3>3, <4>1
    <3>6. QED
      BY <3>4, <3>5
  <2>3. CASE keywords[string[t]] # NoId
    BY <1>5, <2>3 DEF Put
  <2>4. QED
    BY <2>2, <2>3
<1>6. ASSUME NEW t \in Threads, Undo(t) PROVE FirstWins'
  BY <1>6 DEF Undo, Return, StringOfCall
<1>7. ASSUME NEW t \in Threads, Throw(t) PROVE FirstWins'
  BY <1>7 DEF Throw
<1>8. QED
  BY <1>1, <1>2, <1>3, <1>4, <1>5, <1>6, <1>7 DEF Next, Step

\* An id stays accounted for as it passes from the thread to keywords, is taken
\* back, or is left behind.
LEMMA AccountedStep ==
  ASSUME KeywordInv, Next
  PROVE  Accounted'
<1> USE DEF KeywordInv, TypeOK, Goto, Accounted, NoId
<1>1. ASSUME NEW t \in Threads, NEW s \in Strings, Call(t, s) PROVE Accounted'
  BY <1>1 DEF Call
<1>2. ASSUME NEW t \in Threads, Get(t) PROVE Accounted'
  BY <1>2 DEF Get, Return
<1>3. ASSUME NEW t \in Threads, Draw(t) PROVE Accounted'
  BY <1>3 DEF Draw
<1>4. ASSUME NEW t \in Threads, Invert(t) PROVE Accounted'
  BY <1>4 DEF Invert, IdsAreOwned, Busy
<1>5. ASSUME NEW t \in Threads, Put(t) PROVE Accounted'
  <2>1. string[t] \in Strings /\ new[t] \in Ids /\ keywordsInverted[new[t]] = string[t]
    BY <1>5 DEF Put, StringOfCall, IdsAreOwned, InvertedFirst, Busy
  <2>2. CASE keywords[string[t]] = NoId
    <3>1. /\ keywords' = [keywords EXCEPT ![string[t]] = new[t]]
          /\ pc' = [pc EXCEPT ![t] = "idle"]
          /\ new' = [new EXCEPT ![t] = NoId]
          /\ keywordsInverted' = keywordsInverted /\ lost' = lost
      BY <1>5, <2>2 DEF Put, Return
    <3>2. keywords'[keywordsInverted'[new[t]]] = new[t]
      BY <2>1, <3>1
    <3>3. \A n \in Ids : keywordsInverted[n] # NoString /\ keywords[keywordsInverted[n]] = n
            => keywords'[keywordsInverted[n]] = n
      BY <2>1, <2>2, <3>1 DEF Ids
    <3>4. \A u \in Threads : u # t => pc'[u] = pc[u] /\ new'[u] = new[u]
      BY <3>1
    <3>5. QED
      BY <3>1, <3>2, <3>3, <3>4
  <2>3. CASE keywords[string[t]] # NoId
    BY <1>5, <2>3 DEF Put
  <2>4. QED
    BY <2>2, <2>3
<1>6. ASSUME NEW t \in Threads, Undo(t) PROVE Accounted'
  BY <1>6 DEF Undo, Return
<1>7. ASSUME NEW t \in Threads, Throw(t) PROVE Accounted'
  BY <1>7 DEF Throw
<1>8. QED
  BY <1>1, <1>2, <1>3, <1>4, <1>5, <1>6, <1>7 DEF Next, Step

\* The inductive invariant holds for any number of threads that create keywords.
THEOREM KeywordInvariant == Spec => []KeywordInv
<1>1. Init => KeywordInv
  BY KeywordInit
<1>2. KeywordInv /\ [Next]_vars => KeywordInv'
  <2>1. ASSUME KeywordInv, Next PROVE KeywordInv'
    BY <2>1, TypeStep, StringStep, IdsStep, InvertedStep, FirstWinsStep,
       AccountedStep DEF KeywordInv
  <2>2. ASSUME KeywordInv, UNCHANGED vars PROVE KeywordInv'
    BY <2>2 DEF KeywordInv, TypeOK, StringOfCall, IdsAreOwned, InvertedFirst, FirstWins,
                Accounted, Busy, vars
  <2>3. QED
    BY <2>1, <2>2
<1>3. QED
  BY <1>1, <1>2, PTL DEF Spec

\* One string is one keyword and two strings are two (Keyword_create).
THEOREM InternedTheorem == Spec => []Interned
<1>1. KeywordInv => Interned
  <2> SUFFICES ASSUME KeywordInv,
                      NEW s \in Strings, NEW u \in Strings, NEW m \in Ids, NEW n \in Ids,
                      m \in returned[s], n \in returned[u]
               PROVE  m = n <=> s = u
    BY DEF Interned
  <2>1. /\ m = keywords[s] /\ m # NoId
        /\ n = keywords[u] /\ n # NoId
    BY DEF KeywordInv, FirstWins
  <2>2. keywordsInverted[m] = s /\ keywordsInverted[n] = u
    BY <2>1 DEF KeywordInv, InvertedFirst
  <2>3. QED
    BY <2>1, <2>2
<1>2. QED
  BY <1>1, KeywordInvariant, PTL

\* Every keyword that is found or was returned has its string in
\* keywordsInverted, so that the assertion of Keyword_toString holds.
THEOREM PrintableTheorem == Spec => []Printable
<1>1. KeywordInv => Printable
  BY DEF KeywordInv, Printable, InvertedFirst, FirstWins
<1>2. QED
  BY <1>1, KeywordInvariant, PTL

\* The loser of a race leaves nothing in keywordsInverted (Keyword_create).
THEOREM NoOrphansTheorem == Spec => []NoOrphans
<1>1. KeywordInv => NoOrphans
  BY DEF KeywordInv, NoOrphans, Accounted
<1>2. QED
  BY <1>1, KeywordInvariant, PTL
=============================================================================
