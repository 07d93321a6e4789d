--------------------------- MODULE OwnershipPass ----------------------------
(***************************************************************************)
(* The memory management pass of the frontend (frontend/src/clojure/rt/    *)
(* passes.clj).  Every call of compiled code consumes its arguments, so    *)
(* the pass decides, for every node of the program, which variables to     *)
(* retain or release before it is evaluated (:drop-memory) and which to    *)
(* release when it throws (:unwind-memory).                                *)
(*                                                                         *)
(* A node has an op, a kind (of), names and children.  The children are    *)
(* in the order of the pass: [meta expr], [meta init], k1 v1 k2 v2 ...; of *)
(* a let they are the values of names and then the body, of a fn the       *)
(* bodies of its methods, whose parameters are names and whose own name is *)
(* its kind.                                                               *)
(***************************************************************************)
EXTENDS Integers, Sequences, FiniteSets, FiniteSetsExt, SequencesExt

CONSTANT Names            \* names of variables, made unique by an earlier pass

Node(op, of, names, kids) == [op |-> op, of |-> of, names |-> names, kids |-> kids]

Local(x) == Node("local", "any", <<x>>, <<>>)
Const(t) == Node("const", t, <<>>, <<>>)

RECURSIVE Fresh(_)

(* The free variables of a let: each name hides the rest of the bindings.  *)
LetFresh(e, first) ==
  LET step(acc, i) == (acc \ {e.names[i]}) \cup Fresh(e.kids[i])
      back == Reverse([i \in 1 .. Len(e.names) - first + 1 |-> first + i - 1])
  IN  FoldLeft(step, Fresh(Last(e.kids)), back)

MethodFresh(e, body) == Fresh(body) \ Range(e.names)

(* -fresh-vars: the variables that an expression uses.                     *)
Fresh(e) ==
  CASE e.op = "local" -> Range(e.names)
    [] e.op = "fn" -> UNION {MethodFresh(e, body) : body \in Range(e.kids)} \ {e.of}
    [] e.op = "let" -> LetFresh(e, 1)
    [] OTHER -> UNION {Fresh(kid) : kid \in Range(e.kids)}

(***************************************************************************)
(* Guidance: by how much to change the count of each variable.             *)
(***************************************************************************)
NoChange == [x \in Names |-> 0]

Change(guidance, names, n) ==
  [x \in Names |-> IF x \in names THEN guidance[x] + n ELSE guidance[x]]

dropVars(n, names) == [n EXCEPT !.drop = Change(@, names, -1)]
dupVars(n, names) == [n EXCEPT !.drop = Change(@, names, 1)]
setUnwind(n, names) == [n EXCEPT !.unwind = Change(@, names, -1)]

(* An annotated node; ok says that no assertion of the pass failed below,  *)
(* and binding is the guidance of the binding node around a let's value.   *)
Annotated(e, kids, ok) ==
  [op |-> e.op, of |-> e.of, names |-> e.names, kids |-> kids,
   drop |-> NoChange, unwind |-> NoChange, binding |-> NoChange,
   ok |-> ok /\ \A kid \in Range(kids) : kid.ok]

(* The assertions at the head of -memory-management-pass.                  *)
Invariants(e, borrowed, owned, unwindOwned) ==
  /\ borrowed \cap owned = {}
  /\ owned \subseteq Fresh(e)
  /\ unwindOwned \subseteq borrowed \cup owned
  /\ Fresh(e) \subseteq borrowed \cup owned

RECURSIVE Pass(_, _, _, _)

(* SVAR, SVAR-DUP: the owner gives its reference away, a borrower makes    *)
(* one.                                                                    *)
variableUsage(e, owned, ok) ==
  LET n == Annotated(e, <<>>, ok /\ (owned = {} \/ owned = Range(e.names)))
  IN  IF owned = {} THEN dupVars(n, Range(e.names)) ELSE n

FreshOf(es) == UNION {Fresh(e) : e \in Range(es)}

\* Mutant: the first user of a variable gets it, not the last one.
FirstUserOwns(es, owned) ==
  [i \in DOMAIN es |->
     (owned \cap Fresh(es[i])) \ FreshOf(SubSeq(es, 1, i - 1))]

(* SAPP: of several expressions that are evaluated in order, the last one  *)
(* that uses a variable owns it.                                           *)
OwnedBy(es, owned) ==
  [i \in DOMAIN es |->
     (owned \cap Fresh(es[i])) \ FreshOf(SubSeq(es, i + 1, Len(es)))]

(* The children after the pass.  Those before it borrow what a later one   *)
(* owns, and what an earlier one owned need not be released any more when  *)
(* a later one throws.                                                     *)
applicationUsage(es, borrowed, owned, unwindOwned) ==
  LET gamma == OwnedBy(es, owned)
      later(i) == UNION {gamma[j] : j \in i + 1 .. Len(es)}
      earlier(i) == UNION {gamma[j] : j \in 1 .. i - 1}
  IN  [i \in DOMAIN es |->
         Pass(es[i], borrowed \cup later(i), gamma[i], unwindOwned \ earlier(i))]

Application(e, borrowed, owned, unwindOwned, ok) ==
  setUnwind(Annotated(e, applicationUsage(e.kids, borrowed, owned, unwindOwned), ok),
            unwindOwned \ UNION Range(OwnedBy(e.kids, owned)))

(* SLAM, SLAM-DROP: a body owns its parameters and a new reference to each *)
(* captured variable.                                                      *)
fnMethodPass(params, body) ==
  LET fnFresh == Fresh(body) \ params
      used == Fresh(body) \cap params
  IN  dupVars(dropVars(Pass(body, {}, fnFresh \cup used, used), params \ used), fnFresh)

FnPass(e, owned, unwindOwned, ok) ==
  LET methods == [i \in DOMAIN e.kids |-> fnMethodPass(Range(e.names), e.kids[i])]
      fnUsedLocals == (Fresh(e) \ owned) \ {e.of}
  IN  setUnwind(setUnwind(dupVars(Annotated(e, methods, ok), fnUsedLocals), unwindOwned),
                fnUsedLocals)

(* What the rest of a let, after binding i, uses.                          *)
Remainder(e, i) ==
  IF i < Len(e.names) THEN LetFresh(e, i + 1) ELSE Fresh(Last(e.kids))

(* What is left to release when the rest of a let throws.                  *)
UnwindAfter(borrowed, remainderOwned, unwindOwned) ==
  unwindOwned \cap (borrowed \cup remainderOwned)

RECURSIVE BindingsPass(_, _, _, _, _)

(* SBIND, SBIND-DROP: the children of a let, from binding i on.  A name    *)
(* that is not used is dropped by the node that follows: the next binding, *)
(* or the body.                                                            *)
BindingsPass(e, i, borrowed, owned, unwindOwned) ==
  IF i > Len(e.names) THEN <<Pass(Last(e.kids), borrowed, owned, unwindOwned)>>
  ELSE LET x == e.names[i]
           used == {x} \cap Remainder(e, i)
           remainderOwned == owned \cap (Remainder(e, i) \ {x})
           init == Pass(e.kids[i], borrowed \cup remainderOwned,
                        owned \ remainderOwned, unwindOwned)
           rest == BindingsPass(e, i + 1, borrowed, remainderOwned \cup used,
                     UnwindAfter(borrowed, remainderOwned, unwindOwned) \cup used)
       IN  <<init>> \o
           IF used # {} THEN rest
           ELSE IF i < Len(e.names)
                THEN <<[rest[1] EXCEPT !.binding = Change(@, {x}, -1)]>> \o Tail(rest)
                ELSE <<dropVars(rest[1], {x})>>

\* Mutant: a branch keeps the variables that only the other branch uses.
Branch_undropped(e, borrowed, owned, disowned, unwindOwned) ==
  Pass(e, borrowed, owned, unwindOwned \ disowned)

(* A branch of an if, which gives up what only the other branch uses.      *)
BranchPass(e, borrowed, owned, disowned, unwindOwned) ==
  dropVars(Pass(e, borrowed, owned, unwindOwned \ disowned), disowned)

(* SMATCH                                                                  *)
IfPass(e, borrowed, owned, unwindOwned, ok) ==
  LET inBranch == [i \in 2 .. 3 |-> owned \cap Fresh(e.kids[i])]
      inBranches == inBranch[2] \cup inBranch[3]
      inCondition == owned \ inBranches
      branch(i) == BranchPass(e.kids[i], borrowed, inBranch[i], inBranches \ inBranch[i],
                              unwindOwned \ inCondition)
      test == Pass(e.kids[1], borrowed \cup inBranches, inCondition, unwindOwned)
  IN  setUnwind(Annotated(e, <<test, branch(2), branch(3)>>, ok), unwindOwned)

(* throw, instance?, host-interop, quote, const, the-var: the node itself  *)
(* keeps the variables that its child consumes.                            *)
DefaultPass(e, borrowed, owned, unwindOwned, ok) ==
  setUnwind(Annotated(e, [i \in DOMAIN e.kids |->
                            Pass(e.kids[i], borrowed, owned, unwindOwned)], ok),
            unwindOwned)

ApplicationOps == {"invoke", "instance-call", "keyword-invoke", "static-call", "new",
                   "do", "recur", "with-meta", "def", "map", "vector"}

(* -memory-management-pass                                                 *)
Pass(e, borrowed, owned, unwindOwned) ==
  LET ok == Invariants(e, borrowed, owned, unwindOwned) IN
  CASE e.op = "local" -> setUnwind(variableUsage(e, owned, ok), unwindOwned)
    [] e.op \in ApplicationOps -> Application(e, borrowed, owned, unwindOwned, ok)
    [] e.op = "fn" -> FnPass(e, owned, unwindOwned, ok)
    [] e.op = "let" ->
         Annotated(e, BindingsPass(e, 1, borrowed, owned, unwindOwned), ok)
    [] e.op = "if" -> IfPass(e, borrowed, owned, unwindOwned, ok)
    [] OTHER -> DefaultPass(e, borrowed, owned, unwindOwned, ok)
=============================================================================
