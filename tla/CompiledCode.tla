---------------------------- MODULE CompiledCode ----------------------------
(***************************************************************************)
(* A compiled function runs once.  Whatever it calls may return or throw;  *)
(* a throw runs the landing pad of the call and leaves the function.  The  *)
(* question is whether the frontend's decisions (OwnershipPass) and the    *)
(* backend's landing pads (CodeGen) together release every reference       *)
(* exactly once, on every path.                                            *)
(***************************************************************************)
EXTENDS CodeGen

CONSTANTS Functions,   \* what to compile: [form, params, captures, self, types, body]
          MaxObj       \* registers of a function, and so objects it can make

ASSUME CompiledCodeAssumption == MaxObj \in Nat /\ FirstRegister <= MaxObj

H == INSTANCE Heap

VARIABLES fn,          \* the function
          compiled,    \* what remains of the generator: whether its
                       \* assertions held, its stacks at the end, and
                       \* whether a branch was left out that may be selected
          code,        \* the instructions that are left
          heap, val,   \* objects, and the value of each register
          slots,       \* callees that inline caches hold
          status,      \* "running", "returned", "thrown" or "recur"
          results      \* what the function has given to its caller

vars == <<fn, compiled, code, heap, val, slots, status, results>>

Object(kids) == [tag |-> "object", rc |-> 1, kids |-> kids, info |-> <<>>]

Given(f) == {TheString, TheVar, TheRoot}
              \cup (FirstRegister .. FirstRegister + Len(f.params) + Len(f.captures) - 1)

(* The caller gives one reference to each argument, the closure holds the  *)
(* captured variables, and the var holds its root.                         *)
Init ==
  /\ fn \in Functions
  /\ \E g \in {Compile(fn)} :
       /\ ~g.s.rejected
       /\ code = g.s.code
       /\ compiled = [ok |-> g.ok, active |-> g.s.active, links |-> g.s.links,
                      done |-> g.s.resourcesWithCleanup, misjudged |-> g.s.misjudged]
  /\ heap = [a \in H!Addr |->
               IF a \in Given(fn) THEN Object(IF a = TheVar THEN <<TheRoot>> ELSE <<>>)
               ELSE H!Free]
  /\ val = [r \in 0 .. MaxObj |-> IF r \in Given(fn) THEN r ELSE H!Null]
  /\ slots = <<>>
  /\ status = "running"
  /\ results = <<>>

(***************************************************************************)
(* Instructions.                                                           *)
(***************************************************************************)
Changed(h, v, by) ==
  IF by > 0 THEN FoldLeft(H!Retain, h, [i \in 1 .. by |-> v])
  ELSE FoldLeft(H!Release, h, [i \in 1 .. -by |-> v])

(* A landing pad, for the values of the registers.                         *)
Unwind(h, pad) ==
  LET step(g, c) == Changed(g, val[c.r], c.by) IN FoldLeft(step, h, pad)

Args(i) == [k \in DOMAIN i.args |-> val[i.args[k]]]

New(h, a, kids) == [h EXCEPT ![a] = Object(kids)]

(* The objects among the arguments: the others need no reference.          *)
Objects(vs) == SelectSeq(vs, H!IsPtr)

(* What a call that returns does with its arguments, the callees of        *)
(* compiled code being functions of the runtime or compiled code again.    *)
Returns(i) ==
  LET args == Args(i)
      consumed == H!ReleaseAll(heap, args)
      root == heap[TheVar].kids[1]
      result(a) == val' = [val EXCEPT ![i.to] = IF i.to = 0 THEN H!Null ELSE a]
  IN  CASE i.kind \in {"new", "consume", "field"} ->
             /\ heap' = IF i.to = 0 THEN consumed ELSE New(consumed, i.to, <<>>)
             /\ result(i.to)
             /\ UNCHANGED slots
        [] i.kind = "get" ->
             /\ \E found \in BOOLEAN :
                  /\ heap' = IF found THEN New(consumed, i.to, <<>>) ELSE consumed
                  /\ result(IF found THEN i.to ELSE H!Null)
             /\ UNCHANGED slots
        [] i.kind = "hold" ->
             /\ heap' = New(heap, i.to, Objects(args))
             /\ result(i.to)
             /\ UNCHANGED slots
        [] i.kind = "peek" -> result(root) /\ UNCHANGED <<heap, slots>>
        [] i.kind = "deref" ->
             /\ heap' = H!ReleaseAll(H!Retain(heap, root), args)
             /\ result(root)
             /\ UNCHANGED slots
        [] i.kind = "bindRoot" ->
             /\ heap' = H!Release(H!Release([heap EXCEPT ![TheVar].kids[1] = args[2]], root),
                                  TheVar)
             /\ UNCHANGED <<val, slots>>
        [] i.kind = "resetMeta" ->
             /\ heap' = H!ReleaseAll([heap EXCEPT ![TheVar].kids = <<root>> \o Objects(<<args[2]>>)],
                                     Tail(heap[TheVar].kids))
             /\ result(TheVar)
             /\ UNCHANGED slots
        [] i.kind = "lookup" ->
             /\ heap' = H!Retain(heap, args[1])
             /\ slots' = slots \o Objects(args)
             /\ UNCHANGED val
        [] i.kind = "slow path" -> UNCHANGED <<heap, val, slots>>

(* Calls that cannot throw, and those that can do nothing else.            *)
Silent == {"hold", "deref", "get", "field", "bindRoot", "resetMeta"}
MustThrow == {"throw"}

(* Callees that borrow their arguments, when they throw.                   *)
Borrowing == {"peek", "lookup", "slow path"}

Thrown(i) ==
  IF i.kind \in Borrowing THEN heap ELSE H!ReleaseAll(heap, Args(i))

Instruction == Head(code)

CallReturns ==
  /\ status = "running" /\ Instruction.do = "call"
  /\ Instruction.kind \notin MustThrow
  /\ Returns(Instruction)
  /\ code' = Tail(code)
  /\ UNCHANGED <<fn, compiled, status, results>>

CallThrows ==
  /\ status = "running" /\ Instruction.do = "call"
  /\ Instruction.kind \notin Silent
  /\ heap' = Unwind(Thrown(Instruction), Instruction.pad)
  /\ status' = "thrown"
  /\ code' = <<>>
  /\ UNCHANGED <<fn, compiled, val, slots, results>>

CountChanges ==
  /\ status = "running" /\ Instruction.do = "count"
  /\ heap' = Changed(heap, val[Instruction.r], Instruction.by)
  /\ code' = Tail(code)
  /\ UNCHANGED <<fn, compiled, val, slots, status, results>>

Branches ==
  /\ status = "running" /\ Instruction.do = "branch"
  /\ \E way \in 1 .. 2 :
       /\ Instruction.test > 0 => (way = 1 <=> val[Instruction.test] = H!Null)
       /\ Instruction.test < 0 => way = 1
       /\ code' = Instruction.ways[way] \o Tail(code)
  /\ UNCHANGED <<fn, compiled, heap, val, slots, status, results>>

Moves ==
  /\ status = "running" /\ Instruction.do = "move"
  /\ val' = [val EXCEPT ![Instruction.to] = val[Instruction.from]]
  /\ code' = Tail(code)
  /\ UNCHANGED <<fn, compiled, heap, slots, status, results>>

ReturnsToCaller ==
  /\ status = "running" /\ Instruction.do = "return"
  /\ status' = "returned"
  /\ results' = Objects(<<val[Instruction.r]>>)
  /\ code' = <<>>
  /\ UNCHANGED <<fn, compiled, heap, val, slots>>

Recurs ==
  /\ status = "running" /\ Instruction.do = "recur"
  /\ status' = "recur"
  /\ results' = Objects(Args(Instruction))
  /\ code' = <<>>
  /\ UNCHANGED <<fn, compiled, heap, val, slots>>

Next == CallReturns \/ CallThrows \/ CountChanges \/ Branches \/ Moves
          \/ ReturnsToCaller \/ Recurs

Spec == Init /\ [][Next]_vars

-----------------------------------------------------------------------------
TypeOK ==
  /\ status \in {"running", "returned", "thrown", "recur"}
  /\ \A r \in DOMAIN val : val[r] \in H!Addr \cup {H!Null}
  /\ status = "running" => code # <<>>
  /\ \A a \in H!Addr : heap[a].tag \in {"free", "object"}

(* The references that there should be to an object: those of the other    *)
(* objects, of the caches, of the caller, and of the owners that the       *)
(* function knows nothing of.                                              *)
Captured(f) == {FirstRegister + Len(f.params) + i - 1 : i \in DOMAIN f.captures}

Permanent(f) == {TheString, TheVar} \cup Captured(f)

Expected(a) ==
  H!Times(a, H!Refs(heap)) + H!Times(a, slots) + H!Times(a, results)
    + IF a \in Permanent(fn) THEN 1 ELSE 0

Balanced == \A a \in H!Addr : heap[a].rc = Expected(a)

(* No object that has been freed is retained or released: codegen emits no *)
(* use of a variable after the node that the pass made its owner.          *)
NoUseAfterFree == \A a \in H!Addr : heap[a].tag = "free" => heap[a].rc = 0

(* When a function returns, or calls itself with recur, each argument it   *)
(* was given, each object it made and each variable it captured has        *)
(* exactly the references that are left, on every path through it.  The    *)
(* pass has kept the invariants that it asserts of borrowed and owned      *)
(* variables, and every guard that a node opened is closed again.          *)
ReturnsBalanced ==
  /\ status \in {"returned", "recur"} => Balanced
  /\ compiled.ok
  /\ compiled.active = <<>> /\ compiled.links = <<>> /\ compiled.done = 0

(* The same when it leaves with an exception, whichever call throws it:    *)
(* the landing pad releases what the callee did not take.  (The references *)
(* that fn-method makes to the captured variables are not in its unwind    *)
(* list, and an exception leaks them.)                                     *)
UnwindsBalanced ==
  status = "thrown" => \A a \in H!Addr \ Captured(fn) : heap[a].rc = Expected(a)

(* A branch of an if that IfNode leaves out at compile time, from the type *)
(* that getType expects of the test, is one that no value of the test      *)
(* selects: prediction and generated code agree through every combination  *)
(* of nodes.                                                               *)
TestsDecide == ~compiled.misjudged
=============================================================================
