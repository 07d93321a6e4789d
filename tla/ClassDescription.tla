-------------------------- MODULE ClassDescription --------------------------
(***************************************************************************)
(* How a file of class descriptions is read (backend/tools/EdnParser.cpp). *)
(* A file is a sequence of class maps; everything else in it, and the      *)
(* order of a C++ hash map, is left to whoever uses these operators.       *)
(*                                                                         *)
(*   class map  [name, alias, type, extends, single, implements, fields,   *)
(*               statics, methods, constructors]                           *)
(*   signature  [form, kind, ctx, symbol, fn, arities, args, returns]      *)
(*                                                                         *)
(* implements is a function from names of protocols to functions from      *)
(* names of methods to sequences of signatures, and so on.  A signature is *)
(* a "vector" of arguments or a "map"; fn is its function object or Null.  *)
(* extends is a sequence of names, single if it was not put in a vector.   *)
(* None, and the type 0, stand for a missing entry.                        *)
(***************************************************************************)
EXTENDS ObjectTypeSet, Heap

None == "none"

(* What a constructor of the parser returns when it throws.                *)
Malformed == [malformed |-> TRUE]

-----------------------------------------------------------------------------
(* TemporaryClassData::scanMetadata: classes without :object-type are      *)
(* numbered from 1000 on, in every file again.                             *)
ClassId(file, i) ==
  IF file[i].type # 0 THEN file[i].type
  ELSE FirstClassId + Cardinality({j \in 1 .. i - 1 : file[j].type = 0})

DuplicateIds(file) ==
  \E i, j \in DOMAIN file : i # j /\ ClassId(file, i) = ClassId(file, j)

(* classesByName: of several classes with a name or alias the last counts. *)
KnownNames(file) == UNION {{file[i].name, file[i].alias} : i \in DOMAIN file} \ {None}
Named(file, key) ==
  CHOOSE i \in DOMAIN file :
    /\ key \in {file[i].name, file[i].alias}
    /\ \A j \in i + 1 .. Len(file) : key \notin {file[j].name, file[j].alias}

(* The classes that some name leads to.                                    *)
Described(file) ==
  SelectSeq([i \in DOMAIN file |-> i],
            LAMBDA i : i \in {Named(file, key) : key \in KnownNames(file)})

-----------------------------------------------------------------------------
(* The type that a keyword or name of a signature stands for.              *)
IsKnown(file, key) == key \in {"any", "nil"} \cup KnownNames(file)
TypeNamed(file, key) ==
  CASE key = "any" -> dynamicType
    [] key = "nil" -> Determined(nilType)
    [] OTHER -> LET t == ClassId(file, Named(file, key))
                IN  IF t = objectRootType THEN dynamicType ELSE Determined(t)

IsContext(file, key) ==
  key \in KnownNames(file) /\ ClassId(file, Named(file, key)) = executionContextType

(* Where :this has to stand.                                               *)
ThisIndex(sig) == IF sig.form = "map" /\ sig.ctx THEN 2 ELSE 1

LegalArg(file, sig, i, isInstance) ==
  LET key == sig.args[i] IN
  \/ key = "this" /\ isInstance /\ i = ThisIndex(sig)
  \/ key \in {"any", "nil"}
  \/ IsContext(file, key) /\ i = 1 /\ (sig.form = "map" => sig.ctx)
  \/ key \in KnownNames(file) /\ ~IsContext(file, key)
     /\ ~(sig.form = "map" /\ sig.ctx /\ i = 1)

(* A method that is called on an object takes it as an argument.           *)
TakesThis(sig) == "this" \in Range(sig.args)

(* The checks of IntrinsicDescription's constructor.                       *)
LegalSignature(file, sig, isInstance) ==
  /\ sig.form = "map" =>
       /\ sig.kind \in {"call", "intrinsic", "clojure-function"}
       /\ sig.ctx => sig.kind = "call"
       /\ sig.fn # Null => sig.kind = "clojure-function"
       /\ sig.fn # Null \/ sig.symbol # None
       /\ sig.returns = None \/ IsKnown(file, sig.returns)
  /\ \A i \in DOMAIN sig.args : LegalArg(file, sig, i, isInstance)
  /\ isInstance => TakesThis(sig)

ArgType(file, key, thisType) ==
  IF key # "this" THEN TypeNamed(file, key)
  ELSE IF determinedType(thisType) = objectRootType THEN dynamicType ELSE thisType

Intrinsic(file, sig, thisType, isInstance, defaultReturnType) ==
  LET args == SelectSeq(sig.args, LAMBDA key : ~IsContext(file, key))
      returns == sig.form = "map" /\ sig.returns # None
  IN  IF ~LegalSignature(file, sig, isInstance) THEN Malformed
      ELSE [argTypes |-> [i \in DOMAIN args |-> ArgType(file, args[i], thisType)],
            returnType |-> IF returns THEN TypeNamed(file, sig.returns) ELSE defaultReturnType,
            returnsProvided |-> returns, isInstance |-> isInstance,
            symbol |-> sig.symbol, fn |-> sig.fn]

(* expandAndAdd: a Clojure function stands for as many overloads as it has *)
(* arities, and its own :args are not used.                                *)
Expanded(id, arities) ==
  IF id = Malformed \/ id.fn = Null THEN <<id>>
  ELSE [i \in DOMAIN arities |->
         [id EXCEPT !.argTypes = [j \in 1 .. arities[i] |-> dynamicType]]]

Overloads(file, sig, thisType, isInstance) ==
  Expanded(Intrinsic(file, sig, thisType, isInstance, dynamicType), sig.arities)

(* parseIntrinsics, for a map from names to signatures.                    *)
parseIntrinsics(file, fns, thisType, isInstance) ==
  [name \in DOMAIN fns |->
    FlattenSeq([i \in DOMAIN fns[name] |-> Overloads(file, fns[name][i], thisType, isInstance)])]

Broken(fns) == \E name \in DOMAIN fns : Malformed \in Range(fns[name])

(* parseConstructorDescriptions: a constructor returns its class.          *)
parseConstructorDescriptions(file, sigs, thisType) ==
  LET checked(id) ==
        IF id # Malformed /\ id.returnsProvided /\ ~Same(id.returnType, thisType)
        THEN Malformed ELSE id
  IN  [i \in DOMAIN sigs |-> checked(Intrinsic(file, sigs[i], thisType, FALSE, thisType))]

-----------------------------------------------------------------------------
(* ClassDescription's constructor, which throws at the first part that is  *)
(* not as it should be: badEarly tells those before the static fields.     *)
Checked(desc) ==
  LET early == \E p \in DOMAIN desc.implements : Broken(desc.implements[p])
  IN  [desc EXCEPT !.badEarly = early,
                   !.bad = early \/ Broken(desc.staticFns) \/ Broken(desc.instanceFns)
                             \/ Malformed \in Range(desc.constructors)]

DescriptionOf(file, c, thisType) ==
  Checked([name |-> c.name, type |-> thisType, parents |-> c.extends,
           parentName |-> IF c.single THEN c.extends[1] ELSE None,
           implements |-> [p \in DOMAIN c.implements |->
                            parseIntrinsics(file, c.implements[p], thisType, TRUE)],
           staticFields |-> c.fields,
           staticFns |-> parseIntrinsics(file, c.statics, thisType, FALSE),
           instanceFns |-> parseIntrinsics(file, c.methods, thisType, TRUE),
           constructors |-> parseConstructorDescriptions(file, c.constructors, thisType),
           badEarly |-> FALSE, bad |-> FALSE])

Description(file, i) ==
  DescriptionOf(file, file[i],
                Determined(IF file[i].alias = "nil" THEN nilType ELSE ClassId(file, i)))

(* The objects a description owns: the values of its static fields, and    *)
(* the function of each overload.                                          *)
Functions(fns) ==
  LET names == SetToSeq(DOMAIN fns)
  IN  FlattenSeq([k \in DOMAIN names |->
        [i \in DOMAIN fns[names[k]] |-> fns[names[k]][i].fn]])

Owned(desc) ==
  LET protocols == SetToSeq(DOMAIN desc.implements) IN
  [i \in DOMAIN desc.staticFields |-> desc.staticFields[i].value]
  \o Functions(desc.staticFns) \o Functions(desc.instanceFns)
  \o FlattenSeq([k \in DOMAIN protocols |-> Functions(desc.implements[protocols[k]])])
  \o [i \in DOMAIN desc.constructors |-> desc.constructors[i].fn]

(* The values and functions in a file.                                     *)
FileValues(file) ==
  FlattenSeq([i \in DOMAIN file |->
    LET protocols == SetToSeq(DOMAIN file[i].implements) IN
    [k \in DOMAIN file[i].fields |-> file[i].fields[k].value]
    \o Functions(file[i].statics) \o Functions(file[i].methods)
    \o FlattenSeq([k \in DOMAIN protocols |-> Functions(file[i].implements[protocols[k]])])
    \o [k \in DOMAIN file[i].constructors |-> file[i].constructors[k].fn]])

(* buildClasses: a description of every class that some name leads to.     *)
buildClasses(file) ==
  [duplicateIds |-> DuplicateIds(file), values |-> FileValues(file),
   descs |-> [k \in DOMAIN Described(file) |-> Description(file, Described(file)[k])]]

-----------------------------------------------------------------------------
\* Mutant: the overloads of the extension come first.
JoinedFirst(old, new) ==
  [name \in DOMAIN old \cup DOMAIN new |->
    (IF name \in DOMAIN new THEN new[name] ELSE <<>>) \o
    (IF name \in DOMAIN old THEN old[name] ELSE <<>>)]

(* ClassDescription::merge: overloads are appended to those there are, a   *)
(* static field keeps its index or gets the next one.  Parents, instance   *)
(* fields and constructors of the extension are not used.                  *)
Joined(old, new) ==
  [name \in DOMAIN old \cup DOMAIN new |->
    (IF name \in DOMAIN old THEN old[name] ELSE <<>>) \o
    (IF name \in DOMAIN new THEN new[name] ELSE <<>>)]

StaticFieldIndex(desc, field) ==
  LET is == {i \in DOMAIN desc.staticFields : desc.staticFields[i].name = field}
  IN  IF is = {} THEN 0 ELSE CHOOSE i \in is : TRUE

SetStaticField(fields, field) ==
  LET is == {i \in DOMAIN fields : fields[i].name = field.name}
  IN  IF is = {} THEN Append(fields, field) ELSE [fields EXCEPT ![CHOOSE i \in is : TRUE] = field]

NoFns == [name \in {} |-> <<>>]

merge(old, new) ==
  [old EXCEPT
    !.staticFields = FoldLeft(SetStaticField, @, new.staticFields),
    !.staticFns = Joined(@, new.staticFns),
    !.instanceFns = Joined(@, new.instanceFns),
    !.implements =
      [p \in DOMAIN @ \cup DOMAIN new.implements |->
        Joined(IF p \in DOMAIN @ THEN @[p] ELSE NoFns,
               IF p \in DOMAIN new.implements THEN new.implements[p] ELSE NoFns)]]
=============================================================================
