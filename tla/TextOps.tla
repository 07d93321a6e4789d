------------------------------ MODULE TextOps ------------------------------
(***************************************************************************)
(* Strings, string builders and symbols as functions on heaps              *)
(* (backend/runtime/String.c, StringBuilder.c, Symbol.c).                  *)
(*                                                                         *)
(* A static or dynamic string has its characters; a compound string owns a *)
(* vector of such strings, its pieces.  A text is a sequence of character  *)
(* codes.  A symbol owns its namespace (or Null), its name and its         *)
(* metadata; a builder owns one string.                                    *)
(***************************************************************************)
EXTENDS CollectionOps, Bitwise

EMPTY_VECTOR == 4
Slash == 47

(* String_computeHash adds up a mixture of every character, so that the    *)
(* order does not matter and hashes of pieces can be added.                *)
computeHash(text) == FoldLeft(LAMBDA hash, c : hash + c, 5381, text)

(* The hash of a string made by replace is what the memory held before.    *)
Unset == -1

IsCompound(h, s) == h[s].info.spec = "compound"
Characters(h, s) == h[s].info.chars
StringCount(h, s) == h[s].info.count
StringHash(h, s) == h[s].info.hash
getVec(h, s) == h[s].kids[1]

NewString(h, spec, text, hash) ==
  Alloc(h, "string", <<>>, [spec |-> spec, count |-> Len(text), hash |-> hash, chars |-> text])

String_createStatic(h, text) == NewString(h, "static", text, computeHash(text))
String_createDynamicStr(h, text) == NewString(h, "dynamic", text, computeHash(text))

Pieces(h, s) == IF IsCompound(h, s) THEN Contents(h, getVec(h, s)) ELSE <<s>>

RECURSIVE Joined(_, _)
Joined(h, pieces) ==
  IF pieces = <<>> THEN <<>> ELSE Characters(h, Head(pieces)) \o Joined(h, Tail(pieces))

(* What a string says.                                                     *)
Text(h, s) == Joined(h, Pieces(h, s))

-----------------------------------------------------------------------------
(* One piece after the other goes into the vector v, counted once more if  *)
(* its string keeps it.                                                    *)
RECURSIVE AddPieces(_, _, _)
AddPieces(v, pieces, keep) ==
  IF pieces = <<>> THEN v
  ELSE LET h == IF keep THEN Retain(v.h, Head(pieces)) ELSE v.h
       IN  AddPieces(conj(h, v.r, Head(pieces)), Tail(pieces), keep)

(* String_createCompound: the vector of the left string, or a new one,     *)
(* with the right string or its pieces at the end.                         *)
LeftVector(h, left) ==
  IF IsCompound(h, left)
  THEN [h |-> Release(Retain(h, getVec(h, left)), left), r |-> getVec(h, left)]
  ELSE AddPieces([h |-> Retain(h, EMPTY_VECTOR), r |-> EMPTY_VECTOR], <<left>>, FALSE)

WithRight(v, right) ==
  IF ~IsCompound(v.h, right) THEN AddPieces(v, <<right>>, FALSE)
  ELSE [AddPieces(v, Pieces(v.h, right), TRUE) EXCEPT !.h = Release(@, right)]

JoinedHash(left, right) ==
  IF Unset \in {left, right} THEN Unset ELSE left + right - computeHash(<<>>)

String_concat(h, left, right) ==
  LET made(v) ==
        Alloc(v.h, "string", <<v.r>>,
              [spec |-> "compound", chars |-> <<>>,
               count |-> StringCount(h, left) + StringCount(h, right),
               hash |-> JoinedHash(StringHash(h, left), StringHash(h, right))])
  IN  made(WithRight(LeftVector(h, left), right))

(* String_compactify: one dynamic string in place of a compound one.       *)
String_compactify(h, self) ==
  LET copied(out) == [h |-> Release(out.h, self), r |-> out.r]
  IN  IF ~IsCompound(h, self) THEN [h |-> h, r |-> self]
      ELSE copied(String_createDynamicStr(h, Text(h, self)))

-----------------------------------------------------------------------------
(* The iterator.  Characters end with a zero; the count of the piece is    *)
(* unsigned, so that an empty piece has no last character.                 *)
StringIterator(h, s, vectorIterator, block) ==
  [index |-> 0, inBlock |-> 0, length |-> StringCount(h, block), current |-> s,
   iterator |-> vectorIterator, block |-> block]

String_iterator(h, s) ==
  IF ~IsCompound(h, s) THEN StringIterator(h, s, <<>>, s)
  ELSE LET it == PersistentVector_iterator(h, getVec(h, s))
       IN  StringIterator(h, s, it, PersistentVector_iteratorGet(h, it))

String_iteratorGet(h, it) == At(Append(Characters(h, it.block), 0), it.inBlock)

(* At the end the iterator stays where it is and the answer is NULL.       *)
AtEnd(h, it) ==
  /\ it.length # 0 /\ it.inBlock >= it.length - 1
  /\ StringCount(h, it.current) = it.index + 1

String_iteratorNext(h, it) ==
  LET into(next, child) ==
        [it EXCEPT !.index = @ + 1, !.inBlock = 0, !.iterator = next,
                   !.length = StringCount(h, child), !.block = child]
      from(next) == into(next, PersistentVector_iteratorGet(h, next))
  IN  IF it.length = 0 \/ it.inBlock < it.length - 1
      THEN [it EXCEPT !.index = @ + 1, !.inBlock = @ + 1]
      ELSE IF AtEnd(h, it) THEN it
      ELSE from(PersistentVector_iteratorNext(h, getVec(h, it.current), it.iterator))

(* The iterator after n steps, and the characters of the first n + 1       *)
(* positions as equals sees them, zero after the end.                      *)
RECURSIVE After(_, _, _)
After(h, s, n) ==
  IF n = 0 THEN String_iterator(h, s) ELSE String_iteratorNext(h, After(h, s, n - 1))

ReadChar(h, s, i) ==
  IF i > 0 /\ AtEnd(h, After(h, s, i - 1)) THEN 0 ELSE String_iteratorGet(h, After(h, s, i))

String_equals(h, s, t) ==
  LET n == StringCount(h, s)
      read(u) == [i \in 0 .. n |-> ReadChar(h, u, i)]
      agree(left, right) == \A i \in 0 .. n : (\A j \in 0 .. i : left[j] # 0) => left[i] = right[i]
  IN  /\ n = StringCount(h, t)
      /\ IF ~IsCompound(h, s) /\ ~IsCompound(h, t) THEN Characters(h, s) = Characters(h, t)
         ELSE agree(read(s), read(t))

String_charAt(h, self, index) ==
  IF index >= StringCount(h, self) THEN Says(Release(h, self), Throws)
  ELSE Says(Release(h, self), String_iteratorGet(h, After(h, self, index)))

String_subs(h, self, start, end) ==
  LET text == [i \in 1 .. end - start |-> String_iteratorGet(h, After(h, self, start + i - 1))]
      cut(res) == [h |-> Release(res.h, self), r |-> res.r]
  IN  IF start > end \/ end > StringCount(h, self) THEN Says(Release(h, self), Throws)
      ELSE cut(String_createDynamicStr(h, text))

-----------------------------------------------------------------------------
(* String_indexOfFrom: both strings are compacted only to be searched.     *)
Occurrences(text, target, from) ==
  {i \in from .. Len(text) - Len(target) : SubSeq(text, i + 1, i + Len(target)) = target}

String_indexOfFrom(h, self, other, fromIndex) ==
  LET n == StringCount(h, self)
      m == StringCount(h, other)
      from == IF fromIndex < 0 THEN 0 ELSE fromIndex
      first(found) == IF found = {} THEN -1 ELSE Min(found)
      search(source, target) ==
        Says(ReleaseAll(target.h, <<source.r, target.r>>),
             first(Occurrences(Characters(target.h, source.r), Characters(target.h, target.r), from)))
      in(source) == search(source, String_compactify(source.h, other))
  IN  IF fromIndex >= n THEN Says(ReleaseAll(h, <<self, other>>), IF m = 0 THEN n ELSE -1)
      ELSE IF m = 0 THEN Says(ReleaseAll(h, <<self, other>>), from)
      ELSE in(String_compactify(h, self))

(* String_replace, for one character by another.                           *)
String_replace(h, self, target, replacement) ==
  LET c == String_iteratorGet(h, String_iterator(h, target))
      d == String_iteratorGet(h, String_iterator(h, replacement))
      changed(text) == [i \in DOMAIN text |-> IF text[i] = c THEN d ELSE text[i]]
      made(compact, out) == [h |-> ReleaseAll(out.h, <<compact.r, target, replacement>>), r |-> out.r]
      copy(compact) ==
        made(compact, NewString(compact.h, "dynamic", changed(Characters(compact.h, compact.r)), Unset))
  IN  IF target = replacement \/ String_equals(h, target, replacement)
      THEN [h |-> ReleaseAll(h, <<target, replacement>>), r |-> self]
      ELSE IF StringCount(h, target) # 1 \/ StringCount(h, replacement) # 1
      THEN Says(ReleaseAll(h, <<self, target, replacement>>), Throws)
      ELSE copy(String_compactify(h, self))

-----------------------------------------------------------------------------
(* Builders are updated in place, whoever has them.                        *)
StringBuilder_create(h, str) == Alloc(h, "builder", <<str>>, <<>>)

Builds(h, self, string) == [h |-> [string.h EXCEPT ![self].kids = <<string.r>>], r |-> self]

StringBuilder_append(h, self, str) == Builds(h, self, String_concat(h, h[self].kids[1], str))

StringBuilder_toString(h, self) ==
  LET handed(compact, res) == [h |-> Release(Retain(compact, res), self), r |-> res]
      built(b) == handed(b.h, b.h[self].kids[1])
  IN  built(Builds(h, self, String_compactify(h, h[self].kids[1])))

-----------------------------------------------------------------------------
(* Symbols.                                                                *)
NsOf(h, sym) == h[sym].kids[1]
NameOf(h, sym) == h[sym].kids[2]
SymbolMeta(h, sym) == h[sym].kids[3]

(* Symbol_init splits at the first slash, unless the string is one.        *)
SplitAt(h, string) ==
  LET n == StringCount(h, string)
      at == {i \in 0 .. n - 1 : String_iteratorGet(h, After(h, string, i)) = Slash}
  IN  IF n <= 1 \/ at = {} THEN -1 ELSE Min(at)

Symbol_createWithMeta(h, string, meta) ==
  LET n == StringCount(h, string)
      pair(ns, name) == Alloc(name.h, "symbol", <<ns.r, name.r, meta>>, <<>>)
      after(ns, k) == pair(ns, String_subs(ns.h, string, k + 1, n))
      split(k) == IF k = -1 THEN Alloc(h, "symbol", <<Null, string, meta>>, <<>>)
                  ELSE after(String_subs(Retain(h, string), string, 0, k), k)
  IN  split(SplitAt(h, string))

Symbol_create(h, string) == Symbol_createWithMeta(h, string, Nil)

Symbol_withMeta(h, self, meta) ==
  LET ns == NsOf(h, self)
      name == NameOf(h, self)
      made(new) == [new EXCEPT !.h[new.r].kids[1] = IF ns # Null THEN ns ELSE @]
  IN  IF IsReusable(h, self)
      THEN [h |-> [Release(h, SymbolMeta(h, self)) EXCEPT ![self].kids[3] = meta], r |-> self]
      ELSE made(Symbol_createWithMeta(Release(RetainAll(h, <<name, ns>>), self), name, meta))

Symbol_getName(h, self) ==
  [h |-> Release(Retain(h, NameOf(h, self)), self), r |-> NameOf(h, self)]

Symbol_getMeta(h, self) ==
  [h |-> Release(Retain(h, SymbolMeta(h, self)), self), r |-> SymbolMeta(h, self)]

Symbol_toString(h, self) ==
  LET whole(s) == [h |-> Release(s.h, self), r |-> s.r]
      withNs(slash) == String_concat(slash.h, NsOf(h, self), slash.r)
      withName(front) == whole(String_concat(front.h, front.r, NameOf(h, self)))
      kept == RetainAll(h, <<NsOf(h, self), NameOf(h, self)>>)
  IN  IF NsOf(h, self) = Null THEN Symbol_getName(h, self)
      ELSE withName(withNs(String_createStatic(kept, <<Slash>>)))

Symbol_equals(h, s, t) ==
  \/ s = t
  \/ /\ (NsOf(h, s) = Null) = (NsOf(h, t) = Null)
     /\ NsOf(h, s) # Null => String_equals(h, NsOf(h, s), NsOf(h, t))
     /\ String_equals(h, NameOf(h, s), NameOf(h, t))

Symbol_hash(h, s) ==
  IF NsOf(h, s) = Null THEN StringHash(h, NameOf(h, s))
  ELSE StringHash(h, NameOf(h, s)) ^^ StringHash(h, NsOf(h, s))

SymbolText(h, s) ==
  (IF NsOf(h, s) = Null THEN <<>> ELSE Text(h, NsOf(h, s)) \o <<Slash>>) \o Text(h, NameOf(h, s))
=============================================================================
