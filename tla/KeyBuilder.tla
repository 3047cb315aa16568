----------------------------- MODULE KeyBuilder -----------------------------
(***************************************************************************)
(* Key objects (src/src/apcf.cpp): two of them are built from lists of     *)
(* names, copied and cut off at a period, and what the functions of Key    *)
(* and KeySpan return for them is compared with what a key is, a sequence  *)
(* of names with periods between them.                                     *)
(***************************************************************************)
EXTENDS Keys, SequencesExt

CONSTANTS Names,      \* the strings a client puts into initializer lists
          MaxNames    \* bound: the longest initializer list

ASSUME NamesAssumption == Names \subseteq Seq(STRING)
ASSUME MaxNamesAssumption == MaxNames \in Nat

VARIABLES key, other, \* two Key objects
          thrown      \* the last constructor threw InvalidKey

vars == <<key, other, thrown>>

-----------------------------------------------------------------------------
(* Building them.                                                          *)

\* A list of names with periods between them.
Join(list) ==
  FlattenSeq([i \in 1 .. Len(list) |->
                IF i = 1 THEN list[i] ELSE <<".">> \o list[i]])

Init == key = <<>> /\ other = <<>> /\ thrown = FALSE

\* Mutant: the names are checked one by one.
FromListByNames(list) ==
  /\ thrown' = \E i \in 1 .. Len(list) : ~ IsKeyValid(list[i])
  /\ key' = IF thrown' THEN key ELSE Join(list)
  /\ UNCHANGED other

\* key = Key { names... }: the object is assigned unless the constructor throws.
FromList(list) ==
  /\ thrown' = (FindKeyError(Join(list)) < Len(Join(list)))
  /\ key' = IF thrown' THEN key ELSE Join(list)
  /\ UNCHANGED other

\* other = key
Copy ==
  /\ other # key
  /\ other' = key /\ thrown' = FALSE
  /\ UNCHANGED key

\* key = Key(KeySpan(key, end)), as putKey does at the periods of a key.
Cut(end) ==
  /\ key[end + 1] = "."
  /\ key' = SubSeq(key, 1, end) /\ thrown' = FALSE
  /\ UNCHANGED other

Lists == BoundedSeq(Names, MaxNames)

Next ==
  \/ \E list \in Lists : FromList(list)
  \/ Copy
  \/ \E end \in 1 .. Len(key) - 1 : Cut(end)

Spec == Init /\ [][Next]_vars

-----------------------------------------------------------------------------
(* What a key is: names with a period between each two.                    *)

\* The places <<b, e>> of a text, from position b to position e, that periods
\* divide it into.  Those of an empty part are b and b - 1.
IsPart(k, b, e) ==
  /\ b <= e + 1
  /\ b = 1 \/ k[b - 1] = "."
  /\ e = Len(k) \/ k[e + 1] = "."
  /\ \A i \in b .. e : k[i] # "."

PartsOf(k) ==
  {place \in (1 .. Len(k) + 1) \X (0 .. Len(k)) : IsPart(k, place[1], place[2])}

Part(k, place) == SubSeq(k, place[1], place[2])

IsName(str) ==
  str # <<>> /\ \A i \in 1 .. Len(str) : IsAlphanum(str[i]) \/ str[i] \in {"_", "-"}

\* The text is a sequence of names: the syntax of keys in src/README.md.
IsSpelled(str) == \A place \in PartsOf(str) : IsName(Part(str, place))

\* A constructor throws InvalidKey exactly for lists that do not spell a
\* sequence of names, though a name of the list may hold periods itself, and
\* then the object it was to be assigned to is as it was; else that is what the
\* list spells.  The one exception is the empty key, which an empty list makes
\* and so does a list of one empty name: src/README.md:52 and 67 say that it is
\* not a valid key, the constructors and isKeyValid that it is.
ThrowsUnlessNames ==
  [][\A list \in Lists : FromList(list) =>
       LET str == Join(list)
       IN  IF str = <<>> \/ IsSpelled(str) THEN ~ thrown' /\ key' = str
                                          ELSE thrown' /\ key' = key]_vars

\* Whatever is built, copied or cut off at a period is a key, as the assertion
\* in the constructor of KeySpan has it; basename and getDepth agree with its
\* names, also for names of one character at either end.  ancestor never
\* shortens a key: every key is its own parent, at every offset.  The name of
\* the function suggests otherwise, no document does.
PartsAreNames ==
  \A k \in {key, other} \ {<<>>} :
    /\ IsSpelled(k)
    /\ \E place \in PartsOf(k) : place[2] = Len(k) /\ Basename(k) = Part(k, place)
    /\ GetDepth(k) = Cardinality(PartsOf(k))
    /\ \A offset \in 0 .. Len(k) : Ancestor(k, offset) = k

\* A KeySpan compares as the Key it is a part of: the order and the equality
\* of spans, written with strncmp, are those of the map's keys, and the order
\* is total.
SpansCompareAsKeys ==
  /\ SpanBefore(key, other) <=> KeyBefore(key, other)
  /\ SpanEqual(key, other) <=> key = other
  /\ KeyBefore(key, other) \/ KeyBefore(other, key) \/ key = other
  /\ ~ (KeyBefore(key, other) /\ KeyBefore(other, key))
=============================================================================
