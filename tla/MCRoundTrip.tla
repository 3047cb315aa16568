---------------------------- MODULE MCRoundTrip ----------------------------
(***************************************************************************)
(* Configs over keys of up to three levels, by their own hierarchy or by   *)
(* that of another Config.  MCSmall has every set of entries; MCNested has *)
(* arrays that fit into a line and arrays that do not, empty, side by side *)
(* and three deep; MCNulls has null values; MCUnreliable has values that   *)
(* are longer than one character, and is written to streams that fail.     *)
(***************************************************************************)
EXTENDS Layout, Values

Smaller(c, d) == c = "a" /\ d = "b"

\* Lexicographic order of the keys over one-character names.
KeyBefore(k, l) ==
  \/ Len(k) < Len(l) /\ Extends(l, k)
  \/ \E n \in 1 .. Len(k) :
       /\ n <= Len(l) /\ Level(k, n - 1) = Level(l, n - 1)
       /\ Smaller(k[n], l[n])

One   == IntData(<<"1">>)
Yes   == BoolData(TRUE)
Odd   == StringData(<<"\"", "/", "\\">>)
Empty == ArrayData(<<>>)
Short == ArrayData(<<One>>)
Long  == ArrayData(<<Odd, BoolData(FALSE)>>)
List  == ArrayData(<<One, One, Short, Yes, NotFinite>>)
Pair  == ArrayData(<<Long, Long, Short, Empty>>)
Deep  == ArrayData(<<ArrayData(<<Pair, Short>>), Long, One>>)
Whole == IntData(<<"-", "1", "2">>)
Float == FloatData(<<"1", ".", "0", "5">>)
Mixed == ArrayData(<<Whole, Yes, ArrayData(<<Odd>>)>>)

MCKeys == {<<"a">>, <<"a", "a">>, <<"a", "a", "b">>, <<"a", "b">>, <<"b">>}

MCSmall ==
  UNION {[ks -> {One, Yes}] : ks \in UNION {kSubset(n, MCKeys) : n \in 0 .. 3}}
    \union UNION {[ks -> {Odd, List, NotFinite}] : ks \in kSubset(2, MCKeys \ {<<"a", "b">>})}
MCNested ==
  [MCKeys \ {<<"a">>} -> {One, Long}]
    \union {[k \in {<<"a">>, <<"a", "a">>, <<"a", "b">>} |->
               IF k = <<"a">> THEN v ELSE IF k = <<"a", "b">> THEN w ELSE Short] :
              v \in {Odd, Empty, Pair, Deep}, w \in {Deep, List}}
MCUnreliable ==
  [{<<"a", "a">>, <<"b">>} -> {Float, Odd, Mixed}]
    \union [{<<"a", "a">>, <<"a", "b">>, <<"b">>} -> {Whole}]
    \union [{<<"a">>, <<"b">>} -> {NullData, One}]

\* A Config whose entries were moved by merge(Config&&) holds null values; an
\* array may hold what the program has moved its elements from.
MCNulls ==
  [{<<"a">>, <<"a", "b">>} -> {NullData, ArrayData(<<One, NullData>>),
                               ArrayData(<<Short, ArrayData(<<NullData>>), NotFinite>>), One}]

MCConfigs == MCSmall \union MCNulls \union MCNested \union MCUnreliable

\* The flag floatNoFail matters to values that are not finite only.
MCRules ==
  [expandKeys : BOOLEAN, minimized : BOOLEAN, floatNoFail : {TRUE},
   forceInlineArrays : {FALSE}, indentWithTabs : {TRUE},
   indentationSize : {1}, maxInlineArrayLength : {8}]
    \union
  [expandKeys : {FALSE}, minimized : {FALSE}, floatNoFail : {FALSE},
   forceInlineArrays : BOOLEAN, indentWithTabs : {FALSE},
   indentationSize : {2}, maxInlineArrayLength : {14}]
    \union
  [expandKeys : {TRUE}, minimized : {TRUE}, floatNoFail : {FALSE},
   forceInlineArrays : {FALSE}, indentWithTabs : {FALSE},
   indentationSize : {2}, maxInlineArrayLength : {14}]

Other == {<<"a", "a", "a">>, <<"a", "b">>}
MCHierarchies == {TreeOf(LevelsOf(Other))}

HoldsNull(value) == Holds(value, NullData)

RECURSIVE FiniteValue(_, _)
FiniteValue(r, v) ==
  IF v = NotFinite THEN FloatData(<<"0", ".", "0">>)
  ELSE [v EXCEPT !.elems = [i \in 1 .. Len(@) |-> FiniteValue(r, @[i])]]
=============================================================================
