------------------------------- MODULE Values -------------------------------
(***************************************************************************)
(* How the serializer writes a value (serializeDataRecursive and           *)
(* serializeArray of src/src/apcf_serialize.cpp).  A number is written as  *)
(* the characters that stand for it.                                       *)
(***************************************************************************)
EXTENDS Grammar, SerializationState, SequencesExt

\* Stands for the floating point values that have no digits.
NotFinite == FloatData(<<"NaN">>)

RECURSIVE Leaves(_)
\* A value without its brackets: the values in it that are no arrays.
Leaves(value) ==
  IF value.type = "eArray"
    THEN FlattenSeq([i \in 1 .. Len(value.elems) |-> Leaves(value.elems[i])])
    ELSE <<value>>

Holds(value, leaf) == leaf \in ToSet(Leaves(value))

\* SerializationRules { }
DefaultRules ==
  [expandKeys |-> FALSE, minimized |-> FALSE, floatNoFail |-> FALSE,
   forceInlineArrays |-> FALSE, indentWithTabs |-> FALSE,
   indentationSize |-> 3, maxInlineArrayLength |-> 32]

\* The InvalidValue exception.  eFloatNoFail suppresses it, but not for the
\* elements of an array whose length serializeArray estimates first: those
\* are serialized into strCache with the default rules.
CannotSerialize(rules, value) ==
  /\ Holds(value, NotFinite)
  /\ ~ rules.floatNoFail \/ (value.type = "eArray" /\ ~ rules.minimized)

\* guessElemLength asserts that no element is null.  It has not got to a null
\* when an element before it throws.
NullInArray(rules, value) ==
  LET stops == SelectSeq(Leaves(value), LAMBDA leaf : leaf \in {NotFinite, NullData})
  IN  /\ value.type = "eArray" /\ ~ rules.minimized
      /\ stops # <<>> /\ stops[1] = NullData

\* The eString case: the delimiter and the escape character are escaped.
Quoted(text) ==
  LET Escape(c) == IF c \in {"\"", "\\"} THEN <<"\\", c>> ELSE <<c>>
  IN  <<"\"">> \o FlattenSeq([i \in 1 .. Len(text) |-> Escape(text[i])])
        \o <<"\"">>

BoolText(rules, value) ==
  IF rules.minimized THEN value.text
  ELSE IF value = BoolData(TRUE) THEN <<"t", "r", "u", "e">>
                                 ELSE <<"f", "a", "l", "s", "e">>

-----------------------------------------------------------------------------
(* The layout of arrays.                                                   *)

RECURSIVE GuessInlineArrayLength(_)

\* guessElemLength: the escapes of a string do not count.
GuessElemLength(value) ==
  CASE value.type = "eBool"   -> IF value = BoolData(TRUE) THEN 4 ELSE 5
    [] value.type = "eString" -> 2 + Len(value.text)
    [] value.type = "eArray"  -> GuessInlineArrayLength(value.elems)
    [] OTHER                  -> Len(value.text)

\* Brackets, spaces and elements, in one line.
GuessInlineArrayLength(elems) ==
  FoldFunction(LAMBDA length, sum : length + sum, 4,
               [i \in 1 .. Len(elems) |->
                  GuessElemLength(elems[i]) + IF i > 1 THEN 1 ELSE 0])

\* Whether an array is written in one line.
IsInline(rules, state, elems) ==
  \/ rules.forceInlineArrays
  \/ /\ GuessInlineArrayLength(elems) <= rules.maxInlineArrayLength
     /\ ~ state.arrayNoInlineOverride

RECURSIVE SerializeEntry(_, _, _)

\* What has been written, and the state then.
Written(text, state) == [text |-> text, state |-> state]

\* F(x).  (TLC evaluates x once, not at every use of the parameter.)
With(x, F(_)) == CHOOSE y \in {F(b) : b \in {x}} : TRUE

\* What "before" is followed by.
Then(before, gap, elem) == Written(before.text \o gap \o elem.text, elem.state)

\* eMinimized: arrays are told apart by their brackets.
MinimizedElement(rules, elems, i, before) ==
  LET gap == IF i = 1 \/ "eArray" \in {elems[i - 1].type, elems[i].type}
               THEN <<>> ELSE <<" ">>
  IN  With(SerializeEntry(rules, before.state, elems[i]),
           LAMBDA elem : Then(before, gap, elem))

InlineElement(rules, elems, i, before) ==
  With(SerializeEntry(rules, before.state, elems[i]),
       LAMBDA elem : Then(before, <<" ">>, elem))

\* APPEND_VAL_LN_, unless an array follows one that was broken: it begins
\* in the line where the other one ends, and is broken as well.
BrokenElement(rules, elems, i, before) ==
  LET joins == /\ i > 1 /\ elems[i].type = "eArray" /\ elems[i - 1].type = "eArray"
               /\ ~ before.state.lastArrayWasInline
      NoInline(state, flag) == [state EXCEPT !.arrayNoInlineOverride = flag]
  IN  IF joins
        THEN With(SerializeEntry(rules, NoInline(before.state, TRUE), elems[i]),
                  LAMBDA elem : Then(before, <<" ">>, Written(elem.text, NoInline(elem.state, FALSE))))
        ELSE With(SerializeEntry(rules, before.state, elems[i]),
                  LAMBDA elem : Then(before, <<NL>> \o before.state.indentation, elem))

NextElement(layout, rules, elems, i, before) ==
  CASE layout = "minimized" -> MinimizedElement(rules, elems, i, before)
    [] layout = "inline"    -> InlineElement(rules, elems, i, before)
    [] layout = "broken"    -> BrokenElement(rules, elems, i, before)

\* The elements of an array one after the other.
Elements(layout, rules, state, elems) ==
  LET upTo[i \in 0 .. Len(elems)] ==
        IF i = 0 THEN Written(<<>>, state)
        ELSE With(upTo[i - 1], LAMBDA before : NextElement(layout, rules, elems, i, before))
  IN  upTo[Len(elems)]

\* Mutant: the indentation is popped behind the last line only.
BrokenArrayLatePop(rules, state, elems) ==
  LET LastLine(all) ==
        Written(all.text \o <<NL>> \o all.state.indentation, PopIndent(rules, all.state))
  IN  IF elems = <<>> THEN Written(<<" ">>, state)
      ELSE With(Elements("broken", rules, PushIndent(rules, state), elems), LastLine)

\* One line for each element, and one for the closing bracket.
BrokenArray(rules, state, elems) ==
  LET LastLine(all) ==
        LET popped == PopIndent(rules, all.state)
        IN  Written(all.text \o <<NL>> \o popped.indentation, popped)
  IN  IF elems = <<>> THEN Written(<<" ">>, state)
      ELSE With(Elements("broken", rules, PushIndent(rules, state), elems), LastLine)

\* serializeArray
SerializeArray(rules, state, elems) ==
  LET Bracketed(all, space) == Written(<<"[">> \o all.text \o space \o <<"]">>, all.state)
      Noting(all, inline) ==
        Written(all.text, [all.state EXCEPT !.lastArrayWasInline = inline])
  IN  IF rules.minimized
        THEN With(Elements("minimized", rules, state, elems),
                  LAMBDA all : Bracketed(all, <<>>))
      ELSE IF IsInline(rules, state, elems)
        THEN With(Elements("inline", rules, state, elems),
                  LAMBDA all : Bracketed(Noting(all, TRUE), <<" ">>))
        ELSE With(BrokenArray(rules, state, elems),
                  LAMBDA all : Bracketed(Noting(all, FALSE), <<>>))

\* serializeEntry, serializeDataRecursive.  A number is its characters.
SerializeEntry(rules, state, value) ==
  CASE value = NotFinite       -> Written(<<"0", ".", "0">>, state)
    [] value.type = "eNull"    -> Written(<<"n", "u", "l", "l">>, state)
    [] value.type = "eBool"    -> Written(BoolText(rules, value), state)
    [] value.type = "eString"  -> Written(Quoted(value.text), state)
    [] value.type = "eArray"   -> SerializeArray(rules, state, value.elems)
    [] OTHER                   -> Written(value.text, state)
=============================================================================
