------------------------- MODULE SerializationState -------------------------
(***************************************************************************)
(* The SerializationState that the serializer passes on from line to line  *)
(* (src/src/apcf_.hpp, src/src/apcf_serialize.cpp): the indentation, and   *)
(* two flags of serializeArray.  The level of indentation counts what is   *)
(* pushed and is left out: only the pushes are looked at.                  *)
(***************************************************************************)
EXTENDS Naturals, Sequences

\* SerializationState { }
BeginState == [indentation |-> <<>>, lastArrayWasInline |-> FALSE,
               arrayNoInlineOverride |-> FALSE]

\* One level of indentation.
MkIndent(rules) ==
  [i \in 1 .. rules.indentationSize |-> IF rules.indentWithTabs THEN "\t" ELSE " "]

PushIndent(rules, state) == [state EXCEPT !.indentation = @ \o MkIndent(rules)]

PopIndent(rules, state) ==
  [state EXCEPT !.indentation =
     IF Len(@) >= rules.indentationSize
       THEN SubSeq(@, 1, Len(@) - rules.indentationSize) ELSE <<>>]
=============================================================================
