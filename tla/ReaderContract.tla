--------------------------- MODULE ReaderContract ---------------------------
(***************************************************************************)
(* What apcf::io::Reader promises (the comments of src/include/apcf.hpp):  *)
(* a cursor that walks over the characters of some data, one at a time,    *)
(* and comes to rest past the last of them.                                *)
(*                                                                         *)
(* "cursor" is the 0-based index of the character under the cursor.  The   *)
(* other variables are what a client of the reader observes.               *)
(***************************************************************************)
EXTENDS Naturals, Sequences, FiniteSets

CONSTANTS Newline,   \* the character that ends a line
          NoChar     \* what getChar returns past the end

VARIABLES text,      \* the data
          cursor,    \* where the reader is
          eof,       \* isAtEof()
          char,      \* getChar()
          line,      \* lineCounter()
          column,    \* linePosition()
          moved      \* the result of the last fwdOrEof()

vars == <<text, cursor, eof, char, line, column, moved>>

\* The (1-based) newlines the cursor has passed.
Passed(t, c) == {i \in 1 .. c : t[i] = Newline}

LineStart(t, c) ==
  CHOOSE s \in {0} \union Passed(t, c) : \A i \in Passed(t, c) : i <= s

\* Everything a client observes is a function of the data and the cursor.
Observations ==
  /\ cursor \in 0 .. Len(text)
  /\ eof = (cursor = Len(text))
  /\ char = IF cursor < Len(text) THEN text[cursor + 1] ELSE NoChar
  /\ line = Cardinality(Passed(text, cursor))
  /\ column = cursor - LineStart(text, cursor)

Init ==
  /\ cursor = 0
  /\ moved = TRUE
  /\ Observations

\* "Try and move the cursor forward: returns `true` if the operation
\* succeeded, `false` if the cursor is already at the end"
FwdOrEof ==
  /\ \/ cursor < Len(text) /\ cursor' = cursor + 1 /\ moved' = TRUE
     \/ cursor = Len(text) /\ cursor' = cursor     /\ moved' = FALSE
  /\ text' = text
  /\ Observations'

Spec == Init /\ [][FwdOrEof]_vars
=============================================================================
