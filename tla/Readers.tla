------------------------------ MODULE Readers ------------------------------
(***************************************************************************)
(* The two readers of src/src/apcf_io.cpp, as operators over a record so   *)
(* that a parser can hold either of them.                                  *)
(*                                                                         *)
(* A StringReader looks at the character under its cursor.  A              *)
(* StdStreamReader has already taken that character from its stream:       *)
(* "cursor" counts the characters the stream has given out, "current" is   *)
(* the last of them and "charsLeft" how many more may be taken.            *)
(***************************************************************************)
EXTENDS Grammar, FiniteSets

MaxSize == 1000     \* numeric_limits<size_t>::max(), above any text's length

ReaderType ==
  [kind : {"string", "stream"}, text : Seq(STRING), cursor : Nat,
   charsLeft : Nat, current : {NUL} \union STRING, lineCtr : Nat, linePos : Nat]

Reader(kind, text, charsLeft, current) ==
  [kind |-> kind, text |-> text, cursor |-> 0, charsLeft |-> charsLeft,
   current |-> current, lineCtr |-> 0, linePos |-> 0]

\* Mutant: a newline does not reset the column.
CountLineKeepsColumn(rd, c) ==
  [rd EXCEPT !.lineCtr = IF c = NL THEN @ + 1 ELSE @, !.linePos = @ + 1]

\* Count c as the character that has just been passed (StringReader) or
\* entered (StdStreamReader).
CountLine(rd, c) ==
  IF c = NL THEN [rd EXCEPT !.lineCtr = @ + 1, !.linePos = 0]
            ELSE [rd EXCEPT !.linePos = @ + 1]

-----------------------------------------------------------------------------
(* StringReader.  Nothing but the constructor sets limit: it is Len(text). *)

StringReader(text) == Reader("string", text, 0, NUL)

StringFwd(rd) ==
  IF rd.cursor < Len(rd.text)
    THEN [CountLine(rd, rd.text[rd.cursor + 1]) EXCEPT !.cursor = @ + 1]
    ELSE rd

-----------------------------------------------------------------------------
(* StdStreamReader.                                                        *)

\* Mutant: the end of the stream does not use up charsLeft.
StreamFwdKeepsCount(rd) ==
  IF rd.charsLeft = 0 THEN rd
  ELSE IF rd.cursor < Len(rd.text)
    THEN LET c == rd.text[rd.cursor + 1]
         IN  [CountLine(rd, c) EXCEPT !.current = c, !.cursor = @ + 1,
                                      !.charsLeft = @ - 1]
    ELSE [rd EXCEPT !.current = NUL]

\* Mutant: the characters taken are not counted.
StreamFwdUncounted(rd) ==
  IF rd.charsLeft > 0 /\ rd.cursor < Len(rd.text)
    THEN LET c == rd.text[rd.cursor + 1]
         IN  [CountLine(rd, c) EXCEPT !.current = c, !.cursor = @ + 1]
    ELSE [rd EXCEPT !.charsLeft = 0]

StreamFwd(rd) ==
  IF rd.charsLeft = 0 THEN rd
  ELSE IF rd.cursor < Len(rd.text)
    THEN LET c == rd.text[rd.cursor + 1]
         IN  [CountLine(rd, c) EXCEPT !.current = c, !.cursor = @ + 1,
                                      !.charsLeft = @ - 1]
    ELSE [rd EXCEPT !.current = NUL, !.charsLeft = 0]

\* Mutant: the constructor reads nothing.
StdStreamReaderUnprimed(text, limit, junk) == Reader("stream", text, limit, junk)

\* The constructor reads the first character.  With a limit of 0 it reads
\* none and leaves "current" uninitialised: it holds some character "junk".
StdStreamReader(text, limit, junk) ==
  StreamFwd(Reader("stream", text, limit, junk))

-----------------------------------------------------------------------------
(* The Reader interface.                                                   *)

IsAtEof(rd) ==
  IF rd.kind = "string" THEN rd.cursor = Len(rd.text) ELSE rd.charsLeft = 0

GetChar(rd) ==
  IF rd.kind = "stream" THEN rd.current
  ELSE IF rd.cursor < Len(rd.text) THEN rd.text[rd.cursor + 1]
  ELSE NUL

\* The state fwdOrEof leaves, and the result it returns.
Fwd(rd) == IF rd.kind = "string" THEN StringFwd(rd) ELSE StreamFwd(rd)

FwdMoves(rd) ==
  IF rd.kind = "string" THEN rd.cursor < Len(rd.text)
  ELSE rd.charsLeft > 0 /\ rd.cursor < Len(rd.text)

-----------------------------------------------------------------------------
(* What the readers keep to.                                               *)

NewlinesUpTo(text, n) == {i \in 1 .. n : text[i] = NL}

\* The line and the column count the characters up to the cursor: those a
\* StringReader has passed, and the one under the cursor of a StdStreamReader
\* too (both fwdOrEof).
LinesCounted(rd) ==
  LET passed == NewlinesUpTo(rd.text, rd.cursor)
  IN  /\ rd.lineCtr = Cardinality(passed)
      /\ \E s \in {0} \union passed :
           rd.linePos = rd.cursor - s /\ \A i \in passed : i <= s

\* A StdStreamReader is one character ahead of the contract: it hands the
\* characters of the stream out in order, and is at the end once its limit is
\* used up or the stream is (StdStreamReader::fwdOrEof).
OneAhead(rd) ==
  \/ rd.cursor > 0 /\ GetChar(rd) = rd.text[rd.cursor]
  \/ IsAtEof(rd)
=============================================================================
