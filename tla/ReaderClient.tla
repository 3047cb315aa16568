---------------------------- MODULE ReaderClient ----------------------------
(***************************************************************************)
(* A client that calls fwdOrEof on a reader of its choice, also past the   *)
(* end, and what it can then observe.  The StringReader keeps the contract *)
(* of the Reader class, which ReaderProofs proves; the StdStreamReader     *)
(* does not.                                                               *)
(***************************************************************************)
EXTENDS Readers

CONSTANTS Texts,     \* the data a reader is opened on
          Limits     \* the character limits of the StdStreamReader

VARIABLES rd,        \* the reader
          moved      \* the result of the last fwdOrEof

vars == <<rd, moved>>

InitString == /\ rd \in {StringReader(t) : t \in Texts}
              /\ moved = TRUE

InitStream == /\ rd \in {StdStreamReader(t, n, NUL) : t \in Texts, n \in Limits}
              /\ moved = TRUE

FwdOrEof == /\ rd' = Fwd(rd)
            /\ moved' = FwdMoves(rd)

SpecString == InitString /\ [][FwdOrEof]_vars
SpecStream == InitStream /\ [][FwdOrEof]_vars

-----------------------------------------------------------------------------
\* The reader is a reader of one of the texts, inside its bounds.
TypeOK ==
  /\ rd \in ReaderType /\ rd.text \in Texts
  /\ rd.cursor <= Len(rd.text)
  /\ moved \in BOOLEAN

\* The StringReader implements the contract of the Reader class: the line
\* and the column are those of the character under the cursor, fwdOrEof
\* fails at the end only and leaves everything alone when it does
\* (StringReader::isAtEof, getChar and fwdOrEof).
Contract == INSTANCE ReaderContract
  WITH Newline <- NL, NoChar <- NUL,
       text <- rd.text, cursor <- rd.cursor,
       eof <- IsAtEof(rd), char <- GetChar(rd),
       line <- rd.lineCtr, column <- rd.linePos, moved <- moved

ContractSpec == Contract!Spec

\* fwdOrEof returns `false` only if the cursor is already at the end (the
\* comment above Reader::fwdOrEof).  The StdStreamReader breaks this when
\* the cursor is on the last character of the stream.
FailsOnlyAtEof == [][FwdOrEof /\ ~ moved' => IsAtEof(rd)]_vars
=============================================================================
