----------------------------- MODULE TwoReaders -----------------------------
(***************************************************************************)
(* The same text read twice: from memory (Config::parse, a StringReader),  *)
(* then from a stream (Config::read, a StdStreamReader), which holds just  *)
(* the text and is read without a limit, or holds more and is read with a  *)
(* count that ends where the text does.                                    *)
(*                                                                         *)
(* The stream reader is one character ahead, so the parses may disagree    *)
(* about a text that ends in the middle of something.  When the count is   *)
(* used up, isAtEof is true and fwdOrEof fails, but getChar goes on        *)
(* returning the last character: what a loop of the parser does then       *)
(* depends on which of the three it asks.                                  *)
(***************************************************************************)
EXTENDS Parser

CONSTANTS Inputs,    \* the texts
          Rest,      \* what a longer stream holds behind the text
          Junk,      \* what "current" may hold before anything is read
          MaxBuffer  \* bound: the characters the parser collects

ASSUME TextsAssumption ==
  /\ Inputs \subseteq Seq(STRING) /\ \A text \in Inputs : Len(text) < MaxSize
  /\ Rest \in Seq(STRING) /\ Rest # <<>>
  /\ Junk \subseteq STRING

VARIABLE inMemory    \* the text, and how its parse from memory ended

tvars == <<vars, inMemory>>

Unread == [text |-> <<>>, outcome |-> "none", cfg |-> NoEntries]

TwoInit == /\ \E text \in Inputs : Start(StringReader(text))
           /\ inMemory = Unread

\* A new parse, on the given reader, of the text that has just been parsed.
Restart(reader) ==
  /\ pc = "done" /\ rd.kind = "string"
  /\ inMemory' = [text |-> rd.text, outcome |-> outcome, cfg |-> cfg]
  /\ rd' = reader
  /\ pc' = "lead" /\ ret' = "defs" /\ go' = FALSE
  /\ buf' = <<>> /\ key' = <<>> /\ keyStack' = <<>> /\ arrays' = <<>>
  /\ cfg' = NoEntries
  /\ outcome' = "none"

\* Config::read(in) on a stream that holds the text.
ReadStream == Restart(StdStreamReader(rd.text, MaxSize, NUL))

\* Config::read(in, count) on a stream that begins with the text.
ReadLimited ==
  \E junk \in IF rd.text = <<>> THEN Junk ELSE {NUL} :
    Restart(StdStreamReader(rd.text \o Rest, Len(rd.text), junk))

Parse == Len(buf) < MaxBuffer /\ Next /\ UNCHANGED inMemory

TwoNext == Parse \/ ReadStream \/ ReadLimited

TwoSpec == TwoInit /\ [][TwoNext]_tvars /\ WF_tvars(TwoNext)

-----------------------------------------------------------------------------
(* Properties.                                                             *)

BothDone == pc = "done" /\ rd.kind = "stream"
Limited  == Len(rd.text) > Len(inMemory.text)

LastChar == inMemory.text[Len(inMemory.text)]

SameResult == /\ outcome = inMemory.outcome
              /\ outcome = "ok" => cfg = inMemory.cfg

\* A text that ends with a newline means the same from memory, from a stream
\* and from the first characters of a stream, errors included.
NewlineEndsText ==
  BothDone /\ inMemory.text # <<>> /\ LastChar = NL => SameResult

\* A text that a stream without a limit reads otherwise throws UnexpectedEof
\* there, so that the stream never yields entries the string does not have;
\* and if the string is well formed, it ends with a boolean value or a bare
\* sign (parseValueBool and parseValueNumber move past those with fwd).
StreamOnlyLosesEnds ==
  BothDone /\ ~ Limited =>
    \/ SameResult
    \/ /\ outcome = "UnexpectedEof"
       /\ inMemory.outcome = "ok" => LastChar \in {"y", "n", "e", "s", "o"} \union Signs

\* In every state of the parse, however it was reached, both readers count
\* lines and columns right, and the stream reader is exactly one character
\* ahead of the reader contract.
ReadersInStep ==
  /\ LinesCounted(rd)
  /\ rd.kind = "stream" => OneAhead(rd)

\* A well-formed text that is read otherwise with a limit ends with a word or
\* a sign (parseValueBool and parseValueNumber need one more character), a
\* comment (its last slash is taken for the beginning of another), the end of
\* a group (parse asks isAtEof first), or is empty.
CountLosesEnds ==
  BothDone /\ Limited /\ inMemory.outcome = "ok" /\ ~ SameResult =>
    \/ /\ outcome = "UnexpectedEof"
       /\ \/ inMemory.text = <<>>
          \/ LastChar \in {"y", "n", "e", "s", "o", "/"} \union Signs
    \/ outcome = "UnclosedGroup" /\ LastChar = "}"

\* What is read with a limit has no entries that the same characters do not
\* have in memory, where they may be followed by an error: with one exception,
\* the last bracket of the part ends all the arrays that are open.
CountGainsNothing ==
  BothDone /\ Limited /\ outcome = "ok" =>
    \/ cfg = inMemory.cfg
    \/ inMemory.outcome = "UnexpectedChar" /\ LastChar = "]"

\* The number loop has collected more than there is to read: fwdOrEof does
\* not move, and getChar does not tell.
Overrun == Len(buf) > Len(rd.text)

\* Both parses end, unless a limit falls within a number, whose last digit is
\* then read for ever.
BothTerminate ==
  <>(BothDone \/ (Overrun /\ Limited /\ (IsAlphanum(LastChar) \/ LastChar = ".")))
=============================================================================
