--------------------------- MODULE MCReaderClient ---------------------------
(***************************************************************************)
(* Every text of up to four characters over a letter, a newline and a      *)
(* carriage return, which no reader treats as the end of a line.           *)
(***************************************************************************)
EXTENDS ReaderClient, SequencesExt

MCTexts == BoundedSeq({"a", NL, CR}, 4)
MCLimits == {MaxSize}
=============================================================================
