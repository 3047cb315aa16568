--------------------------- MODULE DocumentParser ---------------------------
(***************************************************************************)
(* The parser at work on arbitrary texts, as in TwoReaders, and on the     *)
(* texts of documents: whatever the blanks a document is written with, its *)
(* parse comes to what the document means.                                 *)
(***************************************************************************)
EXTENDS TwoReaders, Document

CONSTANTS Documents,   \* the documents
          Blankings    \* the blanks before and after a delimiter, and at the end

VARIABLE written       \* history: the document the text was written from, if any

dvars == <<tvars, written>>

DocInit ==
  \/ \E doc \in Documents, b \in Blankings :
       /\ written = {doc}
       /\ Start(StringReader(DocumentText(doc, b[1], b[2]) \o b[3]))
       /\ inMemory = Unread
  \/ TwoInit /\ written = {}

\* Documents are not read with a limit: it would have to fall within them to
\* tell anything new, and a part of a document is one of the other texts.
DocNext ==
  /\ TwoNext
  /\ written # {} => ~ ReadLimited
  /\ UNCHANGED written

DocSpec == DocInit /\ [][DocNext]_dvars /\ WF_dvars(DocNext)

Returns == CR \in {rd.text[i] : i \in 1 .. Len(rd.text)}

\* A parse that ends has the verdict of its document, and if that is "ok",
\* exactly the entries of the document with their values.  The documents hold
\* no carriage returns of their own: see ReturnSeparatesNothing.
ParsesDocument ==
  pc = "done" /\ rd.kind = "string" /\ ~ Returns =>
    \A doc \in written :
      /\ outcome = Verdict(doc)
      /\ outcome = "ok" => cfg = Entries(doc)

\* src/README.md:24-26 counts the carriage return among the blanks that may
\* separate the elements of a document; isWhitespace does not.  A document
\* written with one is rejected at its first, whatever its items.
ReturnSeparatesNothing ==
  pc = "done" /\ written # {} /\ Returns =>
    outcome = "UnexpectedChar"
=============================================================================
