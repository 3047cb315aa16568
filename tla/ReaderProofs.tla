---------------------------- MODULE ReaderProofs ----------------------------
(***************************************************************************)
(* The StringReader implements the contract of the Reader class, whatever  *)
(* the text: refinement of ReaderContract by ReaderClient's SpecString.    *)
(***************************************************************************)
EXTENDS ReaderClient, Facts

LineStart(t, c) == Contract!LineStart(t, c)

(***************************************************************************)
(* The contract counts the same way.                                       *)
(***************************************************************************)

\* The contract counts with the same Cardinality.
LEMMA SameCardinality ==
  ASSUME NEW S
  PROVE  Contract!Cardinality(S) = Cardinality(S)
BY DEF Contract!Cardinality, Cardinality

LEMMA SamePassed ==
  ASSUME NEW t, NEW c
  PROVE  Contract!Passed(t, c) = NewlinesUpTo(t, c)
BY DEF Contract!Passed, NewlinesUpTo

\* The line starts behind the last newline passed.
LEMMA LineStartIsLast ==
  ASSUME NEW t, NEW c \in Nat, NEW s \in {0} \union NewlinesUpTo(t, c),
         \A i \in NewlinesUpTo(t, c) : i <= s
  PROVE  LineStart(t, c) = s
<1> DEFINE starts == {0} \union NewlinesUpTo(t, c)
<1> DEFINE last == CHOOSE r \in starts : \A i \in NewlinesUpTo(t, c) : i <= r
<1>1. last \in starts /\ \A i \in NewlinesUpTo(t, c) : i <= last
  OBVIOUS
<1>2. \A i \in NewlinesUpTo(t, c) : i \in Nat /\ i > 0
  BY DEF NewlinesUpTo
<1>3. last = s
  BY <1>1, <1>2
<1> QED
  BY <1>3 DEF LineStart, Contract!LineStart, Contract!Passed, NewlinesUpTo

\* There is such a newline, unless none has been passed.
LEMMA LineStartType ==
  ASSUME NEW t, NEW c \in Nat, NEW s \in {0} \union NewlinesUpTo(t, c),
         \A i \in NewlinesUpTo(t, c) : i <= s
  PROVE  /\ LineStart(t, c) \in {0} \union NewlinesUpTo(t, c)
         /\ LineStart(t, c) \in 0 .. c
         /\ \A i \in NewlinesUpTo(t, c) : i <= LineStart(t, c)
BY LineStartIsLast DEF NewlinesUpTo

(***************************************************************************)
(* The invariant and the refinement.                                       *)
(***************************************************************************)

\* A StringReader's observations are those of the contract, and its line
\* has a start.
StringInv ==
  /\ TypeOK
  /\ rd.kind = "string"
  /\ Contract!Observations
  /\ \E s \in {0} \union NewlinesUpTo(rd.text, rd.cursor) :
       \A i \in NewlinesUpTo(rd.text, rd.cursor) : i <= s

LEMMA TextType == TypeOK => rd.text \in Seq(STRING) /\ Len(rd.text) \in Nat
<1>1. TypeOK => rd.text \in Seq(STRING)
  BY DEF TypeOK, ReaderType
<1> QED
  BY <1>1

\* The observations, as they follow from the fields of a StringReader.
LEMMA ObservationsHold ==
  ASSUME NEW r \in ReaderType, r.kind = "string", r.cursor \in 0 .. Len(r.text),
         r.lineCtr = Cardinality(NewlinesUpTo(r.text, r.cursor)),
         r.linePos = r.cursor - LineStart(r.text, r.cursor)
  PROVE  /\ IsAtEof(r) = (r.cursor = Len(r.text))
         /\ GetChar(r) = IF r.cursor < Len(r.text) THEN r.text[r.cursor + 1]
                                                   ELSE NUL
         /\ r.lineCtr = Contract!Cardinality(Contract!Passed(r.text, r.cursor))
         /\ r.linePos = r.cursor - Contract!LineStart(r.text, r.cursor)
<1>1. IsAtEof(r) = (r.cursor = Len(r.text))
  BY DEF IsAtEof
<1>2. GetChar(r) = IF r.cursor < Len(r.text) THEN r.text[r.cursor + 1] ELSE NUL
  BY DEF GetChar
<1> QED
  BY <1>1, <1>2, SameCardinality, SamePassed DEF LineStart

LEMMA InitStringInv ==
  ASSUME Texts \subseteq Seq(STRING)
  PROVE  InitString => StringInv /\ Contract!Init
<1> SUFFICES ASSUME InitString PROVE StringInv /\ Contract!Init
  OBVIOUS
<1>1. PICK t \in Texts : rd = StringReader(t)
  BY DEF InitString
<1>2. /\ rd.kind = "string" /\ rd.text = t /\ rd.cursor = 0
      /\ rd.lineCtr = 0 /\ rd.linePos = 0
  BY <1>1 DEF StringReader, Reader
<1>3. rd \in ReaderType
  <2>1. rd = [kind |-> "string", text |-> t, cursor |-> 0, charsLeft |-> 0,
              current |-> NUL, lineCtr |-> 0, linePos |-> 0]
    BY <1>1 DEF StringReader, Reader
  <2>2. t \in Seq(STRING)
    OBVIOUS
  <2> QED
    BY <2>1, <2>2 DEF ReaderType
<1>4. Len(t) \in Nat /\ 0 \in 0 .. Len(t)
  OBVIOUS
<1>5. NewlinesUpTo(t, 0) = {}
  BY DEF NewlinesUpTo
<1>6. LineStart(t, 0) = 0
  BY <1>5, LineStartIsLast
<1>7. Cardinality(NewlinesUpTo(t, 0)) = 0
  BY <1>5, FS_EmptySet
<1>8. Contract!Observations
  BY <1>2, <1>3, <1>4, <1>6, <1>7, ObservationsHold DEF Contract!Observations
<1>9. TypeOK
  BY <1>2, <1>3, <1>4 DEF TypeOK, InitString
<1> QED
  BY <1>2, <1>5, <1>8, <1>9 DEF StringInv, Contract!Init, InitString

\* One call of fwdOrEof inside the text.
LEMMA FwdInside ==
  ASSUME StringInv, FwdOrEof, rd.cursor < Len(rd.text)
  PROVE  /\ StringInv'
         /\ (rd.text)' = rd.text /\ (rd.cursor)' = rd.cursor + 1
         /\ moved' = TRUE
<1> DEFINE t == rd.text
<1> DEFINE n == rd.cursor
<1> DEFINE c == t[n + 1]
<1>1. /\ rd \in ReaderType /\ t \in Seq(STRING) /\ n \in Nat /\ Len(t) \in Nat
      /\ n + 1 \in 0 .. Len(t) /\ c \in STRING
  <2>1. t \in Seq(STRING) /\ Len(t) \in Nat
    BY TextType DEF StringInv
  <2>2. n \in Nat /\ n + 1 \in 1 .. Len(t)
    BY <2>1 DEF StringInv, TypeOK, ReaderType
  <2>3. c \in STRING
    BY <2>1, <2>2
  <2> QED
    BY <2>1, <2>2, <2>3 DEF StringInv, TypeOK
<1>2. rd' = StringFwd(rd) /\ moved' = TRUE
  BY DEF StringInv, FwdOrEof, Fwd, FwdMoves
<1>3. /\ rd' \in ReaderType /\ rd'.kind = "string" /\ rd'.text = t
      /\ rd'.cursor = n + 1
      /\ rd'.lineCtr = IF c = NL THEN rd.lineCtr + 1 ELSE rd.lineCtr
      /\ rd'.linePos = IF c = NL THEN 0 ELSE rd.linePos + 1
  BY <1>1, <1>2, StringFwdInside DEF StringInv
<1>4. PICK s \in {0} \union NewlinesUpTo(t, n) : \A i \in NewlinesUpTo(t, n) : i <= s
  BY DEF StringInv
<1>5. /\ LineStart(t, n) \in {0} \union NewlinesUpTo(t, n)
      /\ LineStart(t, n) \in 0 .. n
      /\ \A i \in NewlinesUpTo(t, n) : i <= LineStart(t, n)
  BY <1>1, <1>4, LineStartType
<1>6. rd.lineCtr = Cardinality(NewlinesUpTo(t, n)) /\ rd.linePos = n - LineStart(t, n)
  BY SameCardinality, SamePassed DEF StringInv, Contract!Observations, LineStart
<1>7. PICK start \in {0} \union NewlinesUpTo(t, n + 1) :
        /\ \A i \in NewlinesUpTo(t, n + 1) : i <= start
        /\ start = IF c = NL THEN n + 1 ELSE LineStart(t, n)
  <2>1. \A i \in NewlinesUpTo(t, n) : i \in Nat /\ i <= n
    BY <1>1 DEF NewlinesUpTo
  <2>2. CASE c = NL
    <3>1. NewlinesUpTo(t, n + 1) = NewlinesUpTo(t, n) \union {n + 1}
      BY <1>1, <2>2, PassOneMore
    <3> QED
      BY <1>1, <2>1, <2>2, <3>1
  <2>3. CASE c # NL
    <3>1. NewlinesUpTo(t, n + 1) = NewlinesUpTo(t, n)
      BY <1>1, <2>3, PassOneMore
    <3> QED
      BY <1>5, <2>3, <3>1
  <2> QED
    BY <2>2, <2>3
<1>8. LineStart(t, n + 1) = start
  <2>1. n + 1 \in Nat
    BY <1>1
  <2> QED
    BY <1>7, <2>1, LineStartIsLast
<1>9. rd'.linePos = (n + 1) - LineStart(t, n + 1)
  BY <1>1, <1>3, <1>5, <1>6, <1>7, <1>8
<1>10. rd'.lineCtr = Cardinality(NewlinesUpTo(t, n + 1))
  <2>1. CASE c = NL
    BY <1>1, <1>3, <1>6, <2>1, PassNewline
  <2>2. CASE c # NL
    BY <1>1, <1>3, <1>6, <2>2, PassOneMore
  <2> QED
    BY <2>1, <2>2
<1>11. Contract!Observations'
  <2> DEFINE r == rd'
  <2>1. /\ r \in ReaderType /\ r.kind = "string" /\ r.cursor \in 0 .. Len(r.text)
        /\ r.lineCtr = Cardinality(NewlinesUpTo(r.text, r.cursor))
        /\ r.linePos = r.cursor - LineStart(r.text, r.cursor)
    BY <1>1, <1>3, <1>9, <1>10
  <2> HIDE DEF r
  <2>2. /\ IsAtEof(r) = (r.cursor = Len(r.text))
        /\ GetChar(r) = IF r.cursor < Len(r.text) THEN r.text[r.cursor + 1]
                                                  ELSE NUL
        /\ r.lineCtr = Contract!Cardinality(Contract!Passed(r.text, r.cursor))
        /\ r.linePos = r.cursor - Contract!LineStart(r.text, r.cursor)
    BY <2>1, ObservationsHold
  <2> QED
    BY <2>1, <2>2 DEF r, Contract!Observations
<1>12. TypeOK'
  <2>1. rd.text \in Texts
    BY DEF StringInv, TypeOK
  <2> QED
    BY <1>1, <1>2, <1>3, <2>1 DEF TypeOK
<1> QED
  BY <1>2, <1>3, <1>7, <1>11, <1>12 DEF StringInv

LEMMA FwdAtEnd ==
  ASSUME StringInv, FwdOrEof, ~ (rd.cursor < Len(rd.text))
  PROVE  rd' = rd /\ rd.cursor = Len(rd.text) /\ moved' = FALSE
<1>1. rd' = StringFwd(rd) /\ moved' = FwdMoves(rd)
  BY Zenon DEF StringInv, FwdOrEof, Fwd
<1>2. rd' = rd
  BY <1>1, StringFwdAtEnd
<1>3. FwdMoves(rd) = FALSE
  BY DEF StringInv, FwdMoves
<1>4. rd.cursor = Len(rd.text)
  BY TextType DEF StringInv, TypeOK, ReaderType
<1> QED
  BY <1>1, <1>2, <1>3, <1>4

LEMMA NextString ==
  StringInv /\ [FwdOrEof]_vars => StringInv' /\ [Contract!FwdOrEof]_(Contract!vars)
<1> SUFFICES ASSUME StringInv, [FwdOrEof]_vars
             PROVE  StringInv' /\ [Contract!FwdOrEof]_(Contract!vars)
  OBVIOUS
<1>1. CASE FwdOrEof /\ rd.cursor < Len(rd.text)
  BY <1>1, FwdInside DEF StringInv, Contract!FwdOrEof
<1>2. CASE FwdOrEof /\ ~ (rd.cursor < Len(rd.text))
  <2>1. rd' = rd /\ rd.cursor = Len(rd.text) /\ moved' = FALSE
    BY <1>2, FwdAtEnd
  <2>2. StringInv'
    BY <2>1 DEF StringInv, TypeOK, Contract!Observations
  <2> QED
    BY <2>1, <2>2 DEF StringInv, Contract!FwdOrEof
<1>3. CASE UNCHANGED vars
  BY <1>3 DEF vars, StringInv, TypeOK, Contract!Observations, Contract!vars
<1> QED
  BY <1>1, <1>2, <1>3

\* The StringReader implements the contract: every behaviour of a client of
\* it is one the comments of the Reader class allow, for every text.
THEOREM StringReaderImplementsContract ==
  ASSUME Texts \subseteq Seq(STRING)
  PROVE  SpecString => ContractSpec
<1>1. InitString => StringInv /\ Contract!Init
  BY InitStringInv
<1>2. SpecString => []StringInv
  BY <1>1, NextString, PTL DEF SpecString
<1> QED
  BY <1>1, <1>2, NextString, PTL
  DEF SpecString, ContractSpec, Contract!Spec

\* A client of a StringReader leaves it within its text.
THEOREM StringReaderTypeCorrect ==
  ASSUME Texts \subseteq Seq(STRING)
  PROVE  SpecString => []TypeOK
<1>1. InitString => StringInv
  BY InitStringInv
<1>2. StringInv => TypeOK
  BY DEF StringInv
<1> QED
  BY <1>1, <1>2, NextString, PTL DEF SpecString
=============================================================================
