---------------------------- MODULE NumberWriter ----------------------------
(***************************************************************************)
(* A number on its way into a text and back: serializeIntNumber or         *)
(* serializeFloatNumber, digit by digit, roundFloatRep unless the flag     *)
(* ePreciseFloat is set, and parseNumber (src/src/apcf_num.cpp, called     *)
(* from serializeDataRecursive and parseValueNumber).  Or the text is one  *)
(* that somebody else has written.                                         *)
(***************************************************************************)
EXTENDS NumberValues, FiniteSetsExt

CONSTANTS Values,       \* the numbers a client has in a Config
          Texts,        \* the number-like strings in a text
          RoundDigits   \* the argument of roundFloatRep, 9 in the code

VARIABLES pc,           \* where the code is
          value,        \* the number, at first the client's, then as read
          text,         \* r, the text written so far
          n,            \* the part of a float that is still to be written
          given,        \* history: the client's number
          written       \* history: the text before it was rounded

vars == <<pc, value, text, n, given, written>>

WriteInit ==
  /\ value \in Values /\ given = value
  /\ pc = "serialize" /\ text = <<>> /\ n = 0 /\ written = <<>>

\* A numeric value as the documentation has it, "a base 10 sequence of digits,
\* with an optional period between two digits", and a sign.
IsNumeric(str) ==
  LET body == From(str, SignLength(str) + 1)
  IN  /\ body # <<>> /\ body[1] \in Digits /\ Last(body) \in Digits
      /\ \A i \in 1 .. Len(body) : body[i] \in Digits \union {"."}
      /\ Cardinality({i \in 1 .. Len(body) : body[i] = "."}) <= 1

\* What serializeFloatNumber writes, and so what is ever rounded.
IsFloatText(str) == IsNumeric(str) /\ "." \in Range(str) /\ BaseOf(str).base = 10

NoNumber == [type |-> "none", n |-> 0]

TextInit ==
  /\ text \in Texts /\ written = text
  /\ pc \in {"round", "parse"} /\ (pc = "round" => IsFloatText(text))
  /\ n = 0
  /\ value = NoNumber /\ given = NoNumber

Init == WriteInit \/ TextInit

-----------------------------------------------------------------------------
(* Writing.                                                                *)

SerializeInt ==
  /\ pc = "serialize" /\ value.type = "eInt"
  /\ text' = IntText(value.n) /\ written' = text' /\ pc' = "parse"
  /\ UNCHANGED <<value, n, given>>

\* What lies beyond the range of int_t becomes half of its limit.  The limit
\* itself is converted to a float first, and so may grow.
Clamp(float) ==
  IF float > FloatOf(MaxInt) THEN FloatOf(MaxInt \div 2)
  ELSE IF float < FloatOf(MinInt) THEN FloatOf(MinInt \div 2) ELSE float

\* serializeFloatNumber up to its loop: the sign, the integer part.
SerializeFloat ==
  LET size == Size(Clamp(value.n))
  IN  /\ pc = "serialize" /\ value.type = "eFloat"
      /\ \E nInt \in IntOf(size) :
           /\ text' = (IF value.n < 0 THEN <<"-">> ELSE <<>>)
                        \o IntText(nInt) \o <<".">>
           /\ n' = Nearest(size - FloatOf(nInt), 1)
      /\ pc' = "fraction"
      /\ UNCHANGED <<value, given, written>>

\* Mutant: the loop goes on at 0.
FractionDigitForever ==
  /\ pc = "fraction"
  /\ \E tenfold \in {Nearest(10 * n, 1)} : \E nInt \in IntOf(tenfold) :
       IF nInt \in 0 .. 9
         THEN /\ text' = Append(text, DigitToChar(nInt))
              /\ n' = Nearest(tenfold - FloatOf(nInt), 1)
              /\ pc' = IF n' >= 0 THEN "fraction" ELSE "round"
              /\ written' = text'
         ELSE /\ pc' = "aborted"
              /\ UNCHANGED <<text, n, written>>
  /\ UNCHANGED <<value, given>>

\* The loop body: one digit, or a failed assertion, nInt < base or the one in
\* digitToChar.
FractionDigit ==
  /\ pc = "fraction"
  /\ \E tenfold \in {Nearest(10 * n, 1)} : \E nInt \in IntOf(tenfold) :
       IF nInt \in 0 .. 9
         THEN /\ text' = Append(text, DigitToChar(nInt))
              /\ n' = Nearest(tenfold - FloatOf(nInt), 1)
              /\ pc' = IF n' > 0 THEN "fraction" ELSE "round"
              /\ written' = text'
         ELSE /\ pc' = "aborted"
              /\ UNCHANGED <<text, n, written>>
  /\ UNCHANGED <<value, given>>

\* Without ePreciseFloat the text is rounded.
Round ==
  /\ pc = "round"
  /\ text' \in {text, RoundFloatRep(text, RoundDigits)}
  /\ pc' = "parse"
  /\ UNCHANGED <<value, n, given, written>>

-----------------------------------------------------------------------------
(* Reading.                                                                *)

\* parseValueNumber throws unless parseNumber takes the whole text.
Parse ==
  /\ pc = "parse"
  /\ IF ParseNumber(text).parsedChars = Len(text)
       THEN value' = NumberOf(text) /\ pc' = "read"
       ELSE pc' = "thrown" /\ UNCHANGED value
  /\ UNCHANGED <<text, n, given, written>>

Next == SerializeInt \/ SerializeFloat \/ FractionDigit \/ Round \/ Parse

Spec == Init /\ [][Next]_vars

-----------------------------------------------------------------------------
(* Decimal arithmetic as a reference: what the digits of a text amount to, *)
(* and how many of them are behind the period.                             *)

FractionLength(str) ==
  LET points == {i \in 1 .. Len(str) : str[i] = "."}
  IN  IF points = {} THEN 0 ELSE Len(str) - CHOOSE i \in points : TRUE

\* The digits of str, as those of a whole number.
Amount(str, base) ==
  LET d == SelectSeq(str, LAMBDA c : c \in DigitsOf(base))
  IN  Signed(IsNegative(str),
             MapThenSumSet(LAMBDA i : CharToDigit(d[i]) * base ^ (Len(d) - i), 1 .. Len(d)))

\* The distance between two decimal texts, times 10^places.
Distance(str, other, places) ==
  Size(Amount(str, 10) * 10 ^ (places - FractionLength(str))
         - Amount(other, 10) * 10 ^ (places - FractionLength(other)))

\* "float" is num / den, up to three units of its last place, and for every
\* digit five of the smallest float.
IsCloseTo(float, num, den, digits) ==
  Size(float * den - num) * 2 ^ Precision
    <= 3 * Size(num) + 5 * digits * den * 2 ^ Precision

Ended == {"read", "thrown", "aborted"}
Limit == 2 ^ (Width - 1) * One

-----------------------------------------------------------------------------
(* Properties of numbers that are written and read back.                   *)

\* Every int_t is read back as it was, from the digits that a loop has
\* written in reverse; the smallest one is not.
IntReadsBack ==
  pc \in Ended /\ given.type = "eInt" => (value = given <=> given.n # MinInt)

\* Every float that is written is read back as a float, but for the two that
\* the limits of int_t are converted to, on which the assertions on digits may
\* fail.  One that int_t has room for is close to what it was unless its text
\* is rounded, though the digits are each added with an error and the
\* magnitudes they are multiplied by have one.
FloatReadsBack ==
  pc \in Ended /\ given.type = "eFloat" =>
    /\ Size(given.n) # Limit => pc = "read" /\ value.type = "eFloat"
    /\ Size(given.n) < Limit /\ text = written => IsCloseTo(value.n, given.n, 1, 1)

\* The loop over the digits of the fraction ends: every multiplication by ten
\* leaves one binary digit less, whatever it is rounded to, and a float has no
\* more than Scale of them.
FractionEnds == pc \in {"fraction", "round"} => FractionLength(text) <= Scale

-----------------------------------------------------------------------------
(* Properties of texts that are rounded or read.                           *)

\* What has been read is worth what the digits of str amount to, modulo the
\* width of int_t, or up to the precision of a float.
IsWorth(str, base) ==
  LET den == base ^ FractionLength(str)
  IN  IF "." \in Range(str)
        THEN /\ value.type = "eFloat"
             /\ Size(Amount(str, base)) <= MaxInt * den =>
                  IsCloseTo(value.n, Amount(str, base) * One, den, FractionLength(str))
        ELSE value = IntNumber(Wrap(Amount(str, base)))

\* A number-like text that the parser accepts is worth what its digits amount
\* to in base 10, or behind "0x", "0b", "0o" and "0d" in the base that says; a
\* sign counts behind the prefix, and only there.  Texts whose first digit is a
\* redundant zero are another matter: see IsBaseTen.
MeansItsDigits ==
  LET prefix == BaseOf(text)
  IN  pc = "read" /\ given = NoNumber /\ prefix.prefixLen # 1 =>
        IsWorth(From(text, prefix.prefixLen + 1), prefix.base)

\* "A numeric value is a base 10 sequence of digits" (src/README.md:95): every
\* such text is read, and is worth those digits.  baseOf takes a leading zero
\* for a prefix of base 8, and leaves the sign before it out.
IsBaseTen ==
  pc \in {"read", "thrown"} /\ given = NoNumber /\ IsNumeric(text) =>
    pc = "read" /\ IsWorth(text, 10)

\* Rounding changes a number by at most one in the place before the last of
\* the digits that count as one run, through all carries; it keeps the sign,
\* and what it leaves is numeric and has base 10.  A text it leaves alone has
\* no run of RoundDigits zeros or nines in its fraction, though the search for
\* one passes over characters.
RoundsNearby ==
  pc = "parse" /\ given = NoNumber /\ IsFloatText(written) =>
    /\ IsFloatText(text) /\ SignLength(text) = SignLength(written)
    /\ LET places == FractionLength(written)
       IN  Distance(text, written, places) * 10 ^ (RoundDigits - 1) <= 10 ^ places
    /\ RoundFloatRep(written, RoundDigits) = written =>
         \A i \in Len(written) - FractionLength(written) + 1 .. Len(written) + 1 - RoundDigits :
           written[i] \in {"0", "9"} =>
             \E j \in i + 1 .. i + RoundDigits - 1 : written[j] # written[i]

=============================================================================
