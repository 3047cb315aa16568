------------------------------ MODULE Numbers ------------------------------
(***************************************************************************)
(* How much of a number-like string apcf_num::parseNumber accepts, and     *)
(* whether it takes it for an integer or a floating point number           *)
(* (src/src/apcf_num.cpp).  A number stands for itself by the characters   *)
(* it is read from; NumberValues says what it is worth.                    *)
(***************************************************************************)
EXTENDS Grammar

\* The digits charToDigit maps below the base.
DigitsOf(base) ==
  CASE base = 16 -> Digits \union {"a", "b", "c", "d", "e", "f"}
    [] base = 10 -> Digits
    [] base = 8  -> Digits \ {"8", "9"}
    [] base = 2  -> {"0", "1"}

\* The digits a string starts with.
LeadingDigits(str, base) ==
  CHOOSE n \in 0 .. Len(str) :
    /\ \A i \in 1 .. n : str[i] \in DigitsOf(base)
    /\ n < Len(str) => str[n + 1] \notin DigitsOf(base)

From(str, i) == SubSeq(str, i, Len(str))

SignLength(str) == IF str # <<>> /\ str[1] \in Signs THEN 1 ELSE 0

\* baseOf: a leading zero that is not the whole integer part announces a
\* base.  The prefix is looked for behind the sign, but its length does not
\* count the sign.
BaseOf(str) ==
  LET zero == SignLength(str) + 1
      Is(base, prefixLen) == [base |-> base, prefixLen |-> prefixLen]
  IN  IF Len(str) <= zero \/ str[zero] # "0" \/ str[zero + 1] = "."
        THEN Is(10, 0)
        ELSE CASE str[zero + 1] = "x" -> Is(16, 2)
               [] str[zero + 1] = "b" -> Is(2, 2)
               [] str[zero + 1] = "d" -> Is(10, 2)
               [] str[zero + 1] = "o" -> Is(8, 2)
               [] OTHER -> Is(8, 1)

\* The charsParsed of parseNumberInt: a sign, then digits.
IntLength(str, base) ==
  SignLength(str) + LeadingDigits(From(str, SignLength(str) + 1), base)

\* parseNumber: the fraction is parsed if anything follows the period.
ParseNumber(str) ==
  LET prefix == BaseOf(str)
      rest   == From(str, prefix.prefixLen + 1)
      point  == prefix.prefixLen + IntLength(rest, prefix.base) + 1
      fraction == From(str, point + 1)
  IN  IF point < Len(str) /\ str[point] = "."
        THEN [parsedChars |-> point + LeadingDigits(fraction, prefix.base),
              value |-> FloatData(str)]
        ELSE [parsedChars |-> point - 1, value |-> IntData(str)]
=============================================================================
