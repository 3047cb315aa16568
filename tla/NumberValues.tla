---------------------------- MODULE NumberValues ----------------------------
(***************************************************************************)
(* What a number-like text is worth, and how the decimal text of a number  *)
(* is made and rounded (src/src/apcf_num.cpp).                             *)
(*                                                                         *)
(* int_t has Width bits.  Signed overflow wraps around, as it does in the  *)
(* code the compilers make of these functions.  A float_t is the integer   *)
(* it is after a multiplication by One; it has Precision significant bits, *)
(* fewer if it is smaller than that allows, and every operation on it      *)
(* rounds to the nearest float.  Infinities, and the sign of zero, which   *)
(* no function here looks at, are left out.                                *)
(***************************************************************************)
EXTENDS Numbers, Integers, SequencesExt

CONSTANTS Width,      \* bits of an int_t, 64 in the code
          Precision,  \* significant bits of a float_t, 53 in the code
          Scale       \* 2^-Scale is the smallest float_t, 2^-1074 in the code

ASSUME NumberAssumption ==
  /\ Width \in Nat \ {0} /\ Precision \in Nat \ {0} /\ Scale \in Nat
  /\ Precision < Width

-----------------------------------------------------------------------------
(* int_t and float_t.                                                      *)

MinInt == -(2 ^ (Width - 1))
MaxInt == 2 ^ (Width - 1) - 1

Wrap(n) == ((n - MinInt) % 2 ^ Width) + MinInt

One == 2 ^ Scale

Size(n) == IF n < 0 THEN -n ELSE n
Signed(neg, n) == IF neg THEN -n ELSE n

\* The float nearest to the fraction num / den, ties to the even one.
Nearest(num, den) ==
  LET \* The distance between two floats of that size.
      step == CHOOSE s \in {2 ^ e : e \in 0 .. Width + Scale} :
                /\ Size(num) < den * s * 2 ^ Precision
                /\ s = 1 \/ 2 * Size(num) >= den * s * 2 ^ Precision
      below == Size(num) \div (den * step)
      rest  == 2 * (Size(num) % (den * step))
      up    == rest > den * step \/ (rest = den * step /\ below % 2 = 1)
  IN  Signed(num < 0, step * (IF up THEN below + 1 ELSE below))

FloatOf(int) == Nearest(int * One, 1)

\* The conversion to int_t cuts the fraction off.  Out of range it is
\* undefined: x86 gives the smallest number, other machines the nearest.
IntOf(float) ==
  LET whole == Signed(float < 0, Size(float) \div One)
  IN  IF whole \in MinInt .. MaxInt THEN {whole} ELSE {MinInt, MaxInt}

IntNumber(n)   == [type |-> "eInt", n |-> n]
FloatNumber(n) == [type |-> "eFloat", n |-> n]

-----------------------------------------------------------------------------
(* From a text to a number.                                                *)

DigitChars == <<"0", "1", "2", "3", "4", "5", "6", "7", "8", "9",
                "a", "b", "c", "d", "e", "f">>

CharToDigit(c) == CHOOSE d \in 0 .. 15 : DigitChars[d + 1] = c
DigitToChar(d) == DigitChars[d + 1]

IsNegative(str) == str # <<>> /\ str[1] = "-"

\* Mutant: the sign is not applied.
IntValueUnsigned(str, base) ==
  FoldLeft(LAMBDA sum, c : Wrap(sum * base + CharToDigit(c)), 0,
           SubSeq(str, SignLength(str) + 1, IntLength(str, base)))

\* The intPart of parseNumberInt.
IntValue(str, base) ==
  LET digits == SubSeq(str, SignLength(str) + 1, IntLength(str, base))
  IN  Wrap(Signed(IsNegative(str),
                  FoldLeft(LAMBDA sum, c : Wrap(sum * base + CharToDigit(c)),
                           0, digits)))

\* Mutant: the magnitude is divided before the digit is added.
FrcValueLate(digits, base) ==
  LET after[i \in 0 .. Len(digits)] ==
        IF i = 0 THEN [sum |-> 0, magnitude |-> Nearest(One, base)]
        ELSE LET before == after[i - 1]
                 magnitude == Nearest(before.magnitude, base)
             IN  [sum |-> Nearest(before.sum + Nearest(CharToDigit(digits[i]) * magnitude, 1), 1),
                  magnitude |-> magnitude]
  IN  after[Len(digits)].sum

\* The frcPart of parseNumberFrc, after each digit.
FrcValue(digits, base) ==
  LET after[i \in 0 .. Len(digits)] ==
        IF i = 0 THEN [sum |-> 0, magnitude |-> Nearest(One, base)]
        ELSE LET before == after[i - 1]
                 part == Nearest(CharToDigit(digits[i]) * before.magnitude, 1)
             IN  [sum |-> Nearest(before.sum + part, 1),
                  magnitude |-> Nearest(before.magnitude, base)]
  IN  after[Len(digits)].sum

\* parseNumber: the sign is looked for behind the base prefix.
NumberOf(str) ==
  LET prefix   == BaseOf(str)
      rest     == From(str, prefix.prefixLen + 1)
      fraction == From(rest, IntLength(rest, prefix.base) + 2)
      intPart  == IntValue(rest, prefix.base)
      frcPart  == FrcValue(SubSeq(fraction, 1, LeadingDigits(fraction, prefix.base)),
                           prefix.base)
  IN  IF ParseNumber(str).value.type = "eInt"
        THEN IntNumber(intPart)
        ELSE FloatNumber(Nearest(FloatOf(intPart) + Signed(IsNegative(rest), frcPart), 1))

-----------------------------------------------------------------------------
(* From an int_t to a text.                                                *)

\* The loop of serializeIntNumber, which a negative number does not enter.
Decimal(n) ==
  LET digits[k \in Nat] ==
        IF k = 0 THEN <<>>
                 ELSE Append(digits[k \div 10], DigitToChar(k % 10))
  IN  IF n > 0 THEN digits[n] ELSE <<>>

\* serializeIntNumber: -n overflows for the smallest number.
IntText(n) ==
  IF n < 0 THEN <<"-">> \o Decimal(Wrap(-n))
  ELSE IF n = 0 THEN <<"0">> ELSE Decimal(n)

-----------------------------------------------------------------------------
(* Rounding a decimal text.                                                *)

\* The last position that does not hold a 9, or 0.
LastNotNine(str) ==
  CHOOSE i \in 0 .. Len(str) :
    /\ i > 0 => str[i] # "9"
    /\ \A j \in i + 1 .. Len(str) : str[j] = "9"

\* A digit that is not 9, plus one.
Successor(c) == DigitToChar(CharToDigit(c) + 1)

\* The carry to the integer part: its trailing nines become zeros, and one
\* is added to the digit before them, or put there.
IncInteger(str) ==
  LET cursor == LastNotNine(str)
      zeros  == [i \in 1 .. Len(str) - cursor |-> "0"]
      before == SubSeq(str, 1, cursor)
  IN  (IF cursor = 0 \/ before[cursor] \in Signs
         THEN Append(before, "1")
         ELSE [before EXCEPT ![cursor] = Successor(@)]) \o zeros

\* Mutant: the carry stops at the period.
NumStrIncLastDigitFraction(str) ==
  LET kept == SubSeq(str, 1, LastNotNine(str))
  IN  IF Last(kept) = "." THEN Append(kept, "0")
                          ELSE [kept EXCEPT ![Len(kept)] = Successor(@)]

\* numStrIncLastDigit of a text with a period.
NumStrIncLastDigit(str) ==
  LET kept == SubSeq(str, 1, LastNotNine(str))
  IN  IF Last(kept) = "." THEN IncInteger(Front(kept)) \o <<".", "0">>
                          ELSE [kept EXCEPT ![Len(kept)] = Successor(@)]

\* How often the character at position i is repeated from there on.
RunLength(str, i) ==
  CHOOSE n \in 1 .. Len(str) + 1 - i :
    /\ \A j \in i .. i + n - 1 : str[j] = str[i]
    /\ i + n <= Len(str) => str[i + n] # str[i]

\* Where roundFloatRep trims the text, or 0: at the first digits - 1 zeros or
\* nines in a row.  Behind a shorter run the search passes over a character.
TrimPos(str, first, digits) ==
  LET search[i \in Nat] ==
        IF i > Len(str) THEN 0
        ELSE IF str[i] \notin {"0", "9"} THEN search[i + 1]
        ELSE IF RunLength(str, i) >= digits - 1 THEN i
        ELSE search[i + RunLength(str, i) + 1]
  IN  search[first]

\* roundFloatRep of the texts it is called with, which have base 10.
RoundFloatRep(str, digits) ==
  LET points  == {i \in 1 .. Len(str) : str[i] = "."}
      trimPos == IF points = {} THEN 0
                 ELSE TrimPos(str, 1 + CHOOSE i \in points : TRUE, digits)
      kept    == SubSeq(str, 1, trimPos - 1)
  IN  IF trimPos = 0 THEN str
      ELSE IF str[trimPos] = "9" THEN NumStrIncLastDigit(kept)
      ELSE IF Last(kept) = "." THEN Append(kept, "0") ELSE kept
=============================================================================
