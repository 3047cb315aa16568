------------------------------ MODULE Grammar ------------------------------
(***************************************************************************)
(* The character classes and the key syntax every other module shares      *)
(* (src/src/apcf_.hpp, src/src/apcf_util.cpp and the Key class of          *)
(* src/src/apcf.cpp).  A character is a one-character string; the NUL the  *)
(* readers return past the end of their data is the string "NUL".  A text, *)
(* and a key, is a sequence of characters.                                 *)
(***************************************************************************)
EXTENDS Naturals, Sequences

NUL == "NUL"        \* GRAMMAR_NULL
NL  == "\n"         \* GRAMMAR_NEWLINE
CR  == "\r"

Digits == {"0", "1", "2", "3", "4", "5", "6", "7", "8", "9"}
Letters ==
  {"a", "b", "c", "d", "e", "f", "g", "h", "i", "j", "k", "l", "m",
   "n", "o", "p", "q", "r", "s", "t", "u", "v", "w", "x", "y", "z"}
Signs == {"+", "-"}

\* isNumerical and isAlphanum; the capital letters behave as the small ones
\* do and are left out of the alphabet.
IsNumerical(c) == c \in Digits
IsAlphanum(c) == c \in Digits \union Letters

KeyChars == Digits \union Letters \union {"_", "-", "."}

IsValidKeyChar(c) == c \in KeyChars

\* Mutant: a carriage return is whitespace, as src/README.md has it.
IsWhitespaceOrReturn(c) == c \in {" ", "\t", "VT", NL, CR}

\* isWhitespace: the set is " \t\v\n", so a carriage return is not in it.
IsWhitespace(c) == c \in {" ", "\t", "VT", NL}

-----------------------------------------------------------------------------
(* Keys.                                                                   *)

\* The character at 1-based position i makes findKeyError return: it is no
\* key character, or a period with no character of a name before it.
KeyErrorAt(str, i) ==
  \/ ~ IsValidKeyChar(str[i])
  \/ str[i] = "." /\ (i = 1 \/ str[i - 1] = ".")

\* findKeyError: the 0-based position of the first error, or Len(str).
FindKeyError(str) ==
  LET errors == {i \in 1 .. Len(str) : KeyErrorAt(str, i)}
  IN  IF errors # {}
        THEN (CHOOSE i \in errors : \A j \in errors : i <= j) - 1
        ELSE IF str # <<>> /\ str[Len(str)] = "." THEN Len(str) - 1
                                                  ELSE Len(str)

\* isKeyValid, and the test the Key constructors throw InvalidKey on.  The
\* empty key passes it.
IsKeyValid(str) == FindKeyError(str) = Len(str)

\* What a Key object may hold.
ValidKeys == {k \in Seq(KeyChars) : IsKeyValid(k)}

\* pd.keyStack.back() + '.' + key, groupKey + '.' + entry.first
JoinKeys(group, key) == group \o <<".">> \o key

-----------------------------------------------------------------------------
(* RawData values.  "text" holds the characters of a number, a boolean or  *)
(* a string, "elems" the elements of an array; the field a type does not   *)
(* use is empty, so that any two values can be compared.                   *)

Datum(type, text, elems) == [type |-> type, text |-> text, elems |-> elems]

NullData        == Datum("eNull", <<>>, <<>>)
BoolData(b)     == Datum("eBool", IF b THEN <<"y">> ELSE <<"n">>, <<>>)
IntData(text)   == Datum("eInt", text, <<>>)
FloatData(text) == Datum("eFloat", text, <<>>)
StringData(text) == Datum("eString", text, <<>>)
ArrayData(elems) == Datum("eArray", <<>>, elems)
=============================================================================
