--------------------------- MODULE ConfigGetters ---------------------------
(***************************************************************************)
(* The getters of src/src/apcf_config.cpp and the templates that fall back *)
(* on a default (src/include/apcf_templates.hpp), on whatever the calls of *)
(* ConfigAccess have left in a Config.                                     *)
(***************************************************************************)
EXTENDS ConfigAccess, SequencesExt

\* What the serializer writes for an element of an array, with the default
\* rules.
CONSTANT ElementText(_)

Types == {"eNull", "eBool", "eInt", "eFloat", "eString", "eArray"}

\* A value has one of the types of apcf::Type; null is nothing but its type.
ASSUME TypesAssumption ==
  \A v \in Values : v.type \in Types /\ (v.type = "eNull" => v = NullData)

(* The getters have no effect.  An answer is a value, or the name of what   *)
(* the getter does instead: it returns nullopt, throws, or is stopped by    *)
(* its assertion, in a debug build, that the entry is not null, as it is    *)
(* after its value was moved.  A getter asks for the entry and hands        *)
(* nullopt on.                                                              *)

Nullopt      == Datum("nullopt", <<>>, <<>>)
InvalidValue == Datum("InvalidValue", <<>>, <<>>)
Aborted      == Datum("assertion", <<>>, <<>>)

\* Config::get: nullopt if there is no such entry.
Get(map, k) == IF k \in DOMAIN map THEN map[k] ELSE Nullopt

\* The conversion of a finite number that is not negative to an integer.
Truncated(text) ==
  SubSeq(text, 1, (CHOOSE i \in 1 .. Len(text) : text[i] = ".") - 1)

\* std::to_string, for a number of one decimal.
SixDecimals(text) == text \o <<"0", "0", "0", "0", "0">>

\* "[ ", each element and a space, "]".
ArrayString(elems) ==
  <<"[", " ">>
    \o FlattenSeq([i \in 1 .. Len(elems) |-> ElementText(elems[i]) \o <<" ">>])
    \o <<"]">>

BoolOf(value) ==
  IF value.type \in {"eBool", "nullopt"} THEN value
  ELSE IF value.type = "eNull" THEN Aborted
  ELSE InvalidValue

IntOf(value) ==
  IF value.type \in {"eInt", "nullopt"} THEN value
  ELSE IF value.type = "eFloat" THEN IntData(Truncated(value.text))
  ELSE IF value.type = "eNull" THEN Aborted
  ELSE InvalidValue

\* The one getter that does not mind a null.
FloatOf(value) ==
  IF value.type \in {"eFloat", "nullopt"} THEN value
  ELSE IF value.type = "eInt" THEN FloatData(value.text \o <<".", "0">>)
  ELSE InvalidValue

StringOf(value) ==
  IF value.type \in {"eString", "nullopt"} THEN value
  ELSE IF value.type = "eInt" THEN StringData(value.text)
  ELSE IF value.type = "eFloat" THEN StringData(SixDecimals(value.text))
  ELSE IF value.type = "eArray" THEN StringData(ArrayString(value.elems))
  ELSE IF value.type = "eNull" THEN Aborted
  ELSE InvalidValue

\* Mutant: only arrays are given as arrays.
ArrayOfArray(value) ==
  IF value.type \in {"eArray", "nullopt"} THEN value
  ELSE IF value.type = "eNull" THEN Aborted
  ELSE InvalidValue

\* A value that is no array is given as an array of one.
ArrayOf(value) ==
  IF value.type \in {"eArray", "nullopt"} THEN value
  ELSE IF value.type = "eNull" THEN Aborted
  ELSE ArrayData(<<value>>)

\* coalesceCfgValue, of what a getter answers.
Coalesce(answer, default) == IF answer = Nullopt THEN default ELSE answer

-----------------------------------------------------------------------------
(* Properties.                                                             *)

Has(answer) == answer \notin {Nullopt, InvalidValue, Aborted}

\* The getters agree on what an entry is: a value has a whole part when it has
\* a number, a text unless it is a boolean, and is always an array; a default
\* is taken for an entry that is missing only, never for one that is of the
\* wrong type; and the entries that merge(Config&&) has left behind, and no
\* others, stop every getter but getFloat, which throws.
GettersAgree ==
  \A c \in Configs : \A k \in EntryKeys :
    LET map    == store[c]
        answer == Get(map, k)
        valued == k \in DOMAIN map /\ answer # NullData
    IN  /\ Has(IntOf(answer)) <=> Has(FloatOf(answer))
        /\ Has(IntOf(answer)) => Has(StringOf(answer)) /\ ~ Has(BoolOf(answer))
        /\ Has(ArrayOf(answer)) <=> valued
        /\ Has(StringOf(answer)) \/ Has(BoolOf(answer)) <=> valued
        /\ Coalesce(BoolOf(answer), NullData) = NullData <=> k \notin DOMAIN map
        /\ \A given \in {BoolOf(answer), IntOf(answer), StringOf(answer),
                        ArrayOf(answer)} : given = Aborted <=> answer = NullData
        /\ answer = NullData => FloatOf(answer) = InvalidValue
=============================================================================
