--------------------------- MODULE MCNumberWriter ---------------------------
(***************************************************************************)
(* Floats have fewer significant bits than integers have bits: as in the   *)
(* code, the largest int_t is not a float.  Every int_t, and every float   *)
(* up to twice the limit of int_t.  Texts begin with a sign or a digit and *)
(* go on with digits, periods and letters of three kinds: a base prefix, a *)
(* digit in one base only, and one that is never a digit.                  *)
(***************************************************************************)
EXTENDS NumberWriter

MCFloats == {k * 2 ^ e : k \in -(2 ^ Precision) .. 2 ^ Precision, e \in 0 .. Width + Scale - Precision}
MCValues == {IntNumber(k) : k \in MinInt .. MaxInt} \union {FloatNumber(k) : k \in MCFloats}

\* Fractions with runs of zeros and nines in all places.
MCDecimals ==
  {whole \o <<".">> \o fraction :
     whole \in {<<"0">>, <<"-", "0">>, <<"1">>, <<"9">>, <<"-", "9">>, <<"1", "9">>, <<"9", "9">>},
     fraction \in BoundedSeq({"0", "4", "8", "9"}, 4) \ {<<>>}}

MCTexts ==
  MCDecimals \union {<<sign>> \o rest : sign \in Signs, rest \in BoundedSeq({"0", "1", "9", "x", "."}, 4)}
    \union {<<d>> \o rest : d \in {"0", "1", "9"}, rest \in BoundedSeq({"0", "1", "9", "x", "b", "z", "."}, 4)}
=============================================================================
