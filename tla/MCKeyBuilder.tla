---------------------------- MODULE MCKeyBuilder ----------------------------
(***************************************************************************)
(* Names that are fine, names with periods of their own in every place,    *)
(* and the characters that sort before and after the period.               *)
(***************************************************************************)
EXTENDS KeyBuilder

MCNames == {<<>>, <<"a">>, <<"a", "-">>, <<"a", ".", "1">>, <<"_", ".">>,
            <<"a", " ">>}
=============================================================================
