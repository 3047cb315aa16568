--------------------------- MODULE MCRawDataHeap ---------------------------
(***************************************************************************)
(* Two objects that own up to three buffers, with up to two elements in    *)
(* the arrays, when a call begins; and one text, or one whose first        *)
(* character is a NUL.                                                     *)
(***************************************************************************)
EXTENDS RawDataValues

MCTexts == {<<"x", "y">>}
MCBinaryTexts == {<<NUL, "y">>}
=============================================================================
