---------------------------- MODULE MCHierarchy ----------------------------
(***************************************************************************)
(* All keys of up to three levels over two names, three of them put.       *)
(***************************************************************************)
EXTENDS Hierarchy, SequencesExt

MCKeys == BoundedSeq(Names, 3) \ {<<>>}
=============================================================================
