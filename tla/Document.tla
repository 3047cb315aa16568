------------------------------ MODULE Document ------------------------------
(***************************************************************************)
(* The configuration language itself: what a document is, how it may be    *)
(* written down, and which entries it means.  This is the reference the    *)
(* parser is compared with; nothing here follows the steps of the code.    *)
(*                                                                         *)
(* A document is a sequence of items: an assignment (a key, the spelling   *)
(* of a value and the value), the beginning of a group, its end.           *)
(***************************************************************************)
EXTENDS Grammar, SequencesExt

Assignment(key, text, value) ==
  [op |-> "assign", key |-> key, text |-> text, value |-> value]
GroupBegin(key) ==
  [op |-> "begin", key |-> key, text |-> <<>>, value |-> ArrayData(<<>>)]
GroupEnd ==
  [op |-> "end", key |-> <<>>, text |-> <<>>, value |-> ArrayData(<<>>)]

-----------------------------------------------------------------------------
(* Writing a document down.  "before" and "after" are the blanks written   *)
(* before and after each delimiter.                                        *)

\* A value and a key that follows it need whitespace between them, unless
\* the value ends with a delimiter of its own.
NeedsSpace(item, next) ==
  /\ item.op = "assign"
  /\ item.value.type \notin {"eString", "eArray"}
  /\ next.op # "end"

ItemText(item, before, after) ==
  CASE item.op = "assign" -> item.key \o before \o <<"=">> \o after \o item.text
    [] item.op = "begin"  -> item.key \o before \o <<"{">> \o after
    [] item.op = "end"    -> before \o <<"}">> \o after

DocumentText(doc, before, after) ==
  FlattenSeq([i \in 1 .. Len(doc) |->
    ItemText(doc[i], before, after)
      \o (IF i < Len(doc) /\ NeedsSpace(doc[i], doc[i + 1])
            THEN <<" ">> ELSE <<>>)])

-----------------------------------------------------------------------------
(* What a document means.                                                  *)

Count(doc, op, from, to) == Cardinality({i \in from .. to : doc[i].op = op})

\* The group that item g begins is open just before item i.
Encloses(doc, g, i) ==
  /\ g < i /\ doc[g].op = "begin"
  /\ \A m \in g + 1 .. i - 1 :
       Count(doc, "end", g + 1, m) <= Count(doc, "begin", g + 1, m)

\* The key of item i with the keys of all groups around it.
QualifiedKey(doc, i) ==
  LET groups == SetToSortSeq({g \in 1 .. i - 1 : Encloses(doc, g, i)}, <)
  IN  FoldRight(LAMBDA g, k : JoinKeys(doc[g].key, k), groups, doc[i].key)

Assignments(doc) == {i \in 1 .. Len(doc) : doc[i].op = "assign"}

\* Of several assignments to a key "only the last one is to be considered".
Entries(doc) ==
  [k \in {QualifiedKey(doc, i) : i \in Assignments(doc)} |->
     LET those == {i \in Assignments(doc) : QualifiedKey(doc, i) = k}
     IN  doc[CHOOSE i \in those : \A j \in those : j <= i].value]

\* What parsing the document comes to: the first group end with no group to
\* end, a group left open at the end of the document, or its entries.
Verdict(doc) ==
  IF \E i \in 1 .. Len(doc) :
       Count(doc, "end", 1, i) > Count(doc, "begin", 1, i)
    THEN "UnmatchedGroupClosure"
    ELSE IF Count(doc, "begin", 1, Len(doc)) > Count(doc, "end", 1, Len(doc))
           THEN "UnclosedGroup" ELSE "ok"
=============================================================================
