-------------------------- MODULE MCDocumentParser --------------------------
(***************************************************************************)
(* Documents of up to four items over keys that nest and repeat, groups in *)
(* groups that define entries before and after the inner one ends, and one *)
(* value of every type, spelled with the characters that are special in    *)
(* it.  Then arbitrary texts, well formed or not, built from up to four    *)
(* words.  What follows those in a longer stream would make a value of its *)
(* own.                                                                    *)
(***************************************************************************)
EXTENDS DocumentParser

A  == <<"a">>
AB == <<"a", ".", "b">>
One == IntData(<<"1">>)

MCAssignments ==
  {Assignment(A, <<"1">>, One),
   Assignment(AB, <<"-", "1", ".", "2">>, FloatData(<<"-", "1", ".", "2">>))}
MCGroups == {GroupBegin(A), GroupBegin(AB)}
MCItems == MCAssignments \union MCGroups \union {GroupEnd}

Nested == ArrayData(<<One, ArrayData(<<>>), StringData(<<"]">>)>>)

Rich ==
  {Assignment(<<"b">>, <<"y">>, BoolData(TRUE)),
   Assignment(<<"b">>, <<"n", "o">>, BoolData(FALSE)),
   Assignment(<<"b">>, <<"t", "r", "u", "e">>, BoolData(TRUE)),
   Assignment(<<"b">>, <<"f", "a", "l", "s", "e">>, BoolData(FALSE)),
   Assignment(<<"b">>, <<"\"", "\\", "\"", "\\", "\\", "}", "/", "/", "\"">>,
              StringData(<<"\"", "\\", "}", "/", "/">>)),
   Assignment(<<"b">>,
              <<"[", "1", " ", "[", "/", "*", "*", "/", "]", "\"", "]", "\"",
                " ", "]">>, Nested)}

MCDocuments ==
  BoundedSeq(MCItems, 4)
    \union {<<r, i, j>> : r \in Rich, i \in MCItems, j \in MCItems}
    \union {<<i, r>> : r \in Rich, i \in MCItems}
    \union {<<g, h, i, GroupEnd, i, GroupEnd>> :
              g \in MCGroups, h \in MCGroups, i \in MCAssignments}

Comment == <<"/", "/", "*", NL>>
Block == <<"/", "*", "*", "/", "/", "*", "/", "*", "/">>
MCBlankings ==
  {<< <<>>, <<>>, <<>> >>,
   << <<" ">>, <<NL>>, <<"/", "/", "=">> >>,
   <<Comment, <<" ">> \o Block \o <<"\t">>, <<>> >>,
   <<Block, Comment, <<>> >>,
   << <<CR>>, <<>>, <<>> >>}

MCWords ==
  {<<"a", "=">>, <<"a", "{">>, <<".">>, <<"}">>, <<"y">>, <<"e", "s">>,
   <<"1">>, <<"-">>, <<"[">>, <<"]">>, <<"\"">>, <<"\\">>, <<"/">>, <<"*">>,
   <<NL>>}

MCInputs == {FlattenSeq(w) : w \in BoundedSeq(MCWords, 4)}
MCJunk == {NUL, "/", NL, "a"}
MCRest == <<"1", NL>>
=============================================================================
