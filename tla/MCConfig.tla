------------------------------ MODULE MCConfig ------------------------------
(***************************************************************************)
(* Two Configs, with an entry in the group g, one of the group's own name, *)
(* one that sorts behind them, and the empty key; or with one that sorts   *)
(* between the group and its entry.  A value is converted to other types,  *)
(* to an array only, or owns what can be viewed.                           *)
(***************************************************************************)
EXTENDS ConfigGetters, Values

MCElementText(elem) == SerializeEntry(DefaultRules, BeginState, elem).text
MCKeys == {<<>>, <<"g">>, <<"g", ".", "a">>, <<"h">>}
MCHidingKeys == {<<"g", "-">>, <<"g", ".", "a">>}
MCGroups == {<<>>, <<"g">>}
One == IntData(<<"1">>)
MCValues == {FloatData(<<"2", ".", "5">>), BoolData(TRUE), ArrayData(<<One, ArrayData(<<One>>)>>)}
=============================================================================
