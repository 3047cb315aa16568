--------------------------- MODULE ConfigContract ---------------------------
(***************************************************************************)
(* What the comments above the members of class Config say they do         *)
(* (src/include/apcf.hpp).  A call of a member that loops is made, and does *)
(* all of what it does when it returns.  A Config is a function from its   *)
(* keys to their values.                                                   *)
(***************************************************************************)
EXTENDS Keys

CONSTANTS Configs, EntryKeys, Groups, Values

VARIABLES store,             \* the configs
          call,              \* the call that has been made, or Idle
          thrown             \* whether the last call threw InvalidKey

Empty == [k \in {} |-> NullData]

Assigned(map, k, v) ==
  [x \in DOMAIN map \union {k} |-> IF x = k THEN v ELSE map[x]]

\* "Copy every entry of the given Config."
Merged(map, from) ==
  [x \in DOMAIN map \union DOMAIN from |->
     IF x \in DOMAIN from THEN from[x] ELSE map[x]]

Nulls(map) == [x \in DOMAIN map |-> NullData]

\* "... with their keys prefixed by the given group name and an implicit
\* separator."
Prefixed(from, group) ==
  [x \in {JoinKeys(group, k) : k \in DOMAIN from} |->
     from[CHOOSE k \in DOMAIN from : JoinKeys(group, k) = x]]

InGroup(k, group) ==
  /\ Len(k) > Len(group) /\ SubSeq(k, 1, Len(group)) = group
  /\ k[Len(group) + 1] = "."

WithoutGroup(k, group) == SubSeq(k, Len(group) + 2, Len(k))

\* "Filters each key with the given group name, removing the latter from the
\* former."
Subconfig(map, group) ==
  LET keys == {k \in DOMAIN map : InGroup(k, group)}
  IN  [x \in {WithoutGroup(k, group) : k \in keys} |->
         map[CHOOSE k \in keys : WithoutGroup(k, group) = x]]

-----------------------------------------------------------------------------
Idle == [op |-> "none"]

Init == store = [c \in Configs |-> Empty] /\ call = Idle /\ thrown = FALSE

Set(c, k, v) ==
  /\ call = Idle
  /\ store' = [store EXCEPT ![c] = Assigned(@, k, v)]
  /\ thrown' = FALSE /\ UNCHANGED call

\* setDefaultCfgValue: an entry that is there stays as it is.
SetDefault(c, k, v) ==
  IF k \in DOMAIN store[c] THEN thrown' = FALSE /\ UNCHANGED <<store, call>>
                           ELSE Set(c, k, v)

Call(op, dst, src, group) ==
  /\ call = Idle
  /\ call' = [op |-> op, dst |-> dst, src |-> src, group |-> group]
  /\ UNCHANGED <<store, thrown>>

\* The call returns, and has made the Config that it is about this map.
Returns(map) ==
  /\ call' = Idle
  /\ store' = [store EXCEPT ![call.dst] = map]
  /\ thrown' = FALSE

Merge == call.op = "merge" /\ Returns(Merged(store[call.dst], store[call.src]))

\* merge(Config&&): the values are moved, which leaves nulls.
MergeMoved ==
  /\ call.op = "mergeMoved" /\ call' = Idle
  /\ store' = [store EXCEPT ![call.dst] = Merged(@, store[call.src]),
                            ![call.src] = Nulls(@)]
  /\ thrown' = FALSE

\* All the entries, or none and an InvalidKey.
AllKeysValid == \A k \in DOMAIN store[call.src] : IsKeyValid(JoinKeys(call.group, k))

MergeAsGroup ==
  /\ call.op = "mergeAsGroup" /\ AllKeysValid
  /\ Returns(Merged(store[call.dst], Prefixed(store[call.src], call.group)))

MergeAsGroupThrows ==
  /\ call.op = "mergeAsGroup" /\ ~ AllKeysValid
  /\ call' = Idle /\ thrown' = TRUE /\ UNCHANGED store

\* dst = src.getSubconfig(group)
GetSubconfig ==
  call.op = "getSubconfig" /\ Returns(Subconfig(store[call.src], call.group))

Next ==
  \/ \E c \in Configs, k \in EntryKeys, v \in Values :
       Set(c, k, v) \/ SetDefault(c, k, v)
  \/ \E dst \in Configs, src \in Configs :
       \/ /\ dst # src
          /\ \E op \in {"merge", "mergeMoved"} : Call(op, dst, src, <<>>)
       \/ \E group \in Groups :
            \/ dst # src /\ Call("mergeAsGroup", dst, src, group)
            \/ Call("getSubconfig", dst, src, group)
  \/ Merge \/ MergeMoved \/ MergeAsGroup \/ MergeAsGroupThrows \/ GetSubconfig

Spec == Init /\ [][Next]_<<store, call, thrown>>
=============================================================================
