------------------------------ MODULE ConfigMap ------------------------------
(***************************************************************************)
(* Class Config (src/src/apcf_config.cpp): the sorted map it wraps and the *)
(* loops over it.  A call that loops is one action per iteration.  "cur"   *)
(* is the iterator of the loop, a key or End; the next key is looked up in *)
(* the map as the iteration has left it.  A Config is not merged with      *)
(* itself: there the code reads strings and arrays that it has freed.      *)
(***************************************************************************)
EXTENDS Keys

CONSTANTS Configs,           \* Config objects
          EntryKeys,         \* the keys a client sets
          Groups,            \* the groups it passes
          Values,            \* the values it sets
          AsksHidden,        \* whether it asks for the subconfig of a group
                             \* that another key hides, see Hidden
          MaxCalls           \* bound: the calls of a behaviour

\* The client has Key objects to pass.
ASSUME KeysAssumption == EntryKeys \subseteq ValidKeys /\ Groups \subseteq ValidKeys

VARIABLES store,             \* data_ of each Config
          call,              \* the call in progress, or Idle
          cur,               \* its iterator
          result,            \* the Config r of getSubconfig
          thrown,            \* the last call threw InvalidKey
          crashed,           \* the end iterator was dereferenced
          begun,             \* history: store when the call in progress began
          calls              \* history: the number of calls so far

vars == <<store, call, cur, result, thrown, crashed, begun, calls>>

Idle == [op |-> "none"]
End  == <<NUL>>              \* data_.end(): no key contains NUL

Empty == [k \in {} |-> NullData]

\* data_[k] = v, and insert_or_assign
Assigned(map, k, v) ==
  [x \in DOMAIN map \union {k} |-> IF x = k THEN v ELSE map[x]]

\* Mutant: any text that begins with the group name will do.
CmpKeyPrefixLoosely(prefix, k) ==
  Len(k) > Len(prefix) /\ SubSeq(k, 1, Len(prefix)) = prefix

\* cmpKeyPrefix
CmpKeyPrefix(prefix, k) ==
  /\ Len(k) > Len(prefix) /\ SubSeq(k, 1, Len(prefix)) = prefix
  /\ k[Len(prefix) + 1] = "."

\* Position n is the first one of the map's keys in S; End if there is none.
IsFirst(S, n) ==
  IF S = {} THEN n = End
            ELSE n \in S /\ \A x \in S : x = n \/ KeyBefore(n, x)

\* begin(), lower_bound(k), ++ cur
IsBegin(map, n)         == IsFirst(DOMAIN map, n)
IsLowerBound(map, k, n) == IsFirst({x \in DOMAIN map : ~ KeyBefore(x, k)}, n)
IsSuccessor(map, k, n)  == IsFirst({x \in DOMAIN map : KeyBefore(k, x)}, n)

Positions(map) == DOMAIN map \union {End}

-----------------------------------------------------------------------------
Init ==
  /\ store = [c \in Configs |-> Empty] /\ begun = store
  /\ call = Idle /\ cur = End /\ result = Empty
  /\ thrown = FALSE /\ crashed = FALSE /\ calls = 0

CanCall == call = Idle /\ ~ crashed /\ calls < MaxCalls

\* Config::set and its variants.
Set(c, k, v) ==
  /\ CanCall /\ calls' = calls + 1
  /\ store' = [store EXCEPT ![c] = Assigned(@, k, v)]
  /\ begun' = store' /\ thrown' = FALSE
  /\ UNCHANGED <<call, cur, result, crashed>>

\* for(auto& entry : r.data_)
BeginMerge(op, dst, src, group) ==
  /\ CanCall /\ calls' = calls + 1
  /\ dst # src
  /\ call' = [op |-> op, dst |-> dst, src |-> src, group |-> group]
  /\ \E n \in Positions(store[src]) : IsBegin(store[src], n) /\ cur' = n
  /\ UNCHANGED <<store, result, thrown, crashed, begun>>

\* The call returns, or throws.
Return(threw) ==
  /\ call' = Idle /\ cur' = End /\ result' = Empty
  /\ thrown' = threw /\ begun' = store'
  /\ UNCHANGED <<crashed, calls>>

\* ++ cur
Advance ==
  \E n \in Positions(store'[call.src]) :
    IsSuccessor(store'[call.src], cur, n) /\ cur' = n

InLoop(op) == call.op = op /\ cur # End /\ ~ crashed

\* merge(const Config&), one iteration.
MergeEntry ==
  /\ InLoop("merge")
  /\ store' = [store EXCEPT ![call.dst] = Assigned(@, cur, store[call.src][cur])]
  /\ Advance
  /\ UNCHANGED <<call, result, thrown, crashed, begun, calls>>

\* Mutant: a value is moved only if the destination has no such entry, as
\* with std::map::merge, but it is taken from the source in any case.
MergeMovedEntryInsert ==
  LET value == store[call.src][cur]
      given == IF cur \in DOMAIN store[call.dst] THEN store
               ELSE [store EXCEPT ![call.dst] = Assigned(@, cur, value)]
  IN  /\ InLoop("mergeMoved")
      /\ store' = [given EXCEPT ![call.src] = Assigned(@, cur, NullData)]
      /\ Advance
      /\ UNCHANGED <<call, result, thrown, crashed, begun, calls>>

\* merge(Config&&), one iteration: the key is const and copied, the value is
\* moved and leaves a null.
MergeMovedEntry ==
  LET given == [store EXCEPT ![call.dst] = Assigned(@, cur, store[call.src][cur])]
  IN  /\ InLoop("mergeMoved")
      /\ store' = [given EXCEPT ![call.src] = Assigned(@, cur, NullData)]
      /\ Advance
      /\ UNCHANGED <<call, result, thrown, crashed, begun, calls>>

\* mergeAsGroup, one iteration.  Of a Config&& it copies as well, since
\* begin() gives it a const_iterator.
GroupEntry ==
  LET key == JoinKeys(call.group, cur)
  IN  /\ InLoop("mergeAsGroup") /\ IsKeyValid(key)
      /\ store' = [store EXCEPT ![call.dst] = Assigned(@, key, store[call.src][cur])]
      /\ Advance
      /\ UNCHANGED <<call, result, thrown, crashed, begun, calls>>

\* The constructor of the Key that is passed to set throws.
GroupKeyThrows ==
  /\ InLoop("mergeAsGroup") /\ ~ IsKeyValid(JoinKeys(call.group, cur))
  /\ UNCHANGED store
  /\ Return(TRUE)

\* Mutant: the end of the range is not looked at after the last entry.
EndMergeNever ==
  /\ call.op \in {"merge", "mergeMoved", "mergeAsGroup"} /\ cur = End
  /\ UNCHANGED <<store, call, result, thrown, crashed, begun, calls>>
  /\ Advance

EndMerge ==
  /\ call.op \in {"merge", "mergeMoved", "mergeAsGroup"} /\ cur = End
  /\ UNCHANGED store
  /\ Return(FALSE)

\* A key that sorts between the name of a group and the keys in it: the name
\* itself, or a name such as "group-x".
Hides(k, group) == ~ KeyBefore(k, group) /\ KeyBefore(k, group \o <<".">>)

\* What the header does not say: such a key hides the keys in the group from
\* getSubconfig.
Hidden(map, group) ==
  \E k, l \in DOMAIN map : Hides(k, group) /\ CmpKeyPrefix(group, l)

\* dst = src.getSubconfig(group), up to its loop.
BeginSubconfig(dst, src, group) ==
  /\ CanCall /\ calls' = calls + 1
  /\ AsksHidden \/ ~ Hidden(store[src], group)
  /\ call' = [op |-> "getSubconfig", dst |-> dst, src |-> src, group |-> group]
  /\ \E n \in Positions(store[src]) : IsLowerBound(store[src], group, n) /\ cur' = n
  /\ UNCHANGED <<store, result, thrown, crashed, begun>>

SubconfigEntry ==
  /\ InLoop("getSubconfig") /\ CmpKeyPrefix(call.group, cur)
  /\ result' = Assigned(result, SubSeq(cur, Len(call.group) + 2, Len(cur)),
                        store[call.src][cur])
  /\ UNCHANGED <<store, call, thrown, crashed, begun, calls>>
  /\ Advance

\* The loop has come to a key that is not in the group, or begins at the end
\* and is not entered; or it compares whatever the end iterator refers to, and
\* that does not look like a key of the group.
EndSubconfig ==
  /\ call.op = "getSubconfig" /\ ~ crashed
  /\ cur # End => ~ CmpKeyPrefix(call.group, cur)
  /\ store' = [store EXCEPT ![call.dst] = result]
  /\ Return(FALSE)

\* The end iterator is dereferenced: cur is not compared with end again after
\* the loop has been entered.
DereferenceEnd ==
  /\ call.op = "getSubconfig" /\ cur = End /\ result # Empty /\ ~ crashed
  /\ crashed' = TRUE
  /\ UNCHANGED <<store, call, cur, result, thrown, begun, calls>>

Step ==
  \/ MergeEntry \/ MergeMovedEntry \/ GroupEntry \/ GroupKeyThrows \/ EndMerge
  \/ SubconfigEntry \/ EndSubconfig \/ DereferenceEnd

Next ==
  \/ \E c \in Configs, k \in EntryKeys, v \in Values : Set(c, k, v)
  \/ \E dst \in Configs, src \in Configs :
       \/ \E op \in {"merge", "mergeMoved"} : BeginMerge(op, dst, src, <<>>)
       \/ \E group \in Groups :
            \/ BeginMerge("mergeAsGroup", dst, src, group)
            \/ BeginSubconfig(dst, src, group)
  \/ Step

\* A call that has begun goes on; no client has to call.
Spec == Init /\ [][Next]_vars /\ WF_vars(Step)

-----------------------------------------------------------------------------
(* Properties.                                                             *)

\* The loops over two distinct Configs do what the comments in the header say
\* of each call as a whole: every entry, none twice, none missed, none changed
\* that is not concerned; mergeAsGroup throws before it has set anything;
\* getSubconfig returns the whole group.  The last is not so if the client asks
\* for a group that another key hides.
Contract == INSTANCE ConfigContract WITH store <- begun
ContractSpec == Contract!Spec

\* While merge(Config&&) is under way every value that it was given is in
\* exactly one place: still in the source, or in the destination with a null
\* left behind.
MoveLosesNothing ==
  call # Idle => (call.op = "mergeMoved" =>
    \A k \in DOMAIN begun[call.src] :
      LET value == begun[call.src][k]
      IN  IF cur = End \/ KeyBefore(k, cur)
            THEN store[call.src][k] = NullData /\ store[call.dst][k] = value
            ELSE store[call.src][k] = value)

\* No key of the map comes after those in the group.
IsLast(group, map) ==
  \A k \in DOMAIN map : CmpKeyPrefix(group, k) \/ KeyBefore(k, group)

\* Every call comes to its end, though it looks for the next key in a map that
\* it may change: it returns, or throws, but for a getSubconfig of a group whose
\* keys are the last in the map, which may be lost behind the end of the map.
CallEnds ==
  call # Idle ~> \/ call = Idle
                 \/ /\ crashed /\ call.op = "getSubconfig"
                    /\ IsLast(call.group, begun[call.src])
=============================================================================
