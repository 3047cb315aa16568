----------------------------- MODULE Serializer -----------------------------
(***************************************************************************)
(* Config::serialize and Config::write (src/src/apcf_serialize.cpp): the   *)
(* entries of a Config are written in groups, which a walk over a          *)
(* ConfigHierarchy opens and closes, or one by one with their full keys.   *)
(*                                                                         *)
(* A key is a sequence of names, as in KeyTree; a name is one character.   *)
(* What is written is a sequence of characters.                            *)
(***************************************************************************)
EXTENDS KeyTree, SerializationState, SequencesExt

CONSTANTS Configs,        \* the maps from keys to values that are written
          RulesUsed,      \* the SerializationRules they are written with
          Hierarchies,    \* trees for SerializationRules::hierarchy to point to
          Before(_, _),   \* the order of the keys in a std::map or std::set
          Entry(_, _, _), \* the text of a value, and the state after it
          Throws(_, _),   \* ... unless serializing it throws InvalidValue
          Asserts(_, _)   \* ... or fails an assertion, which aborts

\* No key is empty: putKey asserts it (src/src/apcf_hierarchy.cpp), and the
\* empty key has no text.
ASSUME ConfigsAssumption ==
  \A m \in Configs : IsFiniteSet(DOMAIN m) /\ DOMAIN m \subseteq Seq(STRING) \ {<<>>}

\* A ConfigHierarchy holds the levels of the keys it has been built from.
ASSUME HierarchiesAssumption ==
  \A tree \in Hierarchies : \E keys \in SUBSET Nodes(tree) :
    IsFiniteSet(keys) /\ keys \subseteq Seq(STRING) /\ tree = TreeOf(LevelsOf(keys))

\* The keys that are compared, and the order they have.
KeysUsed == LevelsOf((UNION {DOMAIN m : m \in Configs})
                       \union (UNION {Nodes(tree) : tree \in Hierarchies}))

ASSUME OrderAssumption ==
  /\ \A k \in KeysUsed : ~ Before(k, k)
  /\ \A k, l \in KeysUsed : k # l => Before(k, l) \/ Before(l, k)
  /\ \A k, l, m \in KeysUsed : Before(k, l) /\ Before(l, m) => Before(k, m)

VARIABLES map,            \* the Config's data_
          rules,          \* the flags
          given,          \* SerializationRules::hierarchy: no tree, or one
          hierarchy,      \* the one that is walked
          pc,
          frames,         \* the calls of serializeHierarchy in progress
          key,            \* the key being visited
          ownEntry,       \* lineFlagsOwnEntryBit of lastLineFlags
          arrayEnd,       \* lineFlagsArrayEndBit
          groupEnd,       \* lineFlagsGroupEndBit
          state,          \* the SerializationState
          dst,            \* the characters written
          result,         \* "none", "ok", "InvalidValue" or "Aborted"
          written         \* history: the keys of the entries written

layout == <<ownEntry, arrayEnd, groupEnd, state>>

svars == <<map, rules, given, hierarchy, pc, frames, key, layout,
           dst, result, written>>

SInit ==
  /\ map \in Configs
  /\ rules \in RulesUsed
  /\ given \in {{}} \union {{tree} : tree \in Hierarchies}
  /\ hierarchy = TreeOf({})
  /\ pc = "begin"
  /\ frames = <<>> /\ key = <<>>
  /\ ownEntry = FALSE /\ arrayEnd = FALSE /\ groupEnd = FALSE
  /\ state = BeginState
  /\ dst = <<>>
  /\ result = "none"
  /\ written = <<>>

-----------------------------------------------------------------------------
\* The characters of a key.
KeyText(k) ==
  [i \in 1 .. 2 * Len(k) - 1 |-> IF i % 2 = 1 THEN k[(i + 1) \div 2] ELSE "."]

\* A std::set or std::map in its order: behind each key come those it is
\* before.
Ascending(keys) ==
  [i \in 1 .. Cardinality(keys) |->
     CHOOSE k \in keys : Cardinality({l \in keys : Before(l, k)}) = i - 1]

\* Mutant: the arrays are forgotten.
SortedNoArrays(tree, keys) ==
  LET IsGroup(k) == k \notin DOMAIN map \/ Subkeys(tree, k) # {}
      groups  == {k \in keys : IsGroup(k)}
      arrays  == {k \in keys \ groups : map[k].type = "eArray"}
      singles == keys \ (groups \union arrays)
  IN  Ascending(groups) \o Ascending(singles)

\* sortEntries: the groups, the arrays and the single entries among keys.
Sorted(tree, keys) ==
  LET IsGroup(k) == k \notin DOMAIN map \/ Subkeys(tree, k) # {}
      groups  == {k \in keys : IsGroup(k)}
      arrays  == {k \in keys \ groups : map[k].type = "eArray"}
      singles == keys \ (groups \union arrays)
  IN  Ascending(groups) \o Ascending(arrays) \o Ascending(singles)

\* Mutant: the parent's subkeys are visited instead.
VisitsSiblings(tree, ref) ==
  Ascending({Completion(tree, k) : k \in Subkeys(tree, Parent(ref))})

\* The autocompleted subkeys of a key, in the order they are visited in.
Visits(tree, ref) ==
  LET subkeys == Ascending(Subkeys(tree, ref))
      completed == [i \in 1 .. Len(subkeys) |-> Completion(tree, subkeys[i])]
  IN  IF rules.minimized THEN completed ELSE Sorted(tree, ToSet(completed))

Top == frames[Len(frames)]
Frame(ref, todo) == [key |-> ref, todo |-> todo]

BasenameSpan(k, parent) == SubSeq(k, Len(parent) + 1, Len(k))

-----------------------------------------------------------------------------
\* eExpandKeys: the entries in the order of the map.
BeginExpanded ==
  /\ pc = "begin"
  /\ rules.expandKeys
  /\ frames' = <<Frame(<<>>, Ascending(DOMAIN map))>>
  /\ pc' = "next"
  /\ UNCHANGED <<map, rules, given, hierarchy, key, layout, dst,
                 result, written>>

\* The root of the hierarchy, which is built from the map unless the rules
\* provide one.
BeginGrouped ==
  /\ pc = "begin"
  /\ ~ rules.expandKeys
  /\ hierarchy' = IF given = {}
                    THEN TreeOf(LevelsOf(DOMAIN map))
                    ELSE CHOOSE tree \in given : TRUE
  /\ frames' = <<Frame(<<>>, Visits(hierarchy', <<>>))>>
  /\ pc' = "next"
  /\ UNCHANGED <<map, rules, given, key, layout, dst, result,
                 written>>

\* The next iteration of the innermost loop.
VisitNext ==
  /\ pc = "next"
  /\ Top.todo # <<>>
  /\ key' = Head(Top.todo)
  /\ frames' = [frames EXCEPT ![Len(frames)] = Frame(@.key, Tail(@.todo))]
  /\ pc' = "entry"
  /\ UNCHANGED <<map, rules, given, hierarchy, layout, dst,
                 result, written>>

\* Mutant: the space is written after arrays only.
EntryGapInverted == IF rules.minimized /\ ownEntry /\ arrayEnd THEN <<" ">> ELSE <<>>

\* The space eMinimized puts between an entry and what follows it.
EntryGap == IF rules.minimized /\ ownEntry /\ ~ arrayEnd THEN <<" ">> ELSE <<>>

\* The blank line before an entry: after a group, after an array that takes
\* several lines, and before an array that might.
EntryBlank(value) ==
  LET doSpaceArray == /\ value.type = "eArray" /\ value.elems # <<>>
                      /\ ownEntry /\ ~ rules.forceInlineArrays
  IN  IF ~ rules.expandKeys /\ (groupEnd \/ (arrayEnd /\ ownEntry) \/ doSpaceArray)
        THEN <<"\n">> ELSE <<>>

EntryBegin(value) ==
  LET basename == KeyText(BasenameSpan(key, Top.key))
  IN  IF rules.minimized THEN EntryGap \o basename \o <<"=">>
      ELSE EntryBlank(value) \o state.indentation \o basename \o <<" ", "=", " ">>

EndOfLine == IF rules.minimized THEN <<>> ELSE <<"\n">>

\* Serializing a value ends the walk.
Fails(value) == Throws(rules, value) \/ Asserts(rules, value)
Failure(value) == IF Asserts(rules, value) THEN "Aborted" ELSE "InvalidValue"

\* Mutant: the value is serialized before the key is written.
WriteEntryValueFirst ==
  /\ pc = "entry"
  /\ key \in DOMAIN map
  /\ IF Fails(map[key])
       THEN /\ pc' = "done" /\ result' = Failure(map[key])
            /\ UNCHANGED <<dst, layout, written>>
       ELSE \E value \in {Entry(rules, state, map[key])} :
               /\ dst' = dst \o EntryBegin(map[key]) \o value.text \o EndOfLine
               /\ pc' = "group"
               /\ ownEntry' = TRUE /\ groupEnd' = FALSE
               /\ arrayEnd' = (map[key].type = "eArray" /\ ~ value.state.lastArrayWasInline)
               /\ state' = value.state
               /\ written' = Append(written, key)
               /\ UNCHANGED result
  /\ UNCHANGED <<map, rules, given, hierarchy, frames, key>>

\* serializeLineEntry: the key is written before the value is serialized,
\* so an exception leaves it behind.
WriteEntry ==
  /\ pc = "entry"
  /\ key \in DOMAIN map
  /\ IF Fails(map[key])
       THEN /\ dst' = dst \o EntryBegin(map[key])
            /\ pc' = "done" /\ result' = Failure(map[key])
            /\ UNCHANGED <<layout, written>>
       ELSE \E value \in {Entry(rules, state, map[key])} :
               /\ dst' = dst \o EntryBegin(map[key]) \o value.text \o EndOfLine
               /\ pc' = "group"
               /\ ownEntry' = TRUE /\ groupEnd' = FALSE
               /\ arrayEnd' = (map[key].type = "eArray" /\ ~ value.state.lastArrayWasInline)
               /\ state' = value.state
               /\ written' = Append(written, key)
               /\ UNCHANGED result
  /\ UNCHANGED <<map, rules, given, hierarchy, frames, key>>

NoEntry ==
  /\ pc = "entry"
  /\ key \notin DOMAIN map
  /\ pc' = "group"
  /\ UNCHANGED <<map, rules, given, hierarchy, frames, key, layout,
                 dst, result, written>>

\* A blank line between two groups; lastLineFlags has no other bit without
\* lineFlagsOwnEntryBit.
GroupBegin ==
  LET basename == KeyText(BasenameSpan(key, Top.key))
      blank == IF (groupEnd \/ arrayEnd) /\ ~ ownEntry THEN <<"\n">> ELSE <<>>
  IN  IF rules.minimized THEN EntryGap \o basename \o <<"{">>
      ELSE blank \o state.indentation \o basename \o <<" ", "{", "\n">>

\* Mutant: lastLineFlags is not reset.
OpenGroupKeepsFlags ==
  /\ pc = "group"
  /\ ~ rules.expandKeys
  /\ Subkeys(hierarchy, key) # {}
  /\ dst' = dst \o GroupBegin
  /\ state' = IF rules.minimized THEN state ELSE PushIndent(rules, state)
  /\ frames' = Append(frames, Frame(key, Visits(hierarchy, key)))
  /\ pc' = "next"
  /\ UNCHANGED <<map, rules, given, hierarchy, key, ownEntry, groupEnd, arrayEnd, result,
                 written>>

\* serializeLineGroupBeg, if the key has subkeys.
OpenGroup ==
  /\ pc = "group"
  /\ ~ rules.expandKeys
  /\ Subkeys(hierarchy, key) # {}
  /\ dst' = dst \o GroupBegin
  /\ state' = IF rules.minimized THEN state ELSE PushIndent(rules, state)
  /\ frames' = Append(frames, Frame(key, Visits(hierarchy, key)))
  /\ ownEntry' = FALSE /\ arrayEnd' = FALSE /\ groupEnd' = FALSE
  /\ pc' = "next"
  /\ UNCHANGED <<map, rules, given, hierarchy, key, result, written>>

\* Mutant: a key with neither an entry nor subkeys is not expected.
NoGroupForEntry ==
  /\ pc = "group"
  /\ key \in DOMAIN map
  /\ rules.expandKeys \/ Subkeys(hierarchy, key) = {}
  /\ pc' = "next"
  /\ UNCHANGED <<map, rules, given, hierarchy, frames, key, layout,
                 dst, result, written>>

NoGroup ==
  /\ pc = "group"
  /\ rules.expandKeys \/ Subkeys(hierarchy, key) = {}
  /\ pc' = "next"
  /\ UNCHANGED <<map, rules, given, hierarchy, frames, key, layout,
                 dst, result, written>>

\* serializeLineGroupEnd
EndGroup ==
  /\ pc = "next"
  /\ Top.todo = <<>>
  /\ Len(frames) > 1
  /\ state' = IF rules.minimized THEN state ELSE PopIndent(rules, state)
  /\ dst' = dst \o (IF rules.minimized THEN <<>> ELSE state'.indentation)
                \o <<"}">> \o EndOfLine
  /\ frames' = SubSeq(frames, 1, Len(frames) - 1)
  /\ ownEntry' = FALSE /\ arrayEnd' = FALSE /\ groupEnd' = TRUE
  /\ UNCHANGED <<map, rules, given, hierarchy, pc, key, result, written>>

EndRoot ==
  /\ pc = "next"
  /\ Top.todo = <<>>
  /\ Len(frames) = 1
  /\ pc' = "done" /\ result' = "ok"
  /\ UNCHANGED <<map, rules, given, hierarchy, frames, key, layout,
                 dst, written>>

SNext == \/ BeginExpanded \/ BeginGrouped \/ VisitNext
         \/ WriteEntry \/ NoEntry \/ OpenGroup \/ NoGroup
         \/ EndGroup \/ EndRoot

SSpec == SInit /\ [][SNext]_svars /\ WF_svars(SNext)
=============================================================================
