----------------------------- MODULE Hierarchy -----------------------------
(***************************************************************************)
(* A ConfigHierarchy (src/src/apcf_hierarchy.cpp): putKey, one level of    *)
(* the key at a time, and autocomplete, one subkey at a time.  The private *)
(* collapse_ is never called and is left out.                              *)
(***************************************************************************)
EXTENDS KeyTree

CONSTANTS Names,     \* the names keys are made of
          Keys,      \* the keys a client may put or complete
          MaxPuts    \* bound on the number of keys put

ASSUME KeysAssumption == Keys \subseteq Seq(Names) \ {<<>>}
ASSUME MaxPutsAssumption == MaxPuts \in Nat

VARIABLES tree,      \* tree_
          pc,        \* the member function that is running, or "idle"
          key,       \* putKey: its argument
          size,      \* putKey: how many levels of it are in the tree
          base,      \* autocomplete: its argument
          returnKey, \* autocomplete: where it has got to; then its result
          put        \* history: the keys put so far

vars == <<tree, pc, key, size, base, returnKey, put>>

Init == /\ tree = [ref \in {} |-> {}]
        /\ pc = "idle"
        /\ key = <<>> /\ size = 0
        /\ base = <<>> /\ returnKey = <<>>
        /\ put = {}

-----------------------------------------------------------------------------
PutKey(k) ==
  /\ pc = "idle"
  /\ Cardinality(put) < MaxPuts
  /\ pc' = "putKey"
  /\ key' = k /\ size' = 0
  /\ base' = <<>> /\ returnKey' = <<>>
  /\ UNCHANGED <<tree, put>>

\* Mutant: lastKey is never updated.
InsertKeyBelowRoot ==
  /\ pc = "putKey"
  /\ size < Len(key)
  /\ tree' = Insert(tree, <<>>, Level(key, size + 1))
  /\ size' = size + 1
  /\ UNCHANGED <<pc, key, base, returnKey, put>>

\* Mutant: lastKey is updated too early.
InsertKeyBelowItself ==
  /\ pc = "putKey"
  /\ size < Len(key)
  /\ tree' = Insert(tree, Level(key, size + 1), Level(key, size + 1))
  /\ size' = size + 1
  /\ UNCHANGED <<pc, key, base, returnKey, put>>

\* insertKey; lastKey is the level before the one inserted.
InsertKey ==
  /\ pc = "putKey"
  /\ size < Len(key)
  /\ tree' = Insert(tree, Level(key, size), Level(key, size + 1))
  /\ size' = size + 1
  /\ UNCHANGED <<pc, key, base, returnKey, put>>

KeyIsPut ==
  /\ pc = "putKey"
  /\ size = Len(key)
  /\ pc' = "idle"
  /\ put' = put \union {key}
  /\ key' = <<>> /\ size' = 0
  /\ UNCHANGED <<tree, base, returnKey>>

-----------------------------------------------------------------------------
Autocomplete(b) ==
  /\ pc = "idle"
  /\ pc' = IF b = <<>> THEN "idle" ELSE "autocomplete"
  /\ base' = b /\ returnKey' = b
  /\ UNCHANGED <<tree, key, size, put>>

\* AutocompleteRecursiveState::recurse
Recurse ==
  /\ pc = "autocomplete"
  /\ HasOnlySubkey(tree, returnKey)
  /\ returnKey' = OnlySubkey(tree, returnKey)
  /\ UNCHANGED <<tree, pc, key, size, base, put>>

\* Mutant: one level is enough.
ReturnEarly ==
  /\ pc = "autocomplete"
  /\ pc' = "idle"
  /\ UNCHANGED <<tree, key, size, base, returnKey, put>>

Return ==
  /\ pc = "autocomplete"
  /\ ~ HasOnlySubkey(tree, returnKey)
  /\ pc' = "idle"
  /\ UNCHANGED <<tree, key, size, base, returnKey, put>>

Next == \/ \E k \in Keys : PutKey(k)
        \/ InsertKey \/ KeyIsPut
        \/ \E b \in Keys \union {<<>>} : Autocomplete(b)
        \/ Recurse \/ Return

\* A call that has begun goes on; nobody has to make another one.
Fairness == WF_vars(InsertKey) /\ WF_vars(KeyIsPut)
            /\ WF_vars(Recurse) /\ WF_vars(Return)

Spec == Init /\ [][Next]_vars /\ Fairness

-----------------------------------------------------------------------------
\* The levels of the keys put and of the one being put.
Inserted == LevelsOf(put) \union {Level(key, n) : n \in 1 .. size}

TypeOK ==
  /\ DOMAIN tree \subseteq Seq(Names)
  /\ \A ref \in DOMAIN tree : tree[ref] \subseteq Seq(Names)
  /\ pc \in {"idle", "putKey", "autocomplete"}
  /\ key \in Keys \union {<<>>} /\ size \in 0 .. Len(key)
  /\ base \in Keys \union {<<>>} /\ returnKey \in Seq(Names)
  /\ put \subseteq Keys

\* The tree holds the levels inserted so far, each below its parent and
\* below no other key, and a node for every parent and for no other key.
\* Between two calls those are exactly the levels of the keys put
\* (ConfigHierarchy::putKey).
TreeIsClosure == tree = TreeOf(Inserted)

\* Autocompletion follows the only way: a key put below the base is on the
\* path to the key returned, or below it (AutocompleteRecursiveState).
OnlyWay ==
  /\ Extends(returnKey, base)
  /\ \A k \in put :
       Extends(k, base) => Extends(k, returnKey) \/ Extends(returnKey, k)

\* The key returned has zero or multiple subkeys: every key put below it has
\* a sibling there (the condition recurse ends on).
Fork == pc = "idle" /\ base # <<>> =>
  \A k \in Inserted :
    Parent(k) = returnKey => \E l \in Inserted \ {k} : Parent(l) = returnKey

\* It is the first such key from the base on: Completion, which Serializer
\* uses for the whole loop, is what the loop computes
\* (AutocompleteRecursiveState).
FirstFork ==
  pc = "idle" /\ base # <<>> => returnKey = Completion(tree, base)

\* Every call returns: autocompletion gets to a fork or a leaf, since the
\* tree has no cycle.
Returns == pc # "idle" ~> pc = "idle"
=============================================================================
