------------------------------ MODULE KeyTree ------------------------------
(***************************************************************************)
(* Keys by their levels, and the tree a ConfigHierarchy keeps them in      *)
(* (src/include/apcf_hierarchy.hpp).  Here a key is the sequence of the    *)
(* names its periods separate; the empty sequence is the empty key, the    *)
(* root of every hierarchy.                                                *)
(***************************************************************************)
EXTENDS Naturals, Sequences, FiniteSets

Level(key, n) == SubSeq(key, 1, n)
Parent(key)   == Level(key, Len(key) - 1)

\* splitKey in putKey: the key cut at each of its periods, and whole.
Levels(key) == {Level(key, n) : n \in 1 .. Len(key)}

LevelsOf(keys) == UNION {Levels(key) : key \in keys}

Extends(key, base) == Len(base) <= Len(key) /\ Level(key, Len(base)) = base

\* ConfigHierarchy::getSubkeys
Subkeys(tree, ref) == IF ref \in DOMAIN tree THEN tree[ref] ELSE {}

\* tree_[parent].insert(key)
Insert(tree, parent, key) ==
  [ref \in DOMAIN tree \union {parent} |->
     IF ref = parent THEN Subkeys(tree, parent) \union {key} ELSE tree[ref]]

\* Mutant: any subkey will do.
HasSomeSubkey(tree, key) == Subkeys(tree, key) # {}

HasOnlySubkey(tree, key) == \E sub \in Subkeys(tree, key) : Subkeys(tree, key) = {sub}
OnlySubkey(tree, key)    == CHOOSE sub \in Subkeys(tree, key) : TRUE

\* The tree that holds a set of keys' levels: what putKey builds, one level
\* after the other.
TreeOf(levels) ==
  [ref \in {Parent(k) : k \in levels} |-> {k \in levels : Parent(k) = ref}]

\* The keys in a tree: those that have subkeys and those that are subkeys.
Nodes(tree) == DOMAIN tree \union UNION {tree[ref] : ref \in DOMAIN tree}

\* autocomplete: from base on, the first key that has not exactly one subkey.
Completion(tree, base) ==
  LET follow[k \in Nodes(tree)] ==
        IF HasOnlySubkey(tree, k) THEN follow[OnlySubkey(tree, k)] ELSE k
  IN  IF base \in Nodes(tree) \ {<<>>} THEN follow[base] ELSE base
=============================================================================
