-------------------------- MODULE HierarchyProofs --------------------------
(***************************************************************************)
(* Proofs about Hierarchy, for every set of names, every set of keys and   *)
(* any number of them put.                                                 *)
(***************************************************************************)
EXTENDS Hierarchy, Facts

\* putKey has a key to put only while it runs.
Idle == IF pc = "putKey" THEN key \in Keys ELSE size = 0

IInv == TypeOK /\ Idle /\ TreeIsClosure

LEMMA KeysAreSequences == Keys \union {<<>>} \subseteq Seq(Names)
<1>1. Keys \subseteq Seq(Names)
  BY KeysAssumption
<1>2. <<>> \in Seq(Names)
  OBVIOUS
<1> QED
  BY <1>1, <1>2

\* Every level inserted is a non-empty key.
LEMMA InsertedKeys ==
  ASSUME TypeOK, NEW k \in Inserted
  PROVE  k \in Seq(Names) /\ Len(k) > 0
<1>1. ASSUME NEW l \in Seq(Names), NEW n \in 1 .. Len(l), k = Level(l, n)
      PROVE  k \in Seq(Names) /\ Len(k) > 0
  BY <1>1, LevelIsPrefix
<1>2. CASE k \in LevelsOf(put)
  BY <1>1, <1>2, KeysAreSequences DEF Levels, LevelsOf, TypeOK
<1>3. CASE k \in {Level(key, n) : n \in 1 .. size}
  BY <1>1, <1>3, KeysAreSequences DEF TypeOK
<1> QED
  BY <1>2, <1>3 DEF Inserted

LEMMA InitInvariant == Init => IInv
<1> SUFFICES ASSUME Init PROVE IInv
  OBVIOUS
<1>1. Inserted = {}
  BY DEF Init, Inserted, LevelsOf
<1>2. tree = TreeOf({})
  BY DEF Init, TreeOf
<1>3. TypeOK
  BY DEF Init, TypeOK
<1> QED
  BY <1>1, <1>2, <1>3 DEF IInv, Idle, TreeIsClosure, Init

\* A step that leaves the levels inserted and the tree alone keeps the tree.
LEMMA TreeUnchanged ==
  ASSUME TreeIsClosure, tree' = tree, Inserted' = Inserted
  PROVE  TreeIsClosure'
BY DEF TreeIsClosure

LEMMA NextInvariant == IInv /\ [Next]_vars => IInv'
<1> SUFFICES ASSUME IInv, [Next]_vars PROVE IInv'
  OBVIOUS
<1> USE DEF IInv
<1>1. ASSUME NEW k \in Keys, PutKey(k) PROVE IInv'
  <2>1. TypeOK'
    BY <1>1, KeysAreSequences DEF TypeOK, PutKey
  <2>2. Inserted' = Inserted
    BY <1>1 DEF PutKey, Inserted, Idle
  <2> QED
    BY <1>1, <2>1, <2>2, TreeUnchanged DEF PutKey, Idle
<1>2. CASE InsertKey
  <2> DEFINE new == Level(key, size + 1)
  <2>1. key \in Seq(Names) /\ size + 1 \in 1 .. Len(key) /\ size \in Nat
    BY <1>2, KeysAreSequences DEF InsertKey, TypeOK
  <2>2. Parent(new) = Level(key, size)
    <3>1. Parent(new) = Level(key, (size + 1) - 1)
      BY <2>1, ParentOfLevel
    <3> QED
      BY <2>1, <3>1
  <2>3. Inserted' = Inserted \union {new}
    <3>1. 1 .. size + 1 = 1 .. size \union {size + 1}
      BY <2>1
    <3>2. {Level(key, n) : n \in 1 .. size + 1}
            = {Level(key, n) : n \in 1 .. size} \union {new}
      BY <3>1
    <3>3. key' = key /\ size' = size + 1 /\ put' = put
      BY <1>2 DEF InsertKey
    <3>4. Inserted' = LevelsOf(put) \union {Level(key, n) : n \in 1 .. size + 1}
      BY <3>3 DEF Inserted
    <3> QED
      BY <3>2, <3>4 DEF Inserted
  <2>4. TreeIsClosure'
    BY <1>2, <2>2, <2>3, InsertAddsLevel DEF InsertKey, TreeIsClosure
  <2>5. new \in Seq(Names) /\ Level(key, size) \in Seq(Names)
    BY <2>1, LevelIsPrefix
  <2>6. DOMAIN tree' = DOMAIN tree \union {Level(key, size)}
    BY <1>2 DEF InsertKey, Insert
  <2>7. ASSUME NEW ref \in DOMAIN tree' PROVE tree'[ref] \subseteq Seq(Names)
    <3>1. tree'[ref] = IF ref = Level(key, size)
                         THEN Subkeys(tree, ref) \union {new} ELSE tree[ref]
      BY <1>2, <2>6 DEF InsertKey, Insert
    <3>2. Subkeys(tree, ref) \subseteq Seq(Names)
      BY DEF Subkeys, TypeOK
    <3> QED
      BY <2>5, <2>6, <3>1, <3>2 DEF TypeOK
  <2>8. TypeOK'
    BY <1>2, <2>1, <2>5, <2>6, <2>7 DEF InsertKey, TypeOK
  <2> QED
    BY <1>2, <2>4, <2>8 DEF InsertKey, Idle
<1>3. CASE KeyIsPut
  <2>1. TypeOK'
    <3>1. key' = <<>> /\ size' = 0 /\ 0 \in 0 .. Len(<<>>)
      BY <1>3 DEF KeyIsPut
    <3>2. put \union {key} \subseteq Keys
      BY <1>3 DEF KeyIsPut, TypeOK, Idle
    <3> QED
      BY <1>3, <3>1, <3>2 DEF KeyIsPut, TypeOK
  <2>2. Inserted' = Inserted
    <3>1. Levels(key) = {Level(key, n) : n \in 1 .. size}
      BY <1>3 DEF KeyIsPut, Levels
    <3>2. LevelsOf(put \union {key}) = LevelsOf(put) \union Levels(key)
      BY DEF LevelsOf
    <3>3. {Level(<<>>, n) : n \in 1 .. 0} = {}
      OBVIOUS
    <3>4. Inserted = LevelsOf(put) \union Levels(key)
      BY <3>1 DEF Inserted
    <3>5. put' = put \union {key} /\ key' = <<>> /\ size' = 0
      BY <1>3 DEF KeyIsPut
    <3>6. Inserted' = LevelsOf(put \union {key})
      BY <3>3, <3>5 DEF Inserted
    <3> QED
      BY <3>2, <3>4, <3>6
  <2> QED
    <3>1. Idle' /\ UNCHANGED tree
      BY <1>3 DEF KeyIsPut, Idle
    <3> QED
      BY <2>1, <2>2, <3>1, TreeUnchanged
<1>4. ASSUME NEW b \in Keys \union {<<>>}, Autocomplete(b) PROVE IInv'
  <2>1. TypeOK'
    BY <1>4, KeysAreSequences DEF TypeOK, Autocomplete
  <2>2. Inserted' = Inserted
    BY <1>4 DEF Autocomplete, Inserted
  <2> QED
    BY <1>4, <2>1, <2>2, TreeUnchanged DEF Autocomplete, Idle
<1>5. CASE Recurse
  <2>1. OnlySubkey(tree, returnKey) \in Subkeys(tree, returnKey)
    BY <1>5 DEF Recurse, HasOnlySubkey, OnlySubkey
  <2>2. returnKey' \in Seq(Names)
    BY <1>5, <2>1 DEF Recurse, Subkeys, TypeOK
  <2>3. Inserted' = Inserted
    BY <1>5 DEF Recurse, Inserted
  <2> QED
    BY <1>5, <2>2, <2>3, TreeUnchanged DEF Recurse, TypeOK, Idle
<1>6. CASE Return
  <2>1. TypeOK' /\ Inserted' = Inserted
    BY <1>6 DEF Return, TypeOK, Inserted
  <2> QED
    BY <1>6, <2>1, TreeUnchanged DEF Return, Idle
<1>7. CASE UNCHANGED vars
  <2>1. TypeOK' /\ Inserted' = Inserted
    BY <1>7 DEF vars, TypeOK, Inserted
  <2> QED
    BY <1>7, <2>1, TreeUnchanged DEF vars, Idle
<1> QED
  BY <1>1, <1>2, <1>3, <1>4, <1>5, <1>6, <1>7 DEF Next

LEMMA Invariant == Spec => []IInv
BY InitInvariant, NextInvariant, PTL DEF Spec

\* Every variable of a hierarchy keeps its type.
THEOREM TypeCorrect == Spec => []TypeOK
<1>1. IInv => TypeOK
  BY DEF IInv
<1> QED
  BY <1>1, Invariant, PTL

\* Between calls and during them, the tree is that of the levels inserted:
\* each key put is below its parent and nowhere else.
THEOREM TreeCorrect == Spec => []TreeIsClosure
<1>1. IInv => TreeIsClosure
  BY DEF IInv
<1> QED
  BY <1>1, Invariant, PTL

(***************************************************************************)
(* Autocompletion.                                                         *)
(***************************************************************************)

\* What the loop of autocomplete keeps: the path it follows and the key that
\* leads to, and that no completion is under way while a key is put.
Completing ==
  /\ pc = "putKey" => base = <<>> /\ returnKey = <<>>
  /\ pc = "autocomplete" =>
       base # <<>> /\ Completion(tree, returnKey) = Completion(tree, base)

CInv == OnlyWay /\ Fork /\ Completing /\ FirstFork

\* The subkeys of a key are the levels inserted right below it.
LEMMA SubkeysAreInserted ==
  ASSUME TreeIsClosure, NEW ref
  PROVE  Subkeys(tree, ref) = {k \in Inserted : Parent(k) = ref}
BY DEF TreeIsClosure, TreeOf, Subkeys

\* One round of the loop: if the key reached is on the only way from the
\* base and has one subkey, that subkey is on the only way.
LEMMA RecurseOnlyWay ==
  ASSUME IInv, OnlyWay, Recurse
  PROVE  OnlyWay'
<1> DEFINE c == OnlySubkey(tree, returnKey)
<1>1. /\ returnKey \in Seq(Names) /\ base \in Seq(Names)
      /\ put \subseteq Seq(Names)
  BY KeysAreSequences DEF IInv, TypeOK
<1>2. Inserted = LevelsOf(put)
  <2>1. size = 0
    BY DEF IInv, Idle, Recurse
  <2> QED
    BY <2>1 DEF Inserted
<1>3. {k \in Inserted : Parent(k) = returnKey} = {c}
  <2>1. Subkeys(tree, returnKey) = {c}
    BY DEF Recurse, HasOnlySubkey, OnlySubkey
  <2> QED
    BY <2>1, SubkeysAreInserted DEF IInv
<1>4. c \in Seq(Names) /\ Len(c) > 0 /\ Parent(c) = returnKey
  <2>1. c \in Inserted /\ Parent(c) = returnKey
    BY <1>3
  <2> QED
    BY <2>1, InsertedKeys DEF IInv
<1>5. Len(c) = Len(returnKey) + 1 /\ Extends(c, returnKey)
  BY <1>4, ExtendsParent
<1>6. Extends(c, base)
  BY <1>1, <1>4, <1>5, ExtendsTransitive DEF OnlyWay
<1>7. ASSUME NEW k \in put, Extends(k, base)
      PROVE  Extends(k, c) \/ Extends(c, k)
  <2>1. k \in Seq(Names) /\ Len(k) \in Nat /\ Len(returnKey) \in Nat
    BY <1>1
  <2>2. CASE Extends(returnKey, k)
    BY <1>1, <1>4, <1>5, <2>1, <2>2, ExtendsTransitive
  <2>3. CASE Extends(k, returnKey) /\ Len(k) = Len(returnKey)
    <3>1. Level(k, Len(k)) = returnKey
      BY <2>3 DEF Extends
    <3>2. k = returnKey
      BY <2>1, <3>1, LastLevel
    <3> QED
      BY <1>5, <3>2
  <2>4. CASE Extends(k, returnKey) /\ Len(k) # Len(returnKey)
    <3> DEFINE n == Len(returnKey) + 1
    <3>1. n \in 1 .. Len(k) /\ n \in 0 .. Len(k) /\ n - 1 = Len(returnKey)
      BY <2>1, <2>4 DEF Extends
    <3>2. Level(k, n) \in Inserted
      BY <1>2, <3>1 DEF Levels, LevelsOf
    <3>3. Parent(Level(k, n)) = returnKey
      <4>1. Parent(Level(k, n)) = Level(k, n - 1)
        BY <2>1, <3>1, ParentOfLevel
      <4> QED
        BY <2>4, <3>1, <4>1 DEF Extends
    <3>4. Level(k, n) = c
      BY <1>3, <3>2, <3>3
    <3>5. Extends(k, Level(k, n))
      BY <2>1, <3>1, ExtendsLevel
    <3> QED
      BY <3>4, <3>5
  <2> QED
    BY <1>7, <2>2, <2>3, <2>4 DEF OnlyWay
<1>8. returnKey' = c /\ base' = base /\ put' = put
  BY DEF Recurse
<1> QED
  BY <1>6, <1>7, <1>8 DEF OnlyWay

LEMMA InitCompletion == Init => CInv
<1> SUFFICES ASSUME Init PROVE CInv
  OBVIOUS
<1>1. <<>> \in Seq(Names)
  OBVIOUS
<1>2. Extends(<<>>, <<>>)
  BY <1>1, ExtendsEmpty
<1> QED
  BY <1>2 DEF Init, CInv, OnlyWay, Fork, Completing, FirstFork

\* No other step moves the key reached and keeps a base.
LEMMA NoBase ==
  ASSUME TypeOK', base' = <<>>, returnKey' = <<>>, pc' # "autocomplete"
  PROVE  CInv'
<1>1. Extends(<<>>, <<>>)
  <2>1. <<>> \in Seq(Names)
    OBVIOUS
  <2> QED
    BY <2>1, ExtendsEmpty
<1>2. ASSUME NEW k \in put' PROVE Extends(k, <<>>)
  BY <1>2, KeysAreSequences, ExtendsEmpty DEF TypeOK
<1> QED
  BY <1>1, <1>2 DEF CInv, OnlyWay, Fork, Completing, FirstFork

\* One round of the loop, or its end, as Completion has it.
LEMMA LoopStep ==
  ASSUME IInv, OnlyWay, pc = "autocomplete", base # <<>>
  PROVE  Completion(tree, returnKey) =
           IF HasOnlySubkey(tree, returnKey)
             THEN Completion(tree, OnlySubkey(tree, returnKey)) ELSE returnKey
<1>1. AreLevels(LevelsOf(put), Names)
  BY KeysAreSequences, LevelsAreLevels DEF IInv, TypeOK
<1>2. tree = TreeOf(LevelsOf(put))
  <2>1. size = 0
    BY DEF IInv, Idle
  <2>2. Inserted = LevelsOf(put)
    BY <2>1 DEF Inserted
  <2> QED
    BY <2>2 DEF IInv, TreeIsClosure
<1>3. returnKey # <<>>
  <2>1. base \in Seq(Names) /\ Len(base) > 0
    BY KeysAreSequences DEF IInv, TypeOK
  <2> QED
    BY <2>1 DEF OnlyWay, Extends
<1> QED
  BY <1>1, <1>2, <1>3, CompletionStep

LEMMA NextCompletion == IInv /\ CInv /\ IInv' /\ [Next]_vars => CInv'
<1> SUFFICES ASSUME IInv, CInv, IInv', [Next]_vars PROVE CInv'
  OBVIOUS
<1> USE DEF CInv
<1>1. TypeOK'
  BY DEF IInv
<1>2. ASSUME NEW k \in Keys, PutKey(k) PROVE CInv'
  BY <1>1, <1>2, NoBase DEF PutKey
<1>3. CASE InsertKey
  BY <1>1, <1>3, NoBase DEF InsertKey, Completing
<1>4. CASE KeyIsPut
  BY <1>1, <1>4, NoBase DEF KeyIsPut, Completing
<1>5. ASSUME NEW b \in Keys \union {<<>>}, Autocomplete(b) PROVE CInv'
  <2>1. b \in Seq(Names)
    BY KeysAreSequences
  <2>2. Extends(b, b)
    BY <2>1, ExtendsReflexive
  <2> QED
    BY <1>5, <2>2 DEF Autocomplete, OnlyWay, Fork, Completing, FirstFork
<1>6. CASE Recurse
  <2>1. base # <<>> /\ Completion(tree, returnKey) = Completion(tree, base)
    BY <1>6 DEF Recurse, Completing
  <2>2. Completion(tree, returnKey') = Completion(tree, returnKey)
    BY <1>6, <2>1, LoopStep DEF Recurse
  <2> QED
    BY <1>6, <2>1, <2>2, RecurseOnlyWay DEF Recurse, Fork, Completing, FirstFork
<1>7. CASE Return
  <2>1. Inserted' = Inserted
    BY <1>7 DEF Return, Inserted
  <2>2. ASSUME NEW k \in Inserted, Parent(k) = returnKey
        PROVE  \E l \in Inserted \ {k} : Parent(l) = returnKey
    <3>1. Subkeys(tree, returnKey) # {k} /\ k \in Subkeys(tree, returnKey)
      BY <1>7, <2>2, SubkeysAreInserted DEF IInv, Return, HasOnlySubkey
    <3>2. PICK l \in Subkeys(tree, returnKey) : l # k
      BY <3>1
    <3> QED
      BY <3>2, SubkeysAreInserted DEF IInv
  <2>3. Fork'
    BY <1>7, <2>1, <2>2 DEF Return, Fork
  <2>4. FirstFork'
    <3>1. base # <<>> /\ Completion(tree, returnKey) = Completion(tree, base)
      BY <1>7 DEF Return, Completing
    <3>2. Completion(tree, returnKey) = returnKey
      BY <1>7, <3>1, LoopStep DEF Return
    <3> QED
      BY <1>7, <3>1, <3>2 DEF Return, FirstFork
  <2> QED
    BY <1>7, <2>3, <2>4 DEF Return, OnlyWay, Completing
<1>8. CASE UNCHANGED vars
  BY <1>8 DEF vars, OnlyWay, Fork, Completing, FirstFork, Inserted
<1> QED
  BY <1>2, <1>3, <1>4, <1>5, <1>6, <1>7, <1>8 DEF Next

LEMMA CompletionInvariant == Spec => [](IInv /\ CInv)
<1>1. Init => IInv /\ CInv
  BY InitInvariant, InitCompletion
<1>2. IInv /\ CInv /\ [Next]_vars => (IInv /\ CInv)'
  BY NextInvariant, NextCompletion
<1> QED
  BY <1>1, <1>2, PTL DEF Spec

\* Autocompletion never leaves the only way: whatever keys were put, each of
\* those below the base is on the path to the key reached or below it.
THEOREM CompletionFollowsOnlyWay == Spec => []OnlyWay
<1>1. CInv => OnlyWay
  BY DEF CInv
<1> QED
  BY <1>1, CompletionInvariant, PTL

\* What autocompletion returns is the first fork from the base on: the loop of
\* AutocompleteRecursiveState computes Completion, by which the serializer
\* finds its groups.
THEOREM CompletionIsFirstFork == Spec => []FirstFork
<1>1. CInv => FirstFork
  BY DEF CInv
<1> QED
  BY <1>1, CompletionInvariant, PTL

\* A key autocompletion returned never has exactly one subkey.
THEOREM CompletionEndsAtFork == Spec => []Fork
<1>1. CInv => Fork
  BY DEF CInv
<1> QED
  BY <1>1, CompletionInvariant, PTL
=============================================================================
