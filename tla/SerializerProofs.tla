--------------------------- MODULE SerializerProofs ---------------------------
(***************************************************************************)
(* The walk of Config::serialize visits every key inside its group and     *)
(* writes every entry it reaches once, for any Configs, hierarchies and    *)
(* rules, on any stream.                                                   *)
(*                                                                         *)
(* Each key that a frame has still to visit stands for the entries that    *)
(* extend it.  These sets are pairwise disjoint, no entry written is in    *)
(* one of them, and together with the entries written they are all.        *)
(***************************************************************************)
EXTENDS RoundTrip, Facts

Keys == Seq(STRING)

Inside(k, group) == Extends(k, group) /\ k # group

\* The keys of a tree but for the root.
Named(tree) == Nodes(tree) \ {<<>>}

TreeOK(tree) ==
  /\ AreLevels(Named(tree), STRING)
  /\ IsFiniteSet(Named(tree))
  /\ Named(tree) \subseteq KeysUsed
  /\ tree = TreeOf(Named(tree))

\* The keys that the walk may stop at.
StopsIn(tree) == {k \in Named(tree) : ~ HasOnlySubkey(tree, k)}
Stops == IF rules.expandKeys THEN DOMAIN map ELSE StopsIn(hierarchy)

\* The entries that the visit of a key writes.
Cover == [k \in Keys |-> IF rules.expandKeys THEN {k} ELSE {x \in Reached : Extends(x, k)}]

\* The entries that a list of keys leads to, and that no two of them share one.
Rest(todo, cover) == UNION {cover[todo[p]] : p \in 1 .. Len(todo)}
Apart(todo, cover) ==
  \A p, q \in 1 .. Len(todo) : p # q => cover[todo[p]] \intersect cover[todo[q]] = {}

\* Every target is written, or is what the key being visited leads to, or what
\* one key in one frame does.
Accounted(fs, current, done, cover, targets) ==
  /\ \A i \in 1 .. Len(fs) :
       /\ Apart(fs[i].todo, cover)
       /\ Rest(fs[i].todo, cover) \intersect (current \union ToSet(done)) = {}
       /\ \A j \in 1 .. Len(fs) :
            i # j => Rest(fs[i].todo, cover) \intersect Rest(fs[j].todo, cover) = {}
  /\ current \intersect ToSet(done) = {}
  /\ targets \subseteq ToSet(done) \union current
                        \union UNION {Rest(fs[i].todo, cover) : i \in 1 .. Len(fs)}
  /\ ToSet(done) \subseteq targets
  /\ \A i, j \in 1 .. Len(done) : done[i] = done[j] => i = j

Current == IF pc = "entry" THEN Cover[key]
           ELSE IF pc = "group" THEN Cover[key] \ {key} ELSE {}

(***************************************************************************)
(* The invariant.                                                          *)
(***************************************************************************)

Frames == [key : Keys, todo : Seq(Keys)]

ShapeInv ==
  /\ map \in Configs
  /\ given \in {{}} \union {{tree} : tree \in Hierarchies}
  /\ pc \in {"begin", "next", "entry", "group", "done"}
  /\ frames \in Seq(Frames) /\ key \in Keys /\ written \in Seq(Keys)
  /\ pc \in {"next", "entry", "group"} => frames # <<>>
  /\ pc # "done" => result = "none"
  /\ pc = "begin" => written = <<>>

TreeInv == pc # "begin" /\ ~ rules.expandKeys => TreeOK(hierarchy)

InsideInv ==
  /\ \A i \in 1 .. Len(frames) : \A p \in 1 .. Len(frames[i].todo) :
       frames[i].todo[p] \in Stops /\ Inside(frames[i].todo[p], frames[i].key)
  /\ pc \in {"entry", "group"} => key \in Stops /\ Inside(key, Top.key)

AccountInv ==
  /\ pc \in {"next", "entry", "group"} =>
       Accounted(frames, Current, written, Cover, Reached)
  /\ result = "ok" => Accounted(<<>>, {}, written, Cover, Reached)

SInv == ShapeInv /\ TreeInv /\ InsideInv /\ AccountInv

(***************************************************************************)
(* Lists: sequences without repetition.                                    *)
(***************************************************************************)

Lists(s, S) ==
  /\ s \in Seq(S)
  /\ \A x \in S : \E i \in 1 .. Len(s) : s[i] = x
  /\ \A i, j \in 1 .. Len(s) : s[i] = s[j] => i = j

\* A set in its order is a list of its keys: the number of keys before a key
\* is its place.
LEMMA Ascends ==
  ASSUME NEW keys \in SUBSET KeysUsed, IsFiniteSet(keys)
  PROVE  Lists(Ascending(keys), keys)
<1> DEFINE N == Cardinality(keys)
<1> DEFINE below(k) == {l \in keys : Before(l, k)}
<1> DEFINE rank == [k \in keys |-> Cardinality(below(k))]
<1> DEFINE s == Ascending(keys)
<1>1. N \in Nat
  BY FS_CardinalityType
<1>2. /\ \A k \in keys : ~ Before(k, k)
      /\ \A k, l \in keys : k # l => Before(k, l) \/ Before(l, k)
      /\ \A k, l, m \in keys : Before(k, l) /\ Before(l, m) => Before(k, m)
  <2>1. \A k \in keys : k \in KeysUsed
    OBVIOUS
  <2> QED
    BY <2>1, OrderAssumption, Zenon
<1>3. ASSUME NEW k \in keys
      PROVE  IsFiniteSet(below(k)) /\ Cardinality(below(k)) \in 0 .. N - 1
  <2>1. below(k) \in SUBSET keys /\ below(k) # keys
    BY <1>2
  <2>2. /\ IsFiniteSet(below(k)) /\ Cardinality(below(k)) <= N
        /\ N = Cardinality(below(k)) => keys = below(k)
    BY <2>1, FS_Subset
  <2>3. Cardinality(below(k)) \in Nat
    BY <2>2, FS_CardinalityType
  <2> HIDE DEF below, N
  <2> QED
    BY <1>1, <2>1, <2>2, <2>3
<1>4. ASSUME NEW k \in keys, NEW l \in keys, Before(k, l)
      PROVE  Cardinality(below(k)) # Cardinality(below(l))
  <2>1. below(k) \in SUBSET below(l) /\ k \in below(l) /\ k \notin below(k)
    BY <1>2, <1>4
  <2>2. IsFiniteSet(below(l))
    BY <1>3
  <2> HIDE DEF below
  <2>3. Cardinality(below(l)) = Cardinality(below(k)) => below(l) = below(k)
    BY <2>1, <2>2, FS_Subset
  <2> QED
    BY <2>1, <2>3
<1>5. rank \in Injection(keys, 0 .. N - 1)
  <2> HIDE DEF below, N
  <2>1. rank \in [keys -> 0 .. N - 1]
    BY <1>3
  <2>2. \A k, l \in keys : rank[k] = rank[l] => k = l
    BY <1>2, <1>4
  <2> HIDE DEF rank
  <2> QED
    BY <2>1, <2>2 DEF Injection, IsInjective
<1>6. IsFiniteSet(0 .. N - 1) /\ Cardinality(0 .. N - 1) = N
  <2> HIDE DEF N
  <2>1. 0 \in Int /\ N - 1 \in Int /\ (IF 0 > N - 1 THEN 0 ELSE (N - 1) - 0 + 1) = N
    BY <1>1
  <2> QED
    BY <2>1, FS_Interval
<1>7. rank \in Surjection(keys, 0 .. N - 1)
  BY <1>5, <1>6, FS_Injection
<1>8. ASSUME NEW i \in 1 .. N
      PROVE  s[i] \in keys /\ rank[s[i]] = i - 1
  <2>1. i - 1 \in 0 .. N - 1
    BY <1>1
  <2>2. \E k \in keys : rank[k] = i - 1
    <3> HIDE DEF rank, N
    <3> QED
      BY <1>7, <2>1 DEF Surjection
  <2>3. \E k \in keys : Cardinality({l \in keys : Before(l, k)}) = i - 1
    BY <2>2
  <2>4. s[i] = CHOOSE k \in keys : Cardinality({l \in keys : Before(l, k)}) = i - 1
    BY Zenon DEF Ascending
  <2> HIDE DEF s
  <2>5. s[i] \in keys /\ Cardinality({l \in keys : Before(l, s[i])}) = i - 1
    BY <2>3, <2>4
  <2> QED
    BY <2>5
<1>9. s = [i \in 1 .. N |-> s[i]]
  <2> DEFINE ranked(i) == CHOOSE k \in keys : Cardinality({l \in keys : Before(l, k)}) = i - 1
  <2>1. s = [i \in 1 .. N |-> ranked(i)]
    BY Zenon DEF Ascending
  <2> HIDE DEF s, N, ranked
  <2> QED
    BY <2>1
<1> HIDE DEF s, N
<1>10. s \in [1 .. N -> keys]
  BY <1>8, <1>9
<1>11. s \in Seq(keys) /\ Len(s) = N
  BY <1>1, <1>10
<1>12. \A i, j \in 1 .. N : s[i] = s[j] => i = j
  <2> HIDE DEF rank
  <2>1. ASSUME NEW i \in 1 .. N, NEW j \in 1 .. N, s[i] = s[j] PROVE i = j
    <3>1. i - 1 = j - 1
      BY <1>8, <2>1
    <3> QED
      BY <3>1
  <2> QED
    BY <2>1
<1>13. ASSUME NEW x \in keys PROVE \E i \in 1 .. N : s[i] = x
  <2>1. rank[x] \in 0 .. N - 1
    BY <1>3
  <2>2. rank[x] + 1 \in 1 .. N /\ (rank[x] + 1) - 1 = rank[x]
    <3> HIDE DEF rank
    <3> QED
      BY <1>1, <2>1
  <2>3. s[rank[x] + 1] \in keys /\ rank[s[rank[x] + 1]] = rank[x]
    BY <1>8, <2>2
  <2>4. s[rank[x] + 1] = x
    <3> HIDE DEF rank
    <3> QED
      BY <1>5, <2>3 DEF Injection, IsInjective
  <2> QED
    BY <2>2, <2>4
<1> QED
  BY <1>11, <1>12, <1>13 DEF Lists, s

\* Two lists with nothing in common make one.
LEMMA ListsTogether ==
  ASSUME NEW S, NEW T, NEW s, NEW t, Lists(s, S), Lists(t, T), S \intersect T = {}
  PROVE  Lists(s \o t, S \union T)
<1> DEFINE r == s \o t
<1>1. /\ s \in Seq(S \union T) /\ t \in Seq(S \union T)
      /\ Len(s) \in Nat /\ Len(t) \in Nat
  BY DEF Lists
<1>2. r \in Seq(S \union T) /\ Len(r) = Len(s) + Len(t)
  BY <1>1
<1>3. \A i \in 1 .. Len(s) : i \in 1 .. Len(r) /\ r[i] = s[i] /\ s[i] \in S
  BY <1>1 DEF Lists
<1>4. \A i \in 1 .. Len(t) :
        Len(s) + i \in 1 .. Len(r) /\ r[Len(s) + i] = t[i] /\ t[i] \in T
  BY <1>1 DEF Lists
<1>5. ASSUME NEW i \in 1 .. Len(r)
      PROVE  \/ i \in 1 .. Len(s)
             \/ i - Len(s) \in 1 .. Len(t) /\ Len(s) + (i - Len(s)) = i
  BY <1>1, <1>2
<1> HIDE DEF r
<1>6. ASSUME NEW x \in S \union T PROVE \E i \in 1 .. Len(r) : r[i] = x
  <2>1. CASE x \in S
    <3>1. PICK i \in 1 .. Len(s) : s[i] = x
      BY <2>1 DEF Lists
    <3> QED
      BY <1>3, <3>1
  <2>2. CASE x \in T
    <3>1. PICK i \in 1 .. Len(t) : t[i] = x
      BY <2>2 DEF Lists
    <3> QED
      BY <1>4, <3>1
  <2> QED
    BY <2>1, <2>2
<1>7. ASSUME NEW i \in 1 .. Len(r), NEW j \in 1 .. Len(r), r[i] = r[j]
      PROVE  i = j
  <2>1. CASE i \in 1 .. Len(s) /\ j \in 1 .. Len(s)
    BY <1>3, <1>7, <2>1 DEF Lists
  <2>2. CASE i \in 1 .. Len(s) /\ j \notin 1 .. Len(s)
    BY <1>3, <1>4, <1>5, <1>7, <2>2
  <2>3. CASE i \notin 1 .. Len(s) /\ j \in 1 .. Len(s)
    BY <1>3, <1>4, <1>5, <1>7, <2>3
  <2>4. CASE i \notin 1 .. Len(s) /\ j \notin 1 .. Len(s)
    <3> DEFINE a == i - Len(s)
    <3> DEFINE b == j - Len(s)
    <3>1. a \in 1 .. Len(t) /\ b \in 1 .. Len(t) /\ Len(s) + a = i /\ Len(s) + b = j
      BY <1>5, <2>4
    <3> HIDE DEF a, b
    <3>2. t[a] = t[b]
      BY <1>4, <1>7, <3>1
    <3> QED
      BY <3>1, <3>2 DEF Lists
  <2> QED
    BY <2>1, <2>2, <2>3, <2>4
<1> QED
  BY <1>2, <1>6, <1>7 DEF Lists, r

(***************************************************************************)
(* What a key leads to.                                                    *)
(***************************************************************************)

Ends(tree, ref) == {Completion(tree, k) : k \in Subkeys(tree, ref)}

\* A subkey ends at a key inside the group that is not skipped.
LEMMA EndIsStop ==
  ASSUME NEW tree, TreeOK(tree), NEW ref \in Keys, NEW k \in Subkeys(tree, ref)
  PROVE  LET e == Completion(tree, k)
         IN  /\ e \in StopsIn(tree) /\ e \in Keys /\ Inside(e, ref)
             /\ k \in Keys /\ Len(k) = Len(ref) + 1 /\ Extends(e, k)
<1> DEFINE levels == Named(tree)
<1> DEFINE e == Completion(tree, k)
<1>1. AreLevels(levels, STRING) /\ IsFiniteSet(levels) /\ tree = TreeOf(levels)
  BY DEF TreeOK
<1> HIDE DEF levels
<1>2. k \in levels /\ Parent(k) = ref
  BY <1>1, SubkeysInTree
<1>3. k \in Seq(STRING) /\ Len(k) > 0
  BY <1>1, <1>2 DEF AreLevels
<1>4. Len(k) = Len(ref) + 1 /\ Extends(k, ref)
  BY <1>2, <1>3, ExtendsParent
<1>5. e \in Forks(levels, k)
  BY <1>1, <1>2, CompletionIsFork
<1> HIDE DEF e
<1>6. e \in levels \union {<<>>} /\ Extends(e, k) /\ ~ HasOnlySubkey(tree, e)
  BY <1>1, <1>5 DEF Forks
<1>7. e \in Seq(STRING)
  BY <1>1, <1>6, LevelsAreKeys
<1>8. Extends(e, ref)
  BY <1>3, <1>4, <1>6, <1>7, ExtendsTransitive DEF Keys
<1>9. Len(e) >= Len(k) /\ Len(ref) \in Nat /\ Len(e) \in Nat
  BY <1>6, <1>7 DEF Extends, Keys
<1>10. e # <<>> /\ e # ref
  BY <1>3, <1>4, <1>9
<1>11. e \in StopsIn(tree)
  BY <1>6, <1>10 DEF StopsIn, levels
<1> QED
  BY <1>3, <1>4, <1>6, <1>7, <1>8, <1>10, <1>11 DEF Keys, Inside, e

\* No key extends what two subkeys end at.
LEMMA EndsApart ==
  ASSUME NEW tree, TreeOK(tree), NEW ref \in Keys,
         NEW k \in Subkeys(tree, ref), NEW l \in Subkeys(tree, ref), NEW x \in Keys,
         Extends(x, Completion(tree, k)), Extends(x, Completion(tree, l))
  PROVE  k = l
<1> DEFINE d == Completion(tree, k)
<1> DEFINE e == Completion(tree, l)
<1>1. /\ d \in Keys /\ k \in Keys /\ Len(k) = Len(ref) + 1 /\ Extends(d, k)
      /\ e \in Keys /\ l \in Keys /\ Len(l) = Len(ref) + 1 /\ Extends(e, l)
  BY EndIsStop
<1> HIDE DEF d, e
<1>2. Extends(x, d) /\ Extends(x, e)
  BY DEF d, e
<1>3. Extends(x, k) /\ Extends(x, l)
  BY <1>1, <1>2, ExtendsTransitive DEF Keys
<1> QED
  BY <1>1, <1>3 DEF Extends

\* What is inside a group and not skipped is behind what one subkey ends at.
LEMMA EndsReach ==
  ASSUME NEW tree, TreeOK(tree), NEW ref \in Keys, NEW x \in StopsIn(tree), Inside(x, ref)
  PROVE  \E k \in Subkeys(tree, ref) : Extends(x, Completion(tree, k))
<1> DEFINE levels == Named(tree)
<1> DEFINE k == Level(x, Len(ref) + 1)
<1>1. AreLevels(levels, STRING) /\ IsFiniteSet(levels) /\ tree = TreeOf(levels)
  BY DEF TreeOK
<1>2. x \in levels /\ ~ HasOnlySubkey(tree, x)
  BY DEF StopsIn
<1> HIDE DEF levels
<1>3. k \in levels /\ Parent(k) = ref /\ Extends(x, k)
  BY <1>1, <1>2, NextLevel DEF Inside, Keys
<1> HIDE DEF k
<1>4. k \in Subkeys(tree, ref)
  BY <1>1, <1>3, SubkeysInTree
<1>5. Extends(x, Completion(tree, k))
  BY <1>1, <1>2, <1>3, StopExtendsCompletion
<1> QED
  BY <1>4, <1>5

\* A set of stops in its order.
LEMMA StopsAscend ==
  ASSUME NEW tree, TreeOK(tree), NEW keys \in SUBSET Named(tree)
  PROVE  Lists(Ascending(keys), keys)
<1>1. IsFiniteSet(Named(tree)) /\ Named(tree) \subseteq KeysUsed
  BY DEF TreeOK
<1>2. IsFiniteSet(keys) /\ keys \in SUBSET KeysUsed
  BY <1>1, FS_Subset
<1> QED
  BY <1>2, Ascends

LEMMA SortedLists ==
  ASSUME NEW tree, TreeOK(tree), NEW keys \in SUBSET Named(tree)
  PROVE  Lists(Sorted(tree, keys), keys)
<1> DEFINE IsGroup(k) == k \notin DOMAIN map \/ Subkeys(tree, k) # {}
<1> DEFINE groups == {k \in keys : IsGroup(k)}
<1> DEFINE listed == {k \in keys \ groups : map[k].type = "eArray"}
<1> DEFINE singles == keys \ (groups \union listed)
<1>1. Sorted(tree, keys) = Ascending(groups) \o Ascending(listed) \o Ascending(singles)
  BY Zenon DEF Sorted
<1>2. /\ groups \in SUBSET Named(tree) /\ listed \in SUBSET Named(tree)
      /\ singles \in SUBSET Named(tree)
  OBVIOUS
<1>3. /\ groups \intersect listed = {} /\ (groups \union listed) \intersect singles = {}
      /\ (groups \union listed) \union singles = keys
  OBVIOUS
<1> HIDE DEF groups, listed, singles
<1>4. /\ Lists(Ascending(groups), groups) /\ Lists(Ascending(listed), listed)
      /\ Lists(Ascending(singles), singles)
  BY <1>2, StopsAscend
<1>5. Lists(Ascending(groups) \o Ascending(listed), groups \union listed)
  BY <1>3, <1>4, ListsTogether
<1>6. Lists((Ascending(groups) \o Ascending(listed)) \o Ascending(singles),
            (groups \union listed) \union singles)
  BY <1>3, <1>4, <1>5, ListsTogether
<1> QED
  BY <1>1, <1>3, <1>6

\* The visits of a group are a list of what its subkeys end at.
LEMMA VisitsList ==
  ASSUME NEW tree, TreeOK(tree), NEW ref \in Keys
  PROVE  Lists(Visits(tree, ref), Ends(tree, ref))
<1> DEFINE subkeys == Ascending(Subkeys(tree, ref))
<1> DEFINE completed == [i \in 1 .. Len(subkeys) |-> Completion(tree, subkeys[i])]
<1>1. Visits(tree, ref) = IF rules.minimized THEN completed ELSE Sorted(tree, ToSet(completed))
  BY Zenon DEF Visits
<1>2. Subkeys(tree, ref) \in SUBSET Named(tree)
  BY SubkeysInTree DEF TreeOK
<1>3. Lists(subkeys, Subkeys(tree, ref))
  BY <1>2, StopsAscend
<1>4. \A k \in Subkeys(tree, ref) :
        Completion(tree, k) \in Ends(tree, ref) /\ Completion(tree, k) \in Keys
  BY EndIsStop DEF Ends
<1>5. \A k, l \in Subkeys(tree, ref) : Completion(tree, k) = Completion(tree, l) => k = l
  <2>1. ASSUME NEW k \in Subkeys(tree, ref), NEW l \in Subkeys(tree, ref),
               Completion(tree, k) = Completion(tree, l)
        PROVE  k = l
    <3>1. Completion(tree, k) \in Keys /\ Extends(Completion(tree, k), Completion(tree, k))
      BY <1>4, ExtendsReflexive DEF Keys
    <3> QED
      BY <2>1, <3>1, EndsApart
  <2> QED
    BY <2>1
<1> HIDE DEF subkeys
<1>6. subkeys \in Seq(Subkeys(tree, ref)) /\ Len(subkeys) \in Nat
  BY <1>3 DEF Lists
<1>7. \A i \in 1 .. Len(subkeys) :
        subkeys[i] \in Subkeys(tree, ref) /\ completed[i] = Completion(tree, subkeys[i])
  BY <1>6
<1>8. completed \in Seq(Ends(tree, ref)) /\ Len(completed) = Len(subkeys)
  BY <1>4, <1>6, <1>7
<1>9. DOMAIN completed = 1 .. Len(completed)
  BY <1>6, <1>8
<1> HIDE DEF completed
<1>10. \A i, j \in 1 .. Len(completed) : completed[i] = completed[j] => i = j
  BY <1>3, <1>5, <1>7, <1>8 DEF Lists
<1>11. ASSUME NEW e \in Ends(tree, ref) PROVE \E i \in 1 .. Len(completed) : completed[i] = e
  <2>1. PICK k \in Subkeys(tree, ref) : e = Completion(tree, k)
    BY DEF Ends
  <2>2. PICK i \in 1 .. Len(subkeys) : subkeys[i] = k
    BY <1>3 DEF Lists
  <2> QED
    BY <1>7, <1>8, <2>1, <2>2
<1>12. Lists(completed, Ends(tree, ref))
  BY <1>8, <1>10, <1>11 DEF Lists
<1>13. ToSet(completed) = Ends(tree, ref)
  BY <1>8, <1>9, <1>11 DEF ToSet
<1>14. Ends(tree, ref) \in SUBSET Named(tree)
  BY EndIsStop DEF Ends, StopsIn
<1> QED
  BY <1>1, <1>12, <1>13, <1>14, SortedLists

(***************************************************************************)
(* The account.                                                            *)
(***************************************************************************)

LEMMA EmptyRest ==
  ASSUME NEW cover
  PROVE  Apart(<<>>, cover) /\ Rest(<<>>, cover) = {}
BY DEF Apart, Rest

\* The first key of a list takes its part of what the list leads to.
LEMMA TailOfRest ==
  ASSUME NEW S, NEW todo \in Seq(S), todo # <<>>, NEW cover, Apart(todo, cover)
  PROVE  /\ Apart(Tail(todo), cover)
         /\ Rest(todo, cover) = cover[Head(todo)] \union Rest(Tail(todo), cover)
         /\ cover[Head(todo)] \intersect Rest(Tail(todo), cover) = {}
<1> DEFINE n == Len(todo)
<1> DEFINE t == Tail(todo)
<1>1. n \in Nat /\ n > 0 /\ Len(t) = n - 1 /\ Head(todo) = todo[1]
  OBVIOUS
<1>2. \A p \in 1 .. n - 1 : t[p] = todo[p + 1] /\ p + 1 \in 1 .. n /\ p + 1 # 1
  BY <1>1
<1>3. \A p \in 1 .. n : p = 1 \/ (p - 1 \in 1 .. n - 1 /\ (p - 1) + 1 = p)
  BY <1>1
<1>4. 1 \in 1 .. n
  BY <1>1
<1> HIDE DEF t, n
<1>5. \A p, q \in 1 .. n : p # q => cover[todo[p]] \intersect cover[todo[q]] = {}
  BY DEF Apart, n
<1>6. Apart(t, cover)
  <2>1. ASSUME NEW p \in 1 .. n - 1, NEW q \in 1 .. n - 1, p # q
        PROVE  cover[t[p]] \intersect cover[t[q]] = {}
    <3>1. p + 1 # q + 1
      BY <2>1
    <3> QED
      BY <1>2, <1>5, <3>1
  <2> QED
    BY <1>1, <2>1 DEF Apart
<1>7. \A x : x \in Rest(t, cover) <=> \E p \in 1 .. n - 1 : x \in cover[todo[p + 1]]
  <2>1. \A x : x \in Rest(t, cover) <=> \E p \in 1 .. n - 1 : x \in cover[t[p]]
    BY <1>1 DEF Rest
  <2> QED
    BY <1>2, <2>1
<1>8. ASSUME NEW x PROVE x \in Rest(todo, cover) <=> x \in cover[todo[1]] \/ x \in Rest(t, cover)
  <2>1. x \in Rest(todo, cover) <=> \E p \in 1 .. n : x \in cover[todo[p]]
    BY DEF Rest, n
  <2>2. ASSUME NEW p \in 1 .. n, x \in cover[todo[p]], p # 1
        PROVE  \E q \in 1 .. n - 1 : x \in cover[todo[q + 1]]
    BY <1>3, <2>2
  <2> QED
    BY <1>2, <1>4, <1>7, <2>1, <2>2
<1>9. cover[todo[1]] \intersect Rest(t, cover) = {}
  BY <1>2, <1>4, <1>5, <1>7
<1> QED
  BY <1>1, <1>6, <1>8, <1>9 DEF t

\* The account in terms of single entries.
LEMMA AccountOf ==
  ASSUME NEW fs, NEW current, NEW done, NEW cover, NEW targets
  PROVE  Accounted(fs, current, done, cover, targets) <=>
           /\ \A i \in 1 .. Len(fs) : Apart(fs[i].todo, cover)
           /\ \A i \in 1 .. Len(fs) : \A x \in Rest(fs[i].todo, cover) :
                /\ x \notin current /\ x \notin ToSet(done)
                /\ \A j \in 1 .. Len(fs) : i # j => x \notin Rest(fs[j].todo, cover)
           /\ \A x \in current : x \notin ToSet(done)
           /\ \A x \in targets : \/ x \in ToSet(done) \/ x \in current
                                 \/ \E i \in 1 .. Len(fs) : x \in Rest(fs[i].todo, cover)
           /\ \A x \in ToSet(done) : x \in targets
           /\ \A i, j \in 1 .. Len(done) : done[i] = done[j] => i = j
<1> DEFINE R(i) == Rest(fs[i].todo, cover)
<1>1. (\A i \in 1 .. Len(fs) : \A x \in R(i) :
         /\ x \notin current /\ x \notin ToSet(done)
         /\ \A j \in 1 .. Len(fs) : i # j => x \notin R(j))
      <=> \A i \in 1 .. Len(fs) :
            /\ R(i) \intersect (current \union ToSet(done)) = {}
            /\ \A j \in 1 .. Len(fs) : i # j => R(i) \intersect R(j) = {}
  <2> HIDE DEF R
  <2> QED
    OBVIOUS
<1>2. (\A x \in targets : \/ x \in ToSet(done) \/ x \in current
                          \/ \E i \in 1 .. Len(fs) : x \in R(i))
      <=> targets \subseteq ToSet(done) \union current \union UNION {R(i) : i \in 1 .. Len(fs)}
  <2> HIDE DEF R
  <2> QED
    OBVIOUS
<1> QED
  BY <1>1, <1>2 DEF Accounted

LEMMA BeginAccount ==
  ASSUME NEW fs, Len(fs) = 1, NEW cover, NEW targets,
         Apart(fs[1].todo, cover), Rest(fs[1].todo, cover) = targets
  PROVE  Accounted(fs, {}, <<>>, cover, targets)
<1>1. ToSet(<<>>) = {} /\ Len(<<>>) = 0
  BY DEF ToSet
<1>2. \A i \in 1 .. Len(fs) : i = 1
  OBVIOUS
<1>3. 1 \in 1 .. Len(fs)
  OBVIOUS
<1> QED
  BY <1>1, <1>2, <1>3, AccountOf

\* The next key of the innermost frame becomes the one that is visited.
LEMMA NextAccount ==
  ASSUME NEW fs, NEW n \in Nat, n > 0, Len(fs) = n,
         NEW S, fs[n].todo \in Seq(S), fs[n].todo # <<>>,
         NEW gs, Len(gs) = n, gs[n].todo = Tail(fs[n].todo),
         \A i \in 1 .. n : i # n => gs[i].todo = fs[i].todo,
         NEW done, NEW cover, NEW targets, Accounted(fs, {}, done, cover, targets)
  PROVE  Accounted(gs, cover[Head(fs[n].todo)], done, cover, targets)
<1> DEFINE R(i) == Rest(fs[i].todo, cover)
<1> DEFINE Q(i) == Rest(gs[i].todo, cover)
<1> DEFINE c == cover[Head(fs[n].todo)]
<1>1. /\ \A i \in 1 .. n : Apart(fs[i].todo, cover)
      /\ \A i \in 1 .. n : \A x \in R(i) :
           x \notin ToSet(done) /\ \A j \in 1 .. n : i # j => x \notin R(j)
      /\ \A x \in targets : x \in ToSet(done) \/ \E i \in 1 .. n : x \in R(i)
      /\ \A x \in ToSet(done) : x \in targets
      /\ \A i, j \in 1 .. Len(done) : done[i] = done[j] => i = j
  BY AccountOf
<1>2. n \in 1 .. n
  OBVIOUS
<1>3. Apart(gs[n].todo, cover) /\ R(n) = c \union Q(n) /\ c \intersect Q(n) = {}
  BY <1>1, <1>2, TailOfRest
<1>4. \A i \in 1 .. n : i # n => Q(i) = R(i) /\ Apart(gs[i].todo, cover)
  BY <1>1
<1>5. \A i \in 1 .. n : Apart(gs[i].todo, cover)
  BY <1>3, <1>4
<1> HIDE DEF R, Q, c
<1>6. \A i \in 1 .. n : \A x \in Q(i) : x \in R(i) /\ x \notin c
  BY <1>1, <1>2, <1>3, <1>4
<1>7. \A x \in c : x \in R(n)
  BY <1>3
<1>8. \A x \in targets : x \in ToSet(done) \/ x \in c \/ \E i \in 1 .. n : x \in Q(i)
  BY <1>1, <1>3, <1>4
<1> QED
  BY <1>1, <1>2, <1>5, <1>6, <1>7, <1>8, AccountOf DEF Q, c

\* The entry of the key that is visited is written.
LEMMA WriteAccount ==
  ASSUME NEW S, NEW done \in Seq(S), NEW k \in S, NEW fs, NEW current, NEW cover, NEW targets,
         Accounted(fs, current, done, cover, targets), k \in current, k \in targets
  PROVE  Accounted(fs, current \ {k}, Append(done, k), cover, targets)
<1> DEFINE n == Len(done)
<1> DEFINE more == Append(done, k)
<1>1. n \in Nat /\ Len(more) = n + 1 /\ more[n + 1] = k
  OBVIOUS
<1>2. \A i \in 1 .. n : more[i] = done[i]
  OBVIOUS
<1>3. ToSet(more) = ToSet(done) \union {k}
  <2>1. DOMAIN done = 1 .. n /\ DOMAIN more = 1 .. n + 1
    BY <1>1
  <2>2. 1 .. n + 1 = (1 .. n) \union {n + 1}
    BY <1>1
  <2> HIDE DEF n, more
  <2> QED
    BY <1>1, <1>2, <2>1, <2>2 DEF ToSet
<1>4. k \notin ToSet(done)
  BY AccountOf
<1>5. \A i \in 1 .. n : done[i] # k
  BY <1>4 DEF ToSet
<1>6. \A i, j \in 1 .. n : done[i] = done[j] => i = j
  BY AccountOf
<1>7. \A i, j \in 1 .. n + 1 : more[i] = more[j] => i = j
  <2>1. \A i \in 1 .. n + 1 : i \in 1 .. n \/ i = n + 1
    BY <1>1
  <2> HIDE DEF n, more
  <2> QED
    BY <1>1, <1>2, <1>5, <1>6, <2>1
<1>8. /\ \A i \in 1 .. Len(fs) : Apart(fs[i].todo, cover)
      /\ \A i \in 1 .. Len(fs) : \A x \in Rest(fs[i].todo, cover) :
           /\ x \notin current /\ x \notin ToSet(done)
           /\ \A j \in 1 .. Len(fs) : i # j => x \notin Rest(fs[j].todo, cover)
      /\ \A x \in current : x \notin ToSet(done)
      /\ \A x \in targets : \/ x \in ToSet(done) \/ x \in current
                            \/ \E i \in 1 .. Len(fs) : x \in Rest(fs[i].todo, cover)
      /\ \A x \in ToSet(done) : x \in targets
  BY AccountOf
<1> DEFINE now == ToSet(more)
<1> DEFINE left == current \ {k}
<1>9. \A x : /\ x \in now <=> (x \in ToSet(done) \/ x = k)
             /\ x \in left <=> (x \in current /\ x # k)
  BY <1>3
<1> HIDE DEF now, left
<1>10. /\ \A i \in 1 .. Len(fs) : \A x \in Rest(fs[i].todo, cover) :
           /\ x \notin left /\ x \notin now
           /\ \A j \in 1 .. Len(fs) : i # j => x \notin Rest(fs[j].todo, cover)
       /\ \A x \in left : x \notin now
  <2>1. ASSUME NEW i \in 1 .. Len(fs), NEW x \in Rest(fs[i].todo, cover)
        PROVE  /\ x \notin left /\ x \notin now
               /\ \A j \in 1 .. Len(fs) : i # j => x \notin Rest(fs[j].todo, cover)
    <3>1. x \notin current /\ x \notin ToSet(done)
      BY <1>8
    <3>2. x # k
      BY <3>1
    <3> QED
      BY <1>8, <1>9, <3>1, <3>2
  <2>2. \A x \in left : x \notin now
    BY <1>8, <1>9
  <2> QED
    BY <2>1, <2>2
<1>11. /\ \A x \in targets : \/ x \in now \/ x \in left
                             \/ \E i \in 1 .. Len(fs) : x \in Rest(fs[i].todo, cover)
       /\ \A x \in now : x \in targets
  BY <1>8, <1>9
<1>12. \A i, j \in 1 .. Len(more) : more[i] = more[j] => i = j
  BY <1>1, <1>7
<1> HIDE DEF more, n
<1>13. Accounted(fs, left, more, cover, targets)
  BY <1>8, <1>10, <1>11, <1>12, AccountOf DEF now
<1> QED
  BY <1>13 DEF left, more

\* What the key that is visited leads to goes to a frame of its own.
LEMMA OpenAccount ==
  ASSUME NEW fs, NEW n \in Nat, Len(fs) = n,
         NEW gs, Len(gs) = n + 1, \A i \in 1 .. n : gs[i] = fs[i],
         NEW current, NEW done, NEW cover, NEW targets,
         Accounted(fs, current, done, cover, targets),
         Apart(gs[n + 1].todo, cover), Rest(gs[n + 1].todo, cover) = current
  PROVE  Accounted(gs, {}, done, cover, targets)
<1> DEFINE R(i) == Rest(fs[i].todo, cover)
<1> DEFINE Q(i) == Rest(gs[i].todo, cover)
<1> DEFINE m == n + 1
<1>1. /\ \A i \in 1 .. n : i \in 1 .. m /\ i # m
      /\ \A i \in 1 .. m : i \in 1 .. n \/ i = m
      /\ m \in 1 .. m
  OBVIOUS
<1>2. /\ \A i \in 1 .. n : Apart(fs[i].todo, cover)
      /\ \A i \in 1 .. n : \A x \in R(i) :
           /\ x \notin current /\ x \notin ToSet(done)
           /\ \A j \in 1 .. n : i # j => x \notin R(j)
      /\ \A x \in current : x \notin ToSet(done)
      /\ \A x \in targets : x \in ToSet(done) \/ x \in current \/ \E i \in 1 .. n : x \in R(i)
      /\ \A x \in ToSet(done) : x \in targets
      /\ \A i, j \in 1 .. Len(done) : done[i] = done[j] => i = j
  BY AccountOf
<1>3. Q(m) = current /\ \A i \in 1 .. n : Q(i) = R(i)
  OBVIOUS
<1>4. \A i \in 1 .. m : Apart(gs[i].todo, cover)
  BY <1>1, <1>2
<1> HIDE DEF R, Q, m
<1>5. \A i \in 1 .. m : \A x \in Q(i) :
        x \notin ToSet(done) /\ \A j \in 1 .. m : i # j => x \notin Q(j)
  BY <1>1, <1>2, <1>3
<1>6. \A x \in targets : x \in ToSet(done) \/ \E i \in 1 .. m : x \in Q(i)
  BY <1>1, <1>2, <1>3
<1> QED
  BY <1>2, <1>4, <1>5, <1>6, AccountOf DEF Q, m

\* A frame that is through is left.
LEMMA CloseAccount ==
  ASSUME NEW fs, NEW n \in Nat, n > 0, Len(fs) = n, fs[n].todo = <<>>,
         NEW gs, Len(gs) = n - 1, \A i \in 1 .. n - 1 : gs[i] = fs[i],
         NEW current, NEW done, NEW cover, NEW targets,
         Accounted(fs, current, done, cover, targets)
  PROVE  Accounted(gs, current, done, cover, targets)
<1> DEFINE R(i) == Rest(fs[i].todo, cover)
<1> DEFINE Q(i) == Rest(gs[i].todo, cover)
<1> DEFINE m == n - 1
<1>1. /\ \A i \in 1 .. m : i \in 1 .. n
      /\ \A i \in 1 .. n : i \in 1 .. m \/ i = n
  OBVIOUS
<1>2. /\ \A i \in 1 .. n : Apart(fs[i].todo, cover)
      /\ \A i \in 1 .. n : \A x \in R(i) :
           /\ x \notin current /\ x \notin ToSet(done)
           /\ \A j \in 1 .. n : i # j => x \notin R(j)
      /\ \A x \in current : x \notin ToSet(done)
      /\ \A x \in targets : x \in ToSet(done) \/ x \in current \/ \E i \in 1 .. n : x \in R(i)
      /\ \A x \in ToSet(done) : x \in targets
      /\ \A i, j \in 1 .. Len(done) : done[i] = done[j] => i = j
  BY AccountOf
<1>3. R(n) = {} /\ \A i \in 1 .. m : Q(i) = R(i)
  BY EmptyRest
<1>4. \A i \in 1 .. m : Apart(gs[i].todo, cover)
  BY <1>1, <1>2
<1> HIDE DEF R, Q, m
<1>5. \A i \in 1 .. m : \A x \in Q(i) :
        /\ x \notin current /\ x \notin ToSet(done)
        /\ \A j \in 1 .. m : i # j => x \notin Q(j)
  BY <1>1, <1>2, <1>3
<1>6. \A x \in targets : x \in ToSet(done) \/ x \in current \/ \E i \in 1 .. m : x \in Q(i)
  BY <1>1, <1>2, <1>3
<1> QED
  BY <1>2, <1>4, <1>5, <1>6, AccountOf DEF Q, m

\* A list of everything is as long as there are things.
LEMMA ListLength ==
  ASSUME NEW S, NEW s \in Seq(S), \A i, j \in 1 .. Len(s) : s[i] = s[j] => i = j
  PROVE  Len(s) = Cardinality(ToSet(s))
<1> DEFINE n == Len(s)
<1>1. n \in Nat /\ s \in [1 .. n -> S] /\ DOMAIN s = 1 .. n
  OBVIOUS
<1> HIDE DEF n
<1>2. ToSet(s) = {s[i] : i \in 1 .. n}
  BY <1>1 DEF ToSet
<1>3. s \in [1 .. n -> ToSet(s)]
  BY <1>1, <1>2
<1>4. s \in Injection(1 .. n, ToSet(s))
  BY <1>3 DEF Injection, IsInjective, n
<1>5. s \in Surjection(1 .. n, ToSet(s))
  BY <1>2, <1>3 DEF Surjection
<1>6. IsFiniteSet(1 .. n) /\ Cardinality(1 .. n) = n
  BY <1>1, FirstNumbers
<1>7. Cardinality(ToSet(s)) = Cardinality(1 .. n)
  BY <1>4, <1>5, <1>6, FS_Surjection
<1> QED
  BY <1>6, <1>7 DEF n

\* A stop that extends what is inside a group is inside it.
LEMMA InsideExtends ==
  ASSUME NEW x \in Keys, NEW e \in Keys, NEW ref \in Keys, Extends(x, e), Inside(e, ref)
  PROVE  Inside(x, ref)
<1>1. Extends(x, ref)
  BY ExtendsTransitive DEF Inside, Keys
<1>2. ASSUME x = ref PROVE FALSE
  <2>1. Len(e) = Len(ref) /\ Len(e) \in Nat
    BY <1>2 DEF Extends, Inside, Keys
  <2>2. Level(ref, Len(ref)) = e
    BY <1>2, <2>1 DEF Extends
  <2>3. Level(ref, Len(ref)) = ref
    BY LastLevel DEF Keys
  <2> QED
    BY <2>2, <2>3 DEF Inside
<1> QED
  BY <1>1, <1>2 DEF Inside

LEMMA VisitsInside ==
  ASSUME NEW tree, TreeOK(tree), NEW ref \in Keys
  PROVE  /\ Visits(tree, ref) \in Seq(Keys)
         /\ \A p \in 1 .. Len(Visits(tree, ref)) :
              Visits(tree, ref)[p] \in StopsIn(tree) /\ Inside(Visits(tree, ref)[p], ref)
<1> DEFINE todo == Visits(tree, ref)
<1>1. todo \in Seq(Ends(tree, ref))
  BY VisitsList DEF Lists
<1>2. \A e \in Ends(tree, ref) : e \in Keys /\ e \in StopsIn(tree) /\ Inside(e, ref)
  BY EndIsStop DEF Ends
<1> HIDE DEF todo
<1>3. todo \in Seq(Keys)
  BY <1>1, <1>2
<1>4. \A p \in 1 .. Len(todo) : todo[p] \in Ends(tree, ref)
  BY <1>1
<1> QED
  BY <1>2, <1>3, <1>4 DEF todo

\* What a group leads to is divided among its visits.
LEMMA VisitsShare ==
  ASSUME NEW tree, TreeOK(tree), NEW ref \in Keys,
         NEW targets, targets \subseteq StopsIn(tree), targets \subseteq Keys,
         NEW cover, \A k \in Keys : cover[k] = {x \in targets : Extends(x, k)}
  PROVE  /\ Apart(Visits(tree, ref), cover)
         /\ Rest(Visits(tree, ref), cover) = cover[ref] \ {ref}
<1> DEFINE todo == Visits(tree, ref)
<1>1. Lists(todo, Ends(tree, ref))
  BY VisitsList
<1>2. /\ todo \in Seq(Keys)
      /\ \A p \in 1 .. Len(todo) : todo[p] \in Keys /\ Inside(todo[p], ref)
  <2>1. /\ Visits(tree, ref) \in Seq(Keys)
        /\ \A p \in 1 .. Len(Visits(tree, ref)) : Inside(Visits(tree, ref)[p], ref)
    BY VisitsInside
  <2> HIDE DEF todo
  <2>2. todo \in Seq(Keys)
    BY <2>1 DEF todo
  <2>3. \A p \in 1 .. Len(todo) : todo[p] \in Keys
    BY <2>2
  <2> QED
    BY <2>1, <2>2, <2>3 DEF todo
<1> HIDE DEF todo
<1>3. ASSUME NEW p \in 1 .. Len(todo), NEW q \in 1 .. Len(todo), p # q,
             NEW x, x \in cover[todo[p]], x \in cover[todo[q]]
      PROVE  FALSE
  <2>1. x \in Keys /\ Extends(x, todo[p]) /\ Extends(x, todo[q])
    <3>1. todo[p] \in Keys /\ todo[q] \in Keys
      BY <1>2
    <3>2. /\ x \in {y \in targets : Extends(y, todo[p])}
          /\ x \in {y \in targets : Extends(y, todo[q])}
      BY <1>3, <3>1
    <3> QED
      BY <3>2
  <2>2. todo[p] \in Ends(tree, ref) /\ todo[q] \in Ends(tree, ref) /\ todo[p] # todo[q]
    <3>1. /\ todo \in Seq(Ends(tree, ref))
          /\ \A i, j \in 1 .. Len(todo) : todo[i] = todo[j] => i = j
      BY <1>1 DEF Lists
    <3>2. todo[p] # todo[q]
      BY <1>3, <3>1
    <3> QED
      BY <3>1, <3>2
  <2>3. PICK k \in Subkeys(tree, ref) : todo[p] = Completion(tree, k)
    BY <2>2 DEF Ends
  <2>4. PICK l \in Subkeys(tree, ref) : todo[q] = Completion(tree, l)
    BY <2>2 DEF Ends
  <2>5. k = l
    BY <2>1, <2>3, <2>4, EndsApart
  <2> QED
    BY <2>2, <2>3, <2>4, <2>5
<1>4. Apart(todo, cover)
  BY <1>3 DEF Apart
<1>5. ASSUME NEW p \in 1 .. Len(todo), NEW x \in cover[todo[p]]
      PROVE  x \in cover[ref] /\ x # ref
  <2>1. x \in targets /\ x \in Keys /\ Extends(x, todo[p])
    BY <1>2, <1>5
  <2>2. Inside(x, ref)
    BY <1>2, <2>1, InsideExtends
  <2> QED
    BY <2>1, <2>2 DEF Inside
<1>6. ASSUME NEW x \in cover[ref], x # ref
      PROVE  \E p \in 1 .. Len(todo) : x \in cover[todo[p]]
  <2>1. x \in targets /\ x \in StopsIn(tree) /\ Inside(x, ref)
    BY <1>6 DEF Inside
  <2>2. PICK k \in Subkeys(tree, ref) : Extends(x, Completion(tree, k))
    BY <2>1, EndsReach
  <2>3. Completion(tree, k) \in Ends(tree, ref)
    BY DEF Ends
  <2>4. PICK p \in 1 .. Len(todo) : todo[p] = Completion(tree, k)
    BY <1>1, <2>3 DEF Lists
  <2> QED
    BY <1>2, <2>1, <2>2, <2>4
<1>7. Rest(todo, cover) = cover[ref] \ {ref}
  BY <1>5, <1>6 DEF Rest
<1> QED
  BY <1>4, <1>7 DEF todo

(***************************************************************************)
(* The trees.                                                              *)
(***************************************************************************)

LEMMA FinitelyManyLevels ==
  ASSUME NEW keys \in SUBSET Keys, IsFiniteSet(keys)
  PROVE  IsFiniteSet(LevelsOf(keys))
<1>1. ASSUME NEW k \in keys PROVE IsFiniteSet(Levels(k))
  <2> DEFINE f == [n \in 1 .. Len(k) |-> Level(k, n)]
  <2>1. Len(k) \in Nat
    BY DEF Keys
  <2>2. f \in Surjection(1 .. Len(k), Levels(k))
    BY DEF Surjection, Levels
  <2> QED
    BY <2>1, <2>2, FirstNumbers, FS_Surjection
<1> DEFINE all == {Levels(k) : k \in keys}
<1> DEFINE g == [k \in keys |-> Levels(k)]
<1>2. g \in Surjection(keys, all)
  BY DEF Surjection
<1>3. IsFiniteSet(all) /\ \A T \in all : IsFiniteSet(T)
  BY <1>1, <1>2, FS_Surjection
<1> HIDE DEF all
<1>4. IsFiniteSet(UNION all)
  BY <1>3, FS_UNION
<1> QED
  BY <1>4 DEF LevelsOf, all

LEMMA TreeOfKeys ==
  ASSUME NEW keys \in SUBSET Keys, IsFiniteSet(keys), LevelsOf(keys) \subseteq KeysUsed
  PROVE  TreeOK(TreeOf(LevelsOf(keys)))
<1> DEFINE levels == LevelsOf(keys)
<1>1. AreLevels(levels, STRING) /\ IsFiniteSet(levels)
  BY LevelsAreLevels, FinitelyManyLevels DEF Keys
<1> HIDE DEF levels
<1>2. /\ levels \subseteq Nodes(TreeOf(levels))
      /\ Nodes(TreeOf(levels)) \subseteq levels \union {<<>>}
  BY <1>1, NodesInTree
<1>3. <<>> \notin levels
  BY <1>1 DEF AreLevels
<1>4. Named(TreeOf(levels)) = levels
  BY <1>2, <1>3 DEF Named
<1> QED
  BY <1>1, <1>4 DEF TreeOK, levels

\* The keys of a Config are levels of their own.
LEMMA ConfigKeys ==
  ASSUME NEW m \in Configs
  PROVE  /\ IsFiniteSet(DOMAIN m) /\ DOMAIN m \subseteq Keys /\ <<>> \notin DOMAIN m
         /\ DOMAIN m \subseteq KeysUsed /\ LevelsOf(DOMAIN m) \subseteq KeysUsed
<1>1. IsFiniteSet(DOMAIN m) /\ DOMAIN m \subseteq Seq(STRING) \ {<<>>}
  BY ConfigsAssumption
<1>2. LevelsOf(DOMAIN m) \subseteq KeysUsed
  <2> DEFINE entries == UNION {DOMAIN c : c \in Configs}
  <2> DEFINE nodes == UNION {Nodes(t) : t \in Hierarchies}
  <2>1. \A k \in DOMAIN m : k \in entries
    BY Zenon
  <2>2. KeysUsed = LevelsOf(entries \union nodes)
    BY DEF KeysUsed
  <2> HIDE DEF entries, nodes
  <2> QED
    BY <2>1, <2>2 DEF LevelsOf
<1>3. ASSUME NEW k \in DOMAIN m PROVE k \in LevelsOf(DOMAIN m)
  <2>1. k \in Seq(STRING) /\ k # <<>> /\ Len(k) \in 1 .. Len(k)
    BY <1>1
  <2>2. Level(k, Len(k)) = k
    BY <2>1, LastLevel
  <2> QED
    BY <2>1, <2>2 DEF LevelsOf, Levels
<1> QED
  BY <1>1, <1>2, <1>3 DEF Keys

LEMMA TreeOfConfig ==
  ASSUME NEW m \in Configs
  PROVE  TreeOK(TreeOf(LevelsOf(DOMAIN m)))
BY ConfigKeys, TreeOfKeys

LEMMA TreeGiven ==
  ASSUME NEW tree \in Hierarchies
  PROVE  TreeOK(tree)
<1>1. PICK keys \in SUBSET Nodes(tree) :
        IsFiniteSet(keys) /\ keys \subseteq Seq(STRING) /\ tree = TreeOf(LevelsOf(keys))
  BY HierarchiesAssumption
<1>2. LevelsOf(keys) \subseteq KeysUsed
  <2> DEFINE entries == UNION {DOMAIN m : m \in Configs}
  <2> DEFINE nodes == UNION {Nodes(t) : t \in Hierarchies}
  <2>1. ASSUME NEW k \in keys PROVE k \in nodes
    <3>1. k \in Nodes(tree)
      BY <1>1
    <3> QED
      BY <3>1, Zenon
  <2>2. KeysUsed = LevelsOf(entries \union nodes)
    BY Zenon DEF KeysUsed
  <2> HIDE DEF entries, nodes
  <2> QED
    BY <2>1, <2>2 DEF LevelsOf
<1> QED
  BY <1>1, <1>2, TreeOfKeys DEF Keys

(***************************************************************************)
(* The steps.                                                              *)
(***************************************************************************)

\* What a key leads to stays as the map, the rules and the tree do.
LEMMA SameCover ==
  ASSUME UNCHANGED <<map, rules, hierarchy>>
  PROVE  Stops' = Stops /\ Reached' = Reached /\ Cover' = Cover
<1>1. map' = map /\ rules' = rules /\ hierarchy' = hierarchy
  OBVIOUS
<1>2. Stops' = Stops
  BY <1>1 DEF Stops, StopsIn
<1>3. Reached' = Reached
  BY <1>1 DEF Reached
<1>4. Cover' = Cover
  BY <1>1, <1>3 DEF Cover
<1> QED
  BY <1>2, <1>3, <1>4

\* The entries reached are stops, and the stops lead to all of them.
LEMMA CoverOfStops ==
  ASSUME map \in Configs, ~ rules.expandKeys => TreeOK(hierarchy)
  PROVE  /\ Stops \subseteq Keys /\ Reached = Stops \intersect DOMAIN map
         /\ \A k \in Stops : Cover[k] \subseteq Reached
         /\ \A k \in Reached : k \in Cover[k]
         /\ rules.expandKeys => \A k \in Keys : Cover[k] = {k}
         /\ ~ rules.expandKeys => \A k \in Keys : Cover[k] = {x \in Reached : Extends(x, k)}
<1>1. DOMAIN map \subseteq Keys /\ <<>> \notin DOMAIN map
  BY ConfigKeys
<1>2. \A k \in Keys : Extends(k, k)
  <2>1. ASSUME NEW k \in Keys PROVE Extends(k, k)
    <3>1. Len(k) \in Nat /\ Level(k, Len(k)) = k
      BY LastLevel DEF Keys
    <3> QED
      BY <3>1 DEF Extends
  <2> QED
    BY <2>1
<1>3. CASE rules.expandKeys
  BY <1>1, <1>3 DEF Stops, Reached, Cover
<1>4. CASE ~ rules.expandKeys
  <2>1. Named(hierarchy) \subseteq Keys
    BY <1>4 DEF TreeOK, AreLevels, Keys
  <2>2. Stops = StopsIn(hierarchy) /\ Stops \subseteq Keys
    BY <1>4, <2>1 DEF Stops, StopsIn
  <2>3. Reached = Stops \intersect DOMAIN map
    BY <1>1, <1>4, <2>2 DEF Reached, StopsIn, Named
  <2>4. \A k \in Keys : Cover[k] = {x \in Reached : Extends(x, k)}
    BY <1>4 DEF Cover
  <2> QED
    BY <1>2, <1>4, <2>2, <2>3, <2>4
<1> QED
  BY <1>3, <1>4

LEMMA InnermostFrame ==
  ASSUME NEW fs \in Seq(Frames), fs # <<>>
  PROVE  /\ Len(fs) \in Nat /\ Len(fs) > 0 /\ Len(fs) \in 1 .. Len(fs)
         /\ fs[Len(fs)] \in Frames
         /\ fs[Len(fs)].todo \in Seq(Keys) /\ fs[Len(fs)].key \in Keys
<1>1. Len(fs) \in Nat /\ Len(fs) > 0
  OBVIOUS
<1>2. fs[Len(fs)] \in Frames
  BY <1>1
<1> QED
  BY <1>1, <1>2 DEF Frames

LEMMA FrameOf ==
  ASSUME NEW ref \in Keys, NEW todo \in Seq(Keys)
  PROVE  /\ Frame(ref, todo) \in Frames
         /\ Frame(ref, todo).key = ref /\ Frame(ref, todo).todo = todo
BY DEF Frame, Frames

\* With full keys, each visit leads to its own entry.
LEMMA SinglesShare ==
  ASSUME NEW S, NEW todo, Lists(todo, S),
         NEW cover, \A p \in 1 .. Len(todo) : cover[todo[p]] = {todo[p]}
  PROVE  Apart(todo, cover) /\ Rest(todo, cover) = S
<1>1. /\ \A p \in 1 .. Len(todo) : todo[p] \in S
      /\ \A x \in S : \E p \in 1 .. Len(todo) : todo[p] = x
      /\ \A p, q \in 1 .. Len(todo) : todo[p] = todo[q] => p = q
  <2>1. /\ todo \in Seq(S)
        /\ \A x \in S : \E p \in 1 .. Len(todo) : todo[p] = x
        /\ \A p, q \in 1 .. Len(todo) : todo[p] = todo[q] => p = q
    BY Zenon DEF Lists
  <2>2. \A p \in 1 .. Len(todo) : todo[p] \in S
    BY <2>1
  <2> QED
    BY <2>1, <2>2, Zenon
<1>2. ASSUME NEW p \in 1 .. Len(todo), NEW x
      PROVE  x \in cover[todo[p]] <=> x = todo[p]
  <2>1. cover[todo[p]] = {todo[p]}
    OBVIOUS
  <2> QED
    BY <2>1
<1>3. Apart(todo, cover)
  <2>1. ASSUME NEW p \in 1 .. Len(todo), NEW q \in 1 .. Len(todo), p # q,
               NEW x, x \in cover[todo[p]], x \in cover[todo[q]]
        PROVE  FALSE
    <3>1. x = todo[p] /\ x = todo[q]
      BY <1>2, <2>1
    <3> QED
      BY <1>1, <2>1, <3>1
  <2> QED
    BY <2>1 DEF Apart
<1>4. ASSUME NEW x PROVE x \in S <=> \E p \in 1 .. Len(todo) : x \in cover[todo[p]]
  BY <1>1, <1>2
<1> QED
  BY <1>3, <1>4 DEF Rest

\* eExpandKeys begins.
LEMMA BeginExpandedKeeps ==
  ASSUME SInv, BeginExpanded
  PROVE  SInv'
<1> DEFINE todo == Ascending(DOMAIN map)
<1>1. /\ UNCHANGED <<map, rules, given, hierarchy, key, written, result>>
      /\ pc = "begin" /\ rules.expandKeys /\ pc' = "next"
      /\ frames' = <<Frame(<<>>, todo)>>
  BY DEF BeginExpanded
<1>2. ShapeInv
  BY DEF SInv
<1>3. Stops' = Stops /\ Reached' = Reached /\ Cover' = Cover
  BY <1>1, SameCover
<1>4. map \in Configs /\ written = <<>> /\ result = "none"
  BY <1>1, <1>2 DEF ShapeInv
<1>5. /\ IsFiniteSet(DOMAIN map) /\ DOMAIN map \subseteq Keys /\ <<>> \notin DOMAIN map
      /\ DOMAIN map \subseteq KeysUsed
  BY <1>4, ConfigKeys
<1>6. Lists(todo, DOMAIN map)
  BY <1>5, Ascends
<1> HIDE DEF todo
<1>7. Stops = DOMAIN map /\ Reached = DOMAIN map /\ \A k \in Keys : Cover[k] = {k}
  BY <1>1 DEF Stops, Reached, Cover
<1>8. <<>> \in Keys
  BY DEF Keys
<1>9. todo \in Seq(Keys) /\ \A p \in 1 .. Len(todo) : todo[p] \in Keys /\ todo[p] \in DOMAIN map
  <2>1. todo \in Seq(DOMAIN map)
    BY <1>6 DEF Lists
  <2>2. todo \in Seq(Keys)
    BY <1>5, <2>1
  <2> QED
    BY <2>1, <2>2
<1>10. /\ frames' \in Seq(Frames) /\ Len(frames') = 1 /\ frames' # <<>>
       /\ frames'[1].key = <<>> /\ frames'[1].todo = todo
  <2>1. /\ Frame(<<>>, todo) \in Frames
        /\ Frame(<<>>, todo).key = <<>> /\ Frame(<<>>, todo).todo = todo
    BY <1>8, <1>9, FrameOf
  <2> QED
    BY <1>1, <2>1
<1>11. ShapeInv'
  BY <1>1, <1>2, <1>4, <1>10 DEF ShapeInv
<1>12. TreeInv'
  BY <1>1 DEF TreeInv
<1>13. InsideInv'
  <2>1. ASSUME NEW i \in 1 .. Len(frames'), NEW p \in 1 .. Len(frames'[i].todo)
        PROVE  frames'[i].todo[p] \in Stops' /\ Inside(frames'[i].todo[p], frames'[i].key)
    <3>1. i = 1
      BY <1>10, <2>1
    <3>2. \A x \in Keys : Extends(x, <<>>)
      BY DEF Extends, Level, Keys
    <3>3. p \in 1 .. Len(todo) /\ todo[p] \in Keys /\ todo[p] \in DOMAIN map
      BY <1>9, <1>10, <2>1, <3>1
    <3> QED
      BY <1>3, <1>5, <1>7, <1>10, <3>1, <3>2, <3>3 DEF Inside
  <2> QED
    BY <1>1, <2>1 DEF InsideInv
<1>14. Apart(todo, Cover) /\ Rest(todo, Cover) = Reached
  <2>1. \A p \in 1 .. Len(todo) : Cover[todo[p]] = {todo[p]}
    BY <1>7, <1>9
  <2>2. Apart(todo, Cover) /\ Rest(todo, Cover) = DOMAIN map
    BY <1>6, <2>1, SinglesShare
  <2> QED
    BY <1>7, <2>2
<1>15. AccountInv'
  <2>1. Accounted(frames', {}, <<>>, Cover, Reached)
    BY <1>10, <1>14, BeginAccount
  <2>2. Current' = {}
    BY <1>1 DEF Current
  <2> QED
    BY <1>1, <1>3, <1>4, <2>1, <2>2 DEF AccountInv
<1> QED
  BY <1>11, <1>12, <1>13, <1>15 DEF SInv

\* The walk of a hierarchy begins at its root.
LEMMA BeginGroupedKeeps ==
  ASSUME SInv, BeginGrouped
  PROVE  SInv'
<1> DEFINE tree == hierarchy'
<1> DEFINE todo == Visits(tree, <<>>)
<1>1. /\ UNCHANGED <<map, rules, given, key, written, result>>
      /\ pc = "begin" /\ ~ rules.expandKeys /\ pc' = "next"
      /\ frames' = <<Frame(<<>>, todo)>>
  BY DEF BeginGrouped
<1>2. ShapeInv
  BY DEF SInv
<1>3. map \in Configs /\ written = <<>> /\ result = "none"
  BY <1>1, <1>2 DEF ShapeInv
<1>4. TreeOK(tree)
  <2>1. tree = IF given = {} THEN TreeOf(LevelsOf(DOMAIN map)) ELSE CHOOSE t \in given : TRUE
    BY Zenon DEF BeginGrouped
  <2>2. CASE given = {}
    BY <1>3, <2>1, <2>2, TreeOfConfig
  <2>3. CASE given # {}
    <3>1. PICK t \in Hierarchies : given = {t}
      BY <1>2, <2>3 DEF ShapeInv
    <3>2. tree = t
      BY <2>1, <2>3, <3>1
    <3> QED
      BY <3>1, <3>2, TreeGiven
  <2> QED
    BY <2>2, <2>3
<1>5. <<>> \in Keys
  BY DEF Keys
<1>6. /\ todo \in Seq(Keys)
      /\ \A p \in 1 .. Len(todo) : todo[p] \in StopsIn(tree) /\ Inside(todo[p], <<>>)
  BY <1>4, <1>5, VisitsInside
<1>7. DOMAIN map \subseteq Keys /\ <<>> \notin DOMAIN map
  BY <1>3, ConfigKeys
<1>8. /\ Stops' = StopsIn(tree)
      /\ Reached' = StopsIn(tree) \intersect DOMAIN map
      /\ \A k \in Keys : Cover'[k] = {x \in Reached' : Extends(x, k)}
  <2>1. Stops' = StopsIn(tree)
    BY <1>1 DEF Stops
  <2>2. Reached' = StopsIn(tree) \intersect DOMAIN map
    BY <1>1, <1>7 DEF Reached, StopsIn, Named
  <2>3. \A k \in Keys : Cover'[k] = {x \in Reached' : Extends(x, k)}
    BY <1>1 DEF Cover
  <2> QED
    BY <2>1, <2>2, <2>3
<1>9. Apart(todo, Cover') /\ Rest(todo, Cover') = Cover'[<<>>] \ {<<>>}
  <2> DEFINE targets == Reached'
  <2> DEFINE cover == Cover'
  <2>1. targets \subseteq StopsIn(tree) /\ targets \subseteq Keys
    BY <1>7, <1>8
  <2>2. \A k \in Keys : cover[k] = {x \in targets : Extends(x, k)}
    BY <1>8
  <2> HIDE DEF targets, cover
  <2>3. Apart(todo, cover) /\ Rest(todo, cover) = cover[<<>>] \ {<<>>}
    BY <1>4, <1>5, <2>1, <2>2, VisitsShare
  <2> QED
    BY <2>3 DEF cover
<1>10. Cover'[<<>>] \ {<<>>} = Reached'
  <2>1. \A x \in Keys : Extends(x, <<>>)
    BY DEF Extends, Level, Keys
  <2>2. \A x \in Reached' : x \in Keys /\ x # <<>>
    BY <1>7, <1>8
  <2>3. Cover'[<<>>] = {x \in Reached' : Extends(x, <<>>)}
    BY <1>5, <1>8
  <2> QED
    BY <2>1, <2>2, <2>3
<1> HIDE DEF todo
<1>11. /\ frames' \in Seq(Frames) /\ Len(frames') = 1 /\ frames' # <<>>
       /\ frames'[1].key = <<>> /\ frames'[1].todo = todo
  <2>1. /\ Frame(<<>>, todo) \in Frames
        /\ Frame(<<>>, todo).key = <<>> /\ Frame(<<>>, todo).todo = todo
    BY <1>5, <1>6, FrameOf
  <2> QED
    BY <1>1, <2>1
<1>12. ShapeInv'
  BY <1>1, <1>2, <1>3, <1>11 DEF ShapeInv
<1>13. TreeInv'
  BY <1>4 DEF TreeInv
<1>14. InsideInv'
  <2>1. ASSUME NEW i \in 1 .. Len(frames'), NEW p \in 1 .. Len(frames'[i].todo)
        PROVE  frames'[i].todo[p] \in Stops' /\ Inside(frames'[i].todo[p], frames'[i].key)
    <3>1. i = 1
      BY <1>11, <2>1
    <3> QED
      BY <1>6, <1>8, <1>11, <2>1, <3>1
  <2> QED
    BY <1>1, <2>1 DEF InsideInv
<1>15. AccountInv'
  <2>1. Accounted(frames', {}, <<>>, Cover', Reached')
    <3>1. Rest(todo, Cover') = Reached'
      BY <1>9, <1>10
    <3> QED
      BY <1>9, <1>11, <3>1, BeginAccount
  <2>2. Current' = {}
    BY <1>1 DEF Current
  <2> QED
    BY <1>1, <1>3, <2>1, <2>2 DEF AccountInv
<1> QED
  BY <1>12, <1>13, <1>14, <1>15 DEF SInv

\* The innermost loop goes on to its next key.
LEMMA ShortenInnermost ==
  ASSUME NEW fs \in Seq(Frames), fs # <<>>, NEW n, n = Len(fs), fs[n].todo # <<>>,
         NEW gs, gs = [fs EXCEPT ![n] = Frame(fs[n].key, Tail(fs[n].todo))]
  PROVE  /\ gs \in Seq(Frames) /\ gs # <<>> /\ Len(gs) = n
         /\ gs[n].key = fs[n].key /\ gs[n].todo = Tail(fs[n].todo)
         /\ \A i \in 1 .. n : i # n => gs[i] = fs[i]
<1> DEFINE f == Frame(fs[n].key, Tail(fs[n].todo))
<1>1. n \in Nat /\ n > 0 /\ n \in 1 .. n /\ fs[n].todo \in Seq(Keys) /\ fs[n].key \in Keys
  BY InnermostFrame
<1>2. Tail(fs[n].todo) \in Seq(Keys)
  BY <1>1
<1>3. f \in Frames /\ f.key = fs[n].key /\ f.todo = Tail(fs[n].todo)
  BY <1>1, <1>2, FrameOf
<1> HIDE DEF f
<1>4. gs = [fs EXCEPT ![n] = f]
  BY Zenon DEF f
<1> QED
  BY <1>1, <1>3, <1>4

LEMMA VisitNextKeeps ==
  ASSUME SInv, VisitNext
  PROVE  SInv'
<1> DEFINE n == Len(frames)
<1> DEFINE todo == frames[n].todo
<1>1. /\ UNCHANGED <<map, rules, given, hierarchy, written, result>>
      /\ pc = "next" /\ todo # <<>> /\ pc' = "entry" /\ key' = Head(todo)
  BY DEF VisitNext, Top
<1>2. frames' = [frames EXCEPT ![n] = Frame(frames[n].key, Tail(frames[n].todo))]
  BY Zenon DEF VisitNext
<1>3. ShapeInv /\ TreeInv /\ InsideInv /\ AccountInv
  BY DEF SInv
<1>4. frames \in Seq(Frames) /\ frames # <<>> /\ result = "none"
  BY <1>1, <1>3 DEF ShapeInv
<1>5. n \in Nat /\ n > 0 /\ n \in 1 .. n /\ todo \in Seq(Keys)
  BY <1>4, InnermostFrame
<1>6. /\ frames' \in Seq(Frames) /\ frames' # <<>> /\ Len(frames') = n
      /\ frames'[n].key = frames[n].key /\ frames'[n].todo = Tail(todo)
      /\ \A i \in 1 .. n : i # n => frames'[i] = frames[i]
  BY <1>1, <1>2, <1>4, ShortenInnermost
<1>7. Stops' = Stops /\ Reached' = Reached /\ Cover' = Cover
  BY <1>1, SameCover
<1>8. \A i \in 1 .. n : \A p \in 1 .. Len(frames[i].todo) :
        frames[i].todo[p] \in Stops /\ Inside(frames[i].todo[p], frames[i].key)
  BY <1>3 DEF InsideInv
<1>9. Top' = frames'[n]
  BY <1>6 DEF Top
<1> HIDE DEF n
<1>10. /\ key' = todo[1] /\ key' \in Keys /\ 1 \in 1 .. Len(todo)
       /\ Len(Tail(todo)) \in Nat
       /\ \A p \in 1 .. Len(Tail(todo)) : p + 1 \in 1 .. Len(todo) /\ Tail(todo)[p] = todo[p + 1]
  <2> HIDE DEF todo
  <2> QED
    BY <1>1, <1>5
<1>11. ShapeInv'
  BY <1>1, <1>3, <1>6, <1>10 DEF ShapeInv
<1>12. TreeInv'
  BY <1>1, <1>3 DEF TreeInv
<1>13. InsideInv'
  <2>1. ASSUME NEW i \in 1 .. n, NEW p \in 1 .. Len(frames'[i].todo)
        PROVE  frames'[i].todo[p] \in Stops /\ Inside(frames'[i].todo[p], frames'[i].key)
    <3>1. CASE i = n
      <4>1. p \in 1 .. Len(Tail(todo)) /\ frames'[i].todo[p] = Tail(todo)[p]
        BY <1>6, <2>1, <3>1
      <4>2. p + 1 \in 1 .. Len(todo) /\ frames'[i].todo[p] = todo[p + 1]
        BY <1>10, <4>1
      <4> QED
        BY <1>5, <1>6, <1>8, <3>1, <4>2
    <3>2. CASE i # n
      BY <1>6, <1>8, <2>1, <3>2
    <3> QED
      BY <3>1, <3>2
  <2>2. key' \in Stops /\ Inside(key', frames'[n].key)
    BY <1>5, <1>6, <1>8, <1>10
  <2> QED
    BY <1>6, <1>7, <1>9, <2>1, <2>2 DEF InsideInv
<1>14. AccountInv'
  <2>1. Accounted(frames, {}, written, Cover, Reached)
    BY <1>1, <1>3 DEF AccountInv, Current
  <2>2. \A i \in 1 .. n : i # n => frames'[i].todo = frames[i].todo
    BY <1>6
  <2>3. Len(frames) = n
    BY DEF n
  <2>4. Accounted(frames', Cover[Head(todo)], written, Cover, Reached)
    BY <1>1, <1>5, <1>6, <2>1, <2>2, <2>3, NextAccount
  <2>5. Current' = Cover[Head(todo)]
    BY <1>1, <1>7 DEF Current
  <2> QED
    BY <1>1, <1>4, <1>7, <2>4, <2>5 DEF AccountInv
<1> QED
  BY <1>11, <1>12, <1>13, <1>14 DEF SInv

\* Facts about the key that is visited.
LEMMA VisitedKey ==
  ASSUME SInv, pc \in {"entry", "group"}
  PROVE  /\ map \in Configs /\ frames \in Seq(Frames) /\ frames # <<>> /\ written \in Seq(Keys)
         /\ key \in Keys /\ key \in Stops /\ Inside(key, Top.key) /\ result = "none"
         /\ ~ rules.expandKeys => TreeOK(hierarchy)
         /\ Accounted(frames, Current, written, Cover, Reached)
<1>1. ShapeInv /\ TreeInv /\ InsideInv /\ AccountInv
  BY DEF SInv
<1> QED
  BY <1>1 DEF ShapeInv, TreeInv, InsideInv, AccountInv

LEMMA WriteEntryKeeps ==
  ASSUME SInv, WriteEntry
  PROVE  SInv'
<1>1. /\ UNCHANGED <<map, rules, given, hierarchy, frames, key>>
      /\ pc = "entry" /\ key \in DOMAIN map
  BY DEF WriteEntry
<1>2. \/ pc' = "done" /\ result' \in {"InvalidValue", "Aborted"} /\ UNCHANGED written
      \/ pc' = "group" /\ written' = Append(written, key) /\ UNCHANGED result
  BY DEF WriteEntry, Failure
<1>3. ShapeInv /\ TreeInv /\ InsideInv /\ AccountInv
  BY DEF SInv
<1>4. /\ map \in Configs /\ written \in Seq(Keys) /\ key \in Keys /\ key \in Stops
      /\ result = "none"
      /\ ~ rules.expandKeys => TreeOK(hierarchy)
      /\ Accounted(frames, Current, written, Cover, Reached)
  BY <1>1, VisitedKey
<1>5. Stops' = Stops /\ Reached' = Reached /\ Cover' = Cover
  BY <1>1, SameCover
<1>6. key \in Reached /\ key \in Cover[key]
  BY <1>1, <1>4, CoverOfStops
<1>7. Top' = Top
  BY <1>1 DEF Top
<1>8. TreeInv'
  BY <1>1, <1>3 DEF TreeInv
<1>9. InsideInv'
  BY <1>1, <1>2, <1>3, <1>5, <1>7 DEF InsideInv
<1>10. CASE pc' = "done" /\ result' \in {"InvalidValue", "Aborted"} /\ UNCHANGED written
  <2>1. ShapeInv' /\ AccountInv'
    BY <1>1, <1>3, <1>10 DEF ShapeInv, AccountInv
  <2> QED
    BY <1>8, <1>9, <2>1 DEF SInv
<1>11. CASE pc' = "group" /\ written' = Append(written, key) /\ UNCHANGED result
  <2>1. written' \in Seq(Keys)
    BY <1>4, <1>11
  <2>2. ShapeInv'
    BY <1>1, <1>3, <1>4, <1>11, <2>1 DEF ShapeInv
  <2>3. Accounted(frames, Cover[key], written, Cover, Reached)
    BY <1>1, <1>4 DEF Current
  <2>4. Accounted(frames, Cover[key] \ {key}, Append(written, key), Cover, Reached)
    BY <1>4, <1>6, <2>3, WriteAccount
  <2>5. Current' = Cover[key] \ {key}
    BY <1>1, <1>5, <1>11 DEF Current
  <2>6. AccountInv'
    BY <1>1, <1>4, <1>5, <1>11, <2>4, <2>5 DEF AccountInv
  <2> QED
    BY <1>8, <1>9, <2>2, <2>6 DEF SInv
<1> QED
  BY <1>2, <1>10, <1>11

LEMMA NoEntryKeeps ==
  ASSUME SInv, NoEntry
  PROVE  SInv'
<1>1. /\ UNCHANGED <<map, rules, given, hierarchy, frames, key, written, result>>
      /\ pc = "entry" /\ key \notin DOMAIN map /\ pc' = "group"
  BY DEF NoEntry
<1>2. ShapeInv /\ TreeInv /\ InsideInv /\ AccountInv
  BY DEF SInv
<1>3. /\ map \in Configs /\ key \in Stops /\ result = "none"
      /\ ~ rules.expandKeys => TreeOK(hierarchy)
      /\ Accounted(frames, Current, written, Cover, Reached)
  BY <1>1, VisitedKey
<1>4. Stops' = Stops /\ Reached' = Reached /\ Cover' = Cover
  BY <1>1, SameCover
<1>5. Cover[key] \subseteq Reached /\ key \notin Reached
  BY <1>1, <1>3, CoverOfStops
<1>6. Current' = Current
  BY <1>1, <1>4, <1>5 DEF Current
<1>7. Top' = Top
  BY <1>1 DEF Top
<1>8. ShapeInv' /\ TreeInv'
  BY <1>1, <1>2 DEF ShapeInv, TreeInv
<1>9. InsideInv'
  BY <1>1, <1>2, <1>4, <1>7 DEF InsideInv
<1>10. AccountInv'
  BY <1>1, <1>3, <1>4, <1>6 DEF AccountInv
<1> QED
  BY <1>8, <1>9, <1>10 DEF SInv

LEMMA OpenGroupKeeps ==
  ASSUME SInv, OpenGroup
  PROVE  SInv'
<1> DEFINE n == Len(frames)
<1> DEFINE todo == Visits(hierarchy, key)
<1>1. /\ UNCHANGED <<map, rules, given, hierarchy, key, written, result>>
      /\ pc = "group" /\ ~ rules.expandKeys /\ pc' = "next"
      /\ frames' = Append(frames, Frame(key, todo))
  BY DEF OpenGroup
<1>2. ShapeInv /\ TreeInv /\ InsideInv /\ AccountInv
  BY DEF SInv
<1>3. /\ map \in Configs /\ frames \in Seq(Frames) /\ key \in Keys /\ result = "none"
      /\ TreeOK(hierarchy)
      /\ Accounted(frames, Current, written, Cover, Reached)
  BY <1>1, VisitedKey
<1>4. Stops' = Stops /\ Reached' = Reached /\ Cover' = Cover
  BY <1>1, SameCover
<1>5. Stops = StopsIn(hierarchy) /\ Current = Cover[key] \ {key}
  BY <1>1 DEF Stops, Current
<1>6. /\ todo \in Seq(Keys)
      /\ \A p \in 1 .. Len(todo) : todo[p] \in Stops /\ Inside(todo[p], key)
  BY <1>3, <1>5, VisitsInside
<1>7. Apart(todo, Cover) /\ Rest(todo, Cover) = Current
  <2>1. /\ Reached \subseteq StopsIn(hierarchy) /\ Reached \subseteq Keys
        /\ \A k \in Keys : Cover[k] = {x \in Reached : Extends(x, k)}
    BY <1>1, <1>3, <1>5, CoverOfStops
  <2> DEFINE targets == Reached
  <2> DEFINE cover == Cover
  <2>2. /\ targets \subseteq StopsIn(hierarchy) /\ targets \subseteq Keys
        /\ \A k \in Keys : cover[k] = {x \in targets : Extends(x, k)}
    BY <2>1
  <2>3. TreeOK(hierarchy) /\ key \in Keys
    BY <1>3
  <2> HIDE DEF targets, cover
  <2>4. Apart(todo, cover) /\ Rest(todo, cover) = cover[key] \ {key}
    BY <2>2, <2>3, VisitsShare
  <2> QED
    BY <1>5, <2>4 DEF cover
<1> HIDE DEF todo
<1>8. /\ n \in Nat /\ frames' \in Seq(Frames) /\ frames' # <<>> /\ Len(frames') = n + 1
      /\ frames'[n + 1].key = key /\ frames'[n + 1].todo = todo
      /\ \A i \in 1 .. n : frames'[i] = frames[i]
  <2>1. /\ Frame(key, todo) \in Frames
        /\ Frame(key, todo).key = key /\ Frame(key, todo).todo = todo
    BY <1>3, <1>6, FrameOf
  <2> QED
    BY <1>1, <1>3, <2>1
<1>9. Len(frames) = n
  OBVIOUS
<1> HIDE DEF n
<1>10. ShapeInv'
  BY <1>1, <1>2, <1>8 DEF ShapeInv
<1>11. TreeInv'
  BY <1>1, <1>2 DEF TreeInv
<1>12. InsideInv'
  <2>1. ASSUME NEW i \in 1 .. n + 1, NEW p \in 1 .. Len(frames'[i].todo)
        PROVE  frames'[i].todo[p] \in Stops /\ Inside(frames'[i].todo[p], frames'[i].key)
    <3>1. CASE i = n + 1
      BY <1>6, <1>8, <2>1, <3>1
    <3>2. CASE i # n + 1
      <4>1. i \in 1 .. n
        BY <1>8, <3>2
      <4> QED
        BY <1>2, <1>8, <1>9, <2>1, <4>1 DEF InsideInv
    <3> QED
      BY <3>1, <3>2
  <2> QED
    BY <1>1, <1>4, <1>8, <2>1 DEF InsideInv
<1>13. AccountInv'
  <2>1. Accounted(frames', {}, written, Cover, Reached)
    BY <1>3, <1>7, <1>8, <1>9, OpenAccount
  <2>2. Current' = {}
    BY <1>1 DEF Current
  <2> QED
    BY <1>1, <1>3, <1>4, <2>1, <2>2 DEF AccountInv
<1> QED
  BY <1>10, <1>11, <1>12, <1>13 DEF SInv

LEMMA NoGroupKeeps ==
  ASSUME SInv, NoGroup
  PROVE  SInv'
<1>1. /\ UNCHANGED <<map, rules, given, hierarchy, frames, key, written, result>>
      /\ pc = "group" /\ pc' = "next"
      /\ rules.expandKeys \/ Subkeys(hierarchy, key) = {}
  BY DEF NoGroup
<1>2. ShapeInv /\ TreeInv /\ InsideInv /\ AccountInv
  BY DEF SInv
<1>3. /\ map \in Configs /\ key \in Keys /\ result = "none"
      /\ ~ rules.expandKeys => TreeOK(hierarchy)
      /\ Accounted(frames, Current, written, Cover, Reached)
  BY <1>1, VisitedKey
<1>4. Stops' = Stops /\ Reached' = Reached /\ Cover' = Cover
  BY <1>1, SameCover
<1>5. Current = Cover[key] \ {key}
  BY <1>1 DEF Current
<1>6. Current = {}
  <2>1. CASE rules.expandKeys
    BY <1>3, <1>5, <2>1, CoverOfStops
  <2>2. CASE ~ rules.expandKeys
    <3>1. /\ Reached \subseteq StopsIn(hierarchy)
          /\ Cover[key] = {x \in Reached : Extends(x, key)}
      <4>1. Stops = StopsIn(hierarchy)
        BY <2>2 DEF Stops
      <4> QED
        BY <1>3, <2>2, <4>1, CoverOfStops
    <3>2. ASSUME NEW x \in Reached, Extends(x, key), x # key PROVE FALSE
      <4>1. x \in StopsIn(hierarchy) /\ Inside(x, key)
        BY <3>1, <3>2 DEF Inside
      <4>2. \E k \in Subkeys(hierarchy, key) : Extends(x, Completion(hierarchy, k))
        BY <1>3, <2>2, <4>1, EndsReach
      <4> QED
        BY <1>1, <2>2, <4>2
    <3> QED
      BY <1>5, <3>1, <3>2
  <2> QED
    BY <2>1, <2>2
<1>7. ShapeInv' /\ TreeInv'
  BY <1>1, <1>2 DEF ShapeInv, TreeInv
<1>8. InsideInv'
  BY <1>1, <1>2, <1>4 DEF InsideInv
<1>9. AccountInv'
  <2>1. Current' = {}
    BY <1>1 DEF Current
  <2> QED
    BY <1>1, <1>3, <1>4, <1>6, <2>1 DEF AccountInv
<1> QED
  BY <1>7, <1>8, <1>9 DEF SInv

LEMMA EndGroupKeeps ==
  ASSUME SInv, EndGroup
  PROVE  SInv'
<1> DEFINE n == Len(frames)
<1>1. /\ UNCHANGED <<map, rules, given, hierarchy, pc, key, written, result>>
      /\ pc = "next" /\ frames[n].todo = <<>> /\ n > 1
      /\ frames' = SubSeq(frames, 1, n - 1)
  BY DEF EndGroup, Top
<1>2. ShapeInv /\ TreeInv /\ InsideInv /\ AccountInv
  BY DEF SInv
<1>3. frames \in Seq(Frames) /\ frames # <<>> /\ result = "none"
  BY <1>1, <1>2 DEF ShapeInv
<1>4. n \in Nat
  BY <1>3
<1>5. /\ frames' \in Seq(Frames) /\ frames' # <<>> /\ Len(frames') = n - 1
      /\ \A i \in 1 .. n - 1 : i \in 1 .. n /\ frames'[i] = frames[i]
  <2>1. n - 1 \in Nat /\ n - 1 > 0 /\ 1 \in Nat
    BY <1>1, <1>4
  <2>2. \A i \in 1 .. n - 1 : i \in 1 .. n
    BY <1>4
  <2>3. \A i \in 1 .. n - 1 : frames[i] \in Frames
    BY <1>3, <2>2
  <2>4. frames' = [i \in 1 .. n - 1 |-> frames[i]]
    BY <1>1, <1>3, <1>4, <2>1
  <2>5. frames' \in [1 .. n - 1 -> Frames] /\ \A i \in 1 .. n - 1 : frames'[i] = frames[i]
    <3> HIDE DEF n
    <3> QED
      BY <2>3, <2>4
  <2> DEFINE m == n - 1
  <2> HIDE DEF m
  <2>6. frames' \in Seq(Frames) /\ Len(frames') = m /\ frames' # <<>>
    <3>1. m \in Nat /\ m > 0 /\ frames' \in [1 .. m -> Frames]
      BY <2>1, <2>5 DEF m
    <3> QED
      BY <3>1
  <2> QED
    BY <2>2, <2>5, <2>6 DEF m
<1>6. Stops' = Stops /\ Reached' = Reached /\ Cover' = Cover
  BY <1>1, SameCover
<1>7. Len(frames) = n
  OBVIOUS
<1> HIDE DEF n
<1>8. ShapeInv' /\ TreeInv'
  BY <1>1, <1>2, <1>5 DEF ShapeInv, TreeInv
<1>9. InsideInv'
  <2>1. ASSUME NEW i \in 1 .. n - 1, NEW p \in 1 .. Len(frames'[i].todo)
        PROVE  frames'[i].todo[p] \in Stops /\ Inside(frames'[i].todo[p], frames'[i].key)
    BY <1>2, <1>5, <1>7, <2>1 DEF InsideInv
  <2> QED
    BY <1>1, <1>5, <1>6, <2>1 DEF InsideInv
<1>10. AccountInv'
  <2>1. Current = {} /\ Current' = {}
    BY <1>1 DEF Current
  <2>2. Accounted(frames, {}, written, Cover, Reached)
    BY <1>1, <1>2, <2>1 DEF AccountInv
  <2>3. Accounted(frames', {}, written, Cover, Reached)
    <3>1. n > 0 /\ frames[n].todo = <<>> /\ Len(frames') = n - 1
      BY <1>1, <1>4, <1>5
    <3>2. \A i \in 1 .. n - 1 : frames'[i] = frames[i]
      BY <1>5
    <3> DEFINE gs == frames'
    <3> HIDE DEF gs
    <3>3. Accounted(gs, {}, written, Cover, Reached)
      BY <1>4, <1>7, <2>2, <3>1, <3>2, CloseAccount DEF gs
    <3> QED
      BY <3>3 DEF gs
  <2> QED
    BY <1>1, <1>3, <1>6, <2>1, <2>3 DEF AccountInv
<1> QED
  BY <1>8, <1>9, <1>10 DEF SInv

LEMMA EndRootKeeps ==
  ASSUME SInv, EndRoot
  PROVE  SInv'
<1>1. /\ UNCHANGED <<map, rules, given, hierarchy, frames, key, written>>
      /\ pc = "next" /\ Len(frames) = 1 /\ frames[1].todo = <<>>
      /\ pc' = "done" /\ result' = "ok"
  BY DEF EndRoot, Top
<1>2. ShapeInv /\ TreeInv /\ InsideInv /\ AccountInv
  BY DEF SInv
<1>3. Stops' = Stops /\ Reached' = Reached /\ Cover' = Cover
  BY <1>1, SameCover
<1>4. ShapeInv' /\ TreeInv'
  BY <1>1, <1>2 DEF ShapeInv, TreeInv
<1>5. InsideInv'
  BY <1>1, <1>2, <1>3 DEF InsideInv
<1>6. AccountInv'
  <2>1. Accounted(frames, {}, written, Cover, Reached)
    BY <1>1, <1>2 DEF AccountInv, Current
  <2> DEFINE gs == <<>>
  <2>2. Len(gs) = 1 - 1 /\ \A i \in 1 .. 1 - 1 : gs[i] = frames[i]
    OBVIOUS
  <2> HIDE DEF gs
  <2>3. 1 \in Nat /\ 1 > 0
    OBVIOUS
  <2>4. Accounted(gs, {}, written, Cover, Reached)
    BY <1>1, <2>1, <2>2, <2>3, CloseAccount
  <2> QED
    BY <1>1, <1>3, <2>4 DEF AccountInv, gs
<1> QED
  BY <1>4, <1>5, <1>6 DEF SInv

(***************************************************************************)
(* The theorems.                                                           *)
(***************************************************************************)

LEMMA SerializerBegins ==
  ASSUME RInit
  PROVE  SInv
<1>1. /\ map \in Configs /\ given \in {{}} \union {{tree} : tree \in Hierarchies}
      /\ pc = "begin" /\ frames = <<>> /\ key = <<>> /\ written = <<>> /\ result = "none"
  BY DEF RInit, SInit
<1>2. <<>> \in Keys /\ <<>> \in Seq(Keys) /\ <<>> \in Seq(Frames)
  BY DEF Keys
<1>3. ShapeInv
  BY <1>1, <1>2 DEF ShapeInv
<1>4. TreeInv /\ AccountInv
  BY <1>1 DEF TreeInv, AccountInv
<1>5. InsideInv
  <2>1. ASSUME NEW i \in 1 .. Len(frames) PROVE FALSE
    BY <1>1
  <2> QED
    BY <1>1, <2>1 DEF InsideInv
<1> QED
  BY <1>3, <1>4, <1>5 DEF SInv

LEMMA UnchangedKeeps ==
  ASSUME SInv, UNCHANGED svars
  PROVE  SInv'
<1>1. UNCHANGED <<map, rules, given, hierarchy, pc, frames, key, written, result>>
  BY DEF svars
<1>2. Stops' = Stops /\ Reached' = Reached /\ Cover' = Cover
  BY <1>1, SameCover
<1>3. Current' = Current /\ Top' = Top
  BY <1>1, <1>2 DEF Current, Top
<1>4. ShapeInv /\ TreeInv /\ InsideInv /\ AccountInv
  BY DEF SInv
<1>5. ShapeInv' /\ TreeInv'
  BY <1>1, <1>4 DEF ShapeInv, TreeInv
<1>6. InsideInv'
  BY <1>1, <1>2, <1>3, <1>4 DEF InsideInv
<1>7. AccountInv'
  BY <1>1, <1>2, <1>3, <1>4 DEF AccountInv
<1> QED
  BY <1>5, <1>6, <1>7 DEF SInv

LEMMA SerializerKeeps ==
  ASSUME SInv, [RNext]_rvars
  PROVE  SInv'
<1>1. CASE SNext
  BY <1>1, BeginExpandedKeeps, BeginGroupedKeeps, VisitNextKeeps, WriteEntryKeeps,
     NoEntryKeeps, OpenGroupKeeps, NoGroupKeeps, EndGroupKeeps, EndRootKeeps DEF SNext
<1>2. CASE UNCHANGED svars
  BY <1>2, UnchangedKeeps
<1>3. SNext \/ UNCHANGED svars
  BY Zenon DEF RNext, Write, OpenFile, ReadFile, rvars
<1> QED
  BY <1>1, <1>2, <1>3

LEMMA SerializerInvariant ==
  RSpec => []SInv
<1>1. RInit => SInv
  BY SerializerBegins
<1>2. SInv /\ [RNext]_rvars => SInv'
  BY SerializerKeeps
<1> QED
  BY <1>1, <1>2, PTL DEF RSpec

\* Every key is visited inside its group: what is left of it as a basename
\* is not empty (keyBasenameSpan in serializeHierarchy).
THEOREM VisitsStayInside ==
  RSpec => []InsideGroup
<1>1. SInv => InsideGroup
  BY DEF SInv, InsideInv, InsideGroup, Inside
<1> QED
  BY <1>1, SerializerInvariant, PTL

\* A walk that ends without an exception has written every entry that it
\* reaches, and none of them twice (serializeHierarchy).
THEOREM EntriesWrittenOnce ==
  RSpec => []WrittenOnce
<1>1. ASSUME SInv, JustWritten
      PROVE  ToSet(written) = Reached /\ Len(written) = Cardinality(Reached)
  <2>1. Accounted(<<>>, {}, written, Cover, Reached)
    BY <1>1 DEF SInv, AccountInv, JustWritten
  <2>2. /\ \A x \in Reached : \/ x \in ToSet(written) \/ x \in {}
                              \/ \E i \in 1 .. Len(<<>>) : x \in Rest(<<>>[i].todo, Cover)
        /\ \A x \in ToSet(written) : x \in Reached
        /\ \A i, j \in 1 .. Len(written) : written[i] = written[j] => i = j
    BY <2>1, AccountOf
  <2>3. ~ \E i \in 1 .. Len(<<>>) : TRUE
    OBVIOUS
  <2>4. ToSet(written) = Reached
    BY <2>2, <2>3
  <2>5. written \in Seq(Keys)
    BY <1>1 DEF SInv, ShapeInv
  <2> QED
    BY <2>2, <2>4, <2>5, ListLength
<1>2. SInv => WrittenOnce
  BY <1>1 DEF WrittenOnce
<1> QED
  BY <1>2, SerializerInvariant, PTL
=============================================================================
