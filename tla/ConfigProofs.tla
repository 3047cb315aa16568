---------------------------- MODULE ConfigProofs ----------------------------
(***************************************************************************)
(* The loops of class Config implement the calls its header describes, for *)
(* any Configs with any entries: refinement of ConfigContract by           *)
(* AccessSpec, and the two invariants of the config run that speak of the  *)
(* values on their way.                                                    *)
(***************************************************************************)
EXTENDS ConfigGetters, Facts

Merged(map, from)       == Contract!Merged(map, from)
Nulls(map)              == Contract!Nulls(map)
Prefixed(from, group)   == Contract!Prefixed(from, group)
Subconfig(map, group)   == Contract!Subconfig(map, group)
WithoutGroup(k, group)  == Contract!WithoutGroup(k, group)

IsMap(m) == DOMAIN m \subseteq ValidKeys /\ m = [k \in DOMAIN m |-> m[k]]

(***************************************************************************)
(* The invariant.                                                          *)
(***************************************************************************)

Calls == [op : {"merge", "mergeMoved", "mergeAsGroup", "getSubconfig"},
          dst : Configs, src : Configs, group : ValidKeys]

\* The entries the loop has passed, of the source as it was to begin with.
PassedKeys == {k \in DOMAIN begun[call.src] : cur = End \/ KeyBefore(k, cur)}
Seen == [k \in PassedKeys |-> begun[call.src][k]]

\* What a call makes of Config c when it has seen those entries.
SoFar(cl, old, seen, c) ==
  IF c = cl.dst /\ cl.op \in {"merge", "mergeMoved"} THEN Merged(old[c], seen)
  ELSE IF c = cl.dst /\ cl.op = "mergeAsGroup"
    THEN Merged(old[c], Prefixed(seen, cl.group))
  ELSE IF c = cl.src /\ cl.op = "mergeMoved" THEN Merged(old[c], Nulls(seen))
  ELSE old[c]

StoreType(s) == /\ s = [c \in Configs |-> s[c]]
                /\ \A c \in Configs : IsMap(s[c])

IdleInv == call = Idle => begun = store /\ result = Empty

LoopInv ==
  call # Idle =>
    /\ call \in Calls
    /\ cur \in DOMAIN begun[call.src] \union {End}
    /\ \A c \in Configs : store[c] = SoFar(call, begun, Seen, c)
    /\ call.op # "getSubconfig" => call.dst # call.src
    /\ call.op \in {"mergeAsGroup", "getSubconfig"} => call.group \in Groups
    /\ call.op = "mergeAsGroup" =>
         \A k \in PassedKeys : JoinKeys(call.group, k) \in ValidKeys

\* The subconfig so far; and no key hides the group, unless the client asks for
\* such groups.
SubconfigInv ==
  call.op = "getSubconfig" =>
    /\ result = Subconfig(Seen, call.group)
    /\ cur # End => ~ KeyBefore(cur, call.group)
    /\ AsksHidden \/ ~ Hidden(begun[call.src], call.group)

MapInv == StoreType(begun) /\ StoreType(store) /\ IdleInv /\ LoopInv /\ SubconfigInv

(***************************************************************************)
(* The operators of the contract.                                          *)
(***************************************************************************)

LEMMA MergedIs ==
  ASSUME NEW m, NEW f
  PROVE  Merged(m, f) = [x \in DOMAIN m \union DOMAIN f |->
                           IF x \in DOMAIN f THEN f[x] ELSE m[x]]
BY DEF Merged, Contract!Merged

\* Merging one more entry is assigning it behind the others.
LEMMA MergeOneMore ==
  ASSUME NEW m, NEW f, NEW k, NEW v
  PROVE  Merged(m, Assigned(f, k, v)) = Assigned(Merged(m, f), k, v)
<1> DEFINE D == DOMAIN m \union DOMAIN f \union {k}
<1>1. Merged(m, Assigned(f, k, v)) =
        [x \in D |-> IF x = k THEN v ELSE IF x \in DOMAIN f THEN f[x] ELSE m[x]]
  <2>1. DOMAIN Assigned(f, k, v) = DOMAIN f \union {k}
    BY DEF Assigned
  <2>2. \A x \in DOMAIN f \union {k} :
          Assigned(f, k, v)[x] = IF x = k THEN v ELSE f[x]
    BY DEF Assigned
  <2> QED
    BY <2>1, <2>2, MergedIs
<1>2. Assigned(Merged(m, f), k, v) =
        [x \in D |-> IF x = k THEN v ELSE IF x \in DOMAIN f THEN f[x] ELSE m[x]]
  BY MergedIs DEF Assigned
<1> QED
  BY <1>1, <1>2

\* Merging nothing changes nothing.
LEMMA MergeNothing ==
  ASSUME NEW m, NEW f, m = [k \in DOMAIN m |-> m[k]], DOMAIN f = {}
  PROVE  Merged(m, f) = m
<1>1. Merged(m, f) = [x \in DOMAIN m |-> m[x]]
  BY MergedIs
<1> QED
  BY <1>1

LEMMA NullOneMore ==
  ASSUME NEW f, NEW k, NEW v
  PROVE  Nulls(Assigned(f, k, v)) = Assigned(Nulls(f), k, NullData)
BY DEF Nulls, Contract!Nulls, Assigned, Contract!NullData, NullData,
       Contract!Datum, Datum

\* There is one entry for each prefixed key.
LEMMA PrefixedKeys ==
  ASSUME NEW f, NEW g
  PROVE  DOMAIN Prefixed(f, g) = {JoinKeys(g, k) : k \in DOMAIN f}
BY DEF Prefixed, Contract!Prefixed, JoinKeys, Contract!JoinKeys

LEMMA PrefixedIsFunction ==
  ASSUME NEW f, NEW g
  PROVE  Prefixed(f, g) = [x \in DOMAIN Prefixed(f, g) |-> Prefixed(f, g)[x]]
<1>1. Prefixed(f, g) = [x \in {JoinKeys(g, l) : l \in DOMAIN f} |->
                          f[CHOOSE l \in DOMAIN f : JoinKeys(g, l) = x]]
  BY DEF Prefixed, Contract!Prefixed, JoinKeys, Contract!JoinKeys
<1> QED
  BY <1>1

LEMMA PrefixedAt ==
  ASSUME NEW f, NEW g \in ValidKeys, DOMAIN f \subseteq ValidKeys, NEW k \in DOMAIN f
  PROVE  Prefixed(f, g)[JoinKeys(g, k)] = f[k]
<1>1. Prefixed(f, g) = [x \in {JoinKeys(g, l) : l \in DOMAIN f} |->
                          f[CHOOSE l \in DOMAIN f : JoinKeys(g, l) = x]]
  BY DEF Prefixed, Contract!Prefixed, JoinKeys, Contract!JoinKeys
<1>2. (CHOOSE l \in DOMAIN f : JoinKeys(g, l) = JoinKeys(g, k)) = k
  <2>1. "." \in KeyChars
    BY DEF KeyChars
  <2>2. \A l \in DOMAIN f : JoinKeys(g, l) = JoinKeys(g, k) => l = k
    BY <2>1, JoinInjective DEF ValidKeys
  <2> QED
    BY <2>2
<1>3. JoinKeys(g, k) \in {JoinKeys(g, l) : l \in DOMAIN f}
  OBVIOUS
<1> QED
  BY <1>1, <1>2, <1>3

LEMMA PrefixOneMore ==
  ASSUME NEW f, NEW g \in ValidKeys, DOMAIN f \subseteq ValidKeys,
         NEW k \in ValidKeys, NEW v
  PROVE  Prefixed(Assigned(f, k, v), g) = Assigned(Prefixed(f, g), JoinKeys(g, k), v)
<1> DEFINE new == Assigned(f, k, v)
<1> DEFINE left == Prefixed(new, g)
<1> DEFINE right == Assigned(Prefixed(f, g), JoinKeys(g, k), v)
<1>1. /\ DOMAIN new = DOMAIN f \union {k}
      /\ \A l \in DOMAIN f \union {k} : new[l] = IF l = k THEN v ELSE f[l]
  BY DEF Assigned
<1> HIDE DEF new
<1>2. /\ DOMAIN left = {JoinKeys(g, l) : l \in DOMAIN f \union {k}}
      /\ left = [x \in DOMAIN left |-> left[x]]
      /\ \A l \in DOMAIN f \union {k} : left[JoinKeys(g, l)] = new[l]
  <2>1. DOMAIN new \subseteq ValidKeys
    BY <1>1
  <2>2. DOMAIN left = {JoinKeys(g, l) : l \in DOMAIN new}
    BY PrefixedKeys
  <2>3. left = [x \in DOMAIN left |-> left[x]]
    BY PrefixedIsFunction
  <2>4. \A l \in DOMAIN new : left[JoinKeys(g, l)] = new[l]
    BY <2>1, PrefixedAt
  <2> HIDE DEF left
  <2> QED
    BY <1>1, <2>2, <2>3, <2>4
<1>3. /\ DOMAIN right = {JoinKeys(g, l) : l \in DOMAIN f} \union {JoinKeys(g, k)}
      /\ right = [x \in DOMAIN right |-> right[x]]
      /\ \A x \in DOMAIN right :
           right[x] = IF x = JoinKeys(g, k) THEN v ELSE Prefixed(f, g)[x]
  <2>1. DOMAIN Prefixed(f, g) = {JoinKeys(g, l) : l \in DOMAIN f}
    BY PrefixedKeys
  <2> QED
    BY <2>1 DEF Assigned
<1>4. DOMAIN left = DOMAIN right
  BY <1>2, <1>3
<1>5. ASSUME NEW l \in DOMAIN f \union {k}
      PROVE  left[JoinKeys(g, l)] = right[JoinKeys(g, l)]
  <2>1. JoinKeys(g, l) = JoinKeys(g, k) => l = k
    <3>1. "." \in KeyChars
      BY DEF KeyChars
    <3> QED
      BY <3>1, JoinInjective DEF ValidKeys
  <2>2. l # k => Prefixed(f, g)[JoinKeys(g, l)] = f[l]
    <3>1. l # k => l \in DOMAIN f
      OBVIOUS
    <3> QED
      BY <3>1, PrefixedAt
  <2>3. JoinKeys(g, l) \in DOMAIN right
    BY <1>3
  <2>4. left[JoinKeys(g, l)] = IF l = k THEN v ELSE f[l]
    BY <1>1, <1>2
  <2> QED
    BY <1>3, <2>1, <2>2, <2>3, <2>4
<1> HIDE DEF left, right
<1>6. \A x \in DOMAIN left : left[x] = right[x]
  BY <1>2, <1>5
<1> QED
  BY <1>2, <1>3, <1>4, <1>6 DEF left, right, new

(***************************************************************************)
(* The keys in a group.                                                    *)
(***************************************************************************)

LEMMA InGroupIs ==
  ASSUME NEW g \in ValidKeys, NEW k \in ValidKeys
  PROVE  CmpKeyPrefix(g, k) <=>
           /\ Len(k) > Len(g) /\ k[Len(g) + 1] = "."
           /\ \A i \in 1 .. Len(g) : k[i] = g[i]
<1>1. g \in Seq(KeyChars) /\ k \in Seq(KeyChars) /\ Len(g) \in Nat /\ Len(k) \in Nat
  BY DEF ValidKeys
<1>2. ASSUME Len(k) > Len(g)
      PROVE  SubSeq(k, 1, Len(g)) = g <=> \A i \in 1 .. Len(g) : k[i] = g[i]
  <2>1. /\ SubSeq(k, 1, Len(g)) \in Seq(KeyChars) /\ Len(SubSeq(k, 1, Len(g))) = Len(g)
        /\ \A i \in 1 .. Len(g) : SubSeq(k, 1, Len(g))[i] = k[i]
    BY <1>1, <1>2
  <2> QED
    BY <1>1, <2>1
<1> QED
  BY <1>2 DEF CmpKeyPrefix

\* What follows the name of the group is a key: getSubconfig never throws.
LEMMA RestOfGroupKey ==
  ASSUME NEW g \in ValidKeys, NEW k \in ValidKeys, CmpKeyPrefix(g, k)
  PROVE  /\ WithoutGroup(k, g) \in ValidKeys
         /\ k = JoinKeys(g, WithoutGroup(k, g))
<1> DEFINE r == WithoutGroup(k, g)
<1>1. /\ g \in Seq(KeyChars) /\ k \in Seq(KeyChars)
      /\ Len(g) \in Nat /\ Len(k) \in Nat /\ Len(k) > Len(g) /\ k[Len(g) + 1] = "."
      /\ \A i \in 1 .. Len(g) : k[i] = g[i]
  BY InGroupIs DEF ValidKeys
<1>2. /\ r \in Seq(KeyChars) /\ Len(r) = Len(k) - (Len(g) + 1)
      /\ \A i \in 1 .. Len(k) - (Len(g) + 1) : r[i] = k[Len(g) + 1 + i]
  <2>1. r = SubSeq(k, Len(g) + 2, Len(k))
    BY DEF WithoutGroup, Contract!WithoutGroup
  <2>2. /\ r \in Seq(KeyChars) /\ Len(r) = Len(k) - (Len(g) + 1)
        /\ \A i \in 1 .. Len(k) - (Len(g) + 1) : r[i] = k[(Len(g) + 2) + i - 1]
    BY <1>1, <2>1
  <2>3. \A i \in 1 .. Len(k) - (Len(g) + 1) : (Len(g) + 2) + i - 1 = Len(g) + 1 + i
    BY <1>1
  <2> QED
    BY <2>2, <2>3
<1> HIDE DEF r
<1>3. \A i \in 1 .. Len(k) : k[i] = "." => i > 1 /\ i < Len(k) /\ k[i - 1] # "."
  BY ValidKey
<1>4. r \in ValidKeys
  <2>1. ASSUME NEW i \in 1 .. Len(r), r[i] = "."
        PROVE  i > 1 /\ i < Len(r) /\ r[i - 1] # "."
    <3> DEFINE n == Len(g) + 1 + i
    <3>1. n \in 1 .. Len(k) /\ k[n] = "."
      BY <1>1, <1>2, <2>1
    <3>2. n < Len(k) /\ k[n - 1] # "."
      BY <1>3, <3>1
    <3>3. i # 1
      BY <1>1, <3>2
    <3>4. i - 1 \in 1 .. Len(k) - (Len(g) + 1) /\ Len(g) + 1 + (i - 1) = n - 1
      BY <1>1, <1>2, <3>3
    <3>5. r[i - 1] = k[n - 1]
      BY <1>2, <3>4
    <3> QED
      BY <1>1, <1>2, <3>2, <3>3, <3>5
  <2> QED
    BY <1>2, <2>1, ValidKey
<1>5. k = JoinKeys(g, r)
  <2> DEFINE j == JoinKeys(g, r)
  <2>1. "." \in KeyChars
    BY DEF KeyChars
  <2>2. /\ j \in Seq(KeyChars) /\ Len(j) = Len(g) + 1 + Len(r)
        /\ \A i \in 1 .. Len(g) + 1 + Len(r) :
             j[i] = IF i <= Len(g) THEN g[i]
                    ELSE IF i = Len(g) + 1 THEN "." ELSE r[i - (Len(g) + 1)]
    BY <1>1, <1>2, <2>1, JoinedKey
  <2> HIDE DEF j
  <2>3. Len(j) = Len(k)
    BY <1>1, <1>2, <2>2
  <2>4. ASSUME NEW i \in 1 .. Len(k) PROVE j[i] = k[i]
    <3>1. i \in 1 .. Len(g) + 1 + Len(r)
      BY <1>1, <1>2
    <3>2. CASE i <= Len(g)
      <4>1. i \in 1 .. Len(g)
        BY <1>1, <3>2
      <4> QED
        BY <1>1, <2>2, <3>1, <3>2, <4>1
    <3>3. CASE i = Len(g) + 1
      BY <1>1, <2>2, <3>1, <3>3
    <3>4. CASE i > Len(g) + 1
      <4>1. i - (Len(g) + 1) \in 1 .. Len(k) - (Len(g) + 1)
        BY <1>1, <3>4
      <4>2. Len(g) + 1 + (i - (Len(g) + 1)) = i
        BY <1>1
      <4>3. j[i] = r[i - (Len(g) + 1)]
        BY <1>1, <2>2, <3>1, <3>4
      <4> QED
        BY <1>2, <4>1, <4>2, <4>3
    <3> QED
      BY <1>1, <3>2, <3>3, <3>4
  <2>5. j = k
    BY <1>1, <2>2, <2>3, <2>4
  <2> QED
    BY <2>5 DEF j
<1> QED
  BY <1>4, <1>5 DEF r

KeysIn(f, g) == {k \in DOMAIN f : CmpKeyPrefix(g, k)}

\* There is one entry for each key of a subconfig.
LEMMA SubconfigKeys ==
  ASSUME NEW f, NEW g
  PROVE  DOMAIN Subconfig(f, g) = {WithoutGroup(k, g) : k \in KeysIn(f, g)}
BY DEF Subconfig, Contract!Subconfig, KeysIn, CmpKeyPrefix, Contract!InGroup, WithoutGroup

LEMMA SubconfigIsFunction ==
  ASSUME NEW f, NEW g
  PROVE  Subconfig(f, g) = [x \in DOMAIN Subconfig(f, g) |-> Subconfig(f, g)[x]]
<1>1. Subconfig(f, g) = [x \in {WithoutGroup(l, g) : l \in KeysIn(f, g)} |->
                           f[CHOOSE l \in KeysIn(f, g) : WithoutGroup(l, g) = x]]
  BY DEF Subconfig, Contract!Subconfig, KeysIn, CmpKeyPrefix, Contract!InGroup, WithoutGroup
<1> QED
  BY <1>1

LEMMA SubconfigAt ==
  ASSUME NEW f, NEW g \in ValidKeys, DOMAIN f \subseteq ValidKeys, NEW k \in KeysIn(f, g)
  PROVE  Subconfig(f, g)[WithoutGroup(k, g)] = f[k]
<1> DEFINE keys == KeysIn(f, g)
<1>1. Subconfig(f, g) = [x \in {WithoutGroup(l, g) : l \in keys} |->
                           f[CHOOSE l \in keys : WithoutGroup(l, g) = x]]
  BY DEF Subconfig, Contract!Subconfig, KeysIn, CmpKeyPrefix, Contract!InGroup, WithoutGroup
<1>2. (CHOOSE l \in keys : WithoutGroup(l, g) = WithoutGroup(k, g)) = k
  <2>1. \A l \in keys : l = JoinKeys(g, WithoutGroup(l, g))
    BY RestOfGroupKey DEF KeysIn
  <2>2. \A l \in keys : WithoutGroup(l, g) = WithoutGroup(k, g) => l = k
    BY <2>1
  <2> QED
    BY <2>2
<1>3. WithoutGroup(k, g) \in {WithoutGroup(l, g) : l \in keys}
  OBVIOUS
<1> HIDE DEF keys
<1> QED
  BY <1>1, <1>2, <1>3

LEMMA SubconfigOneMore ==
  ASSUME NEW f, NEW g \in ValidKeys, DOMAIN f \subseteq ValidKeys,
         NEW k \in ValidKeys, NEW v, CmpKeyPrefix(g, k)
  PROVE  Subconfig(Assigned(f, k, v), g) = Assigned(Subconfig(f, g), WithoutGroup(k, g), v)
<1> DEFINE new == Assigned(f, k, v)
<1> DEFINE left == Subconfig(new, g)
<1> DEFINE right == Assigned(Subconfig(f, g), WithoutGroup(k, g), v)
<1> DEFINE In(h) == KeysIn(h, g)
<1>1. /\ DOMAIN new = DOMAIN f \union {k}
      /\ \A l \in DOMAIN f \union {k} : new[l] = IF l = k THEN v ELSE f[l]
  BY DEF Assigned
<1>2. DOMAIN new \subseteq ValidKeys /\ In(new) = In(f) \union {k}
  BY <1>1 DEF KeysIn
<1> HIDE DEF new
<1>3. /\ DOMAIN left = {WithoutGroup(l, g) : l \in In(new)}
      /\ left = [x \in DOMAIN left |-> left[x]]
      /\ \A l \in In(new) : left[WithoutGroup(l, g)] = new[l]
  BY <1>2, SubconfigKeys, SubconfigIsFunction, SubconfigAt
<1>4. /\ DOMAIN Subconfig(f, g) = {WithoutGroup(l, g) : l \in In(f)}
      /\ \A l \in In(f) : Subconfig(f, g)[WithoutGroup(l, g)] = f[l]
  BY SubconfigKeys, SubconfigAt
<1>5. /\ DOMAIN right = {WithoutGroup(l, g) : l \in In(f)} \union {WithoutGroup(k, g)}
      /\ right = [x \in DOMAIN right |-> right[x]]
      /\ \A x \in DOMAIN right :
           right[x] = IF x = WithoutGroup(k, g) THEN v ELSE Subconfig(f, g)[x]
  BY <1>4 DEF Assigned
<1>6. DOMAIN left = DOMAIN right
  <2> HIDE DEF left, right, In
  <2> QED
    BY <1>2, <1>3, <1>5
<1>7. ASSUME NEW l \in In(new)
      PROVE  left[WithoutGroup(l, g)] = right[WithoutGroup(l, g)]
  <2>1. WithoutGroup(l, g) = WithoutGroup(k, g) => l = k
    <3>1. l = JoinKeys(g, WithoutGroup(l, g)) /\ k = JoinKeys(g, WithoutGroup(k, g))
      BY <1>2, RestOfGroupKey DEF KeysIn
    <3> QED
      BY <3>1
  <2>2. l # k => l \in In(f)
    BY <1>2
  <2>3. new[l] = IF l = k THEN v ELSE f[l]
    <3>1. l \in DOMAIN f \union {k}
      BY <1>1 DEF KeysIn
    <3> QED
      BY <1>1, <3>1
  <2> HIDE DEF left, right, In
  <2>4. WithoutGroup(l, g) \in DOMAIN right
    BY <1>3, <1>6
  <2> QED
    BY <1>3, <1>4, <1>5, <2>1, <2>2, <2>3, <2>4
<1> HIDE DEF left, right, In
<1>8. \A x \in DOMAIN left : left[x] = right[x]
  BY <1>3, <1>7
<1> QED
  BY <1>3, <1>5, <1>6, <1>8 DEF left, right, new

\* Only the keys in the group matter to a subconfig.
LEMMA SubconfigOfPart ==
  ASSUME NEW m, NEW P, NEW g \in ValidKeys, P \subseteq DOMAIN m,
         DOMAIN m \subseteq ValidKeys,
         \A k \in DOMAIN m : CmpKeyPrefix(g, k) => k \in P
  PROVE  Subconfig([k \in P |-> m[k]], g) = Subconfig(m, g)
<1> DEFINE f == [k \in P |-> m[k]]
<1> DEFINE keys == KeysIn(m, g)
<1>1. DOMAIN f = P /\ \A k \in keys : f[k] = m[k]
  BY DEF KeysIn
<1>2. KeysIn(f, g) = keys /\ DOMAIN f \subseteq ValidKeys
  BY <1>1 DEF KeysIn
<1> HIDE DEF f
<1>3. /\ DOMAIN Subconfig(f, g) = {WithoutGroup(k, g) : k \in keys}
      /\ Subconfig(f, g) = [x \in DOMAIN Subconfig(f, g) |-> Subconfig(f, g)[x]]
      /\ \A k \in keys : Subconfig(f, g)[WithoutGroup(k, g)] = m[k]
  <2>1. DOMAIN Subconfig(f, g) = {WithoutGroup(k, g) : k \in keys}
    BY <1>2, SubconfigKeys
  <2>2. \A k \in keys : Subconfig(f, g)[WithoutGroup(k, g)] = m[k]
    BY <1>1, <1>2, SubconfigAt
  <2> QED
    BY <2>1, <2>2, SubconfigIsFunction
<1>4. /\ DOMAIN Subconfig(m, g) = {WithoutGroup(k, g) : k \in keys}
      /\ Subconfig(m, g) = [x \in DOMAIN Subconfig(m, g) |-> Subconfig(m, g)[x]]
      /\ \A k \in keys : Subconfig(m, g)[WithoutGroup(k, g)] = m[k]
  <2>1. DOMAIN Subconfig(m, g) = {WithoutGroup(k, g) : k \in keys}
    BY SubconfigKeys
  <2>2. \A k \in keys : Subconfig(m, g)[WithoutGroup(k, g)] = m[k]
    BY SubconfigAt
  <2> QED
    BY <2>1, <2>2, SubconfigIsFunction
<1> HIDE DEF keys
<1>5. \A x \in DOMAIN Subconfig(m, g) : Subconfig(f, g)[x] = Subconfig(m, g)[x]
  BY <1>3, <1>4
<1> QED
  BY <1>3, <1>4, <1>5 DEF f

LEMMA SubconfigOfNothing ==
  ASSUME NEW f, NEW g \in ValidKeys, DOMAIN f \subseteq ValidKeys,
         \A k \in DOMAIN f : ~ CmpKeyPrefix(g, k)
  PROVE  Subconfig(f, g) = Empty
<1>1. KeysIn(f, g) = {}
  BY DEF KeysIn
<1>2. DOMAIN Subconfig(f, g) = {}
  <2>1. DOMAIN Subconfig(f, g) = {WithoutGroup(k, g) : k \in KeysIn(f, g)}
    BY SubconfigKeys
  <2> QED
    BY <1>1, <2>1
<1>3. Subconfig(f, g) = [x \in DOMAIN Subconfig(f, g) |-> Subconfig(f, g)[x]]
  BY SubconfigIsFunction
<1> QED
  BY <1>2, <1>3 DEF Empty

(***************************************************************************)
(* Where the keys of a group are in the order.                             *)
(***************************************************************************)

LEMMA GroupPrefix ==
  ASSUME NEW g \in ValidKeys
  PROVE  /\ g \o <<".">> \in Seq(KeyChars)
         /\ Len(g \o <<".">>) = Len(g) + 1
         /\ \A i \in 1 .. Len(g) + 1 :
              (g \o <<".">>)[i] = IF i <= Len(g) THEN g[i] ELSE "."
<1>1. g \in Seq(KeyChars) /\ "." \in KeyChars
  BY DEF ValidKeys, KeyChars
<1> QED
  BY <1>1

\* They do not come before the name of the group, with or without a period.
LEMMA GroupComesFirst ==
  ASSUME NEW g \in ValidKeys, NEW k \in ValidKeys, CmpKeyPrefix(g, k)
  PROVE  ~ KeyBefore(k, g) /\ ~ KeyBefore(k, g \o <<".">>)
<1>1. /\ g \in Seq(KeyChars) /\ k \in Seq(KeyChars)
      /\ Len(g) \in Nat /\ Len(k) \in Nat /\ Len(k) > Len(g) /\ k[Len(g) + 1] = "."
      /\ \A i \in 1 .. Len(g) : k[i] = g[i]
  BY InGroupIs DEF ValidKeys
<1>2. ~ KeyBefore(k, g)
  <2>1. Parts(g, k, Len(g))
    BY <1>1 DEF Parts
  <2>2. KeyBefore(g, k)
    BY <1>1, <2>1, BeforeIff
  <2> QED
    BY <1>1, <2>2, BeforeIrreflexive, BeforeTransitive
<1>3. ~ KeyBefore(k, g \o <<".">>)
  <2> DEFINE p == g \o <<".">>
  <2>1. /\ p \in Seq(KeyChars) /\ Len(p) = Len(g) + 1
        /\ \A i \in 1 .. Len(g) + 1 : p[i] = IF i <= Len(g) THEN g[i] ELSE "."
    BY GroupPrefix
  <2> HIDE DEF p
  <2>2. \A i \in 1 .. Len(p) : p[i] = k[i]
    BY <1>1, <2>1
  <2>3. CASE Len(k) = Len(p)
    <3>1. k = p
      BY <1>1, <2>1, <2>2, <2>3
    <3> QED
      BY <1>1, <3>1, BeforeIrreflexive DEF p
  <2>4. CASE Len(k) > Len(p)
    <3>1. Parts(p, k, Len(p))
      BY <1>1, <2>1, <2>2, <2>4 DEF Parts
    <3>2. KeyBefore(p, k)
      BY <1>1, <2>1, <3>1, BeforeIff
    <3>3. ~ KeyBefore(k, p)
      BY <1>1, <2>1, <3>2, BeforeIrreflexive, BeforeTransitive
    <3> QED
      BY <3>3 DEF p
  <2> QED
    BY <1>1, <2>1, <2>3, <2>4
<1> QED
  BY <1>2, <1>3

\* There is nothing between them: what comes before one of them is in the
\* group, or comes before the name and the period.
LEMMA GroupIsConvex ==
  ASSUME NEW g \in ValidKeys, NEW k \in ValidKeys, NEW x \in ValidKeys,
         CmpKeyPrefix(g, k), KeyBefore(x, k), ~ KeyBefore(x, g \o <<".">>)
  PROVE  CmpKeyPrefix(g, x)
<1> DEFINE p == g \o <<".">>
<1>1. /\ g \in Seq(KeyChars) /\ k \in Seq(KeyChars) /\ x \in Seq(KeyChars)
      /\ Len(g) \in Nat /\ Len(k) \in Nat /\ Len(x) \in Nat
      /\ Len(k) > Len(g) /\ k[Len(g) + 1] = "."
      /\ \A i \in 1 .. Len(g) : k[i] = g[i]
  BY InGroupIs DEF ValidKeys
<1>2. /\ p \in Seq(KeyChars) /\ Len(p) = Len(g) + 1
      /\ \A i \in 1 .. Len(g) + 1 : p[i] = IF i <= Len(g) THEN g[i] ELSE "."
  BY GroupPrefix
<1>3. ~ KeyBefore(x, p)
  OBVIOUS
<1> HIDE DEF p
<1>4. PICK n \in Nat : Parts(x, k, n)
  BY <1>1, BeforeIff
<1>5. \A i \in 1 .. Len(g) + 1 : p[i] = k[i]
  BY <1>1, <1>2
<1>6. CASE n < Len(p)
  <2>1. Parts(x, p, n)
    <3>1. \A i \in 1 .. n : x[i] = p[i]
      <4>1. \A i \in 1 .. n : i \in 1 .. Len(g) + 1
        BY <1>1, <1>2, <1>6
      <4> QED
        BY <1>4, <1>5, <4>1 DEF Parts
    <3>2. p[n + 1] = k[n + 1]
      BY <1>1, <1>2, <1>5, <1>6
    <3> QED
      BY <1>4, <1>6, <3>1, <3>2 DEF Parts
  <2> QED
    BY <1>1, <1>2, <1>3, <2>1, BeforeIff
<1>7. CASE n >= Len(p)
  <2>1. Len(x) > Len(g)
    BY <1>1, <1>2, <1>4, <1>7 DEF Parts
  <2>2. \A i \in 1 .. Len(g) + 1 : i \in 1 .. n
    BY <1>1, <1>2, <1>7
  <2>3. \A i \in 1 .. Len(g) + 1 : x[i] = p[i]
    BY <1>4, <1>5, <2>2 DEF Parts
  <2>4. x[Len(g) + 1] = "." /\ \A i \in 1 .. Len(g) : x[i] = g[i]
    <3>1. Len(g) + 1 \in 1 .. Len(g) + 1 /\ ~ (Len(g) + 1 <= Len(g))
      BY <1>1
    <3>2. \A i \in 1 .. Len(g) : i \in 1 .. Len(g) + 1 /\ i <= Len(g)
      BY <1>1
    <3> QED
      BY <1>2, <2>3, <3>1, <3>2
  <2> QED
    BY <2>1, <2>4, InGroupIs
<1> QED
  BY <1>1, <1>2, <1>6, <1>7

(***************************************************************************)
(* The iterator.                                                           *)
(***************************************************************************)

LEMMA EndIsNoKey == End \notin ValidKeys
<1> SUFFICES ASSUME End \in ValidKeys PROVE FALSE
  OBVIOUS
<1>1. End \in Seq(KeyChars) /\ Len(End) = 1 /\ End[1] = NUL
  BY DEF ValidKeys, End
<1>2. NUL \in KeyChars
  BY <1>1
<1> QED
  BY <1>2 DEF NUL, KeyChars, Digits, Letters

\* The orders of two keys exclude each other.
LEMMA BeforeAsymmetric ==
  ASSUME NEW k \in ValidKeys, NEW l \in ValidKeys
  PROVE  ~ KeyBefore(k, k) /\ ~ (KeyBefore(k, l) /\ KeyBefore(l, k))
BY BeforeIrreflexive, BeforeTransitive DEF ValidKeys

LEMMA BeginPassesNone ==
  ASSUME NEW m, DOMAIN m \subseteq ValidKeys, NEW n, IsBegin(m, n)
  PROVE  /\ n \in DOMAIN m \union {End}
         /\ {k \in DOMAIN m : n = End \/ KeyBefore(k, n)} = {}
<1>1. CASE DOMAIN m = {}
  BY <1>1 DEF IsBegin, IsFirst
<1>2. CASE DOMAIN m # {}
  <2>1. n \in DOMAIN m /\ \A x \in DOMAIN m : x = n \/ KeyBefore(n, x)
    BY <1>2 DEF IsBegin, IsFirst
  <2>2. n # End
    BY <2>1, EndIsNoKey
  <2> QED
    BY <2>1, <2>2, BeforeAsymmetric
<1> QED
  BY <1>1, <1>2

\* ++ cur passes one key and no other.
LEMMA SuccessorPassesOne ==
  ASSUME NEW m, DOMAIN m \subseteq ValidKeys, NEW k \in DOMAIN m, NEW n,
         IsSuccessor(m, k, n)
  PROVE  /\ n \in DOMAIN m \union {End}
         /\ n # End => KeyBefore(k, n)
         /\ {x \in DOMAIN m : n = End \/ KeyBefore(x, n)} =
              {x \in DOMAIN m : KeyBefore(x, k)} \union {k}
<1> DEFINE later == {x \in DOMAIN m : KeyBefore(k, x)}
<1>1. ASSUME NEW x \in DOMAIN m
      PROVE  x \notin later <=> x = k \/ KeyBefore(x, k)
  <2>1. x # k => KeyBefore(x, k) \/ KeyBefore(k, x)
    BY BeforeTotal DEF ValidKeys
  <2> QED
    BY <2>1, BeforeAsymmetric
<1>2. CASE later = {}
  <2>1. n = End
    BY <1>2 DEF IsSuccessor, IsFirst
  <2> QED
    BY <1>1, <1>2, <2>1
<1>3. CASE later # {}
  <2>1. n \in later /\ \A x \in later : x = n \/ KeyBefore(n, x)
    BY <1>3 DEF IsSuccessor, IsFirst
  <2>2. n \in DOMAIN m /\ n \in ValidKeys /\ n # End /\ KeyBefore(k, n)
    BY <2>1, EndIsNoKey
  <2>3. ASSUME NEW x \in DOMAIN m
        PROVE  KeyBefore(x, n) <=> x \notin later
    <3>1. x \in later => ~ KeyBefore(x, n)
      BY <2>1, <2>2, BeforeAsymmetric
    <3>2. x \notin later => KeyBefore(x, n)
      <4>1. x = k => KeyBefore(x, n)
        BY <2>2
      <4>2. KeyBefore(x, k) => KeyBefore(x, n)
        BY <2>2, BeforeTransitive DEF ValidKeys
      <4> QED
        BY <1>1, <4>1, <4>2
    <3> QED
      BY <3>1, <3>2
  <2> HIDE DEF later
  <2>4. ASSUME NEW x \in DOMAIN m
        PROVE  n = End \/ KeyBefore(x, n) <=> KeyBefore(x, k) \/ x = k
    BY <1>1, <2>2, <2>3
  <2> QED
    BY <2>2, <2>4
<1> QED
  BY <1>2, <1>3

\* One iteration of any of the loops.
LEMMA OneIteration ==
  ASSUME MapInv, call \in Calls, cur # End, begun' = begun, call' = call,
         DOMAIN store'[call.src] = DOMAIN begun[call.src], Advance
  PROVE  /\ cur \in DOMAIN begun[call.src] /\ cur \in ValidKeys
         /\ cur \notin PassedKeys
         /\ cur' \in DOMAIN begun[call.src] \union {End}
         /\ cur' # End => KeyBefore(cur, cur')
         /\ PassedKeys' = PassedKeys \union {cur}
         /\ Seen' = Assigned(Seen, cur, begun[call.src][cur])
<1> DEFINE m == begun[call.src]
<1>1. call # Idle /\ call.src \in Configs
  BY DEF Calls, Idle
<1>2. cur \in DOMAIN m
  BY <1>1 DEF MapInv, LoopInv
<1>3. DOMAIN m \subseteq ValidKeys
  BY <1>1 DEF MapInv, StoreType, IsMap
<1>4. IsSuccessor(m, cur, cur')
  BY DEF Advance, IsSuccessor
<1>5. PassedKeys = {x \in DOMAIN m : KeyBefore(x, cur)}
  BY DEF PassedKeys
<1>6. cur \notin PassedKeys
  BY <1>2, <1>3, <1>5, BeforeAsymmetric
<1>7. PassedKeys' = {x \in DOMAIN m : cur' = End \/ KeyBefore(x, cur')}
  BY DEF PassedKeys, End
<1> HIDE DEF m
<1>8. /\ cur' \in DOMAIN m \union {End}
      /\ cur' # End => KeyBefore(cur, cur')
      /\ PassedKeys' = PassedKeys \union {cur}
  BY <1>2, <1>3, <1>4, <1>5, <1>7, SuccessorPassesOne
<1>9. Seen' = Assigned(Seen, cur, m[cur])
  <2>1. Seen' = [k \in PassedKeys \union {cur} |-> m[k]]
    BY <1>8 DEF Seen, m
  <2>2. Seen = [k \in PassedKeys |-> m[k]]
    BY DEF Seen, m
  <2>3. Assigned(Seen, cur, m[cur]) =
          [k \in PassedKeys \union {cur} |-> IF k = cur THEN m[cur] ELSE m[k]]
    BY <2>2 DEF Assigned
  <2> QED
    BY <2>1, <2>3
<1> QED
  BY <1>2, <1>3, <1>6, <1>8, <1>9 DEF m

(***************************************************************************)
(* The invariant holds.                                                    *)
(***************************************************************************)

LEMMA MapInit == Init => MapInv
<1> SUFFICES ASSUME Init PROVE MapInv
  OBVIOUS
<1>1. IsMap(Empty)
  BY DEF IsMap, Empty
<1>2. StoreType(store)
  BY <1>1 DEF Init, StoreType
<1> QED
  BY <1>2 DEF Init, MapInv, IdleInv, LoopInv, SubconfigInv, Idle

LEMMA MapUnchanged ==
  ASSUME MapInv, UNCHANGED <<store, call, cur, result, begun>>
  PROVE  MapInv'
BY DEF MapInv, StoreType, IdleInv, LoopInv, SubconfigInv, SoFar, Seen, PassedKeys

LEMMA AssignedIsMap ==
  ASSUME NEW m, IsMap(m), NEW k \in ValidKeys, NEW v
  PROVE  IsMap(Assigned(m, k, v))
<1>1. DOMAIN Assigned(m, k, v) = DOMAIN m \union {k}
  BY DEF Assigned
<1>2. Assigned(m, k, v) = [x \in DOMAIN Assigned(m, k, v) |-> Assigned(m, k, v)[x]]
  BY DEF Assigned
<1> QED
  BY <1>1, <1>2 DEF IsMap

\* Assigning an entry of one Config.
LEMMA AssignedStore ==
  ASSUME NEW s, StoreType(s), NEW c \in Configs, NEW k \in ValidKeys, NEW v
  PROVE  LET t == [s EXCEPT ![c] = Assigned(s[c], k, v)]
         IN  /\ StoreType(t)
             /\ \A d \in Configs : t[d] = IF d = c THEN Assigned(s[c], k, v) ELSE s[d]
<1> DEFINE t == [s EXCEPT ![c] = Assigned(s[c], k, v)]
<1>1. \A d \in Configs : t[d] = IF d = c THEN Assigned(s[c], k, v) ELSE s[d]
  BY DEF StoreType
<1>2. t = [d \in Configs |-> t[d]]
  BY DEF StoreType
<1>3. \A d \in Configs : IsMap(t[d])
  BY <1>1, AssignedIsMap DEF StoreType
<1> HIDE DEF t
<1>4. StoreType(t)
  BY <1>2, <1>3 DEF StoreType
<1> QED
  BY <1>1, <1>4 DEF t

LEMMA SetKeepsInv ==
  ASSUME MapInv, NEW c \in Configs, NEW k \in EntryKeys, NEW v, Set(c, k, v)
  PROVE  MapInv'
<1>1. k \in ValidKeys
  BY KeysAssumption
<1>2. StoreType(store')
  BY <1>1, AssignedStore DEF Set, MapInv
<1>3. begun' = store' /\ call' = Idle /\ result' = Empty
  BY DEF Set, CanCall, MapInv, IdleInv
<1> QED
  BY <1>2, <1>3 DEF MapInv, IdleInv, LoopInv, SubconfigInv, Idle

\* The call is over.
LEMMA ReturnKeepsInv ==
  ASSUME StoreType(store'), NEW threw, Return(threw)
  PROVE  MapInv'
BY DEF Return, MapInv, IdleInv, LoopInv, SubconfigInv, Idle

LEMMA NothingSoFar ==
  ASSUME NEW cl \in Calls, NEW old, NEW c, IsMap(old[c]), NEW seen, DOMAIN seen = {}
  PROVE  SoFar(cl, old, seen, c) = old[c]
<1>1. DOMAIN Nulls(seen) = {}
  BY DEF Nulls, Contract!Nulls
<1>2. DOMAIN Prefixed(seen, cl.group) = {}
  <2>1. cl.group \in ValidKeys
    BY DEF Calls
  <2>2. DOMAIN Prefixed(seen, cl.group) = {JoinKeys(cl.group, k) : k \in DOMAIN seen}
    BY <2>1, PrefixedKeys
  <2> QED
    BY <2>2
<1>3. old[c] = [k \in DOMAIN old[c] |-> old[c][k]]
  BY DEF IsMap
<1>4. /\ Merged(old[c], seen) = old[c]
      /\ Merged(old[c], Nulls(seen)) = old[c]
      /\ Merged(old[c], Prefixed(seen, cl.group)) = old[c]
  BY <1>1, <1>2, <1>3, MergeNothing
<1> QED
  BY <1>4 DEF SoFar

LEMMA BeginMergeKeepsInv ==
  ASSUME MapInv, NEW op \in {"merge", "mergeMoved", "mergeAsGroup"},
         NEW dst \in Configs, NEW src \in Configs, NEW group \in ValidKeys,
         op = "mergeAsGroup" => group \in Groups,
         BeginMerge(op, dst, src, group)
  PROVE  MapInv'
<1>1. /\ call' = [op |-> op, dst |-> dst, src |-> src, group |-> group]
      /\ store' = store /\ begun' = begun /\ begun = store /\ result' = result
      /\ dst # src
      /\ IsBegin(begun[src], cur')
  BY DEF BeginMerge, CanCall, MapInv, IdleInv
<1>2. call' \in Calls /\ call'.src = src /\ call'.dst = dst
      /\ call'.op = op /\ call'.group = group
  BY <1>1 DEF Calls
<1>3. DOMAIN begun[src] \subseteq ValidKeys
  BY DEF MapInv, StoreType, IsMap
<1>4. /\ cur' \in DOMAIN begun[src] \union {End}
      /\ {k \in DOMAIN begun[src] : cur' = End \/ KeyBefore(k, cur')} = {}
  BY <1>1, <1>3, BeginPassesNone
<1>5. PassedKeys' = {} /\ DOMAIN Seen' = {}
  BY <1>1, <1>2, <1>4 DEF PassedKeys, Seen, End
<1>6. ASSUME NEW c \in Configs PROVE store'[c] = SoFar(call', begun', Seen', c)
  <2>1. IsMap(begun'[c])
    BY <1>1 DEF MapInv, StoreType
  <2> QED
    BY <1>1, <1>2, <1>5, <2>1, NothingSoFar
<1>7. LoopInv'
  BY <1>1, <1>2, <1>4, <1>5, <1>6 DEF LoopInv, End
<1>8. SubconfigInv'
  BY <1>2 DEF SubconfigInv
<1>9. IdleInv'
  BY <1>1, <1>2 DEF IdleInv, Idle, MapInv
<1> QED
  BY <1>1, <1>7, <1>8, <1>9 DEF MapInv, StoreType

LEMMA MergeEntryKeepsInv ==
  ASSUME MapInv, MergeEntry
  PROVE  MapInv'
<1> DEFINE dst == call.dst
<1> DEFINE src == call.src
<1>1. /\ call.op = "merge" /\ cur # End /\ Advance
      /\ call' = call /\ begun' = begun /\ result' = result
      /\ store' = [store EXCEPT ![dst] = Assigned(@, cur, store[src][cur])]
  BY DEF MergeEntry, InLoop
<1>2. /\ call # Idle /\ call \in Calls /\ dst \in Configs /\ src \in Configs
      /\ dst # src /\ cur \in DOMAIN begun[src] /\ IsMap(begun[src])
      /\ \A c \in Configs : store[c] = SoFar(call, begun, Seen, c)
  BY <1>1 DEF MapInv, LoopInv, Idle, Calls, StoreType
<1>3. cur \in ValidKeys /\ store[src] = begun[src]
  BY <1>1, <1>2 DEF IsMap, SoFar
<1>4. /\ StoreType(store')
      /\ \A c \in Configs : store'[c] = IF c = dst THEN Assigned(store[c], cur, store[src][cur])
                                                  ELSE store[c]
  <2>1. store = [c \in Configs |-> store[c]] /\ \A c \in Configs : IsMap(store[c])
    BY DEF MapInv, StoreType
  <2>2. /\ store' = [c \in Configs |-> store'[c]]
        /\ \A c \in Configs : store'[c] = IF c = dst THEN Assigned(store[c], cur, store[src][cur])
                                                    ELSE store[c]
    BY <1>1, <1>2, <2>1
  <2>3. StoreType(store')
    BY <1>3, <2>1, <2>2, AssignedIsMap DEF StoreType
  <2> QED
    BY <2>2, <2>3
<1>5. /\ cur' \in DOMAIN begun[src] \union {End}
      /\ Seen' = Assigned(Seen, cur, begun[src][cur])
  BY <1>1, <1>2, <1>3, <1>4, OneIteration
<1>6. ASSUME NEW c \in Configs PROVE store'[c] = SoFar(call', begun', Seen', c)
  <2>1. CASE c = dst
    <3>1. store[c] = Merged(begun[c], Seen)
      BY <1>1, <1>2, <2>1 DEF SoFar
    <3>2. store'[c] = Merged(begun[c], Assigned(Seen, cur, begun[src][cur]))
      BY <1>3, <1>4, <2>1, <3>1, MergeOneMore
    <3> QED
      BY <1>1, <1>5, <2>1, <3>2 DEF SoFar
  <2>2. CASE c # dst
    BY <1>1, <1>2, <1>4, <2>2 DEF SoFar
  <2> QED
    BY <2>1, <2>2
<1>7. LoopInv'
  BY <1>1, <1>2, <1>5, <1>6 DEF LoopInv, End
<1> QED
  BY <1>1, <1>2, <1>4, <1>7 DEF MapInv, SubconfigInv, IdleInv, Idle, StoreType

LEMMA MergeMovedEntryKeepsInv ==
  ASSUME MapInv, MergeMovedEntry
  PROVE  MapInv'
<1> DEFINE dst == call.dst
<1> DEFINE src == call.src
<1> DEFINE given == [store EXCEPT ![dst] = Assigned(@, cur, store[src][cur])]
<1>1. /\ call.op = "mergeMoved" /\ cur # End /\ Advance
      /\ call' = call /\ begun' = begun /\ result' = result
      /\ store' = [given EXCEPT ![src] = Assigned(@, cur, NullData)]
  BY DEF MergeMovedEntry, InLoop
<1>2. /\ call # Idle /\ call \in Calls /\ dst \in Configs /\ src \in Configs
      /\ dst # src /\ cur \in DOMAIN begun[src] /\ IsMap(begun[src])
      /\ \A c \in Configs : store[c] = SoFar(call, begun, Seen, c)
  BY <1>1 DEF MapInv, LoopInv, Idle, Calls, StoreType
<1>3. cur \in ValidKeys
  BY <1>2 DEF IsMap
<1>4. /\ store = [c \in Configs |-> store[c]] /\ \A c \in Configs : IsMap(store[c])
  BY DEF MapInv, StoreType
<1>5. given = [c \in Configs |-> IF c = dst THEN Assigned(store[c], cur, store[src][cur])
                                            ELSE store[c]]
  BY <1>2, <1>4
<1> HIDE DEF given
<1>6. /\ store' = [c \in Configs |-> store'[c]]
      /\ \A c \in Configs :
           store'[c] = IF c = src THEN Assigned(store[c], cur, NullData)
                       ELSE IF c = dst THEN Assigned(store[c], cur, store[src][cur])
                       ELSE store[c]
  BY <1>1, <1>2, <1>5
<1>7. StoreType(store')
  BY <1>3, <1>4, <1>6, AssignedIsMap DEF StoreType
<1>8. store[src] = Merged(begun[src], Nulls(Seen))
  BY <1>1, <1>2 DEF SoFar
<1>9. /\ DOMAIN Nulls(Seen) = PassedKeys /\ PassedKeys \subseteq DOMAIN begun[src]
  BY DEF Nulls, Contract!Nulls, Seen, PassedKeys
<1>10. DOMAIN store'[src] = DOMAIN begun[src]
  <2>1. DOMAIN store[src] = DOMAIN begun[src]
    BY <1>8, <1>9, MergedIs
  <2>2. DOMAIN store'[src] = DOMAIN store[src] \union {cur}
    BY <1>2, <1>6 DEF Assigned
  <2> QED
    BY <1>2, <2>1, <2>2
<1>11. /\ cur' \in DOMAIN begun[src] \union {End}
       /\ cur \notin PassedKeys
       /\ Seen' = Assigned(Seen, cur, begun[src][cur])
  BY <1>1, <1>2, <1>10, OneIteration
<1>12. store[src][cur] = begun[src][cur]
  BY <1>2, <1>8, <1>9, <1>11, MergedIs
<1>13. ASSUME NEW c \in Configs PROVE store'[c] = SoFar(call', begun', Seen', c)
  <2>1. CASE c = dst
    <3>1. store[c] = Merged(begun[c], Seen)
      BY <1>1, <1>2, <2>1 DEF SoFar
    <3>2. store'[c] = Merged(begun[c], Assigned(Seen, cur, begun[src][cur]))
      BY <1>2, <1>6, <1>12, <2>1, <3>1, MergeOneMore
    <3> QED
      BY <1>1, <1>11, <2>1, <3>2 DEF SoFar
  <2>2. CASE c = src
    <3>1. store'[c] = Merged(begun[c], Nulls(Assigned(Seen, cur, begun[src][cur])))
      BY <1>2, <1>6, <1>8, <2>2, MergeOneMore, NullOneMore
    <3> QED
      BY <1>1, <1>2, <1>11, <2>2, <3>1 DEF SoFar
  <2>3. CASE c # dst /\ c # src
    BY <1>1, <1>2, <1>6, <2>3 DEF SoFar
  <2> QED
    BY <2>1, <2>2, <2>3
<1>14. LoopInv'
  BY <1>1, <1>2, <1>11, <1>13 DEF LoopInv, End
<1> QED
  BY <1>1, <1>2, <1>7, <1>14 DEF MapInv, SubconfigInv, IdleInv, Idle, StoreType

LEMMA GroupEntryKeepsInv ==
  ASSUME MapInv, GroupEntry
  PROVE  MapInv'
<1> DEFINE dst == call.dst
<1> DEFINE src == call.src
<1> DEFINE group == call.group
<1> DEFINE k == JoinKeys(group, cur)
<1>1. /\ call.op = "mergeAsGroup" /\ cur # End /\ Advance /\ IsKeyValid(k)
      /\ call' = call /\ begun' = begun /\ result' = result
      /\ store' = [store EXCEPT ![dst] = Assigned(@, k, store[src][cur])]
  BY DEF GroupEntry, InLoop
<1>2. /\ call # Idle /\ call \in Calls /\ dst \in Configs /\ src \in Configs
      /\ group \in ValidKeys /\ group \in Groups
      /\ dst # src /\ cur \in DOMAIN begun[src] /\ IsMap(begun[src])
      /\ \A c \in Configs : store[c] = SoFar(call, begun, Seen, c)
      /\ \A x \in PassedKeys : JoinKeys(group, x) \in ValidKeys
  BY <1>1 DEF MapInv, LoopInv, Idle, Calls, StoreType
<1>3. cur \in ValidKeys /\ store[src] = begun[src]
  BY <1>1, <1>2 DEF IsMap, SoFar
<1>4. k \in ValidKeys
  <2>1. "." \in KeyChars /\ group \in Seq(KeyChars) /\ cur \in Seq(KeyChars)
    BY <1>2, <1>3 DEF ValidKeys, KeyChars
  <2>2. k \in Seq(KeyChars)
    BY <2>1, JoinedKey
  <2> QED
    BY <1>1, <2>2 DEF ValidKeys
<1> HIDE DEF k
<1>5. /\ StoreType(store')
      /\ \A c \in Configs : store'[c] = IF c = dst THEN Assigned(store[c], k, store[src][cur])
                                                  ELSE store[c]
  <2>1. store = [c \in Configs |-> store[c]] /\ \A c \in Configs : IsMap(store[c])
    BY DEF MapInv, StoreType
  <2>2. /\ store' = [c \in Configs |-> store'[c]]
        /\ \A c \in Configs : store'[c] = IF c = dst THEN Assigned(store[c], k, store[src][cur])
                                                    ELSE store[c]
    BY <1>1, <1>2, <2>1
  <2>3. StoreType(store')
    BY <1>4, <2>1, <2>2, AssignedIsMap DEF StoreType
  <2> QED
    BY <2>2, <2>3
<1>6. /\ cur' \in DOMAIN begun[src] \union {End}
      /\ PassedKeys' = PassedKeys \union {cur}
      /\ Seen' = Assigned(Seen, cur, begun[src][cur])
  BY <1>1, <1>2, <1>3, <1>5, OneIteration
<1>7. Prefixed(Seen', group) = Assigned(Prefixed(Seen, group), k, begun[src][cur])
  <2>1. DOMAIN Seen \subseteq ValidKeys
    BY <1>2 DEF Seen, PassedKeys, IsMap
  <2>2. Prefixed(Assigned(Seen, cur, begun[src][cur]), group) =
          Assigned(Prefixed(Seen, group), JoinKeys(group, cur), begun[src][cur])
    BY <1>2, <1>3, <2>1, PrefixOneMore
  <2> QED
    BY <1>6, <2>2 DEF k
<1>8. ASSUME NEW c \in Configs PROVE store'[c] = SoFar(call', begun', Seen', c)
  <2>1. CASE c = dst
    <3>1. store[c] = Merged(begun[c], Prefixed(Seen, group))
      BY <1>1, <1>2, <2>1 DEF SoFar
    <3>2. store'[c] = Merged(begun[c], Prefixed(Seen', group))
      BY <1>3, <1>5, <1>7, <2>1, <3>1, MergeOneMore
    <3> QED
      BY <1>1, <2>1, <3>2 DEF SoFar
  <2>2. CASE c # dst
    BY <1>1, <1>2, <1>5, <2>2 DEF SoFar
  <2> QED
    BY <2>1, <2>2
<1>9. \A x \in PassedKeys' : JoinKeys(group, x) \in ValidKeys
  BY <1>2, <1>4, <1>6 DEF k
<1>10. LoopInv'
  BY <1>1, <1>2, <1>6, <1>8, <1>9 DEF LoopInv, End
<1> QED
  BY <1>1, <1>2, <1>5, <1>10 DEF MapInv, SubconfigInv, IdleInv, Idle, StoreType

LEMMA BeginSubconfigKeepsInv ==
  ASSUME MapInv, NEW dst \in Configs, NEW src \in Configs, NEW group \in Groups,
         BeginSubconfig(dst, src, group)
  PROVE  MapInv'
<1>0. group \in ValidKeys
  BY KeysAssumption
<1> DEFINE m == begun[src]
<1> DEFINE from == {x \in DOMAIN m : ~ KeyBefore(x, group)}
<1>1. /\ call' = [op |-> "getSubconfig", dst |-> dst, src |-> src, group |-> group]
      /\ store' = store /\ begun' = begun /\ begun = store
      /\ result' = result /\ result = Empty
      /\ IsLowerBound(m, group, cur') /\ (AsksHidden \/ ~ Hidden(m, group))
  BY DEF BeginSubconfig, CanCall, MapInv, IdleInv
<1>2. /\ call' \in Calls /\ call'.src = src /\ call'.dst = dst
      /\ call'.group = group /\ call'.op = "getSubconfig"
  BY <1>0, <1>1 DEF Calls
<1>3. DOMAIN m \subseteq ValidKeys
  BY DEF MapInv, StoreType, IsMap
<1>4. /\ cur' \in from \union {End} /\ (cur' = End <=> from = {})
      /\ \A x \in from : x = cur' \/ KeyBefore(cur', x)
  <2>1. IF from = {} THEN cur' = End
        ELSE cur' \in from /\ \A x \in from : x = cur' \/ KeyBefore(cur', x)
    BY <1>1 DEF IsLowerBound, IsFirst
  <2>2. End \notin from
    BY <1>3, EndIsNoKey
  <2> HIDE DEF from
  <2> QED
    BY <2>1, <2>2
<1>5. PassedKeys' = {x \in DOMAIN m : cur' = End \/ KeyBefore(x, cur')}
  BY <1>1, <1>2 DEF PassedKeys, End
<1>6. ASSUME NEW x \in PassedKeys' PROVE x \in DOMAIN m /\ x \notin from
  <2>1. x \in DOMAIN m /\ (cur' = End \/ KeyBefore(x, cur'))
    BY <1>5
  <2>2. x \in from => x = cur' \/ KeyBefore(cur', x)
    BY <1>4
  <2>3. CASE cur' = End
    BY <1>4, <2>1, <2>3
  <2>4. CASE cur' # End
    <3>1. cur' \in ValidKeys /\ x \in ValidKeys
      BY <1>3, <1>4, <2>1, <2>4
    <3> QED
      BY <2>1, <2>2, <2>4, <3>1, BeforeAsymmetric
  <2> QED
    BY <2>3, <2>4
<1>7. DOMAIN Seen' = PassedKeys'
  BY DEF Seen
<1>8. Subconfig(Seen', group) = Empty
  <2>1. \A x \in DOMAIN Seen' : x \in ValidKeys /\ ~ CmpKeyPrefix(group, x)
    BY <1>0, <1>3, <1>6, <1>7, GroupComesFirst
  <2> QED
    BY <1>0, <2>1, SubconfigOfNothing
<1>9. LoopInv'
  <2>1. cur' \in DOMAIN m \union {End}
    BY <1>4
  <2>2. \A c \in Configs : store'[c] = SoFar(call', begun', Seen', c)
    BY <1>1, <1>2 DEF SoFar
  <2> QED
    BY <1>1, <1>2, <2>1, <2>2 DEF LoopInv, End
<1>10. SubconfigInv'
  <2>1. cur' # End => ~ KeyBefore(cur', group)
    BY <1>4
  <2>2. AsksHidden \/ ~ Hidden(begun'[src], group)
    BY <1>1
  <2> QED
    BY <1>1, <1>2, <1>8, <2>1, <2>2 DEF SubconfigInv, End
<1>11. IdleInv'
  BY <1>1 DEF IdleInv
<1> QED
  BY <1>1, <1>9, <1>10, <1>11 DEF MapInv, StoreType

LEMMA SubconfigEntryKeepsInv ==
  ASSUME MapInv, SubconfigEntry
  PROVE  MapInv'
<1> DEFINE src == call.src
<1> DEFINE group == call.group
<1>1. /\ call.op = "getSubconfig" /\ cur # End /\ Advance /\ CmpKeyPrefix(group, cur)
      /\ call' = call /\ begun' = begun /\ store' = store
      /\ result' = Assigned(result, WithoutGroup(cur, group), store[src][cur])
  BY DEF SubconfigEntry, InLoop, WithoutGroup, Contract!WithoutGroup
<1>2. /\ call # Idle /\ call \in Calls /\ src \in Configs /\ group \in ValidKeys
      /\ cur \in DOMAIN begun[src] /\ IsMap(begun[src])
      /\ \A c \in Configs : store[c] = SoFar(call, begun, Seen, c)
  BY <1>1 DEF MapInv, LoopInv, Idle, Calls, StoreType
<1>3. cur \in ValidKeys /\ \A c \in Configs : store[c] = begun[c]
  BY <1>1, <1>2 DEF IsMap, SoFar
<1>4. /\ cur' \in DOMAIN begun[src] \union {End}
      /\ cur' # End => KeyBefore(cur, cur')
      /\ Seen' = Assigned(Seen, cur, begun[src][cur])
  BY <1>1, <1>2, <1>3, OneIteration
<1>5. ~ KeyBefore(cur, group) /\ ~ KeyBefore(cur, group \o <<".">>)
  BY <1>1, <1>2, <1>3, GroupComesFirst
<1>6. result' = Subconfig(Seen', group)
  <2>1. DOMAIN Seen \subseteq ValidKeys
    BY <1>2 DEF Seen, PassedKeys, IsMap
  <2>2. result = Subconfig(Seen, group)
    BY <1>1 DEF MapInv, SubconfigInv
  <2>3. Subconfig(Assigned(Seen, cur, begun[src][cur]), group) =
          Assigned(Subconfig(Seen, group), WithoutGroup(cur, group), begun[src][cur])
    BY <1>1, <1>2, <1>3, <2>1, SubconfigOneMore
  <2> QED
    BY <1>1, <1>2, <1>3, <1>4, <2>2, <2>3
<1>7. AsksHidden \/ ~ Hidden(begun'[src], group)
  BY <1>1 DEF MapInv, SubconfigInv
<1>8. cur' # End => ~ KeyBefore(cur', group)
  <2>1. group \in Seq(KeyChars) /\ cur \in Seq(KeyChars)
    BY <1>2, <1>3 DEF ValidKeys
  <2>2. cur' # End => cur' \in Seq(KeyChars)
    BY <1>2, <1>4 DEF IsMap, ValidKeys
  <2> QED
    BY <1>4, <1>5, <2>1, <2>2, BeforeTransitive
<1>9. LoopInv'
  <2>1. \A c \in Configs : store'[c] = SoFar(call', begun', Seen', c)
    BY <1>1, <1>3 DEF SoFar
  <2> QED
    BY <1>1, <1>2, <1>4, <2>1 DEF LoopInv, End, MapInv
<1>10. SubconfigInv'
  BY <1>1, <1>6, <1>7, <1>8 DEF SubconfigInv, End
<1> QED
  BY <1>1, <1>2, <1>9, <1>10 DEF MapInv, IdleInv, Idle, StoreType

\* What getSubconfig returns when it returns.
LEMMA SubconfigIsWhole ==
  ASSUME MapInv, ~ AsksHidden, call.op = "getSubconfig",
         cur # End => ~ CmpKeyPrefix(call.group, cur)
  PROVE  result = Subconfig(begun[call.src], call.group)
<1> DEFINE m == begun[call.src]
<1> DEFINE g == call.group
<1>1. /\ g \in ValidKeys /\ DOMAIN m \subseteq ValidKeys
      /\ cur \in DOMAIN m \union {End}
      /\ result = Subconfig(Seen, g)
      /\ cur # End => ~ KeyBefore(cur, g)
      /\ ~ Hidden(m, g)
  BY DEF MapInv, LoopInv, SubconfigInv, Calls, Idle, StoreType, IsMap
<1>2. /\ PassedKeys = {k \in DOMAIN m : cur = End \/ KeyBefore(k, cur)}
      /\ Seen = [k \in PassedKeys |-> m[k]]
  BY DEF PassedKeys, Seen
<1> HIDE DEF m, g
<1>3. ASSUME NEW k \in DOMAIN m, CmpKeyPrefix(g, k) PROVE k \in PassedKeys
  <2>1. CASE cur = End
    BY <1>2, <2>1
  <2>2. CASE cur # End
    <3>1. cur \in DOMAIN m /\ cur \in ValidKeys /\ k \in ValidKeys
      BY <1>1, <2>2
    <3>2. ~ CmpKeyPrefix(g, cur)
      BY <2>2 DEF g
    <3>3. ~ KeyBefore(cur, g \o <<".">>)
      <4>1. ~ Hides(cur, g)
        BY <1>1, <1>3, <3>1 DEF Hidden
      <4> QED
        BY <1>1, <2>2, <4>1 DEF Hides
    <3>4. ~ KeyBefore(cur, k)
      BY <1>1, <1>3, <3>1, <3>2, <3>3, GroupIsConvex
    <3>5. k # cur
      BY <1>3, <3>2
    <3>6. KeyBefore(k, cur)
      BY <3>1, <3>4, <3>5, BeforeTotal DEF ValidKeys
    <3> QED
      BY <1>2, <3>6
  <2> QED
    BY <2>1, <2>2
<1> QED
  BY <1>1, <1>2, <1>3, SubconfigOfPart DEF m, g

\* A step of a client, or of a call.
ConfigStep ==
  \/ \E c \in Configs, k \in EntryKeys, v \in Values : Set(c, k, v) \/ SetDefault(c, k, v)
  \/ \E dst \in Configs, src \in Configs :
       \/ \E op \in {"merge", "mergeMoved"} : BeginMerge(op, dst, src, <<>>)
       \/ \E group \in Groups :
            \/ BeginMerge("mergeAsGroup", dst, src, group)
            \/ BeginSubconfig(dst, src, group)
  \/ Step
  \/ UNCHANGED vars

\* A loop that ends assigns to a Config at most.
LEMMA StepKeepsInv ==
  ASSUME MapInv, Step
  PROVE  MapInv'
<1>1. CASE MergeEntry
  BY <1>1, MergeEntryKeepsInv
<1>2. CASE MergeMovedEntry
  BY <1>2, MergeMovedEntryKeepsInv
<1>3. CASE GroupEntry
  BY <1>3, GroupEntryKeepsInv
<1>4. CASE GroupKeyThrows
  BY <1>4, ReturnKeepsInv DEF GroupKeyThrows, MapInv, StoreType
<1>5. CASE EndMerge
  BY <1>5, ReturnKeepsInv DEF EndMerge, MapInv, StoreType
<1>6. CASE SubconfigEntry
  BY <1>6, SubconfigEntryKeepsInv
<1>7. CASE EndSubconfig
  <2>1. store = [c \in Configs |-> store[c]] /\ \A c \in Configs : IsMap(store[c])
    BY DEF MapInv, StoreType
  <2>2. call.dst \in Configs /\ result = Subconfig(Seen, call.group)
        /\ call.group \in ValidKeys /\ DOMAIN Seen \subseteq ValidKeys
    BY <1>7 DEF EndSubconfig, MapInv, LoopInv, SubconfigInv, Idle, Calls, Seen,
                PassedKeys, StoreType, IsMap
  <2>3. IsMap(result)
    <3>1. /\ DOMAIN result = {WithoutGroup(k, call.group) : k \in KeysIn(Seen, call.group)}
          /\ result = [x \in DOMAIN result |-> result[x]]
      BY <2>2, SubconfigKeys, SubconfigIsFunction
    <3>2. DOMAIN result \subseteq ValidKeys
      BY <2>2, <3>1, RestOfGroupKey DEF KeysIn
    <3> QED
      BY <3>1, <3>2 DEF IsMap
  <2>4. StoreType(store')
    BY <1>7, <2>1, <2>2, <2>3 DEF EndSubconfig, StoreType
  <2> QED
    BY <1>7, <2>4, ReturnKeepsInv DEF EndSubconfig
<1>8. CASE DereferenceEnd
  BY <1>8, MapUnchanged DEF DereferenceEnd
<1> QED
  BY <1>1, <1>2, <1>3, <1>4, <1>5, <1>6, <1>7, <1>8 DEF Step

LEMMA ConfigStepKeepsInv ==
  ASSUME MapInv, ConfigStep
  PROVE  MapInv'
<1>1. ASSUME NEW c \in Configs, NEW k \in EntryKeys, NEW v \in Values,
             Set(c, k, v) \/ SetDefault(c, k, v)
      PROVE  MapInv'
  <2>1. CASE Set(c, k, v)
    BY <2>1, SetKeepsInv
  <2>2. CASE UNCHANGED <<store, call, cur, result, begun>>
    BY <2>2, MapUnchanged
  <2> QED
    BY <1>1, <2>1, <2>2 DEF SetDefault
<1>2. ASSUME NEW dst \in Configs, NEW src \in Configs,
             NEW op \in {"merge", "mergeMoved"}, BeginMerge(op, dst, src, <<>>)
      PROVE  MapInv'
  BY <1>2, EmptyKeyIsValid, BeginMergeKeepsInv
<1>3. ASSUME NEW dst \in Configs, NEW src \in Configs, NEW group \in Groups,
             BeginMerge("mergeAsGroup", dst, src, group)
      PROVE  MapInv'
  BY <1>3, KeysAssumption, BeginMergeKeepsInv
<1>4. ASSUME NEW dst \in Configs, NEW src \in Configs, NEW group \in Groups,
             BeginSubconfig(dst, src, group)
      PROVE  MapInv'
  BY <1>4, BeginSubconfigKeepsInv
<1>5. CASE Step
  BY <1>5, StepKeepsInv
<1>6. CASE UNCHANGED vars
  BY <1>6, MapUnchanged DEF vars
<1> QED
  BY <1>1, <1>2, <1>3, <1>4, <1>5, <1>6 DEF ConfigStep

(***************************************************************************)
(* Every call is made, and returns, in a step of the contract.             *)
(***************************************************************************)

\* The contract's helpers are those of the model.
LEMMA SameHelpers ==
  ASSUME NEW k, NEW l, NEW m, NEW v
  PROVE  /\ Contract!JoinKeys(k, l) = JoinKeys(k, l)
         /\ Contract!Assigned(m, k, v) = Assigned(m, k, v)
         /\ Contract!Empty = Empty /\ Contract!Idle = Idle
BY DEF Contract!Idle, Idle, Contract!JoinKeys, JoinKeys, Contract!Assigned, Assigned,
       Contract!Empty, Empty, Contract!NullData, NullData, Contract!Datum, Datum

LEMMA SameValidity ==
  ASSUME NEW k
  PROVE  Contract!IsKeyValid(k) = IsKeyValid(k)
BY DEF Contract!IsKeyValid, IsKeyValid, Contract!FindKeyError, FindKeyError,
       Contract!KeyErrorAt, KeyErrorAt, Contract!IsValidKeyChar, IsValidKeyChar,
       Contract!KeyChars, KeyChars, Contract!Digits, Digits, Contract!Letters, Letters

\* At the end of a loop every entry has been seen.
LEMMA AllSeen ==
  ASSUME MapInv, call # Idle, cur = End
  PROVE  Seen = begun[call.src] /\ PassedKeys = DOMAIN begun[call.src]
BY DEF Seen, PassedKeys, MapInv, LoopInv, Calls, StoreType, IsMap

LEMMA MergeEnds ==
  ASSUME MapInv, EndMerge
  PROVE  Contract!Next
<1> DEFINE dst == call.dst
<1> DEFINE src == call.src
<1>1. /\ cur = End /\ begun' = store /\ thrown' = FALSE /\ call' = Contract!Idle
      /\ call.op \in {"merge", "mergeMoved", "mergeAsGroup"}
  BY SameHelpers DEF EndMerge, Return
<1>2. /\ call \in Calls /\ dst \in Configs /\ src \in Configs /\ dst # src
      /\ call.op = "mergeAsGroup" => call.group \in Groups
      /\ \A c \in Configs : store[c] = SoFar(call, begun, begun[src], c)
      /\ call.op = "mergeAsGroup" =>
           \A k \in DOMAIN begun[src] : JoinKeys(call.group, k) \in ValidKeys
  BY <1>1, AllSeen DEF MapInv, LoopInv, Idle, Calls
<1>3. /\ store = [c \in Configs |-> store[c]]
      /\ begun = [c \in Configs |-> begun[c]]
  BY DEF MapInv, StoreType
<1>4. CASE call.op = "merge"
  <2>1. store = [begun EXCEPT ![dst] = Merged(@, begun[src])]
    BY <1>2, <1>3, <1>4 DEF SoFar
  <2>2. Contract!Merge
    BY <1>1, <1>4, <2>1 DEF Contract!Merge, Contract!Returns, Merged
  <2> QED
    BY <1>2, <2>2 DEF Contract!Next
<1>5. CASE call.op = "mergeMoved"
  <2> DEFINE given == [begun EXCEPT ![dst] = Merged(@, begun[src])]
  <2>1. given = [c \in Configs |-> IF c = dst THEN Merged(begun[c], begun[src])
                                              ELSE begun[c]]
    BY <1>2, <1>3
  <2>2. Merged(begun[src], Nulls(begun[src])) = Nulls(begun[src])
    BY MergedIs DEF Nulls, Contract!Nulls
  <2>3. \A c \in Configs : store[c] = IF c = dst THEN Merged(begun[c], begun[src])
                                      ELSE IF c = src THEN Nulls(begun[src])
                                      ELSE begun[c]
    BY <1>2, <1>5, <2>2 DEF SoFar
  <2>4. store = [given EXCEPT ![src] = Nulls(begun[src])]
    <3> HIDE DEF given
    <3> QED
      BY <1>2, <1>3, <2>1, <2>3
  <2>5. given[src] = begun[src]
    BY <1>2, <2>1
  <2>6. Contract!MergeMoved
    BY <1>1, <1>5, <2>4, <2>5 DEF Contract!MergeMoved, Merged, Nulls
  <2> QED
    BY <1>2, <2>6 DEF Contract!Next
<1>6. CASE call.op = "mergeAsGroup"
  <2>1. store = [begun EXCEPT ![dst] = Merged(@, Prefixed(begun[src], call.group))]
    BY <1>2, <1>3, <1>6 DEF SoFar
  <2>2. \A k \in DOMAIN begun[src] : Contract!IsKeyValid(Contract!JoinKeys(call.group, k))
    BY <1>2, <1>6, SameHelpers, SameValidity DEF ValidKeys
  <2>3. Contract!MergeAsGroup
    BY <1>1, <1>6, <2>1, <2>2
       DEF Contract!MergeAsGroup, Contract!AllKeysValid, Contract!Returns, Merged, Prefixed
  <2> QED
    BY <1>2, <1>6, <2>3 DEF Contract!Next
<1> QED
  BY <1>1, <1>4, <1>5, <1>6

\* mergeAsGroup throws at the first entry or never: a key cannot be joined if
\* it, or the group, is empty, and the empty key is the first.
LEMMA MergeThrows ==
  ASSUME MapInv, GroupKeyThrows
  PROVE  Contract!Next
<1> DEFINE dst == call.dst
<1> DEFINE src == call.src
<1>1. /\ call.op = "mergeAsGroup" /\ cur # End /\ ~ IsKeyValid(JoinKeys(call.group, cur))
      /\ begun' = store /\ thrown' = TRUE /\ call' = Contract!Idle
  BY SameHelpers DEF GroupKeyThrows, InLoop, Return
<1>2. /\ call \in Calls /\ call.group \in ValidKeys /\ call.group \in Groups
      /\ dst \in Configs /\ src \in Configs /\ dst # src
      /\ cur \in DOMAIN begun[src] /\ DOMAIN begun[src] \subseteq ValidKeys
      /\ \A c \in Configs : IsMap(begun[c])
      /\ \A c \in Configs : store[c] = SoFar(call, begun, Seen, c)
      /\ \A k \in PassedKeys : JoinKeys(call.group, k) \in ValidKeys
  BY <1>1 DEF MapInv, LoopInv, Idle, Calls, StoreType, IsMap
<1>3. call.group = <<>> \/ cur = <<>>
  BY <1>1, <1>2, JoinIsValid DEF ValidKeys
<1>4. PassedKeys = {}
  <2> SUFFICES ASSUME NEW k \in PassedKeys PROVE FALSE
    OBVIOUS
  <2>1. k \in ValidKeys /\ KeyBefore(k, cur)
    BY <1>1, <1>2 DEF PassedKeys
  <2>2. call.group # <<>>
    BY <1>2, <2>1, JoinIsValid
  <2>3. cur = <<>> /\ Len(cur) = 0 /\ cur \in Seq(KeyChars) /\ k \in Seq(KeyChars)
    <3>1. cur = <<>>
      BY <1>3, <2>2
    <3>2. <<>> \in Seq(KeyChars) /\ Len(<<>>) = 0
      OBVIOUS
    <3> QED
      BY <2>1, <3>1, <3>2 DEF ValidKeys
  <2>4. PICK n \in Nat : Parts(k, cur, n)
    BY <2>1, <2>3, BeforeIff
  <2> QED
    BY <2>3, <2>4 DEF Parts
<1>5. store = begun
  <2>1. \A c \in Configs : store[c] = begun[c]
    BY <1>2, <1>4, NothingSoFar DEF Seen
  <2> QED
    BY <2>1 DEF MapInv, StoreType
<1>6. ~ Contract!IsKeyValid(Contract!JoinKeys(call.group, cur))
  BY <1>1, SameHelpers, SameValidity
<1>7. Contract!MergeAsGroupThrows
  BY <1>1, <1>2, <1>5, <1>6 DEF Contract!MergeAsGroupThrows, Contract!AllKeysValid
<1> QED
  BY <1>2, <1>7 DEF Contract!Next

LEMMA SubconfigEnds ==
  ASSUME MapInv, ~ AsksHidden, EndSubconfig
  PROVE  Contract!Next
<1> DEFINE dst == call.dst
<1> DEFINE src == call.src
<1> DEFINE group == call.group
<1>1. /\ call.op = "getSubconfig" /\ (cur # End => ~ CmpKeyPrefix(group, cur))
      /\ begun' = [store EXCEPT ![dst] = result] /\ thrown' = FALSE
      /\ call' = Contract!Idle
  BY SameHelpers DEF EndSubconfig, Return
<1>2. /\ dst \in Configs /\ src \in Configs /\ group \in Groups
      /\ \A c \in Configs : store[c] = SoFar(call, begun, Seen, c)
  BY <1>1 DEF MapInv, LoopInv, Idle, Calls
<1>3. store = begun
  <2>1. \A c \in Configs : store[c] = begun[c]
    BY <1>1, <1>2 DEF SoFar
  <2> QED
    BY <2>1 DEF MapInv, StoreType
<1>4. result = Contract!Subconfig(begun[src], group)
  BY <1>1, SubconfigIsWhole DEF Subconfig
<1>5. Contract!GetSubconfig
  BY <1>1, <1>3, <1>4 DEF Contract!GetSubconfig, Contract!Returns
<1> QED
  BY <1>2, <1>5 DEF Contract!Next

LEMMA ConfigStepRefines ==
  ASSUME MapInv, ~ AsksHidden, ConfigStep
  PROVE  [Contract!Next]_<<begun, call, thrown>>
<1>1. ASSUME NEW c \in Configs, NEW k \in EntryKeys, NEW v \in Values,
             Set(c, k, v) \/ SetDefault(c, k, v)
      PROVE  Contract!Next
  <2>1. CASE Set(c, k, v)
    <3>1. /\ begun' = [begun EXCEPT ![c] = Assigned(@, k, v)] /\ thrown' = FALSE
          /\ call = Contract!Idle /\ call' = call
      BY <2>1, SameHelpers DEF Set, CanCall, MapInv, IdleInv
    <3>2. Contract!Set(c, k, v)
      BY <3>1, SameHelpers DEF Contract!Set
    <3> QED
      BY <3>2 DEF Contract!Next
  <2>2. CASE SetDefault(c, k, v) /\ k \in DOMAIN store[c]
    <3>1. begun = store /\ begun' = begun /\ thrown' = FALSE /\ call' = call
      BY <2>2 DEF SetDefault, CanCall, MapInv, IdleInv
    <3>2. Contract!SetDefault(c, k, v)
      BY <2>2, <3>1 DEF Contract!SetDefault
    <3> QED
      BY <3>2 DEF Contract!Next
  <2> QED
    BY <1>1, <2>1, <2>2 DEF SetDefault
<1>2. ASSUME NEW op, NEW dst \in Configs, NEW src \in Configs, NEW group,
             BeginMerge(op, dst, src, group)
      PROVE  dst # src /\ Contract!Call(op, dst, src, group)
  BY <1>2, SameHelpers DEF BeginMerge, CanCall, Contract!Call
<1>3. ASSUME NEW dst \in Configs, NEW src \in Configs, NEW group \in Groups,
             BeginSubconfig(dst, src, group)
      PROVE  Contract!Next
  <2>1. Contract!Call("getSubconfig", dst, src, group)
    BY <1>3, SameHelpers DEF BeginSubconfig, CanCall, Contract!Call
  <2> QED
    BY <2>1 DEF Contract!Next
<1>4. CASE Step
  <2>1. CASE EndMerge
    BY <2>1, MergeEnds
  <2>2. CASE GroupKeyThrows
    BY <2>2, MergeThrows
  <2>3. CASE EndSubconfig
    BY <2>3, SubconfigEnds
  <2>4. CASE MergeEntry \/ MergeMovedEntry \/ GroupEntry \/ SubconfigEntry \/ DereferenceEnd
    BY <2>4 DEF MergeEntry, MergeMovedEntry, GroupEntry, SubconfigEntry, DereferenceEnd
  <2> QED
    BY <1>4, <2>1, <2>2, <2>3, <2>4 DEF Step
<1>5. CASE UNCHANGED vars
  BY <1>5 DEF vars
<1>6. ASSUME NEW dst \in Configs, NEW src \in Configs, NEW op \in {"merge", "mergeMoved"},
             BeginMerge(op, dst, src, <<>>)
      PROVE  Contract!Next
  <2>1. dst # src /\ Contract!Call(op, dst, src, <<>>)
    BY <1>2, <1>6
  <2> QED
    BY <2>1 DEF Contract!Next
<1>7. ASSUME NEW dst \in Configs, NEW src \in Configs, NEW group \in Groups,
             BeginMerge("mergeAsGroup", dst, src, group)
      PROVE  Contract!Next
  <2>1. dst # src /\ Contract!Call("mergeAsGroup", dst, src, group)
    BY <1>2, <1>7
  <2> QED
    BY <2>1 DEF Contract!Next
<1> QED
  BY <1>1, <1>3, <1>4, <1>5, <1>6, <1>7 DEF ConfigStep

AccessNext == AccessCall \/ AccessStep

\* What a client does with its view is no step of a Config.
LEMMA AccessIsConfigStep ==
  ASSUME [AccessNext]_accessVars
  PROVE  ConfigStep
<1>1. CASE AccessCall
  BY <1>1 DEF AccessCall, TakeView, ConfigStep
<1>2. CASE AccessStep
  BY <1>2 DEF AccessStep, ConfigStep, Step
<1>3. CASE UNCHANGED accessVars
  BY <1>3 DEF accessVars, ConfigStep
<1> QED
  BY <1>1, <1>2, <1>3 DEF AccessNext

\* Init of the contract.
LEMMA ConfigInitRefines == Init => Contract!Init
BY SameHelpers DEF Init, Contract!Init

LEMMA AccessInvariant == AccessSpec => []MapInv
<1>1. AccessInit => MapInv
  BY MapInit DEF AccessInit
<1>2. MapInv /\ [AccessNext]_accessVars => MapInv'
  BY AccessIsConfigStep, ConfigStepKeepsInv
<1> QED
  BY <1>1, <1>2, PTL DEF AccessSpec, AccessNext

\* For any number of Configs, any entries and any calls, but for a subconfig of
\* a group that another key hides: whatever a loop of class Config has done when
\* the call returns, or throws, is what the header says of the call as a whole
\* (Config::merge, mergeAsGroup, getSubconfig).
THEOREM LoopsImplementContract ==
  ASSUME ~ AsksHidden
  PROVE  AccessSpec => ContractSpec
<1>1. AccessInit => Contract!Init
  BY ConfigInitRefines DEF AccessInit
<1>2. MapInv /\ [AccessNext]_accessVars => [Contract!Next]_<<begun, call, thrown>>
  BY AccessIsConfigStep, ConfigStepRefines
<1> QED
  BY <1>1, <1>2, AccessInvariant, PTL
     DEF AccessSpec, AccessNext, ContractSpec, Contract!Spec

\* merge(Config&&) moves a value at a time, and at each moment each value is
\* in the source or in the destination (Config::merge).
THEOREM MovesLoseNothing == AccessSpec => []MoveLosesNothing
<1>1. MapInv => MoveLosesNothing
  <2> SUFFICES ASSUME MapInv, call # Idle, call.op = "mergeMoved",
                      NEW k \in DOMAIN begun[call.src]
               PROVE  IF cur = End \/ KeyBefore(k, cur)
                        THEN /\ store[call.src][k] = NullData
                             /\ store[call.dst][k] = begun[call.src][k]
                        ELSE store[call.src][k] = begun[call.src][k]
    BY DEF MoveLosesNothing
  <2>1. /\ call.dst \in Configs /\ call.src \in Configs /\ call.dst # call.src
        /\ store[call.src] = Merged(begun[call.src], Nulls(Seen))
        /\ store[call.dst] = Merged(begun[call.dst], Seen)
    BY DEF MapInv, LoopInv, SoFar, Calls
  <2>2. /\ DOMAIN Seen = PassedKeys /\ DOMAIN Nulls(Seen) = PassedKeys
        /\ \A x \in PassedKeys : Seen[x] = begun[call.src][x] /\ Nulls(Seen)[x] = NullData
    BY DEF Seen, Nulls, Contract!Nulls, Contract!NullData, NullData, Contract!Datum, Datum
  <2>3. k \in PassedKeys <=> cur = End \/ KeyBefore(k, cur)
    BY DEF PassedKeys
  <2> QED
    BY <2>1, <2>2, <2>3, MergedIs
<1> QED
  BY <1>1, AccessInvariant, PTL

(***************************************************************************)
(* A view.                                                                 *)
(***************************************************************************)

Data == Values \union {NullData}

\* Configs hold values that were set, or moved away.
HoldData(s) == \A c \in Configs : \A k \in DOMAIN s[c] : s[c][k] \in Data
DataInv == HoldData(store) /\ \A k \in DOMAIN result : result[k] \in Data

\* Entry k of Config c owns the elements w.
Owns(s, c, k, w) == k \in DOMAIN s[c] /\ s[c][k] = ArrayData(w)

PlaceInv ==
  place # Nowhere =>
    \E c \in Configs, k \in ValidKeys : place = <<c, k>> /\ Owns(store, c, k, view)

ViewInv == DataInv /\ PlaceInv

\* A step frees the elements of every entry it assigns to.
LEMMA FreesKeepsPlace ==
  ASSUME PlaceInv, NEW E, Frees(E),
         \A c \in Configs : \A k \in DOMAIN store[c] :
           <<c, k>> \in E \/ (k \in DOMAIN store'[c] /\ store'[c][k] = store[c][k])
  PROVE  PlaceInv'
<1> SUFFICES ASSUME place' # Nowhere
             PROVE  \E c \in Configs, k \in ValidKeys :
                      place' = <<c, k>> /\ Owns(store', c, k, view')
  BY DEF PlaceInv, Nowhere, Owns
<1>1. place' = place /\ place \notin E /\ view' = view
  BY DEF Frees
<1>2. PICK c \in Configs, k \in ValidKeys : place = <<c, k>> /\ Owns(store, c, k, view)
  BY <1>1 DEF PlaceInv
<1>3. Owns(store', c, k, view)
  BY <1>1, <1>2 DEF Owns
<1> QED
  BY <1>1, <1>2, <1>3

\* From s to t, one entry of one Config is assigned to and no other changes.
Assigns(s, t, d, k, v) ==
  /\ \A c \in Configs : \A x \in DOMAIN t[c] :
       (c = d /\ x = k /\ t[c][x] = v) \/ (x \in DOMAIN s[c] /\ t[c][x] = s[c][x])
  /\ \A c \in Configs : \A x \in DOMAIN s[c] :
       (c = d /\ x = k) \/ (x \in DOMAIN t[c] /\ t[c][x] = s[c][x])

Assigning(s, d, k, v) == [s EXCEPT ![d] = Assigned(@, k, v)]

LEMMA AssignedEntry ==
  ASSUME NEW s, StoreType(s), NEW d \in Configs, NEW k, NEW v
  PROVE  /\ Assigns(s, Assigning(s, d, k, v), d, k, v)
         /\ k \in DOMAIN Assigning(s, d, k, v)[d] /\ Assigning(s, d, k, v)[d][k] = v
<1> DEFINE t == Assigning(s, d, k, v)
<1>1. \A c \in Configs : t[c] = IF c = d THEN Assigned(s[d], k, v) ELSE s[c]
  BY DEF StoreType, Assigning
<1> HIDE DEF t
<1>2. /\ DOMAIN Assigned(s[d], k, v) = DOMAIN s[d] \union {k}
      /\ \A x \in DOMAIN s[d] \union {k} :
           Assigned(s[d], k, v)[x] = IF x = k THEN v ELSE s[d][x]
  BY DEF Assigned
<1>3. Assigns(s, t, d, k, v) /\ k \in DOMAIN t[d] /\ t[d][k] = v
  BY <1>1, <1>2 DEF Assigns
<1> QED
  BY <1>3 DEF t

\* What a step does that assigns one entry and frees what it owned.
LEMMA AssignKeepsView ==
  ASSUME ViewInv, StoreType(store), NEW d \in Configs, NEW k, NEW v \in Data,
         store' = [store EXCEPT ![d] = Assigned(@, k, v)], result' = result
  PROVE  DataInv' /\ (Frees({<<d, k>>}) => ViewInv')
<1>1. Assigns(store, store', d, k, v)
  <2>1. store' = Assigning(store, d, k, v)
    BY Zenon DEF Assigning
  <2>2. Assigns(store, Assigning(store, d, k, v), d, k, v)
    BY AssignedEntry
  <2> QED
    BY <2>1, <2>2, Zenon
<1>2. DataInv'
  <2>1. DataInv
    BY DEF ViewInv
  <2>2. ASSUME NEW c \in Configs, NEW x \in DOMAIN store'[c]
        PROVE  store'[c][x] \in Data
    <3>1. store'[c][x] = v \/ (x \in DOMAIN store[c] /\ store'[c][x] = store[c][x])
      BY <1>1 DEF Assigns
    <3> QED
      BY <2>1, <3>1 DEF DataInv, HoldData
  <2> QED
    BY <2>1, <2>2 DEF DataInv, HoldData
<1>3. \A c \in Configs : \A x \in DOMAIN store[c] :
        <<c, x>> \in {<<d, k>>} \/ (x \in DOMAIN store'[c] /\ store'[c][x] = store[c][x])
  BY <1>1 DEF Assigns
<1>4. Frees({<<d, k>>}) => PlaceInv'
  BY <1>3, FreesKeepsPlace DEF ViewInv
<1> QED
  BY <1>2, <1>4 DEF ViewInv

\* A step that only looks at the entries.
LEMMA LookKeepsView ==
  ASSUME ViewInv, store' = store, Frees({}),
         \A k \in DOMAIN result' : result'[k] \in Data
  PROVE  ViewInv'
<1>1. PlaceInv'
  BY FreesKeepsPlace DEF ViewInv
<1> QED
  BY <1>1 DEF ViewInv, DataInv, HoldData

LEMMA TakeViewKeepsView ==
  ASSUME MapInv, ViewInv, NEW c \in Configs, NEW k \in EntryKeys, TakeView(c, k)
  PROVE  ViewInv'
<1>1. /\ k \in DOMAIN store[c] /\ store[c][k].type = "eArray"
      /\ view' = store[c][k].elems /\ place' = <<c, k>>
      /\ store' = store /\ result' = result
  BY DEF TakeView, vars
<1>2. store[c][k] = ArrayData(store[c][k].elems)
  <2>1. NullData.type # "eArray"
    BY DEF NullData, Datum
  <2>2. store[c][k] \in Values
    BY <1>1, <2>1 DEF ViewInv, DataInv, HoldData, Data
  <2> QED
    BY <1>1, <2>2, ValuesAssumption
<1>3. k \in ValidKeys
  BY KeysAssumption
<1>4. Owns(store', c, k, view')
  BY <1>1, <1>2 DEF Owns
<1>5. PlaceInv'
  BY <1>1, <1>3, <1>4 DEF PlaceInv, Nowhere, Owns
<1> QED
  BY <1>1, <1>5 DEF ViewInv, DataInv, HoldData

\* A loop is at an entry that is there, with a value of the client's.
LEMMA LoopEntry ==
  ASSUME MapInv, ViewInv, call # Idle
  PROVE  /\ call \in Calls /\ StoreType(store)
         /\ cur # End => /\ cur \in DOMAIN store[call.src]
                         /\ store[call.src][cur] \in Data
<1>1. /\ call \in Calls /\ call.src \in Configs /\ StoreType(store)
      /\ cur \in DOMAIN begun[call.src] \union {End}
      /\ store[call.src] = SoFar(call, begun, Seen, call.src)
  BY DEF MapInv, LoopInv, Calls
<1>2. DOMAIN begun[call.src] \subseteq DOMAIN SoFar(call, begun, Seen, call.src)
  BY MergedIs DEF SoFar
<1> QED
  BY <1>1, <1>2 DEF ViewInv, DataInv, HoldData

LEMMA MergeEntryKeepsView ==
  ASSUME MapInv, ViewInv, MergeEntry, Frees({<<call.dst, cur>>})
  PROVE  ViewInv'
<1>1. call # Idle /\ cur # End /\ result' = result
  BY DEF MergeEntry, InLoop, Idle
<1>2. call.dst \in Configs /\ StoreType(store) /\ store[call.src][cur] \in Data
  BY <1>1, LoopEntry DEF Calls
<1>3. store' = [store EXCEPT ![call.dst] = Assigned(@, cur, store[call.src][cur])]
  BY DEF MergeEntry
<1> QED
  BY <1>1, <1>2, <1>3, AssignKeepsView

LEMMA GroupEntryKeepsView ==
  ASSUME MapInv, ViewInv, GroupEntry, Frees({<<call.dst, JoinKeys(call.group, cur)>>})
  PROVE  ViewInv'
<1> DEFINE k == JoinKeys(call.group, cur)
<1>1. call # Idle /\ cur # End /\ result' = result
  BY DEF GroupEntry, InLoop, Idle
<1>2. call.dst \in Configs /\ StoreType(store) /\ store[call.src][cur] \in Data
  BY <1>1, LoopEntry DEF Calls
<1>3. store' = [store EXCEPT ![call.dst] = Assigned(@, k, store[call.src][cur])]
  BY DEF GroupEntry
<1>4. Frees({<<call.dst, k>>})
  OBVIOUS
<1> HIDE DEF k
<1> QED
  BY <1>1, <1>2, <1>3, <1>4, AssignKeepsView

\* A value that is moved takes its elements along.
LEMMA MergeMovedEntryKeepsView ==
  ASSUME MapInv, ViewInv, MergeMovedEntry, Moves(<<call.src, cur>>, <<call.dst, cur>>)
  PROVE  ViewInv'
<1> DEFINE dst == call.dst
<1> DEFINE src == call.src
<1> DEFINE value == store[src][cur]
<1> DEFINE given == [store EXCEPT ![dst] = Assigned(@, cur, value)]
<1>1. /\ call # Idle /\ cur # End /\ result' = result /\ call.op = "mergeMoved"
      /\ store' = [given EXCEPT ![src] = Assigned(@, cur, NullData)]
  BY DEF MergeMovedEntry, InLoop, Idle
<1>2. /\ dst \in Configs /\ src \in Configs /\ dst # src /\ StoreType(store)
      /\ cur \in DOMAIN store[src] /\ value \in Data /\ cur \in ValidKeys
  <2>1. dst \in Configs /\ src \in Configs /\ dst # src
    BY <1>1, LoopEntry DEF Calls, MapInv, LoopInv
  <2>2. StoreType(store) /\ cur \in DOMAIN store[src] /\ value \in Data
    BY <1>1, LoopEntry
  <2> QED
    BY <2>1, <2>2 DEF StoreType, IsMap
<1> HIDE DEF value
<1>3. StoreType(given)
  BY <1>2, AssignedStore DEF given
<1>4. given = Assigning(store, dst, cur, value)
  BY Zenon DEF Assigning, given
<1> HIDE DEF given
<1>5. Assigns(store, given, dst, cur, value) /\ cur \in DOMAIN given[dst] /\ given[dst][cur] = value
  BY <1>2, <1>4, AssignedEntry
<1>6. Assigns(given, store', src, cur, NullData)
  <2>1. store' = Assigning(given, src, cur, NullData)
    BY <1>1, Zenon DEF Assigning
  <2> QED
    BY <1>2, <1>3, <2>1, AssignedEntry
<1>7. HoldData(given)
  BY <1>2, <1>5 DEF ViewInv, DataInv, HoldData, Assigns
<1>8. HoldData(store')
  BY <1>6, <1>7 DEF HoldData, Assigns, Data
<1>9. DataInv'
  BY <1>1, <1>8 DEF ViewInv, DataInv
<1>10. ASSUME place' # Nowhere
      PROVE  \E c \in Configs, k \in ValidKeys :
               place' = <<c, k>> /\ Owns(store', c, k, view')
  <2>1. view' = view /\ place # <<dst, cur>>
    BY <1>2, <1>10 DEF Moves, Nowhere
  <2>2. place # Nowhere
    BY <1>10, <2>1 DEF Moves, Nowhere
  <2>3. PICK c \in Configs, k \in ValidKeys : place = <<c, k>> /\ Owns(store, c, k, view)
    BY <2>2 DEF ViewInv, PlaceInv
  <2>4. CASE place = <<src, cur>>
    <3>1. place' = <<dst, cur>>
      BY <2>1, <2>4 DEF Moves
    <3>2. value = ArrayData(view)
      BY <2>3, <2>4 DEF Owns, value
    <3>3. Owns(store', dst, cur, view)
      BY <1>2, <1>5, <1>6, <3>2 DEF Owns, Assigns
    <3> QED
      BY <1>2, <2>1, <3>1, <3>3
  <2>5. CASE place # <<src, cur>>
    <3>1. place' = <<c, k>>
      BY <2>1, <2>3, <2>5 DEF Moves
    <3>2. ~ (k = cur /\ c = src) /\ ~ (k = cur /\ c = dst)
      BY <2>1, <2>3, <2>5
    <3>3. Owns(given, c, k, view)
      BY <1>5, <2>3, <3>2 DEF Owns, Assigns
    <3>4. Owns(store', c, k, view)
      BY <1>6, <3>2, <3>3 DEF Owns, Assigns
    <3> QED
      BY <2>1, <3>1, <3>4
  <2> QED
    BY <2>4, <2>5
<1>11. PlaceInv'
  BY <1>10 DEF PlaceInv, Nowhere, Owns
<1> QED
  BY <1>9, <1>11 DEF ViewInv

LEMMA SubconfigEntryKeepsView ==
  ASSUME MapInv, ViewInv, SubconfigEntry, Frees({})
  PROVE  ViewInv'
<1> DEFINE k == SubSeq(cur, Len(call.group) + 2, Len(cur))
<1>1. /\ call # Idle /\ cur # End /\ store' = store
      /\ result' = Assigned(result, k, store[call.src][cur])
  BY DEF SubconfigEntry, InLoop, Idle
<1>2. store[call.src][cur] \in Data
  BY <1>1, LoopEntry
<1> HIDE DEF k
<1>3. \A x \in DOMAIN result' : result'[x] \in Data
  BY <1>1, <1>2 DEF Assigned, ViewInv, DataInv
<1> QED
  BY <1>1, <1>3, LookKeepsView

\* The Config that getSubconfig returns takes the place of what dst had.
LEMMA EndSubconfigKeepsView ==
  ASSUME MapInv, ViewInv, EndSubconfig,
         Frees({<<call.dst, k>> : k \in DOMAIN store[call.dst]})
  PROVE  ViewInv'
<1>1. /\ call # Idle /\ result' = Empty
      /\ store' = [store EXCEPT ![call.dst] = result]
  BY DEF EndSubconfig, Return, Idle
<1>2. call.dst \in Configs /\ StoreType(store)
  BY <1>1, LoopEntry DEF Calls
<1>3. \A c \in Configs : store'[c] = IF c = call.dst THEN result ELSE store[c]
  BY <1>1, <1>2 DEF StoreType
<1>4. DataInv'
  BY <1>1, <1>3 DEF ViewInv, DataInv, HoldData, Empty
<1>5. PlaceInv'
  <2>1. \A c \in Configs : \A x \in DOMAIN store[c] :
          \/ <<c, x>> \in {<<call.dst, k>> : k \in DOMAIN store[call.dst]}
          \/ x \in DOMAIN store'[c] /\ store'[c][x] = store[c][x]
    BY <1>3
  <2> QED
    BY <2>1, FreesKeepsPlace DEF ViewInv
<1> QED
  BY <1>4, <1>5 DEF ViewInv

LEMMA AccessCallKeepsView ==
  ASSUME MapInv, ViewInv, AccessCall
  PROVE  ViewInv'
<1>1. ASSUME NEW c \in Configs, NEW k \in EntryKeys, NEW v \in Values,
             Set(c, k, v), NEW E, Frees(E), E = {<<c, k>>} \/ k \notin DOMAIN store[c]
      PROVE  ViewInv'
  <2>1. /\ store' = [store EXCEPT ![c] = Assigned(@, k, v)] /\ result' = result
        /\ StoreType(store) /\ v \in Data
    BY <1>1 DEF Set, MapInv, Data
  <2>2. CASE E = {<<c, k>>}
    BY <1>1, <2>1, <2>2, AssignKeepsView
  <2>3. CASE k \notin DOMAIN store[c]
    <3>1. place # <<c, k>>
      <4> SUFFICES ASSUME place = <<c, k>> PROVE FALSE
        OBVIOUS
      <4> QED
        BY <2>3 DEF ViewInv, PlaceInv, Nowhere, Owns
    <3>2. place' # Nowhere => Frees({<<c, k>>})
      BY <1>1, <3>1 DEF Frees, Nowhere
    <3>3. place' = Nowhere => PlaceInv'
      BY DEF PlaceInv, Nowhere, Owns
    <3>4. CASE place' # Nowhere
      BY <2>1, <3>2, <3>4, AssignKeepsView
    <3>5. CASE place' = Nowhere
      <4>1. DataInv'
        BY <2>1, AssignKeepsView
      <4> QED
        BY <3>3, <3>5, <4>1 DEF ViewInv
    <3> QED
      BY <3>4, <3>5
  <2> QED
    BY <1>1, <2>2, <2>3
<1>2. ASSUME NEW c \in Configs, NEW k \in EntryKeys, NEW v \in Values,
             SetDefault(c, k, v), Frees({})
      PROVE  ViewInv'
  <2>1. CASE k \notin DOMAIN store[c]
    BY <1>1, <1>2, <2>1 DEF SetDefault
  <2>2. CASE k \in DOMAIN store[c]
    <3>1. store' = store /\ result' = result
      BY <1>2, <2>2 DEF SetDefault
    <3> QED
      BY <1>2, <3>1, LookKeepsView DEF ViewInv, DataInv
  <2> QED
    BY <2>1, <2>2
<1>3. ASSUME NEW op, NEW dst \in Configs, NEW src \in Configs, NEW group,
             BeginMerge(op, dst, src, group) \/ BeginSubconfig(dst, src, group),
             Frees({})
      PROVE  ViewInv'
  <2>1. store' = store /\ result' = result
    BY <1>3 DEF BeginMerge, BeginSubconfig
  <2> QED
    BY <1>3, <2>1, LookKeepsView DEF ViewInv, DataInv
<1> QED
  BY <1>1, <1>2, <1>3, TakeViewKeepsView DEF AccessCall

LEMMA AccessStepKeepsView ==
  ASSUME MapInv, ViewInv, AccessStep
  PROVE  ViewInv'
<1>1. CASE MergeEntry /\ Frees({<<call.dst, cur>>})
  BY <1>1, MergeEntryKeepsView
<1>2. CASE MergeMovedEntry /\ Moves(<<call.src, cur>>, <<call.dst, cur>>)
  BY <1>2, MergeMovedEntryKeepsView
<1>3. CASE GroupEntry /\ Frees({<<call.dst, JoinKeys(call.group, cur)>>})
  BY <1>3, GroupEntryKeepsView
<1>4. CASE EndSubconfig /\ Frees({<<call.dst, k>> : k \in DOMAIN store[call.dst]})
  BY <1>4, EndSubconfigKeepsView
<1>5. CASE SubconfigEntry /\ Frees({})
  BY <1>5, SubconfigEntryKeepsView
<1>6. CASE (GroupKeyThrows \/ EndMerge) /\ Frees({})
  <2>1. store' = store /\ result' = Empty
    BY <1>6 DEF GroupKeyThrows, EndMerge, Return
  <2>2. \A k \in DOMAIN result' : result'[k] \in Data
    BY <2>1 DEF Empty
  <2> QED
    BY <1>6, <2>1, <2>2, LookKeepsView
<1>7. CASE DereferenceEnd /\ Frees({})
  <2>1. store' = store /\ result' = result
    BY <1>7 DEF DereferenceEnd
  <2> QED
    BY <1>7, <2>1, LookKeepsView DEF ViewInv, DataInv
<1> QED
  BY <1>1, <1>2, <1>3, <1>4, <1>5, <1>6, <1>7 DEF AccessStep

\* The views and the values stay what they are.
LEMMA ViewInvariant == AccessSpec => []ViewInv
<1>1. AccessInit => ViewInv
  <2> SUFFICES ASSUME AccessInit PROVE ViewInv
    OBVIOUS
  <2>1. HoldData(store) /\ \A k \in DOMAIN result : result[k] \in Data
    BY DEF AccessInit, Init, HoldData, Empty
  <2> QED
    BY <2>1 DEF AccessInit, ViewInv, DataInv, PlaceInv
<1>2. MapInv /\ ViewInv /\ [AccessNext]_accessVars => ViewInv'
  <2> SUFFICES ASSUME MapInv, ViewInv, [AccessNext]_accessVars
               PROVE  ViewInv'
    OBVIOUS
  <2>1. CASE UNCHANGED accessVars
    BY <2>1 DEF accessVars, vars, ViewInv, DataInv, HoldData, PlaceInv, Owns
  <2> QED
    BY <2>1, AccessCallKeepsView, AccessStepKeepsView DEF AccessNext
<1> QED
  BY <1>1, <1>2, AccessInvariant, PTL DEF AccessSpec, AccessNext

\* A view of an array keeps referring to its elements, through the calls that
\* do not assign to its entry and the moves from Config to Config that merge
\* makes of it (the span getArray returns; Config::merge, set, getSubconfig).
THEOREM ViewsFollowValues == AccessSpec => []ViewFollowsValue
<1>1. ViewInv => ViewFollowsValue
  <2> SUFFICES ASSUME ViewInv, place # Nowhere
               PROVE  /\ place[2] \in DOMAIN store[place[1]]
                      /\ store[place[1]][place[2]] = ArrayData(view)
    BY DEF ViewFollowsValue
  <2>1. PICK c \in Configs, k \in ValidKeys : place = <<c, k>> /\ Owns(store, c, k, view)
    BY DEF ViewInv, PlaceInv
  <2> QED
    BY <2>1 DEF Owns
<1> QED
  BY <1>1, ViewInvariant, PTL

(***************************************************************************)
(* The getters.                                                            *)
(***************************************************************************)

\* What Config::get answers, and the getter of each type makes of it.
LEMMA AnswerHasType ==
  ASSUME DataInv, NEW c \in Configs, NEW k
  PROVE  IF k \in DOMAIN store[c]
           THEN /\ Get(store[c], k).type \in Types
                /\ Get(store[c], k).type = "eNull" <=> Get(store[c], k) = NullData
           ELSE Get(store[c], k) = Nullopt
<1>1. CASE k \in DOMAIN store[c]
  <2>1. Get(store[c], k) \in Data
    BY <1>1 DEF Get, DataInv, HoldData
  <2>2. CASE Get(store[c], k) = NullData
    BY <1>1, <2>2 DEF NullData, Datum, Types
  <2>3. CASE Get(store[c], k) \in Values
    BY <1>1, <2>3, TypesAssumption DEF NullData, Datum
  <2> QED
    BY <2>1, <2>2, <2>3 DEF Data
<1>2. CASE k \notin DOMAIN store[c]
  BY <1>2 DEF Get
<1> QED
  BY <1>1, <1>2

\* A value of a type is no answer that stands for the lack of one.
LEMMA TypedIsAnswer ==
  ASSUME NEW value, value.type \in Types
  PROVE  Has(value)
BY DEF Types, Has, Nullopt, InvalidValue, Aborted, Datum

LEMMA MadeIsAnswer ==
  \A text : /\ Has(IntData(text)) /\ Has(FloatData(text))
            /\ Has(StringData(text)) /\ Has(ArrayData(text))
BY DEF Has, Nullopt, InvalidValue, Aborted, Datum, IntData, FloatData, StringData, ArrayData

LEMMA NoneIsNoAnswer == ~ Has(Nullopt) /\ ~ Has(InvalidValue) /\ ~ Has(Aborted)
BY DEF Has

\* Which getters give an entry that there is.
LEMMA GettersOfValue ==
  ASSUME NEW value, value.type \in Types
  PROVE  /\ Has(BoolOf(value)) <=> value.type = "eBool"
         /\ Has(IntOf(value)) <=> value.type \in {"eInt", "eFloat"}
         /\ Has(FloatOf(value)) <=> value.type \in {"eInt", "eFloat"}
         /\ Has(StringOf(value)) <=>
              value.type \in {"eString", "eInt", "eFloat", "eArray"}
         /\ Has(ArrayOf(value)) <=> value.type # "eNull"
<1>1. value.type # "nullopt"
  BY DEF Types
<1>2. Has(value)
  BY TypedIsAnswer
<1>3. Has(BoolOf(value)) <=> value.type = "eBool"
  BY <1>1, <1>2, NoneIsNoAnswer DEF BoolOf
<1>4. Has(IntOf(value)) <=> value.type \in {"eInt", "eFloat"}
  BY <1>1, <1>2, NoneIsNoAnswer, MadeIsAnswer DEF IntOf
<1>5. Has(FloatOf(value)) <=> value.type \in {"eInt", "eFloat"}
  BY <1>1, <1>2, NoneIsNoAnswer, MadeIsAnswer DEF FloatOf
<1>6. Has(StringOf(value)) <=>
        value.type \in {"eString", "eInt", "eFloat", "eArray"}
  BY <1>1, <1>2, NoneIsNoAnswer, MadeIsAnswer DEF StringOf
<1>7. Has(ArrayOf(value)) <=> value.type # "eNull"
  BY <1>1, <1>2, NoneIsNoAnswer, MadeIsAnswer DEF ArrayOf
<1> QED
  BY <1>3, <1>4, <1>5, <1>6, <1>7

\* A getter hands nullopt on.
LEMMA GettersOfNothing ==
  /\ BoolOf(Nullopt) = Nullopt /\ IntOf(Nullopt) = Nullopt
  /\ FloatOf(Nullopt) = Nullopt /\ StringOf(Nullopt) = Nullopt
  /\ ArrayOf(Nullopt) = Nullopt
<1>1. Nullopt.type = "nullopt"
  BY DEF Nullopt, Datum
<1> QED
  BY <1>1 DEF BoolOf, IntOf, FloatOf, StringOf, ArrayOf

\* Which entries stop a getter: an answer that is there does not stand for the
\* lack of one.
LEMMA StoppedByNull ==
  ASSUME NEW value, value.type \in Types
  PROVE  /\ BoolOf(value) = Aborted <=> value.type = "eNull"
         /\ IntOf(value) = Aborted <=> value.type = "eNull"
         /\ StringOf(value) = Aborted <=> value.type = "eNull"
         /\ ArrayOf(value) = Aborted <=> value.type = "eNull"
         /\ value.type = "eNull" => FloatOf(value) = InvalidValue
<1>1. value.type # "nullopt" /\ value # Aborted /\ InvalidValue # Aborted
  BY DEF Types, Aborted, InvalidValue, Datum
<1>2. \A text : /\ IntData(text) # Aborted /\ StringData(text) # Aborted
                /\ ArrayData(text) # Aborted
  BY MadeIsAnswer, NoneIsNoAnswer
<1>3. BoolOf(value) = Aborted <=> value.type = "eNull"
  BY <1>1 DEF BoolOf
<1>4. IntOf(value) = Aborted <=> value.type = "eNull"
  BY <1>1, <1>2 DEF IntOf
<1>5. StringOf(value) = Aborted <=> value.type = "eNull"
  BY <1>1, <1>2 DEF StringOf
<1>6. ArrayOf(value) = Aborted <=> value.type = "eNull"
  BY <1>1, <1>2 DEF ArrayOf
<1>7. value.type = "eNull" => FloatOf(value) = InvalidValue
  BY DEF FloatOf
<1> QED
  BY <1>3, <1>4, <1>5, <1>6, <1>7

LEMMA DataAgrees == DataInv => GettersAgree
<1> SUFFICES ASSUME DataInv, NEW c \in Configs, NEW k \in EntryKeys
             PROVE  LET map    == store[c]
                        answer == Get(map, k)
                        valued == k \in DOMAIN map /\ answer # NullData
                    IN  /\ Has(IntOf(answer)) <=> Has(FloatOf(answer))
                        /\ Has(IntOf(answer)) =>
                             Has(StringOf(answer)) /\ ~ Has(BoolOf(answer))
                        /\ Has(ArrayOf(answer)) <=> valued
                        /\ Has(StringOf(answer)) \/ Has(BoolOf(answer)) <=> valued
                        /\ Coalesce(BoolOf(answer), NullData) = NullData
                             <=> k \notin DOMAIN map
                        /\ \A given \in {BoolOf(answer), IntOf(answer),
                                        StringOf(answer), ArrayOf(answer)} :
                             given = Aborted <=> answer = NullData
                        /\ answer = NullData => FloatOf(answer) = InvalidValue
  BY DEF GettersAgree
<1> DEFINE answer == Get(store[c], k)
<1>1. CASE k \in DOMAIN store[c]
  <2>1. answer.type \in Types /\ (answer.type = "eNull" <=> answer = NullData)
    BY <1>1, AnswerHasType
  <2> HIDE DEF answer
  <2>2. /\ Has(BoolOf(answer)) <=> answer.type = "eBool"
        /\ Has(IntOf(answer)) <=> answer.type \in {"eInt", "eFloat"}
        /\ Has(FloatOf(answer)) <=> answer.type \in {"eInt", "eFloat"}
        /\ Has(StringOf(answer)) <=>
             answer.type \in {"eString", "eInt", "eFloat", "eArray"}
        /\ Has(ArrayOf(answer)) <=> answer.type # "eNull"
    BY <2>1, GettersOfValue
  <2>3. Has(StringOf(answer)) \/ Has(BoolOf(answer)) <=> answer # NullData
    BY <2>1, <2>2 DEF Types
  <2>4. /\ \A given \in {BoolOf(answer), IntOf(answer), StringOf(answer),
                         ArrayOf(answer)} : given = Aborted <=> answer = NullData
        /\ answer = NullData => FloatOf(answer) = InvalidValue
    <3>1. /\ BoolOf(answer) = Aborted <=> answer = NullData
          /\ IntOf(answer) = Aborted <=> answer = NullData
          /\ StringOf(answer) = Aborted <=> answer = NullData
          /\ ArrayOf(answer) = Aborted <=> answer = NullData
          /\ answer = NullData => FloatOf(answer) = InvalidValue
      BY <2>1, StoppedByNull
    <3> QED
      BY <3>1
  <2>5. BoolOf(answer) # NullData /\ BoolOf(answer) # Nullopt
    <3>1. CASE answer.type = "eBool"
      <4>1. BoolOf(answer) = answer
        BY <3>1 DEF BoolOf
      <4> QED
        BY <3>1, <4>1 DEF NullData, Nullopt, Datum
    <3>2. CASE answer.type # "eBool"
      <4>1. BoolOf(answer) \in {InvalidValue, Aborted}
        BY <2>1, <3>2 DEF BoolOf, Types
      <4> QED
        BY <4>1 DEF NullData, Nullopt, InvalidValue, Aborted, Datum
    <3> QED
      BY <3>1, <3>2
  <2>6. Coalesce(BoolOf(answer), NullData) # NullData
    BY <2>5 DEF Coalesce
  <2> QED
    BY <1>1, <2>1, <2>2, <2>3, <2>4, <2>6 DEF answer
<1>2. CASE k \notin DOMAIN store[c]
  <2>1. answer = Nullopt
    BY <1>2, AnswerHasType
  <2> HIDE DEF answer
  <2>2. Coalesce(BoolOf(answer), NullData) = NullData
    BY <2>1, GettersOfNothing DEF Coalesce
  <2>3. /\ ~ Has(IntOf(answer)) /\ ~ Has(FloatOf(answer)) /\ ~ Has(ArrayOf(answer))
        /\ ~ Has(StringOf(answer)) /\ ~ Has(BoolOf(answer))
    BY <2>1, GettersOfNothing, NoneIsNoAnswer
  <2>4. Nullopt # NullData /\ Nullopt # Aborted
    BY DEF Nullopt, NullData, Aborted, Datum
  <2>5. \A given \in {BoolOf(answer), IntOf(answer), StringOf(answer),
                      ArrayOf(answer)} : given = Aborted <=> answer = NullData
    BY <2>1, <2>4, GettersOfNothing
  <2> QED
    BY <1>2, <2>1, <2>2, <2>3, <2>4, <2>5 DEF answer
<1> QED
  BY <1>1, <1>2

\* The getters of the six types (Config::getBool to Config::getArray) and
\* coalesceCfgValue agree on what each entry is, whatever values were set and
\* wherever merges have moved them; an entry that is null, as a merge leaves it
\* behind, and no other, meets the assertions that four of them begin with.
THEOREM GettersAgreeOnEntries == AccessSpec => []GettersAgree
<1>1. ViewInv => GettersAgree
  BY DataAgrees DEF ViewInv
<1> QED
  BY <1>1, ViewInvariant, PTL
=============================================================================
