----------------------------- MODULE KeyProofs -----------------------------
(***************************************************************************)
(* Proofs about the Key objects of KeyBuilder: what is a key, what its     *)
(* parts are, and how KeySpans compare, for lists of any names.            *)
(***************************************************************************)
EXTENDS KeyBuilder, Facts

-----------------------------------------------------------------------------
(* Joining.                                                                *)

\* The recursion of FlattenSeq.
Flattens(f, seqs, n) ==
  \A i \in 1 .. n : f[i] = IF i = 1 THEN seqs[i] ELSE f[i - 1] \o seqs[i]

\* There is a function with that recursion.
LEMMA FlattenExists ==
  ASSUME NEW S, NEW seqs \in Seq(Seq(S)), NEW n \in 1 .. Len(seqs)
  PROVE  \E f \in [1 .. n -> Seq(S)] : Flattens(f, seqs, n)
<1> DEFINE bad == {m \in 1 .. Len(seqs) :
                     ~ \E f \in [1 .. m -> Seq(S)] : Flattens(f, seqs, m)}
<1> SUFFICES ASSUME bad # {}
             PROVE  FALSE
  OBVIOUS
<1>1. bad \in SUBSET Nat
  OBVIOUS
<1>2. PICK m \in bad : \A j \in bad : m <= j
  <2> HIDE DEF bad
  <2> QED
    BY <1>1, Least
<1>3. /\ m \in 1 .. Len(seqs) /\ seqs[m] \in Seq(S)
      /\ m \in Nat /\ m >= 1
  OBVIOUS
<1>4. CASE m = 1
  <2> DEFINE f == [i \in 1 .. 1 |-> seqs[1]]
  <2>1. f \in [1 .. m -> Seq(S)] /\ Flattens(f, seqs, m)
    BY <1>3, <1>4 DEF Flattens
  <2> QED
    BY <2>1
<1>5. CASE m # 1
  <2>1. m - 1 \in 1 .. Len(seqs) /\ m - 1 \notin bad
    <3>1. m \in Nat /\ m \in 1 .. Len(seqs) /\ Len(seqs) \in Nat
      BY <1>3
    <3> HIDE DEF bad
    <3> QED
      BY <1>2, <1>5, <3>1
  <2>2. PICK g \in [1 .. m - 1 -> Seq(S)] : Flattens(g, seqs, m - 1)
    BY <2>1
  <2>3. g[m - 1] \in Seq(S) /\ g[m - 1] \o seqs[m] \in Seq(S)
    <3>1. g[m - 1] \in Seq(S)
      BY <2>1
    <3> QED
      BY <1>3, <3>1, ConcatProperties
  <2> DEFINE f == [i \in 1 .. m |-> IF i < m THEN g[i] ELSE g[m - 1] \o seqs[m]]
  <2>4. f \in [1 .. m -> Seq(S)]
    BY <1>3, <2>2, <2>3
  <2>5. Flattens(f, seqs, m)
    <3> SUFFICES ASSUME NEW i \in 1 .. m
                 PROVE  f[i] = IF i = 1 THEN seqs[i] ELSE f[i - 1] \o seqs[i]
      BY DEF Flattens
    <3>1. CASE i = m
      <4>1. m - 1 \in 1 .. m /\ m - 1 < m
        BY <1>3, <1>5
      <4>2. f[m] = g[m - 1] \o seqs[m]
        <5>1. m \in 1 .. m /\ ~ (m < m)
          BY <1>3
        <5>2. f[m] = IF m < m THEN g[m] ELSE g[m - 1] \o seqs[m]
          BY <5>1, Zenon
        <5> QED
          BY <5>1, <5>2, Zenon
      <4>3. f[m - 1] = g[m - 1]
        BY <4>1
      <4>4. f[m] = f[m - 1] \o seqs[m]
        <5> HIDE DEF f
        <5> QED
          BY <4>2, <4>3
      <4> HIDE DEF f
      <4> QED
        BY <1>5, <3>1, <4>4
    <3>2. CASE i < m
      <4>1. f[i] = g[i] /\ (i # 1 => f[i - 1] = g[i - 1])
        BY <1>3, <3>2
      <4>2. i \in 1 .. m - 1
        BY <1>3, <3>2
      <4> QED
        BY <2>2, <4>1, <4>2 DEF Flattens
    <3> QED
      BY <1>3, <3>1, <3>2
  <2> QED
    BY <2>4, <2>5
<1> QED
  BY <1>4, <1>5

\* A sequence of sequences of characters is put together to a sequence of
\* characters.
LEMMA FlattenIsSeq ==
  ASSUME NEW S, NEW seqs \in Seq(Seq(S)), Len(seqs) # 0
  PROVE  FlattenSeq(seqs) \in Seq(S)
<1> DEFINE n == Len(seqs)
<1> DEFINE Recursion(f) ==
      f = [i \in 1 .. n |-> IF i = 1 THEN seqs[i] ELSE f[i - 1] \o seqs[i]]
<1> DEFINE flat == CHOOSE f : Recursion(f)
<1>1. FlattenSeq(seqs) = flat[n]
  BY DEF FlattenSeq
<1>2. n \in 1 .. Len(seqs)
  OBVIOUS
<1>3. \E f : Recursion(f)
  <2>1. PICK f \in [1 .. n -> Seq(S)] : Flattens(f, seqs, n)
    <3> HIDE DEF n
    <3> QED
      BY <1>2, FlattenExists
  <2>2. Recursion(f)
    BY <2>1 DEF Flattens
  <2> QED
    BY <2>2
<1>4. Recursion(flat)
  <2> HIDE DEF Recursion
  <2> QED
    BY <1>3
<1>5. \A i \in 1 .. n : flat[i] = IF i = 1 THEN seqs[i] ELSE flat[i - 1] \o seqs[i]
  <2> HIDE DEF flat
  <2> QED
    BY <1>4
<1> DEFINE bad == {m \in 1 .. n : flat[m] \notin Seq(S)}
<1> HIDE DEF flat
<1>6. bad = {}
  <2> SUFFICES ASSUME bad # {}
               PROVE  FALSE
    OBVIOUS
  <2>1. bad \in SUBSET Nat
    OBVIOUS
  <2>2. PICK m \in bad : \A j \in bad : m <= j
    <3> HIDE DEF bad
    <3> QED
      BY <2>1, Least
  <2>3. m \in 1 .. n /\ seqs[m] \in Seq(S) /\ flat[m] \notin Seq(S)
    OBVIOUS
  <2>4. m # 1
    BY <1>5, <2>3
  <2>5. flat[m - 1] \in Seq(S)
    BY <2>2, <2>3, <2>4
  <2>6. flat[m] = flat[m - 1] \o seqs[m]
    BY <1>5, <2>3, <2>4
  <2> QED
    BY <2>3, <2>5, <2>6, ConcatProperties
<1> QED
  BY <1>1, <1>2, <1>6

LEMMA OneIsSeq ==
  ASSUME NEW S, NEW c \in S
  PROVE  <<c>> \in Seq(S)
OBVIOUS

\* The characters of names.  That a period is one needs no axiom of strings.
Characters == STRING \union {"."}

LEMMA JoinOfNothing == Join(<<>>) = <<>>
<1> DEFINE seqs == [i \in 1 .. Len(<<>>) |-> IF i = 1 THEN <<>>[i] ELSE <<".">> \o <<>>[i]]
<1>1. seqs = <<>> /\ Len(<<>>) = 0
  OBVIOUS
<1>2. Join(<<>>) = FlattenSeq(seqs)
  BY DEF Join
<1> HIDE DEF seqs
<1> QED
  BY <1>1, <1>2 DEF FlattenSeq

\* The names of a list are joined to a text.
LEMMA JoinIsText ==
  ASSUME NEW list \in Seq(Seq(Characters))
  PROVE  Join(list) \in Seq(Characters)
<1> DEFINE seqs == [i \in 1 .. Len(list) |->
                      IF i = 1 THEN list[i] ELSE <<".">> \o list[i]]
<1>1. seqs \in Seq(Seq(Characters)) /\ Len(seqs) = Len(list)
  <2>1. \A i \in 1 .. Len(list) : <<".">> \o list[i] \in Seq(Characters)
    <3> SUFFICES ASSUME NEW i \in 1 .. Len(list)
                 PROVE  <<".">> \o list[i] \in Seq(Characters)
      OBVIOUS
    <3>1. list[i] \in Seq(Characters)
      OBVIOUS
    <3>2. <<".">> \in Seq(Characters)
      BY OneIsSeq DEF Characters
    <3> QED
      BY <3>1, <3>2, ConcatProperties
  <2>2. \A i \in 1 .. Len(list) : seqs[i] \in Seq(Characters)
    <3>1. \A i \in 1 .. Len(list) : list[i] \in Seq(Characters)
      OBVIOUS
    <3> QED
      BY <2>1, <3>1
  <2>3. Len(list) \in Nat
    OBVIOUS
  <2>4. seqs \in [1 .. Len(list) -> Seq(Characters)]
    BY <2>2
  <2> HIDE DEF seqs
  <2> QED
    BY SMTT(20), <2>3, <2>4
<1>2. Join(list) = FlattenSeq(seqs)
  BY DEF Join
<1>3. CASE Len(list) = 0
  <2>1. list = <<>>
    BY <1>3
  <2>2. <<>> \in Seq(Characters)
    OBVIOUS
  <2> QED
    BY <2>1, <2>2, JoinOfNothing
<1>4. CASE Len(list) # 0
  <2> HIDE DEF seqs
  <2> QED
    BY <1>1, <1>2, <1>4, FlattenIsSeq
<1> QED
  BY <1>3, <1>4

-----------------------------------------------------------------------------
(* The parts of a text.                                                    *)

LEMMA PlaceOf ==
  ASSUME NEW k, NEW b \in 1 .. Len(k) + 1, NEW e \in 0 .. Len(k), IsPart(k, b, e)
  PROVE  <<b, e>> \in PartsOf(k)
BY DEF PartsOf

LEMMA PlaceIs ==
  ASSUME NEW S, NEW k \in Seq(S), NEW place \in PartsOf(k)
  PROVE  /\ place = <<place[1], place[2]>>
         /\ place[1] \in 1 .. Len(k) + 1 /\ place[2] \in 0 .. Len(k)
         /\ IsPart(k, place[1], place[2])
         /\ Len(k) \in Nat
BY DEF PartsOf

\* A part begins at the beginning of the text and behind each period.
LEMMA PartFrom ==
  ASSUME NEW S, NEW k \in Seq(S), NEW b \in 1 .. Len(k) + 1, b = 1 \/ k[b - 1] = "."
  PROVE  \E e \in 0 .. Len(k) : <<b, e>> \in PartsOf(k)
<1> DEFINE n == Len(k)
<1> DEFINE periods == {i \in b .. n : k[i] = "."}
<1>1. n \in Nat /\ b \in Nat
  OBVIOUS
<1>2. CASE periods = {}
  <2>1. IsPart(k, b, n)
    BY <1>1, <1>2 DEF IsPart
  <2>2. n \in 0 .. Len(k)
    BY <1>1
  <2> QED
    BY <2>1, <2>2, PlaceOf
<1>3. CASE periods # {}
  <2>1. PICK m \in periods : \A j \in periods : m <= j
    <3>1. periods \in SUBSET Nat
      BY <1>1
    <3> HIDE DEF periods
    <3> QED
      BY <1>3, <3>1, Least
  <2>2. m \in b .. n /\ k[m] = "." /\ m \in Nat
    BY <1>1
  <2>3. IsPart(k, b, m - 1)
    <3>1. \A i \in b .. m - 1 : k[i] # "."
      BY <1>1, <2>1, <2>2
    <3>2. b <= m - 1 + 1 /\ m - 1 + 1 = m
      BY <1>1, <2>2
    <3> QED
      BY <2>2, <3>1, <3>2 DEF IsPart
  <2>4. m - 1 \in 0 .. Len(k)
    BY <1>1, <2>2
  <2> QED
    BY <2>3, <2>4, PlaceOf
<1> QED
  BY <1>2, <1>3

\* A part ends at the end of the text and before each period.
LEMMA PartTo ==
  ASSUME NEW S, NEW k \in Seq(S), NEW e \in 0 .. Len(k), e = Len(k) \/ k[e + 1] = "."
  PROVE  \E b \in 1 .. Len(k) + 1 : <<b, e>> \in PartsOf(k)
<1> DEFINE n == Len(k)
<1> DEFINE starts == {d \in 0 .. e : d = e \/ k[e - d] = "."}
<1>1. n \in Nat /\ e \in Nat
  OBVIOUS
<1>2. PICK d \in starts : \A j \in starts : d <= j
  <2>1. starts \in SUBSET Nat /\ starts # {}
    <3>1. e \in starts
      BY <1>1
    <3> QED
      BY <1>1, <3>1
  <2> HIDE DEF starts
  <2> QED
    BY <2>1, Least
<1>3. d \in 0 .. e /\ (d = e \/ k[e - d] = ".") /\ d \in Nat
  BY <1>1
<1> DEFINE b == e - d + 1
<1>4. b \in 1 .. Len(k) + 1 /\ b - 1 = e - d
  BY <1>1, <1>3
<1>5. \A i \in b .. e : k[i] # "."
  <2> SUFFICES ASSUME NEW i \in b .. e, k[i] = "."
               PROVE  FALSE
    OBVIOUS
  <2>1. e - i \in 0 .. e /\ e - (e - i) = i /\ e - i < d
    BY <1>1, <1>3, <1>4
  <2>2. e - i \in starts
    BY <2>1
  <2> QED
    BY <1>2, <1>3, <2>1, <2>2
<1>6. IsPart(k, b, e)
  <2>1. b = 1 \/ k[b - 1] = "."
    <3>1. CASE d = e
      BY <1>1, <3>1
    <3>2. CASE k[e - d] = "."
      BY <1>4, <3>2
    <3> QED
      BY <1>3, <3>1, <3>2
  <2>2. b <= e + 1
    BY <1>1, <1>3
  <2> HIDE DEF b
  <2> QED
    BY <1>5, <2>1, <2>2 DEF IsPart
<1> HIDE DEF b
<1> QED
  BY <1>4, <1>6, PlaceOf

\* Two parts do not begin at the same place.
LEMMA PartsDiffer ==
  ASSUME NEW S, NEW k \in Seq(S), NEW p \in PartsOf(k), NEW q \in PartsOf(k),
         p[1] = q[1]
  PROVE  p = q
<1>1. /\ p = <<p[1], p[2]>> /\ p[1] \in Nat /\ p[2] \in 0 .. Len(k)
      /\ IsPart(k, p[1], p[2])
  BY PlaceIs
<1>2. q = <<q[1], q[2]>> /\ q[2] \in 0 .. Len(k) /\ IsPart(k, q[1], q[2])
  BY PlaceIs
<1>3. Len(k) \in Nat
  OBVIOUS
<1>4. ~ (p[2] < q[2])
  <2> SUFFICES ASSUME p[2] < q[2]
               PROVE  FALSE
    OBVIOUS
  <2>1. p[2] # Len(k) /\ k[p[2] + 1] = "."
    BY <1>1, <1>2, <1>3 DEF IsPart
  <2>2. p[2] + 1 \in q[1] .. q[2]
    BY <1>1, <1>2, <1>3 DEF IsPart
  <2> QED
    BY <1>2, <2>1, <2>2 DEF IsPart
<1>5. ~ (q[2] < p[2])
  <2> SUFFICES ASSUME q[2] < p[2]
               PROVE  FALSE
    OBVIOUS
  <2>1. q[2] # Len(k) /\ k[q[2] + 1] = "."
    BY <1>1, <1>2, <1>3 DEF IsPart
  <2>2. q[2] + 1 \in p[1] .. p[2]
    BY <1>1, <1>2, <1>3 DEF IsPart
  <2> QED
    BY <1>1, <2>1, <2>2 DEF IsPart
<1>6. p[2] = q[2]
  BY <1>1, <1>2, <1>3, <1>4, <1>5
<1> QED
  BY <1>1, <1>2, <1>6

\* The parts of a key are names.
LEMMA PartOfKeyIsName ==
  ASSUME NEW k \in ValidKeys, k # <<>>, NEW place \in PartsOf(k)
  PROVE  IsName(Part(k, place))
<1> DEFINE b == place[1]
<1> DEFINE e == place[2]
<1> DEFINE n == Len(k)
<1>1. /\ k \in Seq(KeyChars)
      /\ \A i \in 1 .. n : k[i] = "." => i > 1 /\ i < n /\ k[i - 1] # "."
  BY ValidKey
<1>2. n \in Nat /\ n >= 1 /\ b \in 1 .. n + 1 /\ e \in 0 .. n /\ IsPart(k, b, e)
  BY <1>1, PlaceIs
<1>3. b <= e
  <2> SUFFICES ASSUME b = e + 1
               PROVE  FALSE
    BY <1>2 DEF IsPart
  <2>1. CASE b = 1
    BY <1>1, <1>2, <2>1 DEF IsPart
  <2>2. CASE b # 1
    <3>1. b - 1 \in 1 .. n /\ b - 1 = e /\ k[b - 1] = "."
      BY <1>2, <2>2 DEF IsPart
    <3>2. e < n /\ k[b] = "." /\ b \in 1 .. n
      BY <1>1, <1>2, <3>1 DEF IsPart
    <3> QED
      BY <1>1, <1>2, <3>1, <3>2
  <2> QED
    BY <2>1, <2>2
<1>4. /\ Part(k, place) \in Seq(KeyChars)
      /\ Len(Part(k, place)) = e - b + 1
      /\ \A i \in 1 .. e - b + 1 : Part(k, place)[i] = k[b + i - 1]
  <2>1. Part(k, place) = SubSeq(k, b, e)
    BY DEF Part
  <2> HIDE DEF b, e
  <2> QED
    BY <1>1, <1>2, <1>3, <2>1
<1>5. \A i \in b .. e : k[i] \in KeyChars /\ k[i] # "."
  BY <1>1, <1>2 DEF IsPart
<1>6. \A i \in 1 .. e - b + 1 : IsAlphanum(k[b + i - 1]) \/ k[b + i - 1] \in {"_", "-"}
  <2> SUFFICES ASSUME NEW i \in 1 .. e - b + 1
               PROVE  IsAlphanum(k[b + i - 1]) \/ k[b + i - 1] \in {"_", "-"}
    OBVIOUS
  <2>1. b + i - 1 \in b .. e
    BY <1>2
  <2>2. k[b + i - 1] \in KeyChars /\ k[b + i - 1] # "."
    BY <1>5, <2>1
  <2> QED
    BY <2>2 DEF KeyChars, IsAlphanum
<1> DEFINE str == Part(k, place)
<1>7. e - b + 1 \in Nat /\ e - b + 1 >= 1
  BY <1>2, <1>3
<1> HIDE DEF b, e, str
<1>8. str # <<>>
  BY <1>4, <1>7 DEF str
<1>9. \A i \in 1 .. Len(str) : IsAlphanum(str[i]) \/ str[i] \in {"_", "-"}
  BY <1>4, <1>6 DEF str
<1> QED
  BY <1>8, <1>9 DEF IsName, str

\* The part that a character which is no period belongs to.
LEMMA PartAround ==
  ASSUME NEW S, NEW k \in Seq(S), NEW i \in 1 .. Len(k), k[i] # "."
  PROVE  \E b, e \in Nat : <<b, e>> \in PartsOf(k) /\ b <= i /\ i <= e
<1> DEFINE n == Len(k)
<1> DEFINE periods == {j \in i .. n : k[j] = "."}
<1>1. n \in Nat /\ i \in Nat
  OBVIOUS
<1>2. \E e \in i .. n : /\ e = n \/ k[e + 1] = "."
                        /\ \A j \in i .. e : k[j] # "."
  <2>1. CASE periods = {}
    BY <1>1, <2>1
  <2>2. CASE periods # {}
    <3>1. PICK m \in periods : \A j \in periods : m <= j
      <4>1. periods \in SUBSET Nat
        BY <1>1
      <4> HIDE DEF periods
      <4> QED
        BY <2>2, <4>1, Least
    <3>2. m \in i .. n /\ k[m] = "." /\ m \in Nat /\ m # i
      BY <1>1
    <3>3. m - 1 \in i .. n /\ m - 1 + 1 = m
      BY <1>1, <3>2
    <3>4. \A j \in i .. m - 1 : k[j] # "."
      BY <1>1, <3>1, <3>2
    <3> QED
      BY <3>2, <3>3, <3>4
  <2> QED
    BY <2>1, <2>2
<1>3. PICK e \in i .. n : /\ e = n \/ k[e + 1] = "."
                          /\ \A j \in i .. e : k[j] # "."
  BY <1>2
<1>4. e \in 0 .. n /\ e \in Nat /\ i <= e
  BY <1>1
<1>5. PICK b \in 1 .. Len(k) + 1 : <<b, e>> \in PartsOf(k)
  BY <1>3, <1>4, PartTo
<1>6. b \in Nat /\ IsPart(k, b, e)
  BY <1>1, <1>5, PlaceIs
<1>7. b <= i
  <2> SUFFICES ASSUME b > i
               PROVE  FALSE
    BY <1>1, <1>6
  <2>1. k[b - 1] = "."
    BY <1>1, <1>6 DEF IsPart
  <2>2. b - 1 \in i .. e
    BY <1>1, <1>4, <1>6 DEF IsPart
  <2> QED
    BY <1>3, <2>1, <2>2
<1> QED
  BY <1>4, <1>5, <1>6, <1>7

\* A part that holds a character no name has, or none, is no name.
LEMMA NoName ==
  ASSUME NEW S, NEW k \in Seq(S), NEW place \in PartsOf(k)
  PROVE  /\ place[2] < place[1] => ~ IsName(Part(k, place))
         /\ \A i \in place[1] .. place[2] :
              ~ IsValidKeyChar(k[i]) => ~ IsName(Part(k, place))
<1> DEFINE b == place[1]
<1> DEFINE e == place[2]
<1> DEFINE str == Part(k, place)
<1>1. b \in 1 .. Len(k) + 1 /\ e \in 0 .. Len(k) /\ b <= e + 1 /\ Len(k) \in Nat
  BY PlaceIs DEF IsPart
<1>2. str = SubSeq(k, b, e)
  BY DEF Part
<1>3. ASSUME e < b
      PROVE  ~ IsName(str)
  <2>1. str = <<>>
    BY <1>1, <1>2, <1>3
  <2> QED
    BY <2>1 DEF IsName
<1>4. ASSUME NEW i \in b .. e, ~ IsValidKeyChar(k[i])
      PROVE  ~ IsName(str)
  <2>1. /\ Len(str) = e - b + 1
        /\ \A j \in 1 .. e - b + 1 : str[j] = k[b + j - 1]
    <3> HIDE DEF b, e, str
    <3> QED
      BY <1>1, <1>2, <1>4
  <2>2. i - b + 1 \in 1 .. e - b + 1 /\ b + (i - b + 1) - 1 = i
    BY <1>1, <1>4
  <2>3. str[i - b + 1] = k[i]
    BY <2>1, <2>2
  <2>4. ~ (IsAlphanum(k[i]) \/ k[i] \in {"_", "-"})
    BY <1>4 DEF IsValidKeyChar, KeyChars, IsAlphanum
  <2> HIDE DEF str
  <2> QED
    BY <2>1, <2>2, <2>3, <2>4 DEF IsName
<1> QED
  BY <1>3, <1>4

\* A text that is no valid key has a part that is no name.
LEMMA BadPart ==
  ASSUME NEW S, NEW str \in Seq(S), ~ IsKeyValid(str)
  PROVE  str # <<>> /\ \E place \in PartsOf(str) : ~ IsName(Part(str, place))
<1> DEFINE n == Len(str)
<1>1. n \in Nat
  OBVIOUS
<1>2. (\E i \in 1 .. n : KeyErrorAt(str, i)) \/ (str # <<>> /\ str[n] = ".")
  BY ValidIff
<1>3. ASSUME NEW i \in 1 .. n, ~ IsValidKeyChar(str[i])
      PROVE  \E place \in PartsOf(str) : ~ IsName(Part(str, place))
  <2>1. str[i] # "."
    BY <1>3 DEF IsValidKeyChar, KeyChars
  <2>2. PICK b, e \in Nat : <<b, e>> \in PartsOf(str) /\ b <= i /\ i <= e
    BY <2>1, PartAround
  <2>3. i \in b .. e
    BY <1>1, <2>2
  <2>4. ~ IsName(Part(str, <<b, e>>))
    BY <1>3, <2>2, <2>3, NoName
  <2> QED
    BY <2>2, <2>4
<1>4. ASSUME NEW b \in 1 .. n + 1, b = 1 \/ str[b - 1] = ".",
             b = n + 1 \/ str[b] = "."
      PROVE  \E place \in PartsOf(str) : ~ IsName(Part(str, place))
  <2>1. PICK e \in 0 .. n : <<b, e>> \in PartsOf(str)
    BY <1>4, PartFrom
  <2>2. e < b
    <3> SUFFICES ASSUME b <= e
                 PROVE  FALSE
      BY <1>1, <1>4
    <3>1. b # n + 1 /\ b \in b .. e
      BY <1>1, <1>4
    <3>2. IsPart(str, b, e)
      BY <2>1, PlaceIs
    <3> QED
      BY <1>4, <3>1, <3>2 DEF IsPart
  <2>3. ~ IsName(Part(str, <<b, e>>))
    BY <2>1, <2>2, NoName
  <2> QED
    BY <2>1, <2>3
<1>5. CASE str # <<>> /\ str[n] = "."
  <2>1. n + 1 \in 1 .. n + 1 /\ n + 1 - 1 = n
    BY <1>1
  <2> QED
    BY <1>4, <1>5, <2>1
<1>6. CASE \E i \in 1 .. n : KeyErrorAt(str, i)
  <2>1. PICK i \in 1 .. n : KeyErrorAt(str, i)
    BY <1>6
  <2>2. str # <<>> /\ i \in 1 .. n + 1
    BY <1>1
  <2>3. CASE ~ IsValidKeyChar(str[i])
    BY <1>3, <2>2, <2>3
  <2>4. CASE str[i] = "." /\ (i = 1 \/ str[i - 1] = ".")
    BY <1>4, <2>2, <2>4
  <2> QED
    BY <2>1, <2>3, <2>4 DEF KeyErrorAt
<1> QED
  BY <1>2, <1>5, <1>6

-----------------------------------------------------------------------------
(* Taking keys apart.                                                      *)

\* The loop of Ancestor: it does not begin, as nothing has been counted yet.
LEMMA AncestorIsKey ==
  ASSUME NEW S, NEW k \in Seq(S), NEW offset \in Nat
  PROVE  Ancestor(k, offset) = k
<1> DEFINE Recursion(f) ==
      f = [at \in (0 .. Len(k)) \X Nat |->
             IF at[2] > offset /\ at[1] > 0
               THEN f[<<at[1] - 1, at[2] + IF k[at[1] + 1] = "." THEN 1 ELSE 0>>]
               ELSE at[1]]
<1> DEFINE walk == CHOOSE f : Recursion(f)
<1>1. Ancestor(k, offset) =
        IF k = <<>> THEN <<>> ELSE SubSeq(k, 1, walk[<<Len(k) - 1, 0>>] + 1)
  BY Zenon DEF Ancestor
<1>2. \E f : Recursion(f)
  <2> DEFINE f == [at \in (0 .. Len(k)) \X Nat |-> IF at[2] > offset THEN 0 ELSE at[1]]
  <2>1. ASSUME NEW at \in (0 .. Len(k)) \X Nat
        PROVE  f[at] = IF at[2] > offset /\ at[1] > 0
                         THEN f[<<at[1] - 1, at[2] + IF k[at[1] + 1] = "." THEN 1 ELSE 0>>]
                         ELSE at[1]
    <3> DEFINE more == IF k[at[1] + 1] = "." THEN 1 ELSE 0
    <3>1. at[1] \in 0 .. Len(k) /\ at[2] \in Nat /\ more \in Nat
      OBVIOUS
    <3> HIDE DEF more
    <3>2. f[at] = IF at[2] > offset THEN 0 ELSE at[1]
      OBVIOUS
    <3>3. ASSUME at[2] > offset, at[1] > 0
          PROVE  f[<<at[1] - 1, at[2] + more>>] = 0
      <4>1. <<at[1] - 1, at[2] + more>> \in (0 .. Len(k)) \X Nat
        BY <3>1, <3>3
      <4>2. at[2] + more > offset
        BY <3>1, <3>3
      <4> QED
        BY <4>1, <4>2
    <3> HIDE DEF f
    <3> QED
      BY <3>1, <3>2, <3>3 DEF more
  <2>2. Recursion(f)
    BY <2>1
  <2> QED
    BY <2>2
<1>3. Recursion(walk)
  <2> HIDE DEF Recursion
  <2> QED
    BY <1>2
<1>4. ASSUME k # <<>>
      PROVE  walk[<<Len(k) - 1, 0>>] = Len(k) - 1
  <2>1. <<Len(k) - 1, 0>> \in (0 .. Len(k)) \X Nat /\ ~ (0 > offset)
    BY <1>4
  <2> HIDE DEF walk
  <2> QED
    BY <1>3, <2>1
<1>5. ASSUME k # <<>>
      PROVE  SubSeq(k, 1, Len(k) - 1 + 1) = k
  BY <1>5
<1> HIDE DEF walk
<1> QED
  BY <1>1, <1>4, <1>5

\* The loop of Basename stops at a period, or at the first character.
Stop(k, c) ==
  CHOOSE p \in 0 .. c : /\ p = 0 \/ k[p + 1] = "."
                        /\ \A i \in p + 1 .. c : k[i + 1] # "."

LEMMA StopIs ==
  ASSUME NEW k, NEW c \in Nat
  PROVE  /\ Stop(k, c) \in 0 .. c
         /\ Stop(k, c) = 0 \/ k[Stop(k, c) + 1] = "."
         /\ \A i \in Stop(k, c) + 1 .. c : k[i + 1] # "."
<1> DEFINE ds == {d \in 0 .. c : d = c \/ k[c - d + 1] = "."}
<1>1. PICK d \in ds : \A j \in ds : d <= j
  <2>1. ds \in SUBSET Nat /\ ds # {}
    <3>1. c \in ds
      OBVIOUS
    <3> QED
      BY <3>1
  <2> HIDE DEF ds
  <2> QED
    BY <2>1, Least
<1>2. d \in 0 .. c /\ (d = c \/ k[c - d + 1] = ".") /\ d \in Nat
  OBVIOUS
<1> DEFINE p == c - d
<1>3. p \in 0 .. c /\ (p = 0 \/ k[p + 1] = ".")
  BY <1>2
<1>4. \A i \in p + 1 .. c : k[i + 1] # "."
  <2> SUFFICES ASSUME NEW i \in p + 1 .. c, k[i + 1] = "."
               PROVE  FALSE
    OBVIOUS
  <2>1. c - i \in 0 .. c /\ c - (c - i) = i /\ c - i < d
    BY <1>2
  <2>2. c - i \in ds
    BY <2>1
  <2> QED
    BY <1>1, <1>2, <2>1, <2>2
<1>5. \E q \in 0 .. c : /\ q = 0 \/ k[q + 1] = "."
                        /\ \A i \in q + 1 .. c : k[i + 1] # "."
  <2> HIDE DEF p
  <2> QED
    BY <1>3, <1>4
<1> QED
  BY <1>5, Zenon DEF Stop

LEMMA StopIsOnly ==
  ASSUME NEW k, NEW c \in Nat, NEW p \in 0 .. c, p = 0 \/ k[p + 1] = ".",
         \A i \in p + 1 .. c : k[i + 1] # "."
  PROVE  Stop(k, c) = p
<1> DEFINE q == Stop(k, c)
<1>1. /\ q \in 0 .. c
      /\ q = 0 \/ k[q + 1] = "."
      /\ \A i \in q + 1 .. c : k[i + 1] # "."
  BY StopIs
<1> HIDE DEF q
<1>2. ~ (p < q)
  BY <1>1
<1>3. ~ (q < p)
  BY <1>1
<1> QED
  BY <1>1, <1>2, <1>3 DEF q

\* Stop is the recursion of the loop.
LEMMA StopStep ==
  ASSUME NEW k, NEW c \in Nat
  PROVE  Stop(k, c) = IF k[c + 1] # "." /\ c > 0 THEN Stop(k, c - 1) ELSE c
<1>1. CASE k[c + 1] # "." /\ c > 0
  <2> DEFINE p == Stop(k, c - 1)
  <2>1. c - 1 \in Nat
    BY <1>1
  <2>2. /\ p \in 0 .. c - 1
        /\ p = 0 \/ k[p + 1] = "."
        /\ \A i \in p + 1 .. c - 1 : k[i + 1] # "."
    BY <2>1, StopIs
  <2> HIDE DEF p
  <2>3. p \in 0 .. c /\ \A i \in p + 1 .. c : k[i + 1] # "."
    BY <1>1, <2>1, <2>2
  <2>4. Stop(k, c) = p
    BY <2>2, <2>3, StopIsOnly
  <2> QED
    BY <1>1, <2>4 DEF p
<1>2. CASE ~ (k[c + 1] # "." /\ c > 0)
  <2>1. c \in 0 .. c /\ (c = 0 \/ k[c + 1] = ".") /\ \A i \in c + 1 .. c : k[i + 1] # "."
    BY <1>2
  <2>2. Stop(k, c) = c
    BY <2>1, StopIsOnly
  <2> QED
    BY <1>2, <2>2
<1> QED
  BY <1>1, <1>2

\* The basename is the last part of a key.
LEMMA BasenameIsPart ==
  ASSUME NEW k \in ValidKeys, k # <<>>
  PROVE  \E place \in PartsOf(k) : place[2] = Len(k) /\ Basename(k) = Part(k, place)
<1> DEFINE n == Len(k)
<1> DEFINE Recursion(f) ==
      f = [cursor \in 0 .. n |->
             IF k[cursor + 1] # "." /\ cursor > 0 THEN f[cursor - 1] ELSE cursor]
<1> DEFINE walk == CHOOSE f : Recursion(f)
<1>1. /\ k \in Seq(KeyChars) /\ n \in Nat /\ n >= 1
      /\ \A i \in 1 .. n : k[i] = "." => i > 1 /\ i < n /\ k[i - 1] # "."
  BY ValidKey
<1>2. Basename(k) =
        IF k = <<>> THEN <<>>
        ELSE SubSeq(k, (IF walk[n - 1] > 0 THEN walk[n - 1] + 1 ELSE walk[n - 1]) + 1, n)
  BY Zenon DEF Basename
<1>3. \E f : Recursion(f)
  <2> DEFINE f == [c \in 0 .. n |-> Stop(k, c)]
  <2>1. ASSUME NEW c \in 0 .. n
        PROVE  f[c] = IF k[c + 1] # "." /\ c > 0 THEN f[c - 1] ELSE c
    <3>1. Stop(k, c) = IF k[c + 1] # "." /\ c > 0 THEN Stop(k, c - 1) ELSE c
      BY <1>1, StopStep
    <3>2. c > 0 => c - 1 \in 0 .. n
      BY <1>1
    <3> QED
      BY <3>1, <3>2
  <2>2. Recursion(f)
    BY <2>1
  <2> QED
    BY <2>2
<1>4. Recursion(walk)
  <2> HIDE DEF Recursion
  <2> QED
    BY <1>3
<1> HIDE DEF walk
<1>5. \A c \in 0 .. n : walk[c] = IF k[c + 1] # "." /\ c > 0 THEN walk[c - 1] ELSE c
  BY <1>4
<1>6. \A c \in 0 .. n : walk[c] = Stop(k, c)
  <2> DEFINE bad == {c \in 0 .. n : walk[c] # Stop(k, c)}
  <2> SUFFICES ASSUME bad # {}
               PROVE  FALSE
    OBVIOUS
  <2>1. PICK c \in bad : \A j \in bad : c <= j
    <3>1. bad \in SUBSET Nat
      BY <1>1
    <3> HIDE DEF bad
    <3> QED
      BY <3>1, Least
  <2>2. c \in 0 .. n /\ c \in Nat /\ walk[c] # Stop(k, c)
    BY <1>1
  <2>3. Stop(k, c) = IF k[c + 1] # "." /\ c > 0 THEN Stop(k, c - 1) ELSE c
    BY <2>2, StopStep
  <2>4. c > 0 => walk[c - 1] = Stop(k, c - 1)
    BY <1>1, <2>1, <2>2
  <2> HIDE DEF bad
  <2> QED
    BY <1>5, <2>2, <2>3, <2>4
<1> DEFINE stop == Stop(k, n - 1)
<1>7. /\ stop \in 0 .. n - 1
      /\ stop = 0 \/ k[stop + 1] = "."
      /\ \A i \in stop + 1 .. n - 1 : k[i + 1] # "."
  <2>1. n - 1 \in Nat
    BY <1>1
  <2> QED
    BY <2>1, StopIs
<1> DEFINE b == IF stop > 0 THEN stop + 2 ELSE 1
<1>8. Basename(k) = SubSeq(k, b, n)
  <2>1. walk[n - 1] = stop
    BY <1>1, <1>6
  <2>2. (IF stop > 0 THEN stop + 1 ELSE stop) + 1 = b
    <3>1. stop \in Nat
      BY <1>1, <1>7
    <3> HIDE DEF stop
    <3> QED
      BY <3>1
  <2>3. Basename(k) =
          SubSeq(k, (IF walk[n - 1] > 0 THEN walk[n - 1] + 1 ELSE walk[n - 1]) + 1, n)
    BY <1>2, Zenon
  <2> HIDE DEF stop, n, b
  <2> QED
    BY <2>1, <2>2, <2>3, Zenon
<1> HIDE DEF stop
<1>9. b \in 1 .. n + 1
  BY <1>1, <1>7
<1>10. IsPart(k, b, n)
  <2>1. b <= n + 1
    BY <1>1, <1>9
  <2>2. b = 1 \/ k[b - 1] = "."
    <3>1. stop > 0 => b - 1 = stop + 1
      BY <1>7
    <3> QED
      BY <1>7, <3>1
  <2>3. \A i \in b .. n : k[i] # "."
    <3> SUFFICES ASSUME NEW i \in b .. n, k[i] = "."
                 PROVE  FALSE
      OBVIOUS
    <3>1. i \in 1 .. n /\ i > 1
      BY <1>1, <1>9
    <3>2. i - 1 \in stop + 1 .. n - 1 /\ (i - 1) + 1 = i
      BY <1>1, <1>7, <3>1
    <3> QED
      BY <1>7, <3>2
  <2> HIDE DEF b
  <2> QED
    BY <2>1, <2>2, <2>3 DEF IsPart
<1>11. <<b, n>> \in PartsOf(k)
  <2>1. n \in 0 .. Len(k)
    BY <1>1
  <2> HIDE DEF b
  <2> QED
    BY <1>9, <1>10, <2>1, PlaceOf
<1>12. Part(k, <<b, n>>) = SubSeq(k, b, n)
  BY DEF Part
<1> HIDE DEF b
<1> QED
  BY <1>8, <1>11, <1>12

\* A key has one part more than it has periods.
LEMMA DepthIsParts ==
  ASSUME NEW S, NEW k \in Seq(S)
  PROVE  GetDepth(k) = Cardinality(PartsOf(k))
<1> DEFINE n == Len(k)
<1> DEFINE periods == {i \in 1 .. n : k[i] = "."}
<1> DEFINE starts == periods \union {0}
<1>1. n \in Nat
  OBVIOUS
<1>2. IsFiniteSet(periods) /\ Cardinality(periods) \in Nat
  <2>1. IsFiniteSet(1 .. n)
    BY <1>1, FirstNumbers
  <2>2. periods \subseteq 1 .. n
    OBVIOUS
  <2> HIDE DEF periods
  <2>3. IsFiniteSet(periods)
    BY <2>1, <2>2, FS_Subset
  <2> QED
    BY <2>3, FS_CardinalityType
<1>3. IsFiniteSet(starts) /\ Cardinality(starts) = Cardinality(periods) + 1
  <2>1. 0 \notin periods
    OBVIOUS
  <2> HIDE DEF periods
  <2> QED
    BY <1>2, <2>1, FS_AddElement
<1> DEFINE f == [place \in PartsOf(k) |-> place[1] - 1]
<1>4. f \in [PartsOf(k) -> starts]
  <2> SUFFICES ASSUME NEW place \in PartsOf(k)
               PROVE  place[1] - 1 \in starts
    OBVIOUS
  <2>1. place[1] \in 1 .. n + 1 /\ IsPart(k, place[1], place[2])
    BY PlaceIs
  <2>2. place[1] = 1 \/ k[place[1] - 1] = "."
    BY <2>1 DEF IsPart
  <2> QED
    BY <1>1, <2>1, <2>2
<1>5. \A p, q \in PartsOf(k) : f[p] = f[q] => p = q
  <2> SUFFICES ASSUME NEW p \in PartsOf(k), NEW q \in PartsOf(k), f[p] = f[q]
               PROVE  p = q
    OBVIOUS
  <2>1. p[1] \in Nat /\ q[1] \in Nat
    BY PlaceIs
  <2>2. p[1] = q[1]
    BY <2>1
  <2> QED
    BY <2>2, PartsDiffer
<1>6. \A s \in starts : \E place \in PartsOf(k) : f[place] = s
  <2> SUFFICES ASSUME NEW s \in starts
               PROVE  \E place \in PartsOf(k) : f[place] = s
    OBVIOUS
  <2>1. s + 1 \in 1 .. Len(k) + 1 /\ (s + 1 = 1 \/ k[s + 1 - 1] = ".") /\ s \in Nat
    BY <1>1
  <2>2. PICK e \in 0 .. Len(k) : <<s + 1, e>> \in PartsOf(k)
    BY <2>1, PartFrom
  <2>3. f[<<s + 1, e>>] = s
    BY <2>1, <2>2
  <2> QED
    BY <2>2, <2>3
<1> HIDE DEF f, starts
<1>7. f \in Injection(PartsOf(k), starts)
  BY <1>4, <1>5 DEF Injection, IsInjective
<1>8. f \in Surjection(PartsOf(k), starts)
  BY <1>4, <1>6 DEF Surjection
<1>9. Cardinality(PartsOf(k)) = Cardinality(starts)
  BY <1>3, <1>7, <1>8, FS_Injection
<1>10. GetDepth(k) = 1 + Cardinality(periods)
  BY DEF GetDepth
<1> HIDE DEF periods
<1> QED
  BY <1>2, <1>3, <1>9, <1>10

-----------------------------------------------------------------------------
(* Comparing spans.                                                        *)

\* The sign of strncmp is decided where the texts differ first.
LEMMA FirstDifference ==
  ASSUME NEW k \in Seq(KeyChars), NEW l \in Seq(KeyChars),
         NEW n \in Nat, n <= Len(k), n <= Len(l)
  PROVE  \/ /\ StrNCmp(k, l, n) = 0
            /\ \A i \in 1 .. n : k[i] = l[i]
         \/ \E m \in 1 .. n : /\ k[m] # l[m] /\ \A i \in 1 .. m - 1 : k[i] = l[i]
                              /\ StrNCmp(k, l, n) = IF Code(k[m]) < Code(l[m]) THEN -1 ELSE 1
<1> DEFINE differ == {i \in 1 .. n : k[i] # l[i]}
<1> DEFINE first == CHOOSE i \in differ : \A j \in differ : i <= j
<1>1. StrNCmp(k, l, n) = IF differ = {} THEN 0
                         ELSE IF Code(k[first]) < Code(l[first]) THEN -1 ELSE 1
  BY Zenon DEF StrNCmp
<1>2. CASE differ = {}
  <2>1. \A i \in 1 .. n : k[i] = l[i]
    BY <1>2
  <2> HIDE DEF differ, first
  <2> QED
    BY <1>1, <1>2, <2>1
<1>3. CASE differ # {}
  <2>1. \E i \in differ : \A j \in differ : i <= j
    <3>1. differ \in SUBSET Nat
      OBVIOUS
    <3> HIDE DEF differ
    <3> QED
      BY <1>3, <3>1, Least
  <2>2. first \in differ /\ \A j \in differ : first <= j
    <3> HIDE DEF differ
    <3> QED
      BY <2>1
  <2> HIDE DEF first
  <2>3. first \in 1 .. n /\ k[first] # l[first]
    BY <2>2
  <2>4. \A i \in 1 .. first - 1 : k[i] = l[i]
    BY <2>2, <2>3
  <2>5. StrNCmp(k, l, n) = IF Code(k[first]) < Code(l[first]) THEN -1 ELSE 1
    <3> HIDE DEF differ
    <3> QED
      BY <1>1, <1>3
  <2> HIDE DEF differ
  <2> QED
    BY <2>3, <2>4, <2>5
<1> QED
  BY <1>2, <1>3

\* What strncmp finds before the shorter key ends decides the order.
LEMMA OrderByDifference ==
  ASSUME NEW k \in Seq(KeyChars), NEW l \in Seq(KeyChars), NEW m \in Nat,
         m >= 1, m <= Len(k), m <= Len(l),
         k[m] # l[m], \A i \in 1 .. m - 1 : k[i] = l[i]
  PROVE  KeyBefore(k, l) <=> Code(k[m]) < Code(l[m])
<1>1. /\ Len(k) \in Nat /\ Len(l) \in Nat
      /\ k[m] \in KeyChars /\ l[m] \in KeyChars
  OBVIOUS
<1>2. Code(k[m]) \in Nat /\ Code(l[m]) \in Nat
  BY <1>1, CodeOfChar
<1>3. ASSUME Code(k[m]) < Code(l[m])
      PROVE  KeyBefore(k, l)
  <2>1. Parts(k, l, m - 1)
    BY <1>1, <1>3 DEF Parts
  <2> QED
    BY <1>1, <2>1, BeforeIff
<1>4. ASSUME KeyBefore(k, l)
      PROVE  Code(k[m]) < Code(l[m])
  <2>1. PICK n \in Nat : Parts(k, l, n)
    BY <1>4, BeforeIff
  <2>2. ~ (n < m - 1)
    <3> SUFFICES ASSUME n < m - 1
                 PROVE  FALSE
      OBVIOUS
    <3>1. n + 1 \in 1 .. m - 1 /\ n + 1 \in 1 .. Len(k) /\ n # Len(k)
      BY <1>1, <2>1
    <3>2. k[n + 1] = l[n + 1] /\ k[n + 1] \in KeyChars
      BY <3>1
    <3>3. Code(k[n + 1]) \in Nat
      BY <3>2, CodeOfChar
    <3> QED
      BY <2>1, <3>1, <3>2, <3>3 DEF Parts
  <2>3. ~ (n > m - 1)
    BY <1>1, <2>1 DEF Parts
  <2>4. n = m - 1
    BY <2>1, <2>2, <2>3
  <2> QED
    BY <1>1, <2>1, <2>4 DEF Parts
<1> QED
  BY <1>3, <1>4

\* If there is nothing to find, it is the length that does.
LEMMA OrderByLength ==
  ASSUME NEW k \in Seq(KeyChars), NEW l \in Seq(KeyChars),
         \A i \in Nat : i >= 1 /\ i <= Len(k) /\ i <= Len(l) => k[i] = l[i]
  PROVE  /\ KeyBefore(k, l) <=> Len(k) < Len(l)
         /\ k = l <=> Len(k) = Len(l)
<1>1. Len(k) \in Nat /\ Len(l) \in Nat
  OBVIOUS
<1>2. ASSUME Len(k) < Len(l)
      PROVE  KeyBefore(k, l)
  <2>1. Parts(k, l, Len(k))
    BY <1>1, <1>2 DEF Parts
  <2> QED
    BY <1>1, <2>1, BeforeIff
<1>3. ASSUME KeyBefore(k, l)
      PROVE  Len(k) < Len(l)
  <2>1. PICK n \in Nat : Parts(k, l, n)
    BY <1>3, BeforeIff
  <2>2. CASE n < Len(k)
    <3>1. n + 1 \in Nat /\ n + 1 >= 1 /\ n + 1 <= Len(k) /\ n + 1 <= Len(l)
      BY <1>1, <2>1, <2>2 DEF Parts
    <3>2. k[n + 1] = l[n + 1] /\ k[n + 1] \in KeyChars
      BY <3>1
    <3>3. Code(k[n + 1]) \in Nat
      BY <3>2, CodeOfChar
    <3> QED
      BY <1>1, <2>1, <2>2, <3>2, <3>3 DEF Parts
  <2>3. CASE ~ (n < Len(k))
    BY <1>1, <2>1, <2>3 DEF Parts
  <2> QED
    BY <2>2, <2>3
<1>4. ASSUME Len(k) = Len(l)
      PROVE  k = l
  <2>1. \A i \in 1 .. Len(k) : k[i] = l[i]
    BY <1>1, <1>4
  <2> QED
    BY <1>4, <2>1, KeysEqual
<1> QED
  BY <1>2, <1>3, <1>4

\* The order and the equality of spans are those of keys.
LEMMA SpansCompare ==
  ASSUME NEW k \in Seq(KeyChars), NEW l \in Seq(KeyChars)
  PROVE  /\ SpanBefore(k, l) <=> KeyBefore(k, l)
         /\ SpanEqual(k, l) <=> k = l
<1> DEFINE n == IF Len(k) < Len(l) THEN Len(k) ELSE Len(l)
<1> DEFINE cmp == StrNCmp(k, l, n)
<1>1. Len(k) \in Nat /\ Len(l) \in Nat
  OBVIOUS
<1>2. n \in Nat /\ n <= Len(k) /\ n <= Len(l) /\ (Len(k) = Len(l) => n = Len(k))
  BY <1>1
<1>3. SpanBefore(k, l) <=> IF Len(k) # Len(l) /\ cmp = 0 THEN Len(k) < Len(l) ELSE cmp < 0
  BY Zenon DEF SpanBefore
<1>4. SpanEqual(k, l) <=> Len(k) = Len(l) /\ cmp = 0
  BY <1>2 DEF SpanEqual
<1>5. CASE cmp = 0 /\ \A i \in 1 .. n : k[i] = l[i]
  <2>1. \A i \in Nat : i >= 1 /\ i <= Len(k) /\ i <= Len(l) => k[i] = l[i]
    BY <1>1, <1>5
  <2>2. KeyBefore(k, l) <=> Len(k) < Len(l)
    BY <2>1, OrderByLength
  <2>3. k = l <=> Len(k) = Len(l)
    BY <2>1, OrderByLength
  <2> HIDE DEF cmp, n
  <2> QED
    BY <1>1, <1>3, <1>4, <1>5, <2>2, <2>3
<1>6. CASE \E m \in 1 .. n : /\ k[m] # l[m] /\ \A i \in 1 .. m - 1 : k[i] = l[i]
                             /\ cmp = IF Code(k[m]) < Code(l[m]) THEN -1 ELSE 1
  <2>1. PICK m \in 1 .. n : /\ k[m] # l[m] /\ \A i \in 1 .. m - 1 : k[i] = l[i]
                            /\ cmp = IF Code(k[m]) < Code(l[m]) THEN -1 ELSE 1
    BY <1>6
  <2>2. m \in Nat /\ m >= 1 /\ m <= Len(k) /\ m <= Len(l)
    BY <1>1, <1>2
  <2>3. KeyBefore(k, l) <=> Code(k[m]) < Code(l[m])
    BY <2>1, <2>2, OrderByDifference
  <2>4. k # l
    BY <2>1
  <2>5. cmp # 0 /\ (cmp < 0 <=> Code(k[m]) < Code(l[m]))
    <3> HIDE DEF cmp
    <3> QED
      BY <2>1
  <2> HIDE DEF cmp, n
  <2> QED
    BY <1>3, <1>4, <2>3, <2>4, <2>5
<1> QED
  <2> HIDE DEF n
  <2> QED
    BY <1>2, <1>5, <1>6, FirstDifference

-----------------------------------------------------------------------------
(* The invariant.                                                          *)

\* Both objects hold valid keys.
KeyInv == key \in ValidKeys /\ other \in ValidKeys

\* The first error is in the text, or it is its length.
LEMMA ErrorInText ==
  ASSUME NEW S, NEW str \in Seq(S)
  PROVE  FindKeyError(str) < Len(str) <=> ~ IsKeyValid(str)
<1> DEFINE errors == {i \in 1 .. Len(str) : KeyErrorAt(str, i)}
<1> DEFINE first == CHOOSE i \in errors : \A j \in errors : i <= j
<1>1. Len(str) \in Nat
  OBVIOUS
<1>2. FindKeyError(str) = IF errors # {} THEN first - 1
                          ELSE IF str # <<>> /\ str[Len(str)] = "." THEN Len(str) - 1
                          ELSE Len(str)
  BY Zenon DEF FindKeyError
<1>3. errors # {} => first \in 1 .. Len(str)
  <2>1. errors # {} => \E i \in errors : \A j \in errors : i <= j
    <3>1. errors \in SUBSET Nat
      BY <1>1
    <3> HIDE DEF errors
    <3> QED
      BY <3>1, Least
  <2>2. errors # {} => first \in errors
    <3> HIDE DEF errors
    <3> QED
      BY <2>1
  <2> HIDE DEF first
  <2> QED
    BY <2>2
<1> HIDE DEF errors, first
<1> QED
  BY <1>1, <1>2, <1>3 DEF IsKeyValid

\* The beginning of a key before one of its periods is a key.
LEMMA CutIsKey ==
  ASSUME NEW k \in ValidKeys, NEW end \in 1 .. Len(k) - 1, k[end + 1] = "."
  PROVE  SubSeq(k, 1, end) \in ValidKeys
<1> DEFINE cut == SubSeq(k, 1, end)
<1>1. /\ k \in Seq(KeyChars) /\ Len(k) \in Nat
      /\ \A i \in 1 .. Len(k) : k[i] = "." => i > 1 /\ i < Len(k) /\ k[i - 1] # "."
  BY ValidKey
<1>2. /\ cut \in Seq(KeyChars) /\ Len(cut) = end
      /\ \A i \in 1 .. end : cut[i] = k[i]
  BY <1>1
<1>3. k[end] # "."
  BY <1>1
<1> HIDE DEF cut
<1>4. \A i \in 1 .. Len(cut) : cut[i] = "." => i > 1 /\ i < Len(cut) /\ cut[i - 1] # "."
  <2> SUFFICES ASSUME NEW i \in 1 .. end, cut[i] = "."
               PROVE  i > 1 /\ i < end /\ cut[i - 1] # "."
    BY <1>2
  <2>1. k[i] = "." /\ i \in 1 .. Len(k)
    BY <1>1, <1>2
  <2>2. i > 1 /\ k[i - 1] # "." /\ i # end
    BY <1>1, <1>3, <2>1
  <2> QED
    BY <1>2, <2>2
<1>5. cut \in ValidKeys
  BY <1>2, <1>4, ValidKey
<1> QED
  BY <1>5 DEF cut

LEMMA InitHolds ==
  ASSUME Init
  PROVE  KeyInv
BY EmptyKeyIsValid DEF Init, KeyInv

\* Names are sequences of characters.
LEMMA ListsOfNames ==
  ASSUME NEW list \in Lists
  PROVE  list \in Seq(Seq(Characters))
<1>1. PICK m \in 0 .. MaxNames : list \in [1 .. m -> Names]
  BY DEF Lists, BoundedSeq, SeqOf
<1>2. m \in Nat
  BY MaxNamesAssumption
<1>3. \A s \in Names : s \in Seq(Characters)
  <2> SUFFICES ASSUME NEW s \in Names
               PROVE  s \in Seq(Characters)
    OBVIOUS
  <2>1. s \in Seq(STRING)
    BY NamesAssumption
  <2> QED
    BY <2>1 DEF Characters
<1>4. list \in [1 .. m -> Seq(Characters)]
  BY <1>1, <1>3
<1> QED
  BY <1>2, <1>4

\* The constructor throws if the names do not make a valid key.
LEMMA ListIsChecked ==
  ASSUME NEW list \in Lists, FromList(list)
  PROVE  /\ Join(list) \in Seq(Characters)
         /\ IF IsKeyValid(Join(list)) THEN ~ thrown' /\ key' = Join(list)
                                      ELSE thrown' /\ key' = key
         /\ other' = other
<1> DEFINE str == Join(list)
<1>1. list \in Seq(Seq(Characters))
  BY ListsOfNames
<1>2. str \in Seq(Characters)
  BY <1>1, JoinIsText
<1>3. /\ other' = other
      /\ thrown' <=> FindKeyError(str) < Len(str)
      /\ key' = IF thrown' THEN key ELSE str
  BY DEF FromList
<1> HIDE DEF str
<1>4. thrown' <=> ~ IsKeyValid(str)
  BY <1>2, <1>3, ErrorInText
<1> QED
  BY <1>2, <1>3, <1>4 DEF str

LEMMA StepKeeps ==
  ASSUME KeyInv, [Next]_vars
  PROVE  KeyInv'
<1>1. ASSUME NEW list \in Lists, FromList(list)
      PROVE  KeyInv'
  <2>1. /\ Join(list) \in Seq(Characters) /\ other' = other
        /\ key' = key \/ (IsKeyValid(Join(list)) /\ key' = Join(list))
    BY <1>1, ListIsChecked
  <2> QED
    BY <2>1, ValidText DEF KeyInv
<1>2. CASE Copy
  BY <1>2 DEF Copy, KeyInv
<1>3. ASSUME NEW end \in 1 .. Len(key) - 1, Cut(end)
      PROVE  KeyInv'
  BY <1>3, CutIsKey DEF Cut, KeyInv
<1>4. CASE UNCHANGED vars
  BY <1>4 DEF KeyInv, vars
<1> QED
  BY <1>1, <1>2, <1>3, <1>4 DEF Next

\* Both objects hold valid keys, however they are built, copied and cut off.
LEMMA InvariantHolds == Spec => []KeyInv
<1>1. Init => KeyInv
  BY InitHolds
<1>2. KeyInv /\ [Next]_vars => KeyInv'
  BY StepKeeps
<1> QED
  BY <1>1, <1>2, PTL DEF Spec

-----------------------------------------------------------------------------
(* The theorems.                                                           *)

\* A Key constructor (findKeyError) throws exactly for lists that do not spell
\* a sequence of names, and what it was to be assigned to is then as it was,
\* whatever the names are; only the empty key is accepted and spells none.
THEOREM ConstructorsCheckNames == Spec => ThrowsUnlessNames
<1>1. ASSUME NEW list \in Lists, FromList(list)
      PROVE  IF Join(list) = <<>> \/ IsSpelled(Join(list))
               THEN ~ thrown' /\ key' = Join(list)
               ELSE thrown' /\ key' = key
  <2> DEFINE str == Join(list)
  <2>1. /\ str \in Seq(Characters)
        /\ IF IsKeyValid(str) THEN ~ thrown' /\ key' = str ELSE thrown' /\ key' = key
    BY <1>1, ListIsChecked
  <2> HIDE DEF str
  <2>2. IsKeyValid(str) <=> (str = <<>> \/ IsSpelled(str))
    <3>1. CASE ~ IsKeyValid(str)
      BY <2>1, <3>1, BadPart DEF IsSpelled
    <3>2. CASE IsKeyValid(str)
      <4>1. str \in ValidKeys
        BY <2>1, <3>2, ValidText
      <4> QED
        BY <3>2, <4>1, PartOfKeyIsName DEF IsSpelled
    <3> QED
      BY <3>1, <3>2
  <2> QED
    BY <2>1, <2>2 DEF str
<1>2. [Next]_vars =>
        [\A list \in Lists : FromList(list) =>
           LET str == Join(list)
           IN  IF str = <<>> \/ IsSpelled(str) THEN ~ thrown' /\ key' = str
                                              ELSE thrown' /\ key' = key]_vars
  BY <1>1, Zenon
<1> QED
  BY <1>2, PTL DEF Spec, ThrowsUnlessNames

\* basename, getDepth and ancestor agree with the names a key is made of, for
\* keys of any length and depth.
THEOREM KeysAreTheirParts == Spec => []PartsAreNames
<1>1. KeyInv => PartsAreNames
  <2> SUFFICES ASSUME KeyInv, NEW k \in {key, other} \ {<<>>}
               PROVE  /\ IsSpelled(k)
                      /\ \E place \in PartsOf(k) :
                           place[2] = Len(k) /\ Basename(k) = Part(k, place)
                      /\ GetDepth(k) = Cardinality(PartsOf(k))
                      /\ \A offset \in 0 .. Len(k) : Ancestor(k, offset) = k
    BY Zenon DEF PartsAreNames
  <2>1. k \in ValidKeys /\ k # <<>> /\ k \in Seq(KeyChars)
    BY ValidKey DEF KeyInv
  <2>2. IsSpelled(k)
    BY <2>1, PartOfKeyIsName DEF IsSpelled
  <2>3. \E place \in PartsOf(k) : place[2] = Len(k) /\ Basename(k) = Part(k, place)
    BY <2>1, BasenameIsPart
  <2>4. GetDepth(k) = Cardinality(PartsOf(k))
    BY <2>1, DepthIsParts
  <2>5. \A offset \in 0 .. Len(k) : Ancestor(k, offset) = k
    BY <2>1, AncestorIsKey
  <2> QED
    BY <2>2, <2>3, <2>4, <2>5
<1> QED
  BY <1>1, InvariantHolds, PTL

\* The operators of KeySpan (strncmp) order spans as std::less orders the keys
\* of the map, and the order is total, for keys of any length.
THEOREM SpansOrderedAsKeys == Spec => []SpansCompareAsKeys
<1>1. KeyInv => SpansCompareAsKeys
  <2> SUFFICES ASSUME KeyInv
               PROVE  SpansCompareAsKeys
    OBVIOUS
  <2>1. key \in Seq(KeyChars) /\ other \in Seq(KeyChars)
    BY ValidKey DEF KeyInv
  <2>2. (SpanBefore(key, other) <=> KeyBefore(key, other))
        /\ (SpanEqual(key, other) <=> key = other)
    BY <2>1, SpansCompare
  <2>3. KeyBefore(key, other) \/ KeyBefore(other, key) \/ key = other
    BY <2>1, BeforeTotal
  <2>4. ~ (KeyBefore(key, other) /\ KeyBefore(other, key))
    BY <2>1, BeforeTransitive, BeforeIrreflexive
  <2> QED
    BY <2>2, <2>3, <2>4, Zenon DEF SpansCompareAsKeys
<1> QED
  BY <1>1, InvariantHolds, PTL

=============================================================================
