-------------------------------- MODULE Facts --------------------------------
(***************************************************************************)
(* Facts about the operators the models are built from, which the proofs   *)
(* cite: which sequences of characters are keys, what joining two of them  *)
(* gives, that the order of the keys is a strict total order; the levels   *)
(* of a key as a sequence of names, and the tree of a set of keys; how a   *)
(* reader counts lines, and what one call of fwdOrEof does to it.          *)
(***************************************************************************)
EXTENDS Keys, Readers, KeyTree, FiniteSetTheorems, SequenceTheorems,
        WellFoundedInduction, TLAPS

\* Every non-empty set of naturals has a least element.  Induction over the
\* length of a sequence is the least counterexample to it.
LEMMA Least ==
  ASSUME NEW S \in SUBSET Nat, S # {}
  PROVE  \E m \in S : \A n \in S : m <= n
<1> DEFINE R == OpToRel(<, Nat)
<1>1. IsWellFoundedOn(R, Nat)
  BY NatLessThanWellFounded
<1>2. \A i, j \in Nat : <<i, j>> \notin R => j <= i
  BY DEF OpToRel
<1> HIDE DEF R
<1>3. \E m \in S : \A n \in S : ~ (<<n, m>> \in R)
  BY <1>1, WFMin
<1> QED
  BY <1>2, <1>3

(***************************************************************************)
(* Which sequences of characters are keys.                                 *)
(***************************************************************************)

\* findKeyError returns the length exactly if no character is an error and
\* no period is the last one.
LEMMA ValidIff ==
  ASSUME NEW S, NEW s \in Seq(S)
  PROVE  IsKeyValid(s) <=> /\ \A i \in 1 .. Len(s) : ~ KeyErrorAt(s, i)
                           /\ s # <<>> => s[Len(s)] # "."
<1> DEFINE errors == {i \in 1 .. Len(s) : KeyErrorAt(s, i)}
<1> DEFINE first == CHOOSE i \in errors : \A j \in errors : i <= j
<1>1. FindKeyError(s) =
        IF errors # {} THEN first - 1
        ELSE IF s # <<>> /\ s[Len(s)] = "." THEN Len(s) - 1 ELSE Len(s)
  BY DEF FindKeyError
<1>2. Len(s) \in Nat /\ (s # <<>> => Len(s) > 0)
  OBVIOUS
<1>3. CASE errors # {}
  <2>1. \E i \in errors : \A j \in errors : i <= j
    <3>1. errors \in SUBSET Nat
      BY <1>2
    <3> HIDE DEF errors
    <3> QED
      BY <1>3, <3>1, Least
  <2>2. first \in errors
    <3> HIDE DEF errors
    <3> QED
      BY <2>1
  <2>3. first \in 1 .. Len(s)
    BY <2>2
  <2> HIDE DEF first
  <2>4. first - 1 # Len(s)
    BY <1>2, <2>3
  <2>5. ~ IsKeyValid(s)
    BY <1>1, <1>3, <2>4 DEF IsKeyValid
  <2> QED
    BY <1>3, <2>5
<1>4. CASE errors = {}
  <2>1. \A i \in 1 .. Len(s) : ~ KeyErrorAt(s, i)
    BY <1>4
  <2>2. FindKeyError(s) = IF s # <<>> /\ s[Len(s)] = "." THEN Len(s) - 1 ELSE Len(s)
    BY <1>1, <1>4
  <2> QED
    BY <1>2, <2>1, <2>2 DEF IsKeyValid
<1> QED
  BY <1>3, <1>4

\* A valid key, character by character.
LEMMA ValidKey ==
  ASSUME NEW k
  PROVE  k \in ValidKeys <=>
           /\ k \in Seq(KeyChars)
           /\ \A i \in 1 .. Len(k) : k[i] = "." => i > 1 /\ i < Len(k) /\ k[i - 1] # "."
<1> SUFFICES ASSUME k \in Seq(KeyChars)
             PROVE  IsKeyValid(k) <=>
                      \A i \in 1 .. Len(k) :
                        k[i] = "." => i > 1 /\ i < Len(k) /\ k[i - 1] # "."
  BY DEF ValidKeys
<1>1. \A i \in 1 .. Len(k) : IsValidKeyChar(k[i])
  BY DEF IsValidKeyChar
<1>2. k # <<>> <=> Len(k) > 0
  OBVIOUS
<1> QED
  BY <1>1, <1>2, ValidIff DEF KeyErrorAt

LEMMA EmptyKeyIsValid == <<>> \in ValidKeys
<1> DEFINE e == <<>>
<1>1. e \in Seq(KeyChars) /\ Len(e) = 0
  OBVIOUS
<1> HIDE DEF e
<1>2. \A i \in 1 .. Len(e) : FALSE
  BY <1>1
<1>3. e \in ValidKeys
  BY <1>1, <1>2, ValidKey
<1> QED
  BY <1>3 DEF e

\* Only key characters are in a text that isKeyValid accepts.
LEMMA ValidText ==
  ASSUME NEW S, NEW s \in Seq(S), IsKeyValid(s)
  PROVE  s \in ValidKeys
<1>1. \A i \in 1 .. Len(s) : IsValidKeyChar(s[i])
  BY ValidIff DEF KeyErrorAt
<1>2. s \in Seq(KeyChars)
  BY <1>1 DEF IsValidKeyChar
<1> QED
  BY <1>2 DEF ValidKeys

\* The joined key: the group, a period, the key.
LEMMA JoinedKey ==
  ASSUME NEW S, NEW g \in Seq(S), NEW k \in Seq(S), "." \in S
  PROVE  /\ JoinKeys(g, k) \in Seq(S)
         /\ Len(JoinKeys(g, k)) = Len(g) + 1 + Len(k)
         /\ \A i \in 1 .. Len(g) + 1 + Len(k) :
              JoinKeys(g, k)[i] = IF i <= Len(g) THEN g[i]
                                  ELSE IF i = Len(g) + 1 THEN "."
                                  ELSE k[i - (Len(g) + 1)]
<1> DEFINE h == g \o <<".">>
<1>1. /\ h \in Seq(S) /\ Len(h) = Len(g) + 1
      /\ \A i \in 1 .. Len(g) + 1 : h[i] = IF i <= Len(g) THEN g[i] ELSE "."
  OBVIOUS
<1>2. JoinKeys(g, k) = h \o k
  BY DEF JoinKeys
<1> HIDE DEF h
<1>3. /\ h \o k \in Seq(S) /\ Len(h \o k) = Len(h) + Len(k)
      /\ \A i \in 1 .. Len(h) + Len(k) :
           (h \o k)[i] = IF i <= Len(h) THEN h[i] ELSE k[i - Len(h)]
  BY <1>1
<1>4. Len(g) \in Nat /\ Len(k) \in Nat
  OBVIOUS
<1> QED
  BY <1>1, <1>2, <1>3, <1>4

\* The keys of a group are told apart by what follows the group's name.
LEMMA JoinInjective ==
  ASSUME NEW S, NEW g \in Seq(S), NEW k \in Seq(S), NEW l \in Seq(S), "." \in S,
         JoinKeys(g, k) = JoinKeys(g, l)
  PROVE  k = l
<1>1. /\ Len(JoinKeys(g, k)) = Len(g) + 1 + Len(k)
      /\ \A i \in 1 .. Len(g) + 1 + Len(k) :
           JoinKeys(g, k)[i] = IF i <= Len(g) THEN g[i]
                               ELSE IF i = Len(g) + 1 THEN "."
                               ELSE k[i - (Len(g) + 1)]
  BY JoinedKey
<1>2. /\ Len(JoinKeys(g, l)) = Len(g) + 1 + Len(l)
      /\ \A i \in 1 .. Len(g) + 1 + Len(l) :
           JoinKeys(g, l)[i] = IF i <= Len(g) THEN g[i]
                               ELSE IF i = Len(g) + 1 THEN "."
                               ELSE l[i - (Len(g) + 1)]
  BY JoinedKey
<1>3. Len(g) \in Nat /\ Len(k) \in Nat /\ Len(l) \in Nat
  OBVIOUS
<1>4. Len(k) = Len(l)
  BY <1>1, <1>2, <1>3
<1>5. ASSUME NEW i \in 1 .. Len(k) PROVE k[i] = l[i]
  <2>1. Len(g) + 1 + i \in 1 .. Len(g) + 1 + Len(k)
    BY <1>3
  <2>2. (Len(g) + 1 + i) - (Len(g) + 1) = i /\ Len(g) + 1 + i > Len(g) + 1
    BY <1>3
  <2>3. JoinKeys(g, k)[Len(g) + 1 + i] = k[i]
    BY <1>1, <1>3, <2>1, <2>2
  <2>4. JoinKeys(g, l)[Len(g) + 1 + i] = l[i]
    <3>1. Len(g) + 1 + i \in 1 .. Len(g) + 1 + Len(l)
      BY <1>4, <2>1
    <3> QED
      BY <1>2, <1>3, <2>2, <3>1
  <2> QED
    BY <2>3, <2>4
<1> QED
  BY <1>4, <1>5

\* Joining two keys that are not empty gives a key, and nothing else does.
LEMMA JoinIsValid ==
  ASSUME NEW g \in ValidKeys, NEW k \in ValidKeys
  PROVE  JoinKeys(g, k) \in ValidKeys <=> g # <<>> /\ k # <<>>
<1> DEFINE j == JoinKeys(g, k)
<1>1. "." \in KeyChars
  BY DEF KeyChars
<1>2. g \in Seq(KeyChars) /\ k \in Seq(KeyChars)
  BY ValidKey
<1>3. /\ \A i \in 1 .. Len(g) : g[i] = "." => i > 1 /\ i < Len(g) /\ g[i - 1] # "."
      /\ \A i \in 1 .. Len(k) : k[i] = "." => i > 1 /\ i < Len(k) /\ k[i - 1] # "."
  BY ValidKey
<1>4. Len(g) \in Nat /\ Len(k) \in Nat
      /\ (g = <<>> <=> Len(g) = 0) /\ (k = <<>> <=> Len(k) = 0)
  BY <1>2
<1>5. /\ j \in Seq(KeyChars) /\ Len(j) = Len(g) + 1 + Len(k)
      /\ \A i \in 1 .. Len(g) + 1 + Len(k) :
           j[i] = IF i <= Len(g) THEN g[i]
                  ELSE IF i = Len(g) + 1 THEN "." ELSE k[i - (Len(g) + 1)]
  BY <1>1, <1>2, JoinedKey
<1> HIDE DEF j
<1>6. ASSUME g # <<>>, k # <<>> PROVE j \in ValidKeys
  <2>1. ASSUME NEW i \in 1 .. Len(g) + 1 + Len(k), j[i] = "."
        PROVE  i > 1 /\ i < Len(j) /\ j[i - 1] # "."
    <3>1. CASE i <= Len(g)
      <4>1. i \in 1 .. Len(g) /\ g[i] = "."
        BY <1>4, <1>5, <2>1, <3>1
      <4>2. i > 1 /\ i < Len(g) /\ g[i - 1] # "."
        BY <1>3, <4>1
      <4>3. i - 1 \in 1 .. Len(g) + 1 + Len(k) /\ i - 1 <= Len(g)
        BY <1>4, <4>2
      <4> QED
        BY <1>4, <1>5, <4>2, <4>3
    <3>2. CASE i = Len(g) + 1
      <4>1. Len(g) \in 1 .. Len(g) /\ Len(k) > 0
        BY <1>4, <1>6
      <4>2. g[Len(g)] # "."
        BY <1>3, <1>4, <4>1
      <4> QED
        BY <1>4, <1>5, <3>2, <4>1, <4>2
    <3>3. CASE i > Len(g) + 1
      <4> DEFINE n == i - (Len(g) + 1)
      <4>1. n \in 1 .. Len(k) /\ k[n] = "."
        BY <1>4, <1>5, <2>1, <3>3
      <4>2. n > 1 /\ n < Len(k) /\ k[n - 1] # "."
        BY <1>3, <4>1
      <4>3. i - 1 \in 1 .. Len(g) + 1 + Len(k) /\ i - 1 > Len(g) + 1
        BY <1>4, <4>2
      <4>4. (i - 1) - (Len(g) + 1) = n - 1
        BY <1>4
      <4>5. j[i - 1] = k[n - 1]
        BY <1>4, <1>5, <4>3, <4>4
      <4> QED
        BY <1>4, <1>5, <4>2, <4>5
    <3> QED
      BY <1>4, <3>1, <3>2, <3>3
  <2> QED
    BY <1>5, <2>1, ValidKey
<1>7. ASSUME j \in ValidKeys PROVE g # <<>> /\ k # <<>>
  <2>1. Len(g) + 1 \in 1 .. Len(j) /\ j[Len(g) + 1] = "."
    BY <1>4, <1>5
  <2>2. Len(g) + 1 > 1 /\ Len(g) + 1 < Len(j)
    BY <1>7, <2>1, ValidKey
  <2> QED
    BY <1>4, <1>5, <2>2
<1> QED
  BY <1>6, <1>7 DEF j

(***************************************************************************)
(* The order of the keys.                                                  *)
(***************************************************************************)

\* Every key character has a place in the order, and its own.
LEMMA CodeOfChar ==
  ASSUME NEW c \in KeyChars
  PROVE  Code(c) \in Nat /\ CharOrder[Code(c)] = c
<1>1. Len(CharOrder) = 40
  BY DEF CharOrder
<1>2. CharOrder[2] = "-" /\ CharOrder[3] = "." /\ CharOrder[14] = "_"
  BY DEF CharOrder
<1>3. /\ CharOrder[4] = "0" /\ CharOrder[5] = "1" /\ CharOrder[6] = "2" /\ CharOrder[7] = "3"
      /\ CharOrder[8] = "4" /\ CharOrder[9] = "5" /\ CharOrder[10] = "6" /\ CharOrder[11] = "7"
      /\ CharOrder[12] = "8" /\ CharOrder[13] = "9"
  BY DEF CharOrder
<1>4. /\ CharOrder[15] = "a" /\ CharOrder[16] = "b" /\ CharOrder[17] = "c" /\ CharOrder[18] = "d"
      /\ CharOrder[19] = "e" /\ CharOrder[20] = "f" /\ CharOrder[21] = "g" /\ CharOrder[22] = "h"
      /\ CharOrder[23] = "i" /\ CharOrder[24] = "j" /\ CharOrder[25] = "k" /\ CharOrder[26] = "l"
      /\ CharOrder[27] = "m" /\ CharOrder[28] = "n" /\ CharOrder[29] = "o" /\ CharOrder[30] = "p"
      /\ CharOrder[31] = "q" /\ CharOrder[32] = "r" /\ CharOrder[33] = "s" /\ CharOrder[34] = "t"
      /\ CharOrder[35] = "u" /\ CharOrder[36] = "v" /\ CharOrder[37] = "w" /\ CharOrder[38] = "x"
      /\ CharOrder[39] = "y" /\ CharOrder[40] = "z"
  BY DEF CharOrder
<1>5. \E i \in 1 .. 40 : CharOrder[i] = c
  <2>1. CASE c \in Digits
    BY <1>3, <2>1 DEF Digits
  <2>2. CASE c \in Letters
    BY <1>4, <2>2 DEF Letters
  <2>3. CASE c \in {"_", "-", "."}
    <3>1. 2 \in 1 .. 40 /\ 3 \in 1 .. 40 /\ 14 \in 1 .. 40
      OBVIOUS
    <3> QED
      BY <1>2, <2>3, <3>1
  <2> QED
    BY <2>1, <2>2, <2>3 DEF KeyChars
<1> QED
  BY <1>1, <1>5 DEF Code

LEMMA CodesDiffer ==
  ASSUME NEW c \in KeyChars, NEW d \in KeyChars, c # d
  PROVE  Code(c) < Code(d) \/ Code(d) < Code(c)
BY CodeOfChar

\* A key comes before another at position n: they agree up to there, and there
\* it ends or has the smaller character.
Parts(k, l, n) ==
  /\ n <= Len(k) /\ n < Len(l)
  /\ \A i \in 1 .. n : k[i] = l[i]
  /\ n = Len(k) \/ Code(k[n + 1]) < Code(l[n + 1])

LEMMA BeforeIff ==
  ASSUME NEW S, NEW k \in Seq(S), NEW l \in Seq(S)
  PROVE  KeyBefore(k, l) <=> \E n \in Nat : Parts(k, l, n)
<1>1. Len(k) \in Nat /\ Len(l) \in Nat
  OBVIOUS
<1>2. ASSUME NEW n \in Nat, n <= Len(k), n <= Len(l)
      PROVE  SubSeq(k, 1, n) = SubSeq(l, 1, n) <=> \A i \in 1 .. n : k[i] = l[i]
  <2>1. /\ SubSeq(k, 1, n) \in Seq(S) /\ Len(SubSeq(k, 1, n)) = n
        /\ \A i \in 1 .. n : SubSeq(k, 1, n)[i] = k[i]
    BY <1>1, <1>2
  <2>2. /\ SubSeq(l, 1, n) \in Seq(S) /\ Len(SubSeq(l, 1, n)) = n
        /\ \A i \in 1 .. n : SubSeq(l, 1, n)[i] = l[i]
    BY <1>1, <1>2
  <2> QED
    BY <2>1, <2>2
<1>3. ASSUME KeyBefore(k, l) PROVE \E n \in Nat : Parts(k, l, n)
  <2>1. PICK n \in 0 .. Len(k) :
          /\ n <= Len(l) /\ SubSeq(k, 1, n) = SubSeq(l, 1, n)
          /\ IF n = Len(k) THEN n < Len(l)
                           ELSE n < Len(l) /\ Code(k[n + 1]) < Code(l[n + 1])
    BY <1>3 DEF KeyBefore
  <2>2. n \in Nat /\ n <= Len(k) /\ \A i \in 1 .. n : k[i] = l[i]
    BY <1>1, <1>2, <2>1
  <2> QED
    BY <2>1, <2>2 DEF Parts
<1>4. ASSUME NEW n \in Nat, Parts(k, l, n) PROVE KeyBefore(k, l)
  <2>1. n \in 0 .. Len(k) /\ n <= Len(l) /\ n < Len(l)
    BY <1>1, <1>4 DEF Parts
  <2>2. SubSeq(k, 1, n) = SubSeq(l, 1, n)
    BY <1>2, <1>4, <2>1 DEF Parts
  <2>3. n = Len(k) \/ Code(k[n + 1]) < Code(l[n + 1])
    BY <1>4 DEF Parts
  <2> QED
    BY <2>1, <2>2, <2>3 DEF KeyBefore
<1> QED
  BY <1>3, <1>4

LEMMA BeforeIrreflexive ==
  ASSUME NEW k \in Seq(KeyChars)
  PROVE  ~ KeyBefore(k, k)
<1> SUFFICES ASSUME NEW n \in Nat, Parts(k, k, n) PROVE FALSE
  BY BeforeIff
<1>1. n + 1 \in 1 .. Len(k) /\ n < Len(k)
  BY DEF Parts
<1>2. k[n + 1] \in KeyChars
  BY <1>1
<1>3. Code(k[n + 1]) \in Nat /\ Code(k[n + 1]) < Code(k[n + 1])
  BY <1>1, <1>2, CodeOfChar DEF Parts
<1> QED
  BY <1>3

LEMMA BeforeTransitive ==
  ASSUME NEW k \in Seq(KeyChars), NEW l \in Seq(KeyChars), NEW m \in Seq(KeyChars),
         KeyBefore(k, l), KeyBefore(l, m)
  PROVE  KeyBefore(k, m)
<1>1. PICK a \in Nat : Parts(k, l, a)
  BY BeforeIff
<1>2. PICK b \in Nat : Parts(l, m, b)
  BY BeforeIff
<1>3. Len(k) \in Nat /\ Len(l) \in Nat /\ Len(m) \in Nat
  OBVIOUS
<1>4. CASE a < b
  <2>1. Parts(k, m, a)
    <3>1. a + 1 \in 1 .. b
      BY <1>4
    <3>2. l[a + 1] = m[a + 1]
      BY <1>2, <3>1 DEF Parts
    <3> QED
      BY <1>1, <1>2, <1>3, <1>4, <3>2 DEF Parts
  <2> QED
    BY <2>1, BeforeIff
<1>5. CASE b < a
  <2>1. Parts(k, m, b)
    <3>1. b + 1 \in 1 .. a
      BY <1>5
    <3>2. k[b + 1] = l[b + 1] /\ b < Len(k) /\ b # Len(l)
      BY <1>1, <1>3, <1>5, <3>1 DEF Parts
    <3> QED
      BY <1>1, <1>2, <1>3, <1>5, <3>2 DEF Parts
  <2> QED
    BY <2>1, BeforeIff
<1>6. CASE a = b
  <2>1. Parts(k, m, a)
    <3>1. a + 1 \in 1 .. Len(l) /\ a + 1 \in 1 .. Len(m) /\ a # Len(l)
      BY <1>1, <1>2, <1>3, <1>6 DEF Parts
    <3>2. Code(l[a + 1]) \in Nat /\ Code(m[a + 1]) \in Nat /\ Code(l[a + 1]) < Code(m[a + 1])
      BY <1>2, <1>6, <3>1, CodeOfChar DEF Parts
    <3>3. a = Len(k) \/ Code(k[a + 1]) < Code(m[a + 1])
      <4>1. CASE a # Len(k)
        <5>1. a + 1 \in 1 .. Len(k)
          BY <1>1, <1>3, <4>1 DEF Parts
        <5>2. Code(k[a + 1]) \in Nat /\ Code(k[a + 1]) < Code(l[a + 1])
          BY <1>1, <4>1, <5>1, CodeOfChar DEF Parts
        <5> QED
          BY <3>2, <5>2
      <4> QED
        BY <4>1
    <3> QED
      BY <1>1, <1>2, <1>6, <3>3 DEF Parts
  <2> QED
    BY <2>1, BeforeIff
<1> QED
  BY <1>4, <1>5, <1>6

LEMMA BeforeTotal ==
  ASSUME NEW k \in Seq(KeyChars), NEW l \in Seq(KeyChars), k # l
  PROVE  KeyBefore(k, l) \/ KeyBefore(l, k)
<1> DEFINE differ == {n \in Nat : /\ n <= Len(k) /\ n <= Len(l)
                                  /\ \/ n = Len(k) \/ n = Len(l)
                                     \/ k[n + 1] # l[n + 1]}
<1>1. Len(k) \in Nat /\ Len(l) \in Nat
  OBVIOUS
<1>2. differ # {}
  <2>1. CASE Len(k) <= Len(l)
    BY <1>1, <2>1
  <2>2. CASE Len(l) <= Len(k)
    BY <1>1, <2>2
  <2> QED
    BY <1>1, <2>1, <2>2
<1>3. PICK n \in differ : \A i \in differ : n <= i
  <2>1. differ \in SUBSET Nat
    OBVIOUS
  <2> HIDE DEF differ
  <2> QED
    BY <1>2, <2>1, Least
<1>4. /\ n \in Nat /\ n <= Len(k) /\ n <= Len(l)
      /\ n = Len(k) \/ n = Len(l) \/ k[n + 1] # l[n + 1]
  BY <1>3
<1>5. \A i \in 1 .. n : k[i] = l[i]
  <2> SUFFICES ASSUME NEW i \in 1 .. n, k[i] # l[i] PROVE FALSE
    OBVIOUS
  <2>1. i - 1 \in Nat /\ i - 1 <= Len(k) /\ i - 1 <= Len(l) /\ (i - 1) + 1 = i
    BY <1>1, <1>4
  <2>2. i - 1 \in differ
    BY <2>1
  <2> HIDE DEF differ
  <2> QED
    BY <1>3, <1>4, <2>1, <2>2
<1> HIDE DEF differ
<1>6. CASE n = Len(k) /\ n = Len(l)
  <2>1. Len(k) = Len(l) /\ \A i \in 1 .. Len(k) : k[i] = l[i]
    BY <1>5, <1>6
  <2>2. k = l
    BY <2>1
  <2> QED
    BY <2>2
<1>7. CASE n = Len(k) /\ n < Len(l)
  BY <1>4, <1>5, <1>7, BeforeIff DEF Parts
<1>8. CASE n = Len(l) /\ n < Len(k)
  BY <1>4, <1>5, <1>8, BeforeIff DEF Parts
<1>9. CASE n < Len(k) /\ n < Len(l)
  <2>1. k[n + 1] # l[n + 1] /\ k[n + 1] \in KeyChars /\ l[n + 1] \in KeyChars
    BY <1>1, <1>4, <1>9
  <2>2. Code(k[n + 1]) < Code(l[n + 1]) \/ Code(l[n + 1]) < Code(k[n + 1])
    BY <2>1, CodesDiffer
  <2>3. Parts(k, l, n) \/ Parts(l, k, n)
    BY <1>4, <1>5, <1>9, <2>2 DEF Parts
  <2> QED
    BY <1>4, <2>3, BeforeIff
<1> QED
  BY <1>1, <1>4, <1>6, <1>7, <1>8, <1>9

(***************************************************************************)
(* Levels of a key.                                                        *)
(***************************************************************************)

\* A level of a key is a key of that many names, the first ones of the key.
LEMMA LevelIsPrefix ==
  ASSUME NEW S, NEW k \in Seq(S), NEW n \in 0 .. Len(k)
  PROVE  /\ Level(k, n) \in Seq(S)
         /\ Len(Level(k, n)) = n
         /\ \A i \in 1 .. n : Level(k, n)[i] = k[i]
BY DEF Level

\* Two keys of the same length and the same names are equal.
LEMMA KeysEqual ==
  ASSUME NEW S, NEW k \in Seq(S), NEW l \in Seq(S), Len(k) = Len(l),
         \A i \in 1 .. Len(k) : k[i] = l[i]
  PROVE  k = l
OBVIOUS

\* A level of a level is a level; the last level is the key.
LEMMA LevelOfLevel ==
  ASSUME NEW S, NEW k \in Seq(S), NEW n \in 0 .. Len(k), NEW m \in 0 .. n
  PROVE  Level(Level(k, n), m) = Level(k, m)
<1>1. /\ Level(k, n) \in Seq(S) /\ Len(Level(k, n)) = n
      /\ \A i \in 1 .. n : Level(k, n)[i] = k[i]
  BY LevelIsPrefix
<1>2. /\ Level(Level(k, n), m) \in Seq(S) /\ Len(Level(Level(k, n), m)) = m
      /\ \A i \in 1 .. m : Level(Level(k, n), m)[i] = Level(k, n)[i]
  BY <1>1, LevelIsPrefix
<1>3. /\ Level(k, m) \in Seq(S) /\ Len(Level(k, m)) = m
      /\ \A i \in 1 .. m : Level(k, m)[i] = k[i]
  BY LevelIsPrefix
<1>4. \A i \in 1 .. m : Level(Level(k, n), m)[i] = Level(k, m)[i]
  BY <1>1, <1>2, <1>3
<1> QED
  BY <1>2, <1>3, <1>4, KeysEqual

LEMMA LastLevel ==
  ASSUME NEW S, NEW k \in Seq(S)
  PROVE  Level(k, Len(k)) = k
<1>1. /\ Level(k, Len(k)) \in Seq(S) /\ Len(Level(k, Len(k))) = Len(k)
      /\ \A i \in 1 .. Len(k) : Level(k, Len(k))[i] = k[i]
  BY LevelIsPrefix
<1> QED
  BY <1>1, KeysEqual

\* The parent of a level is the level before it.
LEMMA ParentOfLevel ==
  ASSUME NEW S, NEW k \in Seq(S), NEW n \in 1 .. Len(k)
  PROVE  Parent(Level(k, n)) = Level(k, n - 1)
<1>1. Len(Level(k, n)) = n
  BY LevelIsPrefix
<1>2. Level(Level(k, n), n - 1) = Level(k, n - 1)
  BY LevelOfLevel
<1> QED
  BY <1>1, <1>2 DEF Parent

\* To extend is a transitive relation.
LEMMA ExtendsTransitive ==
  ASSUME NEW S, NEW k \in Seq(S), NEW l \in Seq(S), NEW m \in Seq(S),
         Extends(k, l), Extends(l, m)
  PROVE  Extends(k, m)
<1>1. Len(m) \in 0 .. Len(l) /\ Len(l) \in 0 .. Len(k)
  BY DEF Extends
<1>2. Level(Level(k, Len(l)), Len(m)) = Level(k, Len(m))
  BY <1>1, LevelOfLevel
<1>3. Level(k, Len(l)) = l /\ Level(l, Len(m)) = m
  BY DEF Extends
<1>4. Level(k, Len(m)) = m
  BY <1>2, <1>3
<1>5. Len(m) <= Len(k)
  BY <1>1
<1> QED
  BY <1>4, <1>5 DEF Extends

LEMMA ExtendsReflexive ==
  ASSUME NEW S, NEW k \in Seq(S)
  PROVE  Extends(k, k)
BY LastLevel DEF Extends

\* A key extends each of its levels.
LEMMA ExtendsLevel ==
  ASSUME NEW S, NEW k \in Seq(S), NEW n \in 0 .. Len(k)
  PROVE  Extends(k, Level(k, n))
BY LevelIsPrefix DEF Extends

\* A key extends its parent, which is one name shorter.
LEMMA ExtendsParent ==
  ASSUME NEW S, NEW k \in Seq(S), Len(k) > 0
  PROVE  /\ Parent(k) \in Seq(S)
         /\ Len(k) = Len(Parent(k)) + 1
         /\ Extends(k, Parent(k))
<1>1. Len(k) \in Nat /\ Len(k) - 1 \in 0 .. Len(k)
  OBVIOUS
<1> QED
  BY <1>1, LevelIsPrefix, ExtendsLevel DEF Parent

\* Every key extends the empty one, and only the empty one is extended by it.
LEMMA ExtendsEmpty ==
  ASSUME NEW S, NEW k \in Seq(S)
  PROVE  Extends(k, <<>>)
<1>1. Level(k, 0) \in Seq(S) /\ Len(Level(k, 0)) = 0
  BY LevelIsPrefix
<1>2. Level(k, 0) = <<>>
  BY <1>1
<1> QED
  BY <1>2 DEF Extends

(***************************************************************************)
(* The tree.                                                               *)
(***************************************************************************)

\* One insertion below its parent adds one key to the tree's set of levels.
LEMMA InsertAddsLevel ==
  ASSUME NEW levels, NEW k
  PROVE  Insert(TreeOf(levels), Parent(k), k) = TreeOf(levels \union {k})
<1> DEFINE old == TreeOf(levels)
<1> DEFINE new == TreeOf(levels \union {k})
<1>1. DOMAIN new = DOMAIN old \union {Parent(k)}
  BY DEF TreeOf
<1>2. ASSUME NEW ref \in DOMAIN new
      PROVE  new[ref] = IF ref = Parent(k) THEN Subkeys(old, Parent(k)) \union {k}
                                           ELSE old[ref]
  <2>1. new[ref] = {l \in levels \union {k} : Parent(l) = ref}
    BY DEF TreeOf
  <2>2. ref \in DOMAIN old => old[ref] = {l \in levels : Parent(l) = ref}
    BY DEF TreeOf
  <2>3. ref \notin DOMAIN old => {l \in levels : Parent(l) = ref} = {}
    BY DEF TreeOf
  <2>4. CASE ref = Parent(k)
    BY <2>1, <2>2, <2>3, <2>4 DEF Subkeys
  <2>5. CASE ref # Parent(k)
    BY <1>1, <2>1, <2>2, <2>5
  <2> QED
    BY <2>4, <2>5
<1>3. new = [ref \in DOMAIN new |-> new[ref]]
  BY DEF TreeOf
<1> QED
  BY <1>1, <1>2, <1>3 DEF Insert

\* Non-empty keys, and with each of them its levels.
AreLevels(levels, S) ==
  /\ levels \subseteq Seq(S) \ {<<>>}
  /\ \A k \in levels : Levels(k) \subseteq levels

LEMMA LevelsAreKeys ==
  ASSUME NEW S, NEW levels, AreLevels(levels, S)
  PROVE  \A x \in levels \union {<<>>} : x \in Seq(S)
<1>1. <<>> \in Seq(S)
  OBVIOUS
<1>2. levels \subseteq Seq(S)
  BY DEF AreLevels
<1> QED
  BY <1>1, <1>2

\* The levels of keys are levels.
LEMMA LevelsAreLevels ==
  ASSUME NEW S, NEW keys \in SUBSET Seq(S)
  PROVE  AreLevels(LevelsOf(keys), S)
<1>1. ASSUME NEW key \in keys, NEW n \in 1 .. Len(key)
      PROVE  /\ Level(key, n) \in Seq(S) \ {<<>>}
             /\ \A m \in 1 .. Len(Level(key, n)) : Level(Level(key, n), m) \in LevelsOf(keys)
  <2>1. key \in Seq(S) /\ Len(key) \in Nat /\ n \in 0 .. Len(key)
    OBVIOUS
  <2>2. Level(key, n) \in Seq(S) /\ Len(Level(key, n)) = n
    BY <2>1, LevelIsPrefix
  <2>3. ASSUME NEW m \in 1 .. n PROVE Level(Level(key, n), m) \in LevelsOf(keys)
    <3>1. Level(Level(key, n), m) = Level(key, m) /\ m \in 1 .. Len(key)
      BY <2>1, LevelOfLevel
    <3> QED
      BY <3>1 DEF LevelsOf, Levels
  <2> QED
    BY <2>2, <2>3
<1> QED
  BY <1>1 DEF AreLevels, LevelsOf, Levels

LEMMA SubkeysInTree ==
  ASSUME NEW levels, NEW ref
  PROVE  Subkeys(TreeOf(levels), ref) = {k \in levels : Parent(k) = ref}
BY DEF TreeOf, Subkeys

\* What the tree of some levels holds: those, and the root.
LEMMA NodesInTree ==
  ASSUME NEW S, NEW levels, AreLevels(levels, S)
  PROVE  levels \subseteq Nodes(TreeOf(levels)) /\ Nodes(TreeOf(levels)) \subseteq levels \union {<<>>}
<1> DEFINE tree == TreeOf(levels)
<1>1. DOMAIN tree = {Parent(k) : k \in levels}
  BY DEF TreeOf
<1>2. \A ref \in DOMAIN tree : tree[ref] = {k \in levels : Parent(k) = ref}
  BY DEF TreeOf
<1>3. ASSUME NEW k \in levels PROVE Parent(k) \in levels \union {<<>>}
  <2>1. k \in Seq(S) /\ k # <<>> /\ Len(k) \in Nat \ {0} /\ Levels(k) \subseteq levels
    BY DEF AreLevels
  <2>2. CASE Len(k) = 1
    <3>1. Level(k, 0) \in Seq(S) /\ Len(Level(k, 0)) = 0 /\ Parent(k) = Level(k, 0)
      BY <2>1, <2>2, LevelIsPrefix DEF Parent
    <3> QED
      BY <3>1
  <2>3. CASE Len(k) # 1
    <3>1. Len(k) - 1 \in 1 .. Len(k)
      <4> DEFINE n == Len(k)
      <4>1. n \in Nat \ {0} /\ n # 1
        BY <2>1, <2>3
      <4> HIDE DEF n
      <4>2. n - 1 \in 1 .. n
        BY <4>1
      <4> QED
        BY <4>2 DEF n
    <3> QED
      BY <2>1, <3>1 DEF Levels, Parent
  <2> QED
    BY <2>2, <2>3
<1> HIDE DEF tree
<1>4. levels \subseteq Nodes(tree)
  BY <1>1, <1>2 DEF Nodes
<1>5. Nodes(tree) \subseteq levels \union {<<>>}
  BY <1>1, <1>2, <1>3 DEF Nodes
<1> QED
  BY <1>4, <1>5 DEF tree

\* The subkey of a key that has only one.
LEMMA TheOnlySubkey ==
  ASSUME NEW S, NEW levels, AreLevels(levels, S), NEW k,
         HasOnlySubkey(TreeOf(levels), k)
  PROVE  LET c == OnlySubkey(TreeOf(levels), k)
         IN  /\ c \in levels /\ \A l \in levels : Parent(l) = k => l = c
             /\ c \in Seq(S) /\ k \in Seq(S)
             /\ Len(k) \in Nat /\ Len(c) = Len(k) + 1 /\ Extends(c, k)
<1> DEFINE c == OnlySubkey(TreeOf(levels), k)
<1>1. Subkeys(TreeOf(levels), k) = {c}
  BY DEF HasOnlySubkey, OnlySubkey
<1>2. {l \in levels : Parent(l) = k} = {c}
  BY <1>1, SubkeysInTree
<1> HIDE DEF c
<1>3. c \in levels /\ Parent(c) = k /\ \A l \in levels : Parent(l) = k => l = c
  BY <1>2
<1>4. c \in Seq(S) /\ Len(c) > 0
  BY <1>3 DEF AreLevels
<1>5. k \in Seq(S) /\ Len(c) = Len(k) + 1 /\ Extends(c, k)
  BY <1>3, <1>4, ExtendsParent
<1> QED
  BY <1>3, <1>4, <1>5 DEF c

\* A key that goes further than another goes on with one of its subkeys.
LEMMA NextLevel ==
  ASSUME NEW S, NEW levels, AreLevels(levels, S), NEW x \in levels, NEW k \in Seq(S),
         Extends(x, k), x # k
  PROVE  LET s == Level(x, Len(k) + 1)
         IN  s \in levels /\ Parent(s) = k /\ Extends(x, s) /\ Len(s) = Len(k) + 1
<1> DEFINE n == Len(k) + 1
<1>1. x \in Seq(S) /\ Len(x) \in Nat /\ Len(k) \in Nat /\ Levels(x) \subseteq levels
  BY DEF AreLevels
<1>2. Len(k) <= Len(x) /\ Level(x, Len(k)) = k
  BY DEF Extends
<1>3. Len(x) # Len(k)
  BY <1>1, <1>2, LastLevel
<1>4. n \in 1 .. Len(x) /\ n \in 0 .. Len(x) /\ n - 1 = Len(k)
  BY <1>1, <1>2, <1>3
<1>5. Level(x, n) \in levels
  BY <1>1, <1>4 DEF Levels
<1>6. Parent(Level(x, n)) = k
  BY <1>1, <1>2, <1>4, ParentOfLevel
<1>7. Extends(x, Level(x, n)) /\ Len(Level(x, n)) = n
  BY <1>1, <1>4, ExtendsLevel, LevelIsPrefix
<1> QED
  BY <1>5, <1>6, <1>7

\* Of two levels of a key the longer extends the shorter.
LEMMA LevelsExtend ==
  ASSUME NEW S, NEW x \in Seq(S), NEW k \in Seq(S), NEW l \in Seq(S),
         Extends(x, k), Extends(x, l), Len(k) <= Len(l)
  PROVE  Extends(l, k)
<1>1. Len(l) \in 0 .. Len(x) /\ Len(k) \in 0 .. Len(l)
  BY DEF Extends
<1>2. Level(Level(x, Len(l)), Len(k)) = Level(x, Len(k))
  BY <1>1, LevelOfLevel
<1> QED
  BY <1>2 DEF Extends

(***************************************************************************)
(* Completion.                                                             *)
(***************************************************************************)

\* The keys with not exactly one subkey that only keys with one lead to.
Forks(levels, k) ==
  {x \in levels \union {<<>>} :
     /\ Extends(x, k) /\ ~ HasOnlySubkey(TreeOf(levels), x)
     /\ \A y \in levels \union {<<>>} :
          Extends(x, y) /\ Extends(y, k) /\ y # x => HasOnlySubkey(TreeOf(levels), y)}

LEMMA ForkAtKey ==
  ASSUME NEW S, NEW levels, AreLevels(levels, S), NEW k \in levels \union {<<>>},
         ~ HasOnlySubkey(TreeOf(levels), k)
  PROVE  Forks(levels, k) = {k}
<1>1. \A x \in levels \union {<<>>} : x \in Seq(S)
  BY LevelsAreKeys
<1>2. Extends(k, k)
  BY <1>1, ExtendsReflexive
<1>3. ASSUME NEW y \in levels \union {<<>>}, Extends(k, y), Extends(y, k)
      PROVE  y = k
  <2>1. k \in Seq(S) /\ y \in Seq(S) /\ Len(k) = Len(y)
    BY <1>1, <1>3 DEF Extends
  <2>2. Level(k, Len(k)) = y
    BY <1>3, <2>1 DEF Extends
  <2> QED
    BY <2>1, <2>2, LastLevel
<1> QED
  BY <1>2, <1>3 DEF Forks

LEMMA ForksBelow ==
  ASSUME NEW S, NEW levels, AreLevels(levels, S), NEW k \in levels \union {<<>>},
         HasOnlySubkey(TreeOf(levels), k)
  PROVE  Forks(levels, k) = Forks(levels, OnlySubkey(TreeOf(levels), k))
<1> DEFINE c == OnlySubkey(TreeOf(levels), k)
<1> DEFINE nodes == levels \union {<<>>}
<1>1. \A x \in nodes : x \in Seq(S)
  BY LevelsAreKeys
<1>2. /\ c \in levels /\ \A l \in levels : Parent(l) = k => l = c
      /\ c \in Seq(S) /\ k \in Seq(S)
      /\ Len(k) \in Nat /\ Len(c) = Len(k) + 1 /\ Extends(c, k)
  BY TheOnlySubkey
<1> HIDE DEF c
\* What goes further than k extends c.
<1>3. ASSUME NEW x \in nodes, Extends(x, k), x # k
      PROVE  Extends(x, c)
  <2>1. x # <<>>
    BY <1>2, <1>3 DEF Extends
  <2>2. x \in levels
    BY <2>1
  <2> DEFINE s == Level(x, Len(k) + 1)
  <2>3. s \in levels /\ Parent(s) = k /\ Extends(x, s)
    BY <1>2, <1>3, <2>2, NextLevel
  <2> QED
    BY <1>2, <2>3
<1>4. ASSUME NEW x \in nodes, Extends(x, c)
      PROVE  Extends(x, k) /\ x # k
  <2>1. Extends(x, k)
    BY <1>1, <1>2, <1>4, ExtendsTransitive
  <2>2. Len(x) \in Nat /\ Len(c) <= Len(x)
    BY <1>1, <1>4 DEF Extends
  <2> QED
    BY <1>2, <2>1, <2>2
<1>5. \A x \in nodes : Extends(x, c) <=> Extends(x, k) /\ x # k
  BY <1>3, <1>4
<1>6. ASSUME NEW x \in Forks(levels, k) PROVE x \in Forks(levels, c)
  <2>1. x \in nodes /\ x # k /\ Extends(x, k)
    BY <1>6 DEF Forks
  <2> QED
    BY <1>5, <1>6, <2>1 DEF Forks
<1>7. ASSUME NEW x \in Forks(levels, c) PROVE x \in Forks(levels, k)
  <2>1. x \in nodes /\ x # k /\ Extends(x, k)
    BY <1>5, <1>7 DEF Forks
  <2>2. ASSUME NEW y \in nodes, Extends(x, y), Extends(y, k), y # x
        PROVE  HasOnlySubkey(TreeOf(levels), y)
    BY <1>5, <1>7, <2>2 DEF Forks
  <2> QED
    BY <1>7, <2>1, <2>2 DEF Forks
<1>8. Forks(levels, k) = Forks(levels, c)
  BY <1>6, <1>7
<1> QED
  BY <1>8 DEF c

\* The function Completion chooses, its defining equation.
Follows(f, tree) ==
  f = [k \in Nodes(tree) |-> IF HasOnlySubkey(tree, k) THEN f[OnlySubkey(tree, k)] ELSE k]

LEMMA FollowExists ==
  ASSUME NEW S, NEW levels, AreLevels(levels, S)
  PROVE  \E f : Follows(f, TreeOf(levels))
<1> DEFINE tree == TreeOf(levels)
<1> DEFINE f == [k \in Nodes(tree) |-> CHOOSE x \in Forks(levels, k) : TRUE]
<1>1. ASSUME NEW k \in Nodes(tree)
      PROVE  f[k] = IF HasOnlySubkey(tree, k) THEN f[OnlySubkey(tree, k)] ELSE k
  <2>1. k \in levels \union {<<>>}
    BY NodesInTree
  <2>2. CASE HasOnlySubkey(tree, k)
    <3>1. OnlySubkey(tree, k) \in Nodes(tree)
      BY <2>2, TheOnlySubkey, NodesInTree
    <3>2. Forks(levels, k) = Forks(levels, OnlySubkey(tree, k))
      BY <2>1, <2>2, ForksBelow
    <3> QED
      BY <2>2, <3>1, <3>2
  <2>3. CASE ~ HasOnlySubkey(tree, k)
    <3>1. Forks(levels, k) = {k}
      BY <2>1, <2>3, ForkAtKey
    <3> QED
      BY <2>3, <3>1
  <2> QED
    BY <2>2, <2>3
<1>2. f = [k \in Nodes(tree) |-> f[k]]
  OBVIOUS
<1> HIDE DEF f
<1>3. f = [k \in Nodes(tree) |-> IF HasOnlySubkey(tree, k) THEN f[OnlySubkey(tree, k)] ELSE k]
  BY <1>1, <1>2
<1> QED
  BY <1>3 DEF Follows

LEMMA CompletionByFollow ==
  ASSUME NEW S, NEW levels, AreLevels(levels, S)
  PROVE  \E f : /\ Follows(f, TreeOf(levels))
                /\ \A k : Completion(TreeOf(levels), k) =
                            IF k \in Nodes(TreeOf(levels)) \ {<<>>} THEN f[k] ELSE k
<1> DEFINE tree == TreeOf(levels)
<1> DEFINE follow == CHOOSE f : f = [k \in Nodes(tree) |-> IF HasOnlySubkey(tree, k) THEN f[OnlySubkey(tree, k)] ELSE k]
<1>1. Follows(follow, tree)
  BY FollowExists DEF Follows
<1>2. \A k : Completion(tree, k) = IF k \in Nodes(tree) \ {<<>>} THEN follow[k] ELSE k
  BY Zenon DEF Completion, Nodes
<1> QED
  BY <1>1, <1>2

\* One round of the loop of autocomplete does not change where it ends.
LEMMA CompletionStep ==
  ASSUME NEW S, NEW levels, AreLevels(levels, S), NEW k, k # <<>>
  PROVE  Completion(TreeOf(levels), k) =
           IF HasOnlySubkey(TreeOf(levels), k)
             THEN Completion(TreeOf(levels), OnlySubkey(TreeOf(levels), k)) ELSE k
<1> DEFINE tree == TreeOf(levels)
<1> DEFINE c == OnlySubkey(tree, k)
<1>1. PICK f : /\ Follows(f, tree)
               /\ \A l : Completion(tree, l) = IF l \in Nodes(tree) \ {<<>>} THEN f[l] ELSE l
  BY CompletionByFollow
<1>2. CASE ~ HasOnlySubkey(tree, k)
  <2>1. k \in Nodes(tree) => f[k] = k
    BY <1>1, <1>2 DEF Follows
  <2> QED
    BY <1>1, <1>2, <2>1
<1>3. CASE HasOnlySubkey(tree, k)
  <2>1. k \in Nodes(tree)
    BY <1>3 DEF HasOnlySubkey, Subkeys, Nodes
  <2>2. c \in Nodes(tree) \ {<<>>}
    BY <1>3, TheOnlySubkey, NodesInTree DEF AreLevels
  <2>3. f[k] = f[c]
    BY <1>1, <1>3, <2>1 DEF Follows
  <2> QED
    BY <1>1, <1>3, <2>1, <2>2, <2>3
<1> QED
  BY <1>2, <1>3

LEMMA FirstNumbers ==
  ASSUME NEW n \in Nat
  PROVE  IsFiniteSet(1 .. n) /\ Cardinality(1 .. n) = n
<1>1. 1 \in Int /\ n \in Int /\ (IF 1 > n THEN 0 ELSE n - 1 + 1) = n
  OBVIOUS
<1> QED
  BY <1>1, FS_Interval

\* No key among finitely many levels is longer than they are many.
LEMMA LevelsBound ==
  ASSUME NEW S, NEW levels, AreLevels(levels, S), IsFiniteSet(levels), NEW k \in levels
  PROVE  Cardinality(levels) \in Nat /\ Len(k) \in Nat /\ Len(k) <= Cardinality(levels)
<1> DEFINE f == [n \in 1 .. Len(k) |-> Level(k, n)]
<1>1. k \in Seq(S) /\ Len(k) \in Nat /\ Levels(k) \subseteq levels
  BY DEF AreLevels
<1>2. ASSUME NEW n \in 1 .. Len(k) PROVE Level(k, n) \in levels /\ Len(Level(k, n)) = n
  BY <1>1, LevelIsPrefix DEF Levels
<1>3. f \in [1 .. Len(k) -> levels]
  BY <1>2
<1>4. \A m, n \in 1 .. Len(k) : f[m] = f[n] => m = n
  BY <1>2
<1> HIDE DEF f
<1>5. f \in Injection(1 .. Len(k), levels)
  BY <1>3, <1>4 DEF Injection, IsInjective
<1>6. Cardinality(1 .. Len(k)) <= Cardinality(levels)
  BY <1>5, FS_Injection
<1>7. Cardinality(1 .. Len(k)) = Len(k)
  BY <1>1, FirstNumbers
<1> QED
  BY <1>1, <1>6, <1>7, FS_CardinalityType

\* Induction over the length of the keys, from the longest: what fails for no
\* key unless it fails for a longer one never fails.
LEMMA FromTheLongest ==
  ASSUME NEW S, NEW levels, AreLevels(levels, S), IsFiniteSet(levels),
         NEW bad \in SUBSET levels,
         \A k \in bad : \E c \in bad : Len(c) = Len(k) + 1
  PROVE  bad = {}
<1> DEFINE B == Cardinality(levels)
<1> DEFINE left == {n \in Nat : \E k \in bad : Len(k) + n = B}
<1>1. \A k \in bad : B \in Nat /\ Len(k) \in Nat /\ Len(k) <= B
  BY LevelsBound
<1> HIDE DEF B
<1>2. SUFFICES ASSUME NEW key \in bad PROVE FALSE
  OBVIOUS
<1>3. B - Len(key) \in left
  <2>1. B - Len(key) \in Nat /\ Len(key) + (B - Len(key)) = B
    BY <1>1
  <2> QED
    BY <2>1
<1>4. PICK m \in left : \A n \in left : m <= n
  <2> DEFINE R == OpToRel(<, Nat)
  <2>1. left \in SUBSET Nat
    OBVIOUS
  <2>2. IsWellFoundedOn(R, Nat)
    BY NatLessThanWellFounded
  <2>3. \A i, j \in Nat : <<i, j>> \notin R => j <= i
    BY DEF OpToRel
  <2> HIDE DEF R, left
  <2>4. \E m \in left : \A n \in left : ~ (<<n, m>> \in R)
    BY <1>3, <2>1, <2>2, WFMin
  <2> QED
    BY <2>1, <2>3, <2>4
<1>5. PICK k \in bad : Len(k) + m = B
  OBVIOUS
<1>6. PICK c \in bad : Len(c) = Len(k) + 1
  OBVIOUS
<1>7. m \in Nat /\ m - 1 \in Nat /\ Len(c) + (m - 1) = B
  BY <1>1, <1>5, <1>6
<1>8. m - 1 \in left
  BY <1>6, <1>7
<1> HIDE DEF left
<1> QED
  BY <1>4, <1>7, <1>8

\* The loop ends at the fork that the key leads to.
LEMMA CompletionIsFork ==
  ASSUME NEW S, NEW levels, AreLevels(levels, S), IsFiniteSet(levels), NEW key \in levels
  PROVE  Completion(TreeOf(levels), key) \in Forks(levels, key)
<1> DEFINE tree == TreeOf(levels)
<1> DEFINE bad == {k \in levels : Completion(tree, k) \notin Forks(levels, k)}
<1>1. ASSUME NEW k \in bad PROVE \E c \in bad : Len(c) = Len(k) + 1
  <2>1. k \in levels /\ k # <<>>
    BY DEF AreLevels
  <2>2. ASSUME ~ HasOnlySubkey(tree, k) PROVE FALSE
    <3>1. Completion(tree, k) = k
      BY <2>1, <2>2, CompletionStep
    <3>2. Forks(levels, k) = {k}
      BY <2>1, <2>2, ForkAtKey
    <3> QED
      BY <3>1, <3>2
  <2> DEFINE c == OnlySubkey(tree, k)
  <2>3. c \in levels /\ Len(c) = Len(k) + 1
    BY <2>2, TheOnlySubkey
  <2>4. Completion(tree, k) = Completion(tree, c)
    BY <2>1, <2>2, CompletionStep
  <2>5. Forks(levels, k) = Forks(levels, c)
    BY <2>1, <2>2, ForksBelow
  <2> HIDE DEF c
  <2> QED
    BY <2>3, <2>4, <2>5
<1>2. bad = {}
  <2> HIDE DEF bad
  <2>1. bad \in SUBSET levels
    BY DEF bad
  <2> QED
    BY <1>1, <2>1, FromTheLongest
<1> QED
  BY <1>2

\* What extends a key and is not skipped extends its completion.
LEMMA StopExtendsCompletion ==
  ASSUME NEW S, NEW levels, AreLevels(levels, S), IsFiniteSet(levels), NEW key \in levels,
         NEW x \in levels, ~ HasOnlySubkey(TreeOf(levels), x), Extends(x, key)
  PROVE  Extends(x, Completion(TreeOf(levels), key))
<1> DEFINE tree == TreeOf(levels)
<1> DEFINE bad == {k \in levels : Extends(x, k) /\ ~ Extends(x, Completion(tree, k))}
<1>1. ASSUME NEW k \in bad PROVE \E c \in bad : Len(c) = Len(k) + 1
  <2>1. k \in levels /\ k \in Seq(S) /\ k # <<>> /\ Extends(x, k)
    BY DEF AreLevels
  <2>2. HasOnlySubkey(tree, k)
    BY <2>1, CompletionStep
  <2> DEFINE c == OnlySubkey(tree, k)
  <2>3. /\ c \in levels /\ Len(c) = Len(k) + 1
        /\ \A l \in levels : Parent(l) = k => l = c
    BY <2>2, TheOnlySubkey
  <2>4. Completion(tree, k) = Completion(tree, c)
    BY <2>1, <2>2, CompletionStep
  <2>5. x # k
    BY <2>2
  <2>6. Extends(x, c)
    <3> DEFINE s == Level(x, Len(k) + 1)
    <3>1. s \in levels /\ Parent(s) = k /\ Extends(x, s)
      BY <2>1, <2>5, NextLevel
    <3> QED
      BY <2>3, <3>1
  <2> HIDE DEF c
  <2> QED
    BY <2>3, <2>4, <2>6
<1>2. bad = {}
  <2> HIDE DEF bad
  <2>1. bad \in SUBSET levels
    BY DEF bad
  <2> QED
    BY <1>1, <2>1, FromTheLongest
<1> QED
  BY <1>2

(***************************************************************************)
(* Counting lines.                                                         *)
(***************************************************************************)

LEMMA PassedIsFinite ==
  ASSUME NEW t, NEW c \in Nat
  PROVE  IsFiniteSet(NewlinesUpTo(t, c)) /\ Cardinality(NewlinesUpTo(t, c)) \in Nat
<1>1. IsFiniteSet(1 .. c)
  BY FS_Interval
<1>2. NewlinesUpTo(t, c) \subseteq 1 .. c
  BY DEF NewlinesUpTo
<1> QED
  BY <1>1, <1>2, FS_Subset, FS_CardinalityType

\* The newlines passed after one more character.
LEMMA PassOneMore ==
  ASSUME NEW t, NEW c \in Nat
  PROVE  NewlinesUpTo(t, c + 1) =
           IF t[c + 1] = NL THEN NewlinesUpTo(t, c) \union {c + 1} ELSE NewlinesUpTo(t, c)
<1>1. 1 .. c + 1 = 1 .. c \union {c + 1}
  OBVIOUS
<1> QED
  BY <1>1 DEF NewlinesUpTo

LEMMA PassNewline ==
  ASSUME NEW t, NEW c \in Nat, t[c + 1] = NL
  PROVE  Cardinality(NewlinesUpTo(t, c + 1)) = Cardinality(NewlinesUpTo(t, c)) + 1
<1>1. NewlinesUpTo(t, c + 1) = NewlinesUpTo(t, c) \union {c + 1}
  BY PassOneMore
<1>2. c + 1 \notin NewlinesUpTo(t, c)
  BY DEF NewlinesUpTo
<1> QED
  BY <1>1, <1>2, PassedIsFinite, FS_AddElement

(***************************************************************************)
(* One step of the reader.                                                 *)
(***************************************************************************)

\* Counting a newline touches the line and the column only.
LEMMA CountNewline ==
  ASSUME NEW r \in ReaderType
  PROVE  LET q == CountLine(r, NL)
         IN  /\ q \in ReaderType /\ q.kind = r.kind /\ q.text = r.text
             /\ q.cursor = r.cursor /\ q.charsLeft = r.charsLeft
             /\ q.lineCtr = r.lineCtr + 1 /\ q.linePos = 0
<1> DEFINE counted == [r EXCEPT !.lineCtr = r.lineCtr + 1]
<1>1. /\ counted \in ReaderType /\ counted.kind = r.kind
      /\ counted.text = r.text /\ counted.cursor = r.cursor
      /\ counted.charsLeft = r.charsLeft /\ counted.lineCtr = r.lineCtr + 1
  BY DEF ReaderType
<1>2. CountLine(r, NL) = [counted EXCEPT !.linePos = 0]
  BY DEF CountLine
<1> HIDE DEF counted
<1> QED
  BY <1>1, <1>2 DEF ReaderType

\* Counting any other character touches the column only.
LEMMA CountOther ==
  ASSUME NEW r \in ReaderType, NEW c \in STRING, c # NL
  PROVE  LET q == CountLine(r, c)
         IN  /\ q \in ReaderType /\ q.kind = r.kind /\ q.text = r.text
             /\ q.cursor = r.cursor /\ q.charsLeft = r.charsLeft
             /\ q.lineCtr = r.lineCtr /\ q.linePos = r.linePos + 1
BY DEF CountLine, ReaderType

\* What StringFwd does to a reader inside its text.
LEMMA StringFwdInside ==
  ASSUME NEW r \in ReaderType, r.cursor < Len(r.text),
         r.text[r.cursor + 1] \in STRING
  PROVE  LET q == StringFwd(r)
             c == r.text[r.cursor + 1]
         IN  /\ q \in ReaderType /\ q.kind = r.kind /\ q.text = r.text
             /\ q.cursor = r.cursor + 1
             /\ q.lineCtr = IF c = NL THEN r.lineCtr + 1 ELSE r.lineCtr
             /\ q.linePos = IF c = NL THEN 0 ELSE r.linePos + 1
<1> DEFINE c == r.text[r.cursor + 1]
<1> DEFINE counted == CountLine(r, c)
<1>1. /\ counted \in ReaderType /\ counted.kind = r.kind
      /\ counted.text = r.text /\ counted.cursor = r.cursor
      /\ counted.lineCtr = IF c = NL THEN r.lineCtr + 1 ELSE r.lineCtr
      /\ counted.linePos = IF c = NL THEN 0 ELSE r.linePos + 1
  <2>1. CASE c = NL
    BY <2>1, CountNewline
  <2>2. CASE c # NL
    BY <2>2, CountOther
  <2> QED
    BY <2>1, <2>2
<1>2. StringFwd(r) = [counted EXCEPT !.cursor = counted.cursor + 1]
  BY DEF StringFwd
<1> DEFINE q == StringFwd(r)
<1> HIDE DEF counted, q
<1>3. counted.cursor \in Nat /\ counted.cursor + 1 \in Nat
  BY <1>1 DEF ReaderType
<1>4. q \in ReaderType
  BY <1>1, <1>2, <1>3 DEF ReaderType, q
<1>5. /\ q.kind = counted.kind /\ q.text = counted.text
      /\ q.cursor = counted.cursor + 1
      /\ q.lineCtr = counted.lineCtr /\ q.linePos = counted.linePos
  BY <1>1, <1>2 DEF ReaderType, q
<1> QED
  BY <1>1, <1>4, <1>5 DEF q

LEMMA StringFwdAtEnd ==
  ASSUME NEW r, ~ (r.cursor < Len(r.text))
  PROVE  StringFwd(r) = r
BY Zenon DEF StringFwd

\* What StreamFwd does while there is something to take.
LEMMA StreamFwdInside ==
  ASSUME NEW r \in ReaderType, r.charsLeft # 0, r.cursor < Len(r.text)
  PROVE  LET q == StreamFwd(r)
             c == r.text[r.cursor + 1]
         IN  /\ q \in ReaderType /\ q.kind = r.kind /\ q.text = r.text
             /\ q.cursor = r.cursor + 1 /\ q.current = c
             /\ q.charsLeft = r.charsLeft - 1
             /\ q.lineCtr = IF c = NL THEN r.lineCtr + 1 ELSE r.lineCtr
             /\ q.linePos = IF c = NL THEN 0 ELSE r.linePos + 1
<1> DEFINE c == r.text[r.cursor + 1]
<1> DEFINE counted == CountLine(r, c)
<1>1. c \in STRING /\ r.charsLeft - 1 \in Nat
  BY DEF ReaderType
<1>2. /\ counted \in ReaderType /\ counted.kind = r.kind
      /\ counted.text = r.text /\ counted.cursor = r.cursor
      /\ counted.charsLeft = r.charsLeft
      /\ counted.lineCtr = IF c = NL THEN r.lineCtr + 1 ELSE r.lineCtr
      /\ counted.linePos = IF c = NL THEN 0 ELSE r.linePos + 1
  <2>1. CASE c = NL
    BY <2>1, CountNewline
  <2>2. CASE c # NL
    BY <1>1, <2>2, CountOther
  <2> QED
    BY <2>1, <2>2
<1> DEFINE taken == [counted EXCEPT !.current = c]
<1> DEFINE passed == [taken EXCEPT !.cursor = r.cursor + 1]
<1>3. StreamFwd(r) = [passed EXCEPT !.charsLeft = r.charsLeft - 1]
  <2>1. StreamFwd(r) = [counted EXCEPT !.current = c, !.cursor = counted.cursor + 1,
                                       !.charsLeft = counted.charsLeft - 1]
    BY DEF StreamFwd
  <2> HIDE DEF counted, c
  <2> QED
    BY <1>2, <2>1
<1> HIDE DEF counted
<1>4. /\ taken \in ReaderType /\ taken.kind = r.kind /\ taken.text = r.text
      /\ taken.cursor = r.cursor /\ taken.charsLeft = r.charsLeft /\ taken.current = c
      /\ taken.lineCtr = counted.lineCtr /\ taken.linePos = counted.linePos
  BY <1>1, <1>2 DEF ReaderType
<1> HIDE DEF taken
<1>5. /\ passed \in ReaderType /\ passed.kind = r.kind /\ passed.text = r.text
      /\ passed.cursor = r.cursor + 1 /\ passed.charsLeft = r.charsLeft
      /\ passed.current = c
      /\ passed.lineCtr = counted.lineCtr /\ passed.linePos = counted.linePos
  BY <1>4 DEF ReaderType
<1> HIDE DEF passed
<1> QED
  BY <1>1, <1>2, <1>3, <1>5 DEF ReaderType

\* And when the stream has ended, with or without a limit.
LEMMA StreamFwdPastEnd ==
  ASSUME NEW r \in ReaderType, r.charsLeft # 0, ~ (r.cursor < Len(r.text))
  PROVE  LET q == StreamFwd(r)
         IN  /\ q \in ReaderType /\ q.kind = r.kind /\ q.text = r.text
             /\ q.cursor = r.cursor /\ q.current = NUL /\ q.charsLeft = 0
             /\ q.lineCtr = r.lineCtr /\ q.linePos = r.linePos
<1> DEFINE lost == [r EXCEPT !.current = NUL]
<1>1. StreamFwd(r) = [lost EXCEPT !.charsLeft = 0]
  BY DEF StreamFwd
<1>2. /\ lost \in ReaderType /\ lost.kind = r.kind /\ lost.text = r.text
      /\ lost.cursor = r.cursor /\ lost.current = NUL
      /\ lost.lineCtr = r.lineCtr /\ lost.linePos = r.linePos
  BY DEF ReaderType
<1> HIDE DEF lost
<1> QED
  BY <1>1, <1>2 DEF ReaderType

LEMMA StreamFwdAtLimit ==
  ASSUME NEW r, r.charsLeft = 0
  PROVE  StreamFwd(r) = r
BY Zenon DEF StreamFwd

\* A character more is counted as the next of the text.
LEMMA TakeKeepsCount ==
  ASSUME NEW r \in ReaderType, LinesCounted(r), NEW q \in ReaderType,
         q.text = r.text, q.cursor = r.cursor + 1,
         q.lineCtr = IF r.text[r.cursor + 1] = NL THEN r.lineCtr + 1 ELSE r.lineCtr,
         q.linePos = IF r.text[r.cursor + 1] = NL THEN 0 ELSE r.linePos + 1
  PROVE  LinesCounted(q)
<1> DEFINE t == r.text
<1> DEFINE n == r.cursor
<1>1. n \in Nat
  BY DEF ReaderType
<1>2. PICK s \in {0} \union NewlinesUpTo(t, n) :
        r.linePos = n - s /\ \A i \in NewlinesUpTo(t, n) : i <= s
  BY DEF LinesCounted
<1>3. \A i \in NewlinesUpTo(t, n) : i \in Nat /\ i <= n
  BY <1>1 DEF NewlinesUpTo
<1>4. CASE t[n + 1] = NL
  <2>1. NewlinesUpTo(t, n + 1) = NewlinesUpTo(t, n) \union {n + 1}
    BY <1>1, <1>4, PassOneMore
  <2>2. q.lineCtr = Cardinality(NewlinesUpTo(t, n + 1))
    BY <1>1, <1>4, PassNewline DEF LinesCounted
  <2>3. /\ n + 1 \in {0} \union NewlinesUpTo(t, n + 1) /\ q.linePos = (n + 1) - (n + 1)
        /\ \A i \in NewlinesUpTo(t, n + 1) : i <= n + 1
    BY <1>1, <1>3, <1>4, <2>1
  <2> QED
    BY <2>2, <2>3 DEF LinesCounted
<1>5. CASE t[n + 1] # NL
  <2>1. NewlinesUpTo(t, n + 1) = NewlinesUpTo(t, n)
    BY <1>1, <1>5, PassOneMore
  <2>2. s \in Nat /\ q.linePos = (n + 1) - s
    BY <1>1, <1>2, <1>3, <1>5
  <2> QED
    BY <1>2, <1>5, <2>1, <2>2 DEF LinesCounted
<1> QED
  BY <1>4, <1>5

\* From a reader that has counted the line, fwdOrEof goes to one that is a
\* character ahead of the contract; so does the constructor.
LEMMA StreamGoesAhead ==
  ASSUME NEW r \in ReaderType, r.kind = "stream", LinesCounted(r)
  PROVE  LET q == StreamFwd(r)
         IN  /\ q \in ReaderType /\ q.kind = "stream" /\ q.text = r.text
             /\ LinesCounted(q) /\ OneAhead(q)
<1> DEFINE q == StreamFwd(r)
<1>1. CASE r.charsLeft = 0
  <2>1. q = r
    BY <1>1, StreamFwdAtLimit
  <2>2. IsAtEof(q)
    BY <1>1, <2>1 DEF IsAtEof
  <2> QED
    BY <2>1, <2>2 DEF LinesCounted, OneAhead
<1>2. CASE r.charsLeft # 0 /\ r.cursor < Len(r.text)
  <2>1. /\ q \in ReaderType /\ q.kind = "stream" /\ q.text = r.text
        /\ q.cursor = r.cursor + 1 /\ q.current = r.text[r.cursor + 1]
        /\ q.lineCtr = IF r.text[r.cursor + 1] = NL THEN r.lineCtr + 1 ELSE r.lineCtr
        /\ q.linePos = IF r.text[r.cursor + 1] = NL THEN 0 ELSE r.linePos + 1
    BY <1>2, StreamFwdInside
  <2> HIDE DEF q
  <2>2. LinesCounted(q)
    BY <2>1, TakeKeepsCount
  <2>3. q.cursor > 0 /\ GetChar(q) = q.text[q.cursor]
    BY <2>1 DEF GetChar, ReaderType
  <2> QED
    BY <2>1, <2>2, <2>3 DEF LinesCounted, OneAhead, q
<1>3. CASE r.charsLeft # 0 /\ ~ (r.cursor < Len(r.text))
  <2>1. /\ q \in ReaderType /\ q.kind = "stream" /\ q.text = r.text
        /\ q.cursor = r.cursor /\ q.charsLeft = 0
        /\ q.lineCtr = r.lineCtr /\ q.linePos = r.linePos
    BY <1>3, StreamFwdPastEnd
  <2> HIDE DEF q
  <2>2. LinesCounted(q) /\ IsAtEof(q)
    BY <2>1 DEF LinesCounted, IsAtEof
  <2> QED
    BY <2>1, <2>2 DEF LinesCounted, OneAhead, q
<1> QED
  BY <1>1, <1>2, <1>3

\* A reader that has taken nothing.
LEMMA NothingCounted ==
  ASSUME NEW kind \in {"string", "stream"}, NEW t \in Seq(STRING),
         NEW n \in Nat, NEW c \in {NUL} \union STRING
  PROVE  Reader(kind, t, n, c) \in ReaderType /\ LinesCounted(Reader(kind, t, n, c))
<1> DEFINE r == Reader(kind, t, n, c)
<1>1. r = [kind |-> kind, text |-> t, cursor |-> 0, charsLeft |-> n,
           current |-> c, lineCtr |-> 0, linePos |-> 0]
  BY DEF Reader
<1>2. r \in ReaderType
  BY <1>1 DEF ReaderType
<1>3. r.text = t /\ r.cursor = 0 /\ r.lineCtr = 0 /\ r.linePos = 0
  BY <1>1
<1>4. NewlinesUpTo(t, 0) = {}
  BY DEF NewlinesUpTo
<1>5. Cardinality({}) = 0
  BY FS_EmptySet
<1> HIDE DEF r
<1>6. LinesCounted(r)
  <2>1. r.lineCtr = Cardinality(NewlinesUpTo(r.text, r.cursor))
    BY <1>3, <1>4, <1>5
  <2>2. /\ 0 \in {0} \union NewlinesUpTo(r.text, r.cursor)
        /\ r.linePos = r.cursor - 0
        /\ \A i \in NewlinesUpTo(r.text, r.cursor) : i <= 0
    BY <1>3, <1>4
  <2> QED
    BY <2>1, <2>2 DEF LinesCounted
<1> QED
  BY <1>2, <1>6 DEF r
=============================================================================
