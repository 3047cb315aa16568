---------------------------- MODULE ParserProofs ----------------------------
(***************************************************************************)
(* What holds in every state and every step of the parser, whatever the    *)
(* text and whichever reader it is read with: the keys it makes are keys,  *)
(* a stream reader is one character ahead, and no loop of the parser runs  *)
(* for ever but one; and how the parse of a text from a stream may end     *)
(* otherwise than the parse of the same text from memory.                  *)
(***************************************************************************)
EXTENDS TwoReaders, Facts

Chars == {NUL} \union STRING

IsSequence(s) == s \in Seq({s[i] : i \in 1 .. Len(s)})

(***************************************************************************)
(* Where the parser is.                                                    *)
(***************************************************************************)

\* The points skipWhitespacesAndComments goes on at, and those within it.
Rets == {"defs", "delim", "value", "elems"}
Skipping == {"comments", "comment2", "sl", "ml", "mlStar", "mlEnd", "blanks"}

\* The point the parser is at, or will be when it has skipped the blanks.
Target == IF pc \in Skipping THEN ret ELSE pc

\* The points within the definition of an entry.
InValue == {"value", "elems", "string", "escape", "number", "bool"}

(***************************************************************************)
(* The invariant.                                                          *)
(***************************************************************************)

FullKeys == ValidKeys \ {<<>>}

\* k is a key in the group.
Prolongs(k, group) ==
  LET rest == SubSeq(k, Len(group) + 2, Len(k))
  IN  rest \in FullKeys /\ k = JoinKeys(group, rest)

\* A key that parse has prefixed with that of its group.
Prefixed(k, groups) ==
  k \in FullKeys /\ (groups # <<>> => Prolongs(k, groups[Len(groups)]))

ReaderOK(r) ==
  /\ r \in ReaderType
  /\ r.kind = "string" => r.cursor <= Len(r.text)
  /\ LinesCounted(r)
  /\ r.kind = "stream" => OneAhead(r)

ReaderInv == ReaderOK(rd)

StackInv ==
  /\ ret \in Rets
  /\ buf \in Seq(Chars) /\ IsSequence(arrays)
  /\ Target = "elems" => arrays # <<>>
  /\ pc = "number" /\ buf = <<>> => IsNumerical(Here)

GroupsInv ==
  /\ keyStack \in Seq(FullKeys)
  /\ \A i \in 1 .. Len(keyStack) - 1 : Prolongs(keyStack[i + 1], keyStack[i])
  /\ DOMAIN cfg \subseteq FullKeys

KeyInv ==
  /\ pc = "key" => Here \in KeyChars /\ buf \in Seq(KeyChars)
  /\ pc = "keyEnd" => buf \in Seq(KeyChars) /\ buf # <<>>
  /\ Target = "delim" => Prefixed(key, keyStack)
  /\ Target \in InValue => key \in FullKeys

ParserInv == ReaderInv /\ StackInv /\ GroupsInv /\ KeyInv

(***************************************************************************)
(* How far the parser is from its end.                                     *)
(***************************************************************************)

\* The calls of fwdOrEof that can still change the reader.
Left(r) == IF r.kind = "string" THEN Len(r.text) - r.cursor ELSE r.charsLeft

\* A step that leaves the reader alone goes to a point of lower rank.
Rank ==
  IF pc = "done" THEN 0
  ELSE IF pc \in {"key", "delim", "escape", "ml", "mlStar"}
          \/ (pc = "number" /\ buf = <<>>) THEN 1
  ELSE IF pc \in {"defs", "value"} THEN 2
  ELSE IF pc = "elems" THEN 3
  ELSE IF pc = "comments" /\ ~ go THEN 4
  ELSE IF pc = "blanks" THEN 5
  ELSE IF pc = "comments" THEN 6
  ELSE IF pc = "comment2" THEN 8
  ELSE 7

Distance == 20 * Left(rd) + 10 * Len(arrays) + Rank

\* The number loop at a limit that is used up.
Overruns == pc = "number" /\ rd.kind = "stream" /\ rd.charsLeft = 0

ComesNearer == [][Next => Distance' < Distance \/ Overruns]_tvars

(***************************************************************************)
(* Sequences and readers.                                                  *)
(***************************************************************************)

LEMMA SequenceOf ==
  ASSUME NEW S, NEW s \in Seq(S)
  PROVE  IsSequence(s) /\ Len(s) \in Nat
BY DEF IsSequence

LEMMA AppendSequence ==
  ASSUME NEW s, IsSequence(s), NEW x
  PROVE  /\ IsSequence(Append(s, x)) /\ Append(s, x) # <<>>
         /\ Len(s) \in Nat /\ Len(Append(s, x)) = Len(s) + 1
<1> DEFINE S == {s[i] : i \in 1 .. Len(s)} \union {x}
<1>1. s \in Seq(S)
  BY DEF IsSequence
<1> HIDE DEF S
<1>2. x \in S
  BY DEF S
<1>3. /\ Append(s, x) \in Seq(S) /\ Len(Append(s, x)) = Len(s) + 1
      /\ Len(s) \in Nat /\ Append(s, x) # <<>>
  BY <1>1, <1>2
<1> QED
  BY <1>3, SequenceOf

\* All but the last element.
LEMMA FrontSequence ==
  ASSUME NEW s, IsSequence(s), s # <<>>
  PROVE  LET front == SubSeq(s, 1, Len(s) - 1)
         IN  IsSequence(front) /\ Len(s) \in Nat \ {0} /\ Len(front) = Len(s) - 1
<1> DEFINE S == {s[i] : i \in 1 .. Len(s)}
<1> DEFINE front == SubSeq(s, 1, Len(s) - 1)
<1>1. s \in Seq(S)
  BY DEF IsSequence
<1> HIDE DEF S
<1>2. front \in Seq(S) /\ Len(s) \in Nat \ {0} /\ Len(front) = Len(s) - 1
  <2>1. Len(s) \in Nat \ {0}
    BY <1>1
  <2>2. front \in Seq(S)
    BY <1>1, <2>1
  <2>3. Len(front) = Len(s) - 1
    <3> DEFINE n == Len(s) - 1
    <3>1. n \in Nat /\ n <= Len(s)
      BY <2>1
    <3> HIDE DEF n
    <3>2. Len(SubSeq(s, 1, n)) = n
      BY <1>1, <2>1, <3>1
    <3> QED
      BY <3>2 DEF n
  <2> QED
    BY <2>1, <2>2, <2>3
<1> HIDE DEF front
<1>3. IsSequence(front)
  BY <1>2, SequenceOf
<1> QED
  BY <1>2, <1>3 DEF front

LEMMA ReplaceLast ==
  ASSUME NEW s, IsSequence(s), s # <<>>, NEW x
  PROVE  LET t == [s EXCEPT ![Len(s)] = x]
         IN  IsSequence(t) /\ Len(s) \in Nat /\ Len(t) = Len(s) /\ t # <<>>
<1> DEFINE S == {s[i] : i \in 1 .. Len(s)} \union {x}
<1> DEFINE t == [s EXCEPT ![Len(s)] = x]
<1>1. s \in Seq(S)
  BY DEF IsSequence
<1> HIDE DEF S
<1>2. x \in S
  BY DEF S
<1>3. t \in Seq(S) /\ Len(s) \in Nat /\ Len(t) = Len(s) /\ t # <<>>
  BY <1>1, <1>2
<1> HIDE DEF t
<1>4. IsSequence(t)
  BY <1>3, SequenceOf
<1> QED
  BY <1>3, <1>4 DEF t

LEMMA CharOfReader ==
  ASSUME NEW r, ReaderOK(r)
  PROVE  /\ GetChar(r) \in Chars /\ Left(r) \in Nat
         /\ r.kind = "string" /\ GetChar(r) # NUL => Left(r) > 0
         /\ FwdMoves(r) => Left(r) > 0
         /\ IsAtEof(r) <=> Left(r) = 0
<1>1. r \in ReaderType /\ r.text \in Seq(STRING) /\ Len(r.text) \in Nat
  BY DEF ReaderOK, ReaderType
<1>2. /\ r.kind \in {"string", "stream"} /\ r.cursor \in Nat /\ r.charsLeft \in Nat
      /\ r.current \in Chars
  BY <1>1 DEF ReaderType, Chars
<1>3. r.cursor < Len(r.text) => r.text[r.cursor + 1] \in Chars
  <2>1. r.cursor < Len(r.text) => r.cursor + 1 \in 1 .. Len(r.text)
    BY <1>1, <1>2
  <2> QED
    BY <1>1, <2>1 DEF Chars
<1>4. NUL \in Chars
  BY DEF Chars
<1>5. r.kind = "string" => r.cursor <= Len(r.text)
  BY DEF ReaderOK
<1> QED
  BY <1>1, <1>2, <1>3, <1>4, <1>5 DEF GetChar, Left, FwdMoves, IsAtEof

LEMMA FwdKeepsReader ==
  ASSUME NEW r, ReaderOK(r)
  PROVE  LET q == Fwd(r)
         IN  /\ ReaderOK(q) /\ q.kind = r.kind
             /\ Left(q) \in Nat /\ Left(q) <= Left(r)
             /\ Left(r) > 0 => Left(q) < Left(r)
<1> DEFINE q == Fwd(r)
<1>1. r \in ReaderType /\ Left(r) \in Nat /\ Len(r.text) \in Nat
      /\ r.kind \in {"string", "stream"}
  BY CharOfReader DEF ReaderOK, ReaderType
<1>2. CASE r.kind = "string" /\ r.cursor < Len(r.text)
  <2>1. q = StringFwd(r)
    BY <1>2 DEF Fwd
  <2>2. r.text[r.cursor + 1] \in STRING
    BY <1>1, <1>2 DEF ReaderType
  <2>3. /\ q \in ReaderType /\ q.kind = "string" /\ q.text = r.text /\ q.cursor = r.cursor + 1
        /\ q.lineCtr = IF r.text[r.cursor + 1] = NL THEN r.lineCtr + 1 ELSE r.lineCtr
        /\ q.linePos = IF r.text[r.cursor + 1] = NL THEN 0 ELSE r.linePos + 1
    BY <1>1, <1>2, <2>1, <2>2, StringFwdInside
  <2> HIDE DEF q
  <2>4. LinesCounted(q)
    BY <1>1, <2>3, TakeKeepsCount DEF ReaderOK
  <2>5. ReaderOK(q) /\ q.kind = r.kind /\ Left(q) = Left(r) - 1 /\ Left(r) > 0
    BY <1>1, <1>2, <2>3, <2>4 DEF ReaderOK, ReaderType, Left
  <2> QED
    BY <1>1, <2>5 DEF q
<1>3. CASE r.kind = "string" /\ ~ (r.cursor < Len(r.text))
  <2>1. q = r
    <3>1. q = StringFwd(r)
      BY <1>3 DEF Fwd
    <3> QED
      BY <1>3, <3>1, StringFwdAtEnd
  <2>2. Left(r) = 0
    BY <1>1, <1>3 DEF Left, ReaderOK, ReaderType
  <2> QED
    BY <1>1, <2>1, <2>2
<1>4. CASE r.kind = "stream"
  <2>1. q = StreamFwd(r)
    BY <1>4 DEF Fwd
  <2>2. /\ q \in ReaderType /\ q.kind = "stream" /\ q.text = r.text
        /\ LinesCounted(q) /\ OneAhead(q)
    BY <1>1, <1>4, <2>1, StreamGoesAhead DEF ReaderOK
  <2>3. CASE r.charsLeft = 0
    <3>1. q = r
      BY <2>1, <2>3, StreamFwdAtLimit
    <3> QED
      BY <1>1, <1>4, <2>3, <3>1 DEF Left
  <2>4. CASE r.charsLeft # 0
    <3>1. q.charsLeft = r.charsLeft - 1 \/ q.charsLeft = 0
      BY <1>1, <2>1, <2>4, StreamFwdInside, StreamFwdPastEnd
    <3> HIDE DEF q
    <3>2. ReaderOK(q) /\ q.kind = r.kind /\ Left(q) \in Nat /\ Left(q) < Left(r)
      BY <1>1, <1>4, <2>2, <2>4, <3>1 DEF ReaderOK, ReaderType, Left
    <3> QED
      BY <1>1, <3>2 DEF q
  <2> QED
    BY <2>3, <2>4
<1> QED
  BY <1>1, <1>2, <1>3, <1>4

(***************************************************************************)
(* What a step keeps, by the kind of step.                                 *)
(***************************************************************************)

Kept == ParserInv' /\ (Distance' < Distance \/ Overruns)

\* A step goes to a lower rank, or moves the reader, or ends an array.
Descends ==
  \/ Rank' < Rank /\ Len(arrays') <= Len(arrays)
  \/ rd' = Fwd(rd) /\ Left(rd) > 0 /\ Len(arrays') <= Len(arrays) + 1
  \/ Len(arrays') < Len(arrays)

LEMMA Weights ==
  ASSUME NEW l \in Nat, NEW m \in Nat, NEW a \in Nat, NEW b \in Nat,
         NEW r \in 0 .. 8, NEW q \in 0 .. 8,
         \/ q < r /\ b <= a /\ m <= l
         \/ m < l /\ b <= a + 1
         \/ b < a /\ m <= l
  PROVE  20 * m + 10 * b + q < 20 * l + 10 * a + r
OBVIOUS

LEMMA Nearer ==
  ASSUME ParserInv, rd' \in {rd, Fwd(rd)}, IsSequence(arrays'), Descends
  PROVE  ReaderInv' /\ Distance' < Distance
<1>1. ReaderOK(rd) /\ Len(arrays) \in Nat /\ Len(arrays') \in Nat
  BY SequenceOf DEF ParserInv, ReaderInv, StackInv, IsSequence
<1>2. Rank \in 0 .. 8 /\ Rank' \in 0 .. 8
  BY DEF Rank
<1>3. /\ ReaderOK(rd') /\ Left(rd) \in Nat /\ Left(rd') \in Nat /\ Left(rd') <= Left(rd)
      /\ rd' = Fwd(rd) /\ Left(rd) > 0 => Left(rd') < Left(rd)
  BY <1>1, CharOfReader, FwdKeepsReader
<1>4. Distance' = 20 * Left(rd') + 10 * Len(arrays') + Rank'
  BY DEF Distance, Left, Rank
<1>5. Distance = 20 * Left(rd) + 10 * Len(arrays) + Rank
  BY DEF Distance
<1>6. \/ Rank' < Rank /\ Len(arrays') <= Len(arrays) /\ Left(rd') <= Left(rd)
      \/ Left(rd') < Left(rd) /\ Len(arrays') <= Len(arrays) + 1
      \/ Len(arrays') < Len(arrays) /\ Left(rd') <= Left(rd)
  BY <1>3 DEF Descends
<1>7. 20 * Left(rd') + 10 * Len(arrays') + Rank' < 20 * Left(rd) + 10 * Len(arrays) + Rank
  BY <1>1, <1>2, <1>3, <1>6, Weights
<1> QED
  BY <1>3, <1>4, <1>5, <1>7 DEF ReaderInv

\* A step that makes no key.
LEMMA QuietStep ==
  ASSUME ParserInv, UNCHANGED <<key, keyStack, cfg>>,
         pc' \notin {"key", "keyEnd"}, ret' \in Rets,
         \/ Target' = Target
         \/ Target' \in {"defs", "done"}
         \/ Target' \in InValue /\ key \in FullKeys,
         Target' = "elems" => arrays' # <<>>,
         rd' \in {rd, Fwd(rd)}, buf' \in Seq(Chars), IsSequence(arrays'),
         pc' = "number" /\ buf' = <<>> => IsNumerical(Here'),
         Descends \/ (ReaderInv' /\ Overruns)
  PROVE  Kept
<1>1. ReaderInv' /\ (Distance' < Distance \/ Overruns)
  BY Nearer
<1>2. StackInv'
  BY DEF StackInv
<1>3. GroupsInv'
  BY DEF ParserInv, GroupsInv
<1>4. KeyInv'
  BY DEF ParserInv, KeyInv, InValue
<1> QED
  BY <1>1, <1>2, <1>3, <1>4 DEF Kept, ParserInv

\* A step that reads nothing but blanks and punctuation.
LEMMA BlankStep ==
  ASSUME ParserInv, UNCHANGED <<buf, key, keyStack, arrays, cfg>>,
         pc' \notin {"key", "keyEnd", "number"}, ret' \in Rets,
         \/ Target' = Target
         \/ Target' \in {"defs", "done"}
         \/ Target' \in InValue \ {"elems"} /\ key \in FullKeys,
         rd' \in {rd, Fwd(rd)},
         Rank' < Rank \/ (rd' = Fwd(rd) /\ Left(rd) > 0)
  PROVE  Kept
<1>1. /\ buf' \in Seq(Chars) /\ IsSequence(arrays') /\ Len(arrays) \in Nat
      /\ Target' = "elems" => arrays' # <<>>
  BY SequenceOf DEF ParserInv, StackInv, IsSequence
<1>2. Descends
  BY <1>1 DEF Descends
<1> QED
  BY <1>1, <1>2, QuietStep

\* The end of a value.
LEMMA DeliverStep ==
  ASSUME ParserInv, key \in FullKeys, NEW outer, NEW value, IsSequence(outer),
         DeliverTo(outer, value), UNCHANGED <<buf, key, keyStack>>,
         rd' \in {rd, Fwd(rd)},
         (outer = arrays /\ Rank = 7) \/ Len(outer) < Len(arrays)
  PROVE  Kept
<1>1. pc' = "comments" /\ go' = TRUE /\ Rank' = 6 /\ Target' = ret'
  BY DEF DeliverTo, SkipTo, Rank, Target, Skipping
<1>2. ret' \in Rets /\ ret' \in {"defs", "elems"}
  BY DEF DeliverTo, SkipTo, Rets
<1>3. /\ IsSequence(arrays') /\ Len(arrays') = Len(outer)
      /\ Len(outer) \in Nat /\ Len(arrays) \in Nat
      /\ ret' = "elems" => arrays' # <<>>
  <2>1. Len(outer) \in Nat /\ Len(arrays) \in Nat
    BY SequenceOf DEF ParserInv, StackInv, IsSequence
  <2>2. CASE outer = <<>>
    BY <2>1, <2>2 DEF DeliverTo, SkipTo
  <2>3. CASE outer # <<>>
    <3>1. arrays' = [outer EXCEPT ![Len(outer)] = Append(outer[Len(outer)], value)]
      BY <2>3 DEF DeliverTo
    <3> QED
      BY <2>1, <2>3, <3>1, ReplaceLast
  <2> QED
    BY <2>2, <2>3
<1>4. Descends
  BY <1>1, <1>3 DEF Descends
<1>5. ReaderInv' /\ Distance' < Distance
  BY <1>3, <1>4, Nearer
<1>6. StackInv'
  BY <1>1, <1>2, <1>3 DEF ParserInv, StackInv
<1>7. GroupsInv'
  <2>1. DOMAIN cfg' \subseteq DOMAIN cfg \union {key}
    BY DEF DeliverTo
  <2> QED
    BY <2>1 DEF ParserInv, GroupsInv
<1>8. KeyInv'
  BY <1>1, <1>2 DEF KeyInv
<1> QED
  BY <1>5, <1>6, <1>7, <1>8 DEF Kept, ParserInv

(***************************************************************************)
(* Blanks.                                                                 *)
(***************************************************************************)

LEMMA BlanksKeep ==
  ASSUME ParserInv,
         Lead \/ Comments \/ CommentKind \/ SingleLine \/ MultiLine \/ MultiLineEnd \/ Blanks
  PROVE  Kept
<1> USE DEF GoTo, SkipTo, Finish, MayFwd, MustFwdTo, Target, Skipping, Rets, Rank
<1>1. FwdMoves(rd) => Left(rd) > 0
  BY CharOfReader DEF ParserInv, ReaderInv
<1>2. ret \in Rets
  BY DEF ParserInv, StackInv
<1>3. CASE Lead
  BY <1>1, <1>2, <1>3, BlankStep DEF Lead
<1>4. CASE Comments
  BY <1>1, <1>2, <1>4, BlankStep DEF Comments
<1>5. CASE CommentKind
  BY <1>1, <1>2, <1>5, BlankStep DEF CommentKind
<1>6. CASE SingleLine
  BY <1>1, <1>2, <1>6, BlankStep DEF SingleLine
<1>7. CASE MultiLine
  BY <1>1, <1>2, <1>7, BlankStep DEF MultiLine
<1>8. CASE MultiLineEnd
  BY <1>1, <1>2, <1>8, BlankStep DEF MultiLineEnd
<1>9. CASE Blanks
  BY <1>1, <1>2, <1>9, BlankStep DEF Blanks
<1> QED
  BY <1>3, <1>4, <1>5, <1>6, <1>7, <1>8, <1>9

(***************************************************************************)
(* Keys and groups.                                                        *)
(***************************************************************************)

\* A key that has been joined to that of its group extends it.
LEMMA JoinedExtends ==
  ASSUME NEW g \in FullKeys, NEW k \in FullKeys
  PROVE  JoinKeys(g, k) \in FullKeys /\ Prolongs(JoinKeys(g, k), g)
<1> DEFINE j == JoinKeys(g, k)
<1>1. /\ g \in Seq(KeyChars) /\ k \in Seq(KeyChars) /\ "." \in KeyChars
      /\ g \in ValidKeys /\ k \in ValidKeys /\ g # <<>> /\ k # <<>>
  BY DEF FullKeys, ValidKeys, KeyChars
<1>2. j \in ValidKeys
  BY <1>1, JoinIsValid
<1>3. /\ j \in Seq(KeyChars) /\ Len(j) = Len(g) + 1 + Len(k)
      /\ \A i \in 1 .. Len(g) + 1 + Len(k) :
           j[i] = IF i <= Len(g) THEN g[i]
                  ELSE IF i = Len(g) + 1 THEN "." ELSE k[i - (Len(g) + 1)]
  BY <1>1, JoinedKey
<1> HIDE DEF j
<1> DEFINE rest == SubSeq(j, Len(g) + 2, Len(j))
<1>4. Len(g) \in Nat /\ Len(k) \in Nat /\ Len(j) \in Nat
  BY <1>1, <1>3
<1>5. /\ rest \in Seq(KeyChars) /\ Len(rest) = Len(k)
      /\ \A i \in 1 .. Len(k) : rest[i] = j[(Len(g) + 2) + i - 1]
  BY <1>3, <1>4
<1> HIDE DEF rest
<1>6. ASSUME NEW i \in 1 .. Len(k) PROVE rest[i] = k[i]
  <2>1. (Len(g) + 2) + i - 1 \in 1 .. Len(g) + 1 + Len(k)
    BY <1>4
  <2>2. ((Len(g) + 2) + i - 1) - (Len(g) + 1) = i /\ (Len(g) + 2) + i - 1 > Len(g) + 1
    BY <1>4
  <2>3. j[(Len(g) + 2) + i - 1] = k[i]
    BY <1>3, <1>4, <2>1, <2>2
  <2> QED
    BY <1>5, <2>3
<1>7. rest = k
  BY <1>1, <1>5, <1>6
<1>8. j # <<>>
  BY <1>3, <1>4
<1> QED
  BY <1>2, <1>7, <1>8 DEF Prolongs, FullKeys, rest, j

\* The test of the Key constructor, on characters that parseKey has read.
LEMMA FullKeyIsKey ==
  ASSUME ParserInv, pc = "keyEnd", IsKeyValid(buf)
  PROVE  Prefixed(FullKey, keyStack) /\ IsKeyValid(FullKey)
<1>1. buf \in FullKeys
  BY DEF ParserInv, KeyInv, FullKeys, ValidKeys
<1>2. CASE keyStack = <<>>
  BY <1>1, <1>2 DEF FullKey, Prefixed
<1>3. CASE keyStack # <<>>
  <2>1. keyStack[Len(keyStack)] \in FullKeys
    BY <1>3 DEF ParserInv, GroupsInv
  <2>2. FullKey = JoinKeys(keyStack[Len(keyStack)], buf)
    BY <1>3 DEF FullKey
  <2> QED
    BY <1>1, <1>3, <2>1, <2>2, JoinedExtends DEF Prefixed, FullKeys, ValidKeys
<1> QED
  BY <1>2, <1>3

LEMMA KeyCharKeeps == ASSUME ParserInv, KeyChar PROVE Kept
<1>1. /\ pc = "key" /\ rd' = Fwd(rd) /\ buf' = Append(buf, Here)
      /\ UNCHANGED <<ret, key, keyStack, arrays, cfg>>
      /\ pc' \in {"key", "keyEnd", "done"}
      /\ pc' = "key" => Here' \in KeyChars
      /\ pc' # "done" => FwdMoves(rd)
  BY DEF KeyChar, MustFwdTo, GoTo, Finish, IsValidKeyChar, Here
<1>2. /\ Here \in KeyChars /\ buf \in Seq(KeyChars) /\ Here \in Chars
      /\ buf \in Seq(Chars)
      /\ FwdMoves(rd) => Left(rd) > 0
  BY <1>1, CharOfReader DEF ParserInv, KeyInv, StackInv, ReaderInv, Here
<1>3. buf' \in Seq(KeyChars) /\ buf' \in Seq(Chars) /\ buf' # <<>>
  <2>1. Append(buf, Here) \in Seq(KeyChars)
    BY <1>2
  <2>2. Append(buf, Here) \in Seq(Chars) /\ Append(buf, Here) # <<>>
    BY <1>2
  <2> QED
    BY <1>1, <2>1, <2>2
<1>4. IsSequence(arrays') /\ Len(arrays) \in Nat
  BY <1>1, SequenceOf DEF ParserInv, StackInv, IsSequence
<1>5. Descends
  <2>1. Len(arrays') <= Len(arrays) /\ Len(arrays') <= Len(arrays) + 1
    BY <1>1, <1>4
  <2>2. pc' = "done" => Rank' < Rank
    BY <1>1 DEF Rank
  <2> QED
    BY <1>1, <1>2, <2>1, <2>2 DEF Descends
<1>6. ReaderInv' /\ Distance' < Distance
  BY <1>1, <1>4, <1>5, Nearer
<1>7. StackInv'
  BY <1>1, <1>3, <1>4 DEF ParserInv, StackInv, Target, Skipping
<1>8. GroupsInv'
  BY <1>1 DEF ParserInv, GroupsInv
<1>9. KeyInv'
  BY <1>1, <1>3 DEF KeyInv, Target, Skipping, InValue
<1> QED
  BY <1>6, <1>7, <1>8, <1>9 DEF Kept, ParserInv

LEMMA EndKeyKeeps == ASSUME ParserInv, EndKey PROVE Kept
<1>1. CASE ~ (IsKeyValid(buf) /\ IsKeyValid(FullKey))
  <2>1. ret \in Rets
    BY DEF ParserInv, StackInv
  <2> QED
    BY <1>1, <2>1, BlankStep DEF EndKey, Finish, Target, Skipping, Rank
<1>2. CASE IsKeyValid(buf) /\ IsKeyValid(FullKey)
  <2>1. /\ pc = "keyEnd" /\ key' = FullKey /\ pc' = "comments" /\ ret' = "delim" /\ go' = TRUE
        /\ UNCHANGED <<rd, buf, keyStack, arrays, cfg>>
    BY <1>2 DEF EndKey, SkipTo
  <2>2. Prefixed(key', keyStack')
    BY <1>2, <2>1, FullKeyIsKey
  <2>3. IsSequence(arrays') /\ Len(arrays) \in Nat
    BY <2>1, SequenceOf DEF ParserInv, StackInv, IsSequence
  <2>4. Descends
    BY <2>1, <2>3 DEF Descends, Rank
  <2>5. ReaderInv' /\ Distance' < Distance
    BY <2>1, <2>3, <2>4, Nearer
  <2>6. StackInv'
    BY <2>1, <2>3 DEF ParserInv, StackInv, Target, Skipping, Rets
  <2>7. GroupsInv'
    BY <2>1 DEF ParserInv, GroupsInv
  <2>8. KeyInv'
    BY <2>1, <2>2 DEF KeyInv, Target, Skipping, InValue
  <2> QED
    BY <2>5, <2>6, <2>7, <2>8 DEF Kept, ParserInv
<1> QED
  BY <1>1, <1>2

\* A group whose key has been prefixed goes on the stack.
LEMMA BeginGroupKeeps == ASSUME ParserInv, BeginGroup PROVE Kept
<1>1. /\ pc = "delim" /\ rd' = Fwd(rd) /\ UNCHANGED <<buf, key, arrays, cfg>>
      /\ keyStack' = IF FwdMoves(rd) THEN Append(keyStack, key) ELSE keyStack
      /\ IF FwdMoves(rd) THEN pc' = "comments" /\ ret' = "defs"
                         ELSE pc' = "done" /\ ret' = ret
  BY DEF BeginGroup, MustFwdSkipTo, SkipTo, Finish
<1>2. Target = "delim" /\ Target' \in {"defs", "done"}
  BY <1>1 DEF Target, Skipping
<1>3. Prefixed(key, keyStack) /\ keyStack \in Seq(FullKeys) /\ ret \in Rets
      /\ \A i \in 1 .. Len(keyStack) - 1 : Prolongs(keyStack[i + 1], keyStack[i])
  BY <1>2 DEF ParserInv, KeyInv, GroupsInv, StackInv
<1>4. GroupsInv'
  <2>1. CASE FwdMoves(rd)
    <3> DEFINE n == Len(keyStack)
    <3> DEFINE stack == Append(keyStack, key)
    <3>1. /\ stack \in Seq(FullKeys) /\ Len(stack) = n + 1 /\ n \in Nat
          /\ \A i \in 1 .. n : stack[i] = keyStack[i]
          /\ stack[n + 1] = key
      BY <1>3 DEF Prefixed
    <3>2. ASSUME NEW i \in 1 .. n PROVE Prolongs(stack[i + 1], stack[i])
      <4>1. CASE i = n
        <5>1. keyStack # <<>>
          BY <1>3, <3>1, <4>1
        <5> QED
          BY <1>3, <3>1, <4>1, <5>1 DEF Prefixed
      <4>2. CASE i # n
        <5>1. i \in 1 .. n - 1 /\ i + 1 \in 1 .. n
          BY <3>1, <4>2
        <5> QED
          BY <1>3, <3>1, <5>1
      <4> QED
        BY <4>1, <4>2
    <3> HIDE DEF stack
    <3>3. keyStack' = stack
      BY <1>1, <2>1 DEF stack
    <3>4. \A i \in 1 .. Len(stack) - 1 : Prolongs(stack[i + 1], stack[i])
      BY <3>1, <3>2
    <3> QED
      BY <1>1, <3>1, <3>3, <3>4 DEF ParserInv, GroupsInv
  <2>2. CASE ~ FwdMoves(rd)
    BY <1>1, <2>2 DEF ParserInv, GroupsInv
  <2> QED
    BY <2>1, <2>2
<1>5. IsSequence(arrays') /\ Len(arrays) \in Nat
  BY <1>1, SequenceOf DEF ParserInv, StackInv, IsSequence
<1>6. Descends
  <2>1. FwdMoves(rd) => Left(rd) > 0
    BY CharOfReader DEF ParserInv, ReaderInv
  <2> QED
    BY <1>1, <1>5, <2>1 DEF Descends, Rank
<1>7. ReaderInv' /\ Distance' < Distance
  BY <1>1, <1>5, <1>6, Nearer
<1>8. StackInv'
  BY <1>1, <1>2, <1>3, <1>5 DEF ParserInv, StackInv, Rets
<1>9. KeyInv'
  BY <1>1, <1>2 DEF KeyInv, InValue
<1> QED
  BY <1>4, <1>7, <1>8, <1>9 DEF Kept, ParserInv

LEMMA CloseGroupKeeps == ASSUME ParserInv, CloseGroup PROVE Kept
<1>1. CASE keyStack = <<>>
  <2>1. /\ pc = "defs" /\ pc' = "done" /\ ret' = ret
        /\ UNCHANGED <<rd, buf, key, keyStack, arrays, cfg>>
    BY <1>1 DEF CloseGroup, Finish
  <2>2. ret' \in Rets /\ Target' = "done" /\ Rank' < Rank
    BY <2>1 DEF ParserInv, StackInv, Target, Skipping, Rank
  <2> QED
    BY <2>1, <2>2, BlankStep
<1>2. CASE keyStack # <<>>
  <2> DEFINE n == Len(keyStack)
  <2> DEFINE front == SubSeq(keyStack, 1, n - 1)
  <2>1. /\ rd' = Fwd(rd) /\ UNCHANGED <<buf, key, arrays, cfg>> /\ keyStack' = front
        /\ pc' = "comments" /\ ret' = "defs" /\ Target' = "defs" /\ Left(rd) > 0
    <3>1. ~ IsAtEof(rd) => Left(rd) > 0
      BY CharOfReader DEF ParserInv, ReaderInv
    <3> QED
      BY <1>2, <3>1 DEF CloseGroup, MayFwd, SkipTo, Target, Skipping
  <2>2. /\ keyStack \in Seq(FullKeys) /\ n \in Nat \ {0}
        /\ \A i \in 1 .. n - 1 : Prolongs(keyStack[i + 1], keyStack[i])
    BY <1>2 DEF ParserInv, GroupsInv
  <2>3. front \in Seq(FullKeys) /\ Len(front) = n - 1
        /\ \A i \in 1 .. n - 1 : front[i] = keyStack[i]
    <3> DEFINE m == n - 1
    <3>1. m \in Nat /\ m <= Len(keyStack)
      BY <2>2
    <3> HIDE DEF m
    <3>2. SubSeq(keyStack, 1, m) \in Seq(FullKeys) /\ Len(SubSeq(keyStack, 1, m)) = m
          /\ \A i \in 1 .. m : SubSeq(keyStack, 1, m)[i] = keyStack[i]
      BY <2>2, <3>1
    <3> QED
      BY <3>2 DEF m
  <2> HIDE DEF front
  <2>4. \A i \in 1 .. Len(front) - 1 : Prolongs(front[i + 1], front[i])
    <3> SUFFICES ASSUME NEW i \in 1 .. Len(front) - 1
                 PROVE  Prolongs(front[i + 1], front[i])
      OBVIOUS
    <3>1. i \in 1 .. n - 1 /\ i + 1 \in 1 .. n - 1
      BY <2>2, <2>3
    <3> QED
      BY <2>2, <2>3, <3>1
  <2>5. GroupsInv'
    BY <2>1, <2>3, <2>4 DEF ParserInv, GroupsInv
  <2>6. IsSequence(arrays') /\ Len(arrays) \in Nat
    BY <2>1, SequenceOf DEF ParserInv, StackInv, IsSequence
  <2>7. Descends
    BY <2>1, <2>6 DEF Descends
  <2>8. ReaderInv' /\ Distance' < Distance
    BY <2>1, <2>6, <2>7, Nearer
  <2>9. StackInv'
    BY <2>1, <2>6 DEF ParserInv, StackInv, Rets
  <2>10. KeyInv'
    BY <2>1 DEF KeyInv, InValue
  <2> QED
    BY <2>5, <2>8, <2>9, <2>10 DEF Kept, ParserInv
<1> QED
  BY <1>1, <1>2

\* The end of the definitions, a delimiter that is none, and the ones that
\* are followed by something else than a group.
LEMMA DefinitionsKeep ==
  ASSUME ParserInv, AtEnd \/ Assign \/ NoDelimiter \/ Element \/ NoValue
  PROVE  Kept
<1> USE DEF GoTo, SkipTo, Finish, MustFwdSkipTo, Target, Skipping, Rets, Rank, InValue
<1>1. FwdMoves(rd) => Left(rd) > 0
  BY CharOfReader DEF ParserInv, ReaderInv
<1>2. ret \in Rets
  BY DEF ParserInv, StackInv
<1>3. CASE AtEnd
  <2>1. /\ pc = "defs" /\ pc' = "done" /\ ret' = ret
        /\ UNCHANGED <<rd, buf, key, keyStack, arrays, cfg>>
    BY <1>3 DEF AtEnd
  <2> QED
    BY <1>2, <2>1, BlankStep
<1>4. CASE Assign
  <2>1. key \in FullKeys
    BY <1>4 DEF Assign, ParserInv, KeyInv, Prefixed
  <2> QED
    BY <1>1, <1>2, <1>4, <2>1, BlankStep DEF Assign
<1>5. CASE NoDelimiter
  <2>1. /\ pc = "delim" /\ pc' = "done" /\ ret' = ret /\ rd' = Fwd(rd)
        /\ UNCHANGED <<buf, key, keyStack, arrays, cfg>>
    BY <1>5 DEF NoDelimiter
  <2> QED
    BY <1>2, <2>1, BlankStep
<1>6. CASE Element
  <2>1. key \in FullKeys
    BY <1>6 DEF Element, ParserInv, KeyInv
  <2> QED
    BY <1>2, <1>6, <2>1, BlankStep DEF Element
<1>7. CASE NoValue
  <2>1. /\ pc = "value" /\ pc' = "done" /\ ret' = ret
        /\ UNCHANGED <<rd, buf, key, keyStack, arrays, cfg>>
    BY <1>7 DEF NoValue
  <2> QED
    BY <1>2, <2>1, BlankStep
<1> QED
  BY <1>3, <1>4, <1>5, <1>6, <1>7

LEMMA BeginKeyKeeps == ASSUME ParserInv, BeginKey PROVE Kept
<1>1. /\ pc = "defs" /\ buf' = <<>>
      /\ UNCHANGED <<rd, ret, key, keyStack, arrays, cfg>>
      /\ pc' \in {"key", "done"}
      /\ pc' = "key" => Here' \in KeyChars
  BY DEF BeginKey, GoTo, Finish, IsValidKeyChar, Here
<1>2. buf' \in Seq(KeyChars) /\ buf' \in Seq(Chars)
  BY <1>1
<1>3. IsSequence(arrays') /\ Len(arrays) \in Nat
  BY <1>1, SequenceOf DEF ParserInv, StackInv, IsSequence
<1>4. Descends
  BY <1>1, <1>3 DEF Descends, Rank
<1>5. ReaderInv' /\ Distance' < Distance
  BY <1>1, <1>3, <1>4, Nearer
<1>6. StackInv'
  BY <1>1, <1>2, <1>3 DEF ParserInv, StackInv, Target, Skipping
<1>7. GroupsInv'
  BY <1>1 DEF ParserInv, GroupsInv
<1>8. KeyInv'
  BY <1>1, <1>2 DEF KeyInv, Target, Skipping, InValue
<1> QED
  BY <1>5, <1>6, <1>7, <1>8 DEF Kept, ParserInv

(***************************************************************************)
(* Values.                                                                 *)
(***************************************************************************)

LEMMA BeginArrayKeeps == ASSUME ParserInv, BeginArray PROVE Kept
<1>1. /\ pc = "value" /\ rd' = Fwd(rd) /\ UNCHANGED <<buf, key, keyStack, cfg>>
      /\ arrays' = IF FwdMoves(rd) THEN Append(arrays, <<>>) ELSE arrays
      /\ IF FwdMoves(rd) THEN pc' = "comments" /\ ret' = "elems"
                         ELSE pc' = "done" /\ ret' = ret
  BY DEF BeginArray, MustFwdSkipTo, SkipTo, Finish
<1>2. /\ ret \in Rets /\ IsSequence(arrays) /\ buf \in Seq(Chars) /\ key \in FullKeys
      /\ FwdMoves(rd) => Left(rd) > 0
      /\ Len(arrays) \in Nat
  BY <1>1, CharOfReader, SequenceOf
     DEF ParserInv, StackInv, ReaderInv, KeyInv, Target, Skipping, InValue, IsSequence
<1>3. /\ IsSequence(arrays')
      /\ FwdMoves(rd) => arrays' # <<>> /\ Len(arrays') = Len(arrays) + 1
  BY <1>1, <1>2, AppendSequence
<1>4. Descends
  BY <1>1, <1>2, <1>3 DEF Descends, Rank
<1>5. /\ Target' = IF FwdMoves(rd) THEN "elems" ELSE "done"
      /\ pc' \notin {"key", "keyEnd", "number"} /\ ret' \in Rets
  BY <1>1, <1>2 DEF Target, Skipping, Rets
<1> QED
  BY <1>1, <1>2, <1>3, <1>4, <1>5, QuietStep DEF InValue

LEMMA EndArrayKeeps == ASSUME ParserInv, EndArray PROVE Kept
<1> DEFINE outer == SubSeq(arrays, 1, Len(arrays) - 1)
<1>1. /\ pc = "elems" /\ rd' = Fwd(rd) /\ UNCHANGED <<buf, key, keyStack>>
      /\ DeliverTo(outer, ArrayData(arrays[Len(arrays)]))
  BY DEF EndArray, MayFwd
<1>2. key \in FullKeys /\ IsSequence(arrays) /\ arrays # <<>>
  BY <1>1 DEF ParserInv, StackInv, KeyInv, Target, Skipping, InValue
<1>3. IsSequence(outer) /\ Len(arrays) \in Nat \ {0} /\ Len(outer) = Len(arrays) - 1
  BY <1>2, FrontSequence
<1> HIDE DEF outer
<1>4. Len(outer) < Len(arrays)
  BY <1>3
<1> QED
  BY <1>1, <1>2, <1>3, <1>4, DeliverStep

\* A step within a value: the characters collected become others.
LEMMA ValueStep ==
  ASSUME ParserInv, UNCHANGED <<key, keyStack, arrays, cfg>>, Target \in InValue,
         pc' \in {"string", "escape", "bool", "number", "done"}, ret' = ret,
         rd' \in {rd, Fwd(rd)}, buf' \in Seq(Chars),
         pc' = "number" /\ buf' = <<>> => IsNumerical(Here'),
         \/ Rank' < Rank
         \/ rd' = Fwd(rd) /\ FwdMoves(rd)
  PROVE  Kept
<1>1. /\ ret' \in Rets /\ key \in FullKeys /\ IsSequence(arrays') /\ Len(arrays) \in Nat
      /\ FwdMoves(rd) => Left(rd) > 0
  BY CharOfReader, SequenceOf DEF ParserInv, StackInv, ReaderInv, KeyInv, IsSequence
<1>2. Target' = pc' /\ Target' \notin {"elems", "key", "keyEnd"}
      /\ Target' \in InValue \union {"done"}
  BY DEF Target, Skipping, InValue
<1>3. Descends
  BY <1>1 DEF Descends
<1> QED
  BY <1>1, <1>2, <1>3, QuietStep

LEMMA AppendChar ==
  ASSUME ParserInv
  PROVE  /\ Here \in Chars /\ buf \in Seq(Chars) /\ Append(buf, Here) \in Seq(Chars)
         /\ Append(buf, Here) # <<>> /\ <<Here>> \in Seq(Chars) /\ <<>> \in Seq(Chars)
<1>1. Here \in Chars /\ buf \in Seq(Chars)
  BY CharOfReader DEF ParserInv, StackInv, ReaderInv, Here
<1>2. Append(buf, Here) \in Seq(Chars) /\ Len(Append(buf, Here)) = Len(buf) + 1
      /\ Len(buf) \in Nat
  BY <1>1
<1>3. <<Here>> \in Seq(Chars) /\ <<>> \in Seq(Chars)
  BY <1>1
<1> QED
  BY <1>1, <1>2, <1>3

LEMMA BeginValueKeeps ==
  ASSUME ParserInv, BeginString \/ BeginNumber \/ BeginBool
  PROVE  Kept
<1> USE DEF GoTo, Finish, MustFwdTo, Target, Skipping, Rank, InValue
<1>1. CASE BeginString
  <2>1. /\ pc = "value" /\ pc' \in {"string", "done"} /\ ret' = ret /\ rd' = Fwd(rd)
        /\ pc' = "done" \/ FwdMoves(rd)
        /\ buf' = <<>> /\ UNCHANGED <<key, keyStack, arrays, cfg>>
    BY <1>1 DEF BeginString
  <2> QED
    BY <2>1, AppendChar, ValueStep
<1>2. CASE BeginNumber
  <2>1. <<Here>> # <<>>
    OBVIOUS
  <2>2. CASE Here \in Signs /\ rd' = Fwd(rd) /\ buf' = <<Here>>
    BY <1>2, <2>1, <2>2, AppendChar, ValueStep DEF BeginNumber
  <2>3. CASE IsNumerical(Here) /\ pc' = "number" /\ UNCHANGED <<rd, ret>> /\ buf' = <<>>
    <3>1. IsNumerical(Here')
      BY <2>3 DEF Here
    <3> QED
      BY <1>2, <2>3, <3>1, AppendChar, ValueStep DEF BeginNumber
  <2> QED
    BY <1>2, <2>2, <2>3 DEF BeginNumber
<1>3. CASE BeginBool
  BY <1>3, AppendChar, ValueStep DEF BeginBool
<1> QED
  BY <1>1, <1>2, <1>3

LEMMA StringKeeps == ASSUME ParserInv, StringChar \/ EscapedChar PROVE Kept
<1> USE DEF GoTo, Finish, MustFwdTo, Target, Skipping, Rank, InValue
<1>1. CASE EscapedChar
  BY <1>1, AppendChar, ValueStep DEF EscapedChar
<1>2. CASE StringChar
  <2>1. pc = "string" /\ Rank = 7 /\ UNCHANGED <<key, keyStack>>
        /\ key \in FullKeys /\ IsSequence(arrays)
    BY <1>2 DEF StringChar, ParserInv, KeyInv, StackInv
  <2>2. CASE Here = "\"" /\ MayFwd /\ Deliver(StringData(buf)) /\ UNCHANGED buf
    BY <2>1, <2>2, DeliverStep DEF MayFwd, Deliver
  <2>3. CASE Here = "\\" /\ MustFwdTo("escape") /\ UNCHANGED <<buf, arrays, cfg>>
    BY <2>1, <2>3, AppendChar, ValueStep
  <2>4. CASE buf' = Append(buf, Here) /\ MustFwdTo("string") /\ UNCHANGED <<arrays, cfg>>
    BY <2>1, <2>4, AppendChar, ValueStep
  <2> QED
    BY <1>2, <2>2, <2>3, <2>4 DEF StringChar
<1> QED
  BY <1>1, <1>2

\* The loop that may not come nearer: at the limit of a stream, getChar goes
\* on returning the last character.
LEMMA NumberCharKeeps == ASSUME ParserInv, NumberChar PROVE Kept
<1>1. /\ pc = "number" /\ pc' = "number" /\ rd' = Fwd(rd) /\ buf' = Append(buf, Here)
      /\ UNCHANGED <<ret, key, keyStack, arrays, cfg>>
      /\ IsAlphanum(Here) \/ Here = "."
  BY DEF NumberChar, MayFwd, GoTo
<1>2. Target = "number" /\ Target' = "number" /\ ret \in Rets /\ IsSequence(arrays)
      /\ Len(arrays) \in Nat
  BY <1>1, SequenceOf DEF Target, Skipping, ParserInv, StackInv, IsSequence
<1>3. Here # NUL
  BY <1>1 DEF IsAlphanum, Digits, Letters, NUL
<1>4. Left(rd) > 0 \/ Overruns
  <2>1. rd \in ReaderType
    BY DEF ParserInv, ReaderInv, ReaderOK
  <2>2. rd.kind \in {"string", "stream"} /\ rd.charsLeft \in Nat
    BY <2>1 DEF ReaderType
  <2> QED
    BY <1>1, <1>3, <2>2, CharOfReader DEF Overruns, Left, ParserInv, ReaderInv, Here
<1>5. ReaderInv'
  BY <1>1, FwdKeepsReader DEF ParserInv, ReaderInv
<1>6. Descends \/ (ReaderInv' /\ Overruns)
  BY <1>1, <1>2, <1>4, <1>5 DEF Descends
<1> QED
  BY <1>1, <1>2, <1>6, AppendChar, QuietStep

\* No number ends before it has begun.
LEMMA EndNumberKeeps == ASSUME ParserInv, EndNumber PROVE Kept
<1>1. pc = "number" /\ UNCHANGED <<rd, buf, key, keyStack>> /\ ~ IsAlphanum(Here)
  BY DEF EndNumber
<1>2. buf # <<>>
  BY <1>1 DEF ParserInv, StackInv, IsNumerical, IsAlphanum
<1>3. Rank = 7 /\ Target \in InValue
  BY <1>1, <1>2 DEF Rank, Target, Skipping, InValue
<1>4. key \in FullKeys /\ IsSequence(arrays)
  BY <1>3 DEF ParserInv, KeyInv, StackInv
<1>5. CASE Deliver(ParseNumber(buf).value)
  BY <1>1, <1>3, <1>4, <1>5, DeliverStep DEF Deliver
<1>6. CASE Finish("UnexpectedChar") /\ UNCHANGED <<arrays, cfg>>
  BY <1>1, <1>3, <1>6, AppendChar, ValueStep DEF Finish, Rank
<1> QED
  BY <1>5, <1>6 DEF EndNumber

LEMMA BoolKeeps == ASSUME ParserInv, BoolChar \/ EndBool PROVE Kept
<1>1. pc = "bool" /\ UNCHANGED <<key, keyStack>>
  BY DEF BoolChar, EndBool
<1>2. Rank = 7 /\ Target \in InValue
  BY <1>1 DEF Rank, Target, Skipping, InValue
<1>3. key \in FullKeys /\ IsSequence(arrays)
  BY <1>2 DEF ParserInv, KeyInv, StackInv
<1>4. CASE EndBool
  <2>1. UNCHANGED <<rd, buf>> /\ \E value : DeliverTo(arrays, value)
    BY <1>4 DEF EndBool, Deliver
  <2> QED
    BY <1>1, <1>2, <1>3, <2>1, DeliverStep
<1>5. CASE BoolChar
  <2>1. UNCHANGED <<arrays, cfg>>
    BY <1>5 DEF BoolChar
  <2>2. CASE MustFwdTo("bool") /\ buf' = Append(buf, Here)
    BY <1>1, <1>2, <2>1, <2>2, AppendChar, ValueStep DEF MustFwdTo, GoTo, Finish, Rank
  <2>3. CASE rd' \in {rd, Fwd(rd)} /\ pc' = "done" /\ UNCHANGED <<ret, buf>>
    BY <1>1, <1>2, <2>1, <2>3, AppendChar, ValueStep DEF Rank
  <2> QED
    BY <1>5, <2>2, <2>3 DEF BoolChar, Finish
<1> QED
  BY <1>4, <1>5

LEMMA NextKeeps == ASSUME ParserInv, Next PROVE Kept
BY BlanksKeep, DefinitionsKeep, CloseGroupKeeps, BeginKeyKeeps, KeyCharKeeps, EndKeyKeeps,
   BeginGroupKeeps, BeginArrayKeeps, EndArrayKeeps, BeginValueKeeps, StringKeeps,
   NumberCharKeeps, EndNumberKeeps, BoolKeeps DEF Next

(***************************************************************************)
(* The first state, and the second parse.                                  *)
(***************************************************************************)

LEMMA NewStringReader ==
  ASSUME NEW text \in Seq(STRING)
  PROVE  ReaderOK(StringReader(text))
<1> DEFINE r == StringReader(text)
<1>1. r.kind = "string" /\ r.cursor = 0 /\ r.text = text
  BY DEF StringReader, Reader
<1>2. r \in ReaderType /\ LinesCounted(r)
  BY NothingCounted DEF StringReader
<1> HIDE DEF r
<1>3. Len(text) \in Nat
  OBVIOUS
<1> QED
  BY <1>1, <1>2, <1>3 DEF ReaderOK, r

LEMMA NewStreamReader ==
  ASSUME NEW text \in Seq(STRING), NEW n \in Nat, NEW c \in Chars
  PROVE  ReaderOK(StdStreamReader(text, n, c))
<1> DEFINE r == Reader("stream", text, n, c)
<1>1. r.kind = "stream"
  BY DEF Reader
<1>2. r \in ReaderType /\ LinesCounted(r)
  BY NothingCounted DEF Chars
<1> HIDE DEF r
<1> DEFINE q == StreamFwd(r)
<1>3. q \in ReaderType /\ q.kind = "stream" /\ LinesCounted(q) /\ OneAhead(q)
  BY <1>1, <1>2, StreamGoesAhead
<1> HIDE DEF q
<1>4. ReaderOK(q)
  BY <1>3 DEF ReaderOK
<1> QED
  BY <1>4 DEF StdStreamReader, q, r

\* A parse begins in a state of the invariant, on whichever reader.
LEMMA StartKeeps ==
  ASSUME NEW reader, ReaderOK(reader), Start(reader)
  PROVE  ParserInv
<1>1. ReaderInv
  BY DEF Start, ReaderInv
<1>2. StackInv
  <2>1. IsSequence(arrays)
    BY DEF Start, IsSequence
  <2> QED
    BY <2>1 DEF Start, StackInv, Target, Skipping, Rets
<1>3. GroupsInv
  <2>1. keyStack \in Seq(FullKeys) /\ Len(keyStack) = 0
    BY DEF Start
  <2>2. DOMAIN cfg = {}
    BY DEF Start, NoEntries
  <2> QED
    BY <2>1, <2>2 DEF GroupsInv
<1>4. KeyInv
  BY DEF Start, KeyInv, Target, Skipping, InValue
<1> QED
  BY <1>1, <1>2, <1>3, <1>4 DEF ParserInv

LEMMA RestartKeeps ==
  ASSUME NEW reader, ReaderOK(reader), Restart(reader)
  PROVE  ParserInv' /\ pc' = "lead"
<1>1. ReaderInv'
  BY DEF Restart, ReaderInv
<1>2. StackInv'
  <2>1. IsSequence(arrays')
    BY DEF Restart, IsSequence
  <2> QED
    BY <2>1 DEF Restart, StackInv, Target, Skipping, Rets
<1>3. GroupsInv'
  <2>1. keyStack' \in Seq(FullKeys) /\ Len(keyStack') = 0
    BY DEF Restart
  <2>2. DOMAIN cfg' = {}
    BY DEF Restart, NoEntries
  <2> QED
    BY <2>1, <2>2 DEF GroupsInv
<1>4. KeyInv'
  BY DEF Restart, KeyInv, Target, Skipping, InValue
<1> QED
  BY <1>1, <1>2, <1>3, <1>4 DEF ParserInv, Restart

LEMMA TwoNextKeeps == ASSUME ParserInv, TwoNext PROVE ParserInv'
<1>1. rd \in ReaderType /\ rd.text \in Seq(STRING) /\ Len(rd.text) \in Nat
  BY DEF ParserInv, ReaderInv, ReaderOK, ReaderType
<1>2. CASE Parse
  BY <1>2, NextKeeps DEF Parse, Kept
<1>3. CASE ReadStream
  <2>1. MaxSize \in Nat /\ NUL \in Chars
    BY DEF MaxSize, Chars
  <2> QED
    BY <1>1, <1>3, <2>1, NewStreamReader, RestartKeeps DEF ReadStream
<1>4. CASE ReadLimited
  <2>1. PICK junk \in IF rd.text = <<>> THEN Junk ELSE {NUL} :
          Restart(StdStreamReader(rd.text \o Rest, Len(rd.text), junk))
    BY <1>4 DEF ReadLimited
  <2>2. junk \in Chars
    BY TextsAssumption DEF Chars
  <2>3. rd.text \o Rest \in Seq(STRING)
    BY <1>1, TextsAssumption
  <2> QED
    BY <1>1, <2>1, <2>2, <2>3, NewStreamReader, RestartKeeps
<1> QED
  BY <1>2, <1>3, <1>4 DEF TwoNext

LEMMA Invariance == TwoSpec => []ParserInv
<1>1. TwoInit => ParserInv
  BY TextsAssumption, NewStringReader, StartKeeps DEF TwoInit
<1>2. ParserInv /\ [TwoNext]_tvars => ParserInv'
  <2> SUFFICES ASSUME ParserInv, [TwoNext]_tvars PROVE ParserInv'
    OBVIOUS
  <2>1. CASE TwoNext
    BY <2>1, TwoNextKeeps
  <2>2. CASE UNCHANGED tvars
    BY <2>2 DEF tvars, vars, ParserInv, ReaderInv, StackInv, GroupsInv, KeyInv,
                Target, Here
  <2> QED
    BY <2>1, <2>2
<1> QED
  BY <1>1, <1>2, PTL DEF TwoSpec

(***************************************************************************)
(* What the invariant says of the keys.                                    *)
(***************************************************************************)

\* KeysWellFormed, which looks for the rest of a key among its parts.
LEMMA InvariantMeansKeys == ASSUME ParserInv PROVE KeysWellFormed
<1>1. /\ keyStack \in Seq(FullKeys) /\ DOMAIN cfg \subseteq FullKeys
      /\ \A i \in 1 .. Len(keyStack) - 1 : Prolongs(keyStack[i + 1], keyStack[i])
  BY DEF ParserInv, GroupsInv
<1>2. \A k \in FullKeys : IsKey(k)
  BY DEF FullKeys, ValidKeys, IsKey
<1>3. /\ \A i \in 1 .. Len(keyStack) : IsKey(keyStack[i])
      /\ \A k \in DOMAIN cfg : IsKey(k)
  BY <1>1, <1>2
<1>4. ASSUME NEW i \in 1 .. Len(keyStack) - 1
      PROVE  \E rest \in {SubSeq(keyStack[i + 1], n, Len(keyStack[i + 1])) :
                            n \in 1 .. Len(keyStack[i + 1])} :
               keyStack[i + 1] = JoinKeys(keyStack[i], rest)
  <2> DEFINE g == keyStack[i]
  <2> DEFINE k == keyStack[i + 1]
  <2>1. g \in FullKeys /\ k \in FullKeys /\ Prolongs(k, g)
    <3>1. i \in 1 .. Len(keyStack) /\ i + 1 \in 1 .. Len(keyStack)
      BY <1>1
    <3> QED
      BY <1>1, <3>1
  <2> HIDE DEF g, k
  <2> DEFINE rest == SubSeq(k, Len(g) + 2, Len(k))
  <2>2. rest \in FullKeys /\ k = JoinKeys(g, rest)
    BY <2>1 DEF Prolongs
  <2>3. /\ g \in Seq(KeyChars) /\ rest \in Seq(KeyChars) /\ "." \in KeyChars
        /\ rest # <<>> /\ Len(g) \in Nat /\ Len(rest) \in Nat \ {0}
    <3> HIDE DEF rest
    <3>1. g \in Seq(KeyChars) /\ rest \in Seq(KeyChars) /\ rest # <<>>
      BY <2>1, <2>2 DEF FullKeys, ValidKeys
    <3>2. "." \in KeyChars
      BY DEF KeyChars
    <3> QED
      BY <3>1, <3>2
  <2>4. Len(k) = Len(g) + 1 + Len(rest)
    BY <2>2, <2>3, JoinedKey
  <2>5. Len(g) + 2 \in 1 .. Len(k)
    BY <2>3, <2>4
  <2>6. \E r \in {SubSeq(k, n, Len(k)) : n \in 1 .. Len(k)} : k = JoinKeys(g, r)
    BY <2>2, <2>5
  <2> QED
    BY <2>6 DEF g, k
<1>5. pc = "keyEnd" /\ IsKeyValid(buf) => IsKeyValid(FullKey)
  BY FullKeyIsKey
<1> QED
  BY <1>3, <1>4, <1>5 DEF KeysWellFormed

(***************************************************************************)
(* The parser as a function.                                               *)
(*                                                                         *)
(* What a step does depends on four answers of the reader: the character   *)
(* under the cursor, the one behind it, whether fwdOrEof would move, and   *)
(* whether the data are at their end.                                      *)
(***************************************************************************)

View(here, ahead, moves, eof) ==
  [here |-> here, ahead |-> ahead, moves |-> moves, eof |-> eof]

ViewOf(r) == View(GetChar(r), GetChar(Fwd(r)), FwdMoves(r), IsAtEof(r))

\* The parser but for its reader.
State(p, r, g, b, k, ks, a, c, o) ==
  [pc |-> p, ret |-> r, go |-> g, buf |-> b, key |-> k, keyStack |-> ks,
   arrays |-> a, cfg |-> c, outcome |-> o]

Now == State(pc, ret, go, buf, key, keyStack, arrays, cfg, outcome)

Skim(s, p, r, g) ==
  State(p, r, g, s.buf, s.key, s.keyStack, s.arrays, s.cfg, s.outcome)

At(s, p) == Skim(s, p, s.ret, s.go)

Collect(s, b) ==
  State(s.pc, s.ret, s.go, b, s.key, s.keyStack, s.arrays, s.cfg, s.outcome)

Nest(s, k, ks, a, c) ==
  State(s.pc, s.ret, s.go, s.buf, k, ks, a, c, s.outcome)

Ended(s, o) ==
  State("done", s.ret, s.go, s.buf, s.key, s.keyStack, s.arrays, s.cfg, o)

Skips(s, r) == Skim(s, "comments", r, TRUE)

IfMoves(v, moved, s) == IF v.moves THEN moved ELSE Ended(s, "UnexpectedEof")

\* The steps that skip blanks.
AfterBlank(s, v) ==
  IF s.pc = "lead" THEN
    IF IsWhitespace(v.here) /\ v.moves THEN s ELSE Skips(s, "defs")
  ELSE IF s.pc = "comments" THEN
    IF v.here = "/" THEN IfMoves(v, Skim(s, "comment2", s.ret, TRUE), s)
    ELSE Skim(s, IF s.go THEN "blanks" ELSE s.ret, s.ret, FALSE)
  ELSE IF s.pc = "comment2" THEN
    IF v.here = "/" THEN At(s, "sl") ELSE IF v.here = "*" THEN At(s, "ml")
    ELSE Ended(s, "UnexpectedChar")
  ELSE IF s.pc = "sl" THEN At(s, IF v.moves /\ v.ahead # NL THEN "sl" ELSE "comments")
  ELSE IF s.pc \in {"ml", "mlStar"} THEN
    IfMoves(v, At(s, IF v.ahead = "/" /\ s.pc = "mlStar" THEN "mlEnd"
                     ELSE IF v.ahead = "*" THEN "mlStar" ELSE "ml"), s)
  ELSE IF s.pc = "mlEnd" THEN At(s, "comments")
  ELSE IF IsWhitespace(v.here)
    THEN Skim(s, IF v.moves THEN "blanks" ELSE "comments", s.ret, v.moves)
    ELSE Skim(s, IF s.go THEN "comments" ELSE s.ret, s.ret, FALSE)

\* The steps of the definition of a key.
FullKeyOf(s) == IF s.keyStack = <<>> THEN s.buf
                ELSE JoinKeys(s.keyStack[Len(s.keyStack)], s.buf)

AfterKey(s, v) ==
  IF s.pc = "defs" THEN
    IF v.eof THEN Ended(s, IF s.keyStack = <<>> THEN "ok" ELSE "UnclosedGroup")
    ELSE IF v.here = "}" THEN
      IF s.keyStack = <<>> THEN Ended(s, "UnmatchedGroupClosure")
      ELSE Skips(Nest(s, s.key, SubSeq(s.keyStack, 1, Len(s.keyStack) - 1), s.arrays, s.cfg),
                 "defs")
    ELSE IF IsValidKeyChar(v.here) THEN At(Collect(s, <<>>), "key")
    ELSE Ended(Collect(s, <<>>), "UnexpectedChar")
  ELSE IF s.pc = "key" THEN
    LET longer == Collect(s, Append(s.buf, v.here))
    IN  IfMoves(v, At(longer, IF IsValidKeyChar(v.ahead) THEN "key" ELSE "keyEnd"), longer)
  ELSE IF s.pc = "keyEnd" THEN
    IF IsKeyValid(s.buf) /\ IsKeyValid(FullKeyOf(s))
      THEN Skips(Nest(s, FullKeyOf(s), s.keyStack, s.arrays, s.cfg), "delim")
      ELSE Ended(s, "InvalidKey")
  ELSE IF v.here = "{" THEN
    IfMoves(v, Skips(Nest(s, s.key, Append(s.keyStack, s.key), s.arrays, s.cfg), "defs"), s)
  ELSE IF v.here = "=" THEN IfMoves(v, Skips(s, "value"), s)
  ELSE IfMoves(v, Ended(s, "UnexpectedChar"), s)

\* The steps within a value.
Delivered(s, outer, value) ==
  IF outer = <<>>
    THEN Skips(Nest(s, s.key, s.keyStack, outer,
                    [k \in DOMAIN s.cfg \union {s.key} |->
                       IF k = s.key THEN value ELSE s.cfg[k]]), "defs")
    ELSE Skips(Nest(s, s.key, s.keyStack,
                    [outer EXCEPT ![Len(outer)] = Append(@, value)], s.cfg), "elems")

AfterBegin(s, v) ==
  IF v.here = "[" THEN
    IfMoves(v, Skips(Nest(s, s.key, s.keyStack, Append(s.arrays, <<>>), s.cfg), "elems"), s)
  ELSE IF v.here = "\"" THEN
    IfMoves(v, At(Collect(s, <<>>), "string"), Collect(s, <<>>))
  ELSE IF v.here \in Signs THEN
    IfMoves(v, At(Collect(s, <<v.here>>), "number"), Collect(s, <<v.here>>))
  ELSE IF IsNumerical(v.here) THEN At(Collect(s, <<>>), "number")
  ELSE IF v.here \in {"y", "n", "t", "f"} THEN
    IfMoves(v, At(Collect(s, <<v.here>>), "bool"), Collect(s, <<v.here>>))
  ELSE Ended(s, "UnexpectedChar")

AfterString(s, v) ==
  LET longer == Collect(s, Append(s.buf, v.here))
  IN  IF s.pc = "string" /\ v.here = "\"" THEN Delivered(s, s.arrays, StringData(s.buf))
      ELSE IF s.pc = "string" /\ v.here = "\\" THEN IfMoves(v, At(s, "escape"), s)
      ELSE IfMoves(v, At(longer, "string"), longer)

InNumber(c) == IsAlphanum(c) \/ c = "."

AfterNumber(s, v) ==
  IF InNumber(v.here) THEN Collect(s, Append(s.buf, v.here))
  ELSE IF ParseNumber(s.buf).parsedChars = Len(s.buf)
    THEN Delivered(s, s.arrays, ParseNumber(s.buf).value)
    ELSE Ended(s, "UnexpectedChar")

IsWord(b)      == b = Words[b[1]]
IsOptional(b)  == b \in {<<"y">>, <<"n">>}
Ends(b, c)     == IsWord(b) \/ (IsOptional(b) /\ ~ IsAlphanum(c))
NextLetter(b)  == Words[b[1]][Len(b) + 1]

AfterBool(s, v) ==
  LET longer == Collect(s, Append(s.buf, v.here))
  IN  IF Ends(s.buf, v.here) THEN Delivered(s, s.arrays, BoolData(s.buf[1] \in {"t", "y"}))
      ELSE IF v.here = NextLetter(s.buf) THEN IfMoves(v, At(longer, "bool"), longer)
      ELSE Ended(s, IF IsOptional(s.buf) /\ ~ v.moves THEN "UnexpectedEof"
                                                      ELSE "UnexpectedChar")

AfterValue(s, v) ==
  IF s.pc = "value" THEN AfterBegin(s, v)
  ELSE IF s.pc = "elems" THEN
    IF v.here = "]" THEN Delivered(s, SubSeq(s.arrays, 1, Len(s.arrays) - 1),
                                   ArrayData(s.arrays[Len(s.arrays)]))
                    ELSE At(s, "value")
  ELSE IF s.pc \in {"string", "escape"} THEN AfterString(s, v)
  ELSE IF s.pc = "number" THEN AfterNumber(s, v)
  ELSE AfterBool(s, v)

BlankPoints == Skipping \union {"lead"}
KeyPoints   == {"defs", "key", "keyEnd", "delim"}

After(s, v) ==
  IF s.pc \in BlankPoints THEN AfterBlank(s, v)
  ELSE IF s.pc \in KeyPoints THEN AfterKey(s, v)
  ELSE AfterValue(s, v)

\* Whether the step calls fwdOrEof.
Forwards(s, c, eof) ==
  \/ s.pc \in {"sl", "ml", "mlStar", "mlEnd", "key", "delim", "string", "escape"}
  \/ s.pc \in {"lead", "blanks"} /\ IsWhitespace(c)
  \/ s.pc = "comments" /\ c = "/"
  \/ s.pc = "defs" /\ ~ eof /\ c = "}" /\ s.keyStack # <<>>
  \/ s.pc = "value" /\ c \in {"[", "\"", "y", "n", "t", "f"} \union Signs
  \/ s.pc = "elems" /\ c = "]"
  \/ s.pc = "number" /\ InNumber(c)
  \/ s.pc = "bool" /\ ~ Ends(s.buf, c) /\ (c = NextLetter(s.buf) \/ IsOptional(s.buf))

\* The steps of the parser are those of the function.
LEMMA BlankSteps ==
  ASSUME Lead \/ Comments \/ CommentKind \/ SingleLine \/ MultiLine \/ MultiLineEnd \/ Blanks
  PROVE  /\ Now' = After(Now, ViewOf(rd))
         /\ rd' = IF Forwards(Now, Here, IsAtEof(rd)) THEN Fwd(rd) ELSE rd
<1> DEFINE n == Now
<1> DEFINE v == ViewOf(rd)
<1> DEFINE c == Here
<1>n. /\ n.pc = pc /\ n.ret = ret /\ n.go = go /\ n.buf = buf /\ n.key = key
      /\ n.keyStack = keyStack /\ n.arrays = arrays /\ n.cfg = cfg /\ n.outcome = outcome
  BY DEF Now, State
<1>v. /\ v.here = c /\ v.ahead = GetChar(Fwd(rd))
      /\ v.moves = FwdMoves(rd) /\ v.eof = IsAtEof(rd)
  BY DEF ViewOf, View, Here
<1>p. Now' = State(pc', ret', go', buf', key', keyStack', arrays', cfg', outcome')
  BY DEF Now
<1> SUFFICES /\ Now' = After(n, v)
             /\ rd' = IF Forwards(n, c, IsAtEof(rd)) THEN Fwd(rd) ELSE rd
  OBVIOUS
<1> HIDE DEF n, v
<1> USE <1>n, <1>v, <1>p DEF GoTo, SkipTo, Finish, MayFwd, MustFwdTo, State, After, AfterBlank,
            Skips, Skim, At, Ended, IfMoves, BlankPoints, Skipping, Forwards
<1>1. CASE Lead
  BY <1>1 DEF Lead, n, Now
<1>2. CASE Comments
  BY <1>2 DEF Comments
<1>3. CASE CommentKind
  BY <1>3 DEF CommentKind
<1>4. CASE SingleLine
  BY <1>4 DEF SingleLine
<1>5. CASE MultiLine
  BY <1>5 DEF MultiLine
<1>6. CASE MultiLineEnd
  BY <1>6 DEF MultiLineEnd
<1>7. CASE Blanks
  BY <1>7 DEF Blanks
<1> QED
  BY <1>1, <1>2, <1>3, <1>4, <1>5, <1>6, <1>7

LEMMA KeySteps ==
  ASSUME AtEnd \/ CloseGroup \/ BeginKey \/ KeyChar \/ EndKey \/ BeginGroup \/ Assign
           \/ NoDelimiter
  PROVE  /\ Now' = After(Now, ViewOf(rd))
         /\ rd' = IF Forwards(Now, Here, IsAtEof(rd)) THEN Fwd(rd) ELSE rd
<1> DEFINE n == Now
<1> DEFINE v == ViewOf(rd)
<1> DEFINE c == Here
<1>n. /\ n.pc = pc /\ n.ret = ret /\ n.go = go /\ n.buf = buf /\ n.key = key
      /\ n.keyStack = keyStack /\ n.arrays = arrays /\ n.cfg = cfg /\ n.outcome = outcome
  BY DEF Now, State
<1>v. /\ v.here = c /\ v.ahead = GetChar(Fwd(rd))
      /\ v.moves = FwdMoves(rd) /\ v.eof = IsAtEof(rd)
  BY DEF ViewOf, View, Here
<1>p. Now' = State(pc', ret', go', buf', key', keyStack', arrays', cfg', outcome')
  BY DEF Now
<1> SUFFICES /\ Now' = After(n, v)
             /\ rd' = IF Forwards(n, c, IsAtEof(rd)) THEN Fwd(rd) ELSE rd
  OBVIOUS
<1> HIDE DEF n, v
<1> USE <1>n, <1>v, <1>p DEF GoTo, SkipTo, Finish, MayFwd, MustFwdTo, MustFwdSkipTo, After, State,
            AfterKey, Skips, Skim, At, Collect, Nest, Ended, IfMoves,
            BlankPoints, Skipping, KeyPoints, Forwards
<1>1. CASE AtEnd
  BY <1>1 DEF AtEnd
<1>2. CASE CloseGroup
  BY <1>2 DEF CloseGroup
<1>3. CASE BeginKey
  BY <1>3 DEF BeginKey
<1>4. CASE KeyChar
  BY <1>4 DEF KeyChar
<1>5. CASE EndKey
  BY <1>5 DEF EndKey, FullKey, FullKeyOf
<1>6. CASE BeginGroup
  <2>1. pc = "delim" /\ Here = "{" /\ rd' = Fwd(rd) /\ UNCHANGED <<buf, key, arrays, cfg>>
    BY <1>6 DEF BeginGroup
  <2>2. CASE FwdMoves(rd)
    BY <1>6, <2>1, <2>2 DEF BeginGroup
  <2>3. CASE ~ FwdMoves(rd)
    BY <1>6, <2>1, <2>3 DEF BeginGroup
  <2> QED
    BY <2>2, <2>3
<1>7. CASE Assign
  BY <1>7 DEF Assign
<1>8. CASE NoDelimiter
  BY <1>8 DEF NoDelimiter
<1> QED
  BY <1>1, <1>2, <1>3, <1>4, <1>5, <1>6, <1>7, <1>8

\* A value that is delivered.
LEMMA DeliverIs ==
  ASSUME NEW outer, NEW value, DeliverTo(outer, value), UNCHANGED <<buf, key, keyStack>>
  PROVE  Now' = Delivered(Now, outer, value)
BY DEF DeliverTo, SkipTo, Now, State, Delivered, Skips, Skim, Nest

LEMMA BeginBoolStep ==
  ASSUME BeginBool
  PROVE  /\ Now' = After(Now, ViewOf(rd))
         /\ rd' = IF Forwards(Now, Here, IsAtEof(rd)) THEN Fwd(rd) ELSE rd
<1>1. /\ pc = "value" /\ UNCHANGED <<key, keyStack, arrays, cfg, ret, go>>
      /\ buf' = <<Here>> /\ rd' = Fwd(rd)
      /\ IF FwdMoves(rd) THEN pc' = "bool" /\ UNCHANGED outcome
                         ELSE pc' = "done" /\ outcome' = "UnexpectedEof"
  BY DEF BeginBool, MustFwdTo, GoTo, Finish
<1>2. /\ Here \notin {"[", "\""} \union Signs /\ ~ IsNumerical(Here)
      /\ Here \in {"y", "n", "t", "f"}
  BY DEF BeginBool, Signs, IsNumerical, Digits
<1>3. /\ After(Now, ViewOf(rd)) = AfterBegin(Now, ViewOf(rd))
      /\ Forwards(Now, Here, IsAtEof(rd))
  BY <1>1, <1>2 DEF After, AfterValue, BlankPoints, KeyPoints, Skipping, Now, State, Forwards
<1>4. AfterBegin(Now, ViewOf(rd)) =
        IfMoves(ViewOf(rd), At(Collect(Now, <<Here>>), "bool"), Collect(Now, <<Here>>))
  BY <1>2 DEF AfterBegin, ViewOf, View, Here
<1>5. Now' = IfMoves(ViewOf(rd), At(Collect(Now, <<Here>>), "bool"), Collect(Now, <<Here>>))
  BY <1>1 DEF IfMoves, At, Skim, Collect, Ended, Now, State, ViewOf, View
<1> QED
  BY <1>1, <1>3, <1>4, <1>5

LEMMA ValueSteps ==
  ASSUME \/ BeginArray \/ Element \/ EndArray \/ BeginString \/ BeginNumber \/ BeginBool
         \/ NoValue \/ StringChar \/ EscapedChar \/ NumberChar \/ EndNumber
  PROVE  /\ Now' = After(Now, ViewOf(rd))
         /\ rd' = IF Forwards(Now, Here, IsAtEof(rd)) THEN Fwd(rd) ELSE rd
<1> DEFINE n == Now
<1> DEFINE v == ViewOf(rd)
<1> DEFINE c == Here
<1>n. /\ n.pc = pc /\ n.ret = ret /\ n.go = go /\ n.buf = buf /\ n.key = key
      /\ n.keyStack = keyStack /\ n.arrays = arrays /\ n.cfg = cfg /\ n.outcome = outcome
  BY DEF Now, State
<1>v. /\ v.here = c /\ v.ahead = GetChar(Fwd(rd))
      /\ v.moves = FwdMoves(rd) /\ v.eof = IsAtEof(rd)
  BY DEF ViewOf, View, Here
<1>p. Now' = State(pc', ret', go', buf', key', keyStack', arrays', cfg', outcome')
  BY DEF Now
<1> SUFFICES /\ Now' = After(n, v)
             /\ rd' = IF Forwards(n, c, IsAtEof(rd)) THEN Fwd(rd) ELSE rd
  OBVIOUS
<1> HIDE DEF n, v
<1> USE <1>n, <1>v, <1>p DEF GoTo, SkipTo, Finish, MayFwd, MustFwdTo, MustFwdSkipTo, State, After,
            AfterValue, AfterBegin, Skips, Skim, At, Collect, Nest, Ended, IfMoves,
            BlankPoints, Skipping, KeyPoints, Forwards, Deliver
<1>1. CASE BeginArray
  <2>1. pc = "value" /\ c = "["
    BY <1>1 DEF BeginArray
  <2>2. Forwards(n, c, IsAtEof(rd))
    BY <2>1
  <2>3. CASE FwdMoves(rd)
    BY <1>1, <2>1, <2>2, <2>3 DEF BeginArray
  <2>4. CASE ~ FwdMoves(rd)
    BY <1>1, <2>1, <2>2, <2>4 DEF BeginArray
  <2> QED
    BY <2>3, <2>4
<1>2. CASE Element
  BY <1>2 DEF Element
<1>3. CASE EndArray
  <2>1. Now' = Delivered(n, SubSeq(arrays, 1, Len(arrays) - 1), ArrayData(arrays[Len(arrays)]))
    BY <1>3, DeliverIs DEF EndArray, n
  <2> QED
    BY <1>3, <2>1 DEF EndArray
<1>4. CASE BeginString
  BY <1>4 DEF BeginString, Signs
<1>5. CASE BeginNumber
  <2>1. /\ pc = "value" /\ UNCHANGED <<key, keyStack, arrays, cfg>>
        /\ Here \notin {"[", "\"", "y", "n", "t", "f"}
    BY <1>5 DEF BeginNumber, Signs, IsNumerical, Digits
  <2>2. CASE Here \in Signs
    <3>1. /\ buf' = <<Here>> /\ rd' = Fwd(rd) /\ UNCHANGED <<ret, go>>
          /\ IF FwdMoves(rd) THEN pc' = "number" /\ UNCHANGED outcome
                             ELSE pc' = "done" /\ outcome' = "UnexpectedEof"
      BY <1>5, <2>2 DEF BeginNumber, Signs, IsNumerical, Digits
    <3> QED
      BY <2>1, <2>2, <3>1
  <2>3. CASE Here \notin Signs
    <3>1. /\ buf' = <<>> /\ pc' = "number" /\ UNCHANGED <<rd, ret, go, outcome>>
          /\ IsNumerical(Here)
      BY <1>5, <2>3 DEF BeginNumber
    <3> QED
      BY <2>1, <2>3, <3>1
  <2> QED
    BY <2>2, <2>3
<1>6. CASE BeginBool
  BY <1>6, BeginBoolStep DEF n, v
<1>7. CASE NoValue
  BY <1>7 DEF NoValue, Signs, IsNumerical, Digits
<1>8. CASE StringChar
  <2>1. /\ pc = "string" /\ UNCHANGED <<key, keyStack>>
        /\ After(n, v) = AfterString(n, v)
        /\ rd' = Fwd(rd) /\ Forwards(n, Here, IsAtEof(rd))
    BY <1>8 DEF StringChar
  <2>2. CASE Here = "\""
    <3>1. Now' = Delivered(n, arrays, StringData(buf))
      BY <1>8, <2>2, DeliverIs DEF StringChar, n
    <3>2. AfterString(n, v) = Delivered(n, arrays, StringData(buf))
      BY <2>1, <2>2 DEF AfterString
    <3> QED
      BY <2>1, <3>1, <3>2
  <2>3. CASE Here = "\\"
    <3>1. UNCHANGED <<buf, arrays, cfg, ret, go>>
          /\ IF FwdMoves(rd) THEN pc' = "escape" /\ UNCHANGED outcome
                             ELSE pc' = "done" /\ outcome' = "UnexpectedEof"
      BY <1>8, <2>3 DEF StringChar
    <3>2. AfterString(n, v) = IfMoves(v, At(n, "escape"), n)
      BY <2>1, <2>3 DEF AfterString
    <3> QED
      BY <2>1, <3>1, <3>2
  <2>4. CASE Here \notin {"\"", "\\"}
    <3>1. UNCHANGED <<arrays, cfg, ret, go>> /\ buf' = Append(buf, Here)
          /\ IF FwdMoves(rd) THEN pc' = "string" /\ UNCHANGED outcome
                             ELSE pc' = "done" /\ outcome' = "UnexpectedEof"
      BY <1>8, <2>4 DEF StringChar
    <3>2. AfterString(n, v) =
            LET longer == Collect(n, Append(buf, Here))
            IN  IfMoves(v, At(longer, "string"), longer)
      BY <2>1, <2>4 DEF AfterString
    <3>3. CASE FwdMoves(rd)
      BY <2>1, <3>1, <3>2, <3>3
    <3>4. CASE ~ FwdMoves(rd)
      BY <2>1, <3>1, <3>2, <3>4
    <3> QED
      BY <3>3, <3>4
  <2> QED
    BY <2>2, <2>3, <2>4
<1>9. CASE EscapedChar
  BY <1>9 DEF EscapedChar, AfterString
<1>10. CASE NumberChar
  BY <1>10 DEF NumberChar, AfterNumber, InNumber
<1>11. CASE EndNumber
  <2>1. /\ pc = "number" /\ UNCHANGED <<rd, buf, key, keyStack>> /\ ~ InNumber(Here)
        /\ After(n, v) = AfterNumber(n, v)
        /\ ~ Forwards(n, Here, IsAtEof(rd))
    BY <1>11 DEF EndNumber, InNumber
  <2>2. CASE ParseNumber(buf).parsedChars = Len(buf)
    <3>1. Now' = Delivered(n, arrays, ParseNumber(buf).value)
      BY <1>11, <2>2, DeliverIs DEF EndNumber, n
    <3>2. AfterNumber(n, v) = Delivered(n, arrays, ParseNumber(buf).value)
      BY <2>1, <2>2 DEF AfterNumber
    <3> QED
      BY <2>1, <3>1, <3>2
  <2>3. CASE ParseNumber(buf).parsedChars # Len(buf)
    BY <1>11, <2>1, <2>3 DEF EndNumber, AfterNumber
  <2> QED
    BY <2>2, <2>3
<1> QED
  BY <1>1, <1>2, <1>3, <1>4, <1>5, <1>6, <1>7, <1>8, <1>9, <1>10, <1>11

LEMMA BoolSteps ==
  ASSUME BoolChar \/ EndBool
  PROVE  /\ Now' = After(Now, ViewOf(rd))
         /\ rd' = IF Forwards(Now, Here, IsAtEof(rd)) THEN Fwd(rd) ELSE rd
<1> DEFINE v == ViewOf(rd)
<1>1. pc = "bool"
  BY DEF BoolChar, EndBool
<1>2. /\ After(Now, v) = AfterBool(Now, v)
      /\ Forwards(Now, Here, IsAtEof(rd)) <=>
           ~ Ends(buf, Here) /\ (Here = NextLetter(buf) \/ IsOptional(buf))
  BY <1>1 DEF After, AfterValue, BlankPoints, KeyPoints, Skipping, Now, State, Forwards
<1>3. /\ v.here = Here /\ v.moves = FwdMoves(rd) /\ Now.buf = buf /\ Now.arrays = arrays
  BY DEF ViewOf, View, Here, Now, State
<1>4. /\ Ends(buf, Here) <=> buf = Word \/ MayEnd
      /\ IsOptional(buf) <=> Optional
      /\ NextLetter(buf) = Word[Len(buf) + 1]
  BY DEF Ends, IsWord, IsOptional, Word, MayEnd, Optional, NextLetter
<1>5. CASE EndBool
  <2>1. Now' = Delivered(Now, arrays, BoolData(buf[1] \in {"t", "y"}))
    BY <1>5, DeliverIs DEF EndBool, Deliver
  <2>2. AfterBool(Now, v) = Delivered(Now, arrays, BoolData(buf[1] \in {"t", "y"}))
    BY <1>3, <1>4, <1>5 DEF EndBool, AfterBool
  <2> QED
    BY <1>2, <1>4, <1>5, <2>1, <2>2 DEF EndBool
<1>6. CASE BoolChar
  <2>1. ~ Ends(buf, Here)
    BY <1>4, <1>6 DEF BoolChar
  <2>2. CASE Here = NextLetter(buf)
    <3>1. /\ rd' = Fwd(rd) /\ buf' = Append(buf, Here)
          /\ UNCHANGED <<ret, go, key, keyStack, arrays, cfg>>
          /\ IF FwdMoves(rd) THEN pc' = "bool" /\ outcome' = outcome
             ELSE pc' = "done" /\ outcome' = "UnexpectedEof"
      BY <1>4, <1>6, <2>2 DEF BoolChar, MustFwdTo, GoTo, Finish
    <3> QED
      BY <1>1, <1>2, <1>3, <2>1, <2>2, <3>1
      DEF AfterBool, IfMoves, At, Skim, Collect, Ended, Now, State
  <2>3. CASE Here # NextLetter(buf)
    <3>1. /\ rd' = IF Optional THEN Fwd(rd) ELSE rd
          /\ UNCHANGED <<buf, ret, go, key, keyStack, arrays, cfg>>
          /\ pc' = "done"
          /\ outcome' = IF Optional /\ ~ FwdMoves(rd) THEN "UnexpectedEof"
                                                     ELSE "UnexpectedChar"
      BY <1>4, <1>6, <2>3 DEF BoolChar, Finish
    <3>2. AfterBool(Now, v) =
            Ended(Now, IF Optional /\ ~ FwdMoves(rd) THEN "UnexpectedEof"
                                                     ELSE "UnexpectedChar")
      BY <1>3, <1>4, <2>1, <2>3 DEF AfterBool
    <3>3. Now' = AfterBool(Now, v)
      BY <3>1, <3>2 DEF Ended, Now, State
    <3> QED
      BY <1>2, <1>4, <2>1, <2>3, <3>1, <3>3
  <2> QED
    BY <2>2, <2>3
<1> QED
  BY <1>5, <1>6

\* A step depends on the reader by what it answers.
LEMMA StepIs ==
  ASSUME Next
  PROVE  /\ Now' = After(Now, ViewOf(rd))
         /\ rd' = IF Forwards(Now, Here, IsAtEof(rd)) THEN Fwd(rd) ELSE rd
BY BlankSteps, KeySteps, ValueSteps, BoolSteps DEF Next

(***************************************************************************)
(* The parse of a text from memory, as the set of its points: a position   *)
(* in the text and a state of the parser.                                  *)
(***************************************************************************)

CharAt(t, p) == IF p < Len(t) THEN t[p + 1] ELSE NUL

TextView(t, p) == View(CharAt(t, p), CharAt(t, p + 1), p < Len(t), p = Len(t))
EndView        == View(NUL, NUL, FALSE, TRUE)

Begin == State("lead", "defs", FALSE, <<>>, <<>>, <<>>, <<>>, NoEntries, "none")

NextPoint(t, p, s) ==
  <<IF p < Len(t) /\ Forwards(s, CharAt(t, p), p = Len(t)) THEN p + 1 ELSE p,
    After(s, TextView(t, p))>>

\* The letters of the words.
Spelling == {"y", "e", "s", "n", "o", "t", "r", "u", "f", "a", "l"}

\* b is the part of a word that parseValueBool has read.
WordPart(b) ==
  /\ b \in Seq(Spelling) /\ Len(b) >= 1
  /\ b[1] \in {"y", "n", "t", "f"} /\ Len(b) <= Len(Words[b[1]])
  /\ \A i \in 1 .. Len(b) : b[i] = Words[b[1]][i]

\* c is the character there.  Only skipWhitespaces leaves blanks behind.
PointOK(s, c) ==
  /\ IsSequence(s.keyStack)
  /\ s.pc \in {"comment2", "sl", "ml", "mlStar", "mlEnd"} => s.go
  /\ s.pc \in Rets \/ (s.pc = "comments" /\ ~ s.go) => ~ IsWhitespace(c)
  /\ s.pc = "key" => IsValidKeyChar(c)
  /\ s.pc = "bool" => WordPart(s.buf)
  /\ s.pc \in BlankPoints \union KeyPoints \union InValue \union {"done"}
  /\ s.ret \in Rets /\ s.go \in BOOLEAN

\* V holds the points a parse of t has been at, f the one it is at.
Path(V, t, f) ==
  /\ <<0, Begin>> \in V /\ f \in V
  /\ \A x \in V : /\ x = <<x[1], x[2]>> /\ x[1] \in 0 .. Len(t)
                  /\ PointOK(x[2], CharAt(t, x[1]))
                  /\ x = f \/ (x[2].pc # "done" /\ NextPoint(t, x[1], x[2]) \in V)

Parsed(V, t, f) == t \in Seq(STRING) /\ Path(V, t, f) /\ f[2].pc = "done"

\* The characters a word ends with.
WordEnds == {"y", "n", "e", "s", "o"}

\* A parse that has run out of characters where f has not.
Short(n, f, x) ==
  /\ n.pc = "done" /\ n.outcome = "UnexpectedEof"
  /\ f[2].outcome = "ok" => x \in WordEnds \union Signs
  /\ x = NL => f[2].outcome = "UnexpectedEof"

\* Where a step from the last character leads to if it ignores fwdOrEof.
Arrivals == {"comments", "number"}

(***************************************************************************)
(* The same text from a stream with a count that is used up.               *)
(***************************************************************************)

\* What the parser sees from then on, if x is the last character.
CountView(x) == View(x, x, FALSE, TRUE)

\* n, where a parse of the same text has ended, has the result of f.
Same(n, f) ==
  n.outcome = f[2].outcome /\ (n.outcome = "ok" => n.cfg = f[2].cfg)

\* How its result may differ.
Agrees(n, f, t, x) ==
  /\ x = NL => Same(n, f)
  /\ f[2].outcome = "ok" =>
       \/ Same(n, f)
       \/ n.outcome = "UnexpectedEof" /\ x \in WordEnds \union {"/"} \union Signs
       \/ n.outcome = "UnclosedGroup" /\ t # <<>> /\ x = "}"
  /\ n.outcome = "ok" =>
       n.cfg = f[2].cfg \/ (f[2].outcome = "UnexpectedChar" /\ x = "]")

\* The parse from memory gets to the same state at the end of the text, or will
\* when both have skipped the blanks.
Trails(V, end, n) ==
  \/ /\ n.pc \in {"comments", "blanks"} /\ n.go \in BOOLEAN /\ n.ret \in Rets
     /\ <<end, Skim(n, n.ret, n.ret, FALSE)>> \in V
  \/ n.pc \in Rets \union {"lead", "number", "done"} /\ <<end, n>> \in V

PastCount(V, t, f, x, n) ==
  \/ t # <<>> /\ x = t[Len(t)] /\ <<Len(t) - 1, n>> \in V
  \/ Trails(V, Len(t), n)
  \/ n.pc = "done" /\ Agrees(n, f, t, x)
  \/ n.pc = "number" /\ InNumber(x)
  \/ f[2].outcome = "UnexpectedChar" /\ x = "]"

\* The stream is read without a limit.
Unlimited(V, t, f, r, n) ==
  /\ r.text = t
  /\ \/ /\ r.cursor \in 1 .. Len(t) /\ r.charsLeft = MaxSize - r.cursor
        /\ r.current = t[r.cursor] /\ <<r.cursor - 1, n>> \in V
     \/ /\ r.charsLeft = 0 /\ r.current = NUL
        /\ <<Len(t), n>> \in V \/ (t # <<>> /\ Short(n, f, t[Len(t)]))

\* It is read with a count.
Counted(V, t, f, r, n) ==
  /\ r.text = t \o Rest
  /\ \/ /\ r.cursor \in 1 .. Len(t) - 1 /\ r.charsLeft = Len(t) - r.cursor
        /\ r.current = t[r.cursor] /\ <<r.cursor - 1, n>> \in V
     \/ /\ r.charsLeft = 0 /\ (t # <<>> => r.current = t[Len(t)])
        /\ PastCount(V, t, f, r.current, n)

\* The parse from memory, and the one from a stream behind it.
CompareInv ==
  /\ rd.kind = "string" =>
       rd.text \in Inputs /\ \E V : Path(V, rd.text, <<rd.cursor, Now>>)
  /\ rd.kind = "stream" =>
       /\ inMemory.text \in Inputs
       /\ \E V, f : /\ Parsed(V, inMemory.text, f)
                    /\ f[2].outcome = inMemory.outcome /\ f[2].cfg = inMemory.cfg
                    /\ \/ Unlimited(V, inMemory.text, f, rd, Now)
                       \/ Counted(V, inMemory.text, f, rd, Now)

\* From one point of a parse to the next.
LEMMA OnPath ==
  ASSUME NEW V, NEW t, NEW f, Parsed(V, t, f), NEW p, NEW s, <<p, s>> \in V
  PROVE  /\ p \in 0 .. Len(t) /\ PointOK(s, CharAt(t, p))
         /\ s.pc = "done" => f = <<p, s>>
         /\ s.pc # "done" => NextPoint(t, p, s) \in V
BY DEF Parsed, Path

LEMMA LastPoint ==
  ASSUME NEW V, NEW t, NEW f, Parsed(V, t, f), NEW s, <<Len(t) - 1, s>> \in V,
         s.pc # "done"
  PROVE  <<IF Forwards(s, t[Len(t)], FALSE) THEN Len(t) ELSE Len(t) - 1,
           After(s, View(t[Len(t)], NUL, TRUE, FALSE))>> \in V
<1> DEFINE p == Len(t) - 1
<1>1. Len(t) \in Nat /\ p \in 0 .. Len(t)
  BY OnPath DEF Parsed
<1>2. p < Len(t) /\ p + 1 = Len(t) /\ ~ (p = Len(t)) /\ ~ (p + 1 < Len(t))
  BY <1>1
<1>3. CharAt(t, p) = t[Len(t)] /\ CharAt(t, p + 1) = NUL
  BY <1>1, <1>2 DEF CharAt
<1>4. TextView(t, p) = View(t[Len(t)], NUL, TRUE, FALSE)
  BY <1>2, <1>3 DEF TextView, View
<1>5. NextPoint(t, p, s) \in V
  BY OnPath
<1>6. Forwards(s, CharAt(t, p), p = Len(t)) <=> Forwards(s, t[Len(t)], FALSE)
  BY <1>2, <1>3 DEF Forwards
<1>7. NextPoint(t, p, s) = <<IF Forwards(s, t[Len(t)], FALSE) THEN Len(t) ELSE p,
                            After(s, View(t[Len(t)], NUL, TRUE, FALSE))>>
  BY <1>2, <1>4, <1>6 DEF NextPoint
<1> QED
  BY <1>5, <1>7

LEMMA EndPoint ==
  ASSUME NEW V, NEW t, NEW f, Parsed(V, t, f), NEW s, <<Len(t), s>> \in V,
         s.pc # "done"
  PROVE  <<Len(t), After(s, EndView)>> \in V
<1>1. Len(t) \in Nat
  BY DEF Parsed
<1>2. ~ (Len(t) < Len(t)) /\ ~ (Len(t) + 1 < Len(t))
  BY <1>1
<1>3. CharAt(t, Len(t)) = NUL /\ CharAt(t, Len(t) + 1) = NUL
  BY <1>2 DEF CharAt
<1>4. TextView(t, Len(t)) = EndView
  <2>1. PICK p : p = Len(t)
    OBVIOUS
  <2>2. /\ p \in Nat /\ Len(t) \in Nat /\ ~ (p < Len(t))
        /\ CharAt(t, p) = NUL /\ CharAt(t, p + 1) = NUL
    BY <1>1, <1>2, <1>3, <2>1
  <2>3. (p < Len(t)) = FALSE /\ (p = Len(t)) = TRUE
    BY <2>1, <2>2
  <2>4. TextView(t, p) = EndView
    BY Zenon, <2>2, <2>3 DEF TextView, EndView
  <2> QED
    BY <2>1, <2>4
<1>5. NextPoint(t, Len(t), s) \in V
  BY OnPath
<1> QED
  BY <1>2, <1>4, <1>5 DEF NextPoint

(***************************************************************************)
(* What a parse comes to that has arrived at the end of the text.          *)
(***************************************************************************)

LEMMA EndsNow ==
  ASSUME NEW V, NEW t, NEW f, Parsed(V, t, f), NEW s, <<Len(t), s>> \in V,
         s.pc # "done", After(s, EndView).pc = "done"
  PROVE  f[2] = After(s, EndView)
<1>1. <<Len(t), After(s, EndView)>> \in V
  BY EndPoint
<1> QED
  BY <1>1, OnPath

LEMMA EndOfValue ==
  ASSUME NEW V, NEW t, NEW f, Parsed(V, t, f), NEW s, <<Len(t), s>> \in V,
         s.pc \in {"value", "elems"}
  PROVE  f[2].outcome = "UnexpectedChar" /\ f[2].cfg = s.cfg
<1>1. ASSUME NEW w, <<Len(t), w>> \in V, w.pc = "value"
      PROVE  f[2].outcome = "UnexpectedChar" /\ f[2].cfg = w.cfg
  <2>1. After(w, EndView) = Ended(w, "UnexpectedChar")
    BY <1>1 DEF After, AfterValue, AfterBegin, BlankPoints, KeyPoints, Skipping, EndView,
                View, Signs, IsNumerical, Digits, NUL
  <2> QED
    BY <1>1, <2>1, EndsNow DEF Ended, State
<1>2. CASE s.pc = "elems"
  <2>1. After(s, EndView) = At(s, "value")
    BY <1>2 DEF After, AfterValue, BlankPoints, KeyPoints, Skipping, EndView, View, NUL
  <2>2. <<Len(t), At(s, "value")>> \in V
    BY <1>2, <2>1, EndPoint
  <2> QED
    BY <1>1, <2>2 DEF At, Skim, State
<1> QED
  BY <1>1, <1>2

LEMMA EndOfDelim ==
  ASSUME NEW V, NEW t, NEW f, Parsed(V, t, f), NEW s, <<Len(t), s>> \in V, s.pc = "delim"
  PROVE  f[2].outcome = "UnexpectedEof" /\ f[2].cfg = s.cfg
<1>1. After(s, EndView) = Ended(s, "UnexpectedEof")
  BY DEF After, AfterKey, BlankPoints, KeyPoints, Skipping, EndView, View, NUL, IfMoves
<1> QED
  BY <1>1, EndsNow DEF Ended, State

LEMMA EndOfDefs ==
  ASSUME NEW V, NEW t, NEW f, Parsed(V, t, f), NEW s, <<Len(t), s>> \in V, s.pc = "defs"
  PROVE  /\ f[2].outcome = IF s.keyStack = <<>> THEN "ok" ELSE "UnclosedGroup"
         /\ f[2].cfg = s.cfg
<1>1. After(s, EndView) = Ended(s, IF s.keyStack = <<>> THEN "ok" ELSE "UnclosedGroup")
  BY DEF After, AfterKey, BlankPoints, KeyPoints, Skipping, EndView, View
<1> QED
  BY <1>1, EndsNow DEF Ended, State

\* The blanks are over at once.
LEMMA EndOfBlanks ==
  ASSUME NEW V, NEW t, NEW f, Parsed(V, t, f), NEW s, <<Len(t), s>> \in V,
         s.pc \in {"comments", "blanks"}, s.go \in BOOLEAN
  PROVE  <<Len(t), Skim(s, s.ret, s.ret, FALSE)>> \in V
<1>1. ASSUME NEW w, <<Len(t), w>> \in V, w.pc \in {"comments", "blanks"}, ~ w.go
      PROVE  <<Len(t), Skim(w, w.ret, w.ret, FALSE)>> \in V
  <2>1. After(w, EndView) = Skim(w, w.ret, w.ret, FALSE)
    BY <1>1 DEF After, AfterBlank, BlankPoints, Skipping, EndView, View, NUL, IsWhitespace, NL
  <2> QED
    BY <1>1, <2>1, EndPoint
<1>2. CASE s.go
  <2>1. After(s, EndView) =
          Skim(s, IF s.pc = "comments" THEN "blanks" ELSE "comments", s.ret, FALSE)
    BY <1>2 DEF After, AfterBlank, BlankPoints, Skipping, EndView, View, NUL, IsWhitespace, NL
  <2> DEFINE w == Skim(s, IF s.pc = "comments" THEN "blanks" ELSE "comments", s.ret, FALSE)
  <2>2. <<Len(t), w>> \in V
    BY <2>1, EndPoint
  <2>3. w.pc \in {"comments", "blanks"} /\ ~ w.go
        /\ Skim(w, w.ret, w.ret, FALSE) = Skim(s, s.ret, s.ret, FALSE)
    BY DEF Skim, State
  <2> QED
    BY <1>1, <2>2, <2>3
<1> QED
  BY <1>1, <1>2

\* ... and the parse goes on where it skipped them for.
LEMMA EndOfSkip ==
  ASSUME NEW V, NEW t, NEW f, Parsed(V, t, f), NEW s, <<Len(t), s>> \in V,
         s.pc \in {"comments", "blanks"}, s.go \in BOOLEAN, s.ret \in Rets
  PROVE  /\ f[2].cfg = s.cfg
         /\ f[2].outcome =
              IF s.ret = "defs" THEN IF s.keyStack = <<>> THEN "ok" ELSE "UnclosedGroup"
              ELSE IF s.ret = "delim" THEN "UnexpectedEof" ELSE "UnexpectedChar"
<1> DEFINE w == Skim(s, s.ret, s.ret, FALSE)
<1>1. <<Len(t), w>> \in V
  BY EndOfBlanks
<1>2. w.pc = s.ret /\ w.cfg = s.cfg /\ w.keyStack = s.keyStack
  BY DEF Skim, State
<1> HIDE DEF w
<1> QED
  BY <1>1, <1>2, EndOfValue, EndOfDelim, EndOfDefs DEF Rets

(***************************************************************************)
(* The last character.                                                     *)
(***************************************************************************)

\* A step that does not call fwdOrEof does not depend on what it would do.
LEMMA StandsStill ==
  ASSUME NEW s, NEW x, NEW a, NEW b, NEW e \in BOOLEAN, ~ Forwards(s, x, e),
         s.pc \in BlankPoints \union KeyPoints \union InValue, s.pc = "defs" => e = FALSE
  PROVE  /\ After(s, View(x, a, FALSE, e)) = After(s, View(x, b, TRUE, FALSE))
         /\ ~ Forwards(s, x, FALSE)
<1> USE DEF View, After, Forwards
<1>1. CASE s.pc \in BlankPoints
  BY <1>1 DEF AfterBlank, BlankPoints, Skipping
<1>2. CASE s.pc \in KeyPoints
  BY <1>2 DEF AfterKey, KeyPoints, BlankPoints, Skipping
<1>3. CASE s.pc = "value"
  <2>1. x \notin {"[", "\"", "y", "n", "t", "f"} \union Signs
    BY <1>3
  <2> QED
    BY <1>3, <2>1 DEF AfterValue, AfterBegin, KeyPoints, BlankPoints, Skipping
<1>4. CASE s.pc \in {"elems", "string", "escape"}
  BY <1>4 DEF AfterValue, KeyPoints, BlankPoints, Skipping
<1>5. CASE s.pc = "number"
  BY <1>5 DEF AfterValue, AfterNumber, KeyPoints, BlankPoints, Skipping
<1>6. CASE s.pc = "bool"
  BY <1>6 DEF AfterValue, AfterBool, KeyPoints, BlankPoints, Skipping
<1> QED
  BY <1>1, <1>2, <1>3, <1>4, <1>5, <1>6 DEF InValue

LEMMA LastBlank ==
  ASSUME NEW V, NEW t, NEW f, Parsed(V, t, f), NEW s, <<Len(t) - 1, s>> \in V,
         s.pc \in BlankPoints, NEW a, NEW e \in BOOLEAN, NEW x, x = t[Len(t)],
         Forwards(s, x, e)
  PROVE  LET n == After(s, View(x, a, FALSE, e))
         IN  (<<Len(t), n>> \in V /\ n.pc \in Arrivals) \/ Short(n, f, x)
<1> DEFINE n == After(s, View(x, a, FALSE, e))
<1> SUFFICES (<<Len(t), n>> \in V /\ n.pc \in Arrivals) \/ Short(n, f, x)
  OBVIOUS
<1>1. s.pc # "done" /\ s.go \in BOOLEAN /\ s.ret \in Rets
      /\ (s.pc \in {"comment2", "sl", "ml", "mlStar", "mlEnd"} => s.go)
  BY OnPath DEF PointOK, BlankPoints, Skipping
<1>2. Forwards(s, x, FALSE)
  BY DEF Forwards, BlankPoints, Skipping
<1> DEFINE w == After(s, View(x, NUL, TRUE, FALSE))
<1>3. <<Len(t), w>> \in V
  BY <1>1, <1>2, LastPoint
<1> HIDE DEF w, n
<1>4. CASE s.pc = "lead"
  <2>1. w = s
    BY <1>2, <1>4 DEF Forwards, After, AfterBlank, BlankPoints, Skipping, View, w
  <2>2. n = Skips(s, "defs") /\ After(s, EndView) = Skips(s, "defs")
    BY <1>4 DEF After, AfterBlank, BlankPoints, Skipping, View, EndView, n
  <2>3. <<Len(t), n>> \in V
    BY <1>1, <1>3, <2>1, <2>2, EndPoint
  <2>4. n.pc = "comments"
    BY <2>2 DEF Skips, Skim, State
  <2> QED
    BY <2>3, <2>4 DEF Arrivals
<1>5. CASE s.pc = "blanks"
  <2>1. IsWhitespace(x)
    BY <1>2, <1>5 DEF Forwards
  <2>2. w = Skim(s, "blanks", s.ret, TRUE) /\ n = Skim(s, "comments", s.ret, FALSE)
    BY <1>5, <2>1 DEF After, AfterBlank, BlankPoints, Skipping, View, w, n
  <2>3. w.pc = "blanks" /\ w.go = TRUE /\ w.ret = s.ret
        /\ Skim(w, "comments", w.ret, FALSE) = n
    BY <2>2 DEF Skim, State
  <2>4. After(w, EndView) = n
    BY <2>3 DEF After, AfterBlank, BlankPoints, Skipping, View, EndView, NUL, IsWhitespace, NL
  <2>5. <<Len(t), n>> \in V
    BY <1>3, <2>3, <2>4, EndPoint
  <2>6. n.pc = "comments"
    BY <2>2 DEF Skim, State
  <2> QED
    BY <2>5, <2>6 DEF Arrivals
<1>6. CASE s.pc = "sl"
  <2>1. w = At(s, "sl") /\ n = At(s, "comments")
    BY <1>6 DEF After, AfterBlank, BlankPoints, Skipping, View, NUL, NL, w, n
  <2>2. w.pc = "sl" /\ At(w, "comments") = n
    BY <2>1 DEF At, Skim, State
  <2>3. After(w, EndView) = n
    BY <2>2 DEF After, AfterBlank, BlankPoints, Skipping, View, EndView
  <2>4. <<Len(t), n>> \in V
    BY <1>3, <2>2, <2>3, EndPoint
  <2>5. n.pc = "comments"
    BY <2>1 DEF At, Skim, State
  <2> QED
    BY <2>4, <2>5 DEF Arrivals
<1>7. CASE s.pc = "mlEnd"
  <2>1. w = At(s, "comments") /\ n = At(s, "comments")
    BY <1>7 DEF After, AfterBlank, BlankPoints, Skipping, View, w, n
  <2>2. n.pc = "comments"
    BY <2>1 DEF At, Skim, State
  <2> QED
    BY <1>3, <2>1, <2>2 DEF Arrivals
<1>8. CASE s.pc = "comments"
  <2>1. x = "/"
    BY <1>2, <1>8 DEF Forwards
  <2>2. w = Skim(s, "comment2", s.ret, TRUE) /\ n = Ended(s, "UnexpectedEof")
    BY <1>8, <2>1 DEF After, AfterBlank, BlankPoints, Skipping, View, IfMoves, w, n
  <2>3. w.pc = "comment2"
    BY <2>2 DEF Skim, State
  <2>4. After(w, EndView) = Ended(w, "UnexpectedChar")
    BY <2>3 DEF After, AfterBlank, BlankPoints, Skipping, View, EndView, NUL
  <2>5. f[2].outcome = "UnexpectedChar"
    BY <1>3, <2>3, <2>4, EndsNow DEF Ended, State
  <2>6. n.pc = "done" /\ n.outcome = "UnexpectedEof"
    BY <2>2 DEF Ended, State
  <2> QED
    BY <2>1, <2>5, <2>6 DEF Short, NL
<1>9. CASE s.pc \in {"ml", "mlStar"}
  <2>1. w = At(s, "ml") /\ n = Ended(s, "UnexpectedEof")
    BY <1>9 DEF After, AfterBlank, BlankPoints, Skipping, View, IfMoves, NUL, w, n
  <2>2. w.pc = "ml"
    BY <2>1 DEF At, Skim, State
  <2>3. After(w, EndView) = Ended(w, "UnexpectedEof")
    BY <2>2 DEF After, AfterBlank, BlankPoints, Skipping, View, EndView, IfMoves
  <2>4. f[2].outcome = "UnexpectedEof"
    BY <1>3, <2>2, <2>3, EndsNow DEF Ended, State
  <2>5. n.pc = "done" /\ n.outcome = "UnexpectedEof"
    BY <2>1 DEF Ended, State
  <2> QED
    BY <2>4, <2>5 DEF Short
<1> QED
  BY <1>2, <1>4, <1>5, <1>6, <1>7, <1>8, <1>9 DEF BlankPoints, Skipping, Forwards

LEMMA LastCharAt ==
  ASSUME NEW V, NEW t, NEW f, Parsed(V, t, f), NEW s, <<Len(t) - 1, s>> \in V
  PROVE  CharAt(t, Len(t) - 1) = t[Len(t)] /\ PointOK(s, t[Len(t)])
<1>1. Len(t) \in Nat /\ Len(t) - 1 \in 0 .. Len(t) /\ PointOK(s, CharAt(t, Len(t) - 1))
  BY OnPath DEF Parsed
<1>2. Len(t) - 1 < Len(t) /\ Len(t) - 1 + 1 = Len(t)
  BY <1>1
<1>3. CharAt(t, Len(t) - 1) = t[Len(t)]
  BY <1>2 DEF CharAt
<1> QED
  BY <1>1, <1>3

LEMMA EndOfKey ==
  ASSUME NEW V, NEW t, NEW f, Parsed(V, t, f), NEW s, <<Len(t), s>> \in V, s.pc = "keyEnd"
  PROVE  f[2].outcome # "ok" /\ f[2].cfg = s.cfg
<1> DEFINE d == Skips(Nest(s, FullKeyOf(s), s.keyStack, s.arrays, s.cfg), "delim")
<1>1. After(s, EndView) \in {Ended(s, "InvalidKey"), d}
  BY DEF After, AfterKey, BlankPoints, KeyPoints, Skipping
<1>2. CASE After(s, EndView) = Ended(s, "InvalidKey")
  BY <1>2, EndsNow DEF Ended, State
<1>3. CASE After(s, EndView) = d
  <2>1. <<Len(t), d>> \in V
    BY <1>3, EndPoint
  <2>2. d.pc = "comments" /\ d.go = TRUE /\ d.ret = "delim" /\ d.cfg = s.cfg
    BY DEF Skips, Skim, Nest, State
  <2> HIDE DEF d
  <2>3. d.pc \in {"comments", "blanks"} /\ d.go \in BOOLEAN /\ d.ret \in Rets
    BY <2>2 DEF Rets
  <2>4. f[2].cfg = d.cfg
    BY <2>1, <2>3, EndOfSkip
  <2>5. f[2].outcome # "ok"
    BY <2>1, <2>2, <2>3, EndOfSkip
  <2> QED
    BY <2>2, <2>4, <2>5
<1> QED
  BY <1>1, <1>2, <1>3

LEMMA LastKey ==
  ASSUME NEW V, NEW t, NEW f, Parsed(V, t, f), NEW s, <<Len(t) - 1, s>> \in V,
         s.pc \in KeyPoints, NEW a, NEW e \in BOOLEAN, s.pc = "defs" => e = FALSE,
         NEW x, x = t[Len(t)], Forwards(s, x, e)
  PROVE  LET n == After(s, View(x, a, FALSE, e))
         IN  (<<Len(t), n>> \in V /\ n.pc \in Arrivals) \/ Short(n, f, x)
<1> DEFINE n == After(s, View(x, a, FALSE, e))
<1> SUFFICES (<<Len(t), n>> \in V /\ n.pc \in Arrivals) \/ Short(n, f, x)
  OBVIOUS
<1>1. s.pc # "done" /\ PointOK(s, x)
  BY LastCharAt DEF KeyPoints
<1>2. Forwards(s, x, FALSE)
  BY DEF Forwards, KeyPoints
<1> DEFINE w == After(s, View(x, NUL, TRUE, FALSE))
<1>3. <<Len(t), w>> \in V
  BY <1>1, <1>2, LastPoint
<1> HIDE DEF w, n
<1>4. CASE s.pc = "defs"
  <2>1. x = "}" /\ s.keyStack # <<>>
    BY <1>2, <1>4 DEF Forwards
  <2>2. w = n
    BY <1>4, <2>1 DEF After, AfterKey, BlankPoints, KeyPoints, Skipping, View, w, n
  <2>3. n.pc = "comments"
    BY <1>4, <2>1 DEF After, AfterKey, BlankPoints, KeyPoints, Skipping, View, Skips, Skim,
                      State, n
  <2> QED
    BY <1>3, <2>2, <2>3 DEF Arrivals
<1>5. CASE s.pc = "key"
  <2> DEFINE longer == Collect(s, Append(s.buf, x))
  <2>1. ~ IsValidKeyChar(NUL) /\ x # NL
    BY <1>1, <1>5 DEF PointOK, IsValidKeyChar, KeyChars, Digits, Letters, NUL, NL
  <2>2. w = At(longer, "keyEnd") /\ n = Ended(longer, "UnexpectedEof")
    BY <1>5, <2>1 DEF After, AfterKey, BlankPoints, KeyPoints, Skipping, View, IfMoves, w, n
  <2>3. n.pc = "done" /\ n.outcome = "UnexpectedEof"
    BY <2>2 DEF Ended, State
  <2>4. w.pc = "keyEnd"
    BY <2>2 DEF At, Skim, State
  <2>6. f[2].outcome # "ok"
    BY <1>3, <2>4, EndOfKey
  <2> QED
    BY <2>1, <2>3, <2>6 DEF Short
<1>6. CASE s.pc = "delim"
  <2>1. x # NL
    BY <1>1, <1>6 DEF PointOK, Rets, IsWhitespace
  <2>2. n = Ended(s, "UnexpectedEof")
    BY <1>6 DEF After, AfterKey, BlankPoints, KeyPoints, Skipping, View, IfMoves, n
  <2>3. n.pc = "done" /\ n.outcome = "UnexpectedEof"
    BY <2>2 DEF Ended, State
  <2>4. CASE x = "{"
    <3>1. w = Skips(Nest(s, s.key, Append(s.keyStack, s.key), s.arrays, s.cfg), "defs")
      BY <1>6, <2>4 DEF After, AfterKey, BlankPoints, KeyPoints, Skipping, View, IfMoves, w
    <3>2. /\ w.pc = "comments" /\ w.go = TRUE /\ w.ret = "defs"
          /\ w.keyStack = Append(s.keyStack, s.key)
      BY <3>1 DEF Skips, Skim, Nest, State
    <3>3. w.keyStack # <<>>
      BY <1>1, <3>2, AppendSequence DEF PointOK
    <3>4. f[2].outcome = "UnclosedGroup"
      BY <1>3, <3>2, <3>3, EndOfSkip DEF Rets
    <3> QED
      BY <2>1, <2>3, <3>4 DEF Short
  <2>5. CASE x = "="
    <3>1. w = Skips(s, "value")
      BY <1>6, <2>5 DEF After, AfterKey, BlankPoints, KeyPoints, Skipping, View, IfMoves, w
    <3>2. w.pc = "comments" /\ w.go = TRUE /\ w.ret = "value"
      BY <3>1 DEF Skips, Skim, State
    <3>3. f[2].outcome = "UnexpectedChar"
      BY <1>3, <3>2, EndOfSkip DEF Rets
    <3> QED
      BY <2>1, <2>3, <3>3 DEF Short
  <2>6. CASE x \notin {"{", "="}
    <3>1. w = Ended(s, "UnexpectedChar")
      BY <1>6, <2>6 DEF After, AfterKey, BlankPoints, KeyPoints, Skipping, View, IfMoves, w
    <3>2. w.pc = "done" /\ w.outcome = "UnexpectedChar"
      BY <3>1 DEF Ended, State
    <3>3. f[2].outcome = "UnexpectedChar"
      BY <1>3, <3>2, OnPath
    <3> QED
      BY <2>1, <2>3, <3>3 DEF Short
  <2> QED
    BY <2>4, <2>5, <2>6
<1> QED
  BY <1>2, <1>4, <1>5, <1>6 DEF KeyPoints, Forwards

\* A point at the end of the text where nothing but an error follows.
LEMMA EndInString ==
  ASSUME NEW V, NEW t, NEW f, Parsed(V, t, f), NEW s, <<Len(t), s>> \in V,
         s.pc \in {"string", "escape"}
  PROVE  f[2].outcome = "UnexpectedEof"
<1>1. After(s, EndView) =
        Ended(Collect(s, Append(s.buf, NUL)), "UnexpectedEof")
  BY DEF After, AfterValue, AfterString, BlankPoints, KeyPoints, Skipping, EndView, View,
         IfMoves, NUL
<1> QED
  BY <1>1, EndsNow DEF Ended, State

\* How the part of a word that has been read goes on.
LEMMA WordLetters ==
  /\ Words["y"] = <<"y", "e", "s">> /\ Words["n"] = <<"n", "o">>
  /\ Words["t"] = <<"t", "r", "u", "e">> /\ Words["f"] = <<"f", "a", "l", "s", "e">>
BY DEF Words

LEMMA WordTexts ==
  ASSUME NEW c \in {"y", "n", "t", "f"}
  PROVE  Words[c] \in Seq(Spelling)
<1>1. <<"y", "e", "s">> \in Seq(Spelling)
  BY DEF Spelling
<1>2. <<"n", "o">> \in Seq(Spelling)
  BY DEF Spelling
<1>3. <<"t", "r", "u", "e">> \in Seq(Spelling)
  BY DEF Spelling
<1>4. <<"f", "a", "l", "s", "e">> \in Seq(Spelling)
  BY DEF Spelling
<1> QED
  BY Zenon, <1>1, <1>2, <1>3, <1>4, WordLetters

LEMMA WholeWord ==
  ASSUME NEW b, WordPart(b)
  PROVE  IsWord(b) <=> Len(b) = Len(Words[b[1]])
<1>1. Words[b[1]] \in Seq(Spelling)
  BY WordTexts DEF WordPart
<1>2. ASSUME Len(b) = Len(Words[b[1]])
      PROVE  b = Words[b[1]]
  BY <1>1, <1>2, SeqEqual DEF WordPart
<1> QED
  BY <1>2 DEF IsWord

LEMMA LongerWord ==
  ASSUME NEW b, WordPart(b), ~ IsWord(b)
  PROVE  LET c == NextLetter(b)
         IN  /\ WordPart(Append(b, c)) /\ ~ IsOptional(Append(b, c))
             /\ c \in {"r", "u", "e", "a", "l", "s", "o"}
             /\ IsWord(Append(b, c)) => c \in WordEnds
<1> DEFINE c == NextLetter(b)
           w == Append(b, c)
           word == Words[b[1]]
<1>1. /\ b \in Seq(Spelling) /\ Len(b) \in Nat /\ Len(b) >= 1
      /\ b[1] \in {"y", "n", "t", "f"}
      /\ Len(b) < Len(word) /\ word \in Seq(Spelling) /\ Len(word) \in Nat
      /\ \A i \in 1 .. Len(b) : b[i] = word[i]
  <2>1. word \in Seq(Spelling)
    BY WordTexts DEF WordPart
  <2>2. Len(b) # Len(word)
    BY WholeWord
  <2> QED
    BY <2>1, <2>2 DEF WordPart
<1>2. c = word[Len(b) + 1]
  BY DEF NextLetter
<1>3. c \in {"r", "u", "e", "a", "l", "s", "o"}
      /\ (Len(b) + 1 = Len(word) => c \in WordEnds)
  <2>1. CASE b[1] = "y"
    BY <1>1, <1>2, <2>1, WordLetters DEF WordEnds
  <2>2. CASE b[1] = "n"
    BY <1>1, <1>2, <2>2, WordLetters DEF WordEnds
  <2>3. CASE b[1] = "t"
    BY <1>1, <1>2, <2>3, WordLetters DEF WordEnds
  <2>4. CASE b[1] = "f"
    BY <1>1, <1>2, <2>4, WordLetters DEF WordEnds
  <2> QED
    BY <1>1, <2>1, <2>2, <2>3, <2>4
<1>4. /\ w \in Seq(Spelling) /\ Len(w) = Len(b) + 1 /\ w[Len(b) + 1] = c
      /\ \A i \in 1 .. Len(b) : w[i] = b[i]
  <2>1. c \in Spelling
    BY <1>1, <1>2, ElementOfSeq
  <2> QED
    BY <1>1, <2>1, AppendProperties
<1> HIDE DEF w, c
<1>5. w[1] = b[1] /\ \A i \in 1 .. Len(w) : w[i] = word[i]
  BY <1>1, <1>2, <1>4
<1>6. WordPart(w)
  BY <1>1, <1>4, <1>5 DEF WordPart
<1>7. ~ IsOptional(w)
  <2>1. Len(w) # 1
    BY <1>1, <1>4
  <2> QED
    BY <2>1 DEF IsOptional
<1>8. IsWord(w) => c \in WordEnds
  BY <1>3, <1>4, <1>5, <1>6, WholeWord
<1> QED
  BY <1>3, <1>6, <1>7, <1>8 DEF w, c

\* A word that is not whole is an error.
LEMMA EndInWord ==
  ASSUME NEW V, NEW t, NEW f, Parsed(V, t, f), NEW s, <<Len(t), s>> \in V,
         s.pc = "bool", WordPart(s.buf), ~ IsWord(s.buf), ~ IsOptional(s.buf)
  PROVE  f[2].outcome = "UnexpectedChar"
<1>1. ~ Ends(s.buf, NUL) /\ NUL # NextLetter(s.buf)
  BY LongerWord DEF Ends, NUL
<1>2. After(s, EndView) = Ended(s, "UnexpectedChar")
  BY <1>1 DEF After, AfterValue, AfterBool, BlankPoints, KeyPoints, Skipping, EndView, View
<1> QED
  BY <1>2, EndsNow DEF Ended, State

LEMMA FirstLetter ==
  ASSUME NEW x \in {"y", "n", "t", "f"}
  PROVE  /\ WordPart(<<x>>) /\ ~ IsWord(<<x>>)
         /\ IsOptional(<<x>>) => x \in WordEnds
<1>1. <<x>> \in Seq(Spelling) /\ Len(<<x>>) = 1 /\ <<x>>[1] = x
  BY DEF Spelling
<1>2. Len(Words[x]) > 1 /\ Words[x][1] = x
  <2>1. CASE x = "y"
    BY <2>1, WordLetters
  <2>2. CASE x = "n"
    BY <2>2, WordLetters
  <2>3. CASE x = "t"
    BY <2>3, WordLetters
  <2>4. CASE x = "f"
    BY <2>4, WordLetters
  <2> QED
    BY <2>1, <2>2, <2>3, <2>4
<1>3. PICK b : b = <<x>>
  OBVIOUS
<1>4. Len(Words[x]) \in Nat
  BY WordTexts
<1>5. WordPart(b)
  BY <1>1, <1>2, <1>3, <1>4 DEF WordPart
<1>6. ~ IsWord(b)
  <2>1. b[1] = x /\ Len(b) = 1
    BY <1>1, <1>3
  <2>2. Len(b) # Len(Words[b[1]])
    <3>1. PICK m : m = Len(Words[x])
      OBVIOUS
    <3>2. m \in Nat /\ m > 1
      BY <1>2, <1>4, <3>1
    <3>3. m # 1
      BY <3>2
    <3> QED
      BY Zenon, <2>1, <3>1, <3>3
  <2> QED
    BY <1>5, <2>2, WholeWord
<1>7. IsOptional(b) => x \in WordEnds
  <2>1. ASSUME b = <<"y">> \/ b = <<"n">>
        PROVE  x = "y" \/ x = "n"
    BY <1>3, <2>1
  <2> QED
    BY <2>1 DEF IsOptional, WordEnds
<1> QED
  BY <1>3, <1>5, <1>6, <1>7

LEMMA LastBegin ==
  ASSUME NEW V, NEW t, NEW f, Parsed(V, t, f), NEW s, <<Len(t) - 1, s>> \in V,
         s.pc = "value", NEW a, NEW e \in BOOLEAN, NEW x, x = t[Len(t)], Forwards(s, x, e)
  PROVE  Short(After(s, View(x, a, FALSE, e)), f, x)
<1> DEFINE n == After(s, View(x, a, FALSE, e))
<1> SUFFICES Short(n, f, x)
  OBVIOUS
<1>1. s.pc # "done" /\ Forwards(s, x, FALSE)
      /\ x \in {"[", "\"", "y", "n", "t", "f"} \union Signs
  BY DEF Forwards
<1> DEFINE w == After(s, View(x, NUL, TRUE, FALSE))
<1>2. <<Len(t), w>> \in V
  BY <1>1, LastPoint
<1> HIDE DEF w, n
<1>3. x # NL
  BY <1>1 DEF Signs, NL
<1>4. /\ n = AfterBegin(s, View(x, a, FALSE, e))
      /\ w = AfterBegin(s, View(x, NUL, TRUE, FALSE))
  BY DEF After, AfterValue, BlankPoints, KeyPoints, Skipping, n, w
<1>5. n.pc = "done" /\ n.outcome = "UnexpectedEof"
  <2>1. ~ IsNumerical(x) \/ x \in Signs
    BY <1>1 DEF IsNumerical, Digits
  <2> QED
    BY <1>1, <1>4, <2>1 DEF AfterBegin, IfMoves, View, Ended, Collect, State
<1>6. CASE x = "["
  <2>1. w = Skips(Nest(s, s.key, s.keyStack, Append(s.arrays, <<>>), s.cfg), "elems")
    BY <1>4, <1>6 DEF AfterBegin, IfMoves, View
  <2>2. w.pc = "comments" /\ w.go = TRUE /\ w.ret = "elems"
    BY <2>1 DEF Skips, Skim, State
  <2>3. f[2].outcome = "UnexpectedChar"
    BY <1>2, <2>2, EndOfSkip DEF Rets
  <2> QED
    BY <1>3, <1>5, <2>3 DEF Short
<1>7. CASE x = "\""
  <2>1. w = At(Collect(s, <<>>), "string")
    BY <1>4, <1>7 DEF AfterBegin, IfMoves, View
  <2>2. w.pc = "string"
    BY <2>1 DEF At, Skim, State
  <2>3. f[2].outcome = "UnexpectedEof"
    BY <1>2, <2>2, EndInString
  <2> QED
    BY <1>3, <1>5, <2>3 DEF Short
<1>8. CASE x \in Signs
  BY <1>3, <1>5, <1>8 DEF Short
<1>9. CASE x \in {"y", "n", "t", "f"}
  <2>1. x \notin {"[", "\""} \union Signs /\ ~ IsNumerical(x)
    BY <1>9 DEF Signs, IsNumerical, Digits
  <2>2. w = At(Collect(s, <<x>>), "bool")
    BY <1>4, <1>9, <2>1 DEF AfterBegin, IfMoves, View
  <2>3. w.pc = "bool" /\ w.buf = <<x>>
    BY <2>2 DEF At, Skim, Collect, State
  <2>4. CASE IsOptional(w.buf)
    <3>1. x \in WordEnds
      BY <1>9, <2>3, <2>4, FirstLetter
    <3> QED
      BY <1>3, <1>5, <3>1 DEF Short
  <2>5. CASE ~ IsOptional(w.buf)
    <3>1. WordPart(w.buf) /\ ~ IsWord(w.buf)
      BY <1>9, <2>3, FirstLetter
    <3>2. f[2].outcome = "UnexpectedChar"
      BY <1>2, <2>3, <2>5, <3>1, EndInWord
    <3> QED
      BY <1>3, <1>5, <3>2 DEF Short
  <2> QED
    BY <2>4, <2>5
<1> QED
  BY <1>1, <1>6, <1>7, <1>8, <1>9

LEMMA LastLetter ==
  ASSUME NEW V, NEW t, NEW f, Parsed(V, t, f), NEW s, <<Len(t) - 1, s>> \in V,
         s.pc = "bool", NEW a, NEW e \in BOOLEAN, NEW x, x = t[Len(t)], Forwards(s, x, e)
  PROVE  Short(After(s, View(x, a, FALSE, e)), f, x)
<1> DEFINE n == After(s, View(x, a, FALSE, e))
<1> SUFFICES Short(n, f, x)
  OBVIOUS
<1>1. /\ s.pc # "done" /\ Forwards(s, x, FALSE) /\ ~ Ends(s.buf, x)
      /\ x = NextLetter(s.buf) \/ IsOptional(s.buf)
      /\ WordPart(s.buf) /\ ~ IsWord(s.buf)
  BY LastCharAt DEF Forwards, Ends, PointOK
<1> DEFINE w == After(s, View(x, NUL, TRUE, FALSE))
<1>2. <<Len(t), w>> \in V
  BY <1>1, LastPoint
<1> HIDE DEF w, n
<1>3. /\ n = AfterBool(s, View(x, a, FALSE, e))
      /\ w = AfterBool(s, View(x, NUL, TRUE, FALSE))
  BY DEF After, AfterValue, BlankPoints, KeyPoints, Skipping, n, w
<1>4. CASE x = NextLetter(s.buf)
  <2> DEFINE longer == Collect(s, Append(s.buf, x))
  <2>1. n = Ended(longer, "UnexpectedEof") /\ w = At(longer, "bool")
    BY <1>1, <1>3, <1>4 DEF AfterBool, IfMoves, View
  <2>2. n.pc = "done" /\ n.outcome = "UnexpectedEof"
    BY <2>1 DEF Ended, State
  <2>3. w.pc = "bool" /\ w.buf = Append(s.buf, x)
    BY <2>1 DEF At, Skim, Collect, State
  <2>4. /\ WordPart(w.buf) /\ ~ IsOptional(w.buf)
        /\ x \in {"r", "u", "e", "a", "l", "s", "o"}
        /\ IsWord(w.buf) => x \in WordEnds
    BY <1>1, <1>4, <2>3, LongerWord
  <2>5. x # NL
    BY <2>4 DEF NL
  <2>6. ~ IsWord(w.buf) => f[2].outcome = "UnexpectedChar"
    BY <1>2, <2>3, <2>4, EndInWord
  <2> QED
    BY <2>2, <2>4, <2>5, <2>6 DEF Short
<1>5. CASE x # NextLetter(s.buf)
  <2>1. n = Ended(s, "UnexpectedEof") /\ w = Ended(s, "UnexpectedChar")
    BY <1>1, <1>3, <1>5 DEF AfterBool, View
  <2>2. n.pc = "done" /\ n.outcome = "UnexpectedEof"
    BY <2>1 DEF Ended, State
  <2>3. w.pc = "done" /\ w.outcome = "UnexpectedChar"
    BY <2>1 DEF Ended, State
  <2>4. f[2].outcome = "UnexpectedChar"
    BY <1>2, <2>3, OnPath
  <2>5. IsAlphanum(x)
    BY <1>1, <1>5 DEF Ends
  <2>6. x # NL
    BY <2>5 DEF IsAlphanum, Digits, Letters, NL
  <2> QED
    BY <2>2, <2>4, <2>6 DEF Short
<1> QED
  BY <1>4, <1>5

LEMMA DeliveredAt ==
  ASSUME NEW s, NEW outer, NEW value
  PROVE  Delivered(s, outer, value).pc = "comments"
BY DEF Delivered, Skips, Skim, State

LEMMA LastInString ==
  ASSUME NEW V, NEW t, NEW f, Parsed(V, t, f), NEW s, <<Len(t) - 1, s>> \in V,
         s.pc \in {"string", "escape"}, NEW a, NEW e \in BOOLEAN, NEW x, x = t[Len(t)],
         Forwards(s, x, e)
  PROVE  LET n == After(s, View(x, a, FALSE, e))
         IN  (<<Len(t), n>> \in V /\ n.pc \in Arrivals) \/ Short(n, f, x)
<1> DEFINE n == After(s, View(x, a, FALSE, e))
<1> SUFFICES (<<Len(t), n>> \in V /\ n.pc \in Arrivals) \/ Short(n, f, x)
  OBVIOUS
<1>1. s.pc # "done" /\ Forwards(s, x, FALSE)
  BY DEF Forwards
<1> DEFINE w == After(s, View(x, NUL, TRUE, FALSE))
<1>2. <<Len(t), w>> \in V
  BY <1>1, LastPoint
<1> HIDE DEF w, n
<1>3. /\ n = AfterString(s, View(x, a, FALSE, e))
      /\ w = AfterString(s, View(x, NUL, TRUE, FALSE))
  BY DEF After, AfterValue, BlankPoints, KeyPoints, Skipping, n, w
<1>4. CASE s.pc = "string" /\ x = "\""
  <2>1. n = Delivered(s, s.arrays, StringData(s.buf)) /\ w = n
    BY <1>3, <1>4 DEF AfterString, View
  <2> QED
    BY <1>2, <2>1, DeliveredAt DEF Arrivals
<1>5. CASE ~ (s.pc = "string" /\ x = "\"")
  <2>1. n.pc = "done" /\ n.outcome = "UnexpectedEof" /\ w.pc \in {"string", "escape"}
    BY <1>3, <1>5 DEF AfterString, View, IfMoves, Ended, At, Skim, State
  <2>2. f[2].outcome = "UnexpectedEof"
    BY <1>2, <2>1, EndInString
  <2> QED
    BY <2>1, <2>2 DEF Short
<1> QED
  BY <1>4, <1>5

LEMMA LastValue ==
  ASSUME NEW V, NEW t, NEW f, Parsed(V, t, f), NEW s, <<Len(t) - 1, s>> \in V,
         s.pc \in InValue, NEW a, NEW e \in BOOLEAN, NEW x, x = t[Len(t)],
         Forwards(s, x, e)
  PROVE  LET n == After(s, View(x, a, FALSE, e))
         IN  (<<Len(t), n>> \in V /\ n.pc \in Arrivals) \/ Short(n, f, x)
<1> DEFINE n == After(s, View(x, a, FALSE, e))
<1> SUFFICES (<<Len(t), n>> \in V /\ n.pc \in Arrivals) \/ Short(n, f, x)
  OBVIOUS
<1>1. CASE s.pc \in {"elems", "number"}
  <2>1. s.pc # "done" /\ Forwards(s, x, FALSE)
    BY <1>1 DEF Forwards
  <2> DEFINE w == After(s, View(x, NUL, TRUE, FALSE))
  <2>2. <<Len(t), w>> \in V
    BY <2>1, LastPoint
  <2> HIDE DEF w, n
  <2>3. CASE s.pc = "elems"
    <3>1. x = "]"
      BY <2>1, <2>3 DEF Forwards
    <3>2. /\ n = Delivered(s, SubSeq(s.arrays, 1, Len(s.arrays) - 1),
                           ArrayData(s.arrays[Len(s.arrays)]))
          /\ w = n
      BY <2>3, <3>1 DEF After, AfterValue, BlankPoints, KeyPoints, Skipping, View, n, w
    <3> QED
      BY <2>2, <3>2, DeliveredAt DEF Arrivals
  <2>4. CASE s.pc = "number"
    <3>1. InNumber(x)
      BY <2>1, <2>4 DEF Forwards
    <3>2. n = Collect(s, Append(s.buf, x)) /\ w = n
      BY <2>4, <3>1 DEF After, AfterValue, AfterNumber, BlankPoints, KeyPoints, Skipping,
                        View, n, w
    <3>3. n.pc = "number"
      BY <2>4, <3>2 DEF Collect, State
    <3> QED
      BY <2>2, <3>2, <3>3 DEF Arrivals
  <2> QED
    BY <1>1, <2>3, <2>4
<1>2. CASE s.pc = "value"
  BY <1>2, LastBegin
<1>3. CASE s.pc = "bool"
  BY <1>3, LastLetter
<1>4. CASE s.pc \in {"string", "escape"}
  BY <1>4, LastInString
<1> QED
  BY <1>1, <1>2, <1>3, <1>4 DEF InValue

\* The step from the last character, when the reader cannot move.
LEMMA LastStep ==
  ASSUME NEW V, NEW t, NEW f, Parsed(V, t, f), NEW s, <<Len(t) - 1, s>> \in V,
         s.pc # "done", NEW a, NEW e \in BOOLEAN, s.pc = "defs" => e = FALSE,
         NEW x, x = t[Len(t)]
  PROVE  LET n == After(s, View(x, a, FALSE, e))
         IN  IF Forwards(s, x, e)
               THEN (<<Len(t), n>> \in V /\ n.pc \in Arrivals) \/ Short(n, f, x)
               ELSE <<Len(t) - 1, n>> \in V
<1>1. s.pc \in BlankPoints \union KeyPoints \union InValue
  BY OnPath DEF PointOK
<1>2. CASE Forwards(s, x, e)
  BY <1>1, <1>2, LastBlank, LastKey, LastValue
<1>3. CASE ~ Forwards(s, x, e)
  <2>1. /\ After(s, View(x, a, FALSE, e)) = After(s, View(x, NUL, TRUE, FALSE))
        /\ ~ Forwards(s, x, FALSE)
    <3>1. \A b : /\ After(s, View(x, a, FALSE, e)) = After(s, View(x, b, TRUE, FALSE))
                 /\ ~ Forwards(s, x, FALSE)
      BY ZenonT(30), <1>1, <1>3, StandsStill
    <3> QED
      BY Zenon, <3>1
  <2> QED
    BY <1>3, <2>1, LastPoint
<1> QED
  BY <1>2, <1>3

LEMMA SameAgrees ==
  ASSUME NEW n, NEW f, NEW t, NEW x, Same(n, f)
  PROVE  Agrees(n, f, t, x)
BY DEF Same, Agrees

LEMMA ShortAgrees ==
  ASSUME NEW n, NEW f, NEW t, NEW x, Short(n, f, x)
  PROVE  n.pc = "done" /\ Agrees(n, f, t, x)
BY DEF Short, Agrees, Same

\* An error where f has one too.
LEMMA BothFail ==
  ASSUME NEW n, NEW f, NEW t, NEW x, n.outcome # "ok", f[2].outcome # "ok",
         x = NL => n.outcome = f[2].outcome
  PROVE  Agrees(n, f, t, x)
BY DEF Agrees, Same

LEMMA TrailsAtEnd ==
  ASSUME NEW V, NEW t, NEW f, Parsed(V, t, f), NEW s, <<Len(t), s>> \in V,
         s.pc \in {"comments", "lead", "number", "done"} \union Rets
  PROVE  Trails(V, Len(t), s)
<1>1. CASE s.pc = "comments"
  <2>1. s.go \in BOOLEAN /\ s.ret \in Rets
    BY OnPath DEF PointOK
  <2>2. <<Len(t), Skim(s, s.ret, s.ret, FALSE)>> \in V
    BY <1>1, <2>1, EndOfBlanks
  <2> QED
    BY <1>1, <2>1, <2>2 DEF Trails
<1>2. CASE s.pc # "comments"
  BY <1>2 DEF Trails
<1> QED
  BY <1>1, <1>2

LEMMA TrailInBlanks ==
  ASSUME NEW V, NEW t, NEW f, Parsed(V, t, f), NEW x, NEW n, Trails(V, Len(t), n),
         n.pc \in {"comments", "blanks"}
  PROVE  PastCount(V, t, f, x, After(n, CountView(x)))
<1> DEFINE m == After(n, CountView(x))
<1> DEFINE w == Skim(n, n.ret, n.ret, FALSE)
<1> SUFFICES PastCount(V, t, f, x, m)
  OBVIOUS
<1>1. /\ n.go \in BOOLEAN /\ n.ret \in Rets /\ <<Len(t), w>> \in V
  BY DEF Trails, Rets
<1>2. w.pc \in Rets
  BY <1>1 DEF Skim, State
<1>3. Trails(V, Len(t), w)
  BY <1>1, <1>2 DEF Trails
<1> HIDE DEF m, w
<1>4. CASE n.pc = "comments" /\ x = "/"
  <2>1. m = Ended(n, "UnexpectedEof")
    BY <1>4 DEF After, AfterBlank, BlankPoints, Skipping, CountView, View, IfMoves, m
  <2>2. m.pc = "done" /\ m.outcome = "UnexpectedEof"
    BY <2>1 DEF Ended, State
  <2>3. Agrees(m, f, t, x)
    BY <1>4, <2>2 DEF Agrees, NL
  <2> QED
    BY <2>2, <2>3 DEF PastCount
<1>5. CASE ~ (n.pc = "comments" /\ x = "/")
  <2>1. \/ m = w
        \/ \E p \in {"comments", "blanks"} : m = Skim(n, p, n.ret, FALSE)
    BY <1>1, <1>5 DEF After, AfterBlank, BlankPoints, Skipping, CountView, View, m, w
  <2>2. ASSUME NEW p \in {"comments", "blanks"}, m = Skim(n, p, n.ret, FALSE)
        PROVE  Trails(V, Len(t), m)
    <3>1. m.pc = p /\ m.go = FALSE /\ m.ret = n.ret /\ Skim(m, m.ret, m.ret, FALSE) = w
      BY <2>2 DEF Skim, State, w
    <3> QED
      BY <1>1, <3>1 DEF Trails
  <2> QED
    BY <1>3, <2>1, <2>2 DEF PastCount
<1> QED
  BY <1>4, <1>5

LEMMA TrailInDefinition ==
  ASSUME NEW V, NEW t, NEW f, Parsed(V, t, f), NEW x, NEW n, <<Len(t), n>> \in V,
         n.pc \in {"lead", "defs", "delim"}
  PROVE  PastCount(V, t, f, x, After(n, CountView(x)))
<1> DEFINE m == After(n, CountView(x))
<1> SUFFICES PastCount(V, t, f, x, m)
  OBVIOUS
<1> DEFINE w == After(n, EndView)
<1>1. <<Len(t), w>> \in V
  BY EndPoint
<1> HIDE DEF m, w
<1>2. CASE n.pc = "lead"
  <2>1. m = Skips(n, "defs") /\ w = m
    BY <1>2 DEF After, AfterBlank, BlankPoints, Skipping, CountView, EndView, View, m, w
  <2>2. m.pc = "comments"
    BY <2>1 DEF Skips, Skim, State
  <2> QED
    BY <1>1, <2>1, <2>2, TrailsAtEnd DEF PastCount
<1>3. CASE n.pc = "defs"
  <2>1. w = m /\ m = Ended(n, IF n.keyStack = <<>> THEN "ok" ELSE "UnclosedGroup")
    BY <1>3 DEF After, AfterKey, BlankPoints, KeyPoints, Skipping, CountView, EndView, View,
                m, w
  <2>2. m.pc = "done"
    BY <2>1 DEF Ended, State
  <2> QED
    BY <1>1, <2>1, <2>2, TrailsAtEnd DEF PastCount
<1>4. CASE n.pc = "delim"
  <2>1. m = Ended(n, "UnexpectedEof")
    BY <1>4 DEF After, AfterKey, BlankPoints, KeyPoints, Skipping, CountView, View, IfMoves, m
  <2>2. m.pc = "done" /\ m.outcome = "UnexpectedEof"
    BY <2>1 DEF Ended, State
  <2>3. f[2].outcome = "UnexpectedEof"
    BY <1>4, EndOfDelim
  <2> QED
    BY <2>2, <2>3, BothFail DEF PastCount
<1> QED
  BY <1>2, <1>3, <1>4

LEMMA TrailInValue ==
  ASSUME NEW V, NEW t, NEW f, Parsed(V, t, f), NEW x, NEW n, <<Len(t), n>> \in V,
         n.pc \in {"value", "elems", "number"}
  PROVE  PastCount(V, t, f, x, After(n, CountView(x)))
<1> DEFINE m == After(n, CountView(x))
<1> SUFFICES PastCount(V, t, f, x, m)
  OBVIOUS
<1> DEFINE w == After(n, EndView)
<1>1. <<Len(t), w>> \in V
  BY EndPoint
<1> HIDE DEF m, w
<1>2. CASE n.pc = "value"
  <2>1. f[2].outcome = "UnexpectedChar"
    BY <1>2, EndOfValue
  <2>2. m = AfterBegin(n, CountView(x))
    BY <1>2 DEF After, AfterValue, BlankPoints, KeyPoints, Skipping, m
  <2>3. CASE x \in {"[", "\"", "y", "n", "t", "f"} \union Signs
    <3>1. m.pc = "done" /\ m.outcome = "UnexpectedEof"
      <4>1. ~ IsNumerical(x) \/ x \in Signs
        BY <2>3 DEF IsNumerical, Digits
      <4> QED
        BY <2>2, <2>3, <4>1 DEF AfterBegin, IfMoves, CountView, View, Ended, Collect, State
    <3>2. x # NL
      BY <2>3 DEF Signs, NL
    <3> QED
      BY <2>1, <3>1, <3>2, BothFail DEF PastCount
  <2>4. CASE x \notin {"[", "\"", "y", "n", "t", "f"} \union Signs /\ IsNumerical(x)
    <3>1. m = At(Collect(n, <<>>), "number")
      BY <2>2, <2>4 DEF AfterBegin, CountView, View
    <3>2. m.pc = "number"
      BY <3>1 DEF At, Skim, State
    <3>3. InNumber(x)
      BY <2>4 DEF InNumber, IsAlphanum, IsNumerical
    <3> QED
      BY <3>2, <3>3 DEF PastCount
  <2>5. CASE x \notin {"[", "\"", "y", "n", "t", "f"} \union Signs /\ ~ IsNumerical(x)
    <3>1. m = Ended(n, "UnexpectedChar")
      BY <2>2, <2>5 DEF AfterBegin, CountView, View
    <3>2. m.pc = "done" /\ m.outcome = "UnexpectedChar"
      BY <3>1 DEF Ended, State
    <3> QED
      BY <2>1, <3>2, BothFail DEF PastCount
  <2> QED
    BY <2>3, <2>4, <2>5
<1>3. CASE n.pc = "elems"
  <2>1. f[2].outcome = "UnexpectedChar"
    BY <1>3, EndOfValue
  <2>2. CASE x = "]"
    BY <2>1, <2>2 DEF PastCount
  <2>3. CASE x # "]"
    <3>1. m = At(n, "value") /\ w = m
      BY <1>3, <2>3 DEF After, AfterValue, BlankPoints, KeyPoints, Skipping, CountView,
                        EndView, View, NUL, m, w
    <3>2. m.pc = "value"
      BY <3>1 DEF At, Skim, State
    <3> QED
      BY <1>1, <3>1, <3>2, TrailsAtEnd DEF PastCount, Rets
  <2> QED
    BY <2>2, <2>3
<1>4. CASE n.pc = "number"
  <2>1. m = AfterNumber(n, CountView(x)) /\ w = AfterNumber(n, EndView)
    BY <1>4 DEF After, AfterValue, BlankPoints, KeyPoints, Skipping, m, w
  <2>2. CASE InNumber(x)
    <3>1. m = Collect(n, Append(n.buf, x))
      BY <2>1, <2>2 DEF AfterNumber, CountView, View
    <3>2. m.pc = "number"
      BY <1>4, <3>1 DEF Collect, State
    <3> QED
      BY <2>2, <3>2 DEF PastCount
  <2>3. CASE ~ InNumber(x)
    <3>1. ~ InNumber(NUL)
      BY DEF InNumber, IsAlphanum, Digits, Letters, NUL
    <3>2. m = w
      BY <2>1, <2>3, <3>1 DEF AfterNumber, CountView, EndView, View
    <3>3. m.pc \in {"comments", "done"}
      BY <2>1, <2>3, DeliveredAt DEF AfterNumber, CountView, View, Ended, State
    <3> QED
      BY <1>1, <3>2, <3>3, TrailsAtEnd DEF PastCount
  <2> QED
    BY <2>2, <2>3
<1> QED
  BY <1>2, <1>3, <1>4

\* parse asks isAtEof before it looks at the last character.
LEMMA LastInDefs ==
  ASSUME NEW V, NEW t, NEW f, Parsed(V, t, f), t # <<>>, NEW x, x = t[Len(t)], NEW n,
         <<Len(t) - 1, n>> \in V, n.pc = "defs"
  PROVE  LET m == After(n, CountView(x))
         IN  m.pc = "done" /\ Agrees(m, f, t, x)
<1> DEFINE m == After(n, CountView(x))
<1> SUFFICES m.pc = "done" /\ Agrees(m, f, t, x)
  OBVIOUS
<1> DEFINE w == After(n, View(x, NUL, TRUE, FALSE))
<1>1. PointOK(n, x) /\ x # NL
  BY LastCharAt DEF PointOK, Rets, IsWhitespace
<1>2. <<IF Forwards(n, x, FALSE) THEN Len(t) ELSE Len(t) - 1, w>> \in V
  BY LastPoint
<1> HIDE DEF m, w
<1>3. m = Ended(n, IF n.keyStack = <<>> THEN "ok" ELSE "UnclosedGroup")
  BY DEF After, AfterKey, BlankPoints, KeyPoints, Skipping, CountView, View, m
<1>4. /\ m.pc = "done" /\ m.cfg = n.cfg
      /\ m.outcome = IF n.keyStack = <<>> THEN "ok" ELSE "UnclosedGroup"
  BY <1>3 DEF Ended, State
<1>5. /\ f[2].outcome = "ok" => x = "}" /\ n.keyStack # <<>>
      /\ (n.keyStack = <<>> => f[2].cfg = n.cfg)
  <2>1. CASE x = "}" /\ n.keyStack # <<>>
    BY <2>1
  <2>2. CASE ~ (x = "}" /\ n.keyStack # <<>>)
    <3>1. ~ Forwards(n, x, FALSE)
      BY <2>2 DEF Forwards
    <3>2. <<Len(t) - 1, w>> \in V
      BY <1>2, <3>1
    <3>3. CASE w.pc = "done"
      <4>1. f[2] = w
        BY <3>2, <3>3, OnPath
      <4>2. w.outcome \in {"UnmatchedGroupClosure", "UnexpectedChar"} /\ w.cfg = n.cfg
        BY <2>2, <3>3 DEF After, AfterKey, BlankPoints, KeyPoints, Skipping, View, Ended,
                          At, Skim, Collect, State, w
      <4> QED
        BY <4>1, <4>2
    <3>4. CASE w.pc # "done"
      <4>1. w = At(Collect(n, <<>>), "key")
        BY <2>2, <3>4 DEF After, AfterKey, BlankPoints, KeyPoints, Skipping, View, Ended,
                          State, w
      <4>2. w.pc = "key" /\ w.cfg = n.cfg
        BY <4>1 DEF At, Skim, Collect, State
      <4> DEFINE k == After(w, View(x, NUL, TRUE, FALSE))
      <4>3. <<Len(t), k>> \in V
        BY <3>2, <4>2, LastPoint DEF Forwards
      <4> HIDE DEF k
      <4>4. ~ IsValidKeyChar(NUL)
        BY DEF IsValidKeyChar, KeyChars, Digits, Letters, NUL
      <4>5. k = At(Collect(w, Append(w.buf, x)), "keyEnd")
        BY <4>2, <4>4 DEF After, AfterKey, BlankPoints, KeyPoints, Skipping, View, IfMoves, k
      <4>6. k.pc = "keyEnd" /\ k.cfg = n.cfg
        BY <4>2, <4>5 DEF At, Skim, Collect, State
      <4>7. f[2].outcome # "ok" /\ f[2].cfg = k.cfg
        BY <4>3, <4>6, EndOfKey
      <4> QED
        BY <4>6, <4>7
    <3> QED
      BY <3>3, <3>4
  <2> QED
    BY <2>1, <2>2
<1> QED
  BY <1>1, <1>4, <1>5 DEF Agrees, Same

\* The count is used up: the parse from memory and this one go on.
LEMMA CountStep ==
  ASSUME NEW V, NEW t, NEW f, Parsed(V, t, f), NEW x, NEW n, PastCount(V, t, f, x, n),
         n.pc # "done"
  PROVE  PastCount(V, t, f, x, After(n, CountView(x)))
<1> DEFINE m == After(n, CountView(x))
<1> SUFFICES PastCount(V, t, f, x, m)
  OBVIOUS
<1>1. CASE t # <<>> /\ x = t[Len(t)] /\ <<Len(t) - 1, n>> \in V
  <2>1. CASE n.pc = "defs"
    BY <1>1, <2>1, LastInDefs DEF PastCount
  <2>2. CASE n.pc # "defs"
    <3>1. IF Forwards(n, x, TRUE)
            THEN (<<Len(t), m>> \in V /\ m.pc \in Arrivals) \/ Short(m, f, x)
            ELSE <<Len(t) - 1, m>> \in V
      BY <1>1, <2>2, LastStep DEF CountView
    <3> HIDE DEF m
    <3> QED
      BY <1>1, <3>1, TrailsAtEnd, ShortAgrees DEF PastCount, Arrivals
  <2> QED
    BY <2>1, <2>2
<1>2. CASE Trails(V, Len(t), n)
  BY <1>2, TrailInBlanks, TrailInDefinition, TrailInValue DEF Trails, Rets
<1>3. CASE n.pc = "number" /\ InNumber(x)
  <2>1. m = Collect(n, Append(n.buf, x))
    BY <1>3 DEF After, AfterValue, AfterNumber, BlankPoints, KeyPoints, Skipping, CountView, View
  <2>2. m.pc = "number"
    BY <1>3, <2>1 DEF Collect, State
  <2> QED
    BY <1>3, <2>2 DEF PastCount
<1>4. CASE f[2].outcome = "UnexpectedChar" /\ x = "]"
  BY <1>4 DEF PastCount
<1> QED
  BY <1>1, <1>2, <1>3, <1>4 DEF PastCount

\* What has come of it when the parse is done.
LEMMA CountResult ==
  ASSUME NEW V, NEW t, NEW f, Parsed(V, t, f), NEW x, NEW n, PastCount(V, t, f, x, n),
         n.pc = "done"
  PROVE  Agrees(n, f, t, x)
<1>1. CASE \E p : <<p, n>> \in V
  <2>1. f[2] = n
    BY <1>1, OnPath
  <2> QED
    BY <2>1, SameAgrees DEF Same
<1>2. CASE f[2].outcome = "UnexpectedChar" /\ x = "]"
  BY <1>2 DEF Agrees, NL
<1> QED
  BY <1>1, <1>2 DEF PastCount, Trails, Rets

(***************************************************************************)
(* The points of a parse.                                                  *)
(***************************************************************************)

\* A point that nothing is said of but where it goes on.
LEMMA PlainPoint ==
  ASSUME NEW s, NEW c, NEW w, NEW h, PointOK(s, c), w.keyStack = s.keyStack,
         w.ret \in Rets, w.go \in BOOLEAN,
         w.pc \in {"blanks", "keyEnd", "number", "string", "escape", "done"}
           \/ (w.pc = "comments" /\ w.go)
  PROVE  PointOK(w, h)
BY DEF PointOK, Rets, BlankPoints, KeyPoints, Skipping, InValue

LEMMA BlankPoint ==
  ASSUME NEW s, NEW c, PointOK(s, c), s.pc \in BlankPoints, NEW d,
         NEW m \in BOOLEAN, NEW e \in BOOLEAN, ~ m => c = NUL
  PROVE  PointOK(After(s, View(c, d, m, e)), IF m /\ Forwards(s, c, e) THEN d ELSE c)
<1> DEFINE w == After(s, View(c, d, m, e))
<1> DEFINE h == IF m /\ Forwards(s, c, e) THEN d ELSE c
<1> SUFFICES PointOK(w, h)
  OBVIOUS
<1>1. /\ IsSequence(s.keyStack) /\ s.ret \in Rets /\ s.go \in BOOLEAN
      /\ s.pc \in {"comment2", "sl", "ml", "mlStar", "mlEnd"} => s.go
      /\ s.pc = "comments" /\ ~ s.go => ~ IsWhitespace(c)
  BY DEF PointOK
<1>2. w = AfterBlank(s, View(c, d, m, e))
  BY DEF After
<1>3. ~ IsWhitespace(NUL)
  BY DEF IsWhitespace, NUL, NL
<1>4. IsWhitespace(c) => m
  BY <1>3
<1>5. w.keyStack = s.keyStack /\ w.ret \in Rets /\ w.go \in BOOLEAN
  <2> DEFINE v == View(c, d, m, e)
  <2>1. v.here = c /\ v.moves = m
    BY DEF View
  <2> HIDE DEF v, w
  <2>2. w = AfterBlank(s, v)
    BY <1>2 DEF v
  <2>3. w.keyStack = s.keyStack /\ w.ret \in {s.ret, "defs"}
    BY <2>2 DEF AfterBlank, Skips, Skim, At, Ended, IfMoves, State
  <2>4. w.go = s.go \/ w.go = TRUE \/ w.go = FALSE \/ w.go = m
    BY Zenon, <2>1, <2>2 DEF AfterBlank, Skips, Skim, At, Ended, IfMoves, State
  <2> QED
    BY <1>1, <2>3, <2>4 DEF Rets
<1>6. ~ Forwards(s, c, e) => h = c
  OBVIOUS
<1> HIDE DEF w, h
<1>7. CASE s.pc = "lead"
  <2>1. w = s \/ w = Skips(s, "defs")
    BY <1>2, <1>7 DEF AfterBlank, View
  <2>2. CASE w = s
    BY <1>1, <1>7, <2>2 DEF PointOK, Rets, BlankPoints, KeyPoints, Skipping, InValue
  <2>3. CASE w = Skips(s, "defs")
    <3>1. w.pc = "comments" /\ w.go
      BY <2>3 DEF Skips, Skim, State
    <3> QED
      BY <1>5, <3>1, PlainPoint
  <2> QED
    BY <2>1, <2>2, <2>3
<1>8. CASE s.pc = "comments"
  <2>1. CASE c = "/"
    <3>1. \/ w.pc = "comment2" /\ w.go
          \/ w.pc = "done"
      BY <1>2, <1>8, <2>1 DEF AfterBlank, IfMoves, View, Skim, Ended, State
    <3> QED
      BY <1>1, <1>5, <3>1 DEF PointOK, Rets, BlankPoints, KeyPoints, Skipping, InValue
  <2>2. CASE c # "/"
    <3>1. h = c
      BY <1>6, <1>8, <2>2 DEF Forwards
    <3>2. w.pc = IF s.go THEN "blanks" ELSE s.ret
      BY <1>2, <1>8, <2>2 DEF AfterBlank, View, Skim, State
    <3> QED
      BY <1>1, <1>5, <1>8, <3>1, <3>2 DEF PointOK, Rets, BlankPoints, KeyPoints, Skipping, InValue
  <2> QED
    BY <2>1, <2>2
<1>9. CASE s.pc \in {"comment2", "sl", "ml", "mlStar", "mlEnd"}
  <2>1. /\ w.go = s.go
        /\ w.pc \in {"sl", "ml", "mlStar", "mlEnd", "comments", "done"}
    BY <1>2, <1>9 DEF AfterBlank, IfMoves, View, Skim, At, Ended, State
  <2> QED
    BY <1>1, <1>5, <1>9, <2>1 DEF PointOK, Rets, BlankPoints, KeyPoints, Skipping, InValue
<1>10. CASE s.pc = "blanks"
  <2>1. CASE IsWhitespace(c)
    <3>1. w.pc = "blanks"
      BY <1>2, <1>4, <1>10, <2>1 DEF AfterBlank, View, Skim, State
    <3> QED
      BY <1>5, <3>1, PlainPoint
  <2>2. CASE ~ IsWhitespace(c)
    <3>1. h = c
      BY <1>6, <1>10, <2>2 DEF Forwards
    <3>2. w.pc = IF s.go THEN "comments" ELSE s.ret
      BY <1>2, <1>10, <2>2 DEF AfterBlank, View, Skim, State
    <3> QED
      BY <1>1, <1>5, <2>2, <3>1, <3>2 DEF PointOK, Rets, BlankPoints, KeyPoints, Skipping, InValue
  <2> QED
    BY <2>1, <2>2
<1> QED
  BY <1>7, <1>8, <1>9, <1>10 DEF BlankPoints, Skipping

LEMMA KeyPoint ==
  ASSUME NEW s, NEW c, PointOK(s, c), s.pc \in KeyPoints, NEW d,
         NEW m \in BOOLEAN, NEW e \in BOOLEAN
  PROVE  PointOK(After(s, View(c, d, m, e)), IF m /\ Forwards(s, c, e) THEN d ELSE c)
<1> DEFINE w == After(s, View(c, d, m, e))
<1> DEFINE h == IF m /\ Forwards(s, c, e) THEN d ELSE c
<1> SUFFICES PointOK(w, h)
  OBVIOUS
<1>1. IsSequence(s.keyStack) /\ s.ret \in Rets /\ s.go \in BOOLEAN
  BY DEF PointOK
<1>2. w = AfterKey(s, View(c, d, m, e))
  BY DEF After, BlankPoints, KeyPoints, Skipping
<1>3. m /\ Forwards(s, c, e) => h = d
  OBVIOUS
<1>4. ~ Forwards(s, c, e) => h = c
  OBVIOUS
<1>5. ASSUME w.ret \in {s.ret, "defs", "delim", "value"}, w.go = s.go \/ w.go = TRUE
      PROVE  w.ret \in Rets /\ w.go \in BOOLEAN
  BY <1>1, <1>5 DEF Rets
<1> DEFINE Onwards == w.ret \in {s.ret, "defs", "delim", "value"} /\ (w.go = s.go \/ w.go = TRUE)
<1> HIDE DEF w, h
<1>6. CASE s.pc = "defs"
  <2>1. CASE ~ e /\ c = "}" /\ s.keyStack # <<>>
    <3>1. /\ w.pc = "comments" /\ w.go /\ Onwards
          /\ w.keyStack = SubSeq(s.keyStack, 1, Len(s.keyStack) - 1)
      BY <1>2, <1>6, <2>1 DEF AfterKey, Skips, Skim, Nest, State, View
    <3>2. IsSequence(w.keyStack)
      BY <1>1, <2>1, <3>1, FrontSequence
    <3> QED
      BY <1>5, <3>1, <3>2 DEF PointOK, Rets, BlankPoints, KeyPoints, Skipping, InValue
  <2>2. CASE ~ (~ e /\ c = "}" /\ s.keyStack # <<>>)
    <3>1. /\ w.keyStack = s.keyStack /\ Onwards
          /\ w.pc = "done" \/ (w.pc = "key" /\ IsValidKeyChar(c))
      BY <1>2, <1>6, <2>2 DEF AfterKey, At, Skim, Ended, Collect, State, View
    <3>2. h = c
      BY <1>4, <1>6, <2>2 DEF Forwards
    <3> QED
      BY <1>1, <1>5, <3>1, <3>2 DEF PointOK, Rets, BlankPoints, KeyPoints, Skipping, InValue
  <2> QED
    BY <2>1, <2>2
<1>7. CASE s.pc = "key"
  <2>1. /\ w.keyStack = s.keyStack /\ Onwards
        /\ w.pc \in {"done", "keyEnd"} \/ (w.pc = "key" /\ IsValidKeyChar(d) /\ m)
    BY <1>2, <1>7 DEF AfterKey, At, Skim, Ended, Collect, IfMoves, State, View
  <2>2. m => h = d
    BY <1>3, <1>7 DEF Forwards
  <2> QED
    BY <1>1, <1>5, <2>1, <2>2 DEF PointOK, Rets, BlankPoints, KeyPoints, Skipping, InValue
<1>8. CASE s.pc = "keyEnd"
  <2>1. /\ w.keyStack = s.keyStack /\ Onwards
        /\ w.pc = "done" \/ (w.pc = "comments" /\ w.go)
    BY <1>2, <1>8 DEF AfterKey, Skips, Skim, Ended, Nest, State
  <2> QED
    BY <1>5, <2>1, PlainPoint
<1>9. CASE s.pc = "delim"
  <2>1. /\ w.keyStack = s.keyStack \/ w.keyStack = Append(s.keyStack, s.key)
        /\ Onwards
        /\ w.pc = "done" \/ (w.pc = "comments" /\ w.go)
    BY <1>2, <1>9 DEF AfterKey, Skips, Skim, Ended, Nest, IfMoves, State, View
  <2>2. IsSequence(w.keyStack)
    BY <1>1, <2>1, AppendSequence
  <2> QED
    BY <1>5, <2>1, <2>2 DEF PointOK, Rets, BlankPoints, KeyPoints, Skipping, InValue
<1> QED
  BY <1>6, <1>7, <1>8, <1>9 DEF KeyPoints

LEMMA ValuePoint ==
  ASSUME NEW s, NEW c, PointOK(s, c), s.pc \in InValue, NEW d,
         NEW m \in BOOLEAN, NEW e \in BOOLEAN
  PROVE  PointOK(After(s, View(c, d, m, e)), IF m /\ Forwards(s, c, e) THEN d ELSE c)
<1> DEFINE v == View(c, d, m, e)
<1> DEFINE w == After(s, v)
<1> DEFINE h == IF m /\ Forwards(s, c, e) THEN d ELSE c
<1> SUFFICES PointOK(w, h)
  OBVIOUS
<1>1. s.ret \in Rets /\ s.go \in BOOLEAN
  BY DEF PointOK
<1>2. w = AfterValue(s, v)
  BY DEF After, BlankPoints, KeyPoints, Skipping, InValue
<1>3. ~ Forwards(s, c, e) => h = c
  OBVIOUS
<1>4. v.here = c /\ v.moves = m
  BY DEF View
<1> HIDE DEF v, w, h
<1>5. ASSUME NEW outer, NEW value, w = Delivered(s, outer, value)
      PROVE  PointOK(w, h)
  <2>1. w.pc = "comments" /\ w.go /\ w.ret \in Rets /\ w.keyStack = s.keyStack
    BY <1>5 DEF Delivered, Skips, Skim, Nest, State, Rets
  <2> QED
    BY <2>1, PlainPoint
<1>6. CASE s.pc = "value"
  <2>1. w = AfterBegin(s, v)
    BY <1>2, <1>6 DEF AfterValue
  <2>2. /\ w.keyStack = s.keyStack /\ w.ret \in Rets /\ w.go \in BOOLEAN
        /\ \/ w.pc \in {"done", "string", "number"}
           \/ w.pc = "comments" /\ w.go
           \/ w.pc = "bool" /\ w.buf = <<c>> /\ c \in {"y", "n", "t", "f"}
    <3> USE DEF IfMoves, Skips, Skim, At, Ended, Collect, Nest, State, Rets
    <3>1. CASE c = "["
      BY <1>1, <1>4, <2>1, <3>1 DEF AfterBegin
    <3>2. CASE c \in {"y", "n", "t", "f"}
      <4>1. c \notin {"[", "\""} \union Signs /\ ~ IsNumerical(c)
        BY <3>2 DEF Signs, IsNumerical, Digits
      <4>2. w = IfMoves(v, At(Collect(s, <<c>>), "bool"), Collect(s, <<c>>))
        BY <1>4, <2>1, <3>2, <4>1 DEF AfterBegin
      <4> QED
        BY <1>1, <1>4, <3>2, <4>2
    <3>3. CASE c \notin {"[", "y", "n", "t", "f"}
      BY <1>1, <1>4, <2>1, <3>3 DEF AfterBegin
    <3> QED
      BY <3>1, <3>2, <3>3
  <2>3. CASE w.pc = "bool"
    <3>1. WordPart(w.buf)
      BY <2>2, <2>3, FirstLetter
    <3> QED
      BY <2>2, <2>3, <3>1 DEF PointOK, Rets, BlankPoints, KeyPoints, Skipping, InValue
  <2> QED
    BY <2>2, <2>3, PlainPoint
<1>7. CASE s.pc = "elems"
  <2>1. CASE c = "]"
    <3>1. w = Delivered(s, SubSeq(s.arrays, 1, Len(s.arrays) - 1),
                        ArrayData(s.arrays[Len(s.arrays)]))
      BY <1>2, <1>4, <1>7, <2>1 DEF AfterValue
    <3> QED
      BY <1>5, <3>1
  <2>2. CASE c # "]"
    <3>1. w = At(s, "value") /\ h = c
      BY <1>2, <1>3, <1>4, <1>7, <2>2 DEF AfterValue, Forwards
    <3>2. w.pc = "value" /\ w.ret = s.ret /\ w.go = s.go /\ w.keyStack = s.keyStack
      BY <3>1 DEF At, Skim, State
    <3> QED
      BY <1>7, <3>1, <3>2 DEF PointOK, Rets, BlankPoints, KeyPoints, Skipping, InValue
  <2> QED
    BY <2>1, <2>2
<1>8. CASE s.pc \in {"string", "escape"}
  <2>1. w = AfterString(s, v)
    BY <1>2, <1>8 DEF AfterValue
  <2>2. CASE s.pc = "string" /\ c = "\""
    <3>1. w = Delivered(s, s.arrays, StringData(s.buf))
      BY <1>4, <2>1, <2>2 DEF AfterString
    <3> QED
      BY <1>5, <3>1
  <2>3. CASE ~ (s.pc = "string" /\ c = "\"")
    <3>1. /\ w.keyStack = s.keyStack /\ w.ret = s.ret /\ w.go = s.go
          /\ w.pc \in {"done", "string", "escape"}
      BY <1>4, <2>1, <2>3 DEF AfterString, IfMoves, Skim, At, Ended, Collect, State
    <3> QED
      BY <1>1, <3>1, PlainPoint
  <2> QED
    BY <2>2, <2>3
<1>9. CASE s.pc = "number"
  <2>1. w = AfterNumber(s, v)
    BY <1>2, <1>9 DEF AfterValue
  <2>2. CASE w = Delivered(s, s.arrays, ParseNumber(s.buf).value)
    BY <1>5, <2>2
  <2>3. CASE w # Delivered(s, s.arrays, ParseNumber(s.buf).value)
    <3>1. w \in {Collect(s, Append(s.buf, c)), Ended(s, "UnexpectedChar")}
      BY <1>4, <2>1, <2>3 DEF AfterNumber
    <3>2. /\ w.keyStack = s.keyStack /\ w.ret = s.ret /\ w.go = s.go
          /\ w.pc \in {"done", "number"}
      BY <1>9, <3>1 DEF Ended, Collect, State
    <3> QED
      BY <1>1, <3>2, PlainPoint
  <2> QED
    BY <2>2, <2>3
<1>10. CASE s.pc = "bool"
  <2>1. w = AfterBool(s, v) /\ WordPart(s.buf)
    BY <1>2, <1>10 DEF AfterValue, PointOK
  <2>2. CASE Ends(s.buf, c)
    <3>1. w = Delivered(s, s.arrays, BoolData(s.buf[1] \in {"t", "y"}))
      BY <1>4, <2>1, <2>2 DEF AfterBool
    <3> QED
      BY <1>5, <3>1
  <2>3. CASE ~ Ends(s.buf, c)
    <3>1. /\ w.keyStack = s.keyStack /\ w.ret = s.ret /\ w.go = s.go
          /\ \/ w.pc = "done"
             \/ w.pc = "bool" /\ w.buf = Append(s.buf, c) /\ c = NextLetter(s.buf)
      BY <1>4, <2>1, <2>3 DEF AfterBool, IfMoves, Skim, At, Ended, Collect, State
    <3>2. CASE w.pc = "bool"
      <4>1. WordPart(w.buf)
        BY <2>1, <2>3, <3>1, <3>2, LongerWord DEF Ends
      <4>2. IsSequence(s.keyStack)
        BY DEF PointOK
      <4> QED
        BY <1>1, <3>1, <3>2, <4>1, <4>2 DEF PointOK, Rets, BlankPoints, KeyPoints, Skipping, InValue
    <3>3. CASE w.pc = "done"
      BY <1>1, <3>1, <3>3, PlainPoint
    <3> QED
      BY <3>1, <3>2, <3>3
  <2> QED
    BY <2>2, <2>3
<1> QED
  BY <1>6, <1>7, <1>8, <1>9, <1>10 DEF InValue

LEMMA PointStep ==
  ASSUME NEW s, NEW c, PointOK(s, c), s.pc # "done", NEW d,
         NEW m \in BOOLEAN, NEW e \in BOOLEAN, ~ m => c = NUL
  PROVE  PointOK(After(s, View(c, d, m, e)), IF m /\ Forwards(s, c, e) THEN d ELSE c)
<1>1. s.pc \in BlankPoints \union KeyPoints \union InValue
  BY DEF PointOK
<1> QED
  BY <1>1, BlankPoint, KeyPoint, ValuePoint

LEMMA NextPointOK ==
  ASSUME NEW t, Len(t) \in Nat, NEW p \in 0 .. Len(t), NEW s, PointOK(s, CharAt(t, p)),
         s.pc # "done"
  PROVE  LET q == NextPoint(t, p, s)
         IN  q = <<q[1], q[2]>> /\ q[1] \in 0 .. Len(t) /\ PointOK(q[2], CharAt(t, q[1]))
<1> DEFINE c == CharAt(t, p)
<1> DEFINE m == p < Len(t)
<1> DEFINE e == p = Len(t)
<1> DEFINE k == IF m /\ Forwards(s, c, e) THEN p + 1 ELSE p
<1> DEFINE w == After(s, TextView(t, p))
<1>1. NextPoint(t, p, s) = <<k, w>>
  BY DEF NextPoint
<1>2. k \in 0 .. Len(t)
  OBVIOUS
<1>3. CharAt(t, k) = IF m /\ Forwards(s, c, e) THEN CharAt(t, p + 1) ELSE c
  OBVIOUS
<1>4. ~ m => c = NUL
  BY DEF CharAt
<1>5. w = After(s, View(c, CharAt(t, p + 1), m, e))
  BY DEF TextView
<1>6. m \in BOOLEAN /\ e \in BOOLEAN
  OBVIOUS
<1> HIDE DEF m, e
<1>7. PointOK(w, CharAt(t, k))
  <2> HIDE DEF w, k, c
  <2>1. PointOK(s, c)
    BY DEF c
  <2> QED
    BY <1>3, <1>4, <1>5, <1>6, <2>1, PointStep
<1> HIDE DEF w, k
<1> QED
  BY <1>1, <1>2, <1>7

LEMMA PathGrows ==
  ASSUME NEW V, NEW t, Len(t) \in Nat, NEW p, NEW s, Path(V, t, <<p, s>>), s.pc # "done"
  PROVE  LET q == NextPoint(t, p, s)
         IN  Path(V \union {q}, t, q)
<1> DEFINE q == NextPoint(t, p, s)
<1>1. /\ <<p, s>> \in V /\ <<0, Begin>> \in V /\ p \in 0 .. Len(t)
      /\ PointOK(s, CharAt(t, p))
      /\ \A x \in V : /\ x = <<x[1], x[2]>> /\ x[1] \in 0 .. Len(t)
                      /\ PointOK(x[2], CharAt(t, x[1]))
                      /\ x = <<p, s>> \/ (x[2].pc # "done" /\ NextPoint(t, x[1], x[2]) \in V)
  BY DEF Path
<1>2. q = <<q[1], q[2]>> /\ q[1] \in 0 .. Len(t) /\ PointOK(q[2], CharAt(t, q[1]))
  BY <1>1, NextPointOK
<1>3. ASSUME NEW x \in V \union {q}
      PROVE  /\ x = <<x[1], x[2]>> /\ x[1] \in 0 .. Len(t)
             /\ PointOK(x[2], CharAt(t, x[1]))
             /\ x = q \/ (x[2].pc # "done" /\ NextPoint(t, x[1], x[2]) \in V \union {q})
  <2> HIDE DEF q
  <2>1. CASE x = q
    BY <1>2, <2>1
  <2>2. CASE x = <<p, s>>
    BY <1>1, <2>2 DEF q
  <2>3. CASE x # q /\ x # <<p, s>>
    BY <1>1, <2>3
  <2> QED
    BY <2>1, <2>2, <2>3
<1> HIDE DEF q
<1> QED
  BY <1>1, <1>3 DEF Path, q

\* The first point.
LEMMA PathBegins ==
  ASSUME NEW t, Len(t) \in Nat
  PROVE  Path({<<0, Begin>>}, t, <<0, Begin>>)
<1>1. /\ Begin.pc = "lead" /\ Begin.keyStack = <<>> /\ Begin.ret = "defs"
      /\ Begin.go = FALSE
  BY DEF Begin, State
<1>2. IsSequence(Begin.keyStack)
  <2>1. IsSequence(<<>>)
    BY DEF IsSequence
  <2> QED
    BY <1>1, <2>1
<1>3. PointOK(Begin, CharAt(t, 0))
  <2> HIDE DEF Begin
  <2> QED
    BY <1>1, <1>2 DEF PointOK, Rets, BlankPoints, KeyPoints, Skipping, InValue
<1> QED
  BY <1>3 DEF Path

(***************************************************************************)
(* The stream behind the text.                                             *)
(***************************************************************************)

\* While the reader moves, the parser sees what it saw in memory.
LEMMA Followed ==
  ASSUME NEW V, NEW t, NEW f, Parsed(V, t, f), NEW r \in ReaderType, r.kind = "stream",
         r.charsLeft # 0, NEW k \in 1 .. Len(t), r.cursor = k, k < Len(t), r.current = t[k],
         r.cursor < Len(r.text), r.text[k + 1] = t[k + 1],
         NEW n, <<k - 1, n>> \in V, n.pc # "done"
  PROVE  LET q == IF Forwards(n, GetChar(r), IsAtEof(r)) THEN Fwd(r) ELSE r
             m == After(n, ViewOf(r))
         IN  /\ q.text = r.text
             /\ \/ q = r /\ <<k - 1, m>> \in V
                \/ /\ q.cursor = k + 1 /\ q.current = t[k + 1]
                   /\ q.charsLeft = r.charsLeft - 1 /\ <<k, m>> \in V
<1> DEFINE z == StreamFwd(r)
<1>1. Fwd(r) = z
  BY DEF Fwd
<1>2. z.cursor = k + 1 /\ z.current = t[k + 1] /\ z.charsLeft = r.charsLeft - 1
      /\ z.text = r.text /\ z.kind = "stream"
  BY StreamFwdInside
<1> HIDE DEF z
<1>3. GetChar(r) = t[k] /\ GetChar(z) = t[k + 1] /\ FwdMoves(r) = TRUE /\ IsAtEof(r) = FALSE
  BY <1>2 DEF GetChar, FwdMoves, IsAtEof, ReaderType
<1>4. ViewOf(r) = View(t[k], t[k + 1], TRUE, FALSE)
  BY <1>1, <1>3 DEF ViewOf
<1>5. Len(t) \in Nat /\ k \in Nat
  BY DEF Parsed
<1>6. /\ CharAt(t, k - 1) = t[k] /\ CharAt(t, k - 1 + 1) = t[k + 1]
      /\ (k - 1 < Len(t)) = TRUE /\ (k - 1 = Len(t)) = FALSE
  <2>1. k - 1 < Len(t) /\ k - 1 + 1 = k /\ k < Len(t)
    BY <1>5
  <2> QED
    BY <2>1 DEF CharAt
<1>7. TextView(t, k - 1) = View(t[k], t[k + 1], TRUE, FALSE)
  BY <1>6 DEF TextView
<1>8. NextPoint(t, k - 1, n) \in V
  BY OnPath
<1>9. NextPoint(t, k - 1, n) =
        <<IF Forwards(n, t[k], FALSE) THEN k ELSE k - 1, After(n, ViewOf(r))>>
  <2>1. Forwards(n, CharAt(t, k - 1), k - 1 = Len(t)) <=> Forwards(n, t[k], FALSE)
    BY <1>6 DEF Forwards
  <2>2. k - 1 + 1 = k /\ k - 1 < Len(t)
    BY <1>5
  <2> QED
    BY <1>4, <1>7, <2>1, <2>2 DEF NextPoint
<1>10. CASE Forwards(n, t[k], FALSE)
  BY <1>1, <1>2, <1>3, <1>8, <1>9, <1>10
<1>11. CASE ~ Forwards(n, t[k], FALSE)
  BY <1>3, <1>8, <1>9, <1>11
<1> QED
  BY <1>10, <1>11

\* At the last character: fwdOrEof takes the end of the stream for it.
LEMMA UnlimitedStep ==
  ASSUME NEW V, NEW t, NEW f, Parsed(V, t, f), Len(t) < MaxSize,
         NEW r \in ReaderType, r.kind = "stream",
         NEW n, Unlimited(V, t, f, r, n), n.pc # "done"
  PROVE  Unlimited(V, t, f, IF Forwards(n, GetChar(r), IsAtEof(r)) THEN Fwd(r) ELSE r,
                   After(n, ViewOf(r)))
<1> DEFINE q == IF Forwards(n, GetChar(r), IsAtEof(r)) THEN Fwd(r) ELSE r
<1> DEFINE m == After(n, ViewOf(r))
<1> SUFFICES Unlimited(V, t, f, q, m)
  OBVIOUS
<1>1. Len(t) \in Nat /\ r.text = t /\ MaxSize \in Nat /\ r.cursor \in Nat /\ r.charsLeft \in Nat
  BY DEF Parsed, Unlimited, MaxSize, ReaderType
<1>2. CASE r.charsLeft = 0
  <2>1. r.current = NUL /\ <<Len(t), n>> \in V
    BY <1>1, <1>2 DEF Unlimited, Short
  <2>2. Fwd(r) = r
    BY <1>2, StreamFwdAtLimit DEF Fwd
  <2>3. GetChar(r) = NUL /\ FwdMoves(r) = FALSE /\ IsAtEof(r) = TRUE
    BY <1>2, <2>1 DEF GetChar, FwdMoves, IsAtEof
  <2>4. ViewOf(r) = EndView
    BY <2>2, <2>3 DEF ViewOf, EndView
  <2>5. <<Len(t), m>> \in V
    BY <2>1, <2>4, EndPoint
  <2>6. q = r
    BY <2>2
  <2> HIDE DEF m, q
  <2> QED
    BY <1>1, <1>2, <2>1, <2>5, <2>6 DEF Unlimited
<1>3. CASE r.charsLeft # 0
  <2> DEFINE k == r.cursor
  <2>1. /\ k \in 1 .. Len(t) /\ r.charsLeft = MaxSize - k /\ r.current = t[k]
        /\ <<k - 1, n>> \in V
    BY <1>3 DEF Unlimited
  <2>2. CASE k < Len(t)
    <3>1. /\ q.text = t
          /\ \/ q = r /\ <<k - 1, m>> \in V
             \/ /\ q.cursor = k + 1 /\ q.current = t[k + 1]
                /\ q.charsLeft = r.charsLeft - 1 /\ <<k, m>> \in V
      <4>1. k < Len(r.text) /\ r.text[k + 1] = t[k + 1]
        BY <1>1, <2>2
      <4> HIDE DEF q, m
      <4>2. /\ q.text = r.text
            /\ \/ q = r /\ <<k - 1, m>> \in V
               \/ /\ q.cursor = k + 1 /\ q.current = t[k + 1]
                  /\ q.charsLeft = r.charsLeft - 1 /\ <<k, m>> \in V
        BY <1>3, <2>1, <2>2, <4>1, Followed DEF q, m
      <4> QED
        BY <1>1, <4>2
    <3> HIDE DEF q, m
    <3>2. CASE q = r /\ <<k - 1, m>> \in V
      BY <1>1, <2>1, <3>2 DEF Unlimited
    <3>3. CASE /\ q.cursor = k + 1 /\ q.current = t[k + 1]
               /\ q.charsLeft = r.charsLeft - 1 /\ <<k, m>> \in V
      <4>1. /\ q.cursor \in 1 .. Len(t) /\ q.charsLeft = MaxSize - q.cursor
            /\ q.cursor - 1 = k
        <5>1. PICK c : c = k + 1
          OBVIOUS
        <5>2. c \in 1 .. Len(t) /\ c - 1 = k
          <6>1. \A i, j \in Nat : i >= 1 /\ i < j => i + 1 \in 1 .. j /\ i + 1 - 1 = i
            OBVIOUS
          <6>2. k >= 1 /\ k < Len(t) /\ k \in Nat
            BY <1>1, <2>1, <2>2
          <6> QED
            BY <1>1, <5>1, <6>1, <6>2
        <5>3. r.charsLeft - 1 = MaxSize - c
          BY <1>1, <2>1, <5>1
        <5> QED
          BY <3>3, <5>1, <5>2, <5>3
      <4>2. q.current = t[q.cursor] /\ <<q.cursor - 1, m>> \in V
        BY <3>3, <4>1
      <4> QED
        BY <3>1, <4>1, <4>2 DEF Unlimited
    <3> QED
      BY <3>1, <3>2, <3>3
  <2>3. CASE ~ (k < Len(t))
    <3>1. k = Len(t) /\ t # <<>>
      BY <1>1, <2>1, <2>3
    <3> DEFINE z == StreamFwd(r)
    <3>2. Fwd(r) = z
      BY DEF Fwd
    <3>3. /\ z.text = t /\ z.kind = "stream" /\ z.cursor = k /\ z.current = NUL
          /\ z.charsLeft = 0
      BY <1>1, <1>3, <2>3, StreamFwdPastEnd
    <3> HIDE DEF z
    <3> DEFINE x == t[Len(t)]
    <3>4. GetChar(r) = x /\ GetChar(z) = NUL /\ FwdMoves(r) = FALSE /\ IsAtEof(r) = FALSE
      BY <1>1, <1>3, <2>1, <2>3, <3>1, <3>3 DEF GetChar, FwdMoves, IsAtEof
    <3>5. ViewOf(r) = View(x, NUL, FALSE, FALSE)
      BY <3>2, <3>4 DEF ViewOf
    <3>6. q = IF Forwards(n, x, FALSE) THEN z ELSE r
      BY <3>2, <3>4
    <3>7. IF Forwards(n, x, FALSE)
            THEN (<<Len(t), m>> \in V /\ m.pc \in Arrivals) \/ Short(m, f, x)
            ELSE <<Len(t) - 1, m>> \in V
      <4>1. <<Len(t) - 1, n>> \in V
        BY <2>1, <3>1
      <4> QED
        BY <3>5, <4>1, LastStep
    <3> HIDE DEF q, m
    <3> QED
      BY <1>1, <2>1, <3>1, <3>3, <3>6, <3>7 DEF Unlimited
  <2> QED
    BY <2>2, <2>3
<1> QED
  BY <1>2, <1>3

\* The characters of a text in a longer one.
LEMMA InLonger ==
  ASSUME NEW t \in Seq(STRING), NEW k \in 1 .. Len(t)
  PROVE  /\ (t \o Rest)[k] = t[k] /\ Len(t) \in Nat /\ Len(t) < Len(t \o Rest)
         /\ t \o Rest \in Seq(STRING)
<1>1. Rest \in Seq(STRING) /\ Len(Rest) \in Nat \ {0}
  BY TextsAssumption
<1> QED
  BY <1>1, ConcatProperties

LEMMA CountedStep ==
  ASSUME NEW V, NEW t, NEW f, Parsed(V, t, f), NEW r \in ReaderType, r.kind = "stream",
         NEW n, Counted(V, t, f, r, n), n.pc # "done"
  PROVE  Counted(V, t, f, IF Forwards(n, GetChar(r), IsAtEof(r)) THEN Fwd(r) ELSE r,
                 After(n, ViewOf(r)))
<1> DEFINE q == IF Forwards(n, GetChar(r), IsAtEof(r)) THEN Fwd(r) ELSE r
<1> DEFINE m == After(n, ViewOf(r))
<1> SUFFICES Counted(V, t, f, q, m)
  OBVIOUS
<1>1. Len(t) \in Nat /\ t \in Seq(STRING) /\ r.text = t \o Rest /\ r.cursor \in Nat
      /\ r.charsLeft \in Nat
  BY DEF Parsed, Counted, ReaderType
<1>2. CASE r.charsLeft = 0
  <2> DEFINE x == r.current
  <2>1. PastCount(V, t, f, x, n) /\ (t # <<>> => x = t[Len(t)])
    BY <1>1, <1>2 DEF Counted
  <2>2. Fwd(r) = r
    BY <1>2, StreamFwdAtLimit DEF Fwd
  <2>3. GetChar(r) = x /\ FwdMoves(r) = FALSE /\ IsAtEof(r) = TRUE
    BY <1>2 DEF GetChar, FwdMoves, IsAtEof
  <2>4. ViewOf(r) = CountView(x)
    BY <2>2, <2>3 DEF ViewOf, CountView
  <2>5. PastCount(V, t, f, x, m)
    BY <2>1, <2>4, CountStep
  <2>6. q = r
    BY <2>2
  <2> HIDE DEF m, q
  <2> QED
    BY <1>1, <1>2, <2>1, <2>5, <2>6 DEF Counted
<1>3. CASE r.charsLeft # 0
  <2> DEFINE k == r.cursor
  <2>1. /\ k \in 1 .. Len(t) - 1 /\ r.charsLeft = Len(t) - k /\ r.current = t[k]
        /\ <<k - 1, n>> \in V
    BY <1>3 DEF Counted
  <2>2. k \in 1 .. Len(t) /\ k < Len(t) /\ k + 1 \in 1 .. Len(t)
    <3>1. \A i, j \in Nat : i \in 1 .. j - 1 =>
            i \in 1 .. j /\ i < j /\ i + 1 \in 1 .. j
      OBVIOUS
    <3> QED
      BY <1>1, <2>1, <3>1
  <2>3. r.text[k + 1] = t[k + 1] /\ k < Len(r.text)
    <3>1. Len(t) < Len(r.text) /\ Len(r.text) \in Nat
      BY <1>1, <2>2, InLonger
    <3> QED
      BY <1>1, <2>2, <3>1, InLonger
  <2>4. /\ q.text = r.text
        /\ \/ q = r /\ <<k - 1, m>> \in V
           \/ /\ q.cursor = k + 1 /\ q.current = t[k + 1]
              /\ q.charsLeft = r.charsLeft - 1 /\ <<k, m>> \in V
    BY <1>3, <2>1, <2>2, <2>3, Followed
  <2> HIDE DEF q, m
  <2>5. CASE q = r /\ <<k - 1, m>> \in V
    BY <1>1, <2>1, <2>5 DEF Counted
  <2>6. CASE /\ q.cursor = k + 1 /\ q.current = t[k + 1]
             /\ q.charsLeft = r.charsLeft - 1 /\ <<k, m>> \in V
    <3>1. q.charsLeft = Len(t) - (k + 1) /\ k + 1 - 1 = k
      BY <1>1, <2>1, <2>6
    <3>2. CASE k + 1 < Len(t)
      <4>1. /\ q.cursor \in 1 .. Len(t) - 1 /\ q.charsLeft = Len(t) - q.cursor
            /\ q.cursor - 1 = k
        <5>1. PICK c : c = k + 1
          OBVIOUS
        <5>2. c \in 1 .. Len(t) - 1 /\ c - 1 = k
          BY <1>1, <2>1, <3>2, <5>1
        <5>3. r.charsLeft - 1 = Len(t) - c
          BY <1>1, <2>1, <5>1
        <5> QED
          BY <2>6, <5>1, <5>2, <5>3
      <4>2. q.current = t[q.cursor] /\ <<q.cursor - 1, m>> \in V
        BY <2>6, <4>1
      <4> QED
        BY <1>1, <2>4, <4>1, <4>2 DEF Counted
    <3>3. CASE ~ (k + 1 < Len(t))
      <4>1. k + 1 = Len(t) /\ q.charsLeft = 0 /\ t # <<>> /\ k = Len(t) - 1
        BY <1>1, <2>1, <2>2, <3>1, <3>3
      <4>2. q.current = t[Len(t)] /\ <<Len(t) - 1, m>> \in V
        BY <2>6, <4>1
      <4>3. PastCount(V, t, f, q.current, m)
        BY <4>1, <4>2 DEF PastCount
      <4> QED
        BY <1>1, <2>4, <4>1, <4>2, <4>3 DEF Counted
    <3> QED
      BY <3>2, <3>3
  <2> QED
    BY <2>4, <2>5, <2>6
<1> QED
  BY <1>2, <1>3

\* Before the parser takes its first step.
LEMMA UnlimitedStart ==
  ASSUME NEW V, NEW t \in Seq(STRING), NEW f, Parsed(V, t, f)
  PROVE  Unlimited(V, t, f, StdStreamReader(t, MaxSize, NUL), Begin)
<1> DEFINE r == Reader("stream", t, MaxSize, NUL)
<1> DEFINE q == StreamFwd(r)
<1>1. r.kind = "stream" /\ r.text = t /\ r.cursor = 0 /\ r.charsLeft = MaxSize
  BY DEF Reader
<1>2. r \in ReaderType
  BY NothingCounted DEF MaxSize
<1>3. Len(t) \in Nat /\ MaxSize - 1 = 999 /\ MaxSize # 0
  BY DEF MaxSize
<1>4. <<0, Begin>> \in V
  BY DEF Parsed, Path
<1>5. StdStreamReader(t, MaxSize, NUL) = q
  BY DEF StdStreamReader
<1> HIDE DEF r, Begin
<1>6. CASE 0 < Len(t)
  <2>1. q.text = t /\ q.cursor = 0 + 1 /\ q.current = t[0 + 1] /\ q.charsLeft = MaxSize - 1
    BY <1>1, <1>2, <1>3, <1>6, StreamFwdInside
  <2> HIDE DEF q
  <2>2. q.cursor = 1 /\ 1 \in 1 .. Len(t)
    BY <1>3, <1>6, <2>1
  <2> QED
    BY <1>4, <1>5, <2>1, <2>2 DEF Unlimited
<1>7. CASE ~ (0 < Len(t))
  <2>1. q.text = t /\ q.current = NUL /\ q.charsLeft = 0
    BY <1>1, <1>2, <1>3, <1>7, StreamFwdPastEnd
  <2> HIDE DEF q
  <2>2. Len(t) = 0
    BY <1>3, <1>7
  <2> QED
    BY <1>4, <1>5, <2>1, <2>2 DEF Unlimited
<1> QED
  BY <1>6, <1>7

LEMMA CountedStart ==
  ASSUME NEW V, NEW t \in Seq(STRING), NEW f, Parsed(V, t, f), NEW junk \in Chars
  PROVE  Counted(V, t, f, StdStreamReader(t \o Rest, Len(t), junk), Begin)
<1> DEFINE text == t \o Rest
<1> DEFINE r == Reader("stream", text, Len(t), junk)
<1> DEFINE q == StreamFwd(r)
<1>1. r.kind = "stream" /\ r.text = text /\ r.cursor = 0 /\ r.charsLeft = Len(t)
  BY DEF Reader
<1>2. text \in Seq(STRING) /\ Len(t) \in Nat
  BY TextsAssumption
<1>3. r \in ReaderType
  <2> HIDE DEF text
  <2> QED
    BY <1>2, NothingCounted DEF Chars
<1>4. <<0, Begin>> \in V /\ Begin.pc = "lead"
  BY DEF Parsed, Path, Begin, State
<1>5. StdStreamReader(text, Len(t), junk) = q
  BY DEF StdStreamReader
<1> HIDE DEF r, Begin
<1>6. CASE Len(t) = 0
  <2>1. q = r
    BY <1>1, <1>6, StreamFwdAtLimit
  <2>2. PastCount(V, t, f, q.current, Begin)
    BY <1>4, <1>6 DEF PastCount, Trails
  <2>3. t = <<>>
    BY <1>6
  <2> HIDE DEF q
  <2> QED
    BY <1>1, <1>5, <1>6, <2>1, <2>2, <2>3 DEF Counted
<1>7. CASE Len(t) # 0
  <2>1. 1 \in 1 .. Len(t) /\ t # <<>>
    BY <1>2, <1>7
  <2>2. text[1] = t[1] /\ Len(t) < Len(text)
    BY <2>1, InLonger
  <2>3. 0 < Len(text)
    BY <1>2, <2>2
  <2>4. q.text = text /\ q.cursor = 0 + 1 /\ q.current = text[0 + 1] /\ q.charsLeft = Len(t) - 1
    <3> HIDE DEF text
    <3> QED
      BY <1>1, <1>3, <1>7, <2>3, StreamFwdInside
  <2>5. q.cursor = 1 /\ q.current = t[1]
    BY <2>2, <2>4
  <2> HIDE DEF q
  <2>6. CASE Len(t) = 1
    <3>1. PastCount(V, t, f, q.current, Begin)
      BY <1>4, <2>1, <2>5, <2>6 DEF PastCount
    <3> QED
      BY <1>5, <2>4, <2>5, <2>6, <3>1 DEF Counted
  <2>7. CASE Len(t) # 1
    <3>1. 1 \in 1 .. Len(t) - 1
      <4>1. \A k \in Nat : 1 \in 1 .. k /\ k # 1 => 1 \in 1 .. k - 1
        OBVIOUS
      <4> QED
        BY <1>2, <2>1, <2>7, <4>1
    <3> QED
      BY <1>4, <1>5, <2>4, <2>5, <3>1 DEF Counted
  <2> QED
    BY <2>6, <2>7
<1> QED
  BY <1>6, <1>7

(***************************************************************************)
(* The invariant that relates the two parses.                              *)
(***************************************************************************)

LEMMA NotDone == ASSUME Next PROVE pc # "done"
<1>1. ASSUME Lead \/ Comments \/ CommentKind \/ SingleLine \/ MultiLine \/ MultiLineEnd \/ Blanks
      PROVE  pc # "done"
  BY <1>1 DEF Lead, Comments, CommentKind, SingleLine, MultiLine, MultiLineEnd, Blanks
<1>2. ASSUME AtEnd \/ CloseGroup \/ BeginKey \/ KeyChar \/ EndKey \/ BeginGroup \/ Assign
             \/ NoDelimiter
      PROVE  pc # "done"
  BY <1>2 DEF AtEnd, CloseGroup, BeginKey, KeyChar, EndKey, BeginGroup, Assign, NoDelimiter
<1>3. ASSUME \/ BeginArray \/ Element \/ EndArray \/ BeginString \/ BeginNumber \/ BeginBool
             \/ NoValue
      PROVE  pc # "done"
  BY <1>3 DEF BeginArray, Element, EndArray, BeginString, BeginNumber, BeginBool, NoValue
<1>4. ASSUME \/ StringChar \/ EscapedChar \/ NumberChar \/ EndNumber \/ BoolChar \/ EndBool
      PROVE  pc # "done"
  BY <1>4 DEF StringChar, EscapedChar, NumberChar, EndNumber, BoolChar, EndBool
<1> QED
  BY <1>1, <1>2, <1>3, <1>4 DEF Next

\* A step of the parse from memory is the next point of the text.
LEMMA StringStep ==
  ASSUME ParserInv, rd.kind = "string", Next
  PROVE  /\ rd'.kind = "string" /\ rd'.text = rd.text
         /\ <<rd'.cursor, Now'>> = NextPoint(rd.text, rd.cursor, Now)
<1> DEFINE t == rd.text
<1> DEFINE k == rd.cursor
<1> DEFINE z == StringFwd(rd)
<1>1. /\ rd \in ReaderType /\ t \in Seq(STRING) /\ Len(t) \in Nat /\ k \in Nat /\ k <= Len(t)
  BY DEF ParserInv, ReaderInv, ReaderOK, ReaderType
<1>2. Fwd(rd) = z
  BY DEF Fwd
<1>3. /\ z.text = t /\ z.kind = "string"
      /\ z.cursor = IF k < Len(t) THEN k + 1 ELSE k
  <2>1. CASE k < Len(t)
    <3>1. t[k + 1] \in STRING
      BY <1>1, <2>1
    <3> QED
      BY <1>1, <2>1, <3>1, StringFwdInside
  <2>2. CASE ~ (k < Len(t))
    BY <2>2, StringFwdAtEnd
  <2> QED
    BY <2>1, <2>2
<1> HIDE DEF z
<1>4. /\ GetChar(rd) = CharAt(t, k) /\ GetChar(z) = CharAt(t, k + 1)
      /\ FwdMoves(rd) = (k < Len(t)) /\ IsAtEof(rd) = (k = Len(t))
  <2>1. GetChar(rd) = CharAt(t, k)
    BY DEF GetChar, CharAt
  <2>2. GetChar(z) = CharAt(t, k + 1)
    <3>1. CASE k < Len(t)
      BY <1>3, <3>1 DEF GetChar, CharAt
    <3>2. CASE ~ (k < Len(t))
      <4>1. ~ (k + 1 < Len(t))
        BY <1>1, <3>2
      <4> QED
        BY <1>3, <3>2, <4>1 DEF GetChar, CharAt
    <3> QED
      BY <3>1, <3>2
  <2>3. FwdMoves(rd) = (k < Len(t)) /\ IsAtEof(rd) = (k = Len(t))
    BY DEF FwdMoves, IsAtEof
  <2> QED
    BY <2>1, <2>2, <2>3
<1>5. ViewOf(rd) = TextView(t, k)
  BY Zenon, <1>2, <1>4 DEF ViewOf, TextView
<1>6. Now' = After(Now, TextView(t, k))
  BY <1>5, StepIs
<1>7. rd' = IF Forwards(Now, CharAt(t, k), k = Len(t)) THEN z ELSE rd
  BY Zenon, <1>2, <1>4, StepIs DEF Here
<1>8. rd'.cursor = IF k < Len(t) /\ Forwards(Now, CharAt(t, k), k = Len(t)) THEN k + 1 ELSE k
  BY <1>3, <1>7
<1>9. <<rd'.cursor, Now'>> = NextPoint(t, k, Now)
  BY Zenon, <1>6, <1>8 DEF NextPoint
<1> QED
  BY <1>3, <1>7, <1>9

LEMMA CompareStart == ASSUME TwoInit PROVE CompareInv
<1>1. PICK text \in Inputs : Start(StringReader(text))
  BY DEF TwoInit
<1>2. Now = Begin /\ rd = StringReader(text)
  BY <1>1 DEF Start, Now, Begin
<1>3. rd.kind = "string" /\ rd.text = text /\ rd.cursor = 0
  BY <1>2 DEF StringReader, Reader
<1>4. Len(text) \in Nat
  BY TextsAssumption
<1>5. Path({<<0, Begin>>}, text, <<0, Begin>>)
  BY <1>4, PathBegins
<1> QED
  BY <1>2, <1>3, <1>5 DEF CompareInv

LEMMA CompareRestart ==
  ASSUME ParserInv, CompareInv, ReadStream \/ ReadLimited
  PROVE  CompareInv'
<1> DEFINE t == rd.text
<1>1. PICK reader : Restart(reader) /\
        \/ reader = StdStreamReader(t, MaxSize, NUL)
        \/ \E junk \in Chars : reader = StdStreamReader(t \o Rest, Len(t), junk)
  <2>1. CASE ReadStream
    BY <2>1 DEF ReadStream
  <2>2. CASE ReadLimited
    BY <2>2, TextsAssumption DEF ReadLimited, Chars
  <2> QED
    BY <2>1, <2>2
<1>2. /\ pc = "done" /\ rd.kind = "string" /\ rd' = reader
      /\ inMemory'.text = t /\ inMemory'.outcome = outcome /\ inMemory'.cfg = cfg
      /\ Now' = Begin
  BY <1>1 DEF Restart, Now, Begin, State
<1>3. t \in Inputs /\ t \in Seq(STRING) /\ Len(t) \in Nat
  BY <1>2, TextsAssumption DEF CompareInv
<1>4. PICK V : Path(V, t, <<rd.cursor, Now>>)
  BY <1>2 DEF CompareInv
<1> DEFINE f == <<rd.cursor, Now>>
<1>5. f[2].pc = "done" /\ f[2].outcome = outcome /\ f[2].cfg = cfg
  BY <1>2 DEF Now, State
<1>6. Parsed(V, t, f)
  BY <1>3, <1>4, <1>5 DEF Parsed
<1> HIDE DEF f
<1>7. \/ Unlimited(V, t, f, reader, Begin)
      \/ Counted(V, t, f, reader, Begin)
  BY <1>1, <1>3, <1>6, UnlimitedStart, CountedStart
<1>8. reader.kind = "stream"
  <2>1. ASSUME NEW text \in Seq(STRING), NEW n \in Nat, NEW c \in Chars
        PROVE  StdStreamReader(text, n, c).kind = "stream"
    <3> DEFINE r == Reader("stream", text, n, c)
    <3>1. r \in ReaderType /\ LinesCounted(r) /\ r.kind = "stream"
      BY NothingCounted DEF Chars, Reader
    <3> HIDE DEF r
    <3>2. StreamFwd(r).kind = "stream"
      BY <3>1, StreamGoesAhead
    <3> QED
      BY <3>2 DEF StdStreamReader, r
  <2>2. t \o Rest \in Seq(STRING) /\ MaxSize \in Nat /\ NUL \in Chars
    BY <1>3, TextsAssumption DEF MaxSize, Chars
  <2> QED
    BY <1>1, <1>3, <2>1, <2>2
<1> QED
  BY <1>2, <1>3, <1>5, <1>6, <1>7, <1>8 DEF CompareInv

LEMMA CompareParse ==
  ASSUME ParserInv, CompareInv, Parse
  PROVE  CompareInv'
<1>1. Next /\ inMemory' = inMemory
  BY DEF Parse
<1>2. pc # "done" /\ Now.pc = pc
  BY <1>1, NotDone DEF Now, State
<1>3. /\ rd \in ReaderType /\ ReaderOK(rd) /\ rd.kind \in {"string", "stream"}
  BY DEF ParserInv, ReaderInv, ReaderOK, ReaderType
<1>4. CASE rd.kind = "string"
  <2>1. /\ rd'.kind = "string" /\ rd'.text = rd.text
        /\ <<rd'.cursor, Now'>> = NextPoint(rd.text, rd.cursor, Now)
    BY <1>1, <1>4, StringStep
  <2>2. PICK V : Path(V, rd.text, <<rd.cursor, Now>>)
    BY <1>4 DEF CompareInv
  <2>3. Len(rd.text) \in Nat
    BY <1>3 DEF ReaderType
  <2>4. \E W : Path(W, rd.text, NextPoint(rd.text, rd.cursor, Now))
    BY <1>2, <2>2, <2>3, PathGrows
  <2> QED
    BY <1>4, <2>1, <2>4 DEF CompareInv
<1>5. CASE rd.kind = "stream"
  <2> DEFINE t == inMemory.text
  <2>1. /\ Now' = After(Now, ViewOf(rd))
        /\ rd' = IF Forwards(Now, GetChar(rd), IsAtEof(rd)) THEN Fwd(rd) ELSE rd
    BY <1>1, StepIs DEF Here
  <2>2. rd'.kind = "stream"
    BY <1>3, <1>5, <2>1, FwdKeepsReader
  <2>3. t \in Inputs /\ Len(t) < MaxSize
    BY <1>5, TextsAssumption DEF CompareInv
  <2>4. PICK V, f : /\ Parsed(V, t, f)
                    /\ f[2].outcome = inMemory.outcome /\ f[2].cfg = inMemory.cfg
                    /\ Unlimited(V, t, f, rd, Now) \/ Counted(V, t, f, rd, Now)
    BY <1>5 DEF CompareInv
  <2>5. Unlimited(V, t, f, rd', Now') \/ Counted(V, t, f, rd', Now')
    <3>1. CASE Unlimited(V, t, f, rd, Now)
      BY <1>2, <1>3, <1>5, <2>1, <2>3, <2>4, <3>1, UnlimitedStep
    <3>2. CASE Counted(V, t, f, rd, Now)
      BY <1>2, <1>3, <1>5, <2>1, <2>4, <3>2, CountedStep
    <3> QED
      BY <2>4, <3>1, <3>2
  <2> QED
    BY <1>1, <2>2, <2>3, <2>4, <2>5 DEF CompareInv
<1> QED
  BY <1>3, <1>4, <1>5

LEMMA Comparison == TwoSpec => []CompareInv
<1>1. TwoInit => CompareInv
  BY CompareStart
<1>2. ParserInv /\ CompareInv /\ [TwoNext]_tvars => CompareInv'
  <2> SUFFICES ASSUME ParserInv, CompareInv, [TwoNext]_tvars PROVE CompareInv'
    OBVIOUS
  <2>1. CASE TwoNext
    BY <2>1, CompareParse, CompareRestart DEF TwoNext
  <2>2. CASE UNCHANGED tvars
    <3>1. rd' = rd /\ inMemory' = inMemory /\ Now' = Now
      BY <2>2 DEF tvars, vars, Now
    <3> QED
      BY <3>1 DEF CompareInv
  <2> QED
    BY <2>1, <2>2
<1> QED
  BY <1>1, <1>2, Invariance, PTL DEF TwoSpec

(***************************************************************************)
(* What it says when both are done.                                        *)
(***************************************************************************)

LEMMA LongerText ==
  ASSUME NEW t \in Seq(STRING)
  PROVE  Len(t \o Rest) > Len(t)
<1>1. Rest \in Seq(STRING) /\ Len(Rest) \in Nat \ {0} /\ Len(t) \in Nat
  BY TextsAssumption
<1> QED
  BY <1>1, ConcatProperties

LEMMA UnlimitedResult ==
  ASSUME NEW V, NEW t, NEW f, Parsed(V, t, f), NEW r, NEW n, Unlimited(V, t, f, r, n),
         n.pc = "done"
  PROVE  Same(n, f) \/ (t # <<>> /\ Short(n, f, t[Len(t)]))
<1>1. ASSUME NEW p, <<p, n>> \in V
      PROVE  Same(n, f)
  <2>1. f[2] = n
    BY <1>1, OnPath
  <2> QED
    BY <2>1 DEF Same
<1> QED
  BY <1>1 DEF Unlimited

LEMMA CountedResult ==
  ASSUME NEW V, NEW t, NEW f, Parsed(V, t, f), NEW r, NEW n, Counted(V, t, f, r, n),
         n.pc = "done"
  PROVE  Agrees(n, f, t, r.current) /\ (t # <<>> => r.current = t[Len(t)] \/ Same(n, f))
<1>1. ASSUME NEW p, <<p, n>> \in V
      PROVE  Same(n, f)
  <2>1. f[2] = n
    BY <1>1, OnPath
  <2> QED
    BY <2>1 DEF Same
<1>2. CASE <<r.cursor - 1, n>> \in V
  BY <1>1, <1>2, SameAgrees
<1>3. CASE PastCount(V, t, f, r.current, n) /\ (t # <<>> => r.current = t[Len(t)])
  BY <1>3, CountResult
<1> QED
  BY <1>2, <1>3 DEF Counted

\* The parse of nothing.
LEMMA EmptyText ==
  ASSUME NEW V, NEW f, Parsed(V, <<>>, f)
  PROVE  f[2].outcome = "ok"
<1>1. <<Len(<<>>), Begin>> \in V /\ Begin.pc = "lead"
  BY DEF Parsed, Path, Begin, State
<1>2. After(Begin, EndView) = Skips(Begin, "defs")
  BY <1>1 DEF After, AfterBlank, BlankPoints, EndView, View, IsWhitespace, NUL, NL
<1> DEFINE s == Skips(Begin, "defs")
<1>3. <<Len(<<>>), s>> \in V
  BY <1>1, <1>2, EndPoint
<1>4. s.pc = "comments" /\ s.go = TRUE /\ s.ret = "defs" /\ s.keyStack = <<>>
  BY DEF Skips, Skim, Begin, State
<1> HIDE DEF s
<1> QED
  BY <1>3, <1>4, EndOfSkip DEF Rets

\* A stream that holds no more than the text.
LEMMA StreamResult ==
  ASSUME CompareInv, BothDone, ~ Limited
  PROVE  \/ SameResult
         \/ /\ inMemory.text # <<>> /\ outcome = "UnexpectedEof"
            /\ inMemory.outcome = "ok" => LastChar \in WordEnds \union Signs
            /\ LastChar = NL => inMemory.outcome = "UnexpectedEof"
<1> DEFINE t == inMemory.text
<1>1. t \in Seq(STRING) /\ rd.kind = "stream" /\ pc = "done"
  BY TextsAssumption DEF CompareInv, BothDone
<1>2. PICK V, f : /\ Parsed(V, t, f)
                  /\ f[2].outcome = inMemory.outcome /\ f[2].cfg = inMemory.cfg
                  /\ Unlimited(V, t, f, rd, Now) \/ Counted(V, t, f, rd, Now)
  BY <1>1 DEF CompareInv
<1>3. Now.pc = pc /\ Now.outcome = outcome /\ Now.cfg = cfg
  BY DEF Now, State
<1>4. ~ Counted(V, t, f, rd, Now)
  BY <1>1, LongerText DEF Counted, Limited
<1>5. Same(Now, f) \/ (t # <<>> /\ Short(Now, f, t[Len(t)]))
  BY <1>1, <1>2, <1>3, <1>4, UnlimitedResult
<1> QED
  BY <1>2, <1>3, <1>5 DEF Same, Short, SameResult, LastChar

\* A stream that is read as far as the text goes.
LEMMA LimitedResult ==
  ASSUME CompareInv, BothDone, Limited
  PROVE  /\ inMemory.text # <<>> /\ LastChar = NL => SameResult
         /\ inMemory.outcome = "ok" =>
              \/ SameResult
              \/ /\ outcome = "UnexpectedEof"
                 /\ inMemory.text = <<>> \/ LastChar \in WordEnds \union {"/"} \union Signs
              \/ outcome = "UnclosedGroup" /\ LastChar = "}"
         /\ outcome = "ok" =>
              \/ cfg = inMemory.cfg
              \/ inMemory.outcome = "UnexpectedChar" /\ LastChar = "]"
<1> DEFINE t == inMemory.text
<1>1. rd.kind = "stream" /\ pc = "done"
  BY DEF BothDone
<1>2. PICK V, f : /\ Parsed(V, t, f)
                  /\ f[2].outcome = inMemory.outcome /\ f[2].cfg = inMemory.cfg
                  /\ Unlimited(V, t, f, rd, Now) \/ Counted(V, t, f, rd, Now)
  BY <1>1 DEF CompareInv
<1>3. Now.pc = pc /\ Now.outcome = outcome /\ Now.cfg = cfg
  BY DEF Now, State
<1>4. ~ Unlimited(V, t, f, rd, Now)
  <2>1. Len(t) \in Nat
    BY <1>2 DEF Parsed
  <2> QED
    BY <2>1 DEF Unlimited, Limited
<1> DEFINE x == rd.current
<1>5. Agrees(Now, f, t, x) /\ (t # <<>> => x = t[Len(t)] \/ Same(Now, f))
  BY <1>1, <1>2, <1>3, <1>4, CountedResult
<1>6. SameResult <=> Same(Now, f)
  BY <1>2, <1>3 DEF Same, SameResult
<1>7. t = <<>> => inMemory.outcome = "ok"
  BY <1>2, EmptyText
<1>8. SameResult /\ outcome = "ok" => cfg = inMemory.cfg
  BY DEF SameResult
<1> HIDE DEF x
<1>9. CASE Same(Now, f)
  BY <1>6, <1>8, <1>9
<1>10. CASE ~ Same(Now, f)
  <2>1. t # <<>> => x = LastChar
    BY <1>5, <1>10 DEF LastChar
  <2>2. ~ (t # <<>> /\ LastChar = NL)
    BY <1>5, <1>10, <2>1 DEF Agrees
  <2>3. inMemory.outcome = "ok" =>
          \/ outcome = "UnexpectedEof" /\ x \in WordEnds \union {"/"} \union Signs
          \/ outcome = "UnclosedGroup" /\ t # <<>> /\ x = "}"
    BY <1>2, <1>3, <1>5, <1>10 DEF Agrees
  <2>4. outcome = "ok" => cfg = inMemory.cfg \/ (inMemory.outcome = "UnexpectedChar" /\ x = "]")
    BY <1>2, <1>3, <1>5 DEF Agrees
  <2> QED
    BY <1>7, <2>1, <2>2, <2>3, <2>4
<1> QED
  BY <1>9, <1>10

(***************************************************************************)
(* Theorems.                                                               *)
(***************************************************************************)

\* Every key of the group stack and of the Config is a valid key, and joining
\* two of them never throws, whatever the text (the Key constructors in parse
\* and parseKey).
THEOREM KeysAreWellFormed == TwoSpec => []KeysWellFormed
<1>1. ParserInv => KeysWellFormed
  BY InvariantMeansKeys
<1> QED
  BY <1>1, Invariance, PTL

\* Throughout the parse of any text both readers count its lines and columns
\* right, and the stream reader is exactly one character ahead
\* (StringReader::fwdOrEof, StdStreamReader::fwdOrEof).
THEOREM ReadersKeepStep == TwoSpec => []ReadersInStep
<1>1. ParserInv => ReadersInStep
  BY DEF ParserInv, ReaderInv, ReaderOK, ReadersInStep
<1> QED
  BY <1>1, Invariance, PTL

\* Every step of the parser brings it nearer to its end, so that no parse of
\* any text runs for ever, but for the loop of parseValueNumber at the end of
\* the count that a stream is read with: there fwdOrEof does not move and its
\* result is ignored, and getChar goes on returning the last character.
THEOREM StepsComeNearer == TwoSpec => [](Distance \in Nat) /\ ComesNearer
<1>1. ParserInv => Distance \in Nat
  <2> SUFFICES ASSUME ParserInv PROVE Distance \in Nat
    OBVIOUS
  <2>1. Left(rd) \in Nat
    BY CharOfReader DEF ParserInv, ReaderInv
  <2>2. Len(arrays) \in Nat
    BY SequenceOf DEF ParserInv, StackInv, IsSequence
  <2>3. Rank \in 0 .. 8
    BY DEF Rank
  <2> QED
    BY <2>1, <2>2, <2>3 DEF Distance
<1>2. ParserInv /\ [TwoNext]_tvars => [Next => Distance' < Distance \/ Overruns]_tvars
  <2> SUFFICES ASSUME ParserInv, Next PROVE Distance' < Distance \/ Overruns
    OBVIOUS
  <2> QED
    BY NextKeeps DEF Kept
<1> QED
  BY <1>1, <1>2, Invariance, PTL DEF TwoSpec, ComesNearer

\* A text whose last character is a newline means the same from memory, from a
\* stream and from a stream read with a count, entries and error, whatever the
\* text: the answers of StringReader and StdStreamReader at its end differ, but
\* every loop of parse has ended by then or ends the same way.
THEOREM NewlineIsRead == TwoSpec => []NewlineEndsText
<1>1. CompareInv => NewlineEndsText
  <2> SUFFICES ASSUME CompareInv, BothDone, inMemory.text # <<>>, LastChar = NL
               PROVE  SameResult
    BY DEF NewlineEndsText
  <2>1. NL \notin WordEnds \union Signs
    BY DEF NL, WordEnds, Signs
  <2>2. CASE Limited
    BY <2>2, LimitedResult
  <2>3. CASE ~ Limited
    <3>1. SameResult \/ (outcome = "UnexpectedEof" /\ inMemory.outcome = "UnexpectedEof")
      BY <2>3, StreamResult
    <3> QED
      BY <3>1 DEF SameResult
  <2> QED
    BY <2>2, <2>3
<1> QED
  BY <1>1, Comparison, PTL

\* A text that Config::read reads otherwise than Config::parse throws
\* UnexpectedEof there, and if it is well formed it ends with a word or a sign:
\* no call of fwd but those in parseValueBool and parseValueNumber can fail at
\* the end of a well-formed text.
THEOREM StreamLosesEndsOnly == TwoSpec => []StreamOnlyLosesEnds
<1>1. CompareInv => StreamOnlyLosesEnds
  BY StreamResult DEF StreamOnlyLosesEnds, WordEnds
<1> QED
  BY <1>1, Comparison, PTL

\* What can be lost of a well-formed text when its stream is read with a count
\* (StdStreamReader::getChar goes on returning the last character): the text is
\* empty, or it ends with a word, a sign, a comment or a group.
THEOREM CountLosesEndsOnly == TwoSpec => []CountLosesEnds
<1>1. CompareInv => CountLosesEnds
  BY LimitedResult DEF CountLosesEnds, WordEnds
<1> QED
  BY <1>1, Comparison, PTL

\* A stream read with a count yields the entries that the same characters have
\* in memory, unless the last bracket has ended more arrays than one.
THEOREM CountAddsNothing == TwoSpec => []CountGainsNothing
<1>1. CompareInv => CountGainsNothing
  BY LimitedResult DEF CountGainsNothing
<1> QED
  BY <1>1, Comparison, PTL
=============================================================================
