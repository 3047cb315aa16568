-------------------------------- MODULE Keys --------------------------------
(***************************************************************************)
(* The functions of the classes Key and KeySpan (src/src/apcf.cpp) that    *)
(* compare keys and take them apart.                                       *)
(***************************************************************************)
EXTENDS Grammar, FiniteSets, Integers

(* The order of the keys.                                                  *)

\* The values of the characters, in the order ASCII gives them.
CharOrder ==
  <<NUL, "-", ".", "0", "1", "2", "3", "4", "5", "6", "7", "8", "9", "_",
    "a", "b", "c", "d", "e", "f", "g", "h", "i", "j", "k", "l", "m",
    "n", "o", "p", "q", "r", "s", "t", "u", "v", "w", "x", "y", "z">>

Code(c) == CHOOSE i \in 1 .. Len(CharOrder) : CharOrder[i] = c

\* std::less<Key>, by which std::map sorts its keys: the lexicographic order.
KeyBefore(k, l) ==
  \E n \in 0 .. Len(k) :
    /\ n <= Len(l) /\ SubSeq(k, 1, n) = SubSeq(l, 1, n)
    /\ IF n = Len(k) THEN n < Len(l)
                     ELSE n < Len(l) /\ Code(k[n + 1]) < Code(l[n + 1])

\* strncmp: the sign of the difference of the first two of n characters that
\* differ.  Keys contain no NUL.
StrNCmp(k, l, n) ==
  LET differ == {i \in 1 .. n : k[i] # l[i]}
      first  == CHOOSE i \in differ : \A j \in differ : i <= j
  IN  IF differ = {} THEN 0
      ELSE IF Code(k[first]) < Code(l[first]) THEN -1 ELSE 1

\* Mutant: the shorter key does not come first.
SpanBeforeByText(k, l) ==
  LET shorter == IF Len(k) < Len(l) THEN Len(k) ELSE Len(l)
  IN  StrNCmp(k, l, shorter) < 0

\* KeySpan::operator<
SpanBefore(k, l) ==
  LET shorter == IF Len(k) < Len(l) THEN Len(k) ELSE Len(l)
      cmp == StrNCmp(k, l, shorter)
  IN  IF Len(k) # Len(l) /\ cmp = 0 THEN Len(k) < Len(l) ELSE cmp < 0

\* KeySpan::operator==
SpanEqual(k, l) == Len(k) = Len(l) /\ StrNCmp(k, l, Len(k)) = 0

-----------------------------------------------------------------------------
(* Taking keys apart.  Cursors are 0-based, as in the code.                *)

\* Key::getDepth, and the constructor of KeySpan.
GetDepth(k) == 1 + Cardinality({i \in 1 .. Len(k) : k[i] = "."})

\* Key::ancestor.  The loop runs while separators, which starts at 0, is
\* greater than the offset.
Ancestor(k, offset) ==
  LET walk[at \in (0 .. Len(k)) \X Nat] ==   \* cursor and separators
        IF at[2] > offset /\ at[1] > 0
          THEN walk[<<at[1] - 1, at[2] + IF k[at[1] + 1] = "." THEN 1 ELSE 0>>]
          ELSE at[1]
  IN  IF k = <<>> THEN <<>> ELSE SubSeq(k, 1, walk[<<Len(k) - 1, 0>>] + 1)

\* Mutant: the period itself is returned too.
BasenameWithPeriod(k) ==
  LET walk[cursor \in 0 .. Len(k)] ==
        IF k[cursor + 1] # "." /\ cursor > 0 THEN walk[cursor - 1] ELSE cursor
  IN  IF k = <<>> THEN <<>> ELSE SubSeq(k, walk[Len(k) - 1] + 1, Len(k))

\* Key::basename
Basename(k) ==
  LET walk[cursor \in 0 .. Len(k)] ==
        IF k[cursor + 1] # "." /\ cursor > 0 THEN walk[cursor - 1] ELSE cursor
      stop  == walk[Len(k) - 1]
      begin == IF stop > 0 THEN stop + 1 ELSE stop
  IN  IF k = <<>> THEN <<>> ELSE SubSeq(k, begin + 1, Len(k))
=============================================================================
