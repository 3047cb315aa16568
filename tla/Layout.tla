------------------------------- MODULE Layout -------------------------------
(***************************************************************************)
(* What the text the Serializer writes looks like: the indentation of its  *)
(* lines and the blank lines between them.  Three functions and two        *)
(* recursions pass the state on that decides it                            *)
(* (src/src/apcf_serialize.cpp).                                           *)
(***************************************************************************)
EXTENDS RoundTrip, Grammar

\* The positions behind which a line of a text begins.
LineStarts(text) == {0} \union {i \in 1 .. Len(text) - 1 : text[i] = NL}

LineAt(text, start) ==
  LET ends == {i \in start + 1 .. Len(text) : text[i] = NL}
  IN  SubSeq(text, start + 1, Min(ends) - 1)

Opening == {"[", "{"}
Closing == {"]", "}"}

\* How many brackets are open behind position p.
Nesting(text, p) ==
  Cardinality({i \in 1 .. p : text[i] \in Opening})
    - Cardinality({i \in 1 .. p : text[i] \in Closing})

\* The whole text, in several lines; nothing is read yet.
Spread == JustWritten /\ ~ rules.minimized /\ dst # <<>>

-----------------------------------------------------------------------------
\* Every line is indented by the groups and arrays it is in, a line that ends
\* one by one level less; also where an array begins in the line in which
\* the one before it ends (pushIndent and popIndent of serializeArray,
\* serializeLineGroupBeg and serializeLineGroupEnd).
IndentFollowsNesting ==
  Spread =>
    \A start \in LineStarts(dst) :
      LET line  == LineAt(dst, start)
          blank == {i \in 1 .. Len(line) : \A j \in 1 .. i : line[j] \in {" ", "\t"}}
          ends  == line[Cardinality(blank) + 1] \in Closing
      IN  line # <<>> =>
            Cardinality(blank) =
              rules.indentationSize * (Nesting(dst, start) - IF ends THEN 1 ELSE 0)

\* A blank line separates: there is none at the beginning or the end of the
\* text or of a group, and there are never two (lastLineFlags is set by three
\* functions and read by two).
BlankLinesSeparate ==
  Spread =>
    /\ dst[1] # NL
    /\ \A i \in 2 .. Len(dst) :
         dst[i - 1] = NL /\ dst[i] = NL =>
           /\ 2 < i /\ i < Len(dst) /\ dst[i - 2] # "{"
           /\ dst[i + 1] # NL
           /\ LET next == LineAt(dst, i)
              IN  \E j \in 1 .. Len(next) :
                    next[j] \notin {" ", "\t", "}"}
                      /\ \A k \in 1 .. j - 1 : next[k] \in {" ", "\t"}
=============================================================================
