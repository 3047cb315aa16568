----------------------------- MODULE RoundTrip -----------------------------
(***************************************************************************)
(* A Config is written to a stream and what has arrived is read back: the  *)
(* Serializer runs, also to a premature end in an exception, then the      *)
(* Parser on the characters in the file.                                   *)
(*                                                                         *)
(* The stream may fail, such as a file on a disk that fills up.            *)
(* StdStreamWriter (src/src/apcf_io.cpp) hands characters to the stream    *)
(* and does not look at its state, so the walk goes on to its end and      *)
(* write returns as ever.                                                  *)
(***************************************************************************)
EXTENDS Serializer

CONSTANTS Reread(_, _),  \* the value that reads back as what was written
          Unreadable(_), \* ... unless the parser rejects it
          Unreliable     \* bound: the Configs whose streams may fail

VARIABLES rd, ppc, ret, go, buf, pkey, keyStack, arrays, cfg, outcome,
          file,          \* the characters that have reached the file
          good,          \* std::ostream::good()
          source         \* how the file is read: "none" before that

pvars == <<rd, ppc, ret, go, buf, pkey, keyStack, arrays, cfg, outcome>>
rvars == <<svars, pvars, file, good, source>>

P == INSTANCE Parser WITH pc <- ppc, key <- pkey, Sources <- {}

RInit == /\ SInit
         /\ P!Start(P!StringReader(<<>>))
         /\ file = <<>> /\ good = TRUE /\ source = "none"

-----------------------------------------------------------------------------
\* writeChar and writeChars.  A stream that is good takes all the characters
\* or fails after some of them; one that has failed takes none.
WriteChars(chars) ==
  \/ good /\ file' = file \o chars /\ UNCHANGED good
  \/ /\ good /\ chars # <<>> /\ map \in Unreliable
     /\ \E n \in 0 .. Len(chars) - 1 : file' = file \o SubSeq(chars, 1, n)
     /\ good' = FALSE
  \/ ~ good /\ UNCHANGED <<file, good>>

\* A line of the walk, whose characters go to the writer.
Write ==
  /\ SNext
  /\ \E chars \in {SubSeq(dst', Len(dst) + 1, Len(dst'))} : WriteChars(chars)
  /\ UNCHANGED <<pvars, source>>

\* Config::parse or Config::read on the file, unless the program has aborted.
OpenFile ==
  /\ pc = "done" /\ source = "none" /\ result # "Aborted"
  /\ \/ source' = "memory" /\ rd' = P!StringReader(file)
     \/ source' = "stream" /\ rd' = P!StdStreamReader(file, P!MaxSize, P!NUL)
  /\ UNCHANGED <<svars, ppc, ret, go, buf, pkey, keyStack, arrays, cfg,
                 outcome, file, good>>

ReadFile == source # "none" /\ P!Next /\ UNCHANGED <<svars, file, good, source>>

RNext == Write \/ OpenFile \/ ReadFile

RSpec == RInit /\ [][RNext]_rvars /\ WF_rvars(RNext)

-----------------------------------------------------------------------------
(* Properties of what is written.                                          *)

JustWritten == result = "ok" /\ source = "none"

\* The entries the walk gets to: the hierarchy has their key, and
\* autocompletion does not skip it because it has exactly one subkey.
Reached ==
  IF rules.expandKeys THEN DOMAIN map
  ELSE {k \in DOMAIN map \intersect Nodes(hierarchy) : ~ HasOnlySubkey(hierarchy, k)}

\* Every entry reached is written, and no entry is written twice
\* (serializeHierarchy visits an entry's key on one path only).
WrittenOnce ==
  JustWritten => /\ ToSet(written) = Reached
                 /\ Len(written) = Cardinality(Reached)

\* Every key is visited inside its group: what is left of it as a basename
\* is not empty, also when the hierarchy is not the Config's own
\* (keyBasenameSpan in serializeHierarchy).
InsideGroup ==
  pc \in {"entry", "group"} => Extends(key, Top.key) /\ key # Top.key

\* Serializing a Config loses nothing: "it is allowed and non-redundant to
\* use the full key of an entry as the name of a group" (src/README.md).
NothingLost ==
  JustWritten /\ given = {} => ToSet(written) = DOMAIN map

-----------------------------------------------------------------------------
(* Properties of what is read back.                                        *)

ReadDone == source # "none" /\ ppc = "done"

\* The entries that have been written first, as they should read back.
FirstWritten(n) ==
  [k \in {KeyText(written[i]) : i \in 1 .. n} |->
     Reread(rules, map[CHOOSE w \in ToSet(written) : KeyText(w) = k])]

\* What was written in full parses, and to the entries written, value by
\* value: separators, quoting and grouping all say what was meant.  Only a
\* stream that ends with a boolean value, for want of the newline eMinimized
\* leaves out, is said to end too early; and a null value is written as a
\* word that the parser rejects (src/src/apcf_serialize.cpp, line 218).
ReadsBack ==
  ReadDone /\ good /\ result = "ok" =>
    IF \E k \in ToSet(written) : Unreadable(map[k]) THEN outcome \in P!Errors ELSE
    \/ outcome = "ok" /\ cfg = FirstWritten(Len(written))
    \/ /\ source = "stream" /\ rules.minimized /\ outcome = "UnexpectedEof"
       /\ map[Last(written)].type = "eBool" /\ Last(dst) # "}"

\* What an exception left half written never parses: it cannot be taken for
\* a smaller Config (serializeLineEntry stops between '=' and the value).
HalfWrittenIsRejected ==
  ReadDone /\ good /\ result = "InvalidValue" => outcome \in P!Errors

\* What a number has become of which the last characters are missing.
CutNumber(value, whole) ==
  /\ whole.type \in {"eInt", "eFloat"} /\ value.type \in {"eInt", "eFloat"}
  /\ value.text # whole.text /\ Len(value.text) < Len(whole.text)
  /\ SubSeq(whole.text, 1, Len(value.text)) = value.text

\* A null value of which only the first character was written is FALSE.
CutNull(value, whole) == whole.type = "eNull" /\ value = P!BoolData(FALSE)

\* Of the entries in a group at the top, all are in the file or none.
GroupsAreWhole ==
  \A name \in {<<k[1]>> : k \in ToSet(written)} :
    LET group  == Completion(hierarchy, name)
        inside == {KeyText(k) : k \in {w \in ToSet(written) :
                                         Extends(w, group) /\ w # group}}
    IN  inside \subseteq DOMAIN cfg \/ inside \intersect DOMAIN cfg = {}

\* Though the writer tells nobody that the stream has failed, a file that is
\* read without an error holds the first entries that were written, and these
\* with their values: except that the last of them, if it is a number, may
\* have lost digits, and if it is null be FALSE.  Strings, arrays, booleans
\* and groups are never cut.
CutFileIsBeginning ==
  ReadDone /\ outcome = "ok" =>
    /\ \E n \in 0 .. Len(written) :
         /\ DOMAIN cfg = DOMAIN FirstWritten(n)
         /\ \A i \in 1 .. n :
              LET value == cfg[KeyText(written[i])]
                  whole == Reread(rules, map[written[i]])
              IN  \/ value = whole
                  \/ i = n /\ ~ good /\ (CutNumber(value, whole) \/ CutNull(value, whole))
    /\ rules.expandKeys \/ GroupsAreWhole

\* Writing and reading both end.
RoundTripEnds == <>(ReadDone \/ result = "Aborted")
=============================================================================
