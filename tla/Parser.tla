------------------------------- MODULE Parser -------------------------------
(***************************************************************************)
(* The recursive-descent parser of src/src/apcf_parse.cpp, one character   *)
(* at a time.  The program counter "pc" names the function and the point   *)
(* in it that runs next; the C++ call stack is "ret" (where the routines   *)
(* that skip blanks return to) and "arrays" (the vectors of the            *)
(* parseValueArray calls in progress, the innermost last).                 *)
(*                                                                         *)
(* Exceptions end the parse: "outcome" is then the name of the exception   *)
(* and the partial Config is lost.                                         *)
(***************************************************************************)
EXTENDS Readers, Numbers

CONSTANT Sources     \* the readers a parse may be started on

VARIABLES rd,        \* pd.src
          pc,        \* where the parser is
          ret,       \* where skipWhitespacesAndComments returns to
          go,        \* whether it has another round to do
          buf,       \* the characters of the key, string, number or word
          key,       \* the full key of the current definition
          keyStack,  \* pd.keyStack
          arrays,    \* the arrays being read
          cfg,       \* pd.cfg
          outcome    \* "none" while parsing, "ok", or an exception

vars == <<rd, pc, ret, go, buf, key, keyStack, arrays, cfg, outcome>>

Errors == {"UnexpectedEof", "UnexpectedChar", "InvalidKey",
           "UnmatchedGroupClosure", "UnclosedGroup"}

NoEntries == [k \in {} |-> 0]

\* Config::parse and Config::read: ParseData on a reader, nothing read yet.
Start(reader) ==
  /\ rd = reader
  /\ pc = "lead" /\ ret = "defs" /\ go = FALSE
  /\ buf = <<>> /\ key = <<>> /\ keyStack = <<>> /\ arrays = <<>>
  /\ cfg = NoEntries
  /\ outcome = "none"

Init == \E reader \in Sources : Start(reader)

-----------------------------------------------------------------------------
(* Steps common to the actions.                                            *)

Here == GetChar(rd)

\* The parse returns (result is "ok") or throws an exception.
Finish(result) == /\ pc' = "done" /\ outcome' = result
                  /\ UNCHANGED <<ret, go>>

GoTo(label) == /\ pc' = label
               /\ UNCHANGED <<ret, go, outcome>>

\* skipWhitespacesAndComments(pd), then go on at label.  Its first round
\* looks for whitespace whether or not there was a comment.
SkipTo(label) == /\ pc' = "comments" /\ ret' = label /\ go' = TRUE
                 /\ UNCHANGED outcome

\* fwdOrEof() with its result ignored.
MayFwd == rd' = Fwd(rd)

\* The function fwd: go on at label, or throw UnexpectedEof.
MustFwdTo(label) ==
  /\ rd' = Fwd(rd)
  /\ IF FwdMoves(rd) THEN GoTo(label) ELSE Finish("UnexpectedEof")

MustFwdSkipTo(label) ==
  /\ rd' = Fwd(rd)
  /\ IF FwdMoves(rd) THEN SkipTo(label) ELSE Finish("UnexpectedEof")

\* A value has been read within the given arrays: parseValue returns to
\* parseValueArray or to parse, and both skip blanks next.
DeliverTo(outer, value) ==
  IF outer = <<>>
    THEN /\ cfg' = [k \in DOMAIN cfg \union {key} |->
                      IF k = key THEN value ELSE cfg[k]]
         /\ arrays' = outer
         /\ SkipTo("defs")
    ELSE /\ arrays' = [outer EXCEPT ![Len(outer)] = Append(@, value)]
         /\ UNCHANGED cfg
         /\ SkipTo("elems")

Deliver(value) == DeliverTo(arrays, value)

-----------------------------------------------------------------------------
(* Blanks.                                                                 *)

\* The skipWhitespaces call that parse starts with.
Lead ==
  /\ pc = "lead"
  /\ IF IsWhitespace(Here)
       THEN /\ MayFwd
            /\ IF FwdMoves(rd) THEN GoTo("lead") ELSE SkipTo("defs")
       ELSE UNCHANGED rd /\ SkipTo("defs")
  /\ UNCHANGED <<buf, key, keyStack, arrays, cfg>>

\* skipComments, and skipComment up to its second character.
Comments ==
  /\ pc = "comments"
  /\ \/ /\ Here = "/"
        /\ rd' = Fwd(rd)
        /\ IF FwdMoves(rd)
             THEN pc' = "comment2" /\ go' = TRUE /\ UNCHANGED <<ret, outcome>>
             ELSE Finish("UnexpectedEof")
     \/ /\ Here # "/"
        /\ pc' = IF go THEN "blanks" ELSE ret
        /\ go' = FALSE
        /\ UNCHANGED <<rd, ret, outcome>>
  /\ UNCHANGED <<buf, key, keyStack, arrays, cfg>>

CommentKind ==
  /\ pc = "comment2"
  /\ UNCHANGED rd
  /\ \/ Here = "/" /\ GoTo("sl")
     \/ Here = "*" /\ GoTo("ml")
     \/ Here \notin {"/", "*"} /\ Finish("UnexpectedChar")
  /\ UNCHANGED <<buf, key, keyStack, arrays, cfg>>

\* Mutant: the result of fwdOrEof is ignored.
SingleLineForever ==
  /\ pc = "sl"
  /\ rd' = Fwd(rd)
  /\ GoTo(IF GetChar(rd') # NL THEN "sl" ELSE "comments")
  /\ UNCHANGED <<buf, key, keyStack, arrays, cfg>>

\* The newline that ends the comment is left to skipWhitespaces.
SingleLine ==
  /\ pc = "sl"
  /\ rd' = Fwd(rd)
  /\ GoTo(IF FwdMoves(rd) /\ GetChar(rd') # NL THEN "sl" ELSE "comments")
  /\ UNCHANGED <<buf, key, keyStack, arrays, cfg>>

\* "mlStar": lastChar is an asterisk.
MultiLine ==
  /\ pc \in {"ml", "mlStar"}
  /\ MustFwdTo(IF GetChar(rd') = "/" /\ pc = "mlStar" THEN "mlEnd"
               ELSE IF GetChar(rd') = "*" THEN "mlStar" ELSE "ml")
  /\ UNCHANGED <<buf, key, keyStack, arrays, cfg>>

MultiLineEnd ==
  /\ pc = "mlEnd"
  /\ MayFwd
  /\ GoTo("comments")
  /\ UNCHANGED <<buf, key, keyStack, arrays, cfg>>

\* skipWhitespaces within skipWhitespacesAndComments: if it skips anything
\* another round of skipComments follows.
Blanks ==
  /\ pc = "blanks"
  /\ IF IsWhitespace(Here)
       THEN /\ rd' = Fwd(rd)
            /\ pc' = IF FwdMoves(rd) THEN "blanks" ELSE "comments"
            /\ go' = FwdMoves(rd)
       ELSE /\ pc' = IF go THEN "comments" ELSE ret
            /\ go' = FALSE
            /\ UNCHANGED rd
  /\ UNCHANGED <<ret, outcome, buf, key, keyStack, arrays, cfg>>

-----------------------------------------------------------------------------
(* The loop of parse.                                                      *)

AtEnd ==
  /\ pc = "defs"
  /\ IsAtEof(rd)
  /\ Finish(IF keyStack = <<>> THEN "ok" ELSE "UnclosedGroup")
  /\ UNCHANGED <<rd, buf, key, keyStack, arrays, cfg>>

CloseGroup ==
  /\ pc = "defs"
  /\ ~ IsAtEof(rd)
  /\ Here = "}"
  /\ IF keyStack = <<>>
       THEN Finish("UnmatchedGroupClosure") /\ UNCHANGED <<rd, keyStack>>
       ELSE /\ keyStack' = SubSeq(keyStack, 1, Len(keyStack) - 1)
            /\ MayFwd
            /\ SkipTo("defs")
  /\ UNCHANGED <<buf, key, arrays, cfg>>

BeginKey ==
  /\ pc = "defs"
  /\ ~ IsAtEof(rd)
  /\ Here # "}"
  /\ buf' = <<>>
  /\ IF IsValidKeyChar(Here) THEN GoTo("key") ELSE Finish("UnexpectedChar")
  /\ UNCHANGED <<rd, key, keyStack, arrays, cfg>>

\* The loop of parseKey.  All non-key characters end the key; the end of the
\* data does too, if the reader steps onto it.
KeyChar ==
  /\ pc = "key"
  /\ buf' = Append(buf, Here)
  /\ MustFwdTo(IF IsValidKeyChar(GetChar(rd')) THEN "key" ELSE "keyEnd")
  /\ UNCHANGED <<key, keyStack, arrays, cfg>>

\* Mutant: the key of the outermost group is used for all of them.
FullKeyOutermost == IF keyStack = <<>> THEN buf ELSE JoinKeys(keyStack[1], buf)

\* The return of parseKey and the prefixing with the group's key: each of
\* the two constructs a Key, which throws if the characters are no key.
FullKey == IF keyStack = <<>> THEN buf
                              ELSE JoinKeys(keyStack[Len(keyStack)], buf)

\* Mutant: Key objects are constructed without a check.
EndKeyUnchecked ==
  /\ pc = "keyEnd"
  /\ key' = FullKey
  /\ SkipTo("delim")
  /\ UNCHANGED <<rd, buf, keyStack, arrays, cfg>>

EndKey ==
  /\ pc = "keyEnd"
  /\ IF IsKeyValid(buf) /\ IsKeyValid(FullKey)
       THEN key' = FullKey /\ SkipTo("delim")
       ELSE Finish("InvalidKey") /\ UNCHANGED key
  /\ UNCHANGED <<rd, buf, keyStack, arrays, cfg>>

\* The character after the key decides what is defined, once the parser has
\* moved past it.
BeginGroup ==
  /\ pc = "delim"
  /\ Here = "{"
  /\ MustFwdSkipTo("defs")
  /\ keyStack' = IF FwdMoves(rd) THEN Append(keyStack, key) ELSE keyStack
  /\ UNCHANGED <<buf, key, arrays, cfg>>

Assign ==
  /\ pc = "delim"
  /\ Here = "="
  /\ MustFwdSkipTo("value")
  /\ UNCHANGED <<buf, key, keyStack, arrays, cfg>>

NoDelimiter ==
  /\ pc = "delim"
  /\ Here \notin {"{", "="}
  /\ rd' = Fwd(rd)
  /\ Finish(IF FwdMoves(rd) THEN "UnexpectedChar" ELSE "UnexpectedEof")
  /\ UNCHANGED <<buf, key, keyStack, arrays, cfg>>

-----------------------------------------------------------------------------
(* Values: the dispatch of parseValue, and arrays.                         *)

BeginArray ==
  /\ pc = "value"
  /\ Here = "["
  /\ MustFwdSkipTo("elems")
  /\ arrays' = IF FwdMoves(rd) THEN Append(arrays, <<>>) ELSE arrays
  /\ UNCHANGED <<buf, key, keyStack, cfg>>

Element ==
  /\ pc = "elems"
  /\ Here # "]"
  /\ GoTo("value")
  /\ UNCHANGED <<rd, buf, key, keyStack, arrays, cfg>>

\* Mutant: something must follow the array.
EndArrayMustFwd ==
  /\ pc = "elems"
  /\ Here = "]"
  /\ rd' = Fwd(rd)
  /\ IF FwdMoves(rd)
       THEN DeliverTo(SubSeq(arrays, 1, Len(arrays) - 1),
                      ArrayData(arrays[Len(arrays)]))
       ELSE Finish("UnexpectedEof") /\ UNCHANGED <<arrays, cfg>>
  /\ UNCHANGED <<buf, key, keyStack>>

\* The array that ends here is an element of the one around it, if any.
EndArray ==
  /\ pc = "elems"
  /\ Here = "]"
  /\ MayFwd
  /\ DeliverTo(SubSeq(arrays, 1, Len(arrays) - 1),
               ArrayData(arrays[Len(arrays)]))
  /\ UNCHANGED <<buf, key, keyStack>>

BeginString ==
  /\ pc = "value"
  /\ Here = "\""
  /\ buf' = <<>>
  /\ MustFwdTo("string")
  /\ UNCHANGED <<key, keyStack, arrays, cfg>>

BeginNumber ==
  /\ pc = "value"
  /\ \/ /\ Here \in Signs
        /\ buf' = <<Here>>
        /\ MustFwdTo("number")
     \/ /\ IsNumerical(Here)
        /\ buf' = <<>>
        /\ GoTo("number")
        /\ UNCHANGED rd
  /\ UNCHANGED <<key, keyStack, arrays, cfg>>

BeginBool ==
  /\ pc = "value"
  /\ Here \in {"y", "n", "t", "f"}
  /\ buf' = <<Here>>
  /\ MustFwdTo("bool")
  /\ UNCHANGED <<key, keyStack, arrays, cfg>>

NoValue ==
  /\ pc = "value"
  /\ Here \notin {"[", "\"", "y", "n", "t", "f"} \union Signs \union Digits
  /\ Finish("UnexpectedChar")
  /\ UNCHANGED <<rd, buf, key, keyStack, arrays, cfg>>

-----------------------------------------------------------------------------
(* parseValueString: a backslash makes the next character a literal one.   *)

\* Mutant: the end of the text ends a string as well.
StringCharMayEnd ==
  /\ pc = "string"
  /\ \/ /\ Here = "\"" \/ ~ FwdMoves(rd)
        /\ MayFwd
        /\ Deliver(StringData(buf))
        /\ UNCHANGED buf
     \/ /\ Here = "\\" /\ FwdMoves(rd)
        /\ MustFwdTo("escape")
        /\ UNCHANGED <<buf, arrays, cfg>>
     \/ /\ Here \notin {"\"", "\\"} /\ FwdMoves(rd)
        /\ buf' = Append(buf, Here)
        /\ MustFwdTo("string")
        /\ UNCHANGED <<arrays, cfg>>
  /\ UNCHANGED <<key, keyStack>>

StringChar ==
  /\ pc = "string"
  /\ \/ /\ Here = "\""
        /\ MayFwd
        /\ Deliver(StringData(buf))
        /\ UNCHANGED buf
     \/ /\ Here = "\\"
        /\ MustFwdTo("escape")
        /\ UNCHANGED <<buf, arrays, cfg>>
     \/ /\ Here \notin {"\"", "\\"}
        /\ buf' = Append(buf, Here)
        /\ MustFwdTo("string")
        /\ UNCHANGED <<arrays, cfg>>
  /\ UNCHANGED <<key, keyStack>>

EscapedChar ==
  /\ pc = "escape"
  /\ buf' = Append(buf, Here)
  /\ MustFwdTo("string")
  /\ UNCHANGED <<key, keyStack, arrays, cfg>>

-----------------------------------------------------------------------------
(* parseValueNumber: the whole number-like string first, then its parse.   *)

NumberChar ==
  /\ pc = "number"
  /\ IsAlphanum(Here) \/ Here = "."
  /\ buf' = Append(buf, Here)
  /\ MayFwd
  /\ GoTo("number")
  /\ UNCHANGED <<key, keyStack, arrays, cfg>>

EndNumber ==
  /\ pc = "number"
  /\ ~ (IsAlphanum(Here) \/ Here = ".")
  /\ LET result == ParseNumber(buf)
     IN  IF result.parsedChars = Len(buf)
           THEN Deliver(result.value)
           ELSE Finish("UnexpectedChar") /\ UNCHANGED <<arrays, cfg>>
  /\ UNCHANGED <<rd, buf, key, keyStack>>

-----------------------------------------------------------------------------
(* parseValueBool: "buf" is the part of the word read so far.              *)

Words == [t |-> <<"t", "r", "u", "e">>, f |-> <<"f", "a", "l", "s", "e">>,
          y |-> <<"y", "e", "s">>, n |-> <<"n", "o">>]
Word == Words[buf[1]]

\* The argument of expectOpt is next: "y" and "n" are words already.
Optional == buf \in {<<"y">>, <<"n">>}
MayEnd == Optional /\ ~ IsAlphanum(Here)

EndBool ==
  /\ pc = "bool"
  /\ buf = Word \/ MayEnd
  /\ Deliver(BoolData(buf[1] \in {"t", "y"}))
  /\ UNCHANGED <<rd, buf, key, keyStack>>

\* expect compares, then moves; expectOpt moves, then compares.
BoolChar ==
  /\ pc = "bool"
  /\ buf # Word /\ ~ MayEnd
  /\ IF Here = Word[Len(buf) + 1]
       THEN MustFwdTo("bool") /\ buf' = Append(buf, Here)
       ELSE /\ rd' = IF Optional THEN Fwd(rd) ELSE rd
            /\ Finish(IF Optional /\ ~ FwdMoves(rd) THEN "UnexpectedEof"
                                                   ELSE "UnexpectedChar")
            /\ UNCHANGED buf
  /\ UNCHANGED <<key, keyStack, arrays, cfg>>

-----------------------------------------------------------------------------
Next ==
  \/ Lead \/ Comments \/ CommentKind \/ SingleLine \/ MultiLine
  \/ MultiLineEnd \/ Blanks
  \/ AtEnd \/ CloseGroup \/ BeginKey \/ KeyChar \/ EndKey
  \/ BeginGroup \/ Assign \/ NoDelimiter
  \/ BeginArray \/ Element \/ EndArray \/ BeginString \/ BeginNumber
  \/ BeginBool \/ NoValue
  \/ StringChar \/ EscapedChar \/ NumberChar \/ EndNumber
  \/ BoolChar \/ EndBool

Spec == Init /\ [][Next]_vars /\ WF_vars(Next)

-----------------------------------------------------------------------------
(* Invariants.                                                             *)

IsKey(k) == k # <<>> /\ IsKeyValid(k)

\* Every key of the group stack and of the Config is a valid non-empty key,
\* each group's key extends that of the group around it, and prefixing a valid
\* key with the key of its group never throws (the Key constructors in parse,
\* the keyStack of ParseData): InvalidKey is always about the characters that
\* parseKey read, so that a debug build never throws it, but stops at the
\* assertion of parseKey first.
KeysWellFormed ==
  /\ \A i \in 1 .. Len(keyStack) : IsKey(keyStack[i])
  /\ \A i \in 1 .. Len(keyStack) - 1 :
       \E rest \in {SubSeq(keyStack[i + 1], n, Len(keyStack[i + 1])) :
                      n \in 1 .. Len(keyStack[i + 1])} :
         keyStack[i + 1] = JoinKeys(keyStack[i], rest)
  /\ \A k \in DOMAIN cfg : IsKey(k)
  /\ pc = "keyEnd" /\ IsKeyValid(buf) => IsKeyValid(FullKey)
=============================================================================
