# A verification development for APCF

APCF ("Almost Plaintext Configuration Format") is a C++ library that parses, keeps and
writes configurations. This directory models it in TLA+: TLC checks the models on small
instances, TLAPS proves theorems about them for all instances. `PROJECT.json` lists the
components, the runs, the source lines each definition stands for, the hazards of the code
and the properties that cover them.

Source paths are relative to the repository (`src/src/...`, `src/include/...`).

## 1. The system

| Part | State | Operations | Interacts with |
|---|---|---|---|
| Readers (`apcf_io.cpp`) | cursor or characters left, current character, line and column | `fwdOrEof`, `getChar`, `isAtEof` | held by the parser through the interface `io::Reader` |
| Parser (`apcf_parse.cpp`, `apcf_.hpp`) | reader, group stack `keyStack`, the Config being built, the C++ call stack | `Config::parse`, `Config::read` | moves the reader; constructs Keys, which may throw; calls `parseNumber`; sets entries |
| Keys (`apcf.cpp`, `apcf_util.cpp`) | the characters of a key | validity, constructors, `ancestor`, `basename`, order | everything |
| Numbers (`apcf_num.cpp`) | the text, and the rest of a number, in a loop | parse, format, round | parser, serializer |
| ConfigHierarchy (`apcf_hierarchy.cpp`) | `tree_`, from a key to its subkeys | `putKey`, `getSubkeys`, `autocomplete` | built by the serializer from the keys of a Config, or by a client |
| Serializer (`apcf_serialize.cpp`) | stack of calls, flags of the last line, indentation, flags of the last array | `Config::serialize`, `Config::write` | walks a hierarchy, looks entries up, writes to a Writer |
| Writers (`apcf_io.cpp`) | a string, or a stream | `writeChar`, `writeChars` | called by the serializer; the stream may fail |
| Config (`apcf_config.cpp`) | `data_`, from keys to values | set, get, merge, subconfig | filled by the parser, read by the serializer |
| RawData (`apcf.cpp`) | a type, and a number or an owned buffer | copy, move, assign, destroy | values everywhere |

The library is single-threaded and keeps nothing on disk between calls. What is hard about
it is elsewhere: loops whose end depends on another object (a reader that has to report its
end, a tree that must have no cycle, a map that the loop assigns to), two readers of one
interface that fail at different moments, exceptions that leave from any depth of a
recursion, a walk that skips levels of a tree, flags that carry a decision from one line of
output to the next, a hierarchy that may have nothing to do with the Config it is used for,
buffers that are freed before what replaces them is built, and arithmetic at the limits of
its types. The correctness of a part is:

* Readers: what the comments of `io::Reader` say of the cursor, its line and its column.
* Parser: it ends; a document parses to the entries it means and a malformed one throws;
  every key is valid and in its group; memory, stream and part of a stream agree wherever
  they can, and a limit lets nothing in that is not there.
* Keys: a key is a sequence of names, for all the functions that take one apart or compare.
* Numbers: a text is worth its digits; what is written is read back, or close to it.
* Hierarchy: the tree is the closure of the keys put; completion stops at the first fork.
* Serializer: every entry is written exactly once, inside its group, in the layout the rules
  ask for, and reads back; what an exception or a failing stream cuts off is not read as
  something else.
* Config: each loop does what the header says of the call as a whole, which `getSubconfig` does
  not always do; nothing is lost on the way; a view of an array stays what it was while nothing
  assigns to the entry.
* RawData: every buffer has one owner, and objects behave as values; what breaks this is known.

## 2. Modules

Readers and parser:

* `Readers`: `StringReader` and `StdStreamReader`, the latter with or without a limit, as
  operators over a record, so that a parser can hold either. `ReaderContract` is the abstract
  specification, translated from the comments of `io::Reader`; `ReaderClient` is a client that
  calls `fwdOrEof`, also past the end, and states the refinement, which is proved for the one
  reader (`ReaderProofs`) and refuted for the other (`stream_reader_eof`).
* `Grammar`: character classes, `findKeyError`, key validity, joining of keys, values as
  records. `Numbers`: how many characters `parseNumber` accepts and the type it gives.
* `Parser`: one action per loop body or decision of the recursive descent. `pc` names the
  point in the code; the call stack is `ret` (the caller of the blank-skipping routines) and
  `arrays` (the `parseValueArray` calls in progress). `Finish` with the name of an
  exception ends the parse.
* `Document` is the language: documents as sequences of items, their spelling, and what they
  mean, by quantifiers over positions and without any parsing.
* `TwoReaders` runs the parser on a text from memory, then on the same text from a stream:
  either all there is in the stream, or the first characters of a longer one, with a count.
  `DocumentParser` adds texts that are the spelling of a document, and compares what their parse
  comes to with what the document means.

Hierarchy and serializer:

* `KeyTree`: keys as sequences of names, and operators on trees. `Hierarchy`: `putKey` one
  level per step, `autocomplete` one subkey per step.
* `SerializationState`: the indentation and the flags of `serializeArray`. `Values`: the text
  of a value, the layout of arrays included, and which values throw, or fail an assertion,
  instead. `Serializer`: the walk, one action per line
  written, per group opened or closed and per iteration; `frames` is the stack of
  `serializeHierarchy` calls, with the keys each still has to visit.
* `RoundTrip` runs the serializer, hands what it writes to a stream that may fail, then runs
  the parser, with either reader, on what is in the file, also if an exception has left it
  half written. `Layout` states what the text looks like.

Keys, numbers, Config, RawData:

* `Keys`: `ancestor`, `basename`, `getDepth` and the orders of Key and KeySpan.
  `KeyBuilder`: two Key objects that are built from lists, copied and cut off.
* `NumberValues`: `parseNumberInt`, `parseNumberFloat`, the digits of an integer and
  `roundFloatRep`, with integers of `Width` bits that wrap around and floats of
  `Precision` bits that round. `NumberWriter`: a number on its way into a text and back, the
  fraction digit by digit; or a text that somebody else wrote.
* `ConfigMap`: the loops of Config, one action per iteration over a sorted map; `cur` is the
  iterator. `ConfigContract` is the abstract specification: a call that loops is made, and does
  all of what the comments in the header say when it returns. `AsksHidden` says whether the
  client asks for a group that another key hides, where the code does not do what they say.
  `ConfigAccess` adds the template that sets a default,
  and a view: the span that `getArray` returns, while entries are assigned to, freed and
  moved under it. `ConfigGetters` adds the getters, with the assertions of a debug build, and the templates
  that fall back on a default; the text of an array's element is its constant `ElementText`, which `MCConfig`
  takes from the serializer's `Values`.
* `RawDataHeap`: cells, the buffers they own and a heap that uses freed buffers again;
  assignments that destroy first and copy afterwards, with allocations that may fail. A step
  is one destructor or one constructor: `deleting` is the stack of the `delete[]` in progress,
  each with the elements it has left, `todo` the constructors that are still to run, the
  elements of a copied array in front. One allocation may fail: after it the model goes on to
  the destruction of what the exception unwinds, and of the object that was assigned to; `victim`
  is the object that could not be copied. `RawDataValues` reads off the heap what value each
  object has, and keeps in `before` the values from before the call; `ValueStore` is the
  abstract specification: slots that hold values, each for itself.

Proofs: `Facts` holds the lemmas about operators (keys as characters, their joining and their
order; what one `fwdOrEof` does, how lines are counted; levels, trees, completion);
`ReaderProofs`, `ParserProofs`, `HierarchyProofs`, `SerializerProofs`, `ConfigProofs`,
`KeyProofs` and `RawDataProofs` prove about `ReaderClient`, `TwoReaders`, `Hierarchy`,
`RoundTrip`, `ConfigGetters`, `KeyBuilder` and `RawDataHeap`. The modules whose names begin with `MC` give the constants
their values. An operator whose comment begins with "Mutant" is a wrong version of the
definition below it: it is used nowhere, and shows, put in the place of the right one, that a
property notices the mistake (`mutants` in `PROJECT.json`).

What is abstracted: capital letters; the wording of messages and the positions in exceptions;
in the parser and the serializer, what a number is worth (it is the characters it is spelled
with; `NumberWriter` has the worth). `size_t` counters are natural numbers and the stream
limit "none" is `MaxSize`, larger than any text; no modelled counter comes near its width.
Names in the modules of the hierarchy are of one character. Overflow of a signed integer,
which is undefined, wraps around; the conversion of a float that is out of range, which is
undefined too, gives either limit; characters that nothing has written are `?`, or chosen
from a set (`Junk`).

## 3. Runs

| Run | Instance | Shows |
|---|---|---|
| `parser` | 4-item documents over nested and repeated keys, groups in groups with entries before and after the inner one ends, documents with every kind of value, each in four styles of blanks and comments, with and without a comment in place of the last newline, and with carriage returns; all texts of up to 4 words (15 words, among them every delimiter, a lone quote, slash, star, backslash and newline), from memory and from a stream, without a limit and with one that falls where the text ends | the parse comes to what the document means, in entries or in the exception, unless it is written with carriage returns; texts that end with a newline mean the same from all; which endings a stream, and which a count, makes an error of; a limit lets no entry in; keys are valid, both readers count lines and columns, and the stream is one character ahead in every state; when reading ends |
| `keys` | two keys out of lists of 2 names, some with periods of their own, or empty | which lists are keys, and that the object is as it was if one is not; the parts of a key; that the order of KeySpans is that of the map |
| `numbers` | all integers of 8 bits, floats of 6 bits at all scales up to twice the range of integers, decimals with runs of zeros and nines, number-like texts of up to 5 characters in every base | numbers are read back; the loop over the digits of a fraction ends; texts without redundant zeros are worth their digits; rounding stays nearby |
| `hierarchy` | 14 keys of up to 3 levels over 2 names, any 3 put, any one completed in between | the tree is the closure of the keys; completion follows the only way to the first fork, and returns |
| `round_trip` | configs over 5 keys that nest, with values of every kind, nulls and arrays three deep among them, seven sets of rules, the Config's hierarchy or another one, a stream that may fail at any character, both readers | entries are written once, in their group, indented by their nesting, with blank lines that separate; they read back, or are rejected if a value is null; what is cut off is rejected, or a beginning of the Config |
| `config` | two Configs, 4 keys (in a group, the group's own, one behind the group, the empty one), 3 values, 4 calls in any order, none for a hidden group | the loops implement `ConfigContract`; a merge that moves loses nothing; the getters agree, and abort on nulls only; a view follows its value; calls end, but for the loop that runs past the end |
| `raw_data` | two slots that own up to three buffers, with up to two elements in arrays, when a call begins; one failing allocation in any copy or constructor, and the destruction of what it leaves | while none has failed, every buffer is owned once, no freed buffer is read or freed, and objects implement `ValueStore`; one that fails costs the object that was being copied its buffer, and nothing else |

Five more runs each find a disagreement with a document of the repository. All disagreements,
also those that a property of a passing run states, are in `findings` of `PROJECT.json`.

* `stream_reader_eof`: `StdStreamReader::fwdOrEof` fails on the last character, where
  `isAtEof` is still false. Hence `Config::read` rejects some texts that `Config::parse`
  accepts, such as `a=y` without a final newline.
* `lost_entry`: a Config with the entries `a` and `a.b` and no other below `a` is written
  without `a`, because the walk continues from `autocomplete`.
* `hidden_group`: the run `config` for a client that asks for hidden groups too. With the
  entries `g-` and `g.a` the loop of `getSubconfig("g")` stops at the first of them.
* `cut_string`: the run `raw_data` with a text that has a NUL in it, which `strncpy` cuts.
* `leading_zero`: `09` is a sequence of digits, and is rejected as a number of base 8.

The models of the passing runs contain these behaviours too, except for hidden groups and
texts with a NUL, which their instances leave out: `WrittenOnce` says which entries are
written (`Reached`), `StreamOnlyLosesEnds` what the stream reader's lead costs.

### What the properties say of the edges

A property that holds says where the code does something a reader would not expect, too:

* `BothTerminate`: if the limit of a stream falls within a number, `Config::read` never ends:
  the number loop ignores what `fwdOrEof` returns, and `getChar` repeats the digit.
* `CountLosesEnds`, `CountGainsNothing`: which ends of a text a count turns into errors, and
  the one error it overlooks: the last bracket ends all the arrays that are open.
* `ReadersInStep` and `KeysWellFormed` hold in every state of a parse. The latter rests on one of
  two checks: the assertion that ends `parseKey` fails for keys such as `.` or `a..a`, and
  release builds throw `InvalidKey` instead.
* `ReturnSeparatesNothing`: the README counts the carriage return among the blanks, the code
  does not; a document written with one is rejected.
* `ThrowsUnlessNames`: the empty key, which the README calls invalid, is not.
* `ReadsBack`: a minimized Config whose text ends with a boolean at the top has no newline
  behind it, and a stream says that it ends too early. A null value is written as `null`, which
  the parser rejects; one in an array fails an assertion instead, unless the array is
  minimized (`NullInArray`; the program has aborted then and reads nothing).
* `CutFileIsBeginning`: the StdStreamWriter does not report that its stream has failed; a
  file that was cut off reads as a beginning of the Config, and a number at its end may have
  lost digits, and a null be `n`, which is false.
* `HalfWrittenIsRejected`, with `CannotSerialize`: `eFloatNoFail` does not hold for the
  elements of an array that `serializeArray` writes to its cache, with the default rules.
* `CallEnds`: `getSubconfig` runs past the end of the map if no key comes after the group, and
  only then.
* `GettersAgree`: `merge(Config&&)` leaves nulls behind, and all getters but `getFloat` assert
  that there are none.
* `ContractSpec` of `RawDataValues`: an object assigned to itself loses its contents
  (`Unfilled`). `FailureContained`: after a failed allocation two objects own one buffer, until
  one of them is destroyed: `copyArray`'s at once, an assigned one at the end of its life. If the
  copied object is in the one that is destroyed the buffer is freed twice; and the functions that
  set the type before the pointer destroy an object whose pointer was never set.
* `IntReadsBack`: the smallest integer is written as `-`. `FloatReadsBack`: of the floats that
  lie on the limits of `int_t` the digits may fail an assertion. `MeansItsDigits`: a
  sign counts behind a base prefix only; a leading zero is a prefix as well (`leading_zero`).
* `PartsAreNames`: `ancestor` returns the key itself, always.

### Bounds

Two names and three levels give keys that are equal, nested, siblings and unrelated,
chains with and without forks, and a completion that skips two levels. Four items hold
a group with two assignments, unbalanced ends, and an assignment repeated through
different spellings of its key. Four words hold a definition that breaks off at each point
of the grammar; `MaxBuffer` (12 characters) is longer than any token of such a text, so that
only the endless number reaches it. The parser's memory of what it has read is its group
stack, its open arrays and the token it is in, and these bounds nest each twice. Four calls
(`MaxCalls`) fill a Config, merge it, and look at either with another call. `MaxNames` is 2:
a period is between names, or within one. Three buffers (`MaxBuffers`, `MaxCells`) are an
array with a text in it and a text beside it; a call that begins with them makes its copies on
top, and the allocation that fails may be that of an element in the middle of a copy.
`MaxPuts` is 3: a chain, and a fork in it. 8 bits for integers and 6 for floats keep the order
the code has (`NumberAssumption`: the largest integer is not a float), and `Scale`
allows fractions of 9 digits, each the result of a rounded product; runs of 3 digits are rounded
in place of 9. `MCHidingKeys` are two keys, as few as one needs to hide the other.
`CHECK_DEADLOCK FALSE` stands where the program ends. TLC takes between a second and some two
minutes for each run.

### Fairness

Weak fairness of the next-state relation, or of the steps of a call in progress
(`AccessStep`, `Step`): one thread runs a call, nothing blocks, and a call that has begun goes
on. No fairness makes a client start a call. `BothTerminate`, `Returns`,
`CallEnds` and `RoundTripEnds` rest on this alone; that the loops come to an end is what they
check. Writing digits is finite for another reason, which `FractionEnds` states.

## 4. Proofs

Each theorem holds for all values of the constants that the named assumptions allow: any
number of keys, entries, texts and hierarchies, of any size. The inductive invariants
of the parser, the serializer and Config were checked by TLC, too, on the instances of
their runs or slightly smaller ones (all but `CompareInv`, which has a set of states under an
existential quantifier: what it is for, the four properties of the two readers, is checked).

**Hierarchy** (`HierarchyProofs`), from `KeysAssumption`: keys are non-empty sequences of names.

* `TypeCorrect`, `TreeCorrect`: the inductive invariant is `IInv`, the conjunction of the type
  invariant, `TreeIsClosure` and `Idle`. `TreeIsClosure` speaks of the levels put in so far by
  a `putKey` in progress, otherwise it would not hold between two insertions; `Idle` adds that
  there is none between calls. The step is the lemma `InsertAddsLevel`: an insertion below the
  parent turns `TreeOf(levels)` into `TreeOf(levels \union {k})`.
* `CompletionFollowsOnlyWay`, `CompletionEndsAtFork`: with `IInv`, the conjunction `CInv` is
  inductive. The step is `RecurseOnlyWay`: a key below the base that is longer than the key
  reached has a level right below it, that level is inserted, and there is only one.
* `CompletionIsFirstFork`: the loop returns what `Completion` says. `Completion` is a recursive
  function over the nodes of a tree. `FollowExists` shows that there is a function with that
  recursion, by giving one (each key's first fork), so that the CHOOSE behind the
  definition has a value; `CompletionStep` is its recursion, and the loop follows it.

**Readers** (`ReaderProofs`), for texts that are sequences of characters, which each
theorem assumes.

* `StringReaderImplementsContract`: the StringReader refines `ReaderContract`. The invariant
  `StringInv` adds to the observations that the newlines passed have a last one, so that
  `LineStart`, a CHOOSE, has a value (`LineStartIsLast`).

**Parser** (`ParserProofs`), for every text and either reader, with or without a limit, from
`TextsAssumption` of `TwoReaders`.

* `KeysAreWellFormed`: what must be known for it is where in the grammar the parser is: the
  point it goes on at after the blanks (`Target`), that a key being read consists of key
  characters, that an opened group extends the one around it, and that a prefix of groups
  joined with a valid key is valid (`JoinIsValid` of `Facts`). `ParserInv` is their
  conjunction.
* `ReadersKeepStep`: the part of `ParserInv` about the reader is that one `fwdOrEof` keeps the
  count of lines and columns, and the stream reader's lead of one character.
* `StepsComeNearer`: this is what can be said of termination without liveness. `Distance`
  weighs what is left of the text, the open arrays and the point in the code, and falls with
  every step of a parse, except in the loop of `parseValueNumber` when the limit is used up:
  `Overruns`, the endless loop that `BothTerminate` describes, is the only one there is.
* `NewlineIsRead`, `StreamLosesEndsOnly`, `CountLosesEndsOnly`, `CountAddsNothing`: the same
  text from memory and from a stream. `TextsAssumption` says that a text is shorter than the
  limit that stands for none, and that a longer stream holds at least one more character.
  `StepIs`: the parser is a function `After` of four answers of its reader, the character, the
  next one, whether `fwdOrEof` moves and whether the data are at their end. So the parse of
  a text from memory is a path, and `Path` collects its points, each a position and a state
  of the parser; `Parsed` says that it has ended. `CompareInv` is the inductive invariant: the
  parse from the stream is at a point of that path as long as the reader moves (`Followed`).
  What is left is the end of the text. Without a limit the stream reader fails one `fwdOrEof`
  earlier than the string reader: `LastStep` says that a step that ignores this gets to
  the next point all the same, and that one that throws is met by `UnexpectedEof` from memory as
  well, unless the last character ends a word or is a sign (`Short`). At a used-up count
  `getChar` repeats the last character as well: `CountStep` follows the parser through
  `PastCount`, the states it can then be in. Nothing in this says what a text means, so
  no induction over the text is needed.

**Serializer** (`SerializerProofs`), from `ConfigsAssumption` (a Config is finite and has no
empty key: putKey asserts that a key is not empty, and an entry without a name has no text),
`HierarchiesAssumption` (a hierarchy is the closure of some finite set of keys: `TreeCorrect`
proves that of `putKey`) and `OrderAssumption` (the keys compared are strictly and totally
ordered). The stream may fail at any character, and the walk may end in an exception.

* `VisitsStayInside`: `InsideGroup`.
* `EntriesWrittenOnce`: `WrittenOnce`. The inductive invariant is `SInv`. Each key that a frame
  has still to visit stands for the entries that extend it, `Cover`. `AccountInv` says that
  these sets are pairwise disjoint, within a frame and between the frames, that none holds an
  entry already written, and that with those written and with what is left of the key being
  visited they are all the entries that the walk reaches. Beginning, taking the next
  key, writing its entry, opening and closing its group each have a lemma about that account,
  without any state. That a group's visits divide what its key stands for is `VisitsShare`:
  the keys that its subkeys complete to are apart (`EndsApart`), and an entry that
  autocompletion does not skip is behind one of them (`EndsReach`, from `StopExtendsCompletion`,
  by the least counterexample over the length of keys). That sorting neither loses nor repeats
  a key is `Ascends` and `SortedLists`.

**Config** (`ConfigProofs`), from `KeysAssumption` (entries and groups have valid keys) and,
for the views, `ValuesAssumption` (an array is made of its elements). The order of keys is not
assumed but proved to be strict and total (`BeforeIrreflexive`, `BeforeTransitive`,
`BeforeTotal` of `Facts`).

* `LoopsImplementContract`: the refinement that `config` checks, for a client that asks for no
  hidden group (`~ AsksHidden`); without this it is false, as `hidden_group` shows. `begun` is what the Configs were
  when the call began, `Seen` the part of the source map that the iterator has passed, and
  `MapInv` says that each Config is what the contract makes of `begun` and `Seen` (`SoFar`). An
  iteration adds one entry to `Seen` (`OneIteration`); at the end `Seen` is everything. For
  `getSubconfig` it also takes that the keys of a group are an interval of the order
  (`GroupIsConvex`) that begins at the lower bound, as no key hides it.
* `MovesLoseNothing` follows from `MapInv`; `ViewsFollowValues` has the invariant `ViewInv`, on
  where the viewed elements are.
* `GettersAgreeOnEntries`, from `TypesAssumption` too (a value has one of the types of
  `apcf::Type`): `MapInv` says that an entry is, at every iteration, a value or the null that a
  move leaves behind, and the rest is a case for each type. That the assertions fail for nulls,
  and for nothing else, is part of it.

**Keys** (`KeyProofs`), from `NamesAssumption` (names are texts, of any characters) and
`MaxNamesAssumption`. `KeyInv`: both Keys are empty or valid, and each is a text.
The constructors' behaviour when they throw is part of the theorem: the object keeps its value.

* `ConstructorsCheckNames`: `findKeyError`, which looks for a character that is wrong where it
  stands, finds one exactly if some part between two periods is not a name. From a bad position
  `BadPart` has the part around it; `NoName` has a bad position in a part that is none.
  `JoinIsText` is about the library's fold over the list, by a recursive function with a bound
  (`FlattenExists`).
* `KeysAreTheirParts`: `basename` is found by the loop that runs back to a period (`StopIs`,
  `StopStep`), `getDepth` counts the periods, and `DepthIsParts` is the bijection between the
  parts and the periods with the end. `AncestorIsKey` is the loop that never shortens a key.
* `SpansOrderedAsKeys`: two texts that differ have a first difference (`FirstDifference`), and
  both orders are decided there, or by length (`OrderByDifference`, `OrderByLength`).

**RawData** (`RawDataProofs`), from `SlotsAssumption`, `TextsAssumption` and `SizesAssumption`:
any number of objects, arrays of any size nested to any depth, texts of any length.

* `BuffersOwnedOnce`, `NothingFaults`: between the steps of a call neither holds as it is
  stated for a client, so that the invariant `IInv` has to say what each phase owes to the next.
  `Storage`: the elements of a buffer exist as long as the buffer. `OwnersMatch`,
  `OwnersDiffer`: an object that is not yet destroyed (`Dead` are those a `delete[]` has passed)
  owns a buffer that is allocated, of its type and size, and no other object owns it.
  `NothingLost`: a buffer that is allocated has an owner, or is being freed. `DeletingOk`: what
  is on the stack of `delete[]` has lost its owner, level by level. `TodoOk`: the constructors
  that are to run have different targets that own nothing yet, and a source that is alive, also
  across the destruction that an assignment begins with. TLC checked `IInv` on all states of the run.
  Once an allocation has failed none of this holds any more (`IInv` is `failed \/ Inv`), and both
  properties are about the time before; what holds then is `FailureContained`, with TLC.

What is only model-checked:

* all liveness, and ENABLED, which are out of TLAPS' reach here;
* what recursion over values or over the digits of a number computes: `Values`, `ValueStore`,
  `RawDataValues` (these declare RECURSIVE operators, for values in values) and `NumberValues`.
  `FollowExists`, `FlattenExists` and `Least` are how far this project gets without induction
  theorems, which take an operator as a parameter that the installed provers cannot instantiate:
  they suit a recursion down one path, with a bound that can be written down. Hence the
  properties about values (`ContractSpec` of `RawDataValues`, `FailureContained`) and about the
  worth of numbers (those of the run `numbers`) stay with TLC;
* that a document parses to what it means (`ParsesDocument`), that what is written reads back
  (`ReadsBack`, `CutFileIsBeginning`, `HalfWrittenIsRejected`): they compare a run of the parser
  with a text, and need an invariant that says what every prefix of the text means;
* the layout of the text (`Layout`): it is about lines, which the model has only as the
  characters written, and `Values` is recursive.

## 5. Not modelled

* Assignment between an array and its own elements, a Config merged with itself, and
  mergeAsGroup of a Config on itself: the code reads memory it has freed, or inserts into the
  map it iterates over, and anything may follow.
* `collapse_`, which nothing calls; `StringWriter::cursor`, which nothing reads.
* The texts and positions in the error classes; the names of the getters and setters that
  `getCfgValue` and `setCfgValue` select; the operators and literals that only forward.
* The tests, the formatter and the benchmark, which are clients; the build.
