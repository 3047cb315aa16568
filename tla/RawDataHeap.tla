----------------------------- MODULE RawDataHeap -----------------------------
(***************************************************************************)
(* RawData (src/src/apcf.cpp) as it is in memory: objects that own buffers *)
(* of characters, or of further objects.  A cell is one object: its type,  *)
(* and a number or the buffer it owns.  Freed buffers are used again, the  *)
(* lowest first.                                                           *)
(*                                                                         *)
(* An assignment is cut into the steps it is made of.  Its destructor is   *)
(* in progress while "deleting" is not empty: the stack of the buffers     *)
(* that delete[] is at work on, one for each level of nested arrays.  Then *)
(* "todo" is the stack of the constructors that are to run: one that calls *)
(* itself for the elements of an array puts a step per element on it.      *)
(***************************************************************************)
EXTENDS Grammar, FiniteSets, SequencesExt

CONSTANTS NSlots,      \* the number of objects a client has
          Texts,       \* the strings a client constructs values from
          Sizes,       \* the sizes of the arrays it allocates
          MaxBuffers,  \* bound: the buffers in use when a call begins
          MaxCells,    \* bound: the elements of all arrays together
          MayFail      \* an allocation may throw bad_alloc

ASSUME SlotsAssumption == NSlots \in Nat
ASSUME TextsAssumption == \A text \in Texts : Len(text) \in Nat
ASSUME SizesAssumption == Sizes \subseteq Nat

VARIABLES heap,        \* the buffers that are allocated
          cells,       \* the objects: the client's, and the elements of arrays
          deleting,    \* the buffers delete[] is at work on
          todo,        \* the constructors the call has still to run
          target,      \* the slot a copy is assigned to, or 0 in other calls
          origin,      \* the slot that the copied object is in, or 0
          failed,      \* an allocation has failed, and the call has thrown
          victim       \* history: the object whose copy has failed, or Nowhere

vars == <<heap, cells, deleting, todo, target, origin, failed, victim>>

\* An object is in a place: <<b, i>> is the i-th element of the buffer b.  The
\* client's objects are the slots <<0, 1>>, <<0, 2>> and so on, one behind the
\* other; <<0, 0>> is the temporary object that some of the calls build.
Slots == 1 .. NSlots
Temporary == <<0, 0>>
Nowhere == <<>>

Cell(type, data, size) == [type |-> type, data |-> data, size |-> size]
NullCell == Cell("eNull", 0, 0)

Owns(cell) == cell.type \in {"eString", "eArray"}

Buffer(type, size, chars) == [type |-> type, size |-> size, chars |-> chars]

Live(b) == b \in DOMAIN heap

\* A buffer of which "left" elements are still to be destroyed.
Deletion(b, left) == [buffer |-> b, left |-> left]

\* The object "at" is to be constructed as a copy of another, or by a move; or
\* the one that is there is to be assigned another.
Construction(op, at, from) == [op |-> op, at |-> at, from |-> from]

Busy == deleting # <<>> \/ todo # <<>>

Init ==
  /\ heap = [b \in {} |-> Buffer("eString", 0, <<>>)]
  /\ cells = [at \in {0} \X (0 .. NSlots) |-> NullCell]
  /\ deleting = <<>> /\ todo = <<>>
  /\ target = 0 /\ origin = 0
  /\ failed = FALSE /\ victim = Nowhere

-----------------------------------------------------------------------------
(* Destruction.                                                            *)

\* Mutant: the elements of an array are not destroyed with it.
DestroyingShallow(at) ==
  IF Owns(cells[at]) THEN <<Deletion(cells[at].data, 0)>> ELSE <<>>

\* ~RawData: delete[] of the buffer an object owns.  The elements of an array
\* are to be destroyed first.
Destroying(at) ==
  LET b == cells[at].data
      elements == IF Live(b) /\ heap[b].type = "eArray" THEN heap[b].size ELSE 0
  IN  IF Owns(cells[at]) THEN <<Deletion(b, elements)>> ELSE <<>>

\* The first step touches only memory that is there: the buffer it deletes is
\* allocated; it reads and writes objects; and an object that is not copied to
\* itself is not copied from a freed buffer.
Sound ==
  IF deleting # <<>> THEN Live(Head(deleting).buffer)
  ELSE LET at == Head(todo).at
           from == Head(todo).from
       IN  /\ at \in DOMAIN cells /\ from \in DOMAIN cells
           /\ Head(todo).op = "copy" /\ Owns(cells[from]) /\ at # from
                => Live(cells[from].data)

\* delete[] destroys the elements of an array, the last one first.
DestroyElement ==
  /\ deleting # <<>> /\ Sound /\ Head(deleting).left > 0
  /\ LET b == Head(deleting).buffer
         n == Head(deleting).left
     IN  deleting' = Destroying(<<b, n>>) \o <<Deletion(b, n - 1)>> \o Tail(deleting)
  /\ UNCHANGED <<heap, cells, todo, target, origin, failed, victim>>

\* The buffer is freed.
FreeBuffer ==
  /\ deleting # <<>> /\ Sound /\ Head(deleting).left = 0
  /\ LET b == Head(deleting).buffer
     IN  /\ heap' = [c \in DOMAIN heap \ {b} |-> heap[c]]
         /\ cells' = [at \in {pl \in DOMAIN cells : pl[1] # b} |-> cells[at]]
  /\ deleting' = Tail(deleting)
  /\ UNCHANGED <<todo, target, origin, failed, victim>>

-----------------------------------------------------------------------------
(* Construction.                                                           *)

\* The first step constructs an object, or assigns one.
Doing(op) == deleting = <<>> /\ todo # <<>> /\ Head(todo).op = op /\ Sound

\* Other steps are left to do.  A call ends with its last step.
Then(steps) ==
  /\ todo' = steps
  /\ target' = IF steps = <<>> THEN 0 ELSE target
  /\ origin' = IF steps = <<>> THEN 0 ELSE origin

\* operator new[] returns the lowest address that is free.
FreshBuffer ==
  CHOOSE b \in 1 .. Cardinality(DOMAIN heap) + 1 :
    ~ Live(b) /\ \A c \in 1 .. b - 1 : Live(c)

Elements(b, buffer) ==
  IF buffer.type = "eArray" THEN {b} \X (1 .. buffer.size) ELSE {}

\* The buffer b is allocated, and the object "at" owns it.  The elements of an
\* array are null.
Allocated(b, at, buffer) ==
  /\ heap' = [c \in DOMAIN heap \union {b} |-> IF c = b THEN buffer ELSE heap[c]]
  /\ cells' = [pl \in DOMAIN cells \union Elements(b, buffer) |->
                 IF pl = at THEN Cell(buffer.type, b, buffer.size)
                 ELSE IF pl \in DOMAIN cells THEN cells[pl] ELSE NullCell]

\* std::strncpy copies up to the first NUL and fills the rest with NULs.
StrNCpy(text) ==
  [i \in 1 .. Len(text) |->
     IF \E j \in 1 .. i : text[j] = NUL THEN NUL ELSE text[i]]

\* What a buffer of characters holds before anything is written to it.
Garbage(size) == [i \in 1 .. size |-> "?"]

CopyPlain ==
  /\ Doing("copy") /\ ~ Owns(cells[Head(todo).from])
  /\ cells' = [cells EXCEPT ![Head(todo).at] = cells[Head(todo).from]]
  /\ Then(Tail(todo))
  /\ UNCHANGED <<heap, deleting, failed, victim>>

\* RawData(const RawData&) of a string.  A string that is assigned to itself
\* is copied from the new buffer.
CopyString ==
  /\ Doing("copy")
  /\ LET at == Head(todo).at
         cell == cells[Head(todo).from]
         chars == IF at = Head(todo).from THEN Garbage(cell.size)
                  ELSE StrNCpy(heap[cell.data].chars)
     IN  /\ cell.type = "eString"
         /\ Allocated(FreshBuffer, at, Buffer("eString", cell.size, chars))
  /\ Then(Tail(todo))
  /\ UNCHANGED <<deleting, failed, victim>>

\* Mutant: the copy constructor the compiler would generate.
CopyElementsShallow ==
  /\ Doing("copy") /\ cells[Head(todo).from].type = "eArray"
  /\ cells' = [cells EXCEPT ![Head(todo).at] = cells[Head(todo).from]]
  /\ Then(Tail(todo))
  /\ UNCHANGED <<heap, deleting, failed, victim>>

\* RawData(const RawData&) of an array: the new elements, which are null, are
\* assigned to one after the other.  Those of an array that is assigned to
\* itself are assigned to themselves.
CopyElements ==
  /\ Doing("copy")
  /\ LET at == Head(todo).at
         cell == cells[Head(todo).from]
         own == FreshBuffer
         source == IF at = Head(todo).from THEN own ELSE cell.data
     IN  /\ cell.type = "eArray"
         /\ Allocated(own, at, Buffer("eArray", cell.size, <<>>))
         /\ Then([i \in 1 .. cell.size |->
                    Construction("copy", <<own, i>>, <<source, i>>)] \o Tail(todo))
  /\ UNCHANGED <<deleting, failed, victim>>

\* Mutant: a copy that cannot be built destroys what there is of it.
AllocationFailsAndDestroys ==
  /\ MayFail /\ Doing("copy") /\ Owns(cells[Head(todo).from])
  /\ deleting' = Destroying(Head(todo).from)
  /\ cells' = [cells EXCEPT ![Head(todo).at] = NullCell]
  /\ todo' = <<>> /\ failed' = TRUE /\ victim' = Head(todo).from
  /\ UNCHANGED <<heap, target, origin>>

\* The allocation of a copy fails.  The type and the pointer of the source have
\* been copied and stay there, so that two objects own one buffer.  bad_alloc
\* leaves the call: an assigned object stays half-built, but the array r that
\* copyArray is building is destroyed.
AllocationFails ==
  /\ MayFail /\ Doing("copy") /\ Owns(cells[Head(todo).from])
  /\ cells' = [cells EXCEPT ![Head(todo).at] = cells[Head(todo).from]]
  /\ deleting' = IF target # 0 THEN <<>> ELSE Destroying(Temporary)
  /\ todo' = <<>> /\ failed' = TRUE /\ victim' = Head(todo).from
  /\ UNCHANGED <<heap, target, origin>>

\* The client's object that was assigned to, or that has the element that was,
\* is half-built, and comes to the end of its life.
HalfBuilt == failed /\ target # 0 /\ Owns(cells[<<0, target>>])

DestroyHalfBuilt ==
  /\ ~ Busy /\ HalfBuilt
  /\ deleting' = Destroying(<<0, target>>)
  /\ cells' = [cells EXCEPT ![<<0, target>>] = NullCell]
  /\ UNCHANGED <<heap, todo, target, origin, failed, victim>>

\* Mutant: the source keeps its type.
MoveKeepsType ==
  /\ Doing("move")
  /\ cells' = [cells EXCEPT ![Head(todo).at] = cells[Head(todo).from]]
  /\ Then(Tail(todo))
  /\ UNCHANGED <<heap, deleting, failed, victim>>

\* RawData(RawData&&): the source is left null.
Move ==
  /\ Doing("move")
  /\ cells' = [cells EXCEPT ![Head(todo).at] = cells[Head(todo).from],
                            ![Head(todo).from] = NullCell]
  /\ Then(Tail(todo))
  /\ UNCHANGED <<heap, deleting, failed, victim>>

-----------------------------------------------------------------------------
(* Assignments.                                                            *)

\* operator=: the object is destroyed, and then constructed again.
Assigning(op, at, from) ==
  /\ deleting' = Destroying(at)
  /\ todo' = <<Construction(op, at, from)>>

\* operator=(RawData&&) of a temporary object to a slot.
AssignTemporary ==
  /\ Doing("assign")
  /\ Assigning("move", Head(todo).at, Head(todo).from)
  /\ UNCHANGED <<heap, cells, target, origin, failed, victim>>

Step == DestroyElement \/ FreeBuffer \/ CopyPlain \/ CopyString \/ CopyElements
          \/ AllocationFails \/ DestroyHalfBuilt \/ Move \/ AssignTemporary

\* Bounds of the memory that is in use when a call begins.
Ready ==
  /\ ~ Busy /\ ~ failed
  /\ Cardinality(DOMAIN heap) <= MaxBuffers
  /\ Cardinality({at \in DOMAIN cells : at[1] # 0}) <= MaxCells

\* The slots, and the elements of the arrays in them: what a client refers to.
Holds(s, b) == cells[<<0, s>>].type = "eArray" /\ cells[<<0, s>>].data = b

Places ==
  {at \in DOMAIN cells \ {Temporary} :
     at[1] = 0 \/ \E s \in Slots : Holds(s, at[1])}

SlotOf(at) ==
  IF at[1] = 0 THEN at[2] ELSE CHOOSE s \in Slots : Holds(s, at[1])

\* The object p is an element of the array in q.
Inside(p, q) == p[1] # 0 /\ q[1] = 0 /\ Holds(q[2], p[1])

\* The assignments of one object to another, which is not in it and of which
\* it is no element, or to itself.
Independent(p, q) == ~ Inside(p, q) /\ ~ Inside(q, p)

CopyAssign ==
  /\ Ready
  /\ \E p, q \in Places : /\ Independent(p, q)
                          /\ Assigning("copy", p, q)
                          /\ target' = SlotOf(p) /\ origin' = SlotOf(q)
  /\ UNCHANGED <<heap, cells, failed, victim>>

MoveAssign ==
  /\ Ready
  /\ \E p, q \in Places : Independent(p, q) /\ Assigning("move", p, q)
  /\ UNCHANGED <<heap, cells, target, origin, failed, victim>>

-----------------------------------------------------------------------------
(* Calls that build a temporary object, which a slot is then assigned.     *)

\* RawData(const std::string&) and RawData(const char*); copyString and
\* moveString, which take the characters as they are; allocString, which
\* takes none.
ConstructString ==
  /\ Ready
  /\ \E s \in Slots, text \in Texts :
       \E chars \in {StrNCpy(text), text, Garbage(Len(text))} :
         /\ Allocated(FreshBuffer, Temporary, Buffer("eString", Len(text), chars))
         /\ todo' = <<Construction("assign", <<0, s>>, Temporary)>>
  /\ UNCHANGED <<deleting, target, origin, failed, victim>>

\* A number, or nothing.
ConstructPlain ==
  /\ Ready
  /\ \E s \in Slots, cell \in {Cell("eInt", 1, 0), NullCell} :
       /\ cells' = [cells EXCEPT ![Temporary] = cell]
       /\ todo' = <<Construction("assign", <<0, s>>, Temporary)>>
  /\ UNCHANGED <<heap, deleting, target, origin, failed, victim>>

\* allocArray
AllocArray ==
  /\ Ready
  /\ \E s \in Slots, size \in Sizes :
       /\ Allocated(FreshBuffer, Temporary, Buffer("eArray", size, <<>>))
       /\ todo' = <<Construction("assign", <<0, s>>, Temporary)>>
  /\ UNCHANGED <<deleting, target, origin, failed, victim>>

\* copyArray and moveArray of the slots from t to u.  The elements of the new
\* array are null: nothing of them is to be destroyed when they are assigned to.
MakeArray(op) ==
  /\ Ready
  /\ \E s, t, u \in Slots :
       /\ t <= u
       /\ Allocated(FreshBuffer, Temporary, Buffer("eArray", u + 1 - t, <<>>))
       /\ todo' = [i \in 1 .. u + 1 - t |->
                     Construction(op, <<FreshBuffer, i>>, <<0, t + i - 1>>)]
                    \o <<Construction("assign", <<0, s>>, Temporary)>>
  /\ UNCHANGED <<deleting, target, origin, failed, victim>>

CopyArray == MakeArray("copy")
MoveArray == MakeArray("move")

\* The first allocation of one of these calls fails.  If it is a constructor that
\* fails there is no object.  The others have made r a string or an array whose
\* pointer is not set, which ~RawData then deletes: nothing happens if it is
\* null by chance, or else the program is lost.
Unset == 0

ConstructionFails ==
  /\ MayFail /\ Ready
  /\ deleting' \in {<<>>, <<Deletion(Unset, 0)>>}
  /\ failed' = TRUE
  /\ UNCHANGED <<heap, cells, todo, target, origin, victim>>

Next == Step \/ CopyAssign \/ MoveAssign \/ ConstructString \/ ConstructPlain
          \/ AllocArray \/ CopyArray \/ MoveArray \/ ConstructionFails

Spec == Init /\ [][Next]_vars

-----------------------------------------------------------------------------
(* Properties.                                                             *)

\* Between two calls every buffer is owned by exactly one object of the client
\* or of an array, and no object owns a buffer that is freed: nothing leaks,
\* and nothing will be freed twice, however arrays are nested, copied, moved
\* and taken apart, as long as no allocation fails.
OwnedOnce ==
  ~ Busy /\ ~ failed =>
    /\ \A b \in DOMAIN heap :
         \E at \in DOMAIN cells \ {Temporary} :
           /\ Owns(cells[at]) /\ cells[at].data = b
           /\ \A other \in DOMAIN cells \ {at} :
                Owns(cells[other]) => cells[other].data # b
    /\ \A at \in DOMAIN cells : Owns(cells[at]) => Live(cells[at].data)

\* As long as no allocation fails, no step reads or frees a buffer that is not
\* allocated, or constructs an object where there is no room for one.
NoFault == Busy /\ ~ failed => Sound
=============================================================================
