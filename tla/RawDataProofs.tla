---------------------------- MODULE RawDataProofs ----------------------------
(***************************************************************************)
(* Proof that every buffer of RawDataHeap has one owner and that no freed  *)
(* buffer is touched, for arrays of any size, nested in any depth, as long *)
(* as no allocation fails.                                                 *)
(***************************************************************************)
EXTENDS RawDataHeap, Facts

-----------------------------------------------------------------------------
(* The inductive invariant.                                                *)

Types == {"eNull", "eInt", "eString", "eArray"}

HeapType ==
  /\ IsFiniteSet(DOMAIN heap) /\ DOMAIN heap \subseteq Nat \ {0}
  /\ \A b \in DOMAIN heap :
       /\ heap[b].type \in {"eString", "eArray"}
       /\ heap[b].size \in Nat

CellsType ==
  \A at \in DOMAIN cells :
    /\ cells[at].type \in Types
    /\ Owns(cells[at]) => cells[at].data \in Nat \ {0} /\ cells[at].size \in Nat

\* The objects are the slots, the temporary object and the elements of the
\* arrays that are allocated.
Element(at) ==
  IF at[1] = 0 THEN at[2] \in 0 .. NSlots
  ELSE /\ at[1] \in DOMAIN heap
       /\ heap[at[1]].type = "eArray"
       /\ at[2] \in 1 .. heap[at[1]].size

Storage ==
  /\ \A at \in DOMAIN cells : /\ at[1] \in Nat /\ at[2] \in Nat
                              /\ at = <<at[1], at[2]>>
                              /\ Element(at)
  /\ \A i \in 0 .. NSlots : <<0, i>> \in DOMAIN cells
  /\ \A b \in DOMAIN heap :
       heap[b].type = "eArray" =>
         \A i \in 1 .. heap[b].size : <<b, i>> \in DOMAIN cells

\* delete[] has destroyed the element "at" of the buffer it is at work on.
Destroyed(at) ==
  \E k \in 1 .. Len(deleting) :
    deleting[k].buffer = at[1] /\ deleting[k].left < at[2]

\* A constructor has still to build the object "at".
Pending(at) ==
  \E k \in 1 .. Len(todo) : todo[k].op # "assign" /\ todo[k].at = at

Dead(at) == Destroyed(at) \/ Pending(at)

\* The object is alive and owns a buffer.
Owner(at) == at \in DOMAIN cells /\ ~ Dead(at) /\ Owns(cells[at])

OwnersMatch ==
  \A at \in DOMAIN cells :
    Owner(at) => /\ cells[at].data \in DOMAIN heap
                 /\ heap[cells[at].data].type = cells[at].type
                 /\ heap[cells[at].data].size = cells[at].size

OwnersDiffer ==
  \A at, o \in DOMAIN cells :
    Owner(at) /\ Owner(o) /\ cells[at].data = cells[o].data => at = o

NothingLost ==
  \A b \in DOMAIN heap :
    \/ \E k \in 1 .. Len(deleting) : deleting[k].buffer = b
    \/ \E at \in DOMAIN cells : Owner(at) /\ cells[at].data = b

\* A slot whose array has the element "at", or "at" is a slot.
Rooted(at) == at[1] = 0 \/ \E s \in Slots : Owner(<<0, s>>) /\ Holds(s, at[1])

\* The buffers that delete[] is at work on are allocated, have no owner any
\* more, and are different ones.
DeletingOk ==
  /\ deleting \in Seq([buffer : Nat \ {0}, left : Nat])
  /\ \A k \in 1 .. Len(deleting) :
       /\ deleting[k].buffer \in DOMAIN heap
       /\ deleting[k].left > 0 =>
            /\ heap[deleting[k].buffer].type = "eArray"
            /\ deleting[k].left <= heap[deleting[k].buffer].size
       /\ \A at \in DOMAIN cells : Owner(at) => cells[at].data # deleting[k].buffer
  /\ \A k, l \in 1 .. Len(deleting) :
       deleting[k].buffer = deleting[l].buffer => k = l

\* Meanwhile one object is to be constructed, and neither it nor its source is
\* in a buffer that is freed.
DeletingForOne ==
  deleting # <<>> =>
    /\ Len(todo) = 1 /\ todo[1].op # "assign"
    /\ Rooted(todo[1].at) /\ Rooted(todo[1].from)

Constructions ==
  [op : {"copy", "move", "assign"}, at : Nat \X Nat, from : Nat \X Nat]

\* The constructors that are to run write and read objects; an assignment of
\* the temporary object to a slot comes last.
TodoType ==
  /\ todo \in Seq(Constructions)
  /\ \A k \in 1 .. Len(todo) :
       /\ todo[k].at \in DOMAIN cells /\ todo[k].from \in DOMAIN cells
       /\ todo[k].at # Temporary
       /\ todo[k].op = "assign" =>
            k = Len(todo) /\ todo[k].at[1] = 0 /\ todo[k].from = Temporary

\* No two of them build the same object.
TargetsDiffer ==
  \A k, l \in 1 .. Len(todo) :
    todo[k].op # "assign" /\ todo[l].op # "assign" /\ todo[k].at = todo[l].at => k = l

\* What owns a buffer is not read after it has been destroyed, but when an
\* object is constructed from itself; nor is it written, unless its buffer has
\* just been freed.
SourcesAlive ==
  \A k \in 1 .. Len(todo) :
    todo[k].op # "assign" =>
      todo[k].from = todo[k].at \/ ~ Owns(cells[todo[k].from]) \/ ~ Dead(todo[k].from)

TargetsEmpty ==
  \A k \in 1 .. Len(todo) :
    todo[k].op # "assign" => Len(todo) = 1 \/ ~ Owns(cells[todo[k].at])

TodoOk == TodoType /\ TargetsDiffer /\ SourcesAlive /\ TargetsEmpty

\* The temporary object owns nothing, unless it is still to be moved from.
TemporaryOk ==
  Owns(cells[Temporary]) =>
    todo # <<>> /\ todo[Len(todo)].op # "copy" /\ todo[Len(todo)].from = Temporary

\* While no allocation has failed, all of it holds.
Inv == /\ HeapType /\ CellsType /\ Storage
       /\ OwnersMatch /\ OwnersDiffer /\ NothingLost
       /\ DeletingOk /\ DeletingForOne /\ TodoOk /\ TemporaryOk

IInv == failed \/ Inv

-----------------------------------------------------------------------------
(* Facts about the memory.                                                 *)

\* operator new[] returns a buffer that is free.
LEMMA FreshIsFree ==
  ASSUME HeapType
  PROVE  FreshBuffer \in Nat \ {0} /\ FreshBuffer \notin DOMAIN heap
<1> DEFINE n == Cardinality(DOMAIN heap)
<1> DEFINE free == {b \in 1 .. n + 1 : ~ Live(b)}
<1>1. n \in Nat
  BY FS_CardinalityType DEF HeapType
<1>2. free # {}
  <2> SUFFICES ASSUME free = {}
               PROVE  FALSE
    OBVIOUS
  <2>1. 1 .. n + 1 \subseteq DOMAIN heap
    BY DEF Live
  <2>2. Cardinality(1 .. n + 1) <= n
    BY <2>1, FS_Subset DEF HeapType
  <2>3. Cardinality(1 .. n + 1) = n + 1
    <3> HIDE DEF n
    <3> QED
      BY <1>1, FS_Interval
  <2> QED
    BY <1>1, <2>2, <2>3
<1>3. \E m \in free : \A k \in free : m <= k
  <2>1. free \in SUBSET Nat
    BY <1>1
  <2> HIDE DEF free
  <2> QED
    BY <1>2, <2>1, Least
<1>4. \E b \in 1 .. n + 1 : ~ Live(b) /\ \A c \in 1 .. b - 1 : Live(c)
  <2>1. PICK m \in free : \A k \in free : m <= k
    BY <1>3
  <2>2. \A c \in 1 .. m - 1 : Live(c)
    BY <1>1, <2>1
  <2> QED
    BY <2>1, <2>2
<1>5. FreshBuffer \in 1 .. n + 1 /\ ~ Live(FreshBuffer)
  BY <1>4 DEF FreshBuffer
<1> HIDE DEF n
<1> QED
  BY <1>1, <1>5 DEF Live

\* The rest of a stack.
LEMMA TailFacts ==
  ASSUME NEW S, NEW s \in Seq(S), s # <<>>
  PROVE  /\ Tail(s) \in Seq(S) /\ Len(s) \in Nat \ {0} /\ Len(Tail(s)) = Len(s) - 1
         /\ \A k \in 1 .. Len(s) - 1 : Tail(s)[k] = s[k + 1]
         /\ Head(s) = s[1] /\ s[1] \in S
OBVIOUS

\* What allocating a buffer for the object "at" does to the memory.
Grown(b, at, type, size) ==
  /\ DOMAIN heap' = DOMAIN heap \union {b}
  /\ heap'[b].type = type /\ heap'[b].size = size
  /\ \A c \in DOMAIN heap : heap'[c] = heap[c]
  /\ DOMAIN cells \subseteq DOMAIN cells'
  /\ cells'[at] = Cell(type, b, size)
  /\ \A pl \in DOMAIN cells : pl # at => cells'[pl] = cells[pl]
  /\ \A pl \in DOMAIN cells' :
       pl \notin DOMAIN cells => pl[1] = b /\ cells'[pl] = NullCell
  /\ type = "eArray" =>
       \A i \in 1 .. size :
         <<b, i>> \in DOMAIN cells' /\ <<b, i>> \notin DOMAIN cells

\* It is what Allocated says.
LEMMA AllocatedFacts ==
  ASSUME HeapType, CellsType, Storage,
         NEW b \in Nat \ {0}, b \notin DOMAIN heap, NEW at \in DOMAIN cells,
         NEW type \in {"eString", "eArray"}, NEW size \in Nat, NEW chars,
         Allocated(b, at, Buffer(type, size, chars))
  PROVE  HeapType' /\ CellsType' /\ Storage' /\ Grown(b, at, type, size)
<1> DEFINE new == Elements(b, Buffer(type, size, chars))
<1>1. /\ DOMAIN heap' = DOMAIN heap \union {b}
      /\ \A c \in DOMAIN heap : heap'[c] = heap[c]
      /\ heap'[b] = Buffer(type, size, chars)
  BY DEF Allocated
<1>2. heap'[b].type = type /\ heap'[b].size = size
  BY <1>1 DEF Buffer
<1>3. \A pl : pl \in new <=> /\ type = "eArray"
                           /\ pl \in {b} \X (1 .. size)
  BY DEF Elements, Buffer
<1>4. \A pl \in new : pl[1] = b /\ pl[2] \in 1 .. size /\ pl = <<pl[1], pl[2]>>
  BY <1>3
<1>5. \A i \in 1 .. size : type = "eArray" => <<b, i>> \in new
  BY <1>3
<1>6. \A pl \in DOMAIN cells : pl[1] # b
  BY DEF Storage, Element
<1>7. /\ DOMAIN cells' = DOMAIN cells \union new
      /\ cells'[at] = Cell(type, b, size)
      /\ \A pl \in DOMAIN cells : pl # at => cells'[pl] = cells[pl]
      /\ \A pl \in new : cells'[pl] = NullCell
  <2>1. cells' = [pl \in DOMAIN cells \union new |->
                    IF pl = at THEN Cell(type, b, size)
                    ELSE IF pl \in DOMAIN cells THEN cells[pl] ELSE NullCell]
    BY DEF Allocated, Buffer
  <2> HIDE DEF new
  <2> QED
    BY <1>4, <1>6, <2>1
<1> HIDE DEF new
<1>8. HeapType'
  <2>1. IsFiniteSet(DOMAIN heap \union {b})
    BY FS_AddElement DEF HeapType
  <2> QED
    BY <1>1, <1>2, <2>1 DEF HeapType
<1>9. CellsType'
  BY <1>7 DEF CellsType, Owns, Cell, NullCell, Types
<1>10. Storage'
  <2>1. ASSUME NEW pl \in DOMAIN cells'
        PROVE  /\ pl[1] \in Nat /\ pl[2] \in Nat /\ pl = <<pl[1], pl[2]>>
               /\ Element(pl)'
    <3>1. CASE pl \in DOMAIN cells
      BY <1>1, <3>1 DEF Storage, Element
    <3>2. CASE pl \in new
      BY <1>1, <1>2, <1>3, <1>4, <3>2 DEF Element
    <3> QED
      BY <1>7, <3>1, <3>2
  <2>2. \A c \in DOMAIN heap' :
          heap'[c].type = "eArray" =>
            \A i \in 1 .. heap'[c].size : <<c, i>> \in DOMAIN cells'
    BY <1>1, <1>2, <1>5, <1>7 DEF Storage
  <2> QED
    BY <1>7, <2>1, <2>2 DEF Storage
<1> QED
  BY <1>1, <1>2, <1>4, <1>5, <1>6, <1>7, <1>8, <1>9, <1>10 DEF Grown

\* The new buffer has one owner, and the owners of the others are the same.
LEMMA AllocatedOwners ==
  ASSUME HeapType, CellsType, Storage, OwnersMatch, OwnersDiffer, NothingLost,
         deleting = <<>>,
         NEW b \in Nat \ {0}, b \notin DOMAIN heap, NEW at \in DOMAIN cells,
         NEW type \in {"eString", "eArray"}, NEW size, Grown(b, at, type, size),
         ~ Owner(at), ~ Dead(at)',
         \A pl \in DOMAIN cells : pl # at => (Dead(pl)' <=> Dead(pl))
  PROVE  OwnersMatch' /\ OwnersDiffer' /\ NothingLost'
<1>1. /\ DOMAIN heap' = DOMAIN heap \union {b}
      /\ heap'[b].type = type /\ heap'[b].size = size
      /\ \A c \in DOMAIN heap : heap'[c] = heap[c]
      /\ DOMAIN cells \subseteq DOMAIN cells'
      /\ cells'[at] = Cell(type, b, size)
      /\ \A pl \in DOMAIN cells : pl # at => cells'[pl] = cells[pl]
      /\ \A pl \in DOMAIN cells' : pl \notin DOMAIN cells => cells'[pl] = NullCell
  BY DEF Grown
<1>2. \A pl \in DOMAIN cells : pl # at => (Owner(pl)' <=> Owner(pl))
  BY <1>1 DEF Owner
<1>3. /\ Owner(at)' /\ cells'[at].data = b
      /\ cells'[at].type = type /\ cells'[at].size = size
  BY <1>1 DEF Owner, Owns, Cell
<1>4. \A pl \in DOMAIN cells' : pl \notin DOMAIN cells => ~ Owner(pl)'
  BY <1>1 DEF Owner, Owns, NullCell, Cell
<1>5. \A pl \in DOMAIN cells' :
        Owner(pl)' => \/ pl = at
                      \/ /\ pl \in DOMAIN cells /\ Owner(pl)
                         /\ cells'[pl] = cells[pl] /\ cells[pl].data \in DOMAIN heap
  BY <1>1, <1>2, <1>4 DEF OwnersMatch
<1>6. OwnersMatch'
  BY <1>1, <1>3, <1>5 DEF OwnersMatch
<1>7. OwnersDiffer'
  BY <1>1, <1>3, <1>5 DEF OwnersDiffer
<1>8. NothingLost'
  <2>1. \A c \in DOMAIN heap : \E pl \in DOMAIN cells : Owner(pl) /\ cells[pl].data = c
    BY DEF NothingLost
  <2>2. \A c \in DOMAIN heap : \E pl \in DOMAIN cells' : Owner(pl)' /\ cells'[pl].data = c
    BY <1>1, <1>2, <2>1
  <2> QED
    BY <1>1, <1>3, <2>2 DEF NothingLost
<1> QED
  BY <1>6, <1>7, <1>8

\* The first of the constructors has run; the others are left.
Popped ==
  /\ todo' \in Seq(Constructions) /\ Len(todo') = Len(todo) - 1
  /\ \A k \in 1 .. Len(todo) - 1 : todo'[k] = todo[k + 1]

\* The first step that is to be taken, and those that are then left.
LEMMA FirstStep ==
  ASSUME TodoType, NEW op, Doing(op)
  PROVE  /\ deleting = <<>> /\ todo # <<>> /\ Len(todo) \in Nat \ {0}
         /\ Head(todo) = todo[1] /\ todo[1].op = op /\ todo[1] \in Constructions
         /\ todo[1].at \in DOMAIN cells /\ todo[1].from \in DOMAIN cells
         /\ todo[1].at # Temporary
         /\ todo' = Tail(todo) => Popped
<1>1. todo \in Seq(Constructions)
  BY DEF TodoType
<1>2. todo # <<>> /\ deleting = <<>> /\ Head(todo).op = op
  BY DEF Doing
<1>3. /\ Len(todo) \in Nat \ {0} /\ Head(todo) = todo[1] /\ todo[1] \in Constructions
      /\ Tail(todo) \in Seq(Constructions) /\ Len(Tail(todo)) = Len(todo) - 1
      /\ \A k \in 1 .. Len(todo) - 1 : Tail(todo)[k] = todo[k + 1]
  BY <1>1, <1>2, TailFacts
<1>4. 1 \in 1 .. Len(todo)
  BY <1>3
<1>5. /\ todo[1].at \in DOMAIN cells /\ todo[1].from \in DOMAIN cells
      /\ todo[1].at # Temporary
  BY <1>4 DEF TodoType
<1> QED
  BY <1>2, <1>3, <1>5 DEF Popped

\* When the first of the constructors has run, only its object is no longer
\* to be built.
LEMMA OneLessPending ==
  ASSUME TodoType, TargetsDiffer, NEW op \in {"copy", "move"}, Doing(op),
         Popped, deleting' = deleting, NEW at, at = todo[1].at
  PROVE  /\ ~ Owner(at) /\ ~ Dead(at)'
         /\ \A pl : pl # at => (Dead(pl)' <=> Dead(pl))
<1>1. /\ deleting = <<>> /\ Len(todo) \in Nat \ {0}
      /\ todo[1].op = op /\ Len(todo') = Len(todo) - 1
      /\ \A k \in 1 .. Len(todo) - 1 : todo'[k] = todo[k + 1]
  BY FirstStep DEF Popped
<1>2. \A pl : ~ Destroyed(pl) /\ ~ Destroyed(pl)'
  BY <1>1 DEF Destroyed
<1>3. Pending(at)
  BY <1>1 DEF Pending
<1>4. ASSUME NEW pl
      PROVE  Pending(pl)' <=> \E k \in 1 .. Len(todo) - 1 :
                                todo[k + 1].op # "assign" /\ todo[k + 1].at = pl
  BY <1>1 DEF Pending
<1>5. ASSUME Pending(at)'
      PROVE  FALSE
  <2>1. PICK k \in 1 .. Len(todo) - 1 : todo[k + 1].op # "assign" /\ todo[k + 1].at = at
    BY <1>4, <1>5
  <2>2. k + 1 \in 1 .. Len(todo) /\ 1 \in 1 .. Len(todo) /\ todo[1].op # "assign"
    BY <1>1
  <2>3. k + 1 = 1
    BY <2>1, <2>2 DEF TargetsDiffer
  <2> QED
    BY <1>1, <2>3
<1>6. ASSUME NEW pl, pl # at
      PROVE  Pending(pl)' <=> Pending(pl)
  <2>1. ASSUME Pending(pl) PROVE Pending(pl)'
    <3>1. PICK k \in 1 .. Len(todo) : todo[k].op # "assign" /\ todo[k].at = pl
      BY <2>1 DEF Pending
    <3>2. k # 1
      BY <1>6, <3>1
    <3>3. k - 1 \in 1 .. Len(todo) - 1 /\ (k - 1) + 1 = k
      BY <1>1, <3>2
    <3> QED
      BY <1>4, <3>1, <3>3
  <2>2. ASSUME Pending(pl)' PROVE Pending(pl)
    <3>1. PICK k \in 1 .. Len(todo) - 1 : todo[k + 1].op # "assign" /\ todo[k + 1].at = pl
      BY <1>4, <2>2
    <3>2. k + 1 \in 1 .. Len(todo)
      BY <1>1
    <3> QED
      BY <3>1, <3>2 DEF Pending
  <2> QED
    BY <2>1, <2>2
<1>7. ~ Owner(at) /\ ~ Dead(at)'
  BY <1>2, <1>3, <1>5 DEF Owner, Dead
<1>8. \A pl : pl # at => (Dead(pl)' <=> Dead(pl))
  BY <1>2, <1>6 DEF Dead
<1> QED
  BY <1>7, <1>8

\* What is left to be constructed, when the first of the constructors has run
\* and has not written to any other object what owns a buffer.
LEMMA PoppedTodo ==
  ASSUME TodoOk, TemporaryOk, NEW op \in {"copy", "move"}, Doing(op),
         Popped, deleting' = deleting, NEW at, at = todo[1].at,
         DOMAIN cells \subseteq DOMAIN cells',
         \A pl \in DOMAIN cells :
           pl # at => cells'[pl] = cells[pl] \/ ~ Owns(cells'[pl]),
         op = "copy" \/ ~ Owns(cells'[todo[1].from]),
         Temporary \in DOMAIN cells
  PROVE  TodoOk' /\ TemporaryOk'
<1>1. /\ deleting = <<>> /\ todo # <<>> /\ Len(todo) \in Nat \ {0}
      /\ todo[1].op = op /\ at # Temporary
      /\ todo' \in Seq(Constructions) /\ Len(todo') = Len(todo) - 1
      /\ \A k \in 1 .. Len(todo) - 1 : todo'[k] = todo[k + 1]
  BY FirstStep DEF TodoOk, Popped
<1>2. /\ ~ Owner(at) /\ ~ Dead(at)'
      /\ \A pl : pl # at => (Dead(pl)' <=> Dead(pl))
  BY OneLessPending DEF TodoOk
<1>3. \A k \in 1 .. Len(todo) - 1 : k + 1 \in 1 .. Len(todo) /\ k + 1 # 1
  BY <1>1
<1>4. TodoType'
  <2>1. \A k \in 1 .. Len(todo) - 1 :
          /\ todo[k + 1].at \in DOMAIN cells' /\ todo[k + 1].from \in DOMAIN cells'
          /\ todo[k + 1].at # Temporary
          /\ todo[k + 1].op = "assign" =>
               /\ k = Len(todo) - 1 /\ todo[k + 1].at[1] = 0
               /\ todo[k + 1].from = Temporary
    <3> SUFFICES ASSUME NEW k \in 1 .. Len(todo) - 1, NEW j, j = k + 1
                 PROVE  /\ todo[j].at \in DOMAIN cells /\ todo[j].from \in DOMAIN cells
                        /\ todo[j].at # Temporary
                        /\ todo[j].op = "assign" =>
                             /\ j = Len(todo) /\ todo[j].at[1] = 0
                             /\ todo[j].from = Temporary
      BY <1>1
    <3>1. j \in 1 .. Len(todo)
      BY <1>1
    <3> QED
      BY <3>1 DEF TodoOk, TodoType
  <2> QED
    BY SMTT(20), <1>1, <2>1 DEF TodoType
<1>5. TargetsDiffer'
  <2> SUFFICES ASSUME NEW k \in 1 .. Len(todo'), NEW l \in 1 .. Len(todo'),
                      todo'[k].op # "assign", todo'[l].op # "assign",
                      todo'[k].at = todo'[l].at
               PROVE  k = l
    BY DEF TargetsDiffer
  <2>1. /\ k \in 1 .. Len(todo) - 1 /\ l \in 1 .. Len(todo) - 1
        /\ k + 1 \in 1 .. Len(todo) /\ l + 1 \in 1 .. Len(todo)
    BY <1>1
  <2>2. todo'[k] = todo[k + 1] /\ todo'[l] = todo[l + 1]
    BY <1>1, <2>1
  <2>3. k + 1 = l + 1
    BY <2>1, <2>2 DEF TodoOk, TargetsDiffer
  <2> QED
    BY <1>1, <2>3
<1>6. ASSUME NEW k \in 1 .. Len(todo) - 1, todo[k + 1].op # "assign"
      PROVE  /\ todo[k + 1].at \in DOMAIN cells /\ todo[k + 1].from \in DOMAIN cells
             /\ todo[k + 1].at # at
             /\ ~ Owns(cells[todo[k + 1].at])
             /\ \/ todo[k + 1].from = todo[k + 1].at
                \/ ~ Owns(cells[todo[k + 1].from])
                \/ ~ Dead(todo[k + 1].from)
  <2>1. k + 1 \in 1 .. Len(todo) /\ 1 \in 1 .. Len(todo) /\ k + 1 # 1 /\ Len(todo) # 1
    BY <1>1, <1>3
  <2>2. todo[k + 1].at \in DOMAIN cells /\ todo[k + 1].from \in DOMAIN cells
    BY <2>1 DEF TodoOk, TodoType
  <2>3. todo[k + 1].at # at
    BY <1>1, <1>6, <2>1 DEF TodoOk, TargetsDiffer
  <2>4. ~ Owns(cells[todo[k + 1].at])
    BY <1>6, <2>1 DEF TodoOk, TargetsEmpty
  <2>5. \/ todo[k + 1].from = todo[k + 1].at
        \/ ~ Owns(cells[todo[k + 1].from])
        \/ ~ Dead(todo[k + 1].from)
    BY <1>6, <2>1 DEF TodoOk, SourcesAlive
  <2> QED
    BY <2>2, <2>3, <2>4, <2>5
<1>7. SourcesAlive'
  <2> SUFFICES ASSUME NEW k \in 1 .. Len(todo) - 1, todo[k + 1].op # "assign",
                      NEW src, src = todo[k + 1].from, src # todo[k + 1].at
               PROVE  ~ Owns(cells'[src]) \/ ~ Dead(src)'
    BY <1>1 DEF SourcesAlive
  <2>1. src \in DOMAIN cells /\ (~ Owns(cells[src]) \/ ~ Dead(src))
    BY <1>6
  <2> QED
    BY <1>2, <2>1
<1>8. TargetsEmpty'
  <2>1. \A k \in 1 .. Len(todo) - 1 :
          todo[k + 1].op # "assign" => ~ Owns(cells'[todo[k + 1].at])
    BY <1>6
  <2> QED
    BY <1>1, <2>1 DEF TargetsEmpty
<1>9. TemporaryOk'
  <2> SUFFICES ASSUME Owns(cells'[Temporary])
               PROVE  /\ todo' # <<>> /\ todo'[Len(todo) - 1].op # "copy"
                      /\ todo'[Len(todo) - 1].from = Temporary
    BY <1>1 DEF TemporaryOk
  <2>1. Owns(cells[Temporary])
    BY <1>1
  <2>2. todo[Len(todo)].op # "copy" /\ todo[Len(todo)].from = Temporary
    BY <2>1 DEF TemporaryOk
  <2>3. Len(todo) # 1
    BY <1>1, <2>2
  <2>4. Len(todo) - 1 \in 1 .. Len(todo) - 1 /\ (Len(todo) - 1) + 1 = Len(todo)
    BY <1>1, <2>3
  <2>5. todo' # <<>>
    <3>1. Len(todo') # 0
      BY <1>1, <2>3
    <3> QED
      BY <3>1
  <2> QED
    BY <1>1, <2>2, <2>4, <2>5
<1> QED
  BY <1>4, <1>5, <1>7, <1>8, <1>9 DEF TodoOk

\* While nothing is allocated or freed, and the owners are the same, they stay
\* the only ones.
LEMMA OwnersKept ==
  ASSUME OwnersMatch, OwnersDiffer, NothingLost, heap' = heap, deleting = <<>>,
         DOMAIN cells' = DOMAIN cells,
         \A pl \in DOMAIN cells : Owner(pl)' <=> Owner(pl),
         \A pl \in DOMAIN cells : Owner(pl) => cells'[pl] = cells[pl]
  PROVE  OwnersMatch' /\ OwnersDiffer' /\ NothingLost'
<1>1. OwnersMatch'
  BY DEF OwnersMatch
<1>2. OwnersDiffer'
  BY DEF OwnersDiffer
<1>3. \A b \in DOMAIN heap : \E at \in DOMAIN cells : Owner(at) /\ cells[at].data = b
  BY DEF NothingLost
<1>4. NothingLost'
  BY <1>3 DEF NothingLost
<1> QED
  BY <1>1, <1>2, <1>4

\* While no destructor is in progress.
LEMMA NoDeletions ==
  ASSUME deleting' = <<>>
  PROVE  DeletingOk' /\ DeletingForOne'
<1>1. <<>> \in Seq([buffer : Nat \ {0}, left : Nat])
  OBVIOUS
<1> QED
  BY <1>1 DEF DeletingOk, DeletingForOne

-----------------------------------------------------------------------------
(* Construction.                                                           *)

LEMMA CopyPlainKeeps ==
  ASSUME Inv, CopyPlain
  PROVE  Inv'
<1>1. PICK at, from : at = todo[1].at /\ from = todo[1].from
  OBVIOUS
<1>2. Doing("copy") /\ todo' = Tail(todo) /\ heap' = heap /\ deleting' = deleting
  BY DEF CopyPlain, Then
<1>3. /\ deleting = <<>> /\ at \in DOMAIN cells /\ from \in DOMAIN cells
      /\ Popped /\ Head(todo) = todo[1]
  BY <1>1, <1>2, FirstStep DEF Inv, TodoOk
<1>4. /\ DOMAIN cells' = DOMAIN cells
      /\ cells'[at] = cells[from] /\ ~ Owns(cells[from])
      /\ \A pl \in DOMAIN cells : pl # at => cells'[pl] = cells[pl]
  BY <1>1, <1>3 DEF CopyPlain
<1>5. /\ ~ Owner(at) /\ ~ Dead(at)'
      /\ \A pl : pl # at => (Dead(pl)' <=> Dead(pl))
  BY <1>1, <1>2, <1>3, OneLessPending DEF Inv, TodoOk
<1>6. TodoOk' /\ TemporaryOk'
  <2>1. Temporary \in DOMAIN cells
    BY SlotsAssumption DEF Inv, Storage, Temporary
  <2> QED
    BY <1>1, <1>2, <1>3, <1>4, <2>1, PoppedTodo DEF Inv
<1>7. HeapType' /\ CellsType' /\ Storage'
  <2>1. HeapType'
    BY <1>2 DEF Inv, HeapType
  <2>2. CellsType'
    BY <1>3, <1>4 DEF Inv, CellsType, Owns
  <2>3. Storage'
    BY <1>2, <1>4 DEF Inv, Storage, Element
  <2> QED
    BY <2>1, <2>2, <2>3
<1>8. OwnersMatch' /\ OwnersDiffer' /\ NothingLost'
  <2>1. \A pl \in DOMAIN cells : Owner(pl)' <=> Owner(pl)
    BY <1>4, <1>5 DEF Owner
  <2>2. \A pl \in DOMAIN cells : Owner(pl) => cells'[pl] = cells[pl]
    BY <1>4, <1>5
  <2> QED
    BY <1>2, <1>3, <1>4, <2>1, <2>2, OwnersKept DEF Inv
<1>9. DeletingOk' /\ DeletingForOne'
  BY <1>2, <1>3, NoDeletions
<1> QED
  BY <1>6, <1>7, <1>8, <1>9 DEF Inv

LEMMA CopyStringKeeps ==
  ASSUME Inv, CopyString
  PROVE  Inv'
<1>1. PICK at, from : at = todo[1].at /\ from = todo[1].from
  OBVIOUS
<1>2. Doing("copy") /\ todo' = Tail(todo) /\ deleting' = deleting
  BY DEF CopyString, Then
<1>3. /\ deleting = <<>> /\ at \in DOMAIN cells /\ from \in DOMAIN cells
      /\ Popped /\ Head(todo) = todo[1]
  BY <1>1, <1>2, FirstStep DEF Inv, TodoOk
<1>4. PICK own, size, chars :
        /\ own = FreshBuffer /\ size = cells[from].size /\ cells[from].type = "eString"
        /\ Allocated(own, at, Buffer("eString", size, chars))
  BY <1>1, <1>3 DEF CopyString
<1>5. own \in Nat \ {0} /\ own \notin DOMAIN heap /\ size \in Nat
  BY <1>3, <1>4, FreshIsFree DEF Inv, CellsType, Owns
<1>6. HeapType' /\ CellsType' /\ Storage' /\ Grown(own, at, "eString", size)
  BY <1>3, <1>4, <1>5, AllocatedFacts DEF Inv
<1>7. /\ ~ Owner(at) /\ ~ Dead(at)'
      /\ \A pl : pl # at => (Dead(pl)' <=> Dead(pl))
  BY <1>1, <1>2, <1>3, OneLessPending DEF Inv, TodoOk
<1>8. OwnersMatch' /\ OwnersDiffer' /\ NothingLost'
  BY <1>3, <1>5, <1>6, <1>7, AllocatedOwners DEF Inv
<1>9. TodoOk' /\ TemporaryOk'
  <2>1. Temporary \in DOMAIN cells
    BY SlotsAssumption DEF Inv, Storage, Temporary
  <2>2. /\ DOMAIN cells \subseteq DOMAIN cells'
        /\ \A pl \in DOMAIN cells : pl # at => cells'[pl] = cells[pl]
    BY <1>6 DEF Grown
  <2> QED
    BY <1>1, <1>2, <1>3, <2>1, <2>2, PoppedTodo DEF Inv
<1>10. DeletingOk' /\ DeletingForOne'
  BY <1>2, <1>3, NoDeletions
<1> QED
  BY <1>6, <1>8, <1>9, <1>10 DEF Inv

LEMMA MoveKeeps ==
  ASSUME Inv, Move
  PROVE  Inv'
<1>1. PICK at, from : at = todo[1].at /\ from = todo[1].from
  OBVIOUS
<1>2. Doing("move") /\ todo' = Tail(todo) /\ heap' = heap /\ deleting' = deleting
  BY DEF Move, Then
<1>3. /\ deleting = <<>> /\ at \in DOMAIN cells /\ from \in DOMAIN cells
      /\ Popped /\ Head(todo) = todo[1] /\ todo[1].op = "move" /\ 1 \in 1 .. Len(todo)
  BY <1>1, <1>2, FirstStep DEF Inv, TodoOk
<1>4. /\ DOMAIN cells' = DOMAIN cells
      /\ at # from => cells'[at] = cells[from]
      /\ cells'[from] = NullCell /\ ~ Owns(cells'[from])
      /\ \A pl \in DOMAIN cells : pl # at /\ pl # from => cells'[pl] = cells[pl]
  <2>1. cells' = [cells EXCEPT ![at] = cells[from], ![from] = NullCell]
    BY <1>1, <1>3 DEF Move
  <2> QED
    BY <1>3, <2>1 DEF Owns, NullCell, Cell
<1>5. /\ ~ Owner(at) /\ ~ Dead(at)'
      /\ \A pl : pl # at => (Dead(pl)' <=> Dead(pl))
  BY <1>1, <1>2, <1>3, OneLessPending DEF Inv, TodoOk
<1>6. TodoOk' /\ TemporaryOk'
  <2>1. Temporary \in DOMAIN cells
    BY SlotsAssumption DEF Inv, Storage, Temporary
  <2>2. \A pl \in DOMAIN cells :
          pl # at => cells'[pl] = cells[pl] \/ ~ Owns(cells'[pl])
    BY <1>4
  <2> QED
    BY <1>1, <1>2, <1>3, <1>4, <2>1, <2>2, PoppedTodo DEF Inv
<1>7. HeapType' /\ CellsType' /\ Storage'
  <2>1. HeapType'
    BY <1>2 DEF Inv, HeapType
  <2>2. CellsType'
    BY <1>3, <1>4 DEF Inv, CellsType, Owns, NullCell, Cell, Types
  <2>3. Storage'
    BY <1>2, <1>4 DEF Inv, Storage, Element
  <2> QED
    BY <2>1, <2>2, <2>3
\* What the source owned is owned by the new object.
<1>8. at # from /\ Owns(cells[from]) => Owner(from)
  BY <1>1, <1>3 DEF Inv, TodoOk, SourcesAlive, Owner
<1>9. ASSUME NEW pl \in DOMAIN cells, Owner(pl)'
      PROVE  \E old \in DOMAIN cells :
               /\ Owner(old) /\ cells'[pl] = cells[old]
               /\ old = IF pl = at THEN from ELSE pl
  <2>1. pl # from
    BY <1>4, <1>9 DEF Owner
  <2>2. CASE pl = at
    BY <1>3, <1>4, <1>8, <1>9, <2>1, <2>2 DEF Owner
  <2>3. CASE pl # at
    BY <1>4, <1>5, <1>9, <2>1, <2>3 DEF Owner
  <2> QED
    BY <2>2, <2>3
<1>10. OwnersMatch'
  <2> SUFFICES ASSUME NEW pl \in DOMAIN cells, Owner(pl)'
               PROVE  /\ cells'[pl].data \in DOMAIN heap
                      /\ heap[cells'[pl].data].type = cells'[pl].type
                      /\ heap[cells'[pl].data].size = cells'[pl].size
    BY <1>2, <1>4 DEF OwnersMatch
  <2>1. PICK old \in DOMAIN cells : Owner(old) /\ cells'[pl] = cells[old]
    BY <1>9
  <2> QED
    BY <2>1 DEF Inv, OwnersMatch
<1>11. OwnersDiffer'
  <2> SUFFICES ASSUME NEW pl \in DOMAIN cells, NEW o \in DOMAIN cells,
                      Owner(pl)', Owner(o)', cells'[pl].data = cells'[o].data
               PROVE  pl = o
    BY <1>4 DEF OwnersDiffer
  <2>1. PICK old \in DOMAIN cells : /\ Owner(old) /\ cells'[pl] = cells[old]
                                    /\ old = IF pl = at THEN from ELSE pl
    BY <1>9
  <2>2. PICK oldo \in DOMAIN cells : /\ Owner(oldo) /\ cells'[o] = cells[oldo]
                                     /\ oldo = IF o = at THEN from ELSE o
    BY <1>9
  <2>3. old = oldo
    BY <2>1, <2>2 DEF Inv, OwnersDiffer
  <2>4. pl # from /\ o # from
    BY <1>4 DEF Owner
  <2> QED
    BY <2>1, <2>2, <2>3, <2>4
<1>12. NothingLost'
  <2> SUFFICES ASSUME NEW b \in DOMAIN heap
               PROVE  \E pl \in DOMAIN cells' : Owner(pl)' /\ cells'[pl].data = b
    BY <1>2 DEF NothingLost
  <2>1. PICK pl \in DOMAIN cells : Owner(pl) /\ cells[pl].data = b
    BY <1>3 DEF Inv, NothingLost
  <2>2. pl # at
    BY <1>5, <2>1
  <2>3. CASE pl = from
    BY <1>3, <1>4, <1>5, <2>1, <2>2, <2>3 DEF Owner
  <2>4. CASE pl # from
    BY <1>4, <1>5, <2>1, <2>2, <2>4 DEF Owner
  <2> QED
    BY <2>3, <2>4
<1>13. DeletingOk' /\ DeletingForOne'
  BY <1>2, <1>3, NoDeletions
<1> QED
  BY <1>6, <1>7, <1>10, <1>11, <1>12, <1>13 DEF Inv

\* The places of a stack that follow the first one, and where they are when m
\* steps are put in the place of the first.
LEMMA LaterPlaces ==
  ASSUME NEW n \in Nat \ {0}, NEW m \in Nat
  PROVE  /\ \A j \in 2 .. n : j \in 1 .. n /\ j # 1 /\ n # 1
         /\ \A k \in m + 1 .. m + n - 1 : k - m + 1 \in 2 .. n /\ n # 1
         /\ n # 1 => /\ m + n - 1 \in m + 1 .. m + n - 1
                    /\ (m + n - 1) - m + 1 = n /\ m + n - 1 # 0
OBVIOUS

\* A stack on which steps are put in the place of the first.
LEMMA PushFacts ==
  ASSUME NEW S, NEW s \in Seq(S), s # <<>>, NEW new \in Seq(S)
  PROVE  /\ new \o Tail(s) \in Seq(S)
         /\ Len(new \o Tail(s)) = Len(new) + Len(s) - 1
         /\ \A k \in 1 .. Len(new) : (new \o Tail(s))[k] = new[k]
         /\ \A k \in Len(new) + 1 .. Len(new) + Len(s) - 1 :
              (new \o Tail(s))[k] = s[k - Len(new) + 1]
<1> DEFINE rest == Tail(s)
<1>1. /\ rest \in Seq(S) /\ Len(s) \in Nat \ {0} /\ Len(rest) = Len(s) - 1
      /\ \A k \in 1 .. Len(s) - 1 : rest[k] = s[k + 1]
  BY TailFacts
<1> HIDE DEF rest
<1>2. /\ new \o rest \in Seq(S) /\ Len(new \o rest) = Len(new) + Len(rest)
      /\ \A k \in 1 .. Len(new) : (new \o rest)[k] = new[k]
      /\ \A k \in Len(new) + 1 .. Len(new) + Len(rest) :
           (new \o rest)[k] = rest[k - Len(new)]
  <2>1. new \o rest \in Seq(S) /\ Len(new \o rest) = Len(new) + Len(rest)
    BY <1>1, ConcatProperties
  <2>2. \A k \in 1 .. Len(new) : (new \o rest)[k] = new[k]
    BY <1>1
  <2>3. \A k \in Len(new) + 1 .. Len(new) + Len(rest) :
          (new \o rest)[k] = rest[k - Len(new)]
    BY <1>1
  <2> QED
    BY <2>1, <2>2, <2>3
<1>3. ASSUME NEW k \in Len(new) + 1 .. Len(new) + Len(s) - 1
      PROVE  (new \o rest)[k] = s[k - Len(new) + 1]
  <2>1. k - Len(new) \in 1 .. Len(s) - 1 /\ k \in Len(new) + 1 .. Len(new) + Len(rest)
    BY <1>1
  <2> QED
    BY <1>1, <1>2, <2>1
<1>4. Len(new) \in Nat
  OBVIOUS
<1> QED
  BY <1>1, <1>2, <1>3, <1>4 DEF rest

\* The constructors an array is copied with: one per element, and those that
\* were left to do.
LEMMA ElementSteps ==
  ASSUME TodoType, todo # <<>>, NEW own \in Nat, NEW source \in Nat, NEW size \in Nat,
         todo' = [i \in 1 .. size |->
                    Construction("copy", <<own, i>>, <<source, i>>)] \o Tail(todo)
  PROVE  /\ todo' \in Seq(Constructions) /\ Len(todo) \in Nat \ {0}
         /\ Len(todo') = size + Len(todo) - 1
         /\ \A k \in 1 .. size :
              /\ todo'[k].op = "copy"
              /\ todo'[k].at = <<own, k>> /\ todo'[k].from = <<source, k>>
         /\ \A k \in size + 1 .. size + Len(todo) - 1 : todo'[k] = todo[k - size + 1]
<1> DEFINE new == [i \in 1 .. size |->
                     Construction("copy", <<own, i>>, <<source, i>>)]
<1>1. new \in Seq(Constructions) /\ Len(new) = size
  <2>1. \A i \in 1 .. size :
          Construction("copy", <<own, i>>, <<source, i>>) \in Constructions
    BY DEF Construction, Constructions
  <2> QED
    BY <2>1
<1>2. \A k \in 1 .. size : /\ new[k].op = "copy"
                           /\ new[k].at = <<own, k>> /\ new[k].from = <<source, k>>
  BY DEF Construction
<1>3. todo \in Seq(Constructions) /\ Len(todo) \in Nat \ {0}
  BY DEF TodoType
<1> HIDE DEF new
<1>4. /\ new \o Tail(todo) \in Seq(Constructions)
      /\ Len(new \o Tail(todo)) = Len(new) + Len(todo) - 1
      /\ \A k \in 1 .. Len(new) : (new \o Tail(todo))[k] = new[k]
      /\ \A k \in Len(new) + 1 .. Len(new) + Len(todo) - 1 :
           (new \o Tail(todo))[k] = todo[k - Len(new) + 1]
  BY ZenonT(30), <1>1, <1>3, PushFacts
<1>5. todo' = new \o Tail(todo)
  BY DEF new
<1> QED
  BY <1>1, <1>2, <1>3, <1>4, <1>5

LEMMA CopyElementsKeeps ==
  ASSUME Inv, CopyElements
  PROVE  Inv'
<1>1. PICK at, from : at = todo[1].at /\ from = todo[1].from
  OBVIOUS
<1>2. Doing("copy") /\ deleting' = deleting
  BY DEF CopyElements
<1>3. /\ deleting = <<>> /\ todo # <<>> /\ Len(todo) \in Nat \ {0}
      /\ at \in DOMAIN cells /\ from \in DOMAIN cells /\ at # Temporary
      /\ Head(todo) = todo[1] /\ todo[1].op = "copy" /\ 1 \in 1 .. Len(todo)
  BY <1>1, <1>2, FirstStep DEF Inv, TodoOk
<1>4. PICK own, size, source :
        /\ own = FreshBuffer /\ size = cells[from].size /\ cells[from].type = "eArray"
        /\ source = IF at = from THEN own ELSE cells[from].data
        /\ Allocated(own, at, Buffer("eArray", size, <<>>))
        /\ todo' = [i \in 1 .. size |->
                      Construction("copy", <<own, i>>, <<source, i>>)] \o Tail(todo)
  BY <1>1, <1>3 DEF CopyElements, Then
<1>5. /\ own \in Nat \ {0} /\ own \notin DOMAIN heap /\ size \in Nat
      /\ source \in Nat
  BY <1>3, <1>4, FreshIsFree DEF Inv, CellsType, Owns
<1>6. HeapType' /\ CellsType' /\ Storage' /\ Grown(own, at, "eArray", size)
  BY <1>3, <1>4, <1>5, AllocatedFacts DEF Inv
<1>7. /\ DOMAIN cells \subseteq DOMAIN cells'
      /\ \A pl \in DOMAIN cells : pl # at => cells'[pl] = cells[pl]
      /\ \A i \in 1 .. size : /\ <<own, i>> \in DOMAIN cells'
                              /\ <<own, i>> \notin DOMAIN cells
                              /\ ~ Owns(cells'[<<own, i>>])
  BY <1>6 DEF Grown, Owns, NullCell, Cell
<1>8. /\ todo' \in Seq(Constructions) /\ Len(todo') = size + Len(todo) - 1
      /\ \A k \in 1 .. size :
           /\ todo'[k].op = "copy"
           /\ todo'[k].at = <<own, k>> /\ todo'[k].from = <<source, k>>
      /\ \A k \in size + 1 .. size + Len(todo) - 1 : todo'[k] = todo[k - size + 1]
  <2>1. TodoType /\ todo # <<>> /\ own \in Nat /\ source \in Nat /\ size \in Nat
    BY <1>3, <1>5 DEF Inv, TodoOk
  <2>2. todo' = [i \in 1 .. size |->
                   Construction("copy", <<own, i>>, <<source, i>>)] \o Tail(todo)
    BY <1>4
  <2> QED
    BY <2>1, <2>2, ElementSteps, ZenonT(30)
\* The source of the elements: objects that are alive, or the new ones.
<1>9. at # from => Owner(from)
  BY <1>1, <1>3, <1>4 DEF Inv, TodoOk, SourcesAlive, Owner, Owns
<1>10. \A i \in 1 .. size :
         <<source, i>> \in DOMAIN cells' /\ (source = own \/ <<source, i>> \in DOMAIN cells)
  <2>1. CASE at = from
    BY <1>4, <1>7, <2>1
  <2>2. CASE at # from
    <3>1. /\ source \in DOMAIN heap /\ heap[source].type = "eArray"
          /\ heap[source].size = size
      BY <1>3, <1>4, <1>9, <2>2 DEF Inv, OwnersMatch
    <3> QED
      BY <1>7, <3>1 DEF Inv, Storage
  <2> QED
    BY <2>1, <2>2
\* What was left to do, as it was before.
<1>11. ASSUME NEW k \in size + 1 .. size + Len(todo) - 1
       PROVE  \E j \in 2 .. Len(todo) :
                j = k - size + 1 /\ todo'[k] = todo[j] /\ Len(todo) # 1
  <2>1. k - size + 1 \in 2 .. Len(todo) /\ Len(todo) # 1
    BY <1>3, <1>5, LaterPlaces, Zenon
  <2> QED
    BY <1>8, <2>1
<1>12. \A j \in 2 .. Len(todo) :
         /\ todo[j].at \in DOMAIN cells /\ todo[j].from \in DOMAIN cells
         /\ todo[j].at # Temporary
         /\ todo[j].op = "assign" =>
              j = Len(todo) /\ todo[j].at[1] = 0 /\ todo[j].from = Temporary
         /\ todo[j].op # "assign" =>
              /\ todo[j].at # at /\ ~ Owns(cells[todo[j].at])
              /\ \/ todo[j].from = todo[j].at \/ ~ Owns(cells[todo[j].from])
                 \/ ~ Dead(todo[j].from)
  <2> TAKE j \in 2 .. Len(todo)
  <2>1. j \in 1 .. Len(todo) /\ j # 1 /\ Len(todo) # 1
    BY <1>3, <1>5, LaterPlaces, Zenon
  <2>2. /\ todo[j].at \in DOMAIN cells /\ todo[j].from \in DOMAIN cells
        /\ todo[j].at # Temporary
        /\ todo[j].op = "assign" =>
             j = Len(todo) /\ todo[j].at[1] = 0 /\ todo[j].from = Temporary
    BY <2>1 DEF Inv, TodoOk, TodoType
  <2>3. todo[j].op # "assign" => todo[j].at # at
    BY <1>1, <1>3, <2>1 DEF Inv, TodoOk, TargetsDiffer
  <2>4. todo[j].op # "assign" => ~ Owns(cells[todo[j].at])
    BY <2>1 DEF Inv, TodoOk, TargetsEmpty
  <2>5. todo[j].op # "assign" =>
          \/ todo[j].from = todo[j].at \/ ~ Owns(cells[todo[j].from])
          \/ ~ Dead(todo[j].from)
    BY <2>1 DEF Inv, TodoOk, SourcesAlive
  <2> QED
    BY <2>2, <2>3, <2>4, <2>5
<1>13. ASSUME NEW pl \in DOMAIN cells
       PROVE  Pending(pl)' <=> \E j \in 2 .. Len(todo) :
                                 todo[j].op # "assign" /\ todo[j].at = pl
  <2>1. ASSUME Pending(pl)'
        PROVE  \E j \in 2 .. Len(todo) : todo[j].op # "assign" /\ todo[j].at = pl
    <3>1. PICK k \in 1 .. size + Len(todo) - 1 :
            todo'[k].op # "assign" /\ todo'[k].at = pl
      BY <1>8, <2>1 DEF Pending
    <3>2. k \notin 1 .. size
      BY <1>7, <1>8, <3>1
    <3>3. k \in size + 1 .. size + Len(todo) - 1
      BY <1>3, <1>5, <3>2
    <3> QED
      BY <1>11, <3>1, <3>3
  <2>2. ASSUME NEW j \in 2 .. Len(todo), todo[j].op # "assign", todo[j].at = pl
        PROVE  Pending(pl)'
    <3>1. /\ j + size - 1 \in size + 1 .. size + Len(todo) - 1
          /\ (j + size - 1) - size + 1 = j
          /\ j + size - 1 \in 1 .. size + Len(todo) - 1
      BY <1>3, <1>5
    <3>2. todo'[j + size - 1] = todo[j]
      BY <1>8, <3>1
    <3> QED
      BY <1>8, <2>2, <3>1, <3>2 DEF Pending
  <2> QED
    BY <2>1, <2>2
<1>14. ~ Owner(at) /\ ~ Dead(at)'
  <2>1. Pending(at)
    BY <1>1, <1>3 DEF Pending
  <2>2. ~ Pending(at)'
    BY <1>3, <1>12, <1>13
  <2>3. ~ Destroyed(at)'
    BY <1>2, <1>3 DEF Destroyed
  <2> QED
    BY <2>1, <2>2, <2>3 DEF Owner, Dead
<1>15. \A pl \in DOMAIN cells : pl # at => (Dead(pl)' <=> Dead(pl))
  <2> SUFFICES ASSUME NEW pl \in DOMAIN cells, pl # at
               PROVE  Dead(pl)' <=> Dead(pl)
    OBVIOUS
  <2>1. Pending(pl) <=> \E j \in 2 .. Len(todo) : todo[j].op # "assign" /\ todo[j].at = pl
    BY <1>1, <1>3 DEF Pending
  <2>2. ~ Destroyed(pl)' /\ ~ Destroyed(pl)
    BY <1>2, <1>3 DEF Destroyed
  <2> QED
    BY <1>13, <2>1, <2>2 DEF Dead
<1>16. OwnersMatch' /\ OwnersDiffer' /\ NothingLost'
  BY <1>3, <1>5, <1>6, <1>14, <1>15, AllocatedOwners DEF Inv
<1>17. DeletingOk' /\ DeletingForOne'
  BY <1>2, <1>3, NoDeletions
<1>18. \A k \in 1 .. Len(todo') :
         k \in 1 .. size \/ k \in size + 1 .. size + Len(todo) - 1
  BY <1>3, <1>5, <1>8
<1>19. TodoType'
  <2> SUFFICES ASSUME NEW k \in 1 .. Len(todo')
               PROVE  /\ todo'[k].at \in DOMAIN cells' /\ todo'[k].from \in DOMAIN cells'
                      /\ todo'[k].at # Temporary
                      /\ todo'[k].op = "assign" =>
                           /\ k = Len(todo') /\ todo'[k].at[1] = 0
                           /\ todo'[k].from = Temporary
    BY <1>8 DEF TodoType
  <2>1. CASE k \in 1 .. size
    <3>1. /\ todo'[k].op = "copy"
          /\ todo'[k].at = <<own, k>> /\ todo'[k].from = <<source, k>>
      BY <1>8, <2>1
    <3>2. <<own, k>> # Temporary
      BY <1>5 DEF Temporary
    <3>3. <<own, k>> \in DOMAIN cells' /\ <<source, k>> \in DOMAIN cells'
      BY <1>7, <1>10, <2>1
    <3> QED
      BY <3>1, <3>2, <3>3
  <2>2. CASE k \in size + 1 .. size + Len(todo) - 1
    <3>1. PICK j \in 2 .. Len(todo) : j = k - size + 1 /\ todo'[k] = todo[j]
      BY <1>11, <2>2
    <3>2. j = Len(todo) => k = Len(todo')
      BY <1>3, <1>5, <1>8, <3>1
    <3> QED
      BY <1>7, <1>12, <3>1, <3>2
  <2> QED
    BY <1>18, <2>1, <2>2
<1>20. TargetsDiffer'
  <2> SUFFICES ASSUME NEW k \in 1 .. Len(todo'), NEW l \in 1 .. Len(todo'),
                      todo'[k].op # "assign", todo'[l].op # "assign",
                      todo'[k].at = todo'[l].at
               PROVE  k = l
    BY DEF TargetsDiffer
  <2>1. CASE k \in 1 .. size /\ l \in 1 .. size
    BY <1>8, <2>1
  <2>2. CASE k \in size + 1 .. size + Len(todo) - 1 /\ l \in size + 1 .. size + Len(todo) - 1
    <3>1. PICK i \in 2 .. Len(todo) : i = k - size + 1 /\ todo'[k] = todo[i]
      BY <1>11, <2>2
    <3>2. PICK j \in 2 .. Len(todo) : j = l - size + 1 /\ todo'[l] = todo[j]
      BY <1>11, <2>2
    <3>3. i \in 1 .. Len(todo) /\ j \in 1 .. Len(todo)
      BY <1>3
    <3>4. i = j
      BY <3>1, <3>2, <3>3 DEF Inv, TodoOk, TargetsDiffer
    <3> QED
      BY <1>3, <1>5, <2>2, <3>1, <3>2, <3>4
  <2>3. \A i \in 1 .. size : \A j \in size + 1 .. size + Len(todo) - 1 :
          todo'[i].at # todo'[j].at
    <3> TAKE i \in 1 .. size
    <3> TAKE j \in size + 1 .. size + Len(todo) - 1
    <3>1. todo'[i].at = <<own, i>> /\ <<own, i>> \notin DOMAIN cells
      BY <1>7, <1>8
    <3>2. PICK o \in 2 .. Len(todo) : todo'[j] = todo[o]
      BY <1>11
    <3>3. todo[o].at \in DOMAIN cells
      BY <1>12
    <3> QED
      BY <3>1, <3>2, <3>3
  <2> QED
    BY <1>18, <2>1, <2>2, <2>3
<1>21. SourcesAlive'
  <2> SUFFICES ASSUME NEW k \in 1 .. Len(todo'), todo'[k].op # "assign",
                      NEW src, src = todo'[k].from, src # todo'[k].at
               PROVE  ~ Owns(cells'[src]) \/ ~ Dead(src)'
    BY DEF SourcesAlive
  <2>1. CASE k \in 1 .. size
    <3>1. src = <<source, k>> /\ source # own /\ src \in DOMAIN cells
      BY <1>8, <1>10, <2>1
    <3>2. CASE src = at
      BY <1>14, <3>2
    <3>3. CASE src # at
      <4> SUFFICES ASSUME Dead(src)'
                   PROVE  ~ Owns(cells'[src])
        OBVIOUS
      <4>1. ~ Destroyed(src)'
        BY <1>2, <1>3 DEF Destroyed
      <4>2. PICK j \in 2 .. Len(todo) : todo[j].op # "assign" /\ todo[j].at = src
        BY <1>13, <3>1, <4>1 DEF Dead
      <4> QED
        BY <1>7, <1>12, <3>1, <3>3, <4>2
    <3> QED
      BY <3>2, <3>3
  <2>2. CASE k \in size + 1 .. size + Len(todo) - 1
    <3>1. PICK j \in 2 .. Len(todo) : todo'[k] = todo[j]
      BY <1>11, <2>2
    <3>2. src \in DOMAIN cells /\ (~ Owns(cells[src]) \/ ~ Dead(src))
      BY <1>12, <3>1
    <3>3. CASE src = at
      BY <1>14, <3>3
    <3>4. CASE src # at
      BY <1>7, <1>15, <3>2, <3>4
    <3> QED
      BY <3>3, <3>4
  <2> QED
    BY <1>18, <2>1, <2>2
<1>22. TargetsEmpty'
  <2> SUFFICES ASSUME NEW k \in 1 .. Len(todo'), todo'[k].op # "assign"
               PROVE  ~ Owns(cells'[todo'[k].at])
    BY DEF TargetsEmpty
  <2>1. CASE k \in 1 .. size
    BY <1>7, <1>8, <2>1
  <2>2. CASE k \in size + 1 .. size + Len(todo) - 1
    BY <1>7, <1>11, <1>12, <2>2
  <2> QED
    BY <1>18, <2>1, <2>2
<1>23. TemporaryOk'
  <2> SUFFICES ASSUME Owns(cells'[Temporary])
               PROVE  /\ todo' # <<>> /\ todo'[Len(todo')].op # "copy"
                      /\ todo'[Len(todo')].from = Temporary
    BY DEF TemporaryOk
  <2>1. Temporary \in DOMAIN cells
    BY SlotsAssumption DEF Inv, Storage, Temporary
  <2>2. Owns(cells[Temporary])
    BY <1>3, <1>7, <2>1
  <2>3. todo[Len(todo)].op # "copy" /\ todo[Len(todo)].from = Temporary
    BY <2>2 DEF Inv, TemporaryOk
  <2>4. Len(todo) # 1
    BY <1>3, <2>3
  <2>5. /\ Len(todo') \in size + 1 .. size + Len(todo) - 1
        /\ Len(todo') - size + 1 = Len(todo) /\ Len(todo') # 0
    <3>1. size \in Nat /\ Len(todo) \in Nat \ {0} /\ Len(todo) # 1
      BY <1>3, <1>5, <2>4
    <3>2. Len(todo') = size + Len(todo) - 1
      BY <1>8
    <3>3. LET m == size
              n == Len(todo)
          IN  /\ m + n - 1 \in m + 1 .. m + n - 1
              /\ (m + n - 1) - m + 1 = n /\ m + n - 1 # 0
      BY <3>1, LaterPlaces, Zenon
    <3> QED
      BY <3>2, <3>3, Zenon
  <2>6. todo'[Len(todo')] = todo[Len(todo)]
    BY <1>8, <2>5
  <2>7. todo' # <<>>
    BY <2>5
  <2> QED
    BY <2>3, <2>6, <2>7
<1> QED
  BY <1>6, <1>16, <1>17, <1>19, <1>20, <1>21, <1>22, <1>23 DEF Inv, TodoOk

-----------------------------------------------------------------------------
(* Assignments.                                                            *)

\* The destructor of an object that is alive deletes the buffer it owns, all
\* elements of which are still to be destroyed.
LEMMA DestroyingFacts ==
  ASSUME HeapType, OwnersMatch, NEW at \in DOMAIN cells, ~ Dead(at)
  PROVE  \/ ~ Owns(cells[at]) /\ Destroying(at) = <<>>
         \/ /\ Owner(at)
            /\ \E b \in DOMAIN heap, left \in Nat :
                 /\ b = cells[at].data /\ heap[b].type \in {"eString", "eArray"}
                 /\ left = IF heap[b].type = "eArray" THEN heap[b].size ELSE 0
                 /\ Destroying(at) = <<[buffer |-> b, left |-> left]>>
<1>1. CASE ~ Owns(cells[at])
  BY <1>1 DEF Destroying
<1>2. CASE Owns(cells[at])
  <2>1. Owner(at)
    BY <1>2 DEF Owner
  <2>2. /\ cells[at].data \in DOMAIN heap
        /\ heap[cells[at].data].type \in {"eString", "eArray"}
    BY <1>2, <2>1 DEF OwnersMatch, Owns
  <2> DEFINE b == cells[at].data
  <2> DEFINE left == IF heap[b].type = "eArray" THEN heap[b].size ELSE 0
  <2>3. left \in Nat
    BY <2>2 DEF HeapType
  <2>4. Destroying(at) = <<[buffer |-> b, left |-> left]>>
    BY <1>2, <2>2 DEF Destroying, Deletion, Live
  <2> QED
    BY <2>1, <2>2, <2>3, <2>4
<1> QED
  BY <1>1, <1>2

\* An object is rooted, and will be when "at" is destroyed.
RootedBesides(x, at) ==
  x[1] = 0 \/ \E s \in Slots : <<0, s>> # at /\ Owner(<<0, s>>) /\ Holds(s, x[1])

LEMMA AssigningKeeps ==
  ASSUME Inv, deleting = <<>>, \A pl : ~ Dead(pl),
         NEW op \in {"copy", "move"},
         NEW at \in DOMAIN cells, NEW from \in DOMAIN cells, at # Temporary,
         Assigning(op, at, from), UNCHANGED <<heap, cells>>,
         RootedBesides(at, at), RootedBesides(from, at),
         Owns(cells[Temporary]) => op = "move" /\ from = Temporary
  PROVE  Inv'
<1>1. heap' = heap /\ cells' = cells
  OBVIOUS
<1>2. /\ todo' \in Seq(Constructions) /\ Len(todo') = 1 /\ todo' # <<>>
      /\ todo'[1].op = op /\ todo'[1].at = at /\ todo'[1].from = from
  <2> DEFINE c == Construction(op, at, from)
  <2>1. at \in Nat \X Nat /\ from \in Nat \X Nat
    BY DEF Inv, Storage
  <2>2. c \in Constructions /\ c.op = op /\ c.at = at /\ c.from = from
    BY <2>1 DEF Construction, Constructions
  <2>3. todo' = <<c>>
    BY DEF Assigning
  <2> HIDE DEF c
  <2> QED
    BY <2>2, <2>3
<1>3. \A pl : Pending(pl)' <=> pl = at
  BY <1>2 DEF Pending
<1>4. \/ deleting' = <<>> /\ ~ Owns(cells[at])
      \/ /\ Owner(at)
         /\ \E b \in DOMAIN heap, left \in Nat :
              /\ b = cells[at].data /\ heap[b].type \in {"eString", "eArray"}
              /\ left = IF heap[b].type = "eArray" THEN heap[b].size ELSE 0
              /\ deleting' = <<[buffer |-> b, left |-> left]>>
  BY DestroyingFacts DEF Inv, Assigning
<1>5. \A pl \in DOMAIN cells : ~ Destroyed(pl)'
  <2>1. CASE deleting' = <<>>
    BY <2>1 DEF Destroyed
  <2>2. CASE deleting' # <<>>
    <3>1. PICK b \in DOMAIN heap, left \in Nat :
            /\ left = IF heap[b].type = "eArray" THEN heap[b].size ELSE 0
            /\ deleting' = <<[buffer |-> b, left |-> left]>>
      BY <1>4, <2>2
    <3>2. \A pl \in DOMAIN cells : pl[1] = b => ~ left < pl[2]
      BY <3>1 DEF Inv, HeapType, Storage, Element
    <3> QED
      BY <3>1, <3>2 DEF Destroyed
  <2> QED
    BY <2>1, <2>2
<1>6. \A pl \in DOMAIN cells : Dead(pl)' <=> pl = at
  BY <1>3, <1>5 DEF Dead
<1>7. \A pl \in DOMAIN cells : Owner(pl)' <=> Owner(pl) /\ pl # at
  BY <1>1, <1>6 DEF Owner
<1>8. HeapType' /\ CellsType' /\ Storage'
  BY <1>1 DEF Inv, HeapType, CellsType, Storage, Element
<1>9. OwnersMatch' /\ OwnersDiffer'
  <2>1. OwnersMatch'
    BY <1>1, <1>7 DEF Inv, OwnersMatch
  <2>2. OwnersDiffer'
    BY <1>1, <1>7 DEF Inv, OwnersDiffer
  <2> QED
    BY <2>1, <2>2
<1>10. NothingLost'
  <2> SUFFICES ASSUME NEW b \in DOMAIN heap
               PROVE  \/ \E k \in 1 .. Len(deleting') : deleting'[k].buffer = b
                      \/ \E pl \in DOMAIN cells : Owner(pl)' /\ cells[pl].data = b
    BY <1>1 DEF NothingLost
  <2>1. PICK pl \in DOMAIN cells : Owner(pl) /\ cells[pl].data = b
    BY DEF Inv, NothingLost
  <2>2. CASE pl = at
    <3>1. \E left : deleting' = <<[buffer |-> b, left |-> left]>>
      BY <1>4, <2>1, <2>2 DEF Owner
    <3> QED
      BY <3>1
  <2> QED
    BY <1>7, <2>1, <2>2
<1>11. DeletingOk' /\ DeletingForOne'
  <2>1. CASE deleting' = <<>>
    BY <2>1, NoDeletions
  <2>2. CASE deleting' # <<>>
    <3>1. PICK b \in DOMAIN heap, left \in Nat :
            /\ Owner(at) /\ b = cells[at].data
            /\ left = IF heap[b].type = "eArray" THEN heap[b].size ELSE 0
            /\ deleting' = <<[buffer |-> b, left |-> left]>>
      BY <1>4, <2>2
    <3>2. left \in Nat /\ b \in Nat \ {0}
      BY <3>1 DEF Inv, HeapType
    <3>3. [buffer |-> b, left |-> left] \in [buffer : Nat \ {0}, left : Nat]
      BY <3>2
    <3>4. /\ deleting' \in Seq([buffer : Nat \ {0}, left : Nat])
          /\ Len(deleting') = 1
          /\ deleting'[1].buffer = b /\ deleting'[1].left = left
      BY <3>1, <3>3
    <3>5. left > 0 => heap[b].type = "eArray" /\ left <= heap[b].size
      BY <3>1, <3>2
    <3>6. \A pl \in DOMAIN cells : Owner(pl)' => cells[pl].data # b
      BY <1>7, <3>1 DEF Inv, OwnersDiffer
    <3>7. DeletingOk'
      BY <1>1, <3>4, <3>5, <3>6 DEF DeletingOk
    <3>8. \A x \in {at, from} : Rooted(x)'
      <4> SUFFICES ASSUME NEW x \in {at, from}, x[1] # 0
                   PROVE  \E s \in Slots : Owner(<<0, s>>)' /\ Holds(s, x[1])'
        BY DEF Rooted
      <4>1. PICK s \in Slots : <<0, s>> # at /\ Owner(<<0, s>>) /\ Holds(s, x[1])
        BY DEF RootedBesides
      <4>2. <<0, s>> \in DOMAIN cells
        BY <4>1 DEF Owner
      <4> QED
        BY <1>1, <1>7, <4>1, <4>2 DEF Holds
    <3>9. DeletingForOne'
      BY <1>2, <3>8 DEF DeletingForOne
    <3> QED
      BY <3>7, <3>9
  <2> QED
    BY <2>1, <2>2
<1>12. TodoOk'
  <2>1. TodoType'
    BY <1>1, <1>2 DEF TodoType
  <2>2. TargetsDiffer'
    BY <1>2 DEF TargetsDiffer
  <2>3. SourcesAlive'
    <3>1. from = at \/ ~ Dead(from)'
      BY <1>6
    <3> QED
      BY <1>2, <3>1 DEF SourcesAlive
  <2>4. TargetsEmpty'
    BY <1>2 DEF TargetsEmpty
  <2> QED
    BY <2>1, <2>2, <2>3, <2>4 DEF TodoOk
<1>13. TemporaryOk'
  BY <1>1, <1>2 DEF TemporaryOk
<1> QED
  BY <1>8, <1>9, <1>10, <1>11, <1>12, <1>13 DEF Inv

\* While no constructor is to run, no object is dead.
LEMMA IdleFacts ==
  ASSUME Inv, ~ Busy
  PROVE  /\ deleting = <<>> /\ todo = <<>>
         /\ \A pl : ~ Dead(pl)
         /\ ~ Owns(cells[Temporary]) /\ Temporary \in DOMAIN cells
<1>1. deleting = <<>> /\ todo = <<>>
  BY DEF Busy
<1>2. \A pl : ~ Dead(pl)
  BY <1>1 DEF Dead, Destroyed, Pending
<1>3. ~ Owns(cells[Temporary])
  BY <1>1 DEF Inv, TemporaryOk
<1>4. Temporary \in DOMAIN cells
  BY SlotsAssumption DEF Inv, Storage, Temporary
<1> QED
  BY <1>1, <1>2, <1>3, <1>4

\* The slot an object is in is another than the one that is assigned to, since
\* neither of the two is an element of the other.
LEMMA PlacesRooted ==
  ASSUME Inv, ~ Busy, NEW p \in Places, NEW q \in Places, Independent(p, q)
  PROVE  RootedBesides(p, p) /\ RootedBesides(q, p)
<1>1. /\ \A pl : ~ Dead(pl)
      /\ \A s \in Slots : <<0, s>> \in DOMAIN cells
  BY IdleFacts DEF Inv, Storage, Slots
<1>2. \A s \in Slots : \A b : Holds(s, b) => Owner(<<0, s>>)
  BY <1>1 DEF Holds, Owner, Owns
<1>3. RootedBesides(p, p)
  <2> SUFFICES ASSUME p[1] # 0
               PROVE  RootedBesides(p, p)
    BY DEF RootedBesides
  <2>1. PICK s \in Slots : Holds(s, p[1])
    BY DEF Places
  <2>2. <<0, s>> # p
    OBVIOUS
  <2> QED
    BY <1>2, <2>1, <2>2 DEF RootedBesides
<1>4. RootedBesides(q, p)
  <2> SUFFICES ASSUME q[1] # 0
               PROVE  RootedBesides(q, p)
    BY DEF RootedBesides
  <2>1. PICK s \in Slots : Holds(s, q[1])
    BY DEF Places
  <2>2. <<0, s>> # p
    <3>1. ASSUME <<0, s>> = p
          PROVE  Inside(q, p)
      BY <2>1, <3>1 DEF Inside
    <3> QED
      BY <3>1 DEF Independent
  <2> QED
    BY <1>2, <2>1, <2>2 DEF RootedBesides
<1> QED
  BY <1>3, <1>4

LEMMA CopyAssignKeeps ==
  ASSUME Inv, CopyAssign
  PROVE  Inv'
<1>1. PICK p, q \in Places : Independent(p, q) /\ Assigning("copy", p, q)
  BY DEF CopyAssign
<1>2. ~ Busy /\ UNCHANGED <<heap, cells>>
  BY DEF CopyAssign, Ready
<1>3. p \in DOMAIN cells /\ q \in DOMAIN cells /\ p # Temporary
  BY DEF Places
<1>4. RootedBesides(p, p) /\ RootedBesides(q, p)
  BY <1>1, <1>2, PlacesRooted
<1> QED
  BY <1>1, <1>2, <1>3, <1>4, IdleFacts, AssigningKeeps

LEMMA MoveAssignKeeps ==
  ASSUME Inv, MoveAssign
  PROVE  Inv'
<1>1. PICK p, q \in Places : Independent(p, q) /\ Assigning("move", p, q)
  BY DEF MoveAssign
<1>2. ~ Busy /\ UNCHANGED <<heap, cells>>
  BY DEF MoveAssign, Ready
<1>3. p \in DOMAIN cells /\ q \in DOMAIN cells /\ p # Temporary
  BY DEF Places
<1>4. RootedBesides(p, p) /\ RootedBesides(q, p)
  BY <1>1, <1>2, PlacesRooted
<1> QED
  BY <1>1, <1>2, <1>3, <1>4, IdleFacts, AssigningKeeps

\* It is the last of the steps, and nothing else is in progress.
LEMMA AssignTemporaryKeeps ==
  ASSUME Inv, AssignTemporary
  PROVE  Inv'
<1>1. PICK at, from : at = todo[1].at /\ from = todo[1].from
  OBVIOUS
<1>2. Doing("assign") /\ UNCHANGED <<heap, cells>>
  BY DEF AssignTemporary
<1>3. /\ deleting = <<>> /\ Len(todo) \in Nat \ {0} /\ todo[1].op = "assign"
      /\ at \in DOMAIN cells /\ at # Temporary
      /\ from \in DOMAIN cells /\ Head(todo) = todo[1]
  BY <1>1, <1>2, FirstStep DEF Inv, TodoOk
<1>4. Len(todo) = 1 /\ at[1] = 0 /\ from = Temporary
  <2>1. 1 \in 1 .. Len(todo)
    BY <1>3
  <2> QED
    BY <1>1, <1>3, <2>1 DEF Inv, TodoOk, TodoType
<1>5. \A pl : ~ Dead(pl)
  BY <1>3, <1>4 DEF Dead, Destroyed, Pending
<1>6. Assigning("move", at, from)
  BY <1>1, <1>3 DEF AssignTemporary
<1>7. RootedBesides(at, at) /\ RootedBesides(from, at)
  BY <1>4 DEF RootedBesides, Temporary
<1> QED
  BY <1>2, <1>3, <1>4, <1>5, <1>6, <1>7, AssigningKeeps

-----------------------------------------------------------------------------
(* Destruction.                                                            *)

Deletions == [buffer : Nat \ {0}, left : Nat]

\* Where the deletions are when others are put in the place of the first.
LEMMA ReplacedFacts ==
  ASSUME deleting \in Seq(Deletions), deleting # <<>>, NEW new \in Seq(Deletions),
         deleting' = new \o Tail(deleting)
  PROVE  /\ deleting' \in Seq(Deletions)
         /\ \A k \in 1 .. Len(deleting') :
              \/ k \in 1 .. Len(new) /\ deleting'[k] = new[k]
              \/ \E j \in 2 .. Len(deleting) : k = j + Len(new) - 1 /\ deleting'[k] = deleting[j]
         /\ \A k \in 1 .. Len(new) : k \in 1 .. Len(deleting') /\ deleting'[k] = new[k]
         /\ \A j \in 2 .. Len(deleting) : \E k \in 1 .. Len(deleting') : deleting'[k] = deleting[j]
<1> DEFINE m == Len(new)
<1> DEFINE n == Len(deleting)
<1>1. m \in Nat /\ n \in Nat \ {0}
  OBVIOUS
<1>2. /\ deleting' \in Seq(Deletions) /\ Len(deleting') = m + n - 1
      /\ \A k \in 1 .. m : deleting'[k] = new[k]
      /\ \A k \in m + 1 .. m + n - 1 : deleting'[k] = deleting[k - m + 1]
  BY PushFacts
<1> HIDE DEF m, n
<1>3. ASSUME NEW k \in 1 .. m + n - 1, k \notin 1 .. m
      PROVE  \E j \in 2 .. n : k = j + m - 1 /\ deleting'[k] = deleting[j]
  <2>1. /\ k \in m + 1 .. m + n - 1
        /\ k - m + 1 \in 2 .. n /\ k = (k - m + 1) + m - 1
    BY <1>1, <1>3
  <2> QED
    BY <1>2, <2>1
<1>4. ASSUME NEW j \in 2 .. n
      PROVE  \E k \in 1 .. m + n - 1 : deleting'[k] = deleting[j]
  <2>1. /\ j + m - 1 \in 1 .. m + n - 1 /\ j + m - 1 \in m + 1 .. m + n - 1
        /\ (j + m - 1) - m + 1 = j
    BY <1>1
  <2> QED
    BY <1>2, <2>1
<1>5. \A k \in 1 .. m : k \in 1 .. m + n - 1
  BY <1>1
<1> QED
  BY <1>2, <1>3, <1>4, <1>5 DEF m, n

\* The element that delete[] comes to is alive: it has not been destroyed, and
\* what is to be constructed is not in its buffer.
LEMMA ElementAlive ==
  ASSUME Inv, deleting # <<>>, NEW b, NEW n, n > 0,
         b = deleting[1].buffer, n = deleting[1].left
  PROVE  <<b, n>> \in DOMAIN cells /\ ~ Dead(<<b, n>>)
<1>1. /\ 1 \in 1 .. Len(deleting) /\ n \in Nat /\ b \in Nat \ {0}
      /\ \A k \in 1 .. Len(deleting) : deleting[k].buffer = b => k = 1
  <2>1. deleting \in Seq([buffer : Nat \ {0}, left : Nat])
    BY DEF Inv, DeletingOk
  <2>2. 1 \in 1 .. Len(deleting) /\ n \in Nat /\ b \in Nat \ {0}
    <3>1. Len(deleting) \in Nat \ {0} /\ deleting[1] \in [buffer : Nat \ {0}, left : Nat]
      BY <2>1, TailFacts
    <3> QED
      BY <3>1
  <2> QED
    BY <2>2 DEF Inv, DeletingOk
<1>2. b \in DOMAIN heap /\ heap[b].type = "eArray" /\ n \in 1 .. heap[b].size
  BY <1>1 DEF Inv, DeletingOk, HeapType
<1>3. <<b, n>> \in DOMAIN cells
  BY <1>2 DEF Inv, Storage
<1>4. ~ Destroyed(<<b, n>>)
  BY <1>1 DEF Destroyed
<1>5. ~ Pending(<<b, n>>)
  <2> SUFFICES ASSUME Pending(<<b, n>>)
               PROVE  FALSE
    OBVIOUS
  <2>1. Rooted(<<b, n>>)
    <3>1. PICK k \in 1 .. Len(todo) : todo[k].at = <<b, n>>
      BY DEF Pending
    <3>2. Len(todo) = 1 /\ Rooted(todo[1].at)
      BY DEF Inv, DeletingForOne
    <3>3. k = 1
      BY <3>1, <3>2
    <3> QED
      BY <3>1, <3>2, <3>3
  <2>2. PICK s \in Slots : Owner(<<0, s>>) /\ Holds(s, b)
    BY <1>1, <2>1 DEF Rooted
  <2>3. <<0, s>> \in DOMAIN cells
    BY <2>2 DEF Owner
  <2> QED
    BY <1>1, <2>2, <2>3 DEF Inv, DeletingOk, Holds
<1> QED
  BY <1>3, <1>4, <1>5 DEF Dead

\* While delete[] is at work the steps to take stay the same.  They read
\* nothing in the buffers it deletes.
LEMMA TodoKept ==
  ASSUME TodoOk, TemporaryOk, DeletingForOne, deleting # <<>>, UNCHANGED todo,
         DOMAIN cells' \subseteq DOMAIN cells,
         \A pl \in DOMAIN cells : Rooted(pl) => pl \in DOMAIN cells' /\ Rooted(pl)',
         Temporary \in DOMAIN cells',
         \A pl \in DOMAIN cells' : cells'[pl] = cells[pl],
         \A pl \in DOMAIN cells : Rooted(pl) => (Dead(pl)' <=> Dead(pl))
  PROVE  TodoOk' /\ TemporaryOk' /\ DeletingForOne'
<1>1. todo' = todo
  OBVIOUS
<1>2. /\ todo \in Seq(Constructions) /\ Len(todo) = 1 /\ todo[1].op # "assign"
      /\ todo[1].at \in DOMAIN cells /\ todo[1].from \in DOMAIN cells
      /\ todo[1].at # Temporary
      /\ Rooted(todo[1].at) /\ Rooted(todo[1].from)
  BY DEF DeletingForOne, TodoOk, TodoType
<1>3. PICK at, from : at = todo[1].at /\ from = todo[1].from
  OBVIOUS
<1>4. /\ at \in DOMAIN cells' /\ from \in DOMAIN cells'
      /\ Rooted(at)' /\ Rooted(from)'
      /\ cells'[at] = cells[at] /\ cells'[from] = cells[from]
      /\ Dead(from)' <=> Dead(from)
  BY <1>2, <1>3
<1>5. TodoType'
  BY <1>1, <1>2, <1>3, <1>4 DEF TodoType
<1>6. TargetsDiffer' /\ TargetsEmpty'
  BY <1>1, <1>2 DEF TargetsDiffer, TargetsEmpty
<1>7. from = at \/ ~ Owns(cells'[from]) \/ ~ Dead(from)'
  BY <1>2, <1>3, <1>4 DEF TodoOk, SourcesAlive
<1>8. SourcesAlive'
  BY <1>1, <1>2, <1>3, <1>7 DEF SourcesAlive
<1>9. TemporaryOk'
  BY <1>1 DEF TemporaryOk
<1>10. DeletingForOne'
  BY <1>1, <1>2, <1>3, <1>4 DEF DeletingForOne
<1> QED
  BY <1>5, <1>6, <1>8, <1>9, <1>10 DEF TodoOk

LEMMA DestroyElementKeeps ==
  ASSUME Inv, DestroyElement
  PROVE  Inv'
<1>1. /\ deleting # <<>> /\ deleting \in Seq(Deletions) /\ Len(deleting) \in Nat \ {0}
      /\ Head(deleting) = deleting[1] /\ deleting[1] \in Deletions
      /\ 1 \in 1 .. Len(deleting)
  <2>1. deleting # <<>> /\ deleting \in Seq(Deletions)
    BY DEF DestroyElement, Inv, DeletingOk, Deletions
  <2>2. /\ Len(deleting) \in Nat \ {0}
        /\ Head(deleting) = deleting[1] /\ deleting[1] \in Deletions
    BY <2>1, TailFacts
  <2> QED
    BY <2>1, <2>2
<1>2. PICK b, n : b = deleting[1].buffer /\ n = deleting[1].left
  OBVIOUS
<1>3. b \in Nat \ {0} /\ n \in Nat /\ n > 0
  BY <1>1, <1>2 DEF DestroyElement, Deletions
<1>4. PICK at : at = <<b, n>>
  OBVIOUS
<1>5. at \in DOMAIN cells /\ ~ Dead(at) /\ at[1] = b /\ at[2] = n
  <2>1. <<b, n>> \in DOMAIN cells /\ ~ Dead(<<b, n>>)
    BY <1>1, <1>2, <1>3, ElementAlive
  <2> QED
    BY <1>4, <2>1
<1>6. heap' = heap /\ cells' = cells /\ todo' = todo
  BY DEF DestroyElement
\* What is to be deleted now in the place of the first deletion.
<1>7. PICK new \in Seq(Deletions) :
        /\ deleting' = new \o Tail(deleting)
        /\ \/ /\ ~ Owns(cells[at]) /\ Len(new) = 1
              /\ new[1] = [buffer |-> b, left |-> n - 1]
           \/ /\ Owner(at) /\ Len(new) = 2
              /\ \E left \in Nat :
                   /\ new[1] = [buffer |-> cells[at].data, left |-> left]
                   /\ cells[at].data \in DOMAIN heap
                   /\ left = IF heap[cells[at].data].type = "eArray"
                               THEN heap[cells[at].data].size ELSE 0
              /\ new[2] = [buffer |-> b, left |-> n - 1]
  <2> DEFINE rest == [buffer |-> b, left |-> n - 1]
  <2>1. deleting' = Destroying(at) \o <<rest>> \o Tail(deleting)
    BY <1>1, <1>2, <1>4 DEF DestroyElement, Deletion
  <2>2. rest \in Deletions
    BY <1>3 DEF Deletions
  <2>3. CASE ~ Owns(cells[at]) /\ Destroying(at) = <<>>
    <3> HIDE DEF rest
    <3>1. <<>> \o <<rest>> = <<rest>> /\ <<rest>> \in Seq(Deletions)
      BY <2>2
    <3>2. deleting' = <<rest>> \o Tail(deleting)
      BY <2>1, <2>3, <3>1
    <3>3. Len(<<rest>>) = 1 /\ <<rest>>[1] = rest
      OBVIOUS
    <3> QED
      BY <2>3, <3>1, <3>2, <3>3 DEF rest
  <2>4. CASE /\ Owner(at)
             /\ \E c \in DOMAIN heap, left \in Nat :
                  /\ c = cells[at].data /\ heap[c].type \in {"eString", "eArray"}
                  /\ left = IF heap[c].type = "eArray" THEN heap[c].size ELSE 0
                  /\ Destroying(at) = <<[buffer |-> c, left |-> left]>>
    <3>1. PICK c \in DOMAIN heap, left \in Nat :
            /\ c = cells[at].data
            /\ left = IF heap[c].type = "eArray" THEN heap[c].size ELSE 0
            /\ Destroying(at) = <<[buffer |-> c, left |-> left]>>
      BY <2>4
    <3>2. left \in Nat /\ c \in Nat \ {0}
      BY <3>1 DEF Inv, HeapType
    <3> DEFINE first == [buffer |-> c, left |-> left]
    <3>3. first \in Deletions
      BY <3>2 DEF Deletions
    <3> HIDE DEF first, rest
    <3> DEFINE two == <<first>> \o <<rest>>
    <3>4. two \in Seq(Deletions) /\ Len(two) = 2 /\ two[1] = first /\ two[2] = rest
      <4>1. /\ <<first>> \in Seq(Deletions) /\ <<rest>> \in Seq(Deletions)
            /\ Len(<<first>>) = 1 /\ Len(<<rest>>) = 1
            /\ <<first>>[1] = first /\ <<rest>>[1] = rest
        BY <2>2, <3>3
      <4>2. /\ two \in Seq(Deletions) /\ Len(two) = 1 + 1
            /\ \A i \in 1 .. 1 + 1 :
                 two[i] = IF i <= 1 THEN <<first>>[i] ELSE <<rest>>[i - 1]
        BY <4>1, ConcatProperties
      <4> HIDE DEF two
      <4> QED
        BY <4>1, <4>2
    <3>5. deleting' = two \o Tail(deleting)
      BY <2>1, <3>1 DEF first
    <3> HIDE DEF two
    <3>6. /\ two[2] = [buffer |-> b, left |-> n - 1]
          /\ two[1] = [buffer |-> cells[at].data, left |-> left]
      BY <3>1, <3>4 DEF first, rest
    <3>7. /\ cells[at].data \in DOMAIN heap
          /\ left = IF heap[cells[at].data].type = "eArray"
                      THEN heap[cells[at].data].size ELSE 0
      BY <3>1
    <3> QED
      BY <2>4, <3>2, <3>4, <3>5, <3>6, <3>7
  <2>5. HeapType /\ OwnersMatch
    BY DEF Inv
  <2> QED
    BY <1>5, <2>3, <2>4, <2>5, DestroyingFacts
<1>8. /\ deleting' \in Seq(Deletions)
      /\ \A k \in 1 .. Len(deleting') :
           \/ k \in 1 .. Len(new) /\ deleting'[k] = new[k]
           \/ \E j \in 2 .. Len(deleting) :
                k = j + Len(new) - 1 /\ deleting'[k] = deleting[j]
      /\ \A k \in 1 .. Len(new) : k \in 1 .. Len(deleting') /\ deleting'[k] = new[k]
      /\ \A j \in 2 .. Len(deleting) :
           \E k \in 1 .. Len(deleting') : deleting'[k] = deleting[j]
  <2>1. deleting' = new \o Tail(deleting)
    BY <1>7
  <2> QED
    BY <1>1, <2>1, ReplacedFacts
\* The new deletions are of the buffer that was first, or of the element's.
<1>9. /\ \A k \in 1 .. Len(new) :
           \/ new[k].buffer = b /\ new[k].left = n - 1
           \/ /\ Owner(at) /\ new[k].buffer = cells[at].data
              /\ cells[at].data \in DOMAIN heap /\ new[k].left \in Nat
              /\ new[k].left = IF heap[cells[at].data].type = "eArray"
                                 THEN heap[cells[at].data].size ELSE 0
      /\ \E k \in 1 .. Len(new) : new[k].buffer = b /\ new[k].left = n - 1
      /\ Owner(at) => \E k \in 1 .. Len(new) : new[k].buffer = cells[at].data
  <2>1. CASE /\ ~ Owns(cells[at]) /\ Len(new) = 1
             /\ new[1] = [buffer |-> b, left |-> n - 1]
    <3>1. ~ Owner(at)
      BY <2>1 DEF Owner
    <3>2. \A k \in 1 .. Len(new) : k = 1
      BY <2>1
    <3> QED
      BY <2>1, <3>1, <3>2
  <2>2. CASE /\ Owner(at) /\ Len(new) = 2
             /\ \E left \in Nat :
                  /\ new[1] = [buffer |-> cells[at].data, left |-> left]
                  /\ cells[at].data \in DOMAIN heap
                  /\ left = IF heap[cells[at].data].type = "eArray"
                              THEN heap[cells[at].data].size ELSE 0
             /\ new[2] = [buffer |-> b, left |-> n - 1]
    <3>1. /\ \A k \in 1 .. Len(new) : k = 1 \/ k = 2
          /\ 1 \in 1 .. Len(new) /\ 2 \in 1 .. Len(new)
      BY <2>2
    <3>2. new[2].buffer = b /\ new[2].left = n - 1
      BY <2>2
    <3>3. /\ new[1].buffer = cells[at].data
          /\ cells[at].data \in DOMAIN heap /\ new[1].left \in Nat
          /\ new[1].left = IF heap[cells[at].data].type = "eArray"
                             THEN heap[cells[at].data].size ELSE 0
      BY <2>2
    <3> QED
      BY <2>2, <3>1, <3>2, <3>3
  <2> QED
    BY <1>7, <2>1, <2>2

<1>10. ASSUME NEW j \in 2 .. Len(deleting)
       PROVE  j \in 1 .. Len(deleting) /\ deleting[j].buffer # b
  <2>1. j \in 1 .. Len(deleting) /\ j # 1
    BY <1>1, LaterPlaces, Zenon
  <2> QED
    BY <1>1, <1>2, <2>1 DEF Inv, DeletingOk
\* The element is the only object that is destroyed by the step.
<1>11. ASSUME NEW pl \in DOMAIN cells
       PROVE  Destroyed(pl)' <=> Destroyed(pl) \/ pl = at
  <2>1. pl[1] \in Nat /\ pl[2] \in Nat /\ pl = <<pl[1], pl[2]>> /\ Element(pl)
    BY DEF Inv, Storage
  <2>2. ASSUME Destroyed(pl)'
        PROVE  Destroyed(pl) \/ pl = at
    <3>1. PICK k \in 1 .. Len(deleting') :
            deleting'[k].buffer = pl[1] /\ deleting'[k].left < pl[2]
      BY <2>2 DEF Destroyed
    <3>2. CASE k \in 1 .. Len(new) /\ deleting'[k] = new[k]
      <4>1. CASE new[k].buffer = b /\ new[k].left = n - 1
        <5>1. pl[1] = b /\ n - 1 < pl[2]
          BY <3>1, <3>2, <4>1
        <5>2. CASE pl[2] = n
          BY <1>4, <2>1, <5>1, <5>2
        <5>3. CASE n < pl[2]
          BY <1>1, <1>2, <5>1, <5>3 DEF Destroyed
        <5> QED
          BY <1>3, <2>1, <5>1, <5>2, <5>3
      <4>2. CASE /\ Owner(at) /\ new[k].buffer = cells[at].data
                 /\ new[k].left = IF heap[cells[at].data].type = "eArray"
                                    THEN heap[cells[at].data].size ELSE 0
        <5>1. /\ pl[1] = cells[at].data /\ cells[at].data \in Nat \ {0}
              /\ heap[pl[1]].size \in Nat
          BY <1>5, <3>1, <3>2, <4>2 DEF Inv, OwnersMatch, HeapType
        <5>2. heap[pl[1]].type = "eArray" /\ pl[2] <= heap[pl[1]].size
          BY <2>1, <5>1 DEF Element
        <5> QED
          BY <2>1, <3>1, <3>2, <4>2, <5>1, <5>2
      <4> QED
        BY <1>9, <3>2, <4>1, <4>2
    <3>3. ASSUME NEW j \in 2 .. Len(deleting), deleting'[k] = deleting[j]
          PROVE  Destroyed(pl)
      BY <1>10, <3>1, <3>3 DEF Destroyed
    <3> QED
      BY <1>8, <3>2, <3>3
  <2>3. ASSUME Destroyed(pl)
        PROVE  Destroyed(pl)'
    <3>1. PICK j \in 1 .. Len(deleting) :
            deleting[j].buffer = pl[1] /\ deleting[j].left < pl[2]
      BY <2>3 DEF Destroyed
    <3>2. CASE j = 1
      <4>1. pl[1] = b /\ n - 1 < pl[2]
        BY <1>2, <1>3, <2>1, <3>1, <3>2
      <4>2. PICK k \in 1 .. Len(new) : new[k].buffer = b /\ new[k].left = n - 1
        BY <1>9
      <4>3. k \in 1 .. Len(deleting') /\ deleting'[k] = new[k]
        BY <1>8
      <4> QED
        BY <4>1, <4>2, <4>3 DEF Destroyed
    <3>3. CASE j \in 2 .. Len(deleting)
      <4>1. PICK k \in 1 .. Len(deleting') : deleting'[k] = deleting[j]
        BY <1>8, <3>3
      <4> QED
        BY <3>1, <4>1 DEF Destroyed
    <3>4. j = 1 \/ j \in 2 .. Len(deleting)
      BY <1>1
    <3> QED
      BY <3>2, <3>3, <3>4
  <2>4. Destroyed(at)'
    <3>1. at[1] = b /\ n - 1 < at[2]
      BY <1>3, <1>5
    <3>2. PICK k \in 1 .. Len(new) : new[k].buffer = b /\ new[k].left = n - 1
      BY <1>9
    <3>3. k \in 1 .. Len(deleting') /\ deleting'[k] = new[k]
      BY <1>8
    <3> QED
      BY <3>1, <3>2, <3>3 DEF Destroyed
  <2> QED
    BY <2>2, <2>3, <2>4
<1>12. \A pl \in DOMAIN cells : Dead(pl)' <=> Dead(pl) \/ pl = at
  BY <1>6, <1>11 DEF Dead, Pending
<1>13. \A pl \in DOMAIN cells : Owner(pl)' <=> Owner(pl) /\ pl # at
  BY <1>6, <1>12 DEF Owner
<1>14. HeapType' /\ CellsType' /\ Storage'
  BY <1>6 DEF Inv, HeapType, CellsType, Storage, Element
<1>15. OwnersMatch' /\ OwnersDiffer'
  <2>1. OwnersMatch'
    BY <1>6, <1>13 DEF Inv, OwnersMatch
  <2>2. OwnersDiffer'
    BY <1>6, <1>13 DEF Inv, OwnersDiffer
  <2> QED
    BY <2>1, <2>2
<1>16. NothingLost'
  <2> SUFFICES ASSUME NEW c \in DOMAIN heap
               PROVE  \/ \E k \in 1 .. Len(deleting') : deleting'[k].buffer = c
                      \/ \E pl \in DOMAIN cells : Owner(pl)' /\ cells[pl].data = c
    BY <1>6 DEF NothingLost
  <2>1. CASE \E k \in 1 .. Len(new) : new[k].buffer = c
    BY <1>8, <2>1
  <2>2. CASE \E j \in 2 .. Len(deleting) : deleting[j].buffer = c
    BY <1>8, <2>2
  <2>3. ASSUME NEW j \in 1 .. Len(deleting), deleting[j].buffer = c
        PROVE  c = b \/ j \in 2 .. Len(deleting)
    BY <1>1, <1>2, <2>3
  <2>4. CASE \E pl \in DOMAIN cells : Owner(pl) /\ cells[pl].data = c
    BY <1>9, <1>13, <2>1, <2>4
  <2> QED
    BY <1>9, <2>1, <2>2, <2>3, <2>4 DEF Inv, NothingLost
<1>17. DeletingOk'
  <2>1. ASSUME NEW k \in 1 .. Len(deleting')
        PROVE  /\ deleting'[k].buffer \in DOMAIN heap
               /\ deleting'[k].left > 0 =>
                    /\ heap[deleting'[k].buffer].type = "eArray"
                    /\ deleting'[k].left <= heap[deleting'[k].buffer].size
               /\ \A pl \in DOMAIN cells : Owner(pl)' => cells[pl].data # deleting'[k].buffer
    <3>1. ASSUME NEW j \in 1 .. Len(deleting)
          PROVE  /\ deleting[j].buffer \in DOMAIN heap
                 /\ deleting[j].left > 0 =>
                      /\ heap[deleting[j].buffer].type = "eArray"
                      /\ deleting[j].left <= heap[deleting[j].buffer].size
                 /\ \A pl \in DOMAIN cells : Owner(pl)' => cells[pl].data # deleting[j].buffer
      BY <1>13 DEF Inv, DeletingOk
    <3>2. CASE \E j \in 2 .. Len(deleting) : deleting'[k] = deleting[j]
      BY <1>10, <3>1, <3>2
    <3>3. CASE deleting'[k].buffer = b /\ deleting'[k].left = n - 1
      <4>1. /\ b \in DOMAIN heap /\ heap[b].type = "eArray"
            /\ n - 1 <= heap[b].size
            /\ \A pl \in DOMAIN cells : Owner(pl)' => cells[pl].data # b
        BY <1>1, <1>2, <1>3, <3>1 DEF Inv, HeapType
      <4> QED
        BY <3>3, <4>1
    <3>4. CASE /\ Owner(at) /\ deleting'[k].buffer = cells[at].data
               /\ cells[at].data \in DOMAIN heap
               /\ deleting'[k].left = IF heap[cells[at].data].type = "eArray"
                                        THEN heap[cells[at].data].size ELSE 0
      <4>1. \A pl \in DOMAIN cells : Owner(pl)' => cells[pl].data # cells[at].data
        BY <1>5, <1>13, <3>4 DEF Inv, OwnersDiffer
      <4> QED
        BY <3>4, <4>1 DEF Inv, HeapType
    <3> QED
      BY <1>8, <1>9, <3>2, <3>3, <3>4
  <2>2. \A k, l \in 1 .. Len(new) : new[k].buffer = new[l].buffer => k = l
    <3>1. Owner(at) => cells[at].data # b
      BY <1>1, <1>2, <1>5 DEF Inv, DeletingOk
    <3>2. CASE Len(new) = 1
      BY <3>2
    <3>3. CASE /\ Owner(at) /\ Len(new) = 2
               /\ new[1].buffer = cells[at].data /\ new[2].buffer = b
      <4>1. new[1].buffer # new[2].buffer
        BY <3>1, <3>3
      <4>2. \A k \in 1 .. Len(new) : k = 1 \/ k = 2
        BY <3>3
      <4> QED
        BY <4>1, <4>2
    <3>4. \/ Len(new) = 1
          \/ /\ Owner(at) /\ Len(new) = 2
             /\ new[1].buffer = cells[at].data /\ new[2].buffer = b
      <4>1. ASSUME NEW left \in Nat,
                   new[1] = [buffer |-> cells[at].data, left |-> left],
                   new[2] = [buffer |-> b, left |-> n - 1]
            PROVE  new[1].buffer = cells[at].data /\ new[2].buffer = b
        BY <4>1
      <4> QED
        BY <1>7, <4>1
    <3> QED
      BY <3>2, <3>3, <3>4
  <2>3. \A k \in 1 .. Len(new) : \A j \in 2 .. Len(deleting) :
          new[k].buffer # deleting[j].buffer
    BY SMTT(20), <1>5, <1>9, <1>10 DEF Inv, DeletingOk
  <2>4. \A i, j \in 2 .. Len(deleting) : deleting[i].buffer = deleting[j].buffer => i = j
    BY <1>10 DEF Inv, DeletingOk
  <2>5. \A k, l \in 1 .. Len(deleting') :
          deleting'[k].buffer = deleting'[l].buffer => k = l
    <3> SUFFICES ASSUME NEW k \in 1 .. Len(deleting'), NEW l \in 1 .. Len(deleting'),
                        deleting'[k].buffer = deleting'[l].buffer
                 PROVE  k = l
      OBVIOUS
    <3>1. CASE k \in 1 .. Len(new) /\ deleting'[k] = new[k]
      <4>1. CASE l \in 1 .. Len(new) /\ deleting'[l] = new[l]
        BY <2>2, <3>1, <4>1
      <4>2. CASE \E j \in 2 .. Len(deleting) : deleting'[l] = deleting[j]
        BY <2>3, <3>1, <4>2
      <4> QED
        BY <1>8, <4>1, <4>2
    <3>2. CASE \E j \in 2 .. Len(deleting) :
                 k = j + Len(new) - 1 /\ deleting'[k] = deleting[j]
      <4>1. CASE l \in 1 .. Len(new) /\ deleting'[l] = new[l]
        BY <2>3, <3>2, <4>1
      <4>2. CASE \E j \in 2 .. Len(deleting) :
                   l = j + Len(new) - 1 /\ deleting'[l] = deleting[j]
        BY <2>4, <3>2, <4>2
      <4> QED
        BY <1>8, <4>1, <4>2
    <3> QED
      BY <1>8, <3>1, <3>2
  <2> QED
    BY <1>6, <1>8, <2>1, <2>5 DEF DeletingOk, Deletions
<1>18. TodoOk' /\ TemporaryOk' /\ DeletingForOne'
  <2>1. \A pl \in DOMAIN cells : Rooted(pl) => pl # at
    <3> SUFFICES ASSUME Rooted(at)
                 PROVE  FALSE
      OBVIOUS
    <3>1. PICK s \in Slots : Owner(<<0, s>>) /\ Holds(s, b)
      BY <1>3, <1>5 DEF Rooted
    <3>2. <<0, s>> \in DOMAIN cells
      BY <3>1 DEF Owner
    <3> QED
      BY <1>1, <1>2, <3>1, <3>2 DEF Inv, DeletingOk, Holds
  <2>2. \A s \in Slots : Owner(<<0, s>>) => Owner(<<0, s>>)'
    <3> SUFFICES ASSUME NEW s \in Slots, Owner(<<0, s>>)
                 PROVE  Owner(<<0, s>>)'
      OBVIOUS
    <3>1. <<0, s>> \in DOMAIN cells /\ <<0, s>> # at
      BY <1>3, <1>4 DEF Owner
    <3> QED
      BY <1>13, <3>1
  <2>3. \A pl \in DOMAIN cells : Rooted(pl) => Rooted(pl)'
    BY <1>6, <2>2 DEF Rooted, Holds
  <2>4. Temporary \in DOMAIN cells
    BY SlotsAssumption DEF Inv, Storage, Temporary
  <2>5. \A pl \in DOMAIN cells : Rooted(pl) => (Dead(pl)' <=> Dead(pl))
    BY <1>12, <2>1
  <2> QED
    BY <1>1, <1>6, <2>3, <2>4, <2>5, TodoKept DEF Inv
<1> QED
  BY <1>14, <1>15, <1>16, <1>17, <1>18 DEF Inv

LEMMA FreeBufferKeeps ==
  ASSUME Inv, FreeBuffer
  PROVE  Inv'
<1>1. /\ deleting # <<>> /\ deleting \in Seq(Deletions) /\ Len(deleting) \in Nat \ {0}
      /\ Head(deleting) = deleting[1] /\ deleting[1] \in Deletions
      /\ deleting' \in Seq(Deletions) /\ Len(deleting') = Len(deleting) - 1
      /\ \A k \in 1 .. Len(deleting) - 1 : deleting'[k] = deleting[k + 1]
      /\ 1 \in 1 .. Len(deleting)
  <2>1. deleting # <<>> /\ deleting \in Seq(Deletions) /\ deleting' = Tail(deleting)
    BY DEF FreeBuffer, Inv, DeletingOk, Deletions
  <2>2. /\ Tail(deleting) \in Seq(Deletions) /\ Len(deleting) \in Nat \ {0}
        /\ Len(Tail(deleting)) = Len(deleting) - 1
        /\ \A k \in 1 .. Len(deleting) - 1 : Tail(deleting)[k] = deleting[k + 1]
        /\ Head(deleting) = deleting[1] /\ deleting[1] \in Deletions
    BY <2>1, TailFacts
  <2>3. 1 \in 1 .. Len(deleting)
    BY <2>2
  <2> QED
    BY <2>1, <2>2, <2>3
<1>2. PICK b : b = deleting[1].buffer
  OBVIOUS
<1>3. b \in Nat \ {0} /\ b \in DOMAIN heap /\ deleting[1].left = 0
  BY <1>1, <1>2 DEF FreeBuffer, Deletions, Inv, DeletingOk
<1>4. /\ todo' = todo
      /\ DOMAIN heap' = DOMAIN heap \ {b}
      /\ \A c \in DOMAIN heap : c # b => heap'[c] = heap[c]
      /\ DOMAIN cells' \subseteq DOMAIN cells
      /\ \A pl \in DOMAIN cells : pl \in DOMAIN cells' <=> pl[1] # b
      /\ \A pl \in DOMAIN cells' : cells'[pl] = cells[pl]
  <2>1. /\ heap' = [c \in DOMAIN heap \ {b} |-> heap[c]]
        /\ cells' = [pl \in {q \in DOMAIN cells : q[1] # b} |-> cells[pl]]
        /\ todo' = todo
    BY <1>1, <1>2 DEF FreeBuffer
  <2> QED
    BY <2>1
<1>5. \A pl \in DOMAIN cells : /\ pl[1] \in Nat /\ pl[2] \in Nat
                               /\ pl = <<pl[1], pl[2]>> /\ Element(pl)
  BY DEF Inv, Storage
\* The deletions that are left are of other buffers.
<1>6. ASSUME NEW k \in 1 .. Len(deleting) - 1
      PROVE  /\ k + 1 \in 1 .. Len(deleting) /\ deleting'[k] = deleting[k + 1]
             /\ deleting[k + 1].buffer # b
  <2>1. k + 1 \in 1 .. Len(deleting) /\ k + 1 # 1
    BY <1>1
  <2> QED
    BY <1>1, <1>2, <2>1 DEF Inv, DeletingOk
<1>7. \A j \in 1 .. Len(deleting) :
        deleting[j].buffer # b => \E k \in 1 .. Len(deleting') : deleting'[k] = deleting[j]
  <2> SUFFICES ASSUME NEW j \in 1 .. Len(deleting), deleting[j].buffer # b
               PROVE  \E k \in 1 .. Len(deleting') : deleting'[k] = deleting[j]
    OBVIOUS
  <2>1. j - 1 \in 1 .. Len(deleting) - 1 /\ (j - 1) + 1 = j
    BY <1>1, <1>2
  <2> QED
    BY <1>1, <1>6, <2>1
\* All elements of the buffer have been destroyed.
<1>8. \A pl \in DOMAIN cells : pl[1] = b => Dead(pl)
  <2> SUFFICES ASSUME NEW pl \in DOMAIN cells, pl[1] = b
               PROVE  Destroyed(pl)
    BY DEF Dead
  <2>1. pl[2] > 0
    BY <1>3, <1>5 DEF Element, Inv, HeapType
  <2> QED
    BY <1>1, <1>2, <1>3, <2>1 DEF Destroyed
<1>9. \A pl \in DOMAIN cells' : Destroyed(pl)' <=> Destroyed(pl)
  <2> SUFFICES ASSUME NEW pl \in DOMAIN cells'
               PROVE  Destroyed(pl)' <=> Destroyed(pl)
    OBVIOUS
  <2>1. ASSUME Destroyed(pl) PROVE Destroyed(pl)'
    <3>1. PICK j \in 1 .. Len(deleting) :
            deleting[j].buffer = pl[1] /\ deleting[j].left < pl[2]
      BY <2>1 DEF Destroyed
    <3>2. PICK k \in 1 .. Len(deleting') : deleting'[k] = deleting[j]
      BY <1>4, <1>7, <3>1
    <3> QED
      BY <3>1, <3>2 DEF Destroyed
  <2>2. ASSUME Destroyed(pl)' PROVE Destroyed(pl)
    <3>1. PICK k \in 1 .. Len(deleting') :
            deleting'[k].buffer = pl[1] /\ deleting'[k].left < pl[2]
      BY <2>2 DEF Destroyed
    <3>2. k + 1 \in 1 .. Len(deleting) /\ deleting'[k] = deleting[k + 1]
      BY <1>1, <1>6
    <3> QED
      BY <3>1, <3>2 DEF Destroyed
  <2> QED
    BY <2>1, <2>2
<1>10. \A pl \in DOMAIN cells' : Dead(pl)' <=> Dead(pl)
  BY <1>4, <1>9 DEF Dead, Pending
<1>11. /\ \A pl \in DOMAIN cells' : Owner(pl)' <=> Owner(pl)
       /\ \A pl \in DOMAIN cells : Owner(pl) => pl \in DOMAIN cells' /\ cells[pl].data # b
  <2>1. \A pl \in DOMAIN cells' : Owner(pl)' <=> Owner(pl)
    BY <1>4, <1>10 DEF Owner
  <2>2. \A pl \in DOMAIN cells : Owner(pl) => pl \in DOMAIN cells'
    BY <1>4, <1>8 DEF Owner
  <2>3. \A pl \in DOMAIN cells : Owner(pl) => cells[pl].data # b
    BY <1>1, <1>2 DEF Inv, DeletingOk
  <2> QED
    BY <2>1, <2>2, <2>3
<1>12. HeapType' /\ CellsType' /\ Storage'
  <2>1. HeapType'
    <3>1. IsFiniteSet(DOMAIN heap \ {b})
      BY FS_Subset DEF Inv, HeapType
    <3> QED
      BY <1>4, <3>1 DEF Inv, HeapType
  <2>2. CellsType'
    BY <1>4 DEF Inv, CellsType, Owns
  <2>3. Storage'
    <3>1. \A pl \in DOMAIN cells' : Element(pl)'
      BY <1>3, <1>4, <1>5 DEF Element
    <3>2. \A i \in 0 .. NSlots : <<0, i>> \in DOMAIN cells'
      BY <1>3, <1>4 DEF Inv, Storage
    <3>3. \A c \in DOMAIN heap' :
            heap'[c].type = "eArray" =>
              \A i \in 1 .. heap'[c].size : <<c, i>> \in DOMAIN cells'
      BY <1>3, <1>4 DEF Inv, Storage
    <3> QED
      BY <1>4, <1>5, <3>1, <3>2, <3>3 DEF Storage
  <2> QED
    BY <2>1, <2>2, <2>3
<1>13. OwnersMatch' /\ OwnersDiffer'
  <2>1. OwnersMatch'
    BY <1>4, <1>11 DEF Inv, OwnersMatch
  <2>2. OwnersDiffer'
    BY <1>4, <1>11 DEF Inv, OwnersDiffer
  <2> QED
    BY <2>1, <2>2
<1>14. NothingLost'
  <2> SUFFICES ASSUME NEW c \in DOMAIN heap, c # b
               PROVE  \/ \E k \in 1 .. Len(deleting') : deleting'[k].buffer = c
                      \/ \E pl \in DOMAIN cells' : Owner(pl)' /\ cells'[pl].data = c
    BY <1>4 DEF NothingLost
  <2>1. CASE \E j \in 1 .. Len(deleting) : deleting[j].buffer = c
    BY <1>7, <2>1
  <2>2. CASE \E pl \in DOMAIN cells : Owner(pl) /\ cells[pl].data = c
    BY <1>4, <1>11, <2>2
  <2> QED
    BY <2>1, <2>2 DEF Inv, NothingLost
<1>15. DeletingOk'
  <2>1. ASSUME NEW k \in 1 .. Len(deleting')
        PROVE  /\ deleting'[k].buffer \in DOMAIN heap'
               /\ deleting'[k].left > 0 =>
                    /\ heap'[deleting'[k].buffer].type = "eArray"
                    /\ deleting'[k].left <= heap'[deleting'[k].buffer].size
               /\ \A pl \in DOMAIN cells' : Owner(pl)' => cells'[pl].data # deleting'[k].buffer
    <3>1. PICK j \in 1 .. Len(deleting) : deleting'[k] = deleting[j] /\ deleting[j].buffer # b
      BY <1>1, <1>6
    <3>2. /\ deleting[j].buffer \in DOMAIN heap
          /\ deleting[j].left > 0 =>
               /\ heap[deleting[j].buffer].type = "eArray"
               /\ deleting[j].left <= heap[deleting[j].buffer].size
          /\ \A pl \in DOMAIN cells : Owner(pl) => cells[pl].data # deleting[j].buffer
      BY DEF Inv, DeletingOk
    <3> QED
      BY <1>4, <1>11, <3>1, <3>2
  <2>2. ASSUME NEW k \in 1 .. Len(deleting'), NEW l \in 1 .. Len(deleting'),
               deleting'[k].buffer = deleting'[l].buffer
        PROVE  k = l
    <3>1. /\ k + 1 \in 1 .. Len(deleting) /\ deleting'[k] = deleting[k + 1]
          /\ l + 1 \in 1 .. Len(deleting) /\ deleting'[l] = deleting[l + 1]
      BY <1>1, <1>6
    <3>2. k + 1 = l + 1
      BY <2>2, <3>1 DEF Inv, DeletingOk
    <3> QED
      BY <1>1, <3>2
  <2> QED
    BY <1>1, <2>1, <2>2 DEF DeletingOk, Deletions
<1>16. TodoOk' /\ TemporaryOk' /\ DeletingForOne'
  <2>1. \A s \in Slots : Owner(<<0, s>>) =>
          Owner(<<0, s>>)' /\ cells'[<<0, s>>] = cells[<<0, s>>] /\ cells[<<0, s>>].data # b
    <3> SUFFICES ASSUME NEW s \in Slots, NEW pl, pl = <<0, s>>, Owner(pl)
                 PROVE  Owner(pl)' /\ cells'[pl] = cells[pl] /\ cells[pl].data # b
      OBVIOUS
    <3>1. pl \in DOMAIN cells
      BY DEF Owner
    <3> QED
      BY <1>4, <1>11, <3>1
  <2>2. \A pl \in DOMAIN cells : Rooted(pl) => pl \in DOMAIN cells' /\ Rooted(pl)'
    BY <1>3, <1>4, <2>1 DEF Rooted, Holds
  <2>3. Temporary \in DOMAIN cells'
    <3>1. Temporary \in DOMAIN cells
      BY SlotsAssumption DEF Inv, Storage, Temporary
    <3> QED
      BY <1>3, <1>4, <3>1 DEF Temporary
  <2>4. \A pl \in DOMAIN cells : Rooted(pl) => (Dead(pl)' <=> Dead(pl))
    BY <1>10, <2>2
  <2> QED
    BY <1>1, <1>4, <2>2, <2>3, <2>4, TodoKept DEF Inv
<1> QED
  BY <1>12, <1>13, <1>14, <1>15, <1>16 DEF Inv

-----------------------------------------------------------------------------
(* Calls that build a temporary object.                                    *)

\* The steps of such a call: elements of a new array are built, and then a slot
\* is assigned the temporary object.
Building(own, n, s, op) ==
  /\ todo' \in Seq(Constructions) /\ Len(todo') = n + 1
  /\ \A k \in 1 .. n : /\ todo'[k].op = op /\ todo'[k].at = <<own, k>>
                       /\ todo'[k].from[1] = 0
                       /\ todo'[k].from \in DOMAIN cells
                       /\ <<own, k>> \in DOMAIN cells' /\ <<own, k>> \notin DOMAIN cells
                       /\ ~ Owns(cells'[<<own, k>>])
  /\ todo'[n + 1] = Construction("assign", <<0, s>>, Temporary)

LEMMA BuildingKeeps ==
  ASSUME Inv, ~ Busy, deleting' = deleting,
         NEW own \in Nat \ {0}, NEW n \in Nat, NEW s \in Slots, NEW op \in {"copy", "move"},
         Building(own, n, s, op), DOMAIN cells \subseteq DOMAIN cells'
  PROVE  /\ TodoOk' /\ TemporaryOk' /\ DeletingOk' /\ DeletingForOne'
         /\ \A pl \in DOMAIN cells : ~ Dead(pl)'
<1>1. deleting' = <<>>
  BY IdleFacts
<1>2. /\ todo' \in Seq(Constructions) /\ Len(todo') = n + 1
      /\ todo'[n + 1].op = "assign" /\ todo'[n + 1].at = <<0, s>>
      /\ todo'[n + 1].from = Temporary
      /\ \A k \in 1 .. n : /\ todo'[k].op = op /\ todo'[k].at = <<own, k>>
                           /\ todo'[k].from[1] = 0
                           /\ todo'[k].from \in DOMAIN cells
                           /\ <<own, k>> \in DOMAIN cells' /\ <<own, k>> \notin DOMAIN cells
                           /\ ~ Owns(cells'[<<own, k>>])
  BY DEF Building, Construction
<1>3. \A k \in 1 .. Len(todo') : k \in 1 .. n \/ k = n + 1
  BY <1>2
<1>4. Temporary \in DOMAIN cells /\ <<0, s>> \in DOMAIN cells /\ <<0, s>> # Temporary
  BY IdleFacts DEF Inv, Storage, Slots, Temporary
<1>5. TodoType'
  <2> SUFFICES ASSUME NEW k \in 1 .. Len(todo')
               PROVE  /\ todo'[k].at \in DOMAIN cells' /\ todo'[k].from \in DOMAIN cells'
                      /\ todo'[k].at # Temporary
                      /\ todo'[k].op = "assign" =>
                           /\ k = Len(todo') /\ todo'[k].at[1] = 0
                           /\ todo'[k].from = Temporary
    BY <1>2 DEF TodoType
  <2>1. CASE k \in 1 .. n
    <3>1. <<own, k>> # Temporary
      BY DEF Temporary
    <3> QED
      BY <1>2, <2>1, <3>1
  <2>2. CASE k = n + 1
    BY SMTT(20), <1>2, <1>4, <2>2
  <2> QED
    BY <1>3, <2>1, <2>2
<1>6. TargetsDiffer'
  <2>1. ASSUME NEW k \in 1 .. n, NEW l \in 1 .. n, todo'[k].at = todo'[l].at
        PROVE  k = l
    <3>1. todo'[k].at = <<own, k>> /\ todo'[l].at = <<own, l>>
      BY <1>2
    <3>2. <<own, k>> = <<own, l>>
      BY <2>1, <3>1, Zenon
    <3> QED
      BY <3>2
  <2> QED
    BY <1>2, <1>3, <2>1 DEF TargetsDiffer
<1>7. \A pl \in DOMAIN cells : ~ Dead(pl)'
  <2>1. ASSUME NEW pl \in DOMAIN cells, Pending(pl)'
        PROVE  FALSE
    <3>1. PICK k \in 1 .. Len(todo') : todo'[k].op # "assign" /\ todo'[k].at = pl
      BY <2>1 DEF Pending
    <3>2. k \in 1 .. n
      BY <1>2, <1>3, <3>1
    <3>3. pl = <<own, k>> /\ <<own, k>> \notin DOMAIN cells
      BY <1>2, <3>1, <3>2
    <3> QED
      BY <3>3
  <2>2. \A pl : ~ Destroyed(pl)'
    BY <1>1 DEF Destroyed
  <2> QED
    BY <2>1, <2>2 DEF Dead
<1>8. SourcesAlive'
  <2> SUFFICES ASSUME NEW k \in 1 .. Len(todo'), todo'[k].op # "assign",
                      NEW src, src = todo'[k].from
               PROVE  ~ Dead(src)'
    BY DEF SourcesAlive
  <2>1. src \in DOMAIN cells
    BY <1>2, <1>3
  <2> QED
    BY <1>7, <2>1
<1>9. TargetsEmpty'
  <2> SUFFICES ASSUME NEW k \in 1 .. Len(todo'), todo'[k].op # "assign"
               PROVE  ~ Owns(cells'[todo'[k].at])
    BY DEF TargetsEmpty
  <2>1. k \in 1 .. n
    BY <1>2, <1>3
  <2> QED
    BY <1>2, <2>1
<1>10. TemporaryOk'
  <2>1. todo' # <<>>
    BY <1>2
  <2> QED
    BY <1>2, <2>1 DEF TemporaryOk
<1>11. DeletingOk' /\ DeletingForOne'
  BY <1>1, NoDeletions
<1> QED
  BY <1>5, <1>6, <1>7, <1>8, <1>9, <1>10, <1>11 DEF TodoOk

\* A call of one step: the assignment.
LEMMA OneStep ==
  ASSUME Inv, NEW s \in Slots, NEW own, NEW op,
         todo' = <<Construction("assign", <<0, s>>, Temporary)>>
  PROVE  Building(own, 0, s, op)
<1> DEFINE c == Construction("assign", <<0, s>>, Temporary)
<1>1. c \in Constructions
  BY SlotsAssumption DEF Construction, Constructions, Temporary, Slots
<1>2. todo' = <<c>>
  OBVIOUS
<1> HIDE DEF c
<1>3. todo' \in Seq(Constructions) /\ Len(todo') = 0 + 1 /\ todo'[0 + 1] = c
  BY <1>1, <1>2
<1> QED
  BY <1>3 DEF Building, c

\* The temporary object gets a new buffer, the elements of which may then be
\* built.
LEMMA AllocatingKeeps ==
  ASSUME Inv, ~ Busy, deleting' = deleting,
         NEW type \in {"eString", "eArray"}, NEW size \in Nat, NEW chars,
         Allocated(FreshBuffer, Temporary, Buffer(type, size, chars)),
         NEW n \in Nat, NEW s \in Slots, NEW op \in {"copy", "move"},
         Building(FreshBuffer, n, s, op)
  PROVE  Inv'
<1>1. PICK own : own = FreshBuffer
  OBVIOUS
<1>2. own \in Nat \ {0} /\ own \notin DOMAIN heap
  BY <1>1, FreshIsFree DEF Inv
<1>3. /\ deleting = <<>> /\ Temporary \in DOMAIN cells
      /\ \A pl : ~ Dead(pl)
      /\ ~ Owner(Temporary)
  BY IdleFacts DEF Owner
<1>4. HeapType' /\ CellsType' /\ Storage' /\ Grown(own, Temporary, type, size)
  BY <1>1, <1>2, <1>3, AllocatedFacts DEF Inv
<1>5. DOMAIN cells \subseteq DOMAIN cells'
  BY <1>4 DEF Grown
<1>6. Building(own, n, s, op)
  BY <1>1
<1>7. /\ TodoOk' /\ TemporaryOk' /\ DeletingOk' /\ DeletingForOne'
      /\ \A pl \in DOMAIN cells : ~ Dead(pl)'
  BY <1>2, <1>5, <1>6, BuildingKeeps
<1>8. OwnersMatch' /\ OwnersDiffer' /\ NothingLost'
  <2>1. /\ ~ Dead(Temporary)'
        /\ \A pl \in DOMAIN cells : pl # Temporary => (Dead(pl)' <=> Dead(pl))
    BY <1>3, <1>7
  <2> DEFINE at == Temporary
  <2>2. ~ Dead(at)' /\ ~ Owner(at) /\ at \in DOMAIN cells
    BY <1>3, <2>1
  <2> QED
    BY <1>2, <1>3, <1>4, <2>1, <2>2, AllocatedOwners DEF Inv
<1> QED
  BY <1>4, <1>7, <1>8 DEF Inv

LEMMA ConstructStringKeeps ==
  ASSUME Inv, ConstructString
  PROVE  Inv'
<1> PICK s \in Slots, text \in Texts :
      \E chars \in {StrNCpy(text), text, Garbage(Len(text))} :
        /\ Allocated(FreshBuffer, Temporary, Buffer("eString", Len(text), chars))
        /\ todo' = <<Construction("assign", <<0, s>>, Temporary)>>
  BY DEF ConstructString
<1>1. PICK chars :
        /\ Allocated(FreshBuffer, Temporary, Buffer("eString", Len(text), chars))
        /\ todo' = <<Construction("assign", <<0, s>>, Temporary)>>
  OBVIOUS
<1>2. ~ Busy /\ deleting' = deleting /\ Len(text) \in Nat
  BY TextsAssumption DEF ConstructString, Ready
<1>3. Building(FreshBuffer, 0, s, "copy")
  BY <1>1, OneStep
<1> QED
  BY <1>1, <1>2, <1>3, AllocatingKeeps

LEMMA AllocArrayKeeps ==
  ASSUME Inv, AllocArray
  PROVE  Inv'
<1>1. PICK s \in Slots, size \in Sizes :
        /\ Allocated(FreshBuffer, Temporary, Buffer("eArray", size, <<>>))
        /\ todo' = <<Construction("assign", <<0, s>>, Temporary)>>
  BY DEF AllocArray
<1>2. ~ Busy /\ deleting' = deleting /\ size \in Nat
  BY SizesAssumption DEF AllocArray, Ready
<1>3. Building(FreshBuffer, 0, s, "copy")
  BY <1>1, OneStep
<1> QED
  BY <1>1, <1>2, <1>3, AllocatingKeeps

LEMMA ConstructPlainKeeps ==
  ASSUME Inv, ConstructPlain
  PROVE  Inv'
<1>1. PICK s \in Slots, cell \in {Cell("eInt", 1, 0), NullCell} :
        /\ cells' = [cells EXCEPT ![Temporary] = cell]
        /\ todo' = <<Construction("assign", <<0, s>>, Temporary)>>
  BY DEF ConstructPlain
<1>2. ~ Busy /\ deleting' = deleting /\ heap' = heap
  BY DEF ConstructPlain, Ready
<1>3. /\ deleting = <<>> /\ Temporary \in DOMAIN cells
      /\ \A pl : ~ Dead(pl)
      /\ ~ Owns(cells[Temporary])
  BY <1>2, IdleFacts
<1>4. cell.type \in {"eInt", "eNull"}
  BY DEF Cell, NullCell
<1>5. /\ DOMAIN cells' = DOMAIN cells
      /\ cells'[Temporary] = cell
      /\ \A pl \in DOMAIN cells : pl # Temporary => cells'[pl] = cells[pl]
  BY <1>1, <1>3
<1>6. Building(1, 0, s, "copy")
  BY <1>1, OneStep
<1>7. /\ TodoOk' /\ TemporaryOk' /\ DeletingOk' /\ DeletingForOne'
      /\ \A pl \in DOMAIN cells : ~ Dead(pl)'
  BY <1>2, <1>5, <1>6, BuildingKeeps
<1>8. HeapType' /\ CellsType' /\ Storage'
  <2>1. HeapType'
    BY <1>2 DEF Inv, HeapType
  <2>2. CellsType'
    BY <1>4, <1>5 DEF Inv, CellsType, Owns, Types
  <2>3. Storage'
    BY <1>2, <1>5 DEF Inv, Storage, Element
  <2> QED
    BY <2>1, <2>2, <2>3
<1>9. OwnersMatch' /\ OwnersDiffer' /\ NothingLost'
  <2>1. \A pl \in DOMAIN cells : Owner(pl)' <=> Owner(pl)
    BY <1>3, <1>4, <1>5, <1>7 DEF Owner, Owns
  <2>2. \A pl \in DOMAIN cells : Owner(pl) => cells'[pl] = cells[pl]
    BY <1>3, <1>5 DEF Owner
  <2> QED
    BY <1>2, <1>3, <1>5, <2>1, <2>2, OwnersKept DEF Inv
<1> QED
  BY <1>7, <1>8, <1>9 DEF Inv

\* copyArray and moveArray: the elements of the new array are null and alive
\* nowhere else, and the slots they are built from are alive.
LEMMA MakeArrayKeeps ==
  ASSUME Inv, NEW op \in {"copy", "move"}, MakeArray(op)
  PROVE  Inv'
<1>1. PICK s, t, u \in Slots :
        /\ t <= u
        /\ Allocated(FreshBuffer, Temporary, Buffer("eArray", u + 1 - t, <<>>))
        /\ todo' = [i \in 1 .. u + 1 - t |->
                      Construction(op, <<FreshBuffer, i>>, <<0, t + i - 1>>)]
                     \o <<Construction("assign", <<0, s>>, Temporary)>>
  BY DEF MakeArray
<1>2. PICK n, own : n = u + 1 - t /\ own = FreshBuffer
  OBVIOUS
<1>3. /\ ~ Busy /\ deleting' = deleting /\ n \in Nat
      /\ s \in 1 .. NSlots /\ t \in 1 .. NSlots /\ u \in 1 .. NSlots /\ NSlots \in Nat
  BY <1>1, <1>2, SlotsAssumption DEF MakeArray, Ready, Slots
<1>4. own \in Nat \ {0} /\ own \notin DOMAIN heap
  BY <1>2, FreshIsFree DEF Inv
<1>5. Temporary \in DOMAIN cells /\ Allocated(own, Temporary, Buffer("eArray", n, <<>>))
  BY <1>1, <1>2, <1>3, IdleFacts
<1>6. Grown(own, Temporary, "eArray", n)
  BY <1>3, <1>4, <1>5, AllocatedFacts DEF Inv
<1> DEFINE steps == [i \in 1 .. n |-> Construction(op, <<own, i>>, <<0, t + i - 1>>)]
<1> DEFINE last == Construction("assign", <<0, s>>, Temporary)
<1>7. todo' = steps \o <<last>>
  BY <1>1, <1>2
<1>8. \A i \in 1 .. n : Construction(op, <<own, i>>, <<0, t + i - 1>>) \in Constructions
  BY <1>3, <1>4 DEF Construction, Constructions
<1>9. /\ steps \in Seq(Constructions) /\ Len(steps) = n
      /\ \A i \in 1 .. n : steps[i] = Construction(op, <<own, i>>, <<0, t + i - 1>>)
  BY <1>3, <1>8
<1>10. last \in Constructions
  BY <1>3 DEF Construction, Constructions, Temporary
<1> HIDE DEF steps, last
<1>11. /\ <<last>> \in Seq(Constructions) /\ Len(<<last>>) = 1 /\ <<last>>[1] = last
  BY <1>10
<1>12. /\ todo' \in Seq(Constructions) /\ Len(todo') = n + 1
       /\ \A i \in 1 .. n + 1 :
            todo'[i] = IF i <= n THEN steps[i] ELSE <<last>>[i - n]
  BY <1>7, <1>9, <1>11, ConcatProperties
<1>13. todo'[n + 1] = last
  BY <1>3, <1>11, <1>12
<1>14. ASSUME NEW k \in 1 .. n
       PROVE  /\ todo'[k].op = op /\ todo'[k].at = <<own, k>>
              /\ todo'[k].from[1] = 0
              /\ todo'[k].from \in DOMAIN cells
              /\ <<own, k>> \in DOMAIN cells' /\ <<own, k>> \notin DOMAIN cells
              /\ ~ Owns(cells'[<<own, k>>])
  <2>1. todo'[k] = Construction(op, <<own, k>>, <<0, t + k - 1>>)
    <3>1. k \in 1 .. n + 1 /\ k <= n
      BY <1>3
    <3> QED
      BY <1>9, <1>12, <3>1
  <2>2. <<0, t + k - 1>> \in DOMAIN cells
    <3>1. t + k - 1 \in 0 .. NSlots
      BY <1>2, <1>3
    <3> QED
      BY <3>1 DEF Inv, Storage
  <2>3. <<own, k>> \in DOMAIN cells' /\ <<own, k>> \notin DOMAIN cells
    BY <1>6 DEF Grown
  <2>4. ~ Owns(cells'[<<own, k>>])
    BY <1>6, <2>3 DEF Grown, Owns, NullCell, Cell
  <2> QED
    BY <2>1, <2>2, <2>3, <2>4 DEF Construction
<1>15. Building(own, n, s, op)
  BY <1>12, <1>13, <1>14 DEF Building, last
<1> QED
  BY <1>2, <1>3, <1>5, <1>15, AllocatingKeeps

-----------------------------------------------------------------------------
(* The theorems.                                                           *)

LEMMA InitHolds ==
  ASSUME Init
  PROVE  IInv
<1>1. /\ DOMAIN heap = {} /\ deleting = <<>> /\ todo = <<>> /\ failed = FALSE
      /\ DOMAIN cells = {0} \X (0 .. NSlots)
      /\ \A at \in DOMAIN cells : cells[at] = NullCell
  BY DEF Init
<1>2. \A at \in DOMAIN cells : cells[at].type = "eNull" /\ ~ Owns(cells[at])
  BY <1>1 DEF NullCell, Cell, Owns
<1>3. HeapType
  BY <1>1, FS_EmptySet DEF HeapType
<1>4. CellsType
  BY <1>2 DEF CellsType, Types
<1>5. Storage
  BY <1>1 DEF Storage, Element
<1>6. OwnersMatch /\ OwnersDiffer /\ NothingLost
  BY <1>1, <1>2 DEF OwnersMatch, OwnersDiffer, NothingLost, Owner
<1>7. DeletingOk /\ DeletingForOne
  <2>1. <<>> \in Seq([buffer : Nat \ {0}, left : Nat])
    OBVIOUS
  <2> QED
    BY <1>1, <2>1 DEF DeletingOk, DeletingForOne
<1>8. TodoOk
  <2>1. <<>> \in Seq(Constructions)
    OBVIOUS
  <2> QED
    BY <1>1, <2>1
      DEF TodoOk, TodoType, TargetsDiffer, SourcesAlive, TargetsEmpty
<1>9. TemporaryOk
  <2>1. Temporary \in DOMAIN cells
    BY <1>1, SlotsAssumption DEF Temporary
  <2> QED
    BY <1>2, <2>1 DEF TemporaryOk
<1> QED
  BY <1>1, <1>3, <1>4, <1>5, <1>6, <1>7, <1>8, <1>9 DEF IInv, Inv

\* An allocation that has failed has failed for good.
LEMMA FailedForever ==
  ASSUME failed = TRUE, Next
  PROVE  failed' = TRUE
BY DEF Next, Step, DestroyElement, FreeBuffer, CopyPlain, CopyString, CopyElements,
       AllocationFails, DestroyHalfBuilt, Move, AssignTemporary, CopyAssign, MoveAssign,
       ConstructString, ConstructPlain, AllocArray, CopyArray, MoveArray, MakeArray,
       ConstructionFails, Ready

LEMMA StepKeeps ==
  ASSUME IInv, [Next]_vars
  PROVE  IInv'
<1>1. CASE UNCHANGED vars
  <2>1. /\ heap' = heap /\ cells' = cells /\ deleting' = deleting
        /\ todo' = todo /\ failed' = failed
    BY <1>1 DEF vars
  <2>2. CASE failed
    BY <2>1, <2>2 DEF IInv
  <2>3. CASE ~ failed
    <3>1. Inv
      BY <2>3 DEF IInv
    <3>2. HeapType' /\ CellsType' /\ Storage'
      BY <2>1, <3>1 DEF Inv, HeapType, CellsType, Storage, Element
    <3>3. /\ \A pl : Dead(pl)' <=> Dead(pl)
          /\ \A pl : Owner(pl)' <=> Owner(pl)
          /\ \A pl : Rooted(pl)' <=> Rooted(pl)
      BY <2>1 DEF Owner, Dead, Destroyed, Pending, Rooted, Holds
    <3>4. OwnersMatch' /\ OwnersDiffer' /\ NothingLost'
      BY <2>1, <3>1, <3>3 DEF Inv, OwnersMatch, OwnersDiffer, NothingLost
    <3>5. DeletingOk' /\ DeletingForOne'
      BY <2>1, <3>1, <3>3 DEF Inv, DeletingOk, DeletingForOne
    <3>6. TodoType' /\ TargetsDiffer' /\ TargetsEmpty' /\ TemporaryOk'
      BY <2>1, <3>1
        DEF Inv, TodoOk, TodoType, TargetsDiffer, TargetsEmpty, TemporaryOk
    <3>7. SourcesAlive'
      BY <2>1, <3>1, <3>3 DEF Inv, TodoOk, SourcesAlive
    <3> QED
      BY <3>2, <3>4, <3>5, <3>6, <3>7 DEF IInv, Inv, TodoOk
  <2> QED
    BY <2>2, <2>3
<1>2. CASE Next /\ failed
  BY <1>2, FailedForever DEF IInv
<1>3. CASE Next /\ ~ failed
  <2>1. Inv
    BY <1>3 DEF IInv
  <2>2. CASE AllocationFails \/ ConstructionFails
    BY <2>2 DEF AllocationFails, ConstructionFails, IInv
  <2>3. CASE Next /\ ~ AllocationFails /\ ~ ConstructionFails
    <3>1. ~ DestroyHalfBuilt
      BY <1>3 DEF DestroyHalfBuilt, HalfBuilt
    <3>2. Inv'
      BY <2>1, <2>3, <3>1, DestroyElementKeeps, FreeBufferKeeps, CopyPlainKeeps,
         CopyStringKeeps, CopyElementsKeeps, MoveKeeps, AssignTemporaryKeeps,
         CopyAssignKeeps, MoveAssignKeeps, ConstructStringKeeps, ConstructPlainKeeps,
         AllocArrayKeeps, MakeArrayKeeps
      DEF Next, Step, CopyArray, MoveArray
    <3> QED
      BY <3>2 DEF IInv
  <2> QED
    BY <1>3, <2>2, <2>3
<1> QED
  BY <1>1, <1>2, <1>3

LEMMA InvariantHolds == Spec => []IInv
<1>1. Init => IInv
  BY InitHolds
<1>2. IInv /\ [Next]_vars => IInv'
  BY StepKeeps
<1> QED
  BY <1>1, <1>2, PTL DEF Spec

\* When no call is in progress and none has failed, nothing is dead: what owns
\* a buffer is one object, and no other.
LEMMA InvOwnedOnce ==
  ASSUME IInv
  PROVE  OwnedOnce
<1> SUFFICES ASSUME ~ Busy, ~ failed
             PROVE  /\ \A b \in DOMAIN heap :
                         \E at \in DOMAIN cells \ {Temporary} :
                           /\ Owns(cells[at]) /\ cells[at].data = b
                           /\ \A other \in DOMAIN cells \ {at} :
                                Owns(cells[other]) => cells[other].data # b
                    /\ \A at \in DOMAIN cells : Owns(cells[at]) => Live(cells[at].data)
  BY DEF OwnedOnce
<1>1. Inv
  BY DEF IInv
<1>2. deleting = <<>> /\ (\A pl : ~ Dead(pl)) /\ ~ Owns(cells[Temporary])
  BY <1>1, IdleFacts
<1>3. \A pl \in DOMAIN cells : Owner(pl) <=> Owns(cells[pl])
  BY <1>2 DEF Owner
<1>4. ASSUME NEW b \in DOMAIN heap
      PROVE  \E at \in DOMAIN cells \ {Temporary} :
               /\ Owns(cells[at]) /\ cells[at].data = b
               /\ \A other \in DOMAIN cells \ {at} :
                    Owns(cells[other]) => cells[other].data # b
  <2>1. PICK at \in DOMAIN cells : Owner(at) /\ cells[at].data = b
    BY <1>1, <1>2 DEF Inv, NothingLost
  <2>2. \A other \in DOMAIN cells \ {at} : Owns(cells[other]) => cells[other].data # b
    BY <1>1, <1>3, <2>1 DEF Inv, OwnersDiffer
  <2>3. at # Temporary
    BY <1>2, <1>3, <2>1
  <2> QED
    BY <1>3, <2>1, <2>2, <2>3
<1>5. \A at \in DOMAIN cells : Owns(cells[at]) => Live(cells[at].data)
  BY <1>1, <1>3 DEF Inv, OwnersMatch, Live
<1> QED
  BY <1>4, <1>5

\* What the next step reads, writes or frees is there.
LEMMA InvNoFault ==
  ASSUME IInv
  PROVE  NoFault
<1> SUFFICES ASSUME Busy, ~ failed
             PROVE  Sound
  BY DEF NoFault
<1>1. Inv
  BY DEF IInv
<1>2. CASE deleting # <<>>
  <2>1. deleting \in Seq(Deletions)
    BY <1>1 DEF Inv, DeletingOk, Deletions
  <2>2. Len(deleting) \in Nat \ {0} /\ Head(deleting) = deleting[1]
    BY <1>2, <2>1, TailFacts
  <2>3. 1 \in 1 .. Len(deleting)
    BY <2>2
  <2>4. deleting[1].buffer \in DOMAIN heap
    BY <1>1, <2>3 DEF Inv, DeletingOk
  <2> QED
    BY <1>2, <2>2, <2>4 DEF Sound, Live
<1>3. CASE deleting = <<>>
  <2>1. todo # <<>> /\ todo \in Seq(Constructions)
    BY <1>1, <1>3 DEF Busy, Inv, TodoOk, TodoType
  <2>2. Len(todo) \in Nat \ {0} /\ Head(todo) = todo[1]
    BY <2>1, TailFacts
  <2>3. 1 \in 1 .. Len(todo)
    BY <2>2
  <2>4. PICK at, from : at = todo[1].at /\ from = todo[1].from
    OBVIOUS
  <2>5. at \in DOMAIN cells /\ from \in DOMAIN cells
    BY <1>1, <2>3, <2>4 DEF Inv, TodoOk, TodoType
  <2>6. ASSUME todo[1].op = "copy", Owns(cells[from]), at # from
        PROVE  cells[from].data \in DOMAIN heap
    <3>1. ~ Dead(from)
      BY <1>1, <2>3, <2>4, <2>6 DEF Inv, TodoOk, SourcesAlive
    <3> QED
      BY <1>1, <2>5, <2>6, <3>1 DEF Inv, OwnersMatch, Owner
  <2> QED
    BY <1>3, <2>2, <2>4, <2>5, <2>6 DEF Sound, Live
<1> QED
  BY <1>2, <1>3

\* Whatever the clients construct, copy, move, nest and take apart, as long as no
\* allocation has failed: when no call is in progress each buffer has exactly one
\* owner and no owner a freed buffer, so that neither operator= nor the destructor
\* leaks a buffer or frees one twice.
THEOREM BuffersOwnedOnce == Spec => []OwnedOnce
<1>1. IInv => OwnedOnce
  BY InvOwnedOnce
<1> QED
  BY <1>1, InvariantHolds, PTL

\* As long as no allocation has failed, no step of a destructor, a constructor or
\* an assignment touches a buffer that is not allocated, or an object that is not
\* there.
THEOREM NothingFaults == Spec => []NoFault
<1>1. IInv => NoFault
  BY InvNoFault
<1> QED
  BY <1>1, InvariantHolds, PTL

=============================================================================
