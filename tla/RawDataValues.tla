---------------------------- MODULE RawDataValues ----------------------------
(***************************************************************************)
(* What a client of RawData sees: the value of each slot, a tree that is   *)
(* read from the memory of RawDataHeap.  While a call is in progress, the  *)
(* values are those that were there before it.                             *)
(***************************************************************************)
EXTENDS RawDataHeap

VARIABLE before        \* history: the values before the call in progress

RECURSIVE ValueOf(_)
ValueOf(cell) ==
  IF Owns(cell)
    THEN IF ~ Live(cell.data) THEN Datum("dangling", <<>>, <<>>)
         ELSE IF cell.type = "eString" THEN StringData(heap[cell.data].chars)
         ELSE ArrayData([i \in 1 .. heap[cell.data].size |->
                           ValueOf(cells[<<cell.data, i>>])])
    ELSE IF cell.type = "eNull" THEN NullData ELSE IntData(<<"1">>)

Values == [s \in Slots |-> ValueOf(cells[<<0, s>>])]

InitValues == Init /\ before = Values

NextValues ==
  /\ Next
  /\ before' = IF ~ Busy' /\ ~ failed' THEN Values' ELSE before

SpecValues == InitValues /\ [][NextValues]_<<vars, before>>

-----------------------------------------------------------------------------
(* Properties.                                                             *)

\* The objects behave as values: a copy is equal to its source, and what happens
\* to one is not seen in another.  This is not so of strings that hold a NUL.
Store == INSTANCE ValueStore WITH vals <- before
ContractSpec == Store!Spec

\* The value is what it was, but for an object whose buffer is gone.
RECURSIVE Remains(_, _)
Remains(old, new) ==
  \/ new = old
  \/ new.type = "dangling"
  \/ /\ old.type = "eArray" /\ new.type = "eArray"
     /\ Len(old.elems) = Len(new.elems)
     /\ \A i \in 1 .. Len(old.elems) : Remains(old.elems[i], new.elems[i])

Dangling == {at \in DOMAIN cells \ {Temporary} : Owns(cells[at]) /\ ~ Live(cells[at].data)}

\* What an allocation that fails does.  As long as the object that could not be
\* assigned is there, all others have the values they had.  When it is destroyed,
\* or the array that copyArray could not build, the object that was being copied
\* loses its buffer, and no other does.  And no step of that touches memory that
\* is not there, unless the copied object is in the one that is destroyed, whose
\* buffer is then freed twice; or the object has a pointer that was never set.
FailureContained ==
  failed =>
    /\ ~ Busy =>
         /\ \A s \in Slots \ {target} :
              IF HalfBuilt THEN Values[s] = before[s] ELSE Remains(before[s], Values[s])
         /\ ~ HalfBuilt => Dangling = {victim} \ {Nowhere}
    /\ Busy => \/ Sound
               \/ target # 0 /\ origin = target
               \/ deleting = <<Deletion(Unset, 0)>>
=============================================================================
