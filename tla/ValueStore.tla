----------------------------- MODULE ValueStore -----------------------------
(***************************************************************************)
(* What RawData objects are for: slots that hold values, trees of arrays,  *)
(* as if each slot had its value for itself.  A path is a slot, or a slot  *)
(* and the position of an element of the array that is in it.              *)
(***************************************************************************)
EXTENDS Grammar, FiniteSets

CONSTANTS NSlots,      \* RawData objects, one behind the other in memory
          Texts,       \* the strings a client constructs values from
          Sizes        \* the sizes of the arrays it allocates

VARIABLE vals          \* the value of each slot

Slots == 1 .. NSlots

Paths == {<<s>> : s \in Slots}
           \union UNION {{<<s, i>> : i \in 1 .. Len(vals[s].elems)} : s \in Slots}

At(p) == IF Len(p) = 1 THEN vals[p[1]] ELSE vals[p[1]].elems[p[2]]

Put(store, p, v) ==
  IF Len(p) = 1 THEN [store EXCEPT ![p[1]] = v]
                ELSE [store EXCEPT ![p[1]].elems[p[2]] = v]

\* None of the two objects is in the other, or is the other.
Independent(p, q) ==
  p[1] = q[1] => Len(p) = 2 /\ Len(q) = 2 /\ p # q

\* An object that is assigned to itself keeps its type and its size.
Unfilled(v) ==
  CASE v.type = "eString" -> StringData([i \in 1 .. Len(v.text) |-> "?"])
    [] v.type = "eArray"  -> ArrayData([i \in 1 .. Len(v.elems) |-> NullData])
    [] OTHER              -> v

-----------------------------------------------------------------------------
Init == vals = [s \in Slots |-> NullData]

Construct ==
  \E s \in Slots, text \in Texts, size \in Sizes :
    \E v \in {StringData(text), Unfilled(StringData(text)),
              IntData(<<"1">>), NullData, ArrayData([i \in 1 .. size |-> NullData])} :
      vals' = [vals EXCEPT ![s] = v]

Copy == \E p, q \in Paths :
          Independent(p, q) /\ vals' = Put(vals, p, At(q))

Move == \E p, q \in Paths :
          Independent(p, q) /\ vals' = Put(Put(vals, p, At(q)), q, NullData)

CopyToItself == \E p \in Paths : vals' = Put(vals, p, Unfilled(At(p)))
MoveToItself == \E p \in Paths : vals' = Put(vals, p, NullData)

\* copyArray and moveArray of the slots from t to u.
CopyArray ==
  \E s, t, u \in Slots :
    vals' = [vals EXCEPT ![s] =
              ArrayData([i \in 1 .. u + 1 - t |-> vals[t + i - 1]])]

MoveArray ==
  \E s, t, u \in Slots :
    vals' = [r \in Slots |->
              IF r = s THEN ArrayData([i \in 1 .. u + 1 - t |-> vals[t + i - 1]])
              ELSE IF r \in t .. u THEN NullData ELSE vals[r]]

Next == Construct \/ Copy \/ Move \/ CopyToItself \/ MoveToItself
          \/ CopyArray \/ MoveArray

Spec == Init /\ [][Next]_vals
=============================================================================
