---------------------------- MODULE ConfigAccess ----------------------------
(***************************************************************************)
(* A client of Configs that sets defaults (src/include/apcf_templates.hpp) *)
(* and keeps a view, the span that getArray returns for an array: it       *)
(* refers to the elements where they are.                                  *)
(***************************************************************************)
EXTENDS ConfigMap

\* An array is nothing but its elements.
ASSUME ValuesAssumption ==
  \A v \in Values : v.type = "eArray" => v = ArrayData(v.elems)

VARIABLES view,              \* the elements the client has asked for
          place              \* the entry that owns them: <<Config, key>>

accessVars == <<vars, view, place>>

Nowhere == <<>>              \* there is no view, or its elements are freed

-----------------------------------------------------------------------------
AccessInit == Init /\ view = <<>> /\ place = Nowhere

\* setDefaultCfgValue
SetDefault(c, k, v) ==
  IF k \notin DOMAIN store[c] THEN Set(c, k, v)
  ELSE /\ CanCall /\ calls' = calls + 1 /\ thrown' = FALSE
       /\ UNCHANGED <<store, call, cur, result, crashed, begun>>

\* getArray, the client keeps what it returns.
TakeView(c, k) ==
  /\ call = Idle /\ ~ crashed /\ place = Nowhere
  /\ k \in DOMAIN store[c] /\ store[c][k].type = "eArray"
  /\ view' = store[c][k].elems /\ place' = <<c, k>>
  /\ UNCHANGED vars

\* A step of the Config that assigns to the entries in "entries" frees what
\* they owned; one that moves an entry takes its elements along.
Frees(entries) ==
  /\ place' = IF place \in entries THEN Nowhere ELSE place
  /\ UNCHANGED view

Moves(from, to) ==
  /\ place' = IF place = to THEN Nowhere ELSE IF place = from THEN to ELSE place
  /\ UNCHANGED view

AccessCall ==
  \/ \E c \in Configs, k \in EntryKeys : TakeView(c, k)
  \/ \E c \in Configs, k \in EntryKeys, v \in Values :
       \/ Set(c, k, v) /\ Frees({<<c, k>>})
       \/ SetDefault(c, k, v) /\ Frees({})
  \/ \E dst \in Configs, src \in Configs :
       \/ \E op \in {"merge", "mergeMoved"} :
            BeginMerge(op, dst, src, <<>>) /\ Frees({})
       \/ \E group \in Groups :
            \/ BeginMerge("mergeAsGroup", dst, src, group) /\ Frees({})
            \/ BeginSubconfig(dst, src, group) /\ Frees({})

AccessStep ==
  \/ MergeEntry /\ Frees({<<call.dst, cur>>})
  \/ MergeMovedEntry /\ Moves(<<call.src, cur>>, <<call.dst, cur>>)
  \/ GroupEntry /\ Frees({<<call.dst, JoinKeys(call.group, cur)>>})
  \/ EndSubconfig /\ Frees({<<call.dst, k>> : k \in DOMAIN store[call.dst]})
  \/ (GroupKeyThrows \/ EndMerge \/ SubconfigEntry \/ DereferenceEnd) /\ Frees({})

\* A call that has begun goes on; no client has to call.
AccessSpec ==
  AccessInit /\ [][AccessCall \/ AccessStep]_accessVars /\ WF_accessVars(AccessStep)

-----------------------------------------------------------------------------
(* Properties.                                                             *)

\* A view stays what it was through any calls that do not assign to the entry
\* that owns its elements, and through the moves of its entry from Config to
\* Config, whatever the Config it was taken from has for the key by then.
ViewFollowsValue ==
  place # Nowhere =>
    /\ place[2] \in DOMAIN store[place[1]]
    /\ store[place[1]][place[2]] = ArrayData(view)
=============================================================================
