--------------------------- MODULE EntitySearches ---------------------------
(***************************************************************************)
(* Searches next to chains that change what they look for.  A search asks  *)
(* the index once and then loads one entity after the other from storage,  *)
(* with no lock on either: the first entity that is gone ends it with an   *)
(* error.  A history variable tells which IDs were being changed at some   *)
(* instant of the search.                                                  *)
(***************************************************************************)
EXTENDS EntityTree

VARIABLE
  touched    \* history: IDs in change at some instant of a worker's search

searchVars == <<vars, touched>>

(* IDs whose last write has callbacks to come, or had them crossed by      *)
(* those of an earlier write.                                              *)
Unsettled == raced \cup {x \in Entities : \E w \in Workers : Notifying(w, x)}

Searches(w) == pc[w] # "idle" /\ req[w].chain = "SEARCH"

SearchInit == Init /\ touched = [w \in Workers |-> {}]

SearchNext ==
  /\ Next
  /\ touched' = [w \in Workers |->
                   IF Searches(w)' THEN touched[w] \cup Unsettled' ELSE {}]

SearchSpec == SearchInit /\ [][SearchNext]_searchVars

-----------------------------------------------------------------------------
(* A search fails only on an entity that somebody changes meanwhile: what  *)
(* it has still to load, and nobody touched since it asked the index, is   *)
(* in storage, however many other entities come and go next to it.         *)
UntouchedAreFound ==
  \A w \in Workers : Searches(w) =>
    \A x \in todo[w] \ touched[w] : store[x] # NoEntity

=============================================================================
