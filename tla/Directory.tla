------------------------------ MODULE Directory -----------------------------
(***************************************************************************)
(* What the entity tree promises a client: one directory of entities, on   *)
(* which each request takes effect at a single instant between its call    *)
(* and its answer, or is refused and leaves no trace.  Nothing here knows  *)
(* of hooks, drafts, storage events or copies in memory.                   *)
(***************************************************************************)
EXTENDS EntityCalls

CONSTANTS
  Workers,      \* the requests that can be under way at once
  Requests,     \* what clients ask for
  Populations   \* the directories to start from

VARIABLES
  dir,          \* the entity each ID names, or NoEntity
  phase,        \* of each request: "idle", "called" or "answered"
  request,
  verdict       \* "none", "ok" or "error"

dirVars == <<dir, phase, request, verdict>>

NoRequest == [chain |-> "NONE"]

DirInit ==
  /\ dir \in Populations
  /\ phase = [w \in Workers |-> "idle"]
  /\ request = [w \in Workers |-> NoRequest]
  /\ verdict = [w \in Workers |-> "none"]

Call(w, r) ==
  /\ phase[w] = "idle"
  /\ phase' = [phase EXCEPT ![w] = "called"]
  /\ request' = [request EXCEPT ![w] = r]
  /\ UNCHANGED <<dir, verdict>>

Answer(w, v) ==
  /\ phase[w] = "called"
  /\ phase' = [phase EXCEPT ![w] = "answered"]
  /\ verdict' = [verdict EXCEPT ![w] = v]
  /\ UNCHANGED request

Acceptable(r) == r.chain = "SEARCH" \/ EntityVerdict(r, dir[r.de.id]) = "ok"

(* A number that no entity of the directory has. *)
Unused(n) == \A x \in Entities : dir[x] # NoEntity => dir[x].number # n

Create(w) ==
  LET de == request[w].de
  IN  /\ request[w].chain = "CREATE" /\ Acceptable(request[w])
      /\ \E n \in Numbers :
           /\ IF de.number = AutoNumber THEN n > 0 /\ Unused(n) ELSE n = de.number
           /\ dir' = [dir EXCEPT ![de.id] = Created(de, n)]
      /\ Answer(w, "ok")

Destroy(w) ==
  /\ request[w].chain = "DESTROY" /\ Acceptable(request[w])
  /\ dir' = [dir EXCEPT ![request[w].de.id] = NoEntity]
  /\ Answer(w, "ok")

Edit(w) ==
  /\ request[w].chain \in Chains \ {"CREATE", "DESTROY"}
  /\ Acceptable(request[w])
  /\ dir' = [dir EXCEPT ![request[w].de.id] = Edited(request[w], @)]
  /\ Answer(w, "ok")

Search(w) ==
  /\ request[w].chain = "SEARCH"
  /\ Answer(w, "ok") /\ UNCHANGED dir

(* A number to assign may be refused while other entities come and go. *)
Refuse(w) ==
  /\ \/ request[w].chain \in Chains /\ ~Acceptable(request[w])
     \/ request[w].chain = "CREATE" /\ request[w].de.number = AutoNumber
  /\ Answer(w, "error") /\ UNCHANGED dir

Forget(w) ==
  /\ phase[w] = "answered"
  /\ phase' = [phase EXCEPT ![w] = "idle"]
  /\ request' = [request EXCEPT ![w] = NoRequest]
  /\ verdict' = [verdict EXCEPT ![w] = "none"]
  /\ UNCHANGED dir

(* The server dies: what has taken effect stays, nobody is answered. *)
Restart ==
  /\ phase' = [w \in Workers |-> "idle"]
  /\ request' = [w \in Workers |-> NoRequest]
  /\ verdict' = [w \in Workers |-> "none"]
  /\ UNCHANGED dir

DirNext ==
  \/ \E w \in Workers :
       \/ \E r \in Requests : Call(w, r)
       \/ Create(w) \/ Destroy(w) \/ Edit(w) \/ Search(w)
       \/ Refuse(w) \/ Forget(w)
  \/ Restart

DirSpec == DirInit /\ [][DirNext]_dirVars

=============================================================================
