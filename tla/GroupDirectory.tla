--------------------------- MODULE GroupDirectory ---------------------------
(***************************************************************************)
(* What the group tree promises: the groups form one directory, on which   *)
(* each request takes effect at a single instant between its call and its  *)
(* answer, or is refused and leaves no trace.  Module Membership changes   *)
(* rules in single steps on the strength of this.                          *)
(***************************************************************************)
EXTENDS GroupCalls

CONSTANTS
  Workers,      \* the requests that can be under way at once
  Requests,     \* what clients ask for
  Populations,  \* the directories to start from
  Faulty        \* whether storage may refuse a write

VARIABLES
  dir,          \* the group each name stands for, or NoGroup
  phase,        \* of each request: "idle", "called" or "answered"
  request,
  verdict       \* "none", "ok" or "error"

dirVars == <<dir, phase, request, verdict>>

NoRequest == [chain |-> "NONE"]

DirInit ==
  /\ dir \in Populations
  /\ phase = [w \in Workers |-> "idle"]
  /\ request = [w \in Workers |-> NoRequest]
  /\ verdict = [w \in Workers |-> "none"]

Call(w, r) ==
  /\ phase[w] = "idle"
  /\ phase' = [phase EXCEPT ![w] = "called"]
  /\ request' = [request EXCEPT ![w] = r]
  /\ UNCHANGED <<dir, verdict>>

Answer(w, v) ==
  /\ phase[w] = "called"
  /\ phase' = [phase EXCEPT ![w] = "answered"]
  /\ verdict' = [verdict EXCEPT ![w] = v]
  /\ UNCHANGED request

Acceptable(r) == GroupVerdict(r, dir) = "ok"

Unused(n) == \A g \in Groups : dir[g] # NoGroup => dir[g].number # n

Create(w) ==
  LET d == request[w].dg
  IN  /\ request[w].chain = "CREATE" /\ Acceptable(request[w])
      /\ \E n \in Numbers :
           /\ IF d.number = AutoNumber THEN n > 0 /\ Unused(n) ELSE n = d.number
           /\ dir' = [dir EXCEPT ![d.name] = CreatedGroup(d, n)]
      /\ Answer(w, "ok")

Destroy(w) ==
  /\ request[w].chain = "DESTROY" /\ Acceptable(request[w])
  /\ dir' = [dir EXCEPT ![request[w].dg.name] = NoGroup]
  /\ Answer(w, "ok")

Edit(w) ==
  /\ request[w].chain \in GroupChains \ {"CREATE", "DESTROY"}
  /\ Acceptable(request[w])
  /\ dir' = [dir EXCEPT ![request[w].dg.name] = EditedGroup(request[w], @)]
  /\ Answer(w, "ok")

(* Reading needs no write that could fail. *)
Refuse(w) ==
  /\ request[w].chain \in GroupChains
  /\ ~Acceptable(request[w]) \/ (Faulty /\ request[w].chain # "FETCH")
  /\ Answer(w, "error") /\ UNCHANGED dir

Forget(w) ==
  /\ phase[w] = "answered"
  /\ phase' = [phase EXCEPT ![w] = "idle"]
  /\ request' = [request EXCEPT ![w] = NoRequest]
  /\ verdict' = [verdict EXCEPT ![w] = "none"]
  /\ UNCHANGED dir

DirNext ==
  \E w \in Workers :
    \/ \E r \in Requests : Call(w, r)
    \/ Create(w) \/ Destroy(w) \/ Edit(w) \/ Refuse(w) \/ Forget(w)

DirSpec == DirInit /\ [][DirNext]_dirVars

=============================================================================
