----------------------------- MODULE EntityAcks -----------------------------
(***************************************************************************)
(* The entity tree with a history of what clients have been told: an ID is *)
(* barred once a LOCK or a DESTROY for it was answered "ok", until a       *)
(* request starts that may let it in again.                                *)
(***************************************************************************)
EXTENDS EntityTree

VARIABLES
  barred,   \* the IDs that clients know cannot authenticate
  refusable \* the requests that started on an ID barred ever since

ackVars == <<vars, barred, refusable>>

Bars    == {"LOCK", "DESTROY"}
Reopens == {"UNLOCK", "CREATE", "MERGE_METADATA"}

Begins(w) == pc[w] = "idle" /\ pc'[w] = "hook"

Reopened == {req'[w].de.id : w \in {u \in Workers : Begins(u) /\ req'[u].chain \in Reopens}}

Acknowledged ==
  {ID(w) : w \in {u \in Workers :
     /\ pc[u] = "done" /\ pc'[u] = "idle" /\ crashes' = crashes
     /\ reply[u] = "ok" /\ req[u].chain \in Bars
     /\ \A v \in Workers : Busy(v) /\ req[v].chain \in Reopens => ID(v) # ID(u)}}

AckInit == Init /\ barred = {} /\ refusable = {}

AckNext ==
  /\ Next
  /\ barred' = (barred \cup Acknowledged) \ Reopened
  /\ refusable' = {w \in Workers :
       /\ pc'[w] # "idle"
       /\ w \in refusable \/ (Begins(w) /\ req'[w].de.id \in barred)
       /\ req'[w].de.id \notin Reopened}

AckSpec == AckInit /\ [][AckNext]_ackVars

(* A request to authenticate that starts after a client was told that the  *)
(* entity is locked or destroyed is refused, unless a request that unlocks *)
(* or creates it has started since.                                        *)
BarredCannotAuthenticate ==
  \A w \in refusable : ~Done(w, "VALIDATE_IDENTITY")

=============================================================================
