---------------------------- MODULE MCEntityAcks ----------------------------
(* The same instances, with the history of what clients have been told. *)
EXTENDS EntityAcks, MCEntityTree

(* Entities that come, are numbered, are locked and go. *)
NumberRequests ==
  {CreateEntity(x, AutoNumber, good) : x \in Entities}
  \cup {DestroyEntity(x) : x \in Entities}
  \cup {ValidateSecret(a, good), LockEntity(a), UnlockEntity(a),
        ManageDirectGroup("GROUP_ADD", a, g)}

(* An authentication that meets a removal. *)
DestroyRequests == {ValidateSecret(a, good), DestroyEntity(a)}

=============================================================================
