---------------------------- MODULE MCEntityTree ----------------------------
(* Instances of the entity tree small enough for TLC. *)
EXTENDS EntityTree, TLC

CONSTANTS a, b, w1, w2, good, bad, g, cap, k1, k2, z0, z1, kv1, v1, v2

MCContained == {<<k1, k1>>, <<k2, k2>>, <<k1, k2>>}
MCBaseKey == (z0 :> z0) @@ (z1 :> z0)

WorkerSymmetry == Permutations(Workers)

Stored1(x, n, s) ==
  [id |-> x, number |-> n, secret |-> Secured(s), meta |-> NoMeta]

With(m, x, n) == [Stored1(x, n, good) EXCEPT !.meta = m]

Directory0(f) == [x \in Entities |-> IF x \in DOMAIN f THEN f[x] ELSE NoEntity]

(* One entity, already known. *)
OneEntity == {Directory0(a :> Stored1(a, 1, good))}

(* An empty directory, or one that holds a. *)
FreshOrOne == {Directory0(<<>>)} \cup OneEntity

(* ..., which may be locked. *)
FreshOrLocked ==
  FreshOrOne \cup {Directory0(a :> With([EmptyMeta EXCEPT !.locked = "locked"], a, 1))}

-----------------------------------------------------------------------------
(* Concurrent requests that authenticate, lock and replace one entity. *)
AuthRequests ==
  {ValidateSecret(a, good), SetSecret(a, bad), LockEntity(a),
   DestroyEntity(a), CreateEntity(a, 1, good)}

(* Requests that call everything that can fail, next to searches. *)
FaultRequests == {ValidateSecret(a, good), CreateEntity(a, AutoNumber, good)}

(* Every edit of one entity. *)
EditRequests ==
  {FetchEntity(a), SetSecret(a, bad), ValidateSecret(a, good),
   LockEntity(a), UnlockEntity(a), DestroyEntity(a), CreateEntity(a, 1, good)}
  \cup {ManageCapability(ch, a, cap) : ch \in {"SET_CAPABILITY", "DROP_CAPABILITY"}}
  \cup {UpdateEntityKeys(ch, a, k) : ch \in {"ADD_KEY", "DEL_KEY"}, k \in {k1, k2}}
  \cup {ManageUntypedEntityMeta(ch, a, k, v1) :
          ch \in {"UEM_UPSERT", "UEM_CLEARFUZZY", "UEM_CLEAREXACT"}, k \in {z0, z1}}
  \cup {EntityKV(ch, a, {<<kv1, v>>}) :
          ch \in {"KV_ADD", "KV_DEL", "KV_REPLACE"}, v \in {v1, v2}}
  \cup {EntityKV("KV_ADD", a, {}), UpdateEntityMeta(a, [EmptyMeta EXCEPT !.text = v1])}
  \cup {ManageDirectGroup(ch, a, g) : ch \in {"GROUP_ADD", "GROUP_DEL"}}

=============================================================================
