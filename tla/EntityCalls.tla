----------------------------- MODULE EntityCalls ----------------------------
(***************************************************************************)
(* What a call of the entity tree amounts to when nothing else goes on:    *)
(* the verdict of its chain and the entity that the chain leaves.          *)
(***************************************************************************)
EXTENDS EntityHooks

KVVerdict(mode, kv, d) ==
  LET known == KeysOf(kv) \cap KeysOf(d) # {}
  IN  CASE Cardinality(d) # 1                          -> "precondition"
        [] Cardinality(d) = 1 /\ mode = "add" /\ known   -> "key-exists"
        [] Cardinality(d) = 1 /\ mode # "add" /\ ~known  -> "no-key"
        [] OTHER                                         -> "ok"

(* What the chain of request r makes of an entity that is known. *)
EditVerdict(r, ent) ==
  LET d == RequestMeta(r.de)
      kv == RequestMeta(ent).kv
  IN  CASE r.chain = "VALIDATE_IDENTITY" ->
             IF IsLocked(ent) THEN "locked"
             ELSE IF Verifies(r.de.secret, ent) THEN "ok" ELSE "bad-secret"
        [] r.chain \in {"SET_CAPABILITY", "DROP_CAPABILITY"} ->
             IF CapabilityMissing(d) THEN "unknown-capability" ELSE "ok"
        [] r.chain = "KV_ADD"     -> KVVerdict("add", kv, d.kv)
        [] r.chain = "KV_DEL"     -> KVVerdict("del", kv, d.kv)
        [] r.chain = "KV_REPLACE" -> KVVerdict("replace", kv, d.kv)
        [] OTHER -> "ok"

(* ent is what the directory holds for the ID of r. *)
EntityVerdict(r, ent) ==
  IF r.chain = "CREATE"
    THEN IF ent = NoEntity THEN "ok" ELSE "duplicate"
    ELSE IF ent = NoEntity THEN "unknown" ELSE EditVerdict(r, ent)

Created(de, n) ==
  [id |-> de.id, number |-> n, secret |-> Secured(de.secret), meta |-> NoMeta]

(* What an accepted request other than CREATE and DESTROY makes of ent. *)
Edited(r, ent) ==
  CASE r.chain \in {"FETCH", "VALIDATE_IDENTITY"} -> ent
    [] r.chain = "SET_SECRET" -> [ent EXCEPT !.secret = Secured(r.de.secret)]
    [] OTHER -> [ent EXCEPT !.meta =
                   EditedMeta(EditHook[r.chain], RequestMeta(ent), RequestMeta(r.de))]

=============================================================================
