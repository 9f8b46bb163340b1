------------------------------ MODULE Handlers ------------------------------
(***************************************************************************)
(* The methods of the v2 service (internal/rpc2), one definition each: who *)
(* may call it, the calls of tree.Manager that it makes, in order, and     *)
(* what it answers for each of their errors.  Module Service runs them.    *)
(***************************************************************************)
EXTENDS EntityCalls, GroupCalls

ASSUME CapabilitiesAssumption ==
  {"GLOBAL_ROOT", "CREATE_ENTITY", "DESTROY_ENTITY", "MODIFY_ENTITY_META",
   "MODIFY_ENTITY_KEYS", "CHANGE_ENTITY_SECRET", "LOCK_ENTITY", "UNLOCK_ENTITY",
   "CREATE_GROUP", "DESTROY_GROUP", "MODIFY_GROUP_META",
   "MODIFY_GROUP_MEMBERS"} \subseteq Capabilities

-----------------------------------------------------------------------------
(* What a handler answers for the errors of a call; for any other error it *)
(* answers "internal".                                                     *)
IfDuplicate == [err \in {"duplicate"} |-> "exists"]
IfUnknown   == [err \in {"unknown"} |-> "missing"]
IfNoKey     == [err \in {"unknown", "no-key"} |-> "missing"]
IfKeyExists == [err \in {"unknown", "key-exists"} |->
                  IF err = "unknown" THEN "missing" ELSE "exists"]
IfRefused   == [err \in {"unknown", "locked", "bad-secret"} |-> "unauthenticated"]
IfMalformed == [err \in {"malformed"} |-> "malformed"]
Anyhow      == [err \in {} |-> "internal"]

AnswerTo(err, answers) ==
  IF err \in DOMAIN answers THEN answers[err] ELSE "internal"

(* A call on an entity or a group, with the keys that its answer must      *)
(* have; no call at all; a search.                                         *)
EntityCall(r, answers) ==
  [on |-> "entity", req |-> r, keys |-> {}, answers |-> answers]
GroupCall(r, answers) ==
  [on |-> "group", req |-> r, keys |-> {}, answers |-> answers]
NoCall     == [on |-> "nothing", answers |-> IfMalformed]
SearchCall == [on |-> "index", answers |-> Anyhow]

Reads(c) == c.on = "index" \/ (c.on # "nothing" /\ c.req.chain = "FETCH")

(* A handler: who may call it and about whom, its calls, and what follows. *)
Handler(access, cap, subject, calls) ==
  [access |-> access, cap |-> cap, subject |-> subject, calls |-> calls,
   then |-> "reply"]

Open(calls)            == Handler("anyone", "NONE", NoID, calls)
Guarded(cap, c)        == Handler("capability", cap, NoID, <<c>>)
Managed(cap, n, calls) == Handler("manager", cap, n, calls)

Rejected == Handler("malformed", "NONE", NoID, <<>>)

-----------------------------------------------------------------------------
(* entity.go *)
EntityCreate(x, n, s) ==
  Guarded("CREATE_ENTITY", EntityCall(CreateEntity(x, n, s), IfDuplicate))

EntityUpdate(x, m) ==
  Guarded("MODIFY_ENTITY_META", EntityCall(UpdateEntityMeta(x, m), IfUnknown))

EntityInfo(x) == Open(<<EntityCall(FetchEntity(x), IfUnknown)>>)

EntitySearch == Open(<<SearchCall>>)

UMActions == {"UPSERT", "CLEARFUZZY", "CLEAREXACT"}

EntityUM(x, action, k, v) ==
  CASE action = "READ" -> EntityInfo(x)
    [] action \in UMActions ->
         LET chain == CASE action = "UPSERT"     -> "UEM_UPSERT"
                        [] action = "CLEARFUZZY" -> "UEM_CLEARFUZZY"
                        [] action = "CLEAREXACT" -> "UEM_CLEAREXACT"
         IN  Guarded("MODIFY_ENTITY_META",
                     EntityCall(ManageUntypedEntityMeta(chain, x, k, v), IfUnknown))
    [] OTHER -> Rejected

EntityKVGet(x, k) ==
  Open(<<[EntityCall(FetchEntity(x), IfNoKey) EXCEPT !.keys = {k}]>>)

EntityKVAdd(x, k, v) ==
  Guarded("MODIFY_ENTITY_META", EntityCall(EntityKV("KV_ADD", x, {<<k, v>>}), IfKeyExists))

EntityKVDel(x, k, v) ==
  Guarded("MODIFY_ENTITY_META", EntityCall(EntityKV("KV_DEL", x, {<<k, v>>}), IfNoKey))

EntityKVReplace(x, k, v) ==
  Guarded("MODIFY_ENTITY_META", EntityCall(EntityKV("KV_REPLACE", x, {<<k, v>>}), IfNoKey))

(* An entity may change its own keys without a capability. *)
EntityKeys(x, action, k) ==
  CASE action = "READ" -> EntityInfo(x)
    [] action \in {"ADD", "DROP"} ->
         LET chain == IF action = "ADD" THEN "ADD_KEY" ELSE "DEL_KEY"
         IN  Handler("or-self", "MODIFY_ENTITY_KEYS", x,
                     <<EntityCall(UpdateEntityKeys(chain, x, k), IfUnknown)>>)
    [] OTHER -> Rejected

EntityDestroy(x) ==
  Guarded("DESTROY_ENTITY", EntityCall(DestroyEntity(x), IfUnknown))

EntityLock(x) == Guarded("LOCK_ENTITY", EntityCall(LockEntity(x), IfUnknown))

EntityUnlock(x) == Guarded("UNLOCK_ENTITY", EntityCall(UnlockEntity(x), IfUnknown))

(* What it reads of the memberships and the groups changes nothing, and    *)
(* the errors of those reads are not looked at.                            *)
EntityGroups(x) == EntityInfo(x)

-----------------------------------------------------------------------------
(* group.go *)
GroupCreate(n, t, by, num) ==
  Guarded("CREATE_GROUP", GroupCall(CreateGroup(n, t, by, num), IfDuplicate))

GroupUpdate(n, t, by) ==
  Managed("MODIFY_GROUP_META", n, <<GroupCall(UpdateGroupMeta(n, t, by), IfUnknown)>>)

GroupInfo(n) == Open(<<GroupCall(FetchGroup(n), IfUnknown)>>)

GroupUM(n, action, k, v) ==
  CASE action = "READ" -> GroupInfo(n)
    [] action \in UMActions ->
         LET chain == CASE action = "UPSERT"     -> "UGM_UPSERT"
                        [] action = "CLEARFUZZY" -> "UGM_CLEARFUZZY"
                        [] action = "CLEAREXACT" -> "UGM_CLEAREXACT"
         IN  Managed("MODIFY_GROUP_META", n,
                     <<GroupCall(ManageUntypedGroupMeta(chain, n, k, v), IfUnknown)>>)
    [] OTHER -> Rejected

GroupKVGet(n, k) ==
  Open(<<[GroupCall(FetchGroup(n), IfNoKey) EXCEPT !.keys = {k}]>>)

(* A group's key that is there, or is not, is an internal error. *)
GroupKVAdd(n, k, v) ==
  Guarded("MODIFY_GROUP_META", GroupCall(GroupKV("KV_ADD", n, {<<k, v>>}), IfUnknown))

GroupKVDel(n, k, v) ==
  Guarded("MODIFY_GROUP_META", GroupCall(GroupKV("KV_DEL", n, {<<k, v>>}), IfUnknown))

GroupKVReplace(n, k, v) ==
  Guarded("MODIFY_GROUP_META", GroupCall(GroupKV("KV_REPLACE", n, {<<k, v>>}), IfUnknown))

GroupUpdateRules(n, target, action) ==
  Managed("MODIFY_GROUP_META", n,
          <<GroupCall(ModifyGroupRule(n, target, action), IfUnknown)>>)

(* ns is the sequence of groups in the request, which may be empty. *)
GroupAddMember(x, ns) ==
  Managed("MODIFY_GROUP_MEMBERS", NoID,
          [i \in DOMAIN ns |-> EntityCall(ManageDirectGroup("GROUP_ADD", x, ns[i]), Anyhow)])

GroupDelMember(x, ns) ==
  Managed("MODIFY_GROUP_MEMBERS", NoID,
          [i \in DOMAIN ns |-> EntityCall(ManageDirectGroup("GROUP_DEL", x, ns[i]), Anyhow)])

GroupDestroy(n) == Guarded("DESTROY_GROUP", GroupCall(DestroyGroup(n), IfUnknown))

GroupMembers(n) == [Open(<<>>) EXCEPT !.subject = n, !.then = "members"]

GroupSearch == Open(<<SearchCall>>)

-----------------------------------------------------------------------------
(* auth.go *)
AuthEntity(x, s) == Open(<<EntityCall(ValidateSecret(x, s), IfRefused)>>)

AuthGetToken(x, s) == [AuthEntity(x, s) EXCEPT !.subject = x, !.then = "sign"]

AuthValidateToken == Handler("validate", "NONE", NoID, <<>>)

(* The first call is for an entity that changes its own secret only. *)
AuthChangeSecret(x, old, new) ==
  Handler("secret", "CHANGE_ENTITY_SECRET", x,
          <<EntityCall(ValidateSecret(x, old), IfRefused),
            EntityCall(SetSecret(x, new), Anyhow)>>)

(* system.go *)
SystemCapabilities(direct, action, target, cap) ==
  Guarded("GLOBAL_ROOT",
    IF target = NoID \/ action \notin {"ADD", "DROP"} THEN NoCall
    ELSE LET chain == IF action = "ADD" THEN "SET_CAPABILITY" ELSE "DROP_CAPABILITY"
         IN  IF direct THEN EntityCall(ManageCapability(chain, target, cap), Anyhow)
                       ELSE GroupCall(ManageGroupCapability(chain, target, cap), Anyhow))

SystemPing == Open(<<>>)

(* health.Check reads what it reports. *)
SystemStatus == Open(<<>>)

-----------------------------------------------------------------------------
(* What a call comes to, in a directory of entities and one of groups. *)
CallVerdict(c, ents, gs) ==
  CASE c.on = "nothing" -> "malformed"
    [] c.on = "index"   -> "ok"
    [] c.on = "entity"  ->
         LET ent == ents[c.req.de.id]
             v == EntityVerdict(c.req, ent)
         IN  IF v = "ok" /\ c.keys # {} /\ ~(c.keys \subseteq KeysOf(RequestMeta(ent).kv))
               THEN "no-key" ELSE v
    [] c.on = "group" ->
         LET grp == gs[c.req.dg.name]
             v == GroupVerdict(c.req, gs)
         IN  IF v = "ok" /\ c.keys # {} /\ ~(c.keys \subseteq KeysOf(grp.kv))
               THEN "no-key" ELSE v

(* HasCapability: GLOBAL_ROOT counts for every capability. *)
HasCapability(claims, cap) == {cap, "GLOBAL_ROOT"} \cap claims.caps # {}

=============================================================================
