------------------------------ MODULE MCService -----------------------------
(* Instances of the service small enough for TLC. *)
EXTENDS Service, TLC

CONSTANTS w1, w2, s1, root, bob, good, bad, g1, g2, k1, z0, z1, kv1, v1

MCCapabilities ==
  {"GLOBAL_ROOT", "CREATE_ENTITY", "DESTROY_ENTITY", "MODIFY_ENTITY_META",
   "MODIFY_ENTITY_KEYS", "CHANGE_ENTITY_SECRET", "LOCK_ENTITY", "UNLOCK_ENTITY",
   "CREATE_GROUP", "DESTROY_GROUP", "MODIFY_GROUP_META", "MODIFY_GROUP_MEMBERS"}

MCContained == {<<k1, k1>>}
MCBaseKey == (z0 :> z0) @@ (z1 :> z0)
MCNameIn == {<<n, n>> : n \in Groups}

Person(x, i, m) == [id |-> x, number |-> i, secret |-> Secured(good), meta |-> m]
Root == Person(root, 1, [EmptyMeta EXCEPT !.caps = {"GLOBAL_ROOT"}])
Bob  == Person(bob, 2, [EmptyMeta EXCEPT !.groups = {g1}, !.caps = {"LOCK_ENTITY"}])
Admins == [BlankGroup EXCEPT !.name = g1, !.number = 1, !.managedBy = g1,
                             !.caps = {"MODIFY_ENTITY_META"}]

(* Bob is in g1, which manages itself. *)
MCDirectories ==
  {[ents |-> (root :> Root) @@ (bob :> Bob), groups |-> (g1 :> Admins) @@ (g2 :> NoGroup)]}

(* The tokens of both, issued before. *)
MCTokens ==
  {[entity |-> root, caps |-> {"GLOBAL_ROOT"}, exp |-> 1],
   [entity |-> bob, caps |-> {"LOCK_ENTITY", "MODIFY_ENTITY_META"}, exp |-> 1]}

(* Every handler. *)
EveryOffer ==
  {EntityCreate(bob, AutoNumber, good), EntityUpdate(bob, [EmptyMeta EXCEPT !.text = v1]),
   EntityInfo(bob), EntitySearch, EntityUM(bob, "UPSERT", z0, v1),
   EntityUM(bob, "ADD", z0, v1), EntityKVGet(bob, kv1), EntityKVAdd(bob, kv1, v1),
   EntityKVDel(bob, kv1, v1), EntityKVReplace(bob, kv1, v1), EntityKeys(bob, "ADD", k1),
   EntityDestroy(bob), EntityLock(bob), EntityUnlock(bob), EntityGroups(bob),
   GroupCreate(g2, NoText, g1, AutoNumber), GroupUpdate(g1, v1, Absent), GroupInfo(g1),
   GroupUM(g1, "UPSERT", z0, v1), GroupKVGet(g1, kv1), GroupKVAdd(g1, kv1, v1),
   GroupKVDel(g1, kv1, v1), GroupKVReplace(g1, kv1, v1), GroupUpdateRules(g1, g2, "INCLUDE"),
   GroupAddMember(bob, <<>>), GroupAddMember(bob, <<g2, g1>>), GroupDelMember(bob, <<g1>>),
   GroupDestroy(g1), GroupMembers(g1), GroupSearch,
   AuthEntity(bob, good), AuthGetToken(bob, good), AuthValidateToken,
   AuthChangeSecret(bob, good, bad), SystemCapabilities(TRUE, "ADD", bob, "GLOBAL_ROOT"),
   SystemCapabilities(FALSE, "DROP", g1, "MODIFY_ENTITY_META"),
   SystemCapabilities(TRUE, "ADD", NoID, "GLOBAL_ROOT"), SystemPing, SystemStatus}

(* Changes of what the others rely on. *)
OtherOffers ==
  {GroupDelMember(bob, <<g1>>), EntityDestroy(bob), AuthGetToken(bob, good)}

MCOffers == (w1 :> EveryOffer) @@ (w2 :> OtherOffers)
MCMaxRequests == (w1 :> 1) @@ (w2 :> 2)

(* A member of the managing group asks to change the group. *)
ManagerOffers == (w1 :> {GroupUpdate(g1, v1, Absent)})
OneRequest == (w1 :> 1)

=============================================================================
