------------------------------ MODULE MCClient ------------------------------
(* Instances of the clients small enough for TLC. *)
EXTENDS Client, TLC

CONSTANTS w1, w2, master, replica, root, bob, good, bad, g1, k1, z0, z1, kv1, v1

MCCapabilities ==
  {"GLOBAL_ROOT", "CREATE_ENTITY", "DESTROY_ENTITY", "MODIFY_ENTITY_META",
   "MODIFY_ENTITY_KEYS", "CHANGE_ENTITY_SECRET", "LOCK_ENTITY", "UNLOCK_ENTITY",
   "CREATE_GROUP", "DESTROY_GROUP", "MODIFY_GROUP_META", "MODIFY_GROUP_MEMBERS"}

MCContained == {<<k1, k1>>}
MCBaseKey == (z0 :> z0) @@ (z1 :> z0)
MCNameIn == {<<g1, g1>>}

Person(x, i, m) == [id |-> x, number |-> i, secret |-> Secured(good), meta |-> m]

MCDirectories ==
  {[ents |-> (root :> Person(root, 1, [EmptyMeta EXCEPT !.caps = {"GLOBAL_ROOT"}]))
             @@ (bob :> Person(bob, 2, NoMeta)),
    groups |-> g1 :> [BlankGroup EXCEPT !.name = g1, !.number = 1]]}

RootToken == [entity |-> root, caps |-> {"GLOBAL_ROOT"}, exp |-> 1]
BobToken  == [entity |-> bob, caps |-> {}, exp |-> 1]
MCTokens  == {RootToken, BobToken}

(* Root has a token in the cache, Bob has none. *)
MCFiles == root :> RootToken

By(x, steps) == [as |-> x, secret |-> good, steps |-> steps]

(* Commands of every kind by root, and one by Bob.  Those that are left    *)
(* out (auth validate-token, entity unlock, group kv) find a token and make *)
(* one call, like entity lock.                                             *)
EachKind == {By(bob, Cmd!entityKeysRun(bob, "add", k1))} \cup {By(root, steps) : steps \in
  {Cmd!authChangeSecretRun(root, good, root, bad), Cmd!authCheckRun(root, good),
   Cmd!authDestroyTokenRun, Cmd!authGetTokenRun, Cmd!authInspectTokenRun,
   Cmd!entityCreateRun(bob, good, AutoNumber), Cmd!entityDestroyRun(bob),
   Cmd!entityInfoRun(bob), Cmd!entityKeysRun(bob, "READ", k1),
   Cmd!entityKVRun(bob, "UPSERT", z0, v1), Cmd!entityLockRun(bob),
   Cmd!entityMembershipRun(bob, "add", g1), Cmd!entityMembershipsRun(bob),
   Cmd!entitySearchRun, Cmd!entityUpdateRun(bob, [EmptyMeta EXCEPT !.text = v1]),
   Cmd!groupCreateRun(g1, NoText, Unmanaged, AutoNumber), Cmd!groupDestroyRun(g1),
   Cmd!groupRuleRun(g1, "drop", g1), Cmd!groupInfoRun(g1),
   Cmd!groupMembersRun(g1), Cmd!groupSearchRun,
   Cmd!groupUpdateRun(g1, v1, Absent), Cmd!kv2AddRun("entity", bob, kv1, v1),
   Cmd!kv2DelRun("group", g1, kv1, v1), Cmd!kv2GetRun("entity", bob, kv1),
   Cmd!kv2ReplaceRun("group", g1, kv1, v1),
   Cmd!systemCapabilitiesRun(bob, "ADD", "LOCK_ENTITY", TRUE),
   Cmd!systemCapabilitiesRun(bob, "ADD", "lock_entity", TRUE),
   Cmd!systemPingRun, Cmd!systemStatusRun}}

(* Another process of the same host, which changes the cache. *)
OtherCommands == {By(root, Cmd!authGetTokenRun), By(root, Cmd!authDestroyTokenRun)}

MCOffered == (w1 :> EachKind) @@ (w2 :> OtherCommands)

MCMaxCommands == (w1 :> 1) @@ (w2 :> 1)
MCNone == [w \in Workers |-> {}]
MCNoRequests == [w \in Workers |-> 0]

=============================================================================
