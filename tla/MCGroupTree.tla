----------------------------- MODULE MCGroupTree ----------------------------
(* Instances of the group tree small enough for TLC. *)
EXTENDS GroupTree, TLC

CONSTANTS w1, w2, g1, g2, g3, g4, cap, k1, z0, z1, kv1, v1, v2

MCContained == {<<k1, k1>>}
MCBaseKey == (z0 :> z0) @@ (z1 :> z0)
MCNameIn == {<<n, n>> : n \in Groups}

Held(n, i, targets) ==
  [BlankGroup EXCEPT !.name = n, !.number = i, !.rules.inc = targets]

Groups0(f) == [n \in Groups |-> IF n \in DOMAIN f THEN f[n] ELSE NoGroup]

(* Two groups without rules, a chain of inclusions, or a group alone. *)
MCPopulations ==
  {Groups0((g1 :> Held(g1, 1, {})) @@ (g2 :> Held(g2, 2, {}))),
   Groups0((g1 :> Held(g1, 1, {g2})) @@ (g2 :> Held(g2, 2, {g3})) @@ (g3 :> Held(g3, 3, {}))),
   Groups0(g4 :> Held(g4, 1, {}))}

(* Rules that can close a cycle of two or of three, next to groups that    *)
(* come and go.                                                            *)
RuleRequests ==
  {ModifyGroupExpansions(g1, g2, "INCLUDE"), ModifyGroupExpansions(g2, g1, "INCLUDE"),
   ModifyGroupExpansions(g2, g3, "EXCLUDE"),
   ModifyGroupExpansions(g3, g1, "EXCLUDE"), ModifyGroupExpansions(g1, g2, "DROP"),
   CreateGroup(g3, NoText, g1, AutoNumber), CreateGroup(g2, NoText, Unmanaged, 2),
   DestroyGroup(g3)}

(* One edit of each kind, of a group apart. *)
EditRequests ==
  {UpdateGroupMeta(g4, v1, Absent),
   ManageUntypedGroupMeta("UGM_CLEARFUZZY", g4, z0, v1),
   GroupKV("KV_ADD", g4, {<<kv1, v1>>}), GroupKV("KV_DEL", g4, {<<kv1, v1>>}),
   ManageGroupCapability("SET_CAPABILITY", g4, cap)}

MCRequests == RuleRequests \cup EditRequests

=============================================================================
