----------------------------- MODULE HookProofs -----------------------------
(***************************************************************************)
(* Lemmas about the hooks of the entity tree and of the group tree that    *)
(* work on a draft alone: the proofs about both trees, and those about the *)
(* service, which runs a chain in one step, rest on them.                  *)
(***************************************************************************)
EXTENDS EntityHooks, GroupHooks, TLAPS

-----------------------------------------------------------------------------
(* Entities.                                                               *)

(* No two kinds of hooks, and no two kinds of chains, have a name in       *)
(* common.                                                                 *)
LEMMA EditHooksDistinct ==
  /\ EditChains \subseteq Chains
  /\ {"CREATE", "DESTROY", "FETCH", "SET_SECRET", "VALIDATE_IDENTITY"} \cap EditChains = {}
  /\ EditHooks \cap {"load-entity", "ensure-entity-meta", "save-entity",
       "destroy-entity", "set-entity-id", "set-entity-number", "set-entity-secret",
       "fail-on-existing-entity", "validate-entity-unlocked", "validate-entity-secret"} = {}
  /\ \A c \in EditChains : EditHook[c] \in EditHooks
BY DEF EditChains, EditHooks, EditHook, Chains

(* Empty metadata is metadata, and present. *)
LEMMA EmptyMetaType == EmptyMeta \in Meta /\ EmptyMeta # NoMeta
BY ZeroValuesAssumption DEF EmptyMeta, Meta, LockStates

(* Whatever a request carries, the hooks read metadata from it. *)
LEMMA RequestMetaType ==
  ASSUME NEW de \in DataEntity PROVE RequestMeta(de) \in Meta
BY EmptyMetaType DEF RequestMeta, DataEntity

(* An edit of metadata leaves metadata. *)
LEMMA EditedMetaType ==
  ASSUME NEW h \in EditHooks, NEW m \in Meta, NEW d \in Meta
  PROVE  EditedMeta(h, m, d) \in Meta
<1>1. h \in {"set-entity-capability", "remove-entity-capability", "add-entity-key",
             "del-entity-key", "merge-entity-meta", "lock-entity", "unlock-entity",
             "add-untyped-metadata", "del-untyped-metadata-fuzzy",
             "del-untyped-metadata-exact", "kv-add", "kv-del", "kv-replace",
             "add-direct-group", "del-direct-group"}
  BY DEF EditHooks, EditChains, EditHook
<1>2. CASE h = "merge-entity-meta"
  <2>1. Mergeable(d) \in Meta
    BY DEF Mergeable, Meta
  <2>2. MergeMeta(m, Mergeable(d)) \in Meta
    BY <2>1 DEF MergeMeta, Meta
  <2> QED BY <1>2, <2>2 DEF EditedMeta, MergeEntityMeta
<1>3. CASE h \in {"set-entity-capability", "remove-entity-capability",
                  "add-direct-group", "del-direct-group", "lock-entity", "unlock-entity"}
  BY <1>3 DEF EditedMeta, Meta, LockStates, ManageEntityCapabilities,
              DirectGroupManager, EntityLockManager
<1>4. CASE h \in {"add-entity-key", "del-entity-key"}
  BY <1>4 DEF EditedMeta, Meta, ManageEntityKeys, AddKey, DropKey
<1>5. CASE h \in {"add-untyped-metadata", "del-untyped-metadata-fuzzy",
                  "del-untyped-metadata-exact"}
  BY <1>5 DEF EditedMeta, Meta, ManageEntityUM, Upsert, ClearFuzzy, ClearExact, Without
<1>6. CASE h \in {"kv-add", "kv-del", "kv-replace"}
  BY <1>6 DEF EditedMeta, Meta, KVChange, Without
<1> QED BY <1>1, <1>2, <1>3, <1>4, <1>5, <1>6

(* A hook that works on the draft alone leaves a draft, of the same ID     *)
(* unless it is the one that sets it; the two kinds that handle metadata   *)
(* leave metadata.                                                         *)
LEMMA HookResultType ==
  ASSUME NEW d \in Entity, NEW de \in DataEntity,
         NEW h \in EditHooks \cup {"set-entity-id", "set-entity-secret",
           "ensure-entity-meta", "validate-entity-unlocked", "validate-entity-secret"},
         NeedsMeta(h) => d.meta # NoMeta
  PROVE  /\ HookResult(h, d, de) \in Entity
         /\ h # "set-entity-id" => HookResult(h, d, de).id = d.id
         /\ h = "set-entity-id" => HookResult(h, d, de).id = de.id
         /\ h \in EditHooks \cup {"ensure-entity-meta"} =>
              HookResult(h, d, de).meta # NoMeta
         /\ h \in {"validate-entity-unlocked", "validate-entity-secret"} =>
              HookResult(h, d, de) = d
<1>1. CASE h \in EditHooks
  <2>1. d.meta \in Meta
    BY <1>1 DEF NeedsMeta, Entity
  <2>2. EditedMeta(h, d.meta, RequestMeta(de)) \in Meta
    BY <1>1, <2>1, EditedMetaType, RequestMetaType
  <2>3. HookResult(h, d, de) = [d EXCEPT !.meta = EditedMeta(h, d.meta, RequestMeta(de))]
    BY <1>1, EditHooksDistinct DEF HookResult
  <2>4. h \notin {"set-entity-id", "validate-entity-unlocked", "validate-entity-secret"}
    BY <1>1, EditHooksDistinct
  <2> QED BY <1>1, <2>2, <2>3, <2>4, ZeroValuesAssumption DEF Entity
<1>2. CASE h = "set-entity-id"
  BY <1>2, EditHooksDistinct DEF HookResult, SetEntityID, Entity, DataEntity
<1>3. CASE h = "set-entity-secret"
  BY <1>3, EditHooksDistinct DEF HookResult, SetEntitySecret, Entity, DataEntity, Secured, SecuredSecrets
<1>4. CASE h = "ensure-entity-meta"
  BY <1>4, EmptyMetaType, EditHooksDistinct DEF HookResult, EnsureEntityMeta, Entity
<1>5. CASE h \in {"validate-entity-unlocked", "validate-entity-secret"}
  BY <1>5, EditHooksDistinct DEF HookResult
<1> QED BY <1>1, <1>2, <1>3, <1>4, <1>5

-----------------------------------------------------------------------------
(* Groups.                                                                 *)

(* The kinds of chains are apart. *)
LEMMA GroupChainsDistinct ==
  /\ {"CREATE", "DESTROY", "FETCH", "MODIFY_EXPANSIONS"} \cap GroupEditChains = {}
  /\ GroupEditChains \subseteq GroupChains
  /\ \A c \in GroupEditChains : GroupEditHook[c] \in GroupEditHooks
BY DEF GroupEditChains, GroupEditHooks, GroupEditHook, GroupChains

(* A change of the rules leaves rules. *)
LEMMA RuleEditTypes ==
  ASSUME NEW r \in Rules, NEW t \in Groups
  PROVE  /\ Include(r, t) \in Rules /\ Exclude(r, t) \in Rules /\ Drop(r, t) \in Rules
         /\ Targets(Include(r, t)) = Targets(r) \cup {t}
         /\ Targets(Exclude(r, t)) = Targets(r) \cup {t}
         /\ Targets(Drop(r, t)) \subseteq Targets(r)
BY DEF Rules, Include, Exclude, Drop, Targets

(* The rule that a request may propose for a draft. *)
Proposed(h, d) ==
  IF h \in {"merge-group-meta", "patch-group-expansions"} /\ Proposes(d)
    THEN {d.rule.target} ELSE {}

(* A hook leaves a group, with no rule but those of the draft and the one  *)
(* that is proposed.                                                       *)
LEMMA GroupHookResultType ==
  ASSUME NEW h \in GroupDraftHooks, NEW g \in Group, NEW d \in DataGroup
  PROVE  /\ GroupHookResult(h, g, d) \in Group
         /\ Targets(GroupHookResult(h, g, d).rules) \subseteq
              Targets(g.rules) \cup Proposed(h, d)
<1> DEFINE res == GroupHookResult(h, g, d)
<1>0. g.rules \in Rules /\ d.rule \in [mode : Modes, target : Groups] \cup {NoRule}
  BY DEF Group, DataGroup
<1>1. /\ Expanded(g.rules, d.rule) \in Rules
      /\ Targets(Expanded(g.rules, d.rule)) \subseteq
           Targets(g.rules) \cup (IF Proposes(d) THEN {d.rule.target} ELSE {})
  <2>1. CASE d.rule = NoRule
    BY <2>1, <1>0 DEF Expanded, NoRule, Proposes
  <2>2. CASE d.rule \in [mode : Modes, target : Groups]
    BY <2>2, <1>0, RuleEditTypes DEF Expanded, Proposes, Modes
  <2>3. QED
    BY <1>0, <2>1, <2>2
<1>2. CASE h = "set-group-name"
  BY <1>2 DEF GroupHookResult, SetGroupName, Group, DataGroup
<1>3. CASE h = "set-group-displayname"
  BY <1>3 DEF GroupHookResult, SetGroupDisplayName, Group, DataGroup
<1>4. CASE h = "merge-group-meta"
  <2>1. res = MergeGroupMeta(g, d)
    BY <1>4 DEF GroupHookResult
  <2>2. MergeGroupMeta(g, d).rules = Expanded(g.rules, d.rule)
    BY DEF MergeGroupMeta, Group
  <2>3. MergeGroupMeta(g, d) \in Group
    BY <1>1 DEF MergeGroupMeta, Group, DataGroup
  <2>4. QED
    BY <1>1, <1>4, <2>1, <2>2, <2>3 DEF Proposed
<1>5. CASE h \in {"set-group-capability", "remove-group-capability"}
  <2>1. \E add \in BOOLEAN : res = ManageGroupCapabilities(add, g, d)
    BY <1>5 DEF GroupHookResult
  <2>2. QED
    BY <2>1 DEF ManageGroupCapabilities, Group, DataGroup
<1>6. CASE h \in {"add-untyped-metadata", "del-untyped-metadata-fuzzy",
                  "del-untyped-metadata-exact"}
  <2>1. \E mode \in {"UPSERT", "CLEARFUZZY", "CLEAREXACT"} :
          res = ManageGroupUM(mode, g, d)
    BY <1>6 DEF GroupHookResult
  <2>2. QED
    BY <2>1 DEF ManageGroupUM, Upsert, ClearFuzzy, ClearExact, Without, Group, DataGroup
<1>7. CASE h \in {"kv-add", "kv-del", "kv-replace"}
  <2>1. \E mode \in {"add", "del", "replace"} : res = GroupKVChange(mode, g, d)
    BY <1>7 DEF GroupHookResult
  <2>2. QED
    BY <2>1 DEF GroupKVChange, Without, Group, DataGroup
<1>8. CASE h = "check-immediate-expansions"
  BY <1>8 DEF GroupHookResult
<1>9. CASE h = "patch-group-expansions"
  <2>1. res = PatchGroupExpansions(g, d)
    BY <1>9 DEF GroupHookResult
  <2>2. CASE d.rule.mode = "DROP"
    <3>1. d.rule.target \in Groups
      BY <2>2, <1>0 DEF NoRule
    <3>2. PatchGroupExpansions(g, d) = [g EXCEPT !.rules = Drop(g.rules, d.rule.target)]
      BY <2>2 DEF PatchGroupExpansions
    <3>3. /\ Drop(g.rules, d.rule.target) \in Rules
          /\ Targets(Drop(g.rules, d.rule.target)) \subseteq Targets(g.rules)
      BY <3>1, <1>0, RuleEditTypes
    <3>4. res.rules = Drop(g.rules, d.rule.target) /\ res \in Group
      BY <2>1, <3>2, <3>3 DEF Group
    <3>5. QED
      BY <3>3, <3>4
  <2>3. CASE d.rule.mode # "DROP"
    <3>1. PatchGroupExpansions(g, d) = [g EXCEPT !.rules = Expanded(g.rules, d.rule)]
      BY <2>3 DEF PatchGroupExpansions
    <3>2. QED
      BY <1>1, <1>9, <2>1, <3>1 DEF Group, Proposed
  <2>4. QED
    BY <2>2, <2>3
<1>10. QED
  BY <1>2, <1>3, <1>4, <1>5, <1>6, <1>7, <1>8, <1>9
  DEF GroupDraftHooks, GroupEditHooks, GroupEditChains, GroupEditHook

=============================================================================
