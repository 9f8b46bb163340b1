----------------------------- MODULE GroupHooks ------------------------------
(***************************************************************************)
(* The groups that the group tree works on, its processing chains and the  *)
(* hooks they are made of, except for what the hooks do to storage (module *)
(* GroupTree).  Group names, metadata, key/value data and numbers are      *)
(* those of EntityData; what the rules of groups mean is in GroupRules.    *)
(***************************************************************************)
EXTENDS EntityData, Sequences

CONSTANTS
  NameIn,    \* <<g, p>> : the name of g contains the name of p
  NoGroup    \* what the data store returns for an unknown group

INSTANCE GroupRules

(* Unmanaged is the empty string, which a request can set; Absent is a     *)
(* field that a request leaves out.                                        *)
Unmanaged == NoID
Absent    == NoText

Modes  == {"INCLUDE", "EXCLUDE", "DROP"}
NoRule == [mode |-> "NONE", target |-> NoID]

(* A group at rest, and the partly built one that a chain works on. *)
Group == [name      : Groups \cup {NoID},
          number    : Numbers,
          managedBy : Groups \cup {Unmanaged},
          rules     : Rules,
          caps      : SUBSET Capabilities,
          um        : SUBSET (MetaKeys \X Values),
          kv        : SUBSET (KVKeys \X Values),
          text      : Values \cup {NoText}]

BlankGroup == [name |-> NoID, number |-> 0, managedBy |-> Unmanaged,
               rules |-> NoRules, caps |-> {}, um |-> {}, kv |-> {},
               text |-> NoText]

(* The data group of a request, with the one rule it may propose. *)
DataGroup == [name      : Groups,
              number    : Numbers,
              managedBy : Groups \cup {Unmanaged, Absent},
              rule      : [mode : Modes, target : Groups] \cup {NoRule},
              caps      : SUBSET Capabilities,
              um        : SUBSET (MetaKeys \X Values),
              kv        : SUBSET (KVKeys \X Values),
              text      : Values \cup {NoText}]

ASSUME GroupNamesAssumption == IsFiniteSet(Groups)

ASSUME GroupZeroValuesAssumption ==
  NoID \notin Groups /\ NoText \notin Groups /\ NoGroup \notin Group \cup Rules

-----------------------------------------------------------------------------
(***************************************************************************)
(* Chains.  An edit has no hook that makes sure of anything first: a group *)
(* carries its metadata itself.                                            *)
(***************************************************************************)
GroupEditHook ==
  [MERGE_METADATA  |-> "merge-group-meta",
   SET_CAPABILITY  |-> "set-group-capability",
   DROP_CAPABILITY |-> "remove-group-capability",
   UGM_UPSERT      |-> "add-untyped-metadata",
   UGM_CLEARFUZZY  |-> "del-untyped-metadata-fuzzy",
   UGM_CLEAREXACT  |-> "del-untyped-metadata-exact",
   KV_ADD          |-> "kv-add",
   KV_DEL          |-> "kv-del",
   KV_REPLACE      |-> "kv-replace"]

GroupEditChains == DOMAIN GroupEditHook
GroupEditHooks  == {GroupEditHook[c] : c \in GroupEditChains}

GroupChains == {"CREATE", "DESTROY", "FETCH", "MODIFY_EXPANSIONS"} \cup GroupEditChains

(* defaultGroupChains, in the order of priorities: the managing group (10) *)
(* comes before the name (50), the three checks (40) before the patch.     *)
GroupChain ==
  [c \in GroupChains |->
     CASE c = "CREATE" ->
            <<"fail-on-existing-group", "set-managing-group", "set-group-name",
              "set-group-displayname", "set-group-number", "save-group">>
       [] c = "DESTROY" -> <<"load-group", "destroy-group">>
       [] c = "FETCH" -> <<"load-group">>
       [] c = "MODIFY_EXPANSIONS" ->
            <<"load-group", "check-immediate-expansions",
              "check-expansion-cycles", "check-expansion-targets",
              "patch-group-expansions", "save-group">>
       [] OTHER -> <<"load-group", GroupEditHook[c], "save-group">>]

(* The hooks that work on the draft alone. *)
GroupDraftHooks ==
  GroupEditHooks \cup {"set-group-name", "set-group-displayname",
                       "check-immediate-expansions", "patch-group-expansions"}

-----------------------------------------------------------------------------
(***************************************************************************)
(* Requests: the chain and the data group that each method of tree.Manager *)
(* builds.                                                                 *)
(***************************************************************************)
GroupRequest == [chain : GroupChains, dg : DataGroup]

OnGroup(chain, n) ==
  [chain |-> chain,
   dg |-> [name |-> n, number |-> 0, managedBy |-> Absent, rule |-> NoRule,
           caps |-> {}, um |-> {}, kv |-> {}, text |-> NoText]]

CreateGroup(n, t, by, num) ==
  [OnGroup("CREATE", n) EXCEPT !.dg.text = t, !.dg.managedBy = by, !.dg.number = num]

FetchGroup(n)   == OnGroup("FETCH", n)
DestroyGroup(n) == OnGroup("DESTROY", n)

UpdateGroupMeta(n, t, by) ==
  [OnGroup("MERGE_METADATA", n) EXCEPT !.dg.text = t, !.dg.managedBy = by]

ManageUntypedGroupMeta(chain, n, k, v) ==
  [OnGroup(chain, n) EXCEPT !.dg.um = {<<k, v>>}]

GroupKV(chain, n, d) == [OnGroup(chain, n) EXCEPT !.dg.kv = d]

ManageGroupCapability(chain, n, c) == [OnGroup(chain, n) EXCEPT !.dg.caps = {c}]

ModifyGroupExpansions(parent, child, mode) ==
  [OnGroup("MODIFY_EXPANSIONS", parent) EXCEPT
     !.dg.rule = [mode |-> mode, target |-> child]]

(* Any other action removes the rule. *)
ModifyGroupRule(group, target, action) ==
  ModifyGroupExpansions(group, target,
    IF action \in {"INCLUDE", "EXCLUDE"} THEN action ELSE "DROP")

-----------------------------------------------------------------------------
(***************************************************************************)
(* What each hook without storage leaves of draft g, given the data group  *)
(* d of the request.                                                       *)
(***************************************************************************)
SetGroupName(g, d)        == [g EXCEPT !.name = d.name]
SetGroupDisplayName(g, d) == [g EXCEPT !.text = d.text]

Expanded(r, rule) ==
  CASE rule.mode = "INCLUDE" -> Include(r, rule.target)
    [] rule.mode = "EXCLUDE" -> Exclude(r, rule.target)
    [] OTHER                 -> r

(* Everything but name and number is merged, expansions without a check.  *)
MergeGroupMeta(g, d) ==
  [g EXCEPT !.managedBy = IF d.managedBy = Absent THEN @ ELSE d.managedBy,
            !.text      = IF d.text = NoText THEN @ ELSE d.text,
            !.rules     = Expanded(@, d.rule),
            !.caps      = @ \cup d.caps,
            !.um        = @ \cup d.um,
            !.kv        = @ \cup d.kv]

ManageGroupCapabilities(add, g, d) ==
  [g EXCEPT !.caps = IF add THEN @ \cup d.caps ELSE @ \ d.caps]

ManageGroupUM(mode, g, d) ==
  [g EXCEPT !.um = CASE mode = "UPSERT"     -> Upsert(@, d.um)
                     [] mode = "CLEARFUZZY" -> ClearFuzzy(@, d.um)
                     [] mode = "CLEAREXACT" -> ClearExact(@, d.um)]

GroupKVChange(mode, g, d) ==
  [g EXCEPT !.kv = CASE mode = "add"     -> @ \cup d.kv
                     [] mode = "del"     -> Without(@, KeysOf(d.kv))
                     [] mode = "replace" -> Without(@, KeysOf(d.kv)) \cup d.kv]

PatchGroupExpansions(g, d) ==
  [g EXCEPT !.rules = IF d.rule.mode = "DROP" THEN Drop(@, d.rule.target)
                                              ELSE Expanded(@, d.rule)]

GroupHookResult(h, g, d) ==
  CASE h = "set-group-name"          -> SetGroupName(g, d)
    [] h = "set-group-displayname"   -> SetGroupDisplayName(g, d)
    [] h = "merge-group-meta"        -> MergeGroupMeta(g, d)
    [] h = "set-group-capability"    -> ManageGroupCapabilities(TRUE, g, d)
    [] h = "remove-group-capability" -> ManageGroupCapabilities(FALSE, g, d)
    [] h = "add-untyped-metadata"       -> ManageGroupUM("UPSERT", g, d)
    [] h = "del-untyped-metadata-fuzzy" -> ManageGroupUM("CLEARFUZZY", g, d)
    [] h = "del-untyped-metadata-exact" -> ManageGroupUM("CLEAREXACT", g, d)
    [] h = "kv-add"     -> GroupKVChange("add", g, d)
    [] h = "kv-del"     -> GroupKVChange("del", g, d)
    [] h = "kv-replace" -> GroupKVChange("replace", g, d)
    [] h = "check-immediate-expansions" -> g
    [] h = "patch-group-expansions"     -> PatchGroupExpansions(g, d)

(***************************************************************************)
(* The error of a hook without storage, or "none".                         *)
(***************************************************************************)
(* Variant: only inclusions are checked. *)
ProposesInclude(d) == d.rule.mode = "INCLUDE"

Proposes(d) == d.rule.mode \in {"INCLUDE", "EXCLUDE"}

KVError(mode, g, d) ==
  LET known == KeysOf(g.kv) \cap KeysOf(d.kv) # {}
  IN  CASE Cardinality(d.kv) # 1                          -> "precondition"
        [] Cardinality(d.kv) = 1 /\ mode = "add" /\ known   -> "key-exists"
        [] Cardinality(d.kv) = 1 /\ mode # "add" /\ ~known  -> "no-key"
        [] OTHER                                          -> "none"

GroupHookError(h, g, d) ==
  CASE h \in {"set-group-capability", "remove-group-capability"} ->
         IF d.caps = {} THEN "unknown-capability" ELSE "none"
    [] h = "check-immediate-expansions" ->
         IF Proposes(d) /\ ImmediateConflict(g.rules, d.rule.target)
           THEN "existing-expansion" ELSE "none"
    [] h = "kv-add"     -> KVError("add", g, d)
    [] h = "kv-del"     -> KVError("del", g, d)
    [] h = "kv-replace" -> KVError("replace", g, d)
    [] OTHER            -> "none"

=============================================================================
