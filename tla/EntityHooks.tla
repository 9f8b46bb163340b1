----------------------------- MODULE EntityHooks ----------------------------
(***************************************************************************)
(* The processing chains of the entity tree and the hooks they are made    *)
(* of, except for what the hooks do to storage (module EntityTree).        *)
(*                                                                         *)
(* RunEntityChain runs the hooks of a chain in order over a draft e, which *)
(* starts blank, and the request's data entity de.  The first hook that    *)
(* returns an error ends the chain.                                        *)
(***************************************************************************)
EXTENDS EntityData, Sequences

(***************************************************************************)
(* Operators marked "Variant" are broken on purpose: each is a plausible   *)
(* slip in the definition that follows it, for checking that a property    *)
(* would notice.                                                           *)
(***************************************************************************)

(* Variant: the edit has a priority below that of ensure-entity-meta. *)
EditChainEarly(hook) ==
  <<"load-entity", hook, "ensure-entity-meta", "save-entity">>

(***************************************************************************)
(* Chains of the same shape: load, make sure there is metadata, edit,      *)
(* save.                                                                   *)
(***************************************************************************)
EditChain(hook) ==
  <<"load-entity", "ensure-entity-meta", hook, "save-entity">>

EditHook ==
  [SET_CAPABILITY  |-> "set-entity-capability",
   DROP_CAPABILITY |-> "remove-entity-capability",
   ADD_KEY         |-> "add-entity-key",
   DEL_KEY         |-> "del-entity-key",
   MERGE_METADATA  |-> "merge-entity-meta",
   LOCK            |-> "lock-entity",
   UNLOCK          |-> "unlock-entity",
   UEM_UPSERT      |-> "add-untyped-metadata",
   UEM_CLEARFUZZY  |-> "del-untyped-metadata-fuzzy",
   UEM_CLEAREXACT  |-> "del-untyped-metadata-exact",
   KV_ADD          |-> "kv-add",
   KV_DEL          |-> "kv-del",
   KV_REPLACE      |-> "kv-replace",
   GROUP_ADD       |-> "add-direct-group",
   GROUP_DEL       |-> "del-direct-group"]

EditChains == DOMAIN EditHook
EditHooks  == {EditHook[c] : c \in EditChains}

Chains ==
  {"CREATE", "DESTROY", "FETCH", "SET_SECRET", "VALIDATE_IDENTITY"}
    \cup EditChains

(* Variant: the entity is saved before it has been validated. *)
IdentityChainSavesFirst ==
  <<"load-entity", "save-entity", "validate-entity-unlocked",
    "validate-entity-secret">>

IdentityChain ==
  <<"load-entity", "validate-entity-unlocked", "validate-entity-secret",
    "save-entity">>

(***************************************************************************)
(* defaultEntityChains, each in the order in which RunEntityChain walks    *)
(* it: by priority, hooks of one priority in the order they were listed.   *)
(***************************************************************************)
EntityChain ==
  [c \in Chains |->
     CASE c = "CREATE" ->
            <<"fail-on-existing-entity", "set-entity-id",
              "set-entity-number", "set-entity-secret", "save-entity">>
       [] c = "DESTROY" -> <<"load-entity", "destroy-entity">>
       [] c = "FETCH" -> <<"load-entity">>
       [] c = "SET_SECRET" ->
            <<"load-entity", "set-entity-secret", "save-entity">>
       [] c = "VALIDATE_IDENTITY" -> IdentityChain
       [] OTHER -> EditChain(EditHook[c])]

Hooks == UNION {{EntityChain[c][i] : i \in DOMAIN EntityChain[c]} : c \in Chains}

(* The hooks that read or write the data store. *)
StorageHooks == {"load-entity", "fail-on-existing-entity",
                 "set-entity-number", "save-entity", "destroy-entity"}

-----------------------------------------------------------------------------
(***************************************************************************)
(* Requests: the chain and the data entity that each method of             *)
(* tree.Manager builds.  A method with an argument that selects the chain  *)
(* takes the chain here.                                                   *)
(***************************************************************************)
Request == [chain : Chains, de : DataEntity]

Data(x, m) == [id |-> x, number |-> 0, secret |-> NoSecret, meta |-> m]

CreateEntity(x, n, s) ==
  [chain |-> "CREATE",
   de |-> [id |-> x, number |-> n, secret |-> s, meta |-> NoMeta]]

WithSecret(chain, x, s) ==
  [chain |-> chain, de |-> [Data(x, NoMeta) EXCEPT !.secret = s]]

SetSecret(x, s)      == WithSecret("SET_SECRET", x, s)
ValidateSecret(x, s) == WithSecret("VALIDATE_IDENTITY", x, s)

Bare(chain, x)    == [chain |-> chain, de |-> Data(x, NoMeta)]
DestroyEntity(x)  == Bare("DESTROY", x)
FetchEntity(x)    == Bare("FETCH", x)
LockEntity(x)     == Bare("LOCK", x)
UnlockEntity(x)   == Bare("UNLOCK", x)

WithMeta(chain, x, m) == [chain |-> chain, de |-> Data(x, m)]
UpdateEntityMeta(x, m) == WithMeta("MERGE_METADATA", x, m)
ManageCapability(chain, x, c) ==
  WithMeta(chain, x, [EmptyMeta EXCEPT !.caps = {c}])
UpdateEntityKeys(chain, x, k) ==
  WithMeta(chain, x, [EmptyMeta EXCEPT !.keys = {k}])
ManageUntypedEntityMeta(chain, x, k, v) ==
  WithMeta(chain, x, [EmptyMeta EXCEPT !.um = {<<k, v>>}])
ManageDirectGroup(chain, x, g) ==
  WithMeta(chain, x, [EmptyMeta EXCEPT !.groups = {g}])
EntityKV(chain, x, d) == WithMeta(chain, x, [EmptyMeta EXCEPT !.kv = d])

(* The chains whose hook dereferences the metadata of the request. *)
MetaChains == {"MERGE_METADATA", "ADD_KEY", "DEL_KEY", "UEM_UPSERT",
               "UEM_CLEARFUZZY", "UEM_CLEAREXACT"}

-----------------------------------------------------------------------------
RequestMeta(de) == IF de.meta = NoMeta THEN EmptyMeta ELSE de.meta

(***************************************************************************)
(* What each hook without storage leaves of draft e, or of its metadata m, *)
(* given the data entity de, or its metadata d.  Hooks that come in two    *)
(* modes take a mode.                                                      *)
(***************************************************************************)
SetEntityID(e, de) == [e EXCEPT !.id = de.id]

SetEntitySecret(e, de) == [e EXCEPT !.secret = Secured(de.secret)]

(* Variant: metadata that is present is emptied too. *)
EmptyEntityMeta(e) == [e EXCEPT !.meta = EmptyMeta]

EnsureEntityMeta(e) == [e EXCEPT !.meta = IF @ = NoMeta THEN EmptyMeta ELSE @]

ManageEntityCapabilities(add, m, d) ==
  [m EXCEPT !.caps = IF add THEN @ \cup d.caps ELSE @ \ d.caps]

ManageEntityKeys(add, m, d) ==
  [m EXCEPT !.keys = IF add THEN AddKey(@, d.keys) ELSE DropKey(@, d.keys)]

MergeEntityMeta(m, d) == MergeMeta(m, Mergeable(d))

EntityLockManager(lockstate, m) ==
  [m EXCEPT !.locked = IF lockstate THEN "locked" ELSE "unlocked"]

ManageEntityUM(mode, m, d) ==
  [m EXCEPT !.um = CASE mode = "UPSERT"     -> Upsert(@, d.um)
                     [] mode = "CLEARFUZZY" -> ClearFuzzy(@, d.um)
                     [] mode = "CLEAREXACT" -> ClearExact(@, d.um)]

KVChange(mode, m, d) ==
  [m EXCEPT !.kv = CASE mode = "add"     -> @ \cup d.kv
                     [] mode = "del"     -> Without(@, KeysOf(d.kv))
                     [] mode = "replace" -> Without(@, KeysOf(d.kv)) \cup d.kv]

DirectGroupManager(add, m, d) ==
  [m EXCEPT !.groups = IF add THEN @ \cup d.groups ELSE @ \ d.groups]

(***************************************************************************)
(* When a hook without storage returns an error.                           *)
(***************************************************************************)
CapabilityMissing(d) == d.caps = {}

(* Variant: the key is not looked for. *)
KVMiscounted(mode, e, d) == Cardinality(d.kv) # 1

(* A request names one pair; its key must be new to add it, and known to   *)
(* remove or replace it.                                                   *)
KVRefused(mode, e, d) ==
  LET known == KeysOf(RequestMeta(e).kv) \cap KeysOf(d.kv) # {}
  IN  \/ Cardinality(d.kv) # 1
      \/ mode = "add" /\ known
      \/ mode # "add" /\ ~known

(* Variant: locked entities pass. *)
HookFailsUnlessSecret(h, e, de) ==
  h = "validate-entity-secret" /\ ~Verifies(de.secret, e)

HookFails(h, e, de) ==
  LET d == RequestMeta(de)
  IN  \/ /\ h \in {"set-entity-capability", "remove-entity-capability"}
         /\ CapabilityMissing(d)
      \/ h = "validate-entity-unlocked" /\ IsLocked(e)
      \/ h = "validate-entity-secret" /\ ~Verifies(de.secret, e)
      \/ h = "kv-add" /\ KVRefused("add", e, d)
      \/ h = "kv-del" /\ KVRefused("del", e, d)
      \/ h = "kv-replace" /\ KVRefused("replace", e, d)

(***************************************************************************)
(* The hooks by name.                                                      *)
(***************************************************************************)
EditedMeta(h, m, d) ==
  CASE h = "set-entity-capability"    -> ManageEntityCapabilities(TRUE, m, d)
    [] h = "remove-entity-capability" -> ManageEntityCapabilities(FALSE, m, d)
    [] h = "add-entity-key"    -> ManageEntityKeys(TRUE, m, d)
    [] h = "del-entity-key"    -> ManageEntityKeys(FALSE, m, d)
    [] h = "merge-entity-meta" -> MergeEntityMeta(m, d)
    [] h = "lock-entity"   -> EntityLockManager(TRUE, m)
    [] h = "unlock-entity" -> EntityLockManager(FALSE, m)
    [] h = "add-untyped-metadata"       -> ManageEntityUM("UPSERT", m, d)
    [] h = "del-untyped-metadata-fuzzy" -> ManageEntityUM("CLEARFUZZY", m, d)
    [] h = "del-untyped-metadata-exact" -> ManageEntityUM("CLEAREXACT", m, d)
    [] h = "kv-add"     -> KVChange("add", m, d)
    [] h = "kv-del"     -> KVChange("del", m, d)
    [] h = "kv-replace" -> KVChange("replace", m, d)
    [] h = "add-direct-group" -> DirectGroupManager(TRUE, m, d)
    [] h = "del-direct-group" -> DirectGroupManager(FALSE, m, d)

(* The draft that a hook leaves when it does not fail. *)
HookResult(h, e, de) ==
  CASE h = "set-entity-id"      -> SetEntityID(e, de)
    [] h = "set-entity-secret"  -> SetEntitySecret(e, de)
    [] h = "ensure-entity-meta" -> EnsureEntityMeta(e)
    [] h \in {"validate-entity-unlocked", "validate-entity-secret"} -> e
    [] h \in EditHooks ->
         [e EXCEPT !.meta = EditedMeta(h, @, RequestMeta(de))]

(* The hooks that dereference the draft's metadata without checking it.    *)
NeedsMeta(h) == h \in EditHooks

=============================================================================
