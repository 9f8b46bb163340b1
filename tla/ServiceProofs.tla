---------------------------- MODULE ServiceProofs ---------------------------
(***************************************************************************)
(* Proofs about the service: any number of requests at any number of       *)
(* servers, for any handlers with any arguments, with crashes and tokens   *)
(* that expire.                                                            *)
(***************************************************************************)
EXTENDS Service, HookProofs, WellFoundedInduction, SequenceTheorems

-----------------------------------------------------------------------------
(* Hypotheses.                                                             *)

(* Handlers of entity.go, auth.go and system.go about entity x, ...        *)
EntityMethod(h, x) ==
  \/ h \in {EntityInfo(x), EntityDestroy(x), EntityLock(x), EntityUnlock(x), EntityGroups(x)}
  \/ \E n \in Numbers, s \in Secrets \cup {NoSecret} : h = EntityCreate(x, n, s)
  \/ \E m \in Meta : h = EntityUpdate(x, m)
  \/ \E action \in UMActions \cup {"READ", "NONE"}, k \in MetaKeys, v \in Values :
       h = EntityUM(x, action, k, v)
  \/ \E k \in KVKeys : h = EntityKVGet(x, k)
  \/ \E k \in KVKeys, v \in Values :
       h \in {EntityKVAdd(x, k, v), EntityKVDel(x, k, v), EntityKVReplace(x, k, v)}
  \/ \E action \in {"ADD", "DROP", "READ", "NONE"}, k \in Keys : h = EntityKeys(x, action, k)
  \/ \E ns \in Seq(Groups) : h \in {GroupAddMember(x, ns), GroupDelMember(x, ns)}
  \/ \E s \in Secrets \cup {NoSecret} : h \in {AuthEntity(x, s), AuthGetToken(x, s)}
  \/ \E old, new \in Secrets \cup {NoSecret} : h = AuthChangeSecret(x, old, new)
  \/ \E action \in {"ADD", "DROP", "NONE"}, c \in Capabilities :
       h = SystemCapabilities(TRUE, action, x, c)

(* ... those about group n, ...                                            *)
GroupMethod(h, n) ==
  \/ h \in {GroupInfo(n), GroupDestroy(n), GroupMembers(n)}
  \/ \E t \in Values \cup {NoText}, by \in Groups \cup {Unmanaged, Absent} :
       \/ \E num \in Numbers : h = GroupCreate(n, t, by, num)
       \/ h = GroupUpdate(n, t, by)
  \/ \E action \in UMActions \cup {"READ", "NONE"}, k \in MetaKeys, v \in Values :
       h = GroupUM(n, action, k, v)
  \/ \E k \in KVKeys : h = GroupKVGet(n, k)
  \/ \E k \in KVKeys, v \in Values :
       h \in {GroupKVAdd(n, k, v), GroupKVDel(n, k, v), GroupKVReplace(n, k, v)}
  \/ \E target \in Groups, action \in Modes : h = GroupUpdateRules(n, target, action)
  \/ \E action \in {"ADD", "DROP", "NONE"}, c \in Capabilities :
       h = SystemCapabilities(FALSE, action, n, c)

(* ... and the others.                                                     *)
OtherMethod(h) ==
  \/ h \in {EntitySearch, GroupSearch, AuthValidateToken, SystemPing, SystemStatus}
  \/ \E direct \in BOOLEAN, action \in {"ADD", "DROP", "NONE"}, c \in Capabilities :
       h = SystemCapabilities(direct, action, NoID, c)

Method(h) ==
  \/ \E x \in Entities : EntityMethod(h, x)
  \/ \E n \in Groups : GroupMethod(h, n)
  \/ OtherMethod(h)

(* Requests reach the methods of the service, and nothing else.            *)
MethodsOffered == \A w \in Workers : \A h \in Offers[w] : Method(h)

(* Updates of metadata leave the lock alone: "entity update" has no flag   *)
(* for it (internal/ctl/entity-update.go).  The service merges a lock that *)
(* an update carries, for the capability MODIFY_ENTITY_META alone.         *)
UpdatesKeepLocks ==
  \A w \in Workers : \A h \in Offers[w] :
    \A x \in Entities : \A m \in Meta : h = EntityUpdate(x, m) => m.locked = "unset"

-----------------------------------------------------------------------------
(* The requests that handlers build.                                       *)

(* Requests on entities are requests of the entity tree. *)
LEMMA EntityRequests ==
  ASSUME NEW x \in Entities
  PROVE  /\ \A n \in Numbers, s \in Secrets \cup {NoSecret} : CreateEntity(x, n, s) \in Request
         /\ \A s \in Secrets \cup {NoSecret} :
              SetSecret(x, s) \in Request /\ ValidateSecret(x, s) \in Request
         /\ {DestroyEntity(x), FetchEntity(x), LockEntity(x), UnlockEntity(x)} \subseteq Request
         /\ \A chain \in Chains : \A m \in Meta : WithMeta(chain, x, m) \in Request
<1> {"CREATE", "DESTROY", "FETCH", "SET_SECRET", "VALIDATE_IDENTITY", "LOCK", "UNLOCK"}
      \subseteq Chains /\ 0 \in Numbers
  BY MaxInt32Assumption DEF Chains, EditChains, EditHook, Numbers
<1> QED
  BY DEF CreateEntity, SetSecret, ValidateSecret, DestroyEntity, FetchEntity, LockEntity,
         UnlockEntity, Bare, WithSecret, WithMeta, Data, Request, DataEntity

(* Metadata with one field set is metadata. *)
LEMMA FieldTypes ==
  /\ \A c \in Capabilities : [EmptyMeta EXCEPT !.caps = {c}] \in Meta
  /\ \A k \in Keys : [EmptyMeta EXCEPT !.keys = {k}] \in Meta
  /\ \A k \in MetaKeys, v \in Values : [EmptyMeta EXCEPT !.um = {<<k, v>>}] \in Meta
  /\ \A k \in KVKeys, v \in Values : [EmptyMeta EXCEPT !.kv = {<<k, v>>}] \in Meta
  /\ \A g \in Groups : [EmptyMeta EXCEPT !.groups = {g}] \in Meta
BY DEF EmptyMeta, Meta, LockStates

(* Requests on groups are requests of the group tree. *)
LEMMA GroupRequests ==
  ASSUME NEW n \in Groups
  PROVE  /\ FetchGroup(n) \in GroupRequest /\ DestroyGroup(n) \in GroupRequest
         /\ \A t \in Values \cup {NoText}, by \in Groups \cup {Unmanaged, Absent} :
              /\ \A num \in Numbers : CreateGroup(n, t, by, num) \in GroupRequest
              /\ UpdateGroupMeta(n, t, by) \in GroupRequest
         /\ \A chain \in GroupChains :
              /\ \A k \in MetaKeys, v \in Values :
                   ManageUntypedGroupMeta(chain, n, k, v) \in GroupRequest
              /\ \A k \in KVKeys, v \in Values :
                   GroupKV(chain, n, {<<k, v>>}) \in GroupRequest
              /\ \A c \in Capabilities : ManageGroupCapability(chain, n, c) \in GroupRequest
         /\ \A target \in Groups : \A action \in Modes :
              ModifyGroupRule(n, target, action) \in GroupRequest
<1>1. {"CREATE", "DESTROY", "FETCH", "MODIFY_EXPANSIONS", "MERGE_METADATA"}
        \subseteq GroupChains /\ 0 \in Numbers
  BY MaxInt32Assumption DEF GroupChains, GroupEditChains, GroupEditHook, Numbers
<1>2. \A chain \in GroupChains : OnGroup(chain, n) \in GroupRequest
  BY <1>1 DEF OnGroup, GroupRequest, DataGroup
<1>3. FetchGroup(n) \in GroupRequest /\ DestroyGroup(n) \in GroupRequest
  BY <1>1, <1>2 DEF FetchGroup, DestroyGroup
<1>4. ASSUME NEW t \in Values \cup {NoText}, NEW by \in Groups \cup {Unmanaged, Absent}
      PROVE  /\ \A num \in Numbers : CreateGroup(n, t, by, num) \in GroupRequest
             /\ UpdateGroupMeta(n, t, by) \in GroupRequest
  <2>1. \A num \in Numbers : CreateGroup(n, t, by, num) \in GroupRequest
    BY <1>1 DEF CreateGroup, OnGroup, GroupRequest, DataGroup
  <2>2. UpdateGroupMeta(n, t, by) \in GroupRequest
    BY <1>1 DEF UpdateGroupMeta, OnGroup, GroupRequest, DataGroup
  <2> QED
    BY <2>1, <2>2
<1>5. ASSUME NEW chain \in GroupChains
      PROVE  /\ \A k \in MetaKeys, v \in Values :
                   ManageUntypedGroupMeta(chain, n, k, v) \in GroupRequest
             /\ \A k \in KVKeys, v \in Values : GroupKV(chain, n, {<<k, v>>}) \in GroupRequest
             /\ \A c \in Capabilities : ManageGroupCapability(chain, n, c) \in GroupRequest
  <2>1. \A k \in MetaKeys, v \in Values : ManageUntypedGroupMeta(chain, n, k, v) \in GroupRequest
    BY <1>1 DEF ManageUntypedGroupMeta, OnGroup, GroupRequest, DataGroup
  <2>2. \A k \in KVKeys, v \in Values : GroupKV(chain, n, {<<k, v>>}) \in GroupRequest
    BY <1>1 DEF GroupKV, OnGroup, GroupRequest, DataGroup
  <2>3. \A c \in Capabilities : ManageGroupCapability(chain, n, c) \in GroupRequest
    BY <1>1 DEF ManageGroupCapability, OnGroup, GroupRequest, DataGroup
  <2> QED
    BY <2>1, <2>2, <2>3
<1>6. \A target \in Groups : \A action \in Modes :
        ModifyGroupRule(n, target, action) \in GroupRequest
  BY <1>1 DEF ModifyGroupRule, ModifyGroupExpansions, OnGroup, GroupRequest, DataGroup, Modes
<1> QED
  BY <1>3, <1>4, <1>5, <1>6

-----------------------------------------------------------------------------
(* What handlers are made of.                                              *)

Answers == {IfDuplicate, IfUnknown, IfNoKey, IfKeyExists, IfRefused, IfMalformed, Anyhow}

EntityTreeCall ==
  [on : {"entity"}, req : Request, keys : SUBSET KVKeys, answers : Answers]
GroupTreeCall ==
  [on : {"group"}, req : GroupRequest, keys : SUBSET KVKeys, answers : Answers]
TreeCall == EntityTreeCall \cup GroupTreeCall \cup {NoCall, SearchCall}

Guards == {"capability", "or-self", "secret", "manager"}

HandlerType ==
  [access  : Guards \cup {"anyone", "malformed", "validate"},
   cap     : Capabilities \cup {"NONE"},
   subject : Entities \cup Groups \cup {NoID},
   calls   : Seq(TreeCall),
   then    : {"reply", "members", "sign"}]

(* The capability that a handler asks for before it runs a chain that      *)
(* changes an entity, or a group.                                          *)
EntityRight ==
  [CREATE |-> "CREATE_ENTITY", DESTROY |-> "DESTROY_ENTITY",
   SET_SECRET |-> "CHANGE_ENTITY_SECRET", LOCK |-> "LOCK_ENTITY", UNLOCK |-> "UNLOCK_ENTITY",
   SET_CAPABILITY |-> "GLOBAL_ROOT", DROP_CAPABILITY |-> "GLOBAL_ROOT",
   ADD_KEY |-> "MODIFY_ENTITY_KEYS", DEL_KEY |-> "MODIFY_ENTITY_KEYS",
   MERGE_METADATA |-> "MODIFY_ENTITY_META", UEM_UPSERT |-> "MODIFY_ENTITY_META",
   UEM_CLEARFUZZY |-> "MODIFY_ENTITY_META", UEM_CLEAREXACT |-> "MODIFY_ENTITY_META",
   KV_ADD |-> "MODIFY_ENTITY_META", KV_DEL |-> "MODIFY_ENTITY_META",
   KV_REPLACE |-> "MODIFY_ENTITY_META",
   GROUP_ADD |-> "MODIFY_GROUP_MEMBERS", GROUP_DEL |-> "MODIFY_GROUP_MEMBERS"]

GroupRight ==
  [CREATE |-> "CREATE_GROUP", DESTROY |-> "DESTROY_GROUP",
   SET_CAPABILITY |-> "GLOBAL_ROOT", DROP_CAPABILITY |-> "GLOBAL_ROOT",
   MODIFY_EXPANSIONS |-> "MODIFY_GROUP_META", MERGE_METADATA |-> "MODIFY_GROUP_META",
   UGM_UPSERT |-> "MODIFY_GROUP_META", UGM_CLEARFUZZY |-> "MODIFY_GROUP_META",
   UGM_CLEAREXACT |-> "MODIFY_GROUP_META", KV_ADD |-> "MODIFY_GROUP_META",
   KV_DEL |-> "MODIFY_GROUP_META", KV_REPLACE |-> "MODIFY_GROUP_META"]

(* The chains of entities that leave what they load. *)
LookingChains == {"FETCH", "VALIDATE_IDENTITY"}

(* The call c of handler h changes nothing that h does not ask a           *)
(* capability for; the exceptions are about the subject itself.            *)
EntityRightful(h, c) ==
  /\ h.access \in Guards /\ h.cap = EntityRight[c.req.chain]
  /\ h.access = "or-self" => h.cap = "MODIFY_ENTITY_KEYS" /\ c.req.de.id = h.subject
  /\ h.access = "secret" => h.cap = "CHANGE_ENTITY_SECRET" /\ c.req.de.id = h.subject
  /\ c.req.chain = "MERGE_METADATA" => RequestMeta(c.req.de).locked = "unset"

GroupRightful(h, c) ==
  /\ h.access \in {"capability", "manager"} /\ h.cap = GroupRight[c.req.chain]
  /\ c.req.chain = "MERGE_METADATA" => c.req.dg.caps = {}

Rightful(h, c) ==
  /\ c \in EntityTreeCall => c.req.chain \in LookingChains \/ EntityRightful(h, c)
  /\ c \in GroupTreeCall => c.req.chain = "FETCH" \/ GroupRightful(h, c)

(* A handler that lets an entity change its own secret asks for the old    *)
(* one first.                                                              *)
AsksForSecret(h) ==
  h.access = "secret" =>
    /\ Len(h.calls) = 2
    /\ h.calls[1] \in EntityTreeCall
    /\ h.calls[1].req.chain = "VALIDATE_IDENTITY" /\ h.calls[1].req.de.id = h.subject

WellMade(h) ==
  /\ h \in HandlerType
  /\ h.then = "sign" => h.subject \in Entities
  /\ h.access = "malformed" => h = Rejected
  /\ AsksForSecret(h)

(* No call changes what its handler does not ask for. *)
Dutiful(h) == \A i \in DOMAIN h.calls : Rightful(h, h.calls[i])

-----------------------------------------------------------------------------
(* Every method is well made and dutiful.                                  *)

(* The kinds of calls are apart, and so are their fields. *)
LEMMA CallTypes ==
  /\ \A r \in Request, a \in Answers : EntityCall(r, a) \in EntityTreeCall
  /\ \A r \in GroupRequest, a \in Answers : GroupCall(r, a) \in GroupTreeCall
  /\ \A r \in Request, a \in Answers, k \in KVKeys :
       [EntityCall(r, a) EXCEPT !.keys = {k}] \in EntityTreeCall
  /\ \A r \in GroupRequest, a \in Answers, k \in KVKeys :
       [GroupCall(r, a) EXCEPT !.keys = {k}] \in GroupTreeCall
  /\ \A c \in EntityTreeCall : c.on = "entity" /\ c \notin GroupTreeCall
  /\ \A c \in GroupTreeCall : c.on = "group" /\ c \notin EntityTreeCall
  /\ NoCall \notin EntityTreeCall \cup GroupTreeCall
  /\ SearchCall \notin EntityTreeCall \cup GroupTreeCall
BY DEF EntityCall, GroupCall, EntityTreeCall, GroupTreeCall, NoCall, SearchCall

(* One call, guarded by a capability or let through. *)
LEMMA SingleCall ==
  ASSUME NEW c \in TreeCall, NEW cap \in Capabilities \cup {"NONE"},
         NEW n \in Entities \cup Groups \cup {NoID},
         NEW access \in Guards \cup {"anyone"}, access # "secret"
  PROVE  /\ WellMade(Handler(access, cap, n, <<c>>))
         /\ Rightful(Handler(access, cap, n, <<c>>), c) =>
              Dutiful(Handler(access, cap, n, <<c>>))
<1> DEFINE h == Handler(access, cap, n, <<c>>)
<1>1. h \in HandlerType /\ h.then = "reply" /\ h.access = access /\ h.calls = <<c>>
  BY DEF Handler, HandlerType
<1>2. DOMAIN h.calls = {1} /\ h.calls[1] = c
  BY <1>1
<1> HIDE DEF h
<1>3. WellMade(h)
  BY <1>1 DEF WellMade, Guards, AsksForSecret
<1>4. Rightful(h, c) => Dutiful(h)
  BY <1>2 DEF Dutiful
<1> QED
  BY <1>3, <1>4 DEF h

(* Handlers without a call. *)
LEMMA NoCalls ==
  /\ \A h \in {AuthValidateToken, SystemPing, SystemStatus, Rejected} : WellMade(h) /\ Dutiful(h)
  /\ \A n \in Groups : WellMade(GroupMembers(n)) /\ Dutiful(GroupMembers(n))
<1> DEFINE Bare0(h) == /\ h \in HandlerType /\ h.calls = <<>> /\ h.access # "secret"
                       /\ h.then # "sign" /\ (h.access = "malformed" => h = Rejected)
<1>1. ASSUME NEW h, Bare0(h) PROVE WellMade(h) /\ Dutiful(h)
  <2>1. DOMAIN h.calls = {}
    BY <1>1
  <2> QED
    BY <1>1, <2>1 DEF WellMade, Dutiful, AsksForSecret
<1>2. <<>> \in Seq(TreeCall)
  OBVIOUS
<1>3. ASSUME NEW access \in {"anyone", "validate", "malformed"},
             access = "malformed" => Handler(access, "NONE", NoID, <<>>) = Rejected
      PROVE  Bare0(Handler(access, "NONE", NoID, <<>>))
  BY <1>2, <1>3 DEF Handler, HandlerType
<1>4. \A h \in {AuthValidateToken, SystemPing, SystemStatus, Rejected} : Bare0(h)
  BY <1>3 DEF AuthValidateToken, SystemPing, SystemStatus, Rejected, Open
<1>5. ASSUME NEW n \in Groups PROVE Bare0(GroupMembers(n))
  <2> DEFINE h == Open(<<>>)
  <2>1. h \in HandlerType /\ h.calls = <<>> /\ h.access = "anyone"
    BY <1>2 DEF Open, Handler, HandlerType
  <2> HIDE DEF h
  <2>2. GroupMembers(n) = [h EXCEPT !.subject = n, !.then = "members"]
    BY DEF GroupMembers, h
  <2> QED
    BY <2>1, <2>2 DEF HandlerType
<1> HIDE DEF Bare0
<1> QED
  BY <1>1, <1>4, <1>5

(* Handlers that anyone may call read. *)
LEMMA OpenReads ==
  /\ \A x \in Entities : /\ WellMade(EntityInfo(x)) /\ Dutiful(EntityInfo(x))
                         /\ \A k \in KVKeys : WellMade(EntityKVGet(x, k)) /\ Dutiful(EntityKVGet(x, k))
                         /\ \A s \in Secrets \cup {NoSecret} :
                              /\ WellMade(AuthEntity(x, s)) /\ Dutiful(AuthEntity(x, s))
                              /\ WellMade(AuthGetToken(x, s)) /\ Dutiful(AuthGetToken(x, s))
  /\ \A n \in Groups : /\ WellMade(GroupInfo(n)) /\ Dutiful(GroupInfo(n))
                       /\ \A k \in KVKeys : WellMade(GroupKVGet(n, k)) /\ Dutiful(GroupKVGet(n, k))
  /\ WellMade(EntitySearch) /\ Dutiful(EntitySearch)
  /\ WellMade(GroupSearch) /\ Dutiful(GroupSearch)
<1> DEFINE Looks(c) == /\ c \in TreeCall
                       /\ c \in EntityTreeCall => c.req.chain \in LookingChains
                       /\ c \in GroupTreeCall => c.req.chain = "FETCH"
<1>1. ASSUME NEW c, Looks(c) PROVE WellMade(Open(<<c>>)) /\ Dutiful(Open(<<c>>))
  BY <1>1, SingleCall DEF Open, Rightful, Guards
<1>2. /\ IfUnknown \in Answers /\ IfNoKey \in Answers /\ IfRefused \in Answers
  BY DEF Answers
<1>3. ASSUME NEW x \in Entities, NEW s \in Secrets \cup {NoSecret}
      PROVE  Looks(EntityCall(ValidateSecret(x, s), IfRefused))
  <2>1. EntityCall(ValidateSecret(x, s), IfRefused) \in EntityTreeCall
    BY <1>2, EntityRequests, CallTypes
  <2>2. EntityCall(ValidateSecret(x, s), IfRefused).req.chain = "VALIDATE_IDENTITY"
    BY DEF EntityCall, ValidateSecret, WithSecret
  <2> QED
    BY <2>1, <2>2, CallTypes DEF TreeCall, LookingChains
<1>4. ASSUME NEW x \in Entities
      PROVE  /\ Looks(EntityCall(FetchEntity(x), IfUnknown))
             /\ \A k \in KVKeys : Looks([EntityCall(FetchEntity(x), IfNoKey) EXCEPT !.keys = {k}])
  <2>1. /\ EntityCall(FetchEntity(x), IfUnknown) \in EntityTreeCall
        /\ \A k \in KVKeys : [EntityCall(FetchEntity(x), IfNoKey) EXCEPT !.keys = {k}] \in EntityTreeCall
    BY <1>2, EntityRequests, CallTypes
  <2>2. /\ EntityCall(FetchEntity(x), IfUnknown).req.chain = "FETCH"
        /\ \A k \in KVKeys : [EntityCall(FetchEntity(x), IfNoKey) EXCEPT !.keys = {k}].req.chain = "FETCH"
    BY DEF EntityCall, FetchEntity, Bare
  <2> QED
    BY <2>1, <2>2, CallTypes DEF TreeCall, LookingChains
<1>5. ASSUME NEW n \in Groups
      PROVE  /\ Looks(GroupCall(FetchGroup(n), IfUnknown))
             /\ \A k \in KVKeys : Looks([GroupCall(FetchGroup(n), IfNoKey) EXCEPT !.keys = {k}])
  <2>1. /\ GroupCall(FetchGroup(n), IfUnknown) \in GroupTreeCall
        /\ \A k \in KVKeys : [GroupCall(FetchGroup(n), IfNoKey) EXCEPT !.keys = {k}] \in GroupTreeCall
    BY <1>2, GroupRequests, CallTypes
  <2>2. /\ GroupCall(FetchGroup(n), IfUnknown).req.chain = "FETCH"
        /\ \A k \in KVKeys : [GroupCall(FetchGroup(n), IfNoKey) EXCEPT !.keys = {k}].req.chain = "FETCH"
    BY DEF GroupCall, FetchGroup, OnGroup
  <2> QED
    BY <2>1, <2>2, CallTypes DEF TreeCall
<1>6. Looks(SearchCall)
  BY CallTypes DEF TreeCall
<1>7. ASSUME NEW x \in Entities, NEW h, WellMade(h), Dutiful(h)
      PROVE  LET g == [h EXCEPT !.subject = x, !.then = "sign"]
             IN  h.access = "anyone" => WellMade(g) /\ Dutiful(g)
  <2> DEFINE g == [h EXCEPT !.subject = x, !.then = "sign"]
  <2> SUFFICES ASSUME h.access = "anyone" PROVE WellMade(g) /\ Dutiful(g)
    OBVIOUS
  <2>1. /\ g \in HandlerType /\ g.subject = x /\ g.access = "anyone"
        /\ g.calls = h.calls /\ g.cap = h.cap
    BY <1>7 DEF WellMade, HandlerType
  <2>2. WellMade(g)
    BY <2>1 DEF WellMade, AsksForSecret
  <2> HIDE DEF g
  <2>3. Dutiful(g)
    BY <1>7, <2>1 DEF Dutiful, Rightful, EntityRightful, GroupRightful, Guards
  <2> QED
    BY <2>2, <2>3
<1>8. ASSUME NEW x \in Entities, NEW s \in Secrets \cup {NoSecret}
      PROVE  /\ WellMade(AuthEntity(x, s)) /\ Dutiful(AuthEntity(x, s))
             /\ WellMade(AuthGetToken(x, s)) /\ Dutiful(AuthGetToken(x, s))
  <2>1. WellMade(AuthEntity(x, s)) /\ Dutiful(AuthEntity(x, s))
    BY <1>1, <1>3 DEF AuthEntity
  <2>2. AuthEntity(x, s).access = "anyone"
    BY DEF AuthEntity, Open, Handler
  <2> QED
    BY <2>1, <2>2, <1>7 DEF AuthGetToken
<1> HIDE DEF Looks
<1>9. ASSUME NEW x \in Entities
      PROVE  /\ WellMade(EntityInfo(x)) /\ Dutiful(EntityInfo(x))
             /\ \A k \in KVKeys : WellMade(EntityKVGet(x, k)) /\ Dutiful(EntityKVGet(x, k))
  BY <1>1, <1>4 DEF EntityInfo, EntityKVGet
<1>10. ASSUME NEW n \in Groups
       PROVE  /\ WellMade(GroupInfo(n)) /\ Dutiful(GroupInfo(n))
              /\ \A k \in KVKeys : WellMade(GroupKVGet(n, k)) /\ Dutiful(GroupKVGet(n, k))
  BY <1>1, <1>5 DEF GroupInfo, GroupKVGet
<1>11. /\ WellMade(EntitySearch) /\ Dutiful(EntitySearch)
       /\ WellMade(GroupSearch) /\ Dutiful(GroupSearch)
  BY <1>1, <1>6 DEF EntitySearch, GroupSearch
<1> QED
  BY <1>8, <1>9, <1>10, <1>11

(* A call of the entity tree that a capability guards. *)
LEMMA GuardedEntityCall ==
  ASSUME NEW r \in Request, NEW a \in Answers, NEW cap \in Capabilities
  PROVE  LET h == Guarded(cap, EntityCall(r, a))
         IN  /\ WellMade(h)
             /\ /\ cap = EntityRight[r.chain]
                /\ r.chain = "MERGE_METADATA" => RequestMeta(r.de).locked = "unset"
                => Dutiful(h)
<1> DEFINE c == EntityCall(r, a)
           h == Handler("capability", cap, NoID, <<c>>)
<1>1. c \in EntityTreeCall /\ c \notin GroupTreeCall /\ c.req = r
  BY CallTypes DEF EntityCall
<1>2. h.access = "capability" /\ h.cap = cap
  BY DEF Handler
<1>3. WellMade(h) /\ (Rightful(h, c) => Dutiful(h))
  BY <1>1, SingleCall DEF TreeCall, Guards
<1>4. h = Guarded(cap, EntityCall(r, a))
  BY DEF Guarded
<1> HIDE DEF c, h
<1>5. /\ cap = EntityRight[r.chain]
      /\ r.chain = "MERGE_METADATA" => RequestMeta(r.de).locked = "unset"
      => Rightful(h, c)
  BY <1>1, <1>2 DEF Rightful, EntityRightful, Guards
<1> QED
  BY <1>3, <1>4, <1>5

(* A call of the group tree that a capability guards, or that the managers *)
(* of a group may make.                                                    *)
LEMMA GuardedGroupCall ==
  ASSUME NEW r \in GroupRequest, NEW a \in Answers, NEW cap \in Capabilities,
         NEW n \in Groups, cap = GroupRight[r.chain],
         r.chain = "MERGE_METADATA" => r.dg.caps = {},
         NEW h \in {Guarded(cap, GroupCall(r, a)), Managed(cap, n, <<GroupCall(r, a)>>)}
  PROVE  WellMade(h) /\ Dutiful(h)
<1> DEFINE c == GroupCall(r, a)
<1>1. c \in GroupTreeCall /\ c \notin EntityTreeCall /\ c.req = r
  BY CallTypes DEF GroupCall
<1>2. PICK access \in {"capability", "manager"}, m \in Groups \cup {NoID} :
        h = Handler(access, cap, m, <<c>>)
  BY DEF Guarded, Managed
<1>3. h.access = access /\ h.cap = cap
  BY <1>2 DEF Handler
<1>4. WellMade(h) /\ (Rightful(h, c) => Dutiful(h))
  BY <1>1, <1>2, SingleCall DEF TreeCall, Guards
<1> HIDE DEF c
<1>5. Rightful(h, c)
  BY <1>1, <1>3 DEF Rightful, GroupRightful
<1> QED
  BY <1>4, <1>5

(* The answers that handlers map errors to are among those. *)
LEMMA AnswerKinds ==
  {IfDuplicate, IfUnknown, IfNoKey, IfKeyExists, IfRefused, Anyhow} \subseteq Answers
BY DEF Answers

(* Methods that change an entity for a capability. *)
LEMMA EntityChanges ==
  ASSUME NEW x \in Entities
  PROVE  /\ \A h \in {EntityDestroy(x), EntityLock(x), EntityUnlock(x)} : WellMade(h) /\ Dutiful(h)
         /\ \A n \in Numbers, s \in Secrets \cup {NoSecret} :
              WellMade(EntityCreate(x, n, s)) /\ Dutiful(EntityCreate(x, n, s))
         /\ \A m \in Meta : /\ WellMade(EntityUpdate(x, m))
                            /\ m.locked = "unset" => Dutiful(EntityUpdate(x, m))
         /\ \A k \in KVKeys, v \in Values :
              \A h \in {EntityKVAdd(x, k, v), EntityKVDel(x, k, v), EntityKVReplace(x, k, v)} :
                WellMade(h) /\ Dutiful(h)
<1> USE AnswerKinds, CapabilitiesAssumption
<1>1. {"SET_CAPABILITY", "KV_ADD", "KV_DEL", "KV_REPLACE", "MERGE_METADATA"} \subseteq Chains
  BY DEF Chains, EditChains, EditHook
<1>2. WellMade(EntityDestroy(x)) /\ Dutiful(EntityDestroy(x))
  <2>1. DestroyEntity(x).chain = "DESTROY" /\ DestroyEntity(x) \in Request
    BY EntityRequests DEF DestroyEntity, Bare
  <2> QED
    BY <2>1, GuardedEntityCall DEF EntityDestroy, EntityRight
<1>3. WellMade(EntityLock(x)) /\ Dutiful(EntityLock(x))
  <2>1. LockEntity(x).chain = "LOCK" /\ LockEntity(x) \in Request
    BY EntityRequests DEF LockEntity, Bare
  <2> QED
    BY <2>1, GuardedEntityCall DEF EntityLock, EntityRight
<1>4. WellMade(EntityUnlock(x)) /\ Dutiful(EntityUnlock(x))
  <2>1. UnlockEntity(x).chain = "UNLOCK" /\ UnlockEntity(x) \in Request
    BY EntityRequests DEF UnlockEntity, Bare
  <2> QED
    BY <2>1, GuardedEntityCall DEF EntityUnlock, EntityRight
<1>5. ASSUME NEW n \in Numbers, NEW s \in Secrets \cup {NoSecret}
      PROVE  WellMade(EntityCreate(x, n, s)) /\ Dutiful(EntityCreate(x, n, s))
  <2>1. CreateEntity(x, n, s).chain = "CREATE" /\ CreateEntity(x, n, s) \in Request
    BY EntityRequests DEF CreateEntity
  <2> QED
    BY <2>1, GuardedEntityCall DEF EntityCreate, EntityRight
<1>6. ASSUME NEW m \in Meta
      PROVE  /\ WellMade(EntityUpdate(x, m))
             /\ m.locked = "unset" => Dutiful(EntityUpdate(x, m))
  <2>1. /\ UpdateEntityMeta(x, m).chain = "MERGE_METADATA" /\ UpdateEntityMeta(x, m) \in Request
        /\ UpdateEntityMeta(x, m).de.meta = m
    BY <1>1, EntityRequests DEF UpdateEntityMeta, WithMeta, Data
  <2>2. RequestMeta(UpdateEntityMeta(x, m).de) = m
    BY <2>1, ZeroValuesAssumption DEF RequestMeta
  <2> QED
    BY <2>1, <2>2, GuardedEntityCall DEF EntityUpdate, EntityRight
<1>7. ASSUME NEW k \in KVKeys, NEW v \in Values, NEW chain \in {"KV_ADD", "KV_DEL", "KV_REPLACE"}
      PROVE  /\ EntityKV(chain, x, {<<k, v>>}).chain = chain
             /\ EntityKV(chain, x, {<<k, v>>}) \in Request
  BY <1>1, FieldTypes, EntityRequests DEF EntityKV, WithMeta
<1>8. ASSUME NEW k \in KVKeys, NEW v \in Values,
             NEW h \in {EntityKVAdd(x, k, v), EntityKVDel(x, k, v), EntityKVReplace(x, k, v)}
      PROVE  WellMade(h) /\ Dutiful(h)
  <2>1. PICK chain \in {"KV_ADD", "KV_DEL", "KV_REPLACE"}, a \in Answers :
          h = Guarded("MODIFY_ENTITY_META", EntityCall(EntityKV(chain, x, {<<k, v>>}), a))
    BY DEF EntityKVAdd, EntityKVDel, EntityKVReplace
  <2>2. EntityRight[chain] = "MODIFY_ENTITY_META"
    BY DEF EntityRight
  <2> QED
    BY <1>7, <2>1, <2>2, GuardedEntityCall
<1> QED
  BY <1>2, <1>3, <1>4, <1>5, <1>6, <1>8

(* An action that selects the chain selects one of those for its right, or *)
(* reads, or is refused.                                                   *)
LEMMA EntityChoices ==
  ASSUME NEW x \in Entities
  PROVE  /\ \A action \in UMActions \cup {"READ", "NONE"}, k \in MetaKeys, v \in Values :
              WellMade(EntityUM(x, action, k, v)) /\ Dutiful(EntityUM(x, action, k, v))
         /\ \A action \in {"ADD", "DROP", "READ", "NONE"}, k \in Keys :
              WellMade(EntityKeys(x, action, k)) /\ Dutiful(EntityKeys(x, action, k))
<1> USE AnswerKinds, CapabilitiesAssumption
<1>1. {"UEM_UPSERT", "UEM_CLEARFUZZY", "UEM_CLEAREXACT", "ADD_KEY", "DEL_KEY"} \subseteq Chains
  BY DEF Chains, EditChains, EditHook
<1>2. ASSUME NEW action \in UMActions \cup {"READ", "NONE"}, NEW k \in MetaKeys, NEW v \in Values
      PROVE  WellMade(EntityUM(x, action, k, v)) /\ Dutiful(EntityUM(x, action, k, v))
  <2>1. CASE action = "READ"
    BY <2>1, OpenReads DEF EntityUM, UMActions
  <2>2. CASE action = "NONE"
    BY <2>2, NoCalls DEF EntityUM, UMActions
  <2>3. CASE action \in UMActions
    <3>1. PICK chain \in {"UEM_UPSERT", "UEM_CLEARFUZZY", "UEM_CLEAREXACT"} :
            EntityUM(x, action, k, v) =
              Guarded("MODIFY_ENTITY_META",
                      EntityCall(ManageUntypedEntityMeta(chain, x, k, v), IfUnknown))
      BY <2>3 DEF EntityUM, UMActions
    <3>2. /\ ManageUntypedEntityMeta(chain, x, k, v).chain = chain
          /\ ManageUntypedEntityMeta(chain, x, k, v) \in Request
      BY <1>1, FieldTypes, EntityRequests DEF ManageUntypedEntityMeta, WithMeta
    <3>3. EntityRight[chain] = "MODIFY_ENTITY_META"
      BY DEF EntityRight
    <3> QED
      BY <3>1, <3>2, <3>3, GuardedEntityCall
  <2> QED
    BY <2>1, <2>2, <2>3
<1>3. ASSUME NEW action \in {"ADD", "DROP", "READ", "NONE"}, NEW k \in Keys
      PROVE  WellMade(EntityKeys(x, action, k)) /\ Dutiful(EntityKeys(x, action, k))
  <2>1. CASE action = "READ"
    BY <2>1, OpenReads DEF EntityKeys
  <2>2. CASE action = "NONE"
    BY <2>2, NoCalls DEF EntityKeys
  <2>3. CASE action \in {"ADD", "DROP"}
    <3>1. PICK chain \in {"ADD_KEY", "DEL_KEY"} :
            EntityKeys(x, action, k) =
              Handler("or-self", "MODIFY_ENTITY_KEYS", x,
                      <<EntityCall(UpdateEntityKeys(chain, x, k), IfUnknown)>>)
      BY <2>3 DEF EntityKeys
    <3> DEFINE c == EntityCall(UpdateEntityKeys(chain, x, k), IfUnknown)
               h == Handler("or-self", "MODIFY_ENTITY_KEYS", x, <<c>>)
    <3>2. /\ UpdateEntityKeys(chain, x, k).chain = chain
          /\ UpdateEntityKeys(chain, x, k).de.id = x
          /\ UpdateEntityKeys(chain, x, k) \in Request
      BY <1>1, FieldTypes, EntityRequests DEF UpdateEntityKeys, WithMeta, Data
    <3>3. EntityRight[chain] = "MODIFY_ENTITY_KEYS"
      BY DEF EntityRight
    <3>4. c \in EntityTreeCall /\ c \notin GroupTreeCall /\ c.req.chain = chain /\ c.req.de.id = x
      BY <3>2, CallTypes DEF EntityCall
    <3>5. h.access = "or-self" /\ h.cap = "MODIFY_ENTITY_KEYS" /\ h.subject = x
      BY DEF Handler
    <3>6. WellMade(h) /\ (Rightful(h, c) => Dutiful(h))
      BY <3>4, SingleCall DEF TreeCall, Guards
    <3> HIDE DEF c, h
    <3>7. Rightful(h, c)
      BY <3>3, <3>4, <3>5 DEF Rightful, EntityRightful, Guards
    <3> QED
      BY <3>1, <3>6, <3>7 DEF c, h
  <2> QED
    BY <2>1, <2>2, <2>3
<1> QED
  BY <1>2, <1>3

(* Methods that change a group. *)
LEMMA GroupChanges ==
  ASSUME NEW n \in Groups
  PROVE  /\ WellMade(GroupDestroy(n)) /\ Dutiful(GroupDestroy(n))
         /\ \A t \in Values \cup {NoText}, by \in Groups \cup {Unmanaged, Absent} :
              /\ \A num \in Numbers :
                   WellMade(GroupCreate(n, t, by, num)) /\ Dutiful(GroupCreate(n, t, by, num))
              /\ WellMade(GroupUpdate(n, t, by)) /\ Dutiful(GroupUpdate(n, t, by))
         /\ \A k \in KVKeys, v \in Values :
              \A h \in {GroupKVAdd(n, k, v), GroupKVDel(n, k, v), GroupKVReplace(n, k, v)} :
                WellMade(h) /\ Dutiful(h)
         /\ \A target \in Groups, action \in Modes :
              WellMade(GroupUpdateRules(n, target, action))
                /\ Dutiful(GroupUpdateRules(n, target, action))
         /\ \A action \in UMActions \cup {"READ", "NONE"}, k \in MetaKeys, v \in Values :
              WellMade(GroupUM(n, action, k, v)) /\ Dutiful(GroupUM(n, action, k, v))
<1> USE AnswerKinds, CapabilitiesAssumption
<1>1. {"KV_ADD", "KV_DEL", "KV_REPLACE", "UGM_UPSERT", "UGM_CLEARFUZZY", "UGM_CLEAREXACT"}
        \subseteq GroupChains
  BY DEF GroupChains, GroupEditChains, GroupEditHook
<1>2. WellMade(GroupDestroy(n)) /\ Dutiful(GroupDestroy(n))
  <2>1. DestroyGroup(n).chain = "DESTROY" /\ DestroyGroup(n) \in GroupRequest
    BY GroupRequests DEF DestroyGroup, OnGroup
  <2>2. GroupRight["DESTROY"] = "DESTROY_GROUP"
    BY DEF GroupRight
  <2>3. IfUnknown \in Answers /\ "DESTROY_GROUP" \in Capabilities
    OBVIOUS
  <2> QED
    BY <2>1, <2>2, <2>3, GuardedGroupCall DEF GroupDestroy
<1>3. ASSUME NEW t \in Values \cup {NoText}, NEW by \in Groups \cup {Unmanaged, Absent}
      PROVE  /\ \A num \in Numbers :
                  WellMade(GroupCreate(n, t, by, num)) /\ Dutiful(GroupCreate(n, t, by, num))
             /\ WellMade(GroupUpdate(n, t, by)) /\ Dutiful(GroupUpdate(n, t, by))
  <2>1. ASSUME NEW num \in Numbers
        PROVE  CreateGroup(n, t, by, num).chain = "CREATE" /\ CreateGroup(n, t, by, num) \in GroupRequest
    <3>1. CreateGroup(n, t, by, num) \in GroupRequest
      BY GroupRequests
    <3>2. CreateGroup(n, t, by, num).chain = "CREATE"
      BY DEF CreateGroup, OnGroup
    <3> QED
      BY <3>1, <3>2
  <2>2. /\ UpdateGroupMeta(n, t, by).chain = "MERGE_METADATA"
        /\ UpdateGroupMeta(n, t, by).dg.caps = {} /\ UpdateGroupMeta(n, t, by) \in GroupRequest
    BY GroupRequests DEF UpdateGroupMeta, OnGroup
  <2>3. GroupRight["CREATE"] = "CREATE_GROUP" /\ GroupRight["MERGE_METADATA"] = "MODIFY_GROUP_META"
    BY DEF GroupRight
  <2>4. ASSUME NEW num \in Numbers
        PROVE  WellMade(GroupCreate(n, t, by, num)) /\ Dutiful(GroupCreate(n, t, by, num))
    BY <2>1, <2>3, GuardedGroupCall DEF GroupCreate
  <2>5. WellMade(GroupUpdate(n, t, by)) /\ Dutiful(GroupUpdate(n, t, by))
    BY <2>2, <2>3, GuardedGroupCall DEF GroupUpdate
  <2> QED
    BY <2>4, <2>5
<1>4. ASSUME NEW k \in KVKeys, NEW v \in Values,
             NEW h \in {GroupKVAdd(n, k, v), GroupKVDel(n, k, v), GroupKVReplace(n, k, v)}
      PROVE  WellMade(h) /\ Dutiful(h)
  <2>1. PICK chain \in {"KV_ADD", "KV_DEL", "KV_REPLACE"} :
          h = Guarded("MODIFY_GROUP_META", GroupCall(GroupKV(chain, n, {<<k, v>>}), IfUnknown))
    BY DEF GroupKVAdd, GroupKVDel, GroupKVReplace
  <2>2. GroupRight[chain] = "MODIFY_GROUP_META"
    BY DEF GroupRight
  <2>3. GroupKV(chain, n, {<<k, v>>}).chain = chain /\ GroupKV(chain, n, {<<k, v>>}) \in GroupRequest
    BY <1>1, GroupRequests DEF GroupKV, OnGroup
  <2> QED
    BY <2>1, <2>2, <2>3, GuardedGroupCall
<1>5. ASSUME NEW target \in Groups, NEW action \in Modes
      PROVE  WellMade(GroupUpdateRules(n, target, action))
               /\ Dutiful(GroupUpdateRules(n, target, action))
  <2>1. /\ ModifyGroupRule(n, target, action).chain = "MODIFY_EXPANSIONS"
        /\ ModifyGroupRule(n, target, action) \in GroupRequest
    BY GroupRequests DEF ModifyGroupRule, ModifyGroupExpansions, OnGroup
  <2> QED
    BY <2>1, GuardedGroupCall DEF GroupUpdateRules, GroupRight
<1>6. ASSUME NEW action \in UMActions \cup {"READ", "NONE"}, NEW k \in MetaKeys, NEW v \in Values
      PROVE  WellMade(GroupUM(n, action, k, v)) /\ Dutiful(GroupUM(n, action, k, v))
  <2>1. CASE action = "READ"
    BY <2>1, OpenReads DEF GroupUM, UMActions
  <2>2. CASE action = "NONE"
    BY <2>2, NoCalls DEF GroupUM, UMActions
  <2>3. CASE action \in UMActions
    <3>1. PICK chain \in {"UGM_UPSERT", "UGM_CLEARFUZZY", "UGM_CLEAREXACT"} :
            GroupUM(n, action, k, v) =
              Managed("MODIFY_GROUP_META", n,
                      <<GroupCall(ManageUntypedGroupMeta(chain, n, k, v), IfUnknown)>>)
      BY <2>3 DEF GroupUM, UMActions
    <3>2. /\ ManageUntypedGroupMeta(chain, n, k, v).chain = chain
          /\ ManageUntypedGroupMeta(chain, n, k, v) \in GroupRequest
      BY <1>1, GroupRequests DEF ManageUntypedGroupMeta, OnGroup
    <3>3. GroupRight[chain] = "MODIFY_GROUP_META"
      BY DEF GroupRight
    <3> QED
      BY <3>1, <3>2, <3>3, GuardedGroupCall
  <2> QED
    BY <2>1, <2>2, <2>3
<1> QED
  BY <1>2, <1>3, <1>4, <1>5, <1>6

(* SystemCapabilities changes an entity, a group, or is refused. *)
LEMMA CapabilityChanges ==
  ASSUME NEW direct \in BOOLEAN, NEW action \in {"ADD", "DROP", "NONE"}, NEW c \in Capabilities,
         NEW target, target \in (IF direct THEN Entities ELSE Groups) \cup {NoID}
  PROVE  /\ WellMade(SystemCapabilities(direct, action, target, c))
         /\ Dutiful(SystemCapabilities(direct, action, target, c))
<1> USE AnswerKinds, CapabilitiesAssumption
<1> DEFINE h == SystemCapabilities(direct, action, target, c)
<1>1. CASE target = NoID \/ action = "NONE"
  <2>1. h = Handler("capability", "GLOBAL_ROOT", NoID, <<NoCall>>)
    BY <1>1 DEF SystemCapabilities, Guarded
  <2>2. Rightful(Handler("capability", "GLOBAL_ROOT", NoID, <<NoCall>>), NoCall)
    BY CallTypes DEF Rightful
  <2> QED
    BY <2>1, <2>2, SingleCall DEF TreeCall, Guards
<1>2. CASE target # NoID /\ action # "NONE"
  <2>1. PICK chain \in {"SET_CAPABILITY", "DROP_CAPABILITY"} :
          h = Guarded("GLOBAL_ROOT",
                IF direct THEN EntityCall(ManageCapability(chain, target, c), Anyhow)
                          ELSE GroupCall(ManageGroupCapability(chain, target, c), Anyhow))
    BY <1>2 DEF SystemCapabilities
  <2>2. /\ chain \in Chains /\ chain \in GroupChains
        /\ EntityRight[chain] = "GLOBAL_ROOT" /\ GroupRight[chain] = "GLOBAL_ROOT"
    BY DEF Chains, EditChains, EditHook, GroupChains, GroupEditChains, GroupEditHook,
           EntityRight, GroupRight
  <2>3. CASE direct
    <3>1. /\ ManageCapability(chain, target, c).chain = chain
          /\ ManageCapability(chain, target, c) \in Request
      BY <1>2, <2>2, <2>3, FieldTypes, EntityRequests DEF ManageCapability, WithMeta
    <3> QED
      BY <2>1, <2>2, <2>3, <3>1, GuardedEntityCall
  <2>4. CASE ~direct
    <3>1. /\ ManageGroupCapability(chain, target, c).chain = chain
          /\ ManageGroupCapability(chain, target, c) \in GroupRequest
      BY <1>2, <2>2, <2>4, GroupRequests DEF ManageGroupCapability, OnGroup
    <3> QED
      BY <1>2, <2>1, <2>2, <2>4, <3>1, GuardedGroupCall
  <2> QED
    BY <2>3, <2>4
<1> QED
  BY <1>1, <1>2

(* Every call of a change of memberships is for the same right. *)
LEMMA MemberChanges ==
  ASSUME NEW x \in Entities, NEW ns \in Seq(Groups),
         NEW h \in {GroupAddMember(x, ns), GroupDelMember(x, ns)}
  PROVE  WellMade(h) /\ Dutiful(h)
<1>1. PICK chain \in {"GROUP_ADD", "GROUP_DEL"} :
        h = Managed("MODIFY_GROUP_MEMBERS", NoID,
              [i \in DOMAIN ns |-> EntityCall(ManageDirectGroup(chain, x, ns[i]), Anyhow)])
  BY DEF GroupAddMember, GroupDelMember
<1> DEFINE cs == [i \in DOMAIN ns |-> EntityCall(ManageDirectGroup(chain, x, ns[i]), Anyhow)]
<1>2. ASSUME NEW i \in DOMAIN ns
      PROVE  /\ cs[i] \in EntityTreeCall /\ cs[i] \notin GroupTreeCall
             /\ cs[i].req.chain = chain
  <2>1. chain \in Chains /\ ns[i] \in Groups
    BY DEF Chains, EditChains, EditHook
  <2>2. /\ ManageDirectGroup(chain, x, ns[i]).chain = chain
        /\ ManageDirectGroup(chain, x, ns[i]) \in Request
    BY <2>1, FieldTypes, EntityRequests DEF ManageDirectGroup, WithMeta
  <2>3. cs[i] = EntityCall(ManageDirectGroup(chain, x, ns[i]), Anyhow)
    OBVIOUS
  <2>4. cs[i].req = ManageDirectGroup(chain, x, ns[i])
    BY <2>3 DEF EntityCall
  <2> QED
    BY <2>2, <2>3, <2>4, AnswerKinds, CallTypes
<1>3. DOMAIN cs = 1..Len(ns) /\ Len(ns) \in Nat
  OBVIOUS
<1> HIDE DEF cs
<1>4. cs \in Seq(TreeCall) /\ DOMAIN cs = DOMAIN ns
  <2>1. \A i \in 1..Len(ns) : cs[i] \in TreeCall
    BY <1>2 DEF TreeCall
  <2>2. cs = [i \in 1..Len(ns) |-> cs[i]]
    BY <1>3 DEF cs
  <2> QED
    BY <1>3, <2>1, <2>2
<1>5. /\ h \in HandlerType /\ h.access = "manager" /\ h.then = "reply"
      /\ h.cap = "MODIFY_GROUP_MEMBERS" /\ h.calls = cs
  BY <1>1, <1>4, CapabilitiesAssumption DEF Managed, Handler, HandlerType, Guards, cs
<1>6. EntityRight[chain] = "MODIFY_GROUP_MEMBERS" /\ chain # "MERGE_METADATA"
  BY DEF EntityRight
<1>7. ASSUME NEW i \in DOMAIN h.calls PROVE Rightful(h, h.calls[i])
  BY <1>2, <1>4, <1>5, <1>6 DEF Rightful, EntityRightful, Guards
<1> QED
  BY <1>5, <1>7 DEF WellMade, Dutiful, AsksForSecret

(* The old secret is asked for first. *)
LEMMA SecretChanges ==
  ASSUME NEW x \in Entities, NEW old \in Secrets \cup {NoSecret}, NEW new \in Secrets \cup {NoSecret}
  PROVE  WellMade(AuthChangeSecret(x, old, new)) /\ Dutiful(AuthChangeSecret(x, old, new))
<1> DEFINE c == EntityCall(ValidateSecret(x, old), IfRefused)
           d == EntityCall(SetSecret(x, new), Anyhow)
           h == AuthChangeSecret(x, old, new)
<1>1. /\ c \in EntityTreeCall /\ c \notin GroupTreeCall
      /\ d \in EntityTreeCall /\ d \notin GroupTreeCall
  BY EntityRequests, AnswerKinds, CallTypes
<1>2. /\ c.req.chain = "VALIDATE_IDENTITY" /\ c.req.de.id = x
      /\ d.req.chain = "SET_SECRET" /\ d.req.de.id = x
  BY DEF EntityCall, ValidateSecret, SetSecret, WithSecret, Data
<1>3. h = Handler("secret", "CHANGE_ENTITY_SECRET", x, <<c, d>>)
  BY DEF AuthChangeSecret
<1> HIDE DEF c, d, h
<1>4. <<c, d>> \in Seq(TreeCall)
  BY <1>1 DEF TreeCall
<1>5. /\ h \in HandlerType /\ h.access = "secret" /\ h.then = "reply" /\ h.subject = x
      /\ h.cap = "CHANGE_ENTITY_SECRET" /\ h.calls = <<c, d>>
  BY <1>3, <1>4, CapabilitiesAssumption DEF Handler, HandlerType, Guards
<1>6. Rightful(h, c) /\ Rightful(h, d)
  BY <1>1, <1>2, <1>5 DEF Rightful, EntityRightful, LookingChains, EntityRight, Guards
<1>7. DOMAIN h.calls = {1, 2} /\ h.calls[1] = c /\ h.calls[2] = d /\ Len(h.calls) = 2
  BY <1>5
<1>8. WellMade(h)
  BY <1>1, <1>2, <1>5, <1>7 DEF WellMade, AsksForSecret
<1>9. Dutiful(h)
  BY <1>6, <1>7 DEF Dutiful
<1> QED
  BY <1>8, <1>9 DEF h

(* Every method is well made; all but an update that carries a lock are    *)
(* dutiful.                                                                *)
LEMMA Methods ==
  ASSUME NEW h, Method(h)
  PROVE  /\ WellMade(h)
         /\ (\A x \in Entities : \A m \in Meta : h = EntityUpdate(x, m) => m.locked = "unset")
              => Dutiful(h)
<1>1. ASSUME NEW x \in Entities, EntityMethod(h, x)
      PROVE  /\ WellMade(h)
             /\ (\A m \in Meta : h = EntityUpdate(x, m) => m.locked = "unset") => Dutiful(h)
  <2>1. CASE h \in {EntityInfo(x), EntityGroups(x)} \/ (\E k \in KVKeys : h = EntityKVGet(x, k))
               \/ \E s \in Secrets \cup {NoSecret} : h \in {AuthEntity(x, s), AuthGetToken(x, s)}
    BY <2>1, OpenReads DEF EntityGroups
  <2>2. CASE \/ h \in {EntityDestroy(x), EntityLock(x), EntityUnlock(x)}
             \/ \E n \in Numbers, s \in Secrets \cup {NoSecret} : h = EntityCreate(x, n, s)
             \/ \E m \in Meta : h = EntityUpdate(x, m)
             \/ \E k \in KVKeys, v \in Values :
                  h \in {EntityKVAdd(x, k, v), EntityKVDel(x, k, v), EntityKVReplace(x, k, v)}
    BY <2>2, EntityChanges
  <2>3. CASE \/ \E action \in UMActions \cup {"READ", "NONE"}, k \in MetaKeys, v \in Values :
                  h = EntityUM(x, action, k, v)
             \/ \E action \in {"ADD", "DROP", "READ", "NONE"}, k \in Keys :
                  h = EntityKeys(x, action, k)
    BY <2>3, EntityChoices
  <2>4. CASE \E ns \in Seq(Groups) : h \in {GroupAddMember(x, ns), GroupDelMember(x, ns)}
    BY <2>4, MemberChanges
  <2>5. CASE \E old, new \in Secrets \cup {NoSecret} : h = AuthChangeSecret(x, old, new)
    BY <2>5, SecretChanges
  <2>6. CASE \E action \in {"ADD", "DROP", "NONE"}, c \in Capabilities :
               h = SystemCapabilities(TRUE, action, x, c)
    BY <2>6, CapabilityChanges
  <2> QED
    BY <1>1, <2>1, <2>2, <2>3, <2>4, <2>5, <2>6, Zenon DEF EntityMethod
<1>2. ASSUME NEW n \in Groups, GroupMethod(h, n)
      PROVE  WellMade(h) /\ Dutiful(h)
  <2>1. CASE h = GroupInfo(n) \/ (\E k \in KVKeys : h = GroupKVGet(n, k)) \/ h = GroupMembers(n)
    BY <2>1, OpenReads, NoCalls
  <2>2. CASE \E action \in {"ADD", "DROP", "NONE"}, c \in Capabilities :
               h = SystemCapabilities(FALSE, action, n, c)
    BY <2>2, CapabilityChanges
  <2>3. CASE \/ h = GroupDestroy(n)
             \/ \E t \in Values \cup {NoText}, by \in Groups \cup {Unmanaged, Absent} :
                  \/ \E num \in Numbers : h = GroupCreate(n, t, by, num)
                  \/ h = GroupUpdate(n, t, by)
             \/ \E action \in UMActions \cup {"READ", "NONE"}, k \in MetaKeys, v \in Values :
                  h = GroupUM(n, action, k, v)
             \/ \E k \in KVKeys, v \in Values :
                  h \in {GroupKVAdd(n, k, v), GroupKVDel(n, k, v), GroupKVReplace(n, k, v)}
             \/ \E target \in Groups, action \in Modes : h = GroupUpdateRules(n, target, action)
    BY <2>3, GroupChanges
  <2> QED
    BY <1>2, <2>1, <2>2, <2>3, Zenon DEF GroupMethod
<1>3. ASSUME OtherMethod(h) PROVE WellMade(h) /\ Dutiful(h)
  <2>1. CASE h \in {EntitySearch, GroupSearch, AuthValidateToken, SystemPing, SystemStatus}
    BY <2>1, OpenReads, NoCalls
  <2>2. CASE \E direct \in BOOLEAN, action \in {"ADD", "DROP", "NONE"}, c \in Capabilities :
               h = SystemCapabilities(direct, action, NoID, c)
    BY <2>2, CapabilityChanges
  <2> QED
    BY <1>3, <2>1, <2>2 DEF OtherMethod
<1> QED
  BY <1>1, <1>2, <1>3 DEF Method

-----------------------------------------------------------------------------
(* What calls make of storage.                                             *)

(* A set of numbers that is not empty has a largest. *)
LEMMA LargestNumber ==
  ASSUME NEW S, S \subseteq Numbers, S # {}
  PROVE  Largest(S) \in S /\ Largest(S) \in Numbers
<1> DEFINE T == {MaxInt32 - n : n \in S}
<1>0. MaxInt32 \in Int /\ \A n \in S : n \in Int /\ MaxInt32 - n \in Nat
  BY MaxInt32Assumption DEF Numbers
<1>1. T \subseteq Nat /\ T # {}
  BY <1>0
<1>2. PICK k \in T : \A l \in T : ~(<<l, k>> \in OpToRel(<, Nat))
  BY <1>1, NatLessThanWellFounded, WFMin
<1>3. ASSUME NEW l \in T PROVE k <= l
  <2>1. ~(l < k) /\ l \in Nat /\ k \in Nat
    BY <1>1, <1>2 DEF OpToRel
  <2> QED
    BY <2>1
<1>4. PICK n \in S : k = MaxInt32 - n
  BY <1>2
<1>5. \A m \in S : m <= n
  <2> SUFFICES ASSUME NEW m \in S PROVE m <= n
    OBVIOUS
  <2>1. MaxInt32 - n <= MaxInt32 - m /\ m \in Int /\ n \in Int
    BY <1>0, <1>3, <1>4
  <2> QED
    BY <1>0, <2>1
<1> QED
  BY <1>5 DEF Largest

(* The number that a creation stores. *)
LEMMA NumberForType ==
  ASSUME NEW n \in Numbers, NEW used \in SUBSET Numbers
  PROVE  NumberFor(n, used) \in Numbers
<1>1. 0 \in Numbers
  BY MaxInt32Assumption DEF Numbers
<1>2. Largest(used \cup {0}) \in Numbers
  BY <1>1, LargestNumber
<1> QED
  BY <1>2, MaxInt32Assumption DEF NumberFor, Increment, Numbers

(* An accepted call of the entity tree found what its chain needs.         *)
LEMMA EntityAccepted ==
  ASSUME NEW c \in EntityTreeCall, NEW es \in [Entities -> Entity \cup {NoEntity}], NEW gs,
         CallVerdict(c, es, gs) = "ok"
  PROVE  /\ c.req \in Request /\ c.req.de.id \in Entities
         /\ c.req.chain = "CREATE" => es[c.req.de.id] = NoEntity
         /\ c.req.chain # "CREATE" => es[c.req.de.id] \in Entity
         /\ c.req.chain = "VALIDATE_IDENTITY" => Verifies(c.req.de.secret, es[c.req.de.id])
<1>1. c.req \in Request /\ c.req.de.id \in Entities /\ c.on = "entity"
  BY DEF EntityTreeCall, Request, DataEntity
<1>2. EntityVerdict(c.req, es[c.req.de.id]) = "ok"
  BY <1>1 DEF CallVerdict
<1>3. es[c.req.de.id] \in Entity \cup {NoEntity}
  BY <1>1
<1> QED
  BY <1>1, <1>2, <1>3 DEF EntityVerdict, EditVerdict

(* So did one of the group tree. *)
LEMMA GroupAccepted ==
  ASSUME NEW c \in GroupTreeCall, NEW es, NEW gs \in [Groups -> Group \cup {NoGroup}],
         CallVerdict(c, es, gs) = "ok"
  PROVE  /\ c.req \in GroupRequest /\ c.req.dg.name \in Groups
         /\ c.req.chain = "CREATE" => gs[c.req.dg.name] = NoGroup
         /\ c.req.chain # "CREATE" => gs[c.req.dg.name] \in Group
<1>1. c.req \in GroupRequest /\ c.req.dg.name \in Groups /\ c.on = "group"
  BY DEF GroupTreeCall, GroupRequest, DataGroup
<1>2. GroupVerdict(c.req, gs) = "ok"
  BY <1>1 DEF CallVerdict
<1>3. gs[c.req.dg.name] \in Group \cup {NoGroup}
  BY <1>1
<1>4. CASE c.req.chain = "CREATE"
  <2>1. GroupVerdict(c.req, gs) =
          IF gs[c.req.dg.name] # NoGroup THEN "duplicate"
          ELSE IF ManagerKnown(c.req.dg, gs) THEN "ok" ELSE "unknown"
    BY <1>4, GroupChainsDistinct DEF GroupVerdict
  <2> QED
    BY <1>1, <1>2, <1>4, <2>1
<1>5. CASE c.req.chain # "CREATE"
  <2>1. gs[c.req.dg.name] # NoGroup
    BY <1>2, <1>5 DEF GroupVerdict
  <2> QED
    BY <1>1, <1>3, <1>5, <2>1
<1> QED
  BY <1>4, <1>5

(* An entity that is made or edited is an entity. *)
LEMMA EditedType ==
  ASSUME NEW r \in Request
  PROVE  /\ \A n \in Numbers : Created(r.de, n) \in Entity
         /\ \A ent \in Entity : r.chain \notin {"CREATE", "DESTROY"} => Edited(r, ent) \in Entity
<1>1. r.de \in DataEntity /\ r.chain \in Chains
  BY DEF Request
<1>2. \A n \in Numbers : Created(r.de, n) \in Entity
  BY <1>1 DEF Created, DataEntity, Entity, Secured, SecuredSecrets
<1>3. ASSUME NEW ent \in Entity, r.chain \notin {"CREATE", "DESTROY"}
      PROVE  Edited(r, ent) \in Entity
  <2>1. CASE r.chain \in LookingChains
    BY <2>1 DEF Edited, LookingChains
  <2>2. CASE r.chain = "SET_SECRET"
    <3>1. Secured(r.de.secret) \in SecuredSecrets
      BY <1>1 DEF DataEntity, Secured, SecuredSecrets
    <3>2. Edited(r, ent) = [ent EXCEPT !.secret = Secured(r.de.secret)]
      BY <2>2 DEF Edited
    <3> QED
      BY <3>1, <3>2 DEF Entity
  <2>3. CASE r.chain \in EditChains
    <3>1. RequestMeta(ent) \in Meta /\ RequestMeta(r.de) \in Meta
      BY <1>1, EmptyMetaType, RequestMetaType DEF RequestMeta, Entity
    <3>2. EditHook[r.chain] \in EditHooks
      BY <2>3, EditHooksDistinct
    <3>3. EditedMeta(EditHook[r.chain], RequestMeta(ent), RequestMeta(r.de)) \in Meta
      BY <3>1, <3>2, EditedMetaType
    <3>4. Edited(r, ent) =
            [ent EXCEPT !.meta = EditedMeta(EditHook[r.chain], RequestMeta(ent), RequestMeta(r.de))]
      BY <2>3, EditHooksDistinct DEF Edited
    <3> QED
      BY <3>3, <3>4 DEF Entity
  <2> QED
    BY <1>1, <1>3, <2>1, <2>2, <2>3 DEF Chains, LookingChains
<1> QED
  BY <1>2, <1>3

(* So is a group. *)
LEMMA EditedGroupType ==
  ASSUME NEW r \in GroupRequest
  PROVE  /\ \A n \in Numbers : CreatedGroup(r.dg, n) \in Group
         /\ \A g \in Group : r.chain \notin {"CREATE", "DESTROY"} => EditedGroup(r, g) \in Group
<1>1. r.dg \in DataGroup /\ r.chain \in GroupChains
  BY DEF GroupRequest
<1>2. ASSUME NEW n \in Numbers PROVE CreatedGroup(r.dg, n) \in Group
  <2>1. BlankGroup \in Group
    BY MaxInt32Assumption DEF BlankGroup, Group, NoRules, Rules, Numbers, Unmanaged
  <2> QED
    <3>1. /\ r.dg.name \in Groups /\ r.dg.text \in Values \cup {NoText}
          /\ r.dg.managedBy \in Groups \cup {Unmanaged, Absent}
      BY <1>1 DEF DataGroup
    <3>2. (IF r.dg.managedBy = Absent THEN Unmanaged ELSE r.dg.managedBy) \in Groups \cup {Unmanaged}
      BY <3>1
    <3> QED
      BY <2>1, <3>1, <3>2 DEF CreatedGroup, Group
<1>3. ASSUME NEW g \in Group, r.chain \notin {"CREATE", "DESTROY"}
      PROVE  EditedGroup(r, g) \in Group
  <2>1. CASE r.chain = "FETCH"
    BY <2>1 DEF EditedGroup
  <2>2. CASE r.chain = "MODIFY_EXPANSIONS"
    <3>1. "patch-group-expansions" \in GroupDraftHooks
      BY DEF GroupDraftHooks
    <3>2. EditedGroup(r, g) = GroupHookResult("patch-group-expansions", g, r.dg)
      BY <2>2 DEF EditedGroup, GroupHookResult
    <3> QED
      BY <1>1, <3>1, <3>2, GroupHookResultType
  <2>3. CASE r.chain \in GroupEditChains
    <3>1. GroupEditHook[r.chain] \in GroupDraftHooks
      BY <2>3, GroupChainsDistinct DEF GroupDraftHooks
    <3>2. EditedGroup(r, g) = GroupHookResult(GroupEditHook[r.chain], g, r.dg)
      BY <2>3, GroupChainsDistinct DEF EditedGroup
    <3> QED
      BY <1>1, <3>1, <3>2, GroupHookResultType
  <2> QED
    BY <1>1, <1>3, <2>1, <2>2, <2>3 DEF GroupChains
<1> QED
  BY <1>2, <1>3

-----------------------------------------------------------------------------
(* What changes call for.                                                  *)

(* A change of an entity calls for nothing but what its fields call for. *)
LEMMA EntityDemandsWithin ==
  ASSUME NEW a \in Entity, NEW b \in Entity, NEW S,
         a.secret # b.secret => "CHANGE_ENTITY_SECRET" \in S,
         RequestMeta(a).locked # RequestMeta(b).locked =>
           (IF RequestMeta(b).locked = "locked" THEN "LOCK_ENTITY" ELSE "UNLOCK_ENTITY") \in S,
         RequestMeta(a).groups # RequestMeta(b).groups => "MODIFY_GROUP_MEMBERS" \in S,
         RequestMeta(a).keys # RequestMeta(b).keys => "MODIFY_ENTITY_KEYS" \in S,
         (\/ RequestMeta(a).um # RequestMeta(b).um
          \/ RequestMeta(a).kv # RequestMeta(b).kv
          \/ RequestMeta(a).text # RequestMeta(b).text) => "MODIFY_ENTITY_META" \in S,
         RequestMeta(a).caps # RequestMeta(b).caps \/ a.number # b.number => "GLOBAL_ROOT" \in S
  PROVE  EntityDemands(a, b) \subseteq S
<1> SUFFICES ASSUME NEW cap \in EntityDemands(a, b) PROVE cap \in S
  OBVIOUS
<1> DEFINE m == RequestMeta(a)
           n == RequestMeta(b)
           changed ==
             {<<"CHANGE_ENTITY_SECRET", a.secret # b.secret>>,
              <<"LOCK_ENTITY", m.locked # n.locked /\ n.locked = "locked">>,
              <<"UNLOCK_ENTITY", m.locked # n.locked /\ n.locked # "locked">>,
              <<"MODIFY_GROUP_MEMBERS", m.groups # n.groups>>,
              <<"MODIFY_ENTITY_KEYS", m.keys # n.keys>>,
              <<"MODIFY_ENTITY_META", <<m.um, m.kv, m.text>> # <<n.um, n.kv, n.text>> >>,
              <<"GLOBAL_ROOT", m.caps # n.caps \/ a.number # b.number>>}
<1>1. a # NoEntity /\ b # NoEntity
  BY NoEntityAssumption
<1>2. a # b
  BY DEF EntityDemands
<1>3. EntityDemands(a, b) = {c[1] : c \in {d \in changed : d[2]}}
  BY <1>1, <1>2, Zenon DEF EntityDemands
<1>4. PICK c \in changed : c[2] /\ cap = c[1]
  BY <1>3
<1>5. CASE c = <<"CHANGE_ENTITY_SECRET", a.secret # b.secret>>
  BY <1>4, <1>5
<1>6. CASE c = <<"LOCK_ENTITY", m.locked # n.locked /\ n.locked = "locked">>
  BY <1>4, <1>6
<1>7. CASE c = <<"UNLOCK_ENTITY", m.locked # n.locked /\ n.locked # "locked">>
  BY <1>4, <1>7
<1>8. CASE c = <<"MODIFY_GROUP_MEMBERS", m.groups # n.groups>>
  BY <1>4, <1>8
<1>9. CASE c = <<"MODIFY_ENTITY_KEYS", m.keys # n.keys>>
  BY <1>4, <1>9
<1>10. CASE c = <<"MODIFY_ENTITY_META", <<m.um, m.kv, m.text>> # <<n.um, n.kv, n.text>> >>
  BY <1>4, <1>10
<1>11. CASE c = <<"GLOBAL_ROOT", m.caps # n.caps \/ a.number # b.number>>
  BY <1>4, <1>11
<1> QED
  BY <1>4, <1>5, <1>6, <1>7, <1>8, <1>9, <1>10, <1>11

(* The hooks of the chains that edit. *)
LEMMA EditHookNames ==
  /\ EditHook["SET_CAPABILITY"] = "set-entity-capability"
  /\ EditHook["DROP_CAPABILITY"] = "remove-entity-capability"
  /\ EditHook["ADD_KEY"] = "add-entity-key" /\ EditHook["DEL_KEY"] = "del-entity-key"
  /\ EditHook["LOCK"] = "lock-entity" /\ EditHook["UNLOCK"] = "unlock-entity"
  /\ EditHook["UEM_UPSERT"] = "add-untyped-metadata"
  /\ EditHook["UEM_CLEARFUZZY"] = "del-untyped-metadata-fuzzy"
  /\ EditHook["UEM_CLEAREXACT"] = "del-untyped-metadata-exact"
  /\ EditHook["KV_ADD"] = "kv-add" /\ EditHook["KV_DEL"] = "kv-del"
  /\ EditHook["KV_REPLACE"] = "kv-replace"
  /\ EditHook["GROUP_ADD"] = "add-direct-group" /\ EditHook["GROUP_DEL"] = "del-direct-group"
BY DEF EditHook

(* The same for groups. *)
LEMMA GroupEditHookNames ==
  /\ GroupEditHook["UGM_UPSERT"] = "add-untyped-metadata"
  /\ GroupEditHook["UGM_CLEARFUZZY"] = "del-untyped-metadata-fuzzy"
  /\ GroupEditHook["UGM_CLEAREXACT"] = "del-untyped-metadata-exact"
  /\ GroupEditHook["KV_ADD"] = "kv-add" /\ GroupEditHook["KV_DEL"] = "kv-del"
  /\ GroupEditHook["KV_REPLACE"] = "kv-replace"
BY DEF GroupEditHook

(* What each edit leaves alone. *)
LEMMA EditedFields ==
  ASSUME NEW c \in EditChains, NEW m \in Meta, NEW d \in Meta
  PROVE  LET n == EditedMeta(EditHook[c], m, d)
         IN  /\ c \notin {"LOCK", "UNLOCK"} /\ (c = "MERGE_METADATA" => d.locked = "unset")
                  => n.locked = m.locked
             /\ c = "LOCK" => n.locked = "locked"
             /\ c = "UNLOCK" => n.locked = "unlocked"
             /\ c \notin {"GROUP_ADD", "GROUP_DEL"} => n.groups = m.groups
             /\ c \notin {"ADD_KEY", "DEL_KEY"} => n.keys = m.keys
             /\ c \notin {"SET_CAPABILITY", "DROP_CAPABILITY"} => n.caps = m.caps
             /\ c \notin {"UEM_UPSERT", "UEM_CLEARFUZZY", "UEM_CLEAREXACT"} => n.um = m.um
             /\ c \notin {"KV_ADD", "KV_DEL", "KV_REPLACE", "MERGE_METADATA"} => n.kv = m.kv
             /\ c # "MERGE_METADATA" => n.text = m.text
<1> DEFINE n == EditedMeta(EditHook[c], m, d)
<1>1. c \in {"SET_CAPABILITY", "DROP_CAPABILITY", "ADD_KEY", "DEL_KEY", "MERGE_METADATA",
             "LOCK", "UNLOCK", "UEM_UPSERT", "UEM_CLEARFUZZY", "UEM_CLEAREXACT",
             "KV_ADD", "KV_DEL", "KV_REPLACE", "GROUP_ADD", "GROUP_DEL"}
  BY DEF EditChains, EditHook
<1>2. CASE c = "MERGE_METADATA"
  <2>1. n = MergeMeta(m, Mergeable(d))
    BY <1>2 DEF EditHook, EditedMeta, MergeEntityMeta
  <2>2. /\ Mergeable(d).locked = d.locked /\ Mergeable(d).caps = {} /\ Mergeable(d).groups = {}
        /\ Mergeable(d).keys = {} /\ Mergeable(d).um = {}
    BY DEF Mergeable, Meta
  <2> QED
    BY <1>2, <2>1, <2>2 DEF MergeMeta
<1>3. CASE c \in {"SET_CAPABILITY", "DROP_CAPABILITY"}
  <2>1. \E add \in BOOLEAN : n = ManageEntityCapabilities(add, m, d)
    BY <1>3, EditHookNames DEF EditedMeta
  <2> QED
    BY <1>3, <2>1 DEF ManageEntityCapabilities, Meta
<1>4. CASE c \in {"ADD_KEY", "DEL_KEY"}
  <2>1. \E add \in BOOLEAN : n = ManageEntityKeys(add, m, d)
    BY <1>4, EditHookNames DEF EditedMeta
  <2> QED
    BY <1>4, <2>1 DEF ManageEntityKeys, Meta
<1>5. CASE c \in {"LOCK", "UNLOCK"}
  <2>1. n = EntityLockManager(c = "LOCK", m)
    BY <1>5, EditHookNames DEF EditedMeta
  <2> QED
    BY <1>5, <2>1 DEF EntityLockManager, Meta
<1>6. CASE c \in {"UEM_UPSERT", "UEM_CLEARFUZZY", "UEM_CLEAREXACT"}
  <2>1. \E mode \in {"UPSERT", "CLEARFUZZY", "CLEAREXACT"} : n = ManageEntityUM(mode, m, d)
    BY <1>6, EditHookNames DEF EditedMeta
  <2> QED
    BY <1>6, <2>1 DEF ManageEntityUM, Meta
<1>7. CASE c \in {"KV_ADD", "KV_DEL", "KV_REPLACE"}
  <2>1. \E mode \in {"add", "del", "replace"} : n = KVChange(mode, m, d)
    BY <1>7, EditHookNames DEF EditedMeta
  <2> QED
    BY <1>7, <2>1 DEF KVChange, Meta
<1>8. CASE c \in {"GROUP_ADD", "GROUP_DEL"}
  <2>1. \E add \in BOOLEAN : n = DirectGroupManager(add, m, d)
    BY <1>8, EditHookNames DEF EditedMeta
  <2> QED
    BY <1>8, <2>1 DEF DirectGroupManager, Meta
<1> QED
  BY <1>1, <1>2, <1>3, <1>4, <1>5, <1>6, <1>7, <1>8

(* A chain of the entity tree calls for the right that handlers ask for. *)
LEMMA EntityChainDemands ==
  ASSUME NEW r \in Request, NEW ent \in Entity, r.chain \notin {"CREATE", "DESTROY"} \cup LookingChains,
         r.chain = "MERGE_METADATA" => RequestMeta(r.de).locked = "unset"
  PROVE  EntityDemands(ent, Edited(r, ent)) \subseteq {EntityRight[r.chain]}
<1> DEFINE new == Edited(r, ent)
<1>0. r.de \in DataEntity /\ r.chain \in Chains
  BY DEF Request
<1>1. new \in Entity
  BY EditedType
<1>2. CASE r.chain = "SET_SECRET"
  <2>1. new = [ent EXCEPT !.secret = Secured(r.de.secret)]
    BY <1>2 DEF Edited
  <2>2. new.meta = ent.meta /\ new.number = ent.number
    BY <2>1 DEF Entity
  <2>3. RequestMeta(new) = RequestMeta(ent)
    BY <2>2 DEF RequestMeta
  <2>4. EntityRight[r.chain] = "CHANGE_ENTITY_SECRET"
    BY <1>2 DEF EntityRight
  <2> DEFINE S == {EntityRight[r.chain]}
  <2>5. "CHANGE_ENTITY_SECRET" \in S
    BY <2>4
  <2> HIDE DEF new, S
  <2>6. EntityDemands(ent, new) \subseteq S
    BY <1>1, <2>2, <2>3, <2>5, EntityDemandsWithin
  <2> QED
    BY <2>6 DEF new, S
<1>3. CASE r.chain \in EditChains
  <2> DEFINE m == RequestMeta(ent)
             d == RequestMeta(r.de)
             n == EditedMeta(EditHook[r.chain], m, d)
  <2>1. m \in Meta /\ d \in Meta
    BY <1>0, EmptyMetaType, RequestMetaType DEF RequestMeta, Entity
  <2>2. n \in Meta
    BY <1>3, <2>1, EditHooksDistinct, EditedMetaType
  <2>3. new = [ent EXCEPT !.meta = n]
    BY <1>3, EditHooksDistinct DEF Edited
  <2>4. new.secret = ent.secret /\ new.number = ent.number /\ new.meta = n
    BY <2>3 DEF Entity
  <2>5. RequestMeta(new) = n
    BY <2>2, <2>4, ZeroValuesAssumption DEF RequestMeta
  <2>6. r.chain \in {"SET_CAPABILITY", "DROP_CAPABILITY", "ADD_KEY", "DEL_KEY", "MERGE_METADATA",
             "LOCK", "UNLOCK", "UEM_UPSERT", "UEM_CLEARFUZZY", "UEM_CLEAREXACT",
             "KV_ADD", "KV_DEL", "KV_REPLACE", "GROUP_ADD", "GROUP_DEL"}
    BY <1>3 DEF EditChains, EditHook
  <2> HIDE DEF new, n, m, d
  <2>7. /\ r.chain \notin {"LOCK", "UNLOCK"} => n.locked = m.locked
        /\ r.chain = "LOCK" => n.locked = "locked"
        /\ r.chain = "UNLOCK" => n.locked = "unlocked"
        /\ r.chain \notin {"GROUP_ADD", "GROUP_DEL"} => n.groups = m.groups
        /\ r.chain \notin {"ADD_KEY", "DEL_KEY"} => n.keys = m.keys
        /\ r.chain \notin {"SET_CAPABILITY", "DROP_CAPABILITY"} => n.caps = m.caps
        /\ r.chain \notin {"UEM_UPSERT", "UEM_CLEARFUZZY", "UEM_CLEAREXACT"} => n.um = m.um
        /\ r.chain \notin {"KV_ADD", "KV_DEL", "KV_REPLACE", "MERGE_METADATA"} => n.kv = m.kv
        /\ r.chain # "MERGE_METADATA" => n.text = m.text
    BY <1>3, <2>1, EditedFields DEF n, d
  <2>8. /\ r.chain \in {"LOCK"} => EntityRight[r.chain] = "LOCK_ENTITY"
        /\ r.chain \in {"UNLOCK"} => EntityRight[r.chain] = "UNLOCK_ENTITY"
        /\ r.chain \in {"GROUP_ADD", "GROUP_DEL"} => EntityRight[r.chain] = "MODIFY_GROUP_MEMBERS"
        /\ r.chain \in {"ADD_KEY", "DEL_KEY"} => EntityRight[r.chain] = "MODIFY_ENTITY_KEYS"
        /\ r.chain \in {"SET_CAPABILITY", "DROP_CAPABILITY"} => EntityRight[r.chain] = "GLOBAL_ROOT"
        /\ r.chain \in {"UEM_UPSERT", "UEM_CLEARFUZZY", "UEM_CLEAREXACT", "KV_ADD", "KV_DEL",
                        "KV_REPLACE", "MERGE_METADATA"}
             => EntityRight[r.chain] = "MODIFY_ENTITY_META"
    BY DEF EntityRight
  <2> DEFINE S == {EntityRight[r.chain]}
  <2>9. /\ m.locked # n.locked =>
             (IF n.locked = "locked" THEN "LOCK_ENTITY" ELSE "UNLOCK_ENTITY") \in S
        /\ m.groups # n.groups => "MODIFY_GROUP_MEMBERS" \in S
        /\ m.keys # n.keys => "MODIFY_ENTITY_KEYS" \in S
        /\ (m.um # n.um \/ m.kv # n.kv \/ m.text # n.text) => "MODIFY_ENTITY_META" \in S
        /\ m.caps # n.caps => "GLOBAL_ROOT" \in S
    BY <2>6, <2>7, <2>8
  <2> HIDE DEF S
  <2>10. EntityDemands(ent, new) \subseteq S
    BY <1>1, <2>4, <2>5, <2>9, EntityDemandsWithin DEF m
  <2> QED
    BY <2>10 DEF new, S
<1> QED
  BY <1>0, <1>2, <1>3 DEF Chains, LookingChains

(* Only the capabilities of a group call for more than its metadata. *)
LEMMA GroupChainDemands ==
  ASSUME NEW r \in GroupRequest, NEW g \in Group, r.chain \notin {"CREATE", "DESTROY", "FETCH"},
         r.chain = "MERGE_METADATA" => r.dg.caps = {}
  PROVE  GroupDemands(g, EditedGroup(r, g)) \subseteq {GroupRight[r.chain], "MODIFY_GROUP_META"}
<1> DEFINE new == EditedGroup(r, g)
<1>0. r.dg \in DataGroup /\ r.chain \in GroupChains
  BY DEF GroupRequest
<1>1. new \in Group
  BY EditedGroupType
<1>2. r.chain \notin {"SET_CAPABILITY", "DROP_CAPABILITY"} => new.caps = g.caps
  <2>1. CASE r.chain = "MODIFY_EXPANSIONS"
    <3>1. new = PatchGroupExpansions(g, r.dg)
      BY <2>1 DEF EditedGroup
    <3> QED
      BY <3>1 DEF PatchGroupExpansions, Group
  <2>2. CASE r.chain = "MERGE_METADATA"
    <3>1. new = MergeGroupMeta(g, r.dg)
      BY <2>2 DEF EditedGroup, GroupEditHook, GroupHookResult
    <3> QED
      BY <2>2, <3>1 DEF MergeGroupMeta, Group
  <2>3. CASE r.chain \in {"UGM_UPSERT", "UGM_CLEARFUZZY", "UGM_CLEAREXACT"}
    <3>1. \E mode \in {"UPSERT", "CLEARFUZZY", "CLEAREXACT"} : new = ManageGroupUM(mode, g, r.dg)
      BY <2>3, GroupEditHookNames DEF EditedGroup, GroupHookResult
    <3> QED
      BY <3>1 DEF ManageGroupUM, Group
  <2>4. CASE r.chain \in {"KV_ADD", "KV_DEL", "KV_REPLACE"}
    <3>1. \E mode \in {"add", "del", "replace"} : new = GroupKVChange(mode, g, r.dg)
      BY <2>4, GroupEditHookNames DEF EditedGroup, GroupHookResult
    <3> QED
      BY <3>1 DEF GroupKVChange, Group
  <2> QED
    BY <1>0, <2>1, <2>2, <2>3, <2>4 DEF GroupChains, GroupEditChains, GroupEditHook
<1>3. r.chain \in {"SET_CAPABILITY", "DROP_CAPABILITY"} => GroupRight[r.chain] = "GLOBAL_ROOT"
  BY DEF GroupRight
<1> HIDE DEF new
<1>4. g # NoGroup /\ new # NoGroup
  BY <1>1, GroupZeroValuesAssumption
<1>5. GroupDemands(g, new) \subseteq {GroupRight[r.chain], "MODIFY_GROUP_META"}
  BY <1>2, <1>3, <1>4 DEF GroupDemands
<1> QED
  BY <1>5 DEF new

-----------------------------------------------------------------------------
(* Types and places.                                                       *)

States == {"idle", "check", "call", "notify", "members", "entity", "groups", "groupcaps", "done"}

Job ==
  [pc : States, server : Servers \cup {NoID}, handler : HandlerType, token : Token \cup {NoToken},
   left : Seq(TreeCall), claims : Token \cup {NoClaims}, pre : Replies \ {"none"},
   reply : Replies, listed : SUBSET (Entities \cup Groups), caps : SUBSET Capabilities,
   checked : Nat]

(* Job j runs a method of the service, and has left what its handler has   *)
(* left.                                                                   *)
WellPlaced(j) ==
  /\ (j.pc = "done") <=> (j.reply # "none")
  /\ j.pc # "idle" => j.server \in Servers /\ Method(j.handler)
  /\ j.pc \in {"call", "notify"} =>
       \A i \in DOMAIN j.left : \E k \in DOMAIN j.handler.calls : j.left[i] = j.handler.calls[k]
  /\ j.pc = "notify" => j.left # <<>> /\ j.left[1] \in EntityTreeCall \cup GroupTreeCall
  /\ j.pc \in {"entity", "groups", "groupcaps"} => j.handler.then = "sign"

(* What TypeOK says of everything but the jobs. *)
DirectoryOK ==
  /\ ents \in [Entities -> Entity \cup {NoEntity}]
  /\ groups \in [Groups -> Group \cup {NoGroup}]
  /\ view \in [Servers -> [dm : [Entities -> (SUBSET Groups) \cup {NoEntity}],
                           rules : RuleMap]]
  /\ now \in 0..MaxTime
  /\ issued \subseteq Token
  /\ served \in [Workers -> Nat] /\ crashes \in 0..MaxCrashes

SInv ==
  /\ DirectoryOK
  /\ job \in [Workers -> Job]
  /\ \A w \in Workers : WellPlaced(job[w])

(* What is left after the first call. *)
LEMMA TailShift ==
  ASSUME NEW S, NEW s \in Seq(S), Len(s) # 0
  PROVE  /\ Tail(s) \in Seq(S) /\ Head(s) = s[1] /\ 1 \in DOMAIN s /\ s[1] \in S
         /\ \A i \in DOMAIN Tail(s) : i + 1 \in DOMAIN s /\ Tail(s)[i] = s[i + 1]
<1>1. DOMAIN s = 1..Len(s) /\ Len(s) \in Nat
  OBVIOUS
<1>2. Tail(s) \in Seq(S) /\ Len(Tail(s)) = Len(s) - 1
  BY HeadTailProperties
<1>3. DOMAIN Tail(s) = 1..(Len(s) - 1)
  BY <1>2
<1>4. \A i \in 1..(Len(s) - 1) : Tail(s)[i] = s[i + 1]
  BY <1>1, HeadTailProperties
<1> QED
  BY <1>1, <1>2, <1>3, <1>4

(* The handler of a job that runs is a method. *)
LEMMA Running ==
  ASSUME SInv, NEW w \in Workers, job[w].pc # "idle"
  PROVE  /\ WellMade(job[w].handler) /\ job[w] \in Job /\ job[w].server \in Servers
         /\ job[w].handler \in HandlerType
BY Methods DEF SInv, WellPlaced, WellMade

(* A job is well typed. *)
LEMMA TypesFollow == SInv => TypeOK
<1> SUFFICES ASSUME SInv PROVE TypeOK
  OBVIOUS
<1>1. ASSUME NEW w \in Workers PROVE JobOK(job[w])
  BY DEF SInv, Job, WellPlaced, JobOK, States
<1> QED
  BY <1>1 DEF SInv, DirectoryOK, TypeOK

(* One job moves on, and storage keeps its types. *)
LEMMA JobMoves ==
  ASSUME SInv, NEW w \in Workers, NEW j \in Job, WellPlaced(j), Goes(w, j), DirectoryOK'
  PROVE  SInv'
BY DEF SInv, Goes, WellPlaced

(* A reply ends the work. *)
LEMMA ReplyEnds ==
  ASSUME SInv, NEW w \in Workers, job[w].pc # "idle", NEW r \in Replies \ {"none"}, Replied(w, r),
         DirectoryOK'
  PROVE  SInv'
<1> DEFINE j == [job[w] EXCEPT !.pc = "done", !.reply = r]
<1>1. job[w] \in Job /\ WellPlaced(job[w])
  BY DEF SInv
<1>2. j \in Job
  BY <1>1 DEF Job, States
<1>3. WellPlaced(j)
  BY <1>1 DEF Job, WellPlaced
<1> QED
  BY <1>2, <1>3, JobMoves DEF Replied

(* The job of a worker without a request. *)
LEMMA IdleTypes == IdleJob \in Job /\ WellPlaced(IdleJob) /\ IdleJob.pc = "idle"
<1>1. Rejected \in HandlerType
  BY NoCalls DEF WellMade
<1>2. NoToken \in Token \cup {NoToken} /\ <<>> \in Seq(TreeCall)
  OBVIOUS
<1>3. IdleJob \in Job
  BY <1>1, <1>2 DEF IdleJob, Job, States, Replies, NoClaims
<1> QED
  BY <1>3 DEF IdleJob, WellPlaced

LEMMA FreshTypes ==
  ASSUME NEW es \in [Entities -> Entity \cup {NoEntity}], NEW gs \in [Groups -> Group \cup {NoGroup}]
  PROVE  Fresh(es, gs) \in [dm : [Entities -> (SUBSET Groups) \cup {NoEntity}], rules : RuleMap]
<1>1. ASSUME NEW x \in Entities, es[x] # NoEntity PROVE DirectGroups(es[x]) \in SUBSET Groups
  BY <1>1 DEF DirectGroups, Entity, Meta
<1>2. RulesOf(gs) \in RuleMap
  BY DEF RulesOf, RuleMap, Group
<1> QED
  BY <1>1, <1>2 DEF Fresh

LEMMA FirstTypes == Init => SInv
<1> SUFFICES ASSUME Init PROVE SInv
  OBVIOUS
<1>1. ents \in [Entities -> Entity \cup {NoEntity}] /\ groups \in [Groups -> Group \cup {NoGroup}]
  BY DirectoriesAssumption DEF Init
<1>2. DirectoryOK
  BY <1>1, FreshTypes, ServiceAssumption DEF Init, DirectoryOK
<1>3. \A w \in Workers : job[w] = IdleJob
  BY DEF Init
<1> QED
  BY <1>2, <1>3, IdleTypes DEF SInv, Init

-----------------------------------------------------------------------------
(* The steps of a request.                                                 *)

LEMMA ArriveTypes ==
  ASSUME MethodsOffered, SInv, NEW w \in Workers, NEW s \in Servers, NEW h \in Offers[w],
         NEW t \in issued \cup {NoToken}, Arrive(w, s, h, t)
  PROVE  SInv'
<1> DEFINE j == Incoming(s, h, t)
<1>1. h \in HandlerType
  BY Methods DEF MethodsOffered, WellMade
<1>2. t \in Token \cup {NoToken}
  BY DEF SInv, DirectoryOK
<1>3. /\ j \in Job /\ j.pc = "check" /\ j.server = s /\ j.handler = h /\ j.reply = "none"
  BY <1>1, <1>2, IdleTypes DEF Incoming, Job, States, IdleJob
<1> HIDE DEF j
<1>4. WellPlaced(j)
  BY <1>3 DEF WellPlaced, MethodsOffered
<1>5. DirectoryOK'
  BY DEF SInv, DirectoryOK, Arrive, Storage
<1> QED
  BY <1>3, <1>4, <1>5, JobMoves DEF Arrive, j

LEMMA CheckTypes ==
  ASSUME SInv, NEW w \in Workers, Check(w)
  PROVE  SInv'
<1> DEFINE h == job[w].handler
           v == Prerequisite(job[w].server, h, job[w].token)
           own == h.access = "secret" /\ job[w].token.entity = h.subject
           j == [job[w] EXCEPT
                  !.pc = "call", !.pre = v, !.checked = now,
                  !.claims = IF h.access \in {"or-self", "secret"} THEN job[w].token ELSE NoClaims,
                  !.left = IF h.access = "secret" /\ ~own THEN Tail(h.calls) ELSE h.calls]
<1>1. DirectoryOK'
  BY DEF SInv, DirectoryOK, Check, Storage, Rest
<1>2. job[w].pc = "check" /\ job[w] \in Job /\ WellPlaced(job[w])
  BY DEF Check, SInv
<1>3. h \in HandlerType /\ h.calls \in Seq(TreeCall)
  BY <1>2, Running DEF HandlerType
<1>4. v \in Replies \ {"none"}
  BY DEF Prerequisite, CheckToken, Replies
<1>5. CASE v # "ok" /\ h.access # "manager"
  <2>1. Replied(w, v)
    BY <1>5, Zenon DEF Check
  <2> QED
    BY <1>1, <1>2, <1>4, <2>1, ReplyEnds
<1>6. CASE ~(v # "ok" /\ h.access # "manager")
  <2>1. Goes(w, j)
    BY <1>6, Zenon DEF Check
  <2> DEFINE left == IF h.access = "secret" /\ ~own THEN Tail(h.calls) ELSE h.calls
  <2> HIDE DEF h, own
  <2>2. /\ left \in Seq(TreeCall)
        /\ \A i \in DOMAIN left : \E k \in DOMAIN h.calls : left[i] = h.calls[k]
    <3>1. CASE h.access = "secret" /\ ~own
      <4>1. Len(h.calls) = 2
        BY <1>2, <3>1, Running DEF WellMade, AsksForSecret, h
      <4>2. Len(h.calls) # 0 /\ h.calls \in Seq(TreeCall)
        BY <1>3, <4>1
      <4>3. Tail(h.calls) \in Seq(TreeCall)
        BY <4>2, TailShift
      <4>4. \A i \in DOMAIN Tail(h.calls) :
              i + 1 \in DOMAIN h.calls /\ Tail(h.calls)[i] = h.calls[i + 1]
        BY ONLY <4>2, TailShift
      <4> QED
        BY <3>1, <4>3, <4>4
    <3>2. CASE ~(h.access = "secret" /\ ~own)
      BY <1>3, <3>2
    <3> QED
      BY <3>1, <3>2
  <2>3. now \in Nat
    BY DEF SInv, DirectoryOK
  <2> HIDE DEF h, v, own, left
  <2>4. /\ j \in Job /\ j.pc = "call" /\ j.left = left /\ j.handler = h
        /\ j.server = job[w].server /\ j.reply = job[w].reply
    <3>1. "call" \in States
      BY DEF States
    <3> HIDE DEF States
    <3> QED
      BY <1>2, <1>4, <2>2, <2>3, <3>1 DEF Job, h, left, own, v, NoClaims
  <2> HIDE DEF j
  <2>5. WellPlaced(j)
    BY <1>2, <2>2, <2>4 DEF WellPlaced, h
  <2> QED
    BY <1>1, <2>1, <2>4, <2>5, JobMoves
<1> QED
  BY <1>5, <1>6

(* The call that comes next, and what is left after it. *)
LEMMA NextCall ==
  ASSUME SInv, NEW w \in Workers, job[w].pc \in {"call", "notify"}, job[w].left # <<>>
  PROVE  LET c == Head(job[w].left)
         IN  /\ c \in TreeCall /\ c = job[w].left[1]
             /\ \E k \in DOMAIN job[w].handler.calls : c = job[w].handler.calls[k]
             /\ Tail(job[w].left) \in Seq(TreeCall)
             /\ \A i \in DOMAIN Tail(job[w].left) :
                  \E k \in DOMAIN job[w].handler.calls :
                    Tail(job[w].left)[i] = job[w].handler.calls[k]
<1> DEFINE left == job[w].left
<1>1. left \in Seq(TreeCall) /\ left # <<>> /\ WellPlaced(job[w])
  BY DEF SInv, Job
<1>2. \A i \in DOMAIN left : \E k \in DOMAIN job[w].handler.calls : left[i] = job[w].handler.calls[k]
  BY <1>1 DEF WellPlaced
<1> HIDE DEF left
<1>3. Len(left) # 0
  BY <1>1, EmptySeq
<1>4. /\ Tail(left) \in Seq(TreeCall) /\ Head(left) = left[1] /\ 1 \in DOMAIN left
      /\ left[1] \in TreeCall
      /\ \A i \in DOMAIN Tail(left) : i + 1 \in DOMAIN left /\ Tail(left)[i] = left[i + 1]
  BY ONLY <1>1, <1>3, TailShift
<1>5. \A i \in DOMAIN Tail(left) : \E k \in DOMAIN job[w].handler.calls :
        Tail(left)[i] = job[w].handler.calls[k]
  BY <1>2, <1>4
<1>6. \E k \in DOMAIN job[w].handler.calls : Head(left) = job[w].handler.calls[k]
  BY <1>2, <1>4
<1> QED
  BY <1>4, <1>5, <1>6 DEF left

(* Is worker w let in, by its capability or as a manager? *)
LetIn(w) ==
  \/ job[w].pre = "ok"
  \/ ManageByMembership(job[w].server, job[w].claims.entity,
                        Delegating(job[w].handler, Head(job[w].left)))

Refuses(w) ==
  /\ job[w].pre # "ok" /\ Replied(w, job[w].pre)
  /\ UNCHANGED Storage
Fails(w) ==
  /\ Replied(w, AnswerTo(CallVerdict(Head(job[w].left), ents, groups), Head(job[w].left).answers))
  /\ UNCHANGED Storage
LooksUp(w) ==
  /\ CallVerdict(Head(job[w].left), ents, groups) = "ok" /\ Reads(Head(job[w].left))
  /\ Goes(w, [job[w] EXCEPT !.left = Tail(job[w].left)])
  /\ UNCHANGED Storage
Writes(w) ==
  /\ LetIn(w) /\ CallVerdict(Head(job[w].left), ents, groups) = "ok" /\ ~Reads(Head(job[w].left))
  /\ Goes(w, [job[w] EXCEPT !.pc = "notify"])
  /\ IF Head(job[w].left).on = "entity" THEN ApplyEntity(Head(job[w].left).req)
                                        ELSE ApplyGroup(Head(job[w].left).req)

(* A call is refused, fails, reads or writes. *)
LEMMA CallOutcomes ==
  ASSUME NEW w \in Workers, Call(w)
  PROVE  /\ job[w].pc = "call" /\ job[w].left # <<>> /\ UNCHANGED <<view, issued, Rest>>
         /\ Refuses(w) \/ Fails(w) \/ LooksUp(w) \/ Writes(w)
BY Zenon DEF Call, Refuses, Fails, LooksUp, Writes, LetIn

(* The numbers in use. *)
LEMMA UsedNumbers ==
  ASSUME DirectoryOK
  PROVE  /\ {ents[y].number : y \in {z \in Entities : ents[z] # NoEntity}} \in SUBSET Numbers
         /\ {groups[m].number : m \in {o \in Groups : groups[o] # NoGroup}} \in SUBSET Numbers
BY DEF DirectoryOK, Entity, Group

(* What a call of the entity tree makes of its entity. *)
LEMMA EntityApplied ==
  ASSUME DirectoryOK, NEW c \in EntityTreeCall, CallVerdict(c, ents, groups) = "ok",
         ApplyEntity(c.req)
  PROVE  \E e \in Entity \cup {NoEntity} :
           /\ ents' = [ents EXCEPT ![c.req.de.id] = e] /\ groups' = groups
           /\ c.req.chain = "DESTROY" => e = NoEntity
           /\ c.req.chain \notin {"CREATE", "DESTROY"} => e = Edited(c.req, ents[c.req.de.id])
<1> DEFINE x == c.req.de.id
           used == {ents[y].number : y \in {z \in Entities : ents[z] # NoEntity}}
           e == CASE c.req.chain = "CREATE"  -> Created(c.req.de, NumberFor(c.req.de.number, used))
                  [] c.req.chain = "DESTROY" -> NoEntity
                  [] OTHER -> Edited(c.req, ents[x])
<1>1. ents' = [ents EXCEPT ![x] = e] /\ groups' = groups
  BY DEF ApplyEntity
<1>2. c.req \in Request /\ c.req.de.number \in Numbers
  BY DEF EntityTreeCall, Request, DataEntity
<1>3. c.req.chain # "CREATE" => ents[x] \in Entity
  BY EntityAccepted DEF DirectoryOK
<1>4. used \in SUBSET Numbers
  BY UsedNumbers
<1> HIDE DEF used
<1>5. NumberFor(c.req.de.number, used) \in Numbers
  BY <1>2, <1>4, NumberForType
<1>6. CASE c.req.chain = "CREATE"
  <2>1. e = Created(c.req.de, NumberFor(c.req.de.number, used))
    BY <1>6
  <2> QED
    BY <1>1, <1>2, <1>5, <1>6, <2>1, EditedType
<1>7. CASE c.req.chain = "DESTROY"
  <2>1. e = NoEntity
    BY <1>7
  <2> QED
    BY <1>1, <1>7, <2>1
<1>8. CASE c.req.chain \notin {"CREATE", "DESTROY"}
  <2>1. e = Edited(c.req, ents[x])
    BY <1>8
  <2> QED
    BY <1>1, <1>2, <1>3, <1>8, <2>1, EditedType
<1> QED
  BY <1>6, <1>7, <1>8

(* What a call of the group tree makes of its group. *)
LEMMA GroupApplied ==
  ASSUME DirectoryOK, NEW c \in GroupTreeCall, CallVerdict(c, ents, groups) = "ok",
         ApplyGroup(c.req)
  PROVE  \E g \in Group \cup {NoGroup} :
           /\ groups' = [groups EXCEPT ![c.req.dg.name] = g] /\ ents' = ents
           /\ c.req.chain = "DESTROY" => g = NoGroup
           /\ c.req.chain \notin {"CREATE", "DESTROY"} => g = EditedGroup(c.req, groups[c.req.dg.name])
<1> DEFINE n == c.req.dg.name
           used == {groups[m].number : m \in {o \in Groups : groups[o] # NoGroup}}
           g == CASE c.req.chain = "CREATE"  ->
                       CreatedGroup(c.req.dg, NumberFor(c.req.dg.number, used))
                  [] c.req.chain = "DESTROY" -> NoGroup
                  [] OTHER -> EditedGroup(c.req, groups[n])
<1>1. groups' = [groups EXCEPT ![n] = g] /\ ents' = ents
  BY DEF ApplyGroup
<1>2. c.req \in GroupRequest /\ c.req.dg.number \in Numbers
  BY DEF GroupTreeCall, GroupRequest, DataGroup
<1>3. c.req.chain # "CREATE" => groups[n] \in Group
  BY GroupAccepted DEF DirectoryOK
<1>4. used \in SUBSET Numbers
  BY UsedNumbers
<1> HIDE DEF used
<1>5. NumberFor(c.req.dg.number, used) \in Numbers
  BY <1>2, <1>4, NumberForType
<1>6. CASE c.req.chain = "CREATE"
  <2>1. g = CreatedGroup(c.req.dg, NumberFor(c.req.dg.number, used))
    BY <1>6
  <2> QED
    BY <1>1, <1>2, <1>5, <1>6, <2>1, EditedGroupType
<1>7. CASE c.req.chain = "DESTROY"
  <2>1. g = NoGroup
    BY <1>7
  <2> QED
    BY <1>1, <1>7, <2>1
<1>8. CASE c.req.chain \notin {"CREATE", "DESTROY"}
  <2>1. g = EditedGroup(c.req, groups[n])
    BY <1>8
  <2> QED
    BY <1>1, <1>2, <1>3, <1>8, <2>1, EditedGroupType
<1> QED
  BY <1>6, <1>7, <1>8

(* A write is a call of one of the trees; storage stays well typed. *)
LEMMA WriteKeepsStorage ==
  ASSUME SInv, NEW w \in Workers, job[w].pc = "call", job[w].left # <<>>, Writes(w),
         UNCHANGED <<view, issued, Rest>>
  PROVE  /\ Head(job[w].left) \in EntityTreeCall \cup GroupTreeCall
         /\ DirectoryOK'
<1> DEFINE c == Head(job[w].left)
<1>1. c \in TreeCall
  BY NextCall
<1>2. CallVerdict(c, ents, groups) = "ok" /\ ~Reads(c)
  BY DEF Writes
<1>3. c \in EntityTreeCall \cup GroupTreeCall
  <2>1. Reads(SearchCall)
    BY DEF SearchCall, Reads
  <2>2. NoCall.on = "nothing"
    BY DEF NoCall
  <2>3. CallVerdict(NoCall, ents, groups) = "malformed"
    BY <2>2 DEF CallVerdict
  <2> QED
    BY <1>1, <1>2, <2>1, <2>3 DEF TreeCall
<1>4. c \in EntityTreeCall => ApplyEntity(c.req)
  BY CallTypes DEF Writes
<1>5. c \in GroupTreeCall => ApplyGroup(c.req)
  BY CallTypes DEF Writes
<1> HIDE DEF c
<1>6. DirectoryOK
  BY DEF SInv
<1>7. /\ ents' \in [Entities -> Entity \cup {NoEntity}]
      /\ groups' \in [Groups -> Group \cup {NoGroup}]
  <2>1. CASE c \in EntityTreeCall
    <3>1. \E e \in Entity \cup {NoEntity} :
            ents' = [ents EXCEPT ![c.req.de.id] = e] /\ groups' = groups
      BY <1>2, <1>4, <1>6, <2>1, EntityApplied
    <3> QED
      BY <1>6, <3>1 DEF DirectoryOK
  <2>2. CASE c \in GroupTreeCall
    <3>1. \E g \in Group \cup {NoGroup} :
            groups' = [groups EXCEPT ![c.req.dg.name] = g] /\ ents' = ents
      BY <1>2, <1>5, <1>6, <2>2, GroupApplied
    <3> QED
      BY <1>6, <3>1 DEF DirectoryOK
  <2> QED
    BY <1>3, <2>1, <2>2
<1>8. DirectoryOK'
  BY <1>6, <1>7 DEF DirectoryOK, Rest
<1> QED
  BY <1>3, <1>8 DEF c

(* Answers are replies. *)
LEMMA AnswerTypes ==
  ASSUME NEW c \in TreeCall, NEW v
  PROVE  AnswerTo(v, c.answers) \in Replies \ {"none"}
<1>1. c.answers \in Answers
  BY DEF TreeCall, EntityTreeCall, GroupTreeCall, NoCall, SearchCall, Answers
<1> QED
  BY <1>1 DEF Answers, AnswerTo, Replies, IfDuplicate, IfUnknown, IfNoKey, IfKeyExists,
              IfRefused, IfMalformed, Anyhow

LEMMA CallKeeps ==
  ASSUME SInv, NEW w \in Workers, Call(w)
  PROVE  SInv'
<1> DEFINE c == Head(job[w].left)
<1>1. /\ job[w].pc = "call" /\ job[w].left # <<>> /\ UNCHANGED <<view, issued, Rest>>
      /\ job[w] \in Job /\ WellPlaced(job[w])
  BY CallOutcomes DEF SInv
<1>2. UNCHANGED Storage => DirectoryOK'
  BY <1>1 DEF SInv, DirectoryOK, Storage, Rest
<1>3. /\ c \in TreeCall /\ Tail(job[w].left) \in Seq(TreeCall)
      /\ \A i \in DOMAIN Tail(job[w].left) :
           \E k \in DOMAIN job[w].handler.calls :
             Tail(job[w].left)[i] = job[w].handler.calls[k]
      /\ c = job[w].left[1]
  BY <1>1, NextCall
<1>4. CASE Refuses(w)
  BY <1>1, <1>2, <1>4, ReplyEnds DEF Refuses, Job
<1>5. CASE Fails(w)
  <2>1. Replied(w, AnswerTo(CallVerdict(c, ents, groups), c.answers)) /\ UNCHANGED Storage
    BY <1>5 DEF Fails
  <2> QED
    BY <1>1, <1>2, <1>3, <2>1, AnswerTypes, ReplyEnds
<1>6. CASE LooksUp(w)
  <2> DEFINE j == [job[w] EXCEPT !.left = Tail(job[w].left)]
  <2>1. Goes(w, j) /\ DirectoryOK'
    BY <1>2, <1>6 DEF LooksUp
  <2>2. /\ j \in Job /\ j.pc = "call" /\ j.left = Tail(job[w].left)
        /\ j.handler = job[w].handler /\ j.server = job[w].server /\ j.reply = job[w].reply
    BY <1>1, <1>3 DEF Job
  <2> HIDE DEF j
  <2>3. WellPlaced(j)
    BY <1>1, <1>3, <2>2 DEF WellPlaced
  <2> QED
    BY <2>1, <2>2, <2>3, JobMoves
<1>7. CASE Writes(w)
  <2> DEFINE j == [job[w] EXCEPT !.pc = "notify"]
  <2>1. Goes(w, j)
    BY <1>7 DEF Writes
  <2>2. /\ j \in Job /\ j.pc = "notify" /\ j.left = job[w].left
        /\ j.handler = job[w].handler /\ j.server = job[w].server /\ j.reply = job[w].reply
    BY <1>1 DEF Job, States
  <2>3. c \in EntityTreeCall \cup GroupTreeCall /\ DirectoryOK'
    BY <1>1, <1>7, WriteKeepsStorage
  <2> HIDE DEF j, c
  <2>4. WellPlaced(j)
    BY <1>1, <1>3, <2>2, <2>3 DEF WellPlaced
  <2> QED
    BY <2>1, <2>2, <2>3, <2>4, JobMoves
<1> QED
  BY <1>4, <1>5, <1>6, <1>7, CallOutcomes

(* A copy that follows a write is a copy. *)
LEMMA SyncedTypes ==
  ASSUME DirectoryOK, NEW c \in EntityTreeCall \cup GroupTreeCall,
         NEW v \in [dm : [Entities -> (SUBSET Groups) \cup {NoEntity}], rules : RuleMap]
  PROVE  Synced(v, c) \in [dm : [Entities -> (SUBSET Groups) \cup {NoEntity}], rules : RuleMap]
<1>1. CASE c \in EntityTreeCall
  <2>1. c.on = "entity"
    BY <1>1, CallTypes
  <2>2. ents[c.req.de.id] # NoEntity => DirectGroups(ents[c.req.de.id]) \in SUBSET Groups
    <3>1. c.req.de.id \in Entities
      BY <1>1 DEF EntityTreeCall, Request, DataEntity
    <3> QED
      BY <3>1 DEF DirectoryOK, DirectGroups, Entity, Meta
  <2>3. \E d \in (SUBSET Groups) \cup {NoEntity} :
          Synced(v, c) = [v EXCEPT !.dm[c.req.de.id] = d]
          \/ Synced(v, c) = [v EXCEPT !.dm[c.req.de.id] = @]
    BY <2>1, <2>2 DEF Synced
  <2> QED
    BY <2>3
<1>2. CASE c \in GroupTreeCall
  <2>1. c.on # "entity"
    BY <1>2, CallTypes
  <2>2. c.req.dg.name \in Groups
    BY <1>2 DEF GroupTreeCall, GroupRequest, DataGroup
  <2>3. groups[c.req.dg.name] # NoGroup => groups[c.req.dg.name] \in Group
    BY <2>2 DEF DirectoryOK
  <2>4. v.rules \in RuleMap /\ v.rules[c.req.dg.name] \in Rules \cup {NoGroup}
    BY <2>2 DEF RuleMap
  <2>5. \E d \in Rules \cup {NoGroup} : Synced(v, c) = [v EXCEPT !.rules[c.req.dg.name] = d]
    BY <2>1, <2>3, <2>4 DEF Synced, Group
  <2> QED
    BY <2>5 DEF RuleMap
<1> QED
  BY <1>1, <1>2

LEMMA NotifyKeeps ==
  ASSUME SInv, NEW w \in Workers, Notify(w)
  PROVE  SInv'
<1> DEFINE j == [job[w] EXCEPT !.pc = "call", !.left = Tail(job[w].left)]
<1>1. /\ job[w].pc = "notify" /\ job[w] \in Job /\ WellPlaced(job[w]) /\ DirectoryOK
  BY DEF Notify, SInv
<1>2. job[w].left # <<>> /\ job[w].left[1] \in EntityTreeCall \cup GroupTreeCall
  BY <1>1 DEF WellPlaced
<1>3. /\ Head(job[w].left) = job[w].left[1] /\ Tail(job[w].left) \in Seq(TreeCall)
      /\ \A i \in DOMAIN Tail(job[w].left) :
           \E k \in DOMAIN job[w].handler.calls :
             Tail(job[w].left)[i] = job[w].handler.calls[k]
  BY <1>1, <1>2, NextCall
<1>4. Goes(w, j)
  BY DEF Notify
<1>5. DirectoryOK'
  <2>1. job[w].server \in Servers
    BY <1>1, Running
  <2>2. view' = [view EXCEPT ![job[w].server] = Synced(view[job[w].server], Head(job[w].left))]
    BY DEF Notify
  <2>3. Synced(view[job[w].server], Head(job[w].left)) \in
          [dm : [Entities -> (SUBSET Groups) \cup {NoEntity}], rules : RuleMap]
    BY <1>1, <1>2, <1>3, <2>1, SyncedTypes DEF DirectoryOK
  <2> QED
    BY <1>1, <2>1, <2>2, <2>3 DEF DirectoryOK, Notify, Storage, Rest
<1>6. /\ j \in Job /\ j.pc = "call" /\ j.left = Tail(job[w].left)
      /\ j.handler = job[w].handler /\ j.server = job[w].server /\ j.reply = job[w].reply
  BY <1>1, <1>3 DEF Job, States
<1> HIDE DEF j
<1>7. WellPlaced(j)
  BY <1>1, <1>3, <1>6 DEF WellPlaced
<1> QED
  BY <1>4, <1>5, <1>6, <1>7, JobMoves

(* A step after the last call leaves storage, the copies and the clock. *)
LEMMA JobGoesOn ==
  ASSUME SInv, NEW w \in Workers, job[w].pc # "idle", NEW j \in Job, Goes(w, j),
         UNCHANGED <<Storage, view, issued, Rest>>,
         j.server = job[w].server, j.handler = job[w].handler, j.reply = job[w].reply,
         job[w].pc # "done",
         \/ j.pc = "members"
         \/ j.pc \in {"entity", "groups", "groupcaps"} /\ j.handler.then = "sign"
  PROVE  SInv'
<1>1. WellPlaced(job[w]) /\ DirectoryOK'
  BY DEF SInv, DirectoryOK, Storage, Rest
<1>2. WellPlaced(j)
  BY <1>1 DEF WellPlaced
<1> QED
  BY <1>1, <1>2, JobMoves

LEMMA ReplyKeeps ==
  ASSUME SInv, NEW w \in Workers, job[w].pc # "idle", NEW r \in Replies \ {"none"}, Replied(w, r),
         UNCHANGED <<Storage, view, issued, Rest>>
  PROVE  SInv'
<1>1. DirectoryOK'
  BY DEF SInv, DirectoryOK, Storage, Rest
<1> QED
  BY <1>1, ReplyEnds

LEMMA FinishKeeps ==
  ASSUME SInv, NEW w \in Workers, Finish(w)
  PROVE  SInv'
<1>1. job[w].pc = "call" /\ UNCHANGED <<Storage, view, issued, Rest>>
  BY DEF Finish
<1>2. job[w] \in Job /\ job[w].handler \in HandlerType
  BY <1>1, Running
<1>3. "ok" \in Replies \ {"none"}
  BY DEF Replies
<1>4. CASE job[w].handler.then = "reply"
  <2>1. Replied(w, "ok")
    BY <1>4 DEF Finish
  <2> QED
    BY <1>1, <1>3, <2>1, ReplyKeeps
<1>5. CASE job[w].handler.then = "members"
  <2> DEFINE j == [job[w] EXCEPT !.pc = "members",
                     !.listed = MembersOfGroup(job[w].server, job[w].handler.subject)]
  <2>1. Goes(w, j)
    BY <1>5 DEF Finish
  <2>2. MembersOfGroup(job[w].server, job[w].handler.subject) \subseteq Entities
    BY DEF MembersOfGroup
  <2>3. /\ j \in Job /\ j.pc = "members"
        /\ j.server = job[w].server /\ j.handler = job[w].handler /\ j.reply = job[w].reply
    BY <1>2, <2>2 DEF Job, States
  <2> HIDE DEF j
  <2> QED
    BY <1>1, <2>1, <2>3, JobGoesOn
<1>6. CASE job[w].handler.then = "sign"
  <2> DEFINE j == [job[w] EXCEPT !.pc = "entity"]
  <2>1. Goes(w, j)
    BY <1>6 DEF Finish
  <2>2. /\ j \in Job /\ j.pc = "entity"
        /\ j.server = job[w].server /\ j.handler = job[w].handler /\ j.reply = job[w].reply
    BY <1>2 DEF Job, States
  <2> HIDE DEF j
  <2> QED
    BY <1>1, <1>6, <2>1, <2>2, JobGoesOn
<1> QED
  BY <1>2, <1>4, <1>5, <1>6 DEF HandlerType

LEMMA LoadMemberKeeps ==
  ASSUME SInv, NEW w \in Workers, NEW x \in Entities, LoadMember(w, x)
  PROVE  SInv'
<1>1. job[w].pc = "members" /\ job[w] \in Job /\ UNCHANGED <<Storage, view, issued, Rest>>
  BY DEF LoadMember, SInv
<1>2. CASE ents[x] = NoEntity
  <2>1. Replied(w, "internal") /\ "internal" \in Replies \ {"none"}
    BY <1>2 DEF LoadMember, Replies
  <2> QED
    BY <1>1, <2>1, ReplyKeeps
<1>3. CASE ents[x] # NoEntity
  <2> DEFINE j == [job[w] EXCEPT !.listed = job[w].listed \ {x}]
  <2>1. Goes(w, j)
    BY <1>3 DEF LoadMember
  <2>2. /\ j \in Job /\ j.pc = "members"
        /\ j.server = job[w].server /\ j.handler = job[w].handler /\ j.reply = job[w].reply
    BY <1>1 DEF Job
  <2> HIDE DEF j
  <2> QED
    BY <1>1, <2>1, <2>2, JobGoesOn
<1> QED
  BY <1>2, <1>3

LEMMA MembersListedKeeps ==
  ASSUME SInv, NEW w \in Workers, MembersListed(w)
  PROVE  SInv'
<1>1. "ok" \in Replies \ {"none"}
  BY DEF Replies
<1> QED
  BY <1>1, ReplyKeeps DEF MembersListed

LEMMA ClaimKeeps ==
  ASSUME SInv, NEW w \in Workers,
         FetchClaimant(w) \/ ListGroups(w) \/ \E n \in Groups : AddGroupCaps(w, n)
  PROVE  SInv'
<1>1. /\ job[w].pc \in {"entity", "groups", "groupcaps"} /\ job[w] \in Job
      /\ UNCHANGED <<Storage, view, issued, Rest>>
  BY DEF FetchClaimant, ListGroups, AddGroupCaps, SInv
<1>2. job[w].handler.then = "sign" /\ job[w].handler.subject \in Entities
      /\ job[w].server \in Servers
  BY <1>1, Running DEF SInv, WellPlaced, WellMade
<1>3. ASSUME NEW j \in Job, Goes(w, j), j.server = job[w].server, j.handler = job[w].handler,
             j.reply = job[w].reply, j.pc \in {"groups", "groupcaps"}
      PROVE  SInv'
  BY <1>1, <1>2, <1>3, JobGoesOn
<1>4. CASE FetchClaimant(w)
  <2> DEFINE ent == ents[job[w].handler.subject]
  <2>1. CASE ent = NoEntity
    <3> DEFINE j == [job[w] EXCEPT !.pc = "groupcaps"]
    <3>1. Goes(w, j)
      BY <1>4, <2>1 DEF FetchClaimant
    <3>2. /\ j \in Job /\ j.pc = "groupcaps"
          /\ j.server = job[w].server /\ j.handler = job[w].handler /\ j.reply = job[w].reply
      BY <1>1 DEF Job, States
    <3> HIDE DEF j
    <3> QED
      BY <3>1, <3>2, <1>3
  <2>2. CASE ent # NoEntity
    <3> DEFINE j == [job[w] EXCEPT !.pc = "groups", !.caps = RequestMeta(ent).caps]
    <3>1. Goes(w, j)
      BY <1>4, <2>2 DEF FetchClaimant
    <3>2. ent \in Entity
      BY <1>2, <2>2 DEF SInv, DirectoryOK
    <3>3. RequestMeta(ent) \in Meta
      BY <3>2, EmptyMetaType DEF RequestMeta, Entity
    <3>4. RequestMeta(ent).caps \subseteq Capabilities
      BY <3>3 DEF Meta
    <3> HIDE DEF ent
    <3>5. /\ j \in Job /\ j.pc = "groups"
          /\ j.server = job[w].server /\ j.handler = job[w].handler /\ j.reply = job[w].reply
      BY <1>1, <3>4 DEF Job, States
    <3> HIDE DEF j
    <3> QED
      BY <3>1, <3>5, <1>3
  <2> QED
    BY <2>1, <2>2
<1>5. CASE ListGroups(w)
  <2> DEFINE listed == GroupsForEntity(job[w].server, job[w].handler.subject)
             j == [job[w] EXCEPT !.pc = "groupcaps", !.listed = listed]
  <2>1. Goes(w, j)
    BY <1>5 DEF ListGroups
  <2>2. listed \subseteq Groups
    BY DEF GroupsForEntity, Known
  <2> HIDE DEF listed
  <2>3. /\ j \in Job /\ j.pc = "groupcaps"
        /\ j.server = job[w].server /\ j.handler = job[w].handler /\ j.reply = job[w].reply
    BY <1>1, <2>2 DEF Job, States
  <2> HIDE DEF j
  <2> QED
    BY <2>1, <2>3, <1>3
<1>6. ASSUME NEW n \in Groups, AddGroupCaps(w, n)
      PROVE  SInv'
  <2> DEFINE caps == IF groups[n] = NoGroup THEN job[w].caps ELSE job[w].caps \cup groups[n].caps
             j == [job[w] EXCEPT !.listed = job[w].listed \ {n}, !.caps = caps]
  <2>1. Goes(w, j) /\ job[w].pc = "groupcaps"
    BY <1>6 DEF AddGroupCaps
  <2>2. caps \subseteq Capabilities
    <3>1. groups[n] # NoGroup => groups[n].caps \subseteq Capabilities
      BY DEF SInv, DirectoryOK, Group
    <3>2. job[w].caps \subseteq Capabilities
      BY <1>1 DEF Job
    <3> QED
      BY <3>1, <3>2
  <2> HIDE DEF caps
  <2>3. /\ j \in Job /\ j.pc = "groupcaps"
        /\ j.server = job[w].server /\ j.handler = job[w].handler /\ j.reply = job[w].reply
    BY <1>1, <2>1, <2>2 DEF Job
  <2> HIDE DEF j
  <2> QED
    BY <2>1, <2>3, <1>3
<1> QED
  BY <1>4, <1>5, <1>6

LEMMA SignKeeps ==
  ASSUME SInv, NEW w \in Workers, Sign(w)
  PROVE  SInv'
<1> DEFINE t == [entity |-> job[w].handler.subject, caps |-> job[w].caps, exp |-> now + Lifetime]
           j == [job[w] EXCEPT !.pc = "done", !.reply = "ok", !.token = t]
<1>1. /\ job[w].pc = "groupcaps" /\ job[w] \in Job /\ WellPlaced(job[w]) /\ DirectoryOK
      /\ issued' = issued \cup {t} /\ Goes(w, j) /\ UNCHANGED <<Storage, view, Rest>>
  BY DEF Sign, SInv
<1>2. job[w].handler.subject \in Entities
  BY <1>1, Running DEF WellPlaced, WellMade
<1>3. t \in Token
  BY <1>1, <1>2, ServiceAssumption DEF Token, DirectoryOK, Job
<1> HIDE DEF t
<1>4. DirectoryOK'
  BY <1>1, <1>3 DEF DirectoryOK, Storage, Rest
<1>5. /\ j \in Job /\ j.pc = "done" /\ j.reply = "ok"
      /\ j.handler = job[w].handler /\ j.server = job[w].server
  <2>1. "done" \in States /\ "ok" \in Replies
    BY DEF States, Replies
  <2> HIDE DEF States, Replies
  <2> QED
    BY <1>1, <1>3, <2>1 DEF Job
<1> HIDE DEF j
<1>6. WellPlaced(j)
  BY <1>1, <1>5 DEF WellPlaced
<1> QED
  BY <1>1, <1>4, <1>5, <1>6, JobMoves

LEMMA ReturnKeeps ==
  ASSUME SInv, NEW w \in Workers, Return(w)
  PROVE  SInv'
<1>1. DirectoryOK' /\ Goes(w, IdleJob)
  BY DEF SInv, DirectoryOK, Return, Storage, Rest
<1> QED
  BY <1>1, IdleTypes, JobMoves

LEMMA CrashKeeps ==
  ASSUME SInv, NEW s \in Servers, Crash(s)
  PROVE  SInv'
<1>1. DirectoryOK /\ crashes < MaxCrashes /\ crashes' = crashes + 1
      /\ view' = [view EXCEPT ![s] = Fresh(ents, groups)] /\ UNCHANGED <<Storage, issued, now, served>>
  BY DEF SInv, Crash
<1>2. Fresh(ents, groups) \in [dm : [Entities -> (SUBSET Groups) \cup {NoEntity}], rules : RuleMap]
  BY <1>1, FreshTypes DEF DirectoryOK
<1>3. DirectoryOK'
  BY <1>1, <1>2, ServiceAssumption DEF DirectoryOK, Storage
<1>4. \A w \in Workers : job'[w] = IdleJob \/ job'[w] = job[w]
  BY DEF Crash
<1>5. job' \in [Workers -> Job] /\ \A w \in Workers : WellPlaced(job'[w])
  BY <1>4, IdleTypes DEF SInv, Crash
<1> QED
  BY <1>3, <1>5 DEF SInv, WellPlaced

(* Every step keeps the types and places. *)
LEMMA StepTypes ==
  ASSUME MethodsOffered, SInv, [Next]_vars
  PROVE  SInv'
<1>1. ASSUME NEW w \in Workers, WorkerStep(w) PROVE SInv'
  BY <1>1, CheckTypes, CallKeeps, NotifyKeeps, FinishKeeps, LoadMemberKeeps, MembersListedKeeps,
     ClaimKeeps, SignKeeps, ReturnKeeps DEF WorkerStep, Progress
<1>2. ASSUME NEW w \in Workers, NEW s \in Servers, NEW h \in Offers[w],
             NEW t \in issued \cup {NoToken}, Arrive(w, s, h, t)
      PROVE  SInv'
  BY <1>2, ArriveTypes
<1>3. CASE Tick
  <2>1. DirectoryOK'
    BY <1>3, ServiceAssumption DEF SInv, DirectoryOK, Tick, Storage
  <2> QED
    BY <1>3, <2>1 DEF SInv, Tick, WellPlaced
<1>4. ASSUME NEW s \in Servers, Crash(s) PROVE SInv'
  BY <1>4, CrashKeeps
<1>5. CASE UNCHANGED vars
  BY <1>5 DEF SInv, DirectoryOK, WellPlaced, vars
<1> QED
  BY <1>1, <1>2, <1>3, <1>4, <1>5 DEF Next, Step

(* Whatever the clients call, with whatever arguments, storage, copies,    *)
(* tokens and the requests under way stay well formed.                     *)
THEOREM ServiceTypeCorrect ==
  ASSUME MethodsOffered
  PROVE  Spec => []TypeOK
<1>1. Init => SInv
  BY FirstTypes
<1>2. SInv /\ [Next]_vars => SInv'
  BY StepTypes
<1>3. SInv => TypeOK
  BY TypesFollow
<1> QED
  BY <1>1, <1>2, <1>3, PTL DEF Spec

-----------------------------------------------------------------------------
(* Authority.                                                              *)

(* Worker w knows the secret that its request names. *)
KnowsSecret(w) ==
  \E d \in past[w] :
    /\ d.ents[job[w].handler.subject] # NoEntity
    /\ Verifies(job[w].handler.calls[1].req.de.secret, d.ents[job[w].handler.subject])

(* The prerequisites are met: the token was good when it was looked at.    *)
PrerequisitesMet(j) ==
  /\ j.server \notin ReadOnly
  /\ j.token \in issued /\ j.checked < j.token.exp
  /\ Qualified(j.handler, j.token)

(* What stands between a request and its calls: a worker whose             *)
(* prerequisites are not met has no claims to be let in by, and one that   *)
(* goes by its own name has proved its secret before its second call.      *)
Trusted(w) ==
  job[w].pc \in {"call", "notify"} =>
    /\ job[w].pre # "ok" => job[w].claims = NoClaims
    /\ job[w].pre = "ok" /\ job[w].handler.access \in Guards => PrerequisitesMet(job[w])
    /\ /\ job[w].handler.access = "secret" /\ job[w].token.entity = job[w].handler.subject
       /\ job[w].pc = "notify" \/ job[w].left # job[w].handler.calls
       => KnowsSecret(w)

AInv == SInv /\ \A w \in Workers : Trusted(w) /\ Dutiful(job[w].handler)

(* The past of a request grows. *)
LEMMA PastGrows ==
  ASSUME Remember, NEW w \in Workers, job[w].pc # "idle", job'[w].pc # "idle"
  PROVE  past[w] \subseteq past'[w] /\ Snapshot' \in past'[w]
BY DEF Remember

(* Trust outlasts the steps of others. *)
LEMMA TrustStays ==
  ASSUME Remember, issued \subseteq issued', NEW w \in Workers, Trusted(w), job'[w] = job[w]
  PROVE  Trusted(w)'
<1> SUFFICES ASSUME job[w].pc \in {"call", "notify"} PROVE Trusted(w)'
  BY DEF Trusted
<1>1. past[w] \subseteq past'[w]
  BY PastGrows
<1>2. KnowsSecret(w) => KnowsSecret(w)'
  BY <1>1 DEF KnowsSecret
<1>3. PrerequisitesMet(job[w]) => PrerequisitesMet(job[w])'
  BY DEF PrerequisitesMet, Qualified, HasCapability
<1> QED
  BY <1>2, <1>3 DEF Trusted

(* Nobody is a manager without claims. *)
LEMMA NoClaimNoManager ==
  ASSUME NEW s, NEW n
  PROVE  ~ManageByMembership(s, NoClaims.entity, n)
BY ZeroValuesAssumption DEF ManageByMembership, NoClaims, NoToken

LEMMA CheckTrusts ==
  ASSUME SInv, NEW w \in Workers, Check(w), Remember
  PROVE  Trusted(w)'
<1> DEFINE h == job[w].handler
           v == Prerequisite(job[w].server, h, job[w].token)
           own == h.access = "secret" /\ job[w].token.entity = h.subject
           j == [job[w] EXCEPT
                  !.pc = "call", !.pre = v, !.checked = now,
                  !.claims = IF h.access \in {"or-self", "secret"} THEN job[w].token ELSE NoClaims,
                  !.left = IF h.access = "secret" /\ ~own THEN Tail(h.calls) ELSE h.calls]
<1>1. job[w].pc = "check" /\ job[w] \in Job /\ UNCHANGED issued
  BY DEF Check, SInv
<1>2. CASE v # "ok" /\ h.access # "manager"
  <2>1. Replied(w, v)
    BY <1>2, Zenon DEF Check
  <2>2. job'[w].pc = "done"
    BY <1>1, <2>1 DEF Replied, Goes, Job, SInv
  <2> QED
    BY <2>2 DEF Trusted
<1>3. CASE v = "ok" \/ h.access = "manager"
  <2>1. Goes(w, j)
    BY <1>3, Zenon DEF Check
  <2>2. job'[w] = j
    BY <2>1 DEF Goes, SInv
  <2>3. /\ j.pc = "call" /\ j.pre = v /\ j.checked = now /\ j.handler = h
        /\ j.server = job[w].server /\ j.token = job[w].token
        /\ h.access = "manager" => j.claims = NoClaims
        /\ h.access = "secret" /\ job[w].token.entity = h.subject => j.left = h.calls
    BY <1>1 DEF Job
  <2> HIDE DEF j
  <2>4. ASSUME v = "ok", h.access \in Guards
        PROVE  PrerequisitesMet(j)
    <3>1. job[w].server \notin ReadOnly /\ CheckToken(h, job[w].token) = "ok"
      BY <2>4 DEF Prerequisite, Guards
    <3>2. Valid(job[w].token) /\ Qualified(h, job[w].token)
      BY <3>1 DEF CheckToken
    <3> QED
      BY <2>3, <3>1, <3>2 DEF PrerequisitesMet, Valid
  <2>5. PrerequisitesMet(j) => PrerequisitesMet(job[w])'
    BY <1>1, <2>2 DEF PrerequisitesMet, Qualified, HasCapability
  <2> QED
    BY <1>3, <2>2, <2>3, <2>4, <2>5 DEF Trusted
<1> QED
  BY <1>2, <1>3

LEMMA CallTrusts ==
  ASSUME AInv, NEW w \in Workers, Call(w), Remember
  PROVE  Trusted(w)'
<1> DEFINE c == Head(job[w].left)
           h == job[w].handler
<1>1. /\ job[w].pc = "call" /\ job[w].left # <<>> /\ UNCHANGED issued
      /\ SInv /\ job[w] \in Job /\ Trusted(w)
  BY CallOutcomes DEF SInv, AInv
<1>2. ASSUME NEW r, Replied(w, r) PROVE Trusted(w)'
  <2>1. job'[w].pc = "done"
    BY <1>1, <1>2 DEF Replied, Goes, Job, SInv
  <2> QED
    BY <2>1 DEF Trusted
<1>3. /\ c \in TreeCall /\ c = job[w].left[1]
      /\ \E k \in DOMAIN h.calls : c = h.calls[k]
  BY <1>1, NextCall
<1>4. WellMade(h)
  BY <1>1, Running
<1>5. ASSUME NEW j \in Job, Goes(w, j), j.pc \in {"call", "notify"},
             j.pre = job[w].pre, j.claims = job[w].claims, j.handler = h,
             j.server = job[w].server, j.token = job[w].token, j.checked = job[w].checked,
             h.access = "secret" /\ j.token.entity = h.subject
               /\ (j.pc = "notify" \/ j.left # h.calls) => KnowsSecret(w)'
      PROVE  Trusted(w)'
  <2>1. job'[w] = j
    BY <1>1, <1>5 DEF Goes, SInv
  <2>2. PrerequisitesMet(job[w]) => PrerequisitesMet(job[w])'
    BY <1>1, <1>5, <2>1 DEF PrerequisitesMet, Qualified, HasCapability
  <2> QED
    BY <1>1, <1>5, <2>1, <2>2 DEF Trusted
<1>6. ASSUME KnowsSecret(w), job'[w].pc # "idle", job'[w].handler = h
      PROVE  KnowsSecret(w)'
  BY <1>1, <1>6, PastGrows DEF KnowsSecret
<1>7. CASE Refuses(w)
  BY <1>2, <1>7 DEF Refuses
<1>8. CASE Fails(w)
  BY <1>2, <1>8 DEF Fails
<1>9. ASSUME h.access = "secret", job[w].left = h.calls
      PROVE  /\ c \in EntityTreeCall /\ c = h.calls[1]
             /\ c.req.chain = "VALIDATE_IDENTITY" /\ c.req.de.id = h.subject
             /\ ~Reads(c)
  <2>1. c = h.calls[1] /\ AsksForSecret(h)
    BY <1>3, <1>4, <1>9 DEF WellMade
  <2> QED
    BY <1>9, <2>1, CallTypes DEF AsksForSecret, Reads
<1>10. CASE LooksUp(w)
  <2> DEFINE j == [job[w] EXCEPT !.left = Tail(job[w].left)]
  <2>1. Goes(w, j)
    BY <1>10 DEF LooksUp
  <2>2. /\ j.pc = "call" /\ j.pre = job[w].pre /\ j.claims = job[w].claims /\ j.handler = h
        /\ j.server = job[w].server /\ j.token = job[w].token /\ j.checked = job[w].checked
        /\ j \in Job
    BY <1>1, NextCall DEF Job
  <2> HIDE DEF j, c, h
  <2>3. job'[w] = j
    BY <1>1, <2>1 DEF Goes, SInv
  <2>4. ASSUME h.access = "secret", j.token.entity = h.subject PROVE KnowsSecret(w)'
    <3>1. job[w].left # h.calls
      BY <1>9, <1>10, <2>2, <2>4 DEF LooksUp, c, h
    <3>2. KnowsSecret(w)
      BY <1>1, <2>2, <2>4, <3>1 DEF Trusted, h
    <3> QED
      BY <1>6, <2>2, <2>3, <3>2
  <2> QED
    BY <1>5, <2>1, <2>2, <2>4
<1>11. CASE Writes(w)
  <2> DEFINE j == [job[w] EXCEPT !.pc = "notify"]
  <2>1. Goes(w, j)
    BY <1>11 DEF Writes
  <2>2. /\ j.pc = "notify" /\ j.pre = job[w].pre /\ j.claims = job[w].claims /\ j.handler = h
        /\ j.server = job[w].server /\ j.token = job[w].token /\ j.checked = job[w].checked
        /\ j \in Job
    BY <1>1 DEF Job, States
  <2> HIDE DEF j, c, h
  <2>3. job'[w] = j
    BY <1>1, <2>1 DEF Goes, SInv
  <2>4. ASSUME h.access = "secret", j.token.entity = h.subject PROVE KnowsSecret(w)'
    <3>1. CASE job[w].left # h.calls
      <4>1. KnowsSecret(w)
        BY <1>1, <2>2, <2>4, <3>1 DEF Trusted, h
      <4> QED
        BY <1>6, <2>2, <2>3, <4>1
    <3>2. CASE job[w].left = h.calls
      <4>1. /\ c \in EntityTreeCall /\ c = h.calls[1]
            /\ c.req.chain = "VALIDATE_IDENTITY" /\ c.req.de.id = h.subject
        BY <1>9, <2>4, <3>2
      <4>2. CallVerdict(c, ents, groups) = "ok" /\ ApplyEntity(c.req)
        BY <1>11, <4>1, CallTypes DEF Writes, c
      <4>3. ents \in [Entities -> Entity \cup {NoEntity}] /\ DirectoryOK
        BY <1>1 DEF SInv, DirectoryOK
      <4>4. /\ ents[c.req.de.id] \in Entity /\ c.req.de.id \in Entities
            /\ Verifies(c.req.de.secret, ents[c.req.de.id])
        BY <4>1, <4>2, <4>3, EntityAccepted
      <4>5. ents'[c.req.de.id] = Edited(c.req, ents[c.req.de.id])
        BY <4>1, <4>2, <4>3, <4>4, EntityApplied
      <4>6. ents'[h.subject] = ents[h.subject]
        BY <4>1, <4>5 DEF Edited
      <4>7. Snapshot' \in past'[w] /\ Snapshot'.ents = ents'
        BY <1>1, <2>2, <2>3, PastGrows DEF Snapshot
      <4>8. job'[w].handler = h /\ ents[h.subject] # NoEntity
        BY <2>2, <2>3, <4>1, <4>4, NoEntityAssumption
      <4>9. Snapshot'.ents[h.subject] # NoEntity /\ Verifies(h.calls[1].req.de.secret, Snapshot'.ents[h.subject])
        BY <4>1, <4>4, <4>6, <4>7, <4>8 DEF Verifies
      <4> QED
        BY <4>7, <4>8, <4>9 DEF KnowsSecret
    <3> QED
      BY <3>1, <3>2
  <2> QED
    BY <1>5, <2>1, <2>2, <2>4
<1> QED
  BY <1>7, <1>8, <1>10, <1>11, CallOutcomes

(* A job keeps its handler as long as it runs. *)
LEMMA HandlerKept ==
  ASSUME SInv, NEW w \in Workers, WorkerStep(w), NEW v \in Workers
  PROVE  job'[v].handler \in {job[v].handler, Rejected}
<1>1. job \in [Workers -> Job] /\ job[w] \in Job
  BY DEF SInv
<1>2. ASSUME NEW j, Goes(w, j), j.handler \in {job[w].handler, Rejected}
      PROVE  job'[v].handler \in {job[v].handler, Rejected}
  BY <1>1, <1>2 DEF Goes
<1>3. ASSUME NEW r, Replied(w, r)
      PROVE  job'[v].handler \in {job[v].handler, Rejected}
  BY <1>1, <1>2, <1>3 DEF Replied, Job
<1>4. CASE Check(w)
  <2>1. CASE \E r : Replied(w, r)
    BY <1>3, <2>1
  <2>2. ASSUME NEW u, NEW c, NEW l,
               Goes(w, [job[w] EXCEPT !.pc = "call", !.pre = u, !.checked = now,
                                      !.claims = c, !.left = l])
        PROVE  job'[v].handler \in {job[v].handler, Rejected}
    BY <1>1, <1>2, <2>2 DEF Job
  <2> QED
    BY <1>4, <2>1, <2>2 DEF Check
<1>5. CASE Call(w)
  <2>1. CASE \E r : Replied(w, r)
    BY <1>3, <2>1
  <2>2. CASE Goes(w, [job[w] EXCEPT !.left = Tail(job[w].left)])
    BY <1>1, <1>2, <2>2 DEF Job
  <2>3. CASE Goes(w, [job[w] EXCEPT !.pc = "notify"])
    BY <1>1, <1>2, <2>3 DEF Job
  <2> QED
    BY <1>5, <2>1, <2>2, <2>3, CallOutcomes DEF Refuses, Fails, LooksUp, Writes
<1>6. CASE Notify(w)
  BY <1>1, <1>2, <1>6 DEF Notify, Job
<1>7. CASE Finish(w)
  <2>1. job[w].handler.then \in {"reply", "members", "sign"}
    BY <1>1 DEF Job, HandlerType
  <2>2. CASE job[w].handler.then = "reply"
    BY <1>3, <1>7, <2>2 DEF Finish
  <2>3. CASE job[w].handler.then = "members"
    BY <1>1, <1>2, <1>7, <2>3 DEF Finish, Job
  <2>4. CASE job[w].handler.then = "sign"
    BY <1>1, <1>2, <1>7, <2>4 DEF Finish, Job
  <2> QED
    BY <2>1, <2>2, <2>3, <2>4
<1>8. ASSUME NEW x \in Entities, LoadMember(w, x)
      PROVE  job'[v].handler \in {job[v].handler, Rejected}
  <2>1. CASE ents[x] = NoEntity
    BY <1>3, <1>8, <2>1 DEF LoadMember
  <2>2. CASE ents[x] # NoEntity
    BY <1>1, <1>2, <1>8, <2>2 DEF LoadMember, Job
  <2> QED
    BY <2>1, <2>2
<1>9. CASE MembersListed(w)
  BY <1>3, <1>9 DEF MembersListed
<1>10. CASE FetchClaimant(w)
  <2>1. CASE ents[job[w].handler.subject] = NoEntity
    BY <1>1, <1>2, <1>10, <2>1 DEF FetchClaimant, Job
  <2>2. CASE ents[job[w].handler.subject] # NoEntity
    BY <1>1, <1>2, <1>10, <2>2 DEF FetchClaimant, Job
  <2> QED
    BY <2>1, <2>2
<1>11. CASE ListGroups(w)
  BY <1>1, <1>2, <1>11 DEF ListGroups, Job
<1>12. ASSUME NEW n \in Groups, AddGroupCaps(w, n)
       PROVE  job'[v].handler \in {job[v].handler, Rejected}
  BY <1>1, <1>2, <1>12 DEF AddGroupCaps, Job
<1>13. CASE Sign(w)
  BY <1>1, <1>2, <1>13 DEF Sign, Job
<1>14. CASE Return(w)
  BY <1>2, <1>14 DEF Return, IdleJob
<1> QED
  BY <1>4, <1>5, <1>6, <1>7, <1>8, <1>9, <1>10, <1>11, <1>12, <1>13, <1>14
     DEF WorkerStep, Progress

(* A request to be turned away has no calls. *)
LEMMA RejectedDuty == Dutiful(Rejected)
BY DEF Rejected, Handler, Dutiful

(* The methods that are offered change what they ask for, and every job    *)
(* runs one of them.                                                       *)
LEMMA StepDutiful ==
  ASSUME MethodsOffered, UpdatesKeepLocks, SInv, [Next]_vars,
         \A w \in Workers : Dutiful(job[w].handler)
  PROVE  \A w \in Workers : Dutiful(job'[w].handler)
<1> SUFFICES ASSUME NEW v \in Workers PROVE Dutiful(job'[v].handler)
  OBVIOUS
<1>1. ASSUME NEW w \in Workers, WorkerStep(w) PROVE Dutiful(job'[v].handler)
  <2>1. job'[v].handler \in {job[v].handler, Rejected}
    BY <1>1, HandlerKept
  <2> QED
    BY <2>1, RejectedDuty
<1>2. ASSUME NEW w \in Workers, NEW s \in Servers, NEW h \in Offers[w],
             NEW t \in issued \cup {NoToken}, Arrive(w, s, h, t)
      PROVE  Dutiful(job'[v].handler)
  <2>1. Dutiful(h)
    BY Methods DEF MethodsOffered, UpdatesKeepLocks
  <2>2. Incoming(s, h, t).handler = h
    BY DEF Incoming, IdleJob
  <2>3. job'[v] = IF v = w THEN Incoming(s, h, t) ELSE job[v]
    BY <1>2 DEF Arrive, Goes, SInv
  <2> QED
    BY <2>1, <2>2, <2>3
<1>3. CASE Tick \/ UNCHANGED vars
  BY <1>3 DEF Tick, vars
<1>4. ASSUME NEW s \in Servers, Crash(s) PROVE Dutiful(job'[v].handler)
  <2>1. job'[v] = job[v] \/ job'[v] = IdleJob
    BY <1>4 DEF Crash
  <2>2. IdleJob.handler = Rejected
    BY DEF IdleJob
  <2> QED
    BY <2>1, <2>2, RejectedDuty
<1> QED
  BY <1>1, <1>2, <1>3, <1>4 DEF Next, Step

(* Every step keeps the trust. *)
LEMMA StepTrusts ==
  ASSUME MethodsOffered, UpdatesKeepLocks, AInv, [Next]_vars
  PROVE  AInv'
<1>1. SInv' /\ SInv
  BY StepTypes DEF AInv
<1>2. ASSUME NEW v \in Workers, UNCHANGED vars PROVE Trusted(v)'
  <2>1. Trusted(v)
    BY DEF AInv
  <2> QED
    BY <1>2, <2>1 DEF Trusted, PrerequisitesMet, KnowsSecret, vars
<1>3. ASSUME NEW w \in Workers, WorkerStep(w), Remember PROVE \A v \in Workers : Trusted(v)'
  <2>1. issued \subseteq issued'
    BY <1>3 DEF WorkerStep, Progress, Check, Call, Notify, Finish, LoadMember, MembersListed,
                FetchClaimant, ListGroups, AddGroupCaps, Sign, Return
  <2>2. \E j : Goes(w, j)
    <3>1. ASSUME NEW r, Replied(w, r) PROVE \E j : Goes(w, j)
      BY <3>1 DEF Replied
    <3>2. CASE Check(w)
      BY <3>1, <3>2, Zenon DEF Check
    <3>3. CASE Call(w)
      BY <3>1, <3>3, CallOutcomes DEF Refuses, Fails, LooksUp, Writes
    <3>4. CASE Finish(w)
      <4>1. job[w].handler.then \in {"reply", "members", "sign"}
        BY <1>1 DEF SInv, Job, HandlerType
      <4> QED
        BY <3>1, <3>4, <4>1 DEF Finish
    <3>5. ASSUME NEW x \in Entities, LoadMember(w, x) PROVE \E j : Goes(w, j)
      BY <3>1, <3>5, Zenon DEF LoadMember
    <3>6. CASE Notify(w) \/ ListGroups(w) \/ (\E n \in Groups : AddGroupCaps(w, n)) \/ Return(w)
      BY <3>6, Zenon DEF Notify, ListGroups, AddGroupCaps, Return
    <3>7. CASE MembersListed(w) \/ FetchClaimant(w) \/ Sign(w)
      BY <3>1, <3>7, Zenon DEF MembersListed, FetchClaimant, Sign
    <3> QED
      BY <1>3, <3>2, <3>3, <3>4, <3>5, <3>6, <3>7 DEF WorkerStep, Progress
  <2>3. ASSUME NEW v \in Workers, v # w PROVE Trusted(v)'
    <3>1. job'[v] = job[v] /\ Trusted(v)
      BY <1>1, <2>2, <2>3 DEF Goes, SInv, AInv
    <3> QED
      BY <1>3, <2>1, <3>1, TrustStays
  <2>4. CASE Check(w)
    <3>1. Trusted(w)'
      BY <1>1, <1>3, <2>4, CheckTrusts
    <3> QED
      BY <2>3, <3>1
  <2>5. CASE Call(w)
    <3>1. Trusted(w)'
      BY <1>3, <2>5, CallTrusts
    <3> QED
      BY <2>3, <3>1
  <2>6. CASE Notify(w)
    <3> DEFINE j == [job[w] EXCEPT !.pc = "call", !.left = Tail(job[w].left)]
    <3>1. job[w].pc = "notify" /\ job[w] \in Job /\ Trusted(w) /\ UNCHANGED issued
      BY <2>6 DEF Notify, AInv, SInv
    <3>2. job'[w] = j
      BY <1>1, <2>6 DEF Notify, Goes, SInv
    <3>3. /\ j.pc = "call" /\ j.pre = job[w].pre /\ j.claims = job[w].claims
          /\ j.handler = job[w].handler /\ j.server = job[w].server /\ j.token = job[w].token
          /\ j.checked = job[w].checked
      BY <3>1 DEF Job
    <3> HIDE DEF j
    <3>4. past[w] \subseteq past'[w]
      BY <1>3, <3>1, <3>2, <3>3, PastGrows
    <3>5. KnowsSecret(w) => KnowsSecret(w)'
      BY <3>2, <3>3, <3>4 DEF KnowsSecret
    <3>6. PrerequisitesMet(job[w]) => PrerequisitesMet(job[w])'
      BY <3>1, <3>2, <3>3 DEF PrerequisitesMet, Qualified, HasCapability
    <3>7. Trusted(w)'
      BY <3>1, <3>2, <3>3, <3>5, <3>6 DEF Trusted
    <3> QED
      BY <2>3, <3>7
  <2>7. CASE ~(Check(w) \/ Call(w) \/ Notify(w))
    <3>1. job'[w].pc \in {"done", "members", "entity", "groups", "groupcaps", "idle"}
      <4>1. job[w] \in Job /\ job \in [Workers -> Job]
        BY <1>1 DEF SInv
      <4>2. ASSUME NEW j, Goes(w, j) PROVE job'[w] = j
        BY <4>1, <4>2 DEF Goes
      <4>3. ASSUME NEW r, Replied(w, r) PROVE job'[w].pc = "done"
        BY <4>1, <4>2, <4>3 DEF Replied, Job
      <4>4. CASE Finish(w)
        <5>1. job[w].handler.then \in {"reply", "members", "sign"}
          BY <4>1 DEF Job, HandlerType
        <5>2. CASE job[w].handler.then = "reply"
          BY <4>3, <4>4, <5>2 DEF Finish
        <5>3. CASE job[w].handler.then = "members"
          BY <4>1, <4>2, <4>4, <5>3 DEF Finish, Job
        <5>4. CASE job[w].handler.then = "sign"
          BY <4>1, <4>2, <4>4, <5>4 DEF Finish, Job
        <5> QED
          BY <5>1, <5>2, <5>3, <5>4
      <4>5. ASSUME NEW x \in Entities, LoadMember(w, x)
            PROVE  job'[w].pc \in {"done", "members"}
        <5>1. CASE ents[x] = NoEntity
          BY <4>3, <4>5, <5>1 DEF LoadMember
        <5>2. CASE ents[x] # NoEntity
          BY <4>1, <4>2, <4>5, <5>2 DEF LoadMember, Job
        <5> QED
          BY <5>1, <5>2
      <4>6. CASE MembersListed(w)
        BY <4>3, <4>6 DEF MembersListed
      <4>7. CASE FetchClaimant(w)
        <5>1. CASE ents[job[w].handler.subject] = NoEntity
          BY <4>1, <4>2, <4>7, <5>1 DEF FetchClaimant, Job
        <5>2. CASE ents[job[w].handler.subject] # NoEntity
          BY <4>1, <4>2, <4>7, <5>2 DEF FetchClaimant, Job
        <5> QED
          BY <5>1, <5>2
      <4>8. CASE ListGroups(w)
        BY <4>1, <4>2, <4>8 DEF ListGroups, Job
      <4>9. ASSUME NEW n \in Groups, AddGroupCaps(w, n)
            PROVE  job'[w].pc = "groupcaps"
        BY <4>1, <4>2, <4>9 DEF AddGroupCaps, Job
      <4>10. CASE Sign(w)
        BY <4>1, <4>2, <4>10 DEF Sign, Job
      <4>11. CASE Return(w)
        BY <4>2, <4>11, IdleTypes DEF Return
      <4> QED
        BY <1>3, <2>7, <4>4, <4>5, <4>6, <4>7, <4>8, <4>9, <4>10, <4>11 DEF WorkerStep, Progress
    <3>2. Trusted(w)'
      BY <3>1 DEF Trusted
    <3> QED
      BY <2>3, <3>2
  <2> QED
    BY <2>3, <2>4, <2>5, <2>6, <2>7
<1>4. ASSUME NEW w \in Workers, NEW s \in Servers, NEW h \in Offers[w],
             NEW t \in issued \cup {NoToken}, Arrive(w, s, h, t), Remember, NEW v \in Workers
      PROVE  Trusted(v)'
  <2>1. issued' = issued /\ Goes(w, Incoming(s, h, t)) /\ Trusted(v)
    BY <1>4 DEF Arrive, AInv
  <2>2. CASE v = w
    <3>1. job'[v].pc = "check"
      BY <1>1, <2>1, <2>2, IdleTypes DEF Goes, SInv, Incoming, IdleJob
    <3> QED
      BY <3>1 DEF Trusted
  <2>3. CASE v # w
    <3>1. job'[v] = job[v]
      BY <1>1, <2>1, <2>3 DEF Goes, SInv
    <3> QED
      BY <1>4, <2>1, <3>1, TrustStays
  <2> QED
    BY <2>2, <2>3
<1>5. ASSUME Tick, Remember, NEW v \in Workers PROVE Trusted(v)'
  <2>1. issued' = issued /\ job'[v] = job[v] /\ Trusted(v)
    BY <1>5 DEF Tick, AInv
  <2> QED
    BY <1>5, <2>1, TrustStays
<1>6. ASSUME NEW s \in Servers, Crash(s), Remember, NEW v \in Workers PROVE Trusted(v)'
  <2>1. issued' = issued /\ Trusted(v) /\ (job'[v] = job[v] \/ job'[v] = IdleJob)
    BY <1>6 DEF Crash, AInv
  <2>2. CASE job'[v] = job[v]
    BY <1>6, <2>1, <2>2, TrustStays
  <2>3. CASE job'[v] = IdleJob
    BY <2>3, IdleTypes DEF Trusted
  <2> QED
    BY <2>1, <2>2, <2>3
<1>7. \A v \in Workers : Trusted(v)'
  BY <1>2, <1>3, <1>4, <1>5, <1>6 DEF Next, Step
<1>8. \A v \in Workers : Dutiful(job'[v].handler)
  BY <1>1, StepDutiful DEF AInv
<1> QED
  BY <1>1, <1>7, <1>8 DEF AInv

(* A call changes no more than its token, or the entity's own name, gives  *)
(* the right to.                                                           *)
LEMMA WriteAuthorised ==
  ASSUME AInv, NEW w \in Workers, Call(w), ~UNCHANGED Storage
  PROVE  job'[w] # job[w] /\ Authorised(w)
<1> DEFINE c == Head(job[w].left)
           h == job[w].handler
           t == job[w].token
<1>1. /\ job[w].pc = "call" /\ job[w].left # <<>> /\ Writes(w) /\ job[w] \in Job
      /\ SInv /\ Trusted(w) /\ DirectoryOK
  BY CallOutcomes DEF Refuses, Fails, LooksUp, AInv, SInv
<1>2. job'[w] # job[w]
  <2>1. job'[w] = [job[w] EXCEPT !.pc = "notify"]
    BY <1>1 DEF Writes, Goes, SInv
  <2>2. job'[w].pc = "notify"
    BY <1>1, <2>1 DEF Job
  <2> QED
    BY <1>1, <2>2
<1>3. /\ c \in EntityTreeCall \cup GroupTreeCall /\ c = job[w].left[1]
      /\ \E k \in DOMAIN h.calls : c = h.calls[k]
  <2>1. UNCHANGED <<view, issued, Rest>>
    BY CallOutcomes
  <2> QED
    BY <1>1, <2>1, NextCall, WriteKeepsStorage
<1>4. WellMade(h) /\ Rightful(h, c)
  <2>1. WellMade(h) /\ Dutiful(h)
    BY <1>1, Running DEF AInv
  <2> QED
    BY <1>3, <2>1 DEF Dutiful
<1>5. job[w].pre = "ok"
  <2>1. LetIn(w)
    BY <1>1 DEF Writes
  <2>2. ASSUME job[w].pre # "ok" PROVE FALSE
    BY <1>1, <2>1, <2>2, NoClaimNoManager DEF Trusted, LetIn
  <2> QED
    BY <2>2
<1>6. h.access \in Guards =>
        /\ job[w].server \notin ReadOnly
        /\ t \in issued /\ job[w].checked < t.exp /\ Qualified(h, t)
  BY <1>1, <1>5 DEF Trusted, PrerequisitesMet
<1>7. CallVerdict(c, ents, groups) = "ok" /\ ~Reads(c)
  BY <1>1 DEF Writes
<1>8. c \in EntityTreeCall => ApplyEntity(c.req)
  BY <1>1, CallTypes DEF Writes
<1>9. c \in GroupTreeCall => ApplyGroup(c.req)
  BY <1>1, CallTypes DEF Writes
<1> HIDE DEF c, h, t
<1>10. /\ ents \in [Entities -> Entity \cup {NoEntity}]
       /\ groups \in [Groups -> Group \cup {NoGroup}]
  BY <1>1 DEF DirectoryOK
<1>11. CASE c \in EntityTreeCall
  <2> DEFINE x == c.req.de.id
  <2>1. PICK e \in Entity \cup {NoEntity} :
          /\ ents' = [ents EXCEPT ![x] = e] /\ groups' = groups
          /\ c.req.chain = "DESTROY" => e = NoEntity
          /\ c.req.chain \notin {"CREATE", "DESTROY"} => e = Edited(c.req, ents[x])
    BY <1>1, <1>7, <1>8, <1>11, EntityApplied
  <2>2. /\ c.req \in Request /\ x \in Entities
        /\ c.req.chain = "CREATE" => ents[x] = NoEntity
        /\ c.req.chain # "CREATE" => ents[x] \in Entity
    BY <1>7, <1>10, <1>11, EntityAccepted
  <2>3. c.req.chain \notin LookingChains
    <3>1. c.req.chain # "FETCH"
      BY <1>7, <1>11, CallTypes DEF Reads
    <3>2. ASSUME c.req.chain = "VALIDATE_IDENTITY" PROVE FALSE
      <4>1. Edited(c.req, ents[x]) = ents[x]
        BY <3>2 DEF Edited
      <4>2. ents' = ents
        BY <1>10, <2>1, <2>2, <3>2, <4>1
      <4> QED
        BY <2>1, <4>2 DEF Storage
    <3> QED
      BY <3>1, <3>2 DEF LookingChains
  <2>4. EntityRightful(h, c)
    BY <1>4, <1>11, <2>3 DEF Rightful
  <2>5. EntityDemands(ents[x], e) \subseteq {h.cap}
    <3>1. h.cap = EntityRight[c.req.chain]
      BY <2>4 DEF EntityRightful
    <3>2. CASE c.req.chain = "CREATE"
      <4>1. ents[x] = NoEntity /\ h.cap = "CREATE_ENTITY"
        BY <2>2, <3>1, <3>2 DEF EntityRight
      <4> QED
        BY <4>1 DEF EntityDemands
    <3>3. CASE c.req.chain = "DESTROY"
      <4>1. ents[x] # NoEntity /\ e = NoEntity /\ h.cap = "DESTROY_ENTITY"
        BY <2>1, <2>2, <3>1, <3>3, NoEntityAssumption DEF EntityRight
      <4> QED
        BY <4>1 DEF EntityDemands
    <3>4. CASE c.req.chain \notin {"CREATE", "DESTROY"}
      <4>1. e = Edited(c.req, ents[x]) /\ ents[x] \in Entity
        BY <2>1, <2>2, <3>4
      <4>2. c.req.chain = "MERGE_METADATA" => RequestMeta(c.req.de).locked = "unset"
        BY <2>4 DEF EntityRightful
      <4> QED
        BY <2>2, <2>3, <3>1, <3>4, <4>1, <4>2, EntityChainDemands
    <3> QED
      BY <3>2, <3>3, <3>4
  <2>6. ASSUME NEW y \in Entities, NEW cap \in EntityDemands(ents[y], ents'[y])
        PROVE  y = x /\ cap = h.cap
    <3>1. CASE y # x
      <4>1. ents'[y] = ents[y]
        BY <1>10, <2>1, <3>1
      <4>2. EntityDemands(ents[y], ents'[y]) = {}
        BY <4>1 DEF EntityDemands
      <4> QED
        BY <2>6, <4>2
    <3>2. CASE y = x
      <4>1. ents'[y] = e
        BY <1>10, <2>1, <2>2, <3>2
      <4> QED
        BY <2>5, <2>6, <3>2, <4>1
    <3> QED
      BY <3>1, <3>2
  <2>7. \A n \in Groups : GroupDemands(groups[n], groups'[n]) = {}
    BY <2>1 DEF GroupDemands
  <2>8. h.access \in Guards
    BY <2>4 DEF EntityRightful
  <2>9. Vouched(w, h.cap) \/ Own(w, x, h.cap)
    <3>1. CASE HasCapability(t, h.cap)
      BY <1>6, <2>8, <3>1 DEF Vouched, t
    <3>2. CASE h.access \in {"or-self", "secret"} /\ t.entity = h.subject
      <4>1. x = h.subject /\ t \in issued /\ job[w].checked < t.exp
        BY <1>6, <2>4, <2>8, <3>2 DEF EntityRightful
      <4>2. CASE h.access = "or-self"
        BY <2>4, <3>2, <4>1, <4>2 DEF Own, EntityRightful, t
      <4>3. CASE h.access = "secret"
        <5>1. h.cap = "CHANGE_ENTITY_SECRET"
          BY <2>4, <4>3 DEF EntityRightful
        <5>2. job[w].left # h.calls
          <6>1. c.req.chain # "VALIDATE_IDENTITY"
            BY <2>3 DEF LookingChains
          <6> QED
            BY <1>3, <1>4, <4>3, <6>1 DEF WellMade, AsksForSecret
        <5>3. KnowsSecret(w)
          BY <1>1, <3>2, <4>3, <5>2 DEF Trusted, h, t
        <5> QED
          BY <3>2, <4>1, <5>1, <5>3 DEF Own, KnowsSecret, h, t
      <4> QED
        BY <3>2, <4>2, <4>3
    <3> QED
      BY <1>6, <2>8, <3>1, <3>2 DEF Qualified
  <2> HIDE DEF x
  <2>10. \A y \in Entities : \A cap \in EntityDemands(ents[y], ents'[y]) :
           Vouched(w, cap) \/ Own(w, y, cap)
    BY <2>6, <2>9
  <2> QED
    BY <1>2, <1>6, <2>7, <2>8, <2>10 DEF Authorised
<1>12. CASE c \in GroupTreeCall
  <2> DEFINE n == c.req.dg.name
  <2>1. PICK g \in Group \cup {NoGroup} :
          /\ groups' = [groups EXCEPT ![n] = g] /\ ents' = ents
          /\ c.req.chain = "DESTROY" => g = NoGroup
          /\ c.req.chain \notin {"CREATE", "DESTROY"} => g = EditedGroup(c.req, groups[n])
    BY <1>1, <1>7, <1>9, <1>12, GroupApplied
  <2>2. /\ c.req \in GroupRequest /\ n \in Groups
        /\ c.req.chain = "CREATE" => groups[n] = NoGroup
        /\ c.req.chain # "CREATE" => groups[n] \in Group
    BY <1>7, <1>10, <1>12, GroupAccepted
  <2>3. c.req.chain # "FETCH"
    BY <1>7, <1>12, CallTypes DEF Reads
  <2>4. GroupRightful(h, c)
    BY <1>4, <1>12, <2>3 DEF Rightful
  <2>5. h.access \in Guards /\ h.access \notin {"or-self", "secret"}
    BY <2>4 DEF GroupRightful, Guards
  <2>6. HasCapability(t, h.cap)
    BY <1>6, <2>5 DEF Qualified
  <2>7. h.cap = GroupRight[c.req.chain]
    BY <2>4 DEF GroupRightful
  <2>8. \A cap \in GroupDemands(groups[n], g) : HasCapability(t, cap)
    <3>1. CASE c.req.chain = "CREATE"
      <4>1. groups[n] = NoGroup /\ h.cap = "CREATE_GROUP"
        BY <2>2, <2>7, <3>1 DEF GroupRight
      <4> QED
        BY <2>6, <4>1 DEF GroupDemands
    <3>2. CASE c.req.chain = "DESTROY"
      <4>1. groups[n] # NoGroup /\ g = NoGroup /\ h.cap = "DESTROY_GROUP"
        BY <2>1, <2>2, <2>7, <3>2, GroupZeroValuesAssumption DEF GroupRight
      <4> QED
        BY <2>6, <4>1 DEF GroupDemands
    <3>3. CASE c.req.chain \notin {"CREATE", "DESTROY"}
      <4>1. GroupDemands(groups[n], g) \subseteq {h.cap, "MODIFY_GROUP_META"}
        <5>1. g = EditedGroup(c.req, groups[n]) /\ groups[n] \in Group
          BY <2>1, <2>2, <3>3
        <5>2. c.req.chain = "MERGE_METADATA" => c.req.dg.caps = {}
          BY <2>4 DEF GroupRightful
        <5> QED
          BY <2>2, <2>3, <2>7, <3>3, <5>1, <5>2, GroupChainDemands
      <4>2. h.cap \in {"GLOBAL_ROOT", "MODIFY_GROUP_META"}
        <5>1. c.req.chain \in GroupChains \ {"CREATE", "DESTROY", "FETCH"}
          BY <2>2, <2>3, <3>3 DEF GroupRequest
        <5> QED
          BY <2>7, <5>1 DEF GroupRight, GroupChains, GroupEditChains, GroupEditHook
      <4>3. HasCapability(t, "MODIFY_GROUP_META")
        BY <2>6, <4>2 DEF HasCapability
      <4> QED
        BY <2>6, <4>1, <4>3
    <3> QED
      BY <3>1, <3>2, <3>3
  <2>9. ASSUME NEW m \in Groups, NEW cap \in GroupDemands(groups[m], groups'[m])
        PROVE  Vouched(w, cap)
    <3>1. CASE m # n
      <4>1. groups'[m] = groups[m]
        BY <1>10, <2>1, <3>1
      <4>2. GroupDemands(groups[m], groups'[m]) = {}
        BY <4>1 DEF GroupDemands
      <4> QED
        BY <2>9, <4>2
    <3>2. CASE m = n
      <4>1. groups'[m] = g
        BY <1>10, <2>1, <2>2, <3>2
      <4>2. HasCapability(t, cap)
        BY <2>8, <2>9, <3>2, <4>1
      <4> QED
        BY <1>6, <2>5, <4>2 DEF Vouched, t
    <3> QED
      BY <3>1, <3>2
  <2>10. \A y \in Entities : EntityDemands(ents[y], ents'[y]) = {}
    BY <2>1 DEF EntityDemands
  <2> QED
    BY <1>2, <1>6, <2>5, <2>9, <2>10 DEF Authorised
<1> QED
  BY <1>3, <1>11, <1>12

(* Whatever a request changes in storage, its token carries the            *)
(* capabilities for exactly that change, or the entity changes its own     *)
(* keys, or its own secret knowing the old one.                            *)
THEOREM ChangesAreAuthorised ==
  ASSUME MethodsOffered, UpdatesKeepLocks
  PROVE  Spec => ChangesAuthorised
<1>1. Init => AInv
  <2> SUFFICES ASSUME Init, NEW w \in Workers
               PROVE  SInv /\ Trusted(w) /\ Dutiful(job[w].handler)
    BY FirstTypes DEF AInv
  <2>1. job[w] = IdleJob /\ IdleJob.handler = Rejected
    BY DEF Init, IdleJob
  <2> QED
    BY <2>1, FirstTypes, IdleTypes, RejectedDuty DEF Trusted
<1>2. AInv /\ [Next]_vars => AInv'
  BY StepTrusts
<1>3. AInv /\ [Next]_vars =>
        [\/ UNCHANGED Storage
         \/ \E w \in Workers : job'[w] # job[w] /\ Authorised(w)]_vars
  <2> SUFFICES ASSUME AInv, Next, ~UNCHANGED Storage
               PROVE  \E w \in Workers : job'[w] # job[w] /\ Authorised(w)
    BY DEF vars, Storage
  <2>1. PICK w \in Workers : Call(w)
    BY DEF Next, Step, WorkerStep, Progress, Check, Notify, Finish, LoadMember, MembersListed,
           FetchClaimant, ListGroups, AddGroupCaps, Sign, Return, Arrive, Tick, Crash
  <2> QED
    BY <2>1, WriteAuthorised
<1> QED
  BY <1>1, <1>2, <1>3, PTL DEF Spec, ChangesAuthorised

-----------------------------------------------------------------------------
(* Copies and what requests have seen.                                     *)

(* One server: a copy follows the writes of its own server only.           *)
OneServer == \E s : Servers = {s}

(* The callbacks of worker u for entity x are about to run. *)
EntityPending(u, x) ==
  /\ job[u].pc = "notify"
  /\ Head(job[u].left).on = "entity" /\ Head(job[u].left).req.de.id = x

(* The copy knows of an entity what is stored, unless callbacks for it are *)
(* about to run; those of a removal, when it is gone.                      *)
EntityCopyOK ==
  \A s \in Servers, x \in Entities :
    \/ view[s].dm[x] = NoEntity
    \/ ents[x] # NoEntity /\ view[s].dm[x] = DirectGroups(ents[x])
    \/ \E u \in Workers :
         EntityPending(u, x) /\ (ents[x] = NoEntity => Head(job[u].left).req.chain = "DESTROY")

(* Entity x was directly in the groups gs in one of the directories ds.    *)
WasIn(ds, x, gs) == \E d \in ds : d.ents[x] # NoEntity /\ gs = DirectGroups(d.ents[x])

(* A request has seen what is stored, and all that its server's copy knows *)
(* of entities.                                                            *)
Remembered(w) ==
  job[w].pc # "idle" =>
    /\ Snapshot \in past[w]
    /\ \A s \in Servers, x \in Entities :
         view[s].dm[x] = NoEntity \/ WasIn(past[w], x, view[s].dm[x])

(* Somebody is gone who was there during the request of w. *)
SomebodyLeft(w) ==
  \E x \in Entities : \E d, e \in past[w] : d.ents[x] # NoEntity /\ e.ents[x] = NoEntity

(* Only members that were there are listed. *)
Listing(w) ==
  /\ job[w].pc = "members" =>
       /\ job[w].handler.then = "members"
       /\ \A x \in job[w].listed \cap Entities : \E d \in past[w] : d.ents[x] # NoEntity
  /\ job[w].handler.then = "members" /\ job[w].reply = "internal" => SomebodyLeft(w)

CInv == SInv /\ EntityCopyOK /\ \A w \in Workers : Remembered(w) /\ Listing(w)

-----------------------------------------------------------------------------
(* Rules, as the copies know them.                                         *)

(* Call c changes the rules of a group. *)
ChangesRules(c) ==
  c.on = "group" /\ (c.req.chain \in {"CREATE", "DESTROY"} \/ c.req.dg.rule # NoRule)

(* Worker w is at a request that may change rules. *)
Rewriting(w) ==
  /\ job[w].pc \notin {"idle", "done"}
  /\ \E i \in DOMAIN job[w].handler.calls : ChangesRules(job[w].handler.calls[i])

(* Requests that change rules are kept apart: members that are worked out  *)
(* from rules of two instants may be members at neither.                   *)
RulesApart == \A u, v \in Workers : Rewriting(u) /\ Rewriting(v) => u = v

(* The callbacks of worker u for a group whose rules it changed are about  *)
(* to run.                                                                 *)
RulesPending(u) == job[u].pc = "notify" /\ ChangesRules(Head(job[u].left))

(* The copy knows the rules that are stored, but for a group whose         *)
(* callbacks are about to run; those of a removal, when it is gone.        *)
RuleCopyOK ==
  /\ \A s \in Servers, m \in Groups :
       \/ view[s].rules[m] = RulesOf(groups)[m]
       \/ \E u \in Workers : RulesPending(u) /\ Head(job[u].left).req.dg.name = m
  /\ \A u \in Workers :
       LET c == Head(job[u].left)
       IN  RulesPending(u) => ((groups[c.req.dg.name] = NoGroup) <=> (c.req.chain = "DESTROY"))

(* A request has seen all that its server's copy knows of rules. *)
RulesRemembered(w) ==
  job[w].pc # "idle" =>
    \A s \in Servers : \E e \in past[w] : view[s].rules = RulesOf(e.groups)

(* By some of the directories ds, entity x may have been in group n.       *)
MayBeIn(ds, x, n) ==
  \E d, e \in ds :
    d.ents[x] # NoEntity /\ DirectGroups(d.ents[x]) \in Meaning(RulesOf(e.groups))[n]

(* The claims that are put together are traceable, and so are the groups   *)
(* that are still to be looked up.                                         *)
Claiming(w) ==
  LET x == job[w].handler.subject
  IN  /\ job[w].pc \in {"check", "call", "notify", "entity"} =>
           job[w].caps = {} /\ job[w].listed = {}
      /\ job[w].pc \in {"groups", "groupcaps"} => job[w].caps \subseteq CouldHave(past[w], x)
      /\ job[w].pc = "groupcaps" => \A n \in job[w].listed \cap Groups : MayBeIn(past[w], x, n)
      /\ job[w].pc = "done" /\ job[w].reply = "ok" /\ job[w].handler.then = "sign" =>
           job[w].token.caps \subseteq CouldHave(past[w], x)

TInv ==
  /\ CInv /\ RuleCopyOK
  /\ \A w \in Workers : RulesRemembered(w) /\ Claiming(w)

-----------------------------------------------------------------------------
(* What the steps of a request make of its job.                            *)

(* A job that moves is the only one. *)
LEMMA Moves ==
  ASSUME SInv, NEW w \in Workers, NEW j, Goes(w, j)
  PROVE  job'[w] = j /\ \A u \in Workers \ {w} : job'[u] = job[u]
BY DEF SInv, Goes

(* A reply moves the job to its end. *)
LEMMA ReplyMoves ==
  ASSUME SInv, NEW w \in Workers, NEW r, Replied(w, r)
  PROVE  /\ job'[w].pc = "done" /\ job'[w].reply = r /\ job'[w].handler = job[w].handler
         /\ \A u \in Workers \ {w} : job'[u] = job[u]
<1>1. job[w] \in Job
  BY DEF SInv
<1>2. Goes(w, [job[w] EXCEPT !.pc = "done", !.reply = r])
  BY DEF Replied
<1>3. /\ job'[w] = [job[w] EXCEPT !.pc = "done", !.reply = r]
      /\ \A u \in Workers \ {w} : job'[u] = job[u]
  BY <1>2, Moves
<1> QED
  BY <1>1, <1>3 DEF Job

(* What is about to be announced is a call of one of the trees. *)
LEMMA Announced ==
  ASSUME SInv, NEW w \in Workers, job[w].pc = "notify"
  PROVE  /\ Head(job[w].left) \in EntityTreeCall \cup GroupTreeCall
         /\ \E k \in DOMAIN job[w].handler.calls : Head(job[w].left) = job[w].handler.calls[k]
<1>1. job[w].left # <<>> /\ job[w].left[1] \in EntityTreeCall \cup GroupTreeCall
  BY DEF SInv, WellPlaced
<1>2. /\ Head(job[w].left) = job[w].left[1]
      /\ \E k \in DOMAIN job[w].handler.calls : Head(job[w].left) = job[w].handler.calls[k]
  BY <1>1, NextCall
<1> QED
  BY <1>1, <1>2

(* A step of a worker moves its job. *)
LEMMA WorkMoves ==
  ASSUME SInv, NEW w \in Workers, WorkerStep(w)
  PROVE  \E j : Goes(w, j)
<1>1. Check(w) => \E j : Goes(w, j)
  BY Zenon DEF Check, Replied
<1>2. Call(w) => \E j : Goes(w, j)
  BY Zenon, CallOutcomes DEF Refuses, Fails, LooksUp, Writes, Replied
<1>3. Finish(w) => \E j : Goes(w, j)
  <2>1. Finish(w) => job[w].handler.then \in {"reply", "members", "sign"}
    BY Running DEF Finish, HandlerType
  <2> QED
    BY <2>1 DEF Finish, Replied
<1>4. ASSUME NEW x \in Entities, LoadMember(w, x) PROVE \E j : Goes(w, j)
  BY <1>4, Zenon DEF LoadMember, Replied
<1>5. MembersListed(w) \/ Sign(w) \/ Return(w) => \E j : Goes(w, j)
  BY Zenon DEF MembersListed, Sign, Return, Replied
<1>6. Notify(w) \/ FetchClaimant(w) \/ ListGroups(w) => \E j : Goes(w, j)
  BY Zenon DEF Notify, FetchClaimant, ListGroups
<1>7. ASSUME NEW n \in Groups, AddGroupCaps(w, n) PROVE \E j : Goes(w, j)
  BY <1>7, Zenon DEF AddGroupCaps
<1> QED
  BY <1>1, <1>2, <1>3, <1>4, <1>5, <1>6, <1>7 DEF WorkerStep, Progress

(* The job of w changes by a step of w, by a new request, or by a crash.   *)
LEMMA OwnStep ==
  ASSUME SInv, [Next]_vars, NEW w \in Workers, job'[w] # job[w]
  PROVE  \/ WorkerStep(w) /\ Remember
         \/ \E s \in Servers, h \in Offers[w], t \in issued \cup {NoToken} : Arrive(w, s, h, t)
         \/ job'[w] = IdleJob
<1>1. ASSUME NEW u \in Workers, u # w, NEW j, Goes(u, j) PROVE FALSE
  BY <1>1, Moves
<1>2. ASSUME NEW u \in Workers, u # w, WorkerStep(u) PROVE FALSE
  BY <1>1, <1>2, WorkMoves
<1>3. ASSUME NEW u \in Workers, Step(u) PROVE WorkerStep(w) /\ Remember
  BY <1>2, <1>3 DEF Step
<1>4. ASSUME NEW u \in Workers, NEW s \in Servers, NEW h \in Offers[u],
             NEW t \in issued \cup {NoToken}, Arrive(u, s, h, t)
      PROVE  u = w
  BY <1>1, <1>4 DEF Arrive
<1>5. ASSUME NEW s \in Servers, Crash(s) PROVE job'[w] = IdleJob
  BY <1>5 DEF Crash
<1>6. ~Tick /\ ~UNCHANGED vars
  BY DEF Tick, vars
<1> QED
  BY <1>3, <1>4, <1>5, <1>6 DEF Next

(* What a new request starts as. *)
LEMMA StartsAs ==
  ASSUME SInv, NEW w \in Workers, NEW s, NEW h, NEW t, Arrive(w, s, h, t)
  PROVE  /\ job'[w].pc = "check" /\ job'[w].reply = "none" /\ job'[w].handler = h
         /\ job'[w].caps = {} /\ job'[w].listed = {} /\ job[w].pc = "idle"
<1>1. job'[w] = Incoming(s, h, t)
  BY Moves DEF Arrive
<1> QED
  BY <1>1 DEF Arrive, Incoming, IdleJob

(* The prerequisites of a handler that lets anyone in are met. *)
LEMMA Checked ==
  ASSUME SInv, NEW w \in Workers, Check(w)
  PROVE  /\ job'[w].handler = job[w].handler
         /\ job'[w].caps = job[w].caps /\ job'[w].listed = job[w].listed
         /\ \/ job'[w].pc = "call"
            \/ /\ job'[w].pc = "done" /\ job'[w].reply # "ok"
               /\ job[w].handler.access # "anyone"
<1> DEFINE h == job[w].handler
           v == Prerequisite(job[w].server, h, job[w].token)
<1>1. job[w] \in Job
  BY DEF SInv
<1>2. CASE v # "ok" /\ h.access # "manager"
  <2>1. Goes(w, [job[w] EXCEPT !.pc = "done", !.reply = v])
    BY <1>2, Zenon DEF Check, Replied
  <2>2. job'[w] = [job[w] EXCEPT !.pc = "done", !.reply = v]
    BY <2>1, Moves
  <2>3. h.access # "anyone"
    BY <1>2 DEF Prerequisite
  <2> HIDE DEF v
  <2> QED
    BY <1>1, <1>2, <2>2, <2>3 DEF Job
<1>3. CASE ~(v # "ok" /\ h.access # "manager")
  <2>1. PICK claims, left :
          Goes(w, [job[w] EXCEPT !.pc = "call", !.pre = v, !.checked = now,
                                 !.claims = claims, !.left = left])
    BY <1>3, Zenon DEF Check
  <2> HIDE DEF v
  <2>2. job'[w] = [job[w] EXCEPT !.pc = "call", !.pre = v, !.checked = now,
                                 !.claims = claims, !.left = left]
    BY <2>1, Moves
  <2> QED
    BY <1>1, <2>2 DEF Job
<1> QED
  BY <1>2, <1>3

(* A call leaves what a request has collected; no reply but an error ends  *)
(* it.                                                                     *)
LEMMA Called ==
  ASSUME SInv, NEW w \in Workers, Call(w)
  PROVE  /\ job[w].pc = "call" /\ job'[w].handler = job[w].handler
         /\ job'[w].caps = job[w].caps /\ job'[w].listed = job[w].listed
         /\ job[w].handler.calls # <<>>
         /\ job'[w].pc \in {"call", "notify"} \/ (job'[w].pc = "done" /\ job'[w].reply # "ok")
<1>1. /\ job[w].pc = "call" /\ job[w].left # <<>> /\ job[w] \in Job
      /\ Refuses(w) \/ Fails(w) \/ LooksUp(w) \/ Writes(w)
  BY CallOutcomes DEF SInv
<1>2. /\ \E k \in DOMAIN job[w].handler.calls : Head(job[w].left) = job[w].handler.calls[k]
      /\ Head(job[w].left) \in TreeCall
  BY <1>1, NextCall
<1>3. job[w].handler.calls # <<>>
  <2>1. DOMAIN <<>> = {}
    OBVIOUS
  <2> QED
    BY <1>2, <2>1
<1>4. ASSUME NEW r, r # "ok", Replied(w, r)
      PROVE  /\ job'[w].handler = job[w].handler /\ job'[w].caps = job[w].caps
             /\ job'[w].listed = job[w].listed
             /\ job'[w].pc = "done" /\ job'[w].reply # "ok"
  <2>1. job'[w] = [job[w] EXCEPT !.pc = "done", !.reply = r]
    BY <1>4, Moves DEF Replied
  <2> QED
    BY <1>1, <1>4, <2>1 DEF Job
<1>5. CASE Refuses(w)
  BY <1>1, <1>3, <1>4, <1>5 DEF Refuses
<1>6. CASE Fails(w)
  <2> DEFINE v == CallVerdict(Head(job[w].left), ents, groups)
             a == Head(job[w].left).answers
  <2>1. a \in Answers
    BY <1>2 DEF TreeCall, EntityTreeCall, GroupTreeCall, NoCall, SearchCall, Answers
  <2>2. AnswerTo(v, a) # "ok"
    <3> HIDE DEF v, a
    <3> QED
      BY <2>1 DEF Answers, AnswerTo, IfDuplicate, IfUnknown, IfNoKey, IfKeyExists,
                  IfRefused, IfMalformed, Anyhow
  <2>3. Replied(w, AnswerTo(v, a))
    BY <1>6 DEF Fails
  <2> QED
    BY <1>1, <1>3, <1>4, <2>2, <2>3
<1>7. CASE LooksUp(w)
  <2>1. job'[w] = [job[w] EXCEPT !.left = Tail(job[w].left)]
    BY <1>7, Moves DEF LooksUp
  <2> QED
    BY <1>1, <1>3, <2>1 DEF Job
<1>8. CASE Writes(w)
  <2>1. job'[w] = [job[w] EXCEPT !.pc = "notify"]
    BY <1>8, Moves DEF Writes
  <2> QED
    BY <1>1, <1>3, <2>1 DEF Job
<1> QED
  BY <1>1, <1>5, <1>6, <1>7, <1>8

(* So do the callbacks. *)
LEMMA Notified ==
  ASSUME SInv, NEW w \in Workers, Notify(w)
  PROVE  /\ job[w].pc = "notify" /\ job'[w].pc = "call" /\ job'[w].handler = job[w].handler
         /\ job'[w].caps = job[w].caps /\ job'[w].listed = job[w].listed
<1>1. job'[w] = [job[w] EXCEPT !.pc = "call", !.left = Tail(job[w].left)]
  BY Moves DEF Notify
<1>2. job[w] \in Job /\ job[w].pc = "notify"
  BY DEF SInv, Notify
<1> QED
  BY <1>1, <1>2 DEF Job

(* After the last call. *)
LEMMA Finished ==
  ASSUME SInv, NEW w \in Workers, Finish(w)
  PROVE  /\ job[w].pc = "call" /\ job'[w].handler = job[w].handler /\ job'[w].caps = job[w].caps
         /\ \/ /\ job[w].handler.then = "reply"
               /\ job'[w].pc = "done" /\ job'[w].reply = "ok"
            \/ /\ job[w].handler.then = "members"
               /\ job'[w].pc = "members" /\ job'[w].reply = "none"
               /\ job'[w].listed = MembersOfGroup(job[w].server, job[w].handler.subject)
            \/ /\ job[w].handler.then = "sign"
               /\ job'[w].pc = "entity" /\ job'[w].reply = "none"
               /\ job'[w].listed = job[w].listed
<1>1. job[w].pc = "call" /\ job[w] \in Job /\ job[w].reply = "none"
  BY DEF Finish, SInv, WellPlaced
<1>2. job[w].handler.then \in {"reply", "members", "sign"}
  BY <1>1, Running DEF HandlerType
<1>3. CASE job[w].handler.then = "reply"
  <2>1. job'[w] = [job[w] EXCEPT !.pc = "done", !.reply = "ok"]
    BY <1>3, Moves DEF Finish, Replied
  <2> QED
    BY <1>1, <1>3, <2>1 DEF Job
<1>4. CASE job[w].handler.then = "members"
  <2>1. job'[w] = [job[w] EXCEPT !.pc = "members",
                     !.listed = MembersOfGroup(job[w].server, job[w].handler.subject)]
    BY <1>4, Moves DEF Finish
  <2> QED
    BY <1>1, <1>4, <2>1 DEF Job
<1>5. CASE job[w].handler.then = "sign"
  <2>1. job'[w] = [job[w] EXCEPT !.pc = "entity"]
    BY <1>5, Moves DEF Finish
  <2> QED
    BY <1>1, <1>5, <2>1 DEF Job
<1> QED
  BY <1>2, <1>3, <1>4, <1>5

(* Members are looked up one by one. *)
LEMMA Loaded ==
  ASSUME SInv, NEW w \in Workers, NEW x \in Entities, LoadMember(w, x)
  PROVE  /\ job[w].pc = "members" /\ x \in job[w].listed /\ job'[w].handler = job[w].handler
         /\ \/ ents[x] = NoEntity /\ job'[w].pc = "done" /\ job'[w].reply = "internal"
            \/ /\ job'[w].pc = "members" /\ job'[w].reply = "none"
               /\ job'[w].listed \subseteq job[w].listed
<1>1. job[w].pc = "members" /\ x \in job[w].listed /\ job[w] \in Job /\ job[w].reply = "none"
  BY DEF LoadMember, SInv, WellPlaced
<1>2. CASE ents[x] = NoEntity
  <2>1. job'[w] = [job[w] EXCEPT !.pc = "done", !.reply = "internal"]
    BY <1>2, Moves DEF LoadMember, Replied
  <2> QED
    BY <1>1, <1>2, <2>1 DEF Job
<1>3. CASE ents[x] # NoEntity
  <2>1. job'[w] = [job[w] EXCEPT !.listed = job[w].listed \ {x}]
    BY <1>3, Moves DEF LoadMember
  <2> QED
    BY <1>1, <1>3, <2>1 DEF Job
<1> QED
  BY <1>2, <1>3

(* What comes after the calls of a handler that signs. *)
LEMMA Gathers ==
  ASSUME SInv, NEW w \in Workers,
         FetchClaimant(w) \/ ListGroups(w) \/ (\E n \in Groups : AddGroupCaps(w, n))
  PROVE  /\ job[w].pc \in {"entity", "groups", "groupcaps"} /\ job'[w].handler = job[w].handler
         /\ job'[w].pc \in {"groups", "groupcaps"} /\ job'[w].reply = "none"
         /\ UNCHANGED Storage /\ UNCHANGED view
         /\ LET x == job[w].handler.subject
            IN  \/ /\ job[w].pc = "entity" /\ ents[x] = NoEntity /\ job'[w].pc = "groupcaps"
                   /\ job'[w].caps = job[w].caps /\ job'[w].listed = job[w].listed
                \/ /\ job[w].pc = "entity" /\ ents[x] # NoEntity /\ job'[w].pc = "groups"
                   /\ job'[w].caps = RequestMeta(ents[x]).caps
                \/ /\ job[w].pc = "groups" /\ job'[w].pc = "groupcaps"
                   /\ job'[w].caps = job[w].caps
                   /\ job'[w].listed = GroupsForEntity(job[w].server, x)
                \/ \E n \in job[w].listed \cap Groups :
                     /\ job[w].pc = "groupcaps" /\ job'[w].pc = "groupcaps"
                     /\ job'[w].listed \subseteq job[w].listed
                     /\ job'[w].caps = IF groups[n] = NoGroup THEN job[w].caps
                                       ELSE job[w].caps \cup groups[n].caps
<1> DEFINE x == job[w].handler.subject
<1>1. /\ job[w].pc \in {"entity", "groups", "groupcaps"} /\ job[w] \in Job
      /\ UNCHANGED Storage /\ UNCHANGED view
  BY DEF FetchClaimant, ListGroups, AddGroupCaps, SInv
<1>2. job[w].reply = "none"
  BY <1>1 DEF SInv, WellPlaced
<1>3. CASE FetchClaimant(w) /\ ents[x] = NoEntity
  <2>1. job'[w] = [job[w] EXCEPT !.pc = "groupcaps"] /\ job[w].pc = "entity"
    BY <1>3, Moves DEF FetchClaimant
  <2> QED
    BY <1>1, <1>2, <1>3, <2>1 DEF Job
<1>4. CASE FetchClaimant(w) /\ ents[x] # NoEntity
  <2>1. /\ job'[w] = [job[w] EXCEPT !.pc = "groups", !.caps = RequestMeta(ents[x]).caps]
        /\ job[w].pc = "entity"
    BY <1>4, Moves DEF FetchClaimant
  <2> QED
    BY <1>1, <1>2, <1>4, <2>1 DEF Job
<1>5. CASE ListGroups(w)
  <2>1. /\ job'[w] = [job[w] EXCEPT !.pc = "groupcaps",
                        !.listed = GroupsForEntity(job[w].server, x)]
        /\ job[w].pc = "groups"
    BY <1>5, Moves DEF ListGroups
  <2> QED
    BY <1>1, <1>2, <2>1 DEF Job
<1>6. ASSUME NEW n \in Groups, AddGroupCaps(w, n)
      PROVE  /\ job[w].pc = "groupcaps" /\ job'[w].pc = "groupcaps" /\ n \in job[w].listed
             /\ job'[w].handler = job[w].handler /\ job'[w].reply = "none"
             /\ job'[w].listed \subseteq job[w].listed
             /\ job'[w].caps = IF groups[n] = NoGroup THEN job[w].caps
                               ELSE job[w].caps \cup groups[n].caps
  <2> DEFINE caps == IF groups[n] = NoGroup THEN job[w].caps ELSE job[w].caps \cup groups[n].caps
  <2>1. /\ job'[w] = [job[w] EXCEPT !.listed = job[w].listed \ {n}, !.caps = caps]
        /\ job[w].pc = "groupcaps" /\ n \in job[w].listed
    BY <1>6, Moves DEF AddGroupCaps
  <2> HIDE DEF caps
  <2>2. /\ job'[w].pc = "groupcaps" /\ job'[w].handler = job[w].handler /\ job'[w].reply = "none"
        /\ job'[w].listed = job[w].listed \ {n} /\ job'[w].caps = caps
    BY <1>1, <1>2, <2>1 DEF Job
  <2> QED
    BY <2>1, <2>2 DEF caps
<1>7. CASE \E n \in Groups : AddGroupCaps(w, n)
  <2>1. PICK n \in Groups : AddGroupCaps(w, n)
    BY <1>7
  <2> QED
    BY <1>1, <1>6, <2>1
<1> QED
  BY <1>3, <1>4, <1>5, <1>7

(* The token has the capabilities that were collected. *)
LEMMA Signed ==
  ASSUME SInv, NEW w \in Workers, Sign(w)
  PROVE  /\ job[w].pc = "groupcaps" /\ job'[w].handler = job[w].handler
         /\ job'[w].pc = "done" /\ job'[w].reply = "ok" /\ job'[w].token.caps = job[w].caps
<1> DEFINE t == [entity |-> job[w].handler.subject, caps |-> job[w].caps, exp |-> now + Lifetime]
<1>1. job[w].pc = "groupcaps" /\ job[w] \in Job
  BY DEF Sign, SInv
<1>2. job'[w] = [job[w] EXCEPT !.pc = "done", !.reply = "ok", !.token = t]
  BY Moves DEF Sign
<1>3. t.caps = job[w].caps
  OBVIOUS
<1> HIDE DEF t
<1> QED
  BY <1>1, <1>2, <1>3 DEF Job

(* All members were there. *)
LEMMA AllListed ==
  ASSUME SInv, NEW w \in Workers, MembersListed(w)
  PROVE  /\ job[w].pc = "members" /\ job'[w].handler = job[w].handler
         /\ job'[w].pc = "done" /\ job'[w].reply = "ok"
BY ReplyMoves DEF MembersListed

-----------------------------------------------------------------------------
(* The steps of the copies.                                                *)

(* Nothing is stored and nothing is brought up to date. *)
Lull ==
  /\ UNCHANGED Storage /\ UNCHANGED view
  /\ \A u \in Workers : job[u].pc = "notify" \/ job'[u].pc = "notify" => job'[u] = job[u]

(* Worker w stores what its next call writes; its callbacks are to run.    *)
Strike(w) ==
  /\ job[w].pc = "call" /\ job[w].left # <<>>
  /\ CallVerdict(Head(job[w].left), ents, groups) = "ok"
  /\ IF Head(job[w].left).on = "entity" THEN ApplyEntity(Head(job[w].left).req)
                                        ELSE ApplyGroup(Head(job[w].left).req)
  /\ Head(job[w].left) \in EntityTreeCall \cup GroupTreeCall
  /\ UNCHANGED view
  /\ job'[w].pc = "notify" /\ job'[w].left = job[w].left /\ job'[w].handler = job[w].handler
  /\ \A u \in Workers \ {w} : job'[u] = job[u]

(* The callbacks of worker w run. *)
Announce(w) ==
  /\ job[w].pc = "notify" /\ job'[w].pc = "call"
  /\ UNCHANGED Storage
  /\ view' = [view EXCEPT ![job[w].server] = Synced(view[job[w].server], Head(job[w].left))]
  /\ Head(job[w].left) \in EntityTreeCall \cup GroupTreeCall
  /\ job[w].server \in Servers
  /\ \A u \in Workers \ {w} : job'[u] = job[u]

(* The server starts again. *)
Restart ==
  /\ \A u \in Workers : job'[u].pc = "idle"
  /\ UNCHANGED Storage
  /\ \A s \in Servers : view'[s] = Fresh(ents, groups)

(* A worker that is not announcing steps in a lull. *)
LEMMA QuietStep ==
  ASSUME SInv, NEW w \in Workers, job[w].pc # "notify", job'[w].pc # "notify",
         UNCHANGED <<Storage, view>>, \A u \in Workers \ {w} : job'[u] = job[u]
  PROVE  Lull
BY DEF Lull, Storage

(* What steps are to the copies. *)
LEMMA CopySteps ==
  ASSUME OneServer, SInv, [Next]_vars
  PROVE  Lull \/ (\E w \in Workers : Strike(w)) \/ (\E w \in Workers : Announce(w)) \/ Restart
<1>1. ASSUME NEW w \in Workers, Call(w)
      PROVE  Lull \/ Strike(w)
  <2>1. /\ job[w].pc = "call" /\ job[w].left # <<>> /\ UNCHANGED <<view, issued, Rest>>
        /\ job[w] \in Job
        /\ Refuses(w) \/ Fails(w) \/ LooksUp(w) \/ Writes(w)
    BY <1>1, CallOutcomes DEF SInv
  <2>2. CASE Refuses(w) \/ Fails(w)
    <3>1. (\E r : Replied(w, r)) /\ UNCHANGED Storage
      BY <2>2 DEF Refuses, Fails
    <3>2. job'[w].pc # "notify" /\ \A u \in Workers \ {w} : job'[u] = job[u]
      BY <3>1, ReplyMoves
    <3> QED
      BY <2>1, <3>1, <3>2, QuietStep
  <2>3. CASE LooksUp(w)
    <3>1. /\ job'[w] = [job[w] EXCEPT !.left = Tail(job[w].left)] /\ UNCHANGED Storage
          /\ \A u \in Workers \ {w} : job'[u] = job[u]
      BY <2>3, Moves DEF LooksUp
    <3>2. job'[w].pc # "notify"
      BY <2>1, <3>1 DEF Job
    <3> QED
      BY <2>1, <3>1, <3>2, QuietStep
  <2>4. CASE Writes(w)
    <3>1. /\ job'[w] = [job[w] EXCEPT !.pc = "notify"]
          /\ \A u \in Workers \ {w} : job'[u] = job[u]
      BY <2>4, Moves DEF Writes
    <3>2. Head(job[w].left) \in EntityTreeCall \cup GroupTreeCall
      BY <2>1, <2>4, WriteKeepsStorage
    <3>3. job'[w].pc = "notify" /\ job'[w].left = job[w].left /\ job'[w].handler = job[w].handler
      BY <2>1, <3>1 DEF Job
    <3> QED
      BY <2>1, <2>4, <3>1, <3>2, <3>3 DEF Writes, Strike
  <2> QED
    BY <2>1, <2>2, <2>3, <2>4
<1>2. ASSUME NEW w \in Workers, Notify(w)
      PROVE  Announce(w)
  <2>1. /\ job[w].pc = "notify" /\ job[w] \in Job /\ UNCHANGED Storage
        /\ view' = [view EXCEPT ![job[w].server] = Synced(view[job[w].server], Head(job[w].left))]
    BY <1>2 DEF Notify, SInv
  <2>2. /\ job'[w] = [job[w] EXCEPT !.pc = "call", !.left = Tail(job[w].left)]
        /\ \A u \in Workers \ {w} : job'[u] = job[u]
    BY <1>2, Moves DEF Notify
  <2>3. job'[w].pc = "call"
    BY <2>1, <2>2 DEF Job
  <2> QED
    BY <2>1, <2>2, <2>3, Announced, Running DEF Announce
<1>3. ASSUME NEW w \in Workers,
             Check(w) \/ Finish(w) \/ (\E x \in Entities : LoadMember(w, x)) \/ MembersListed(w)
             \/ FetchClaimant(w) \/ ListGroups(w) \/ (\E n \in Groups : AddGroupCaps(w, n))
             \/ Sign(w) \/ Return(w)
      PROVE  Lull
  <2>1. job[w].pc # "notify" /\ UNCHANGED <<Storage, view>>
    BY <1>3 DEF Check, Finish, LoadMember, MembersListed, FetchClaimant, ListGroups, AddGroupCaps,
                Sign, Return
  <2>2. \E j : Goes(w, j)
    BY <1>3, WorkMoves DEF WorkerStep, Progress
  <2>3. \A u \in Workers \ {w} : job'[u] = job[u]
    BY <2>2, Moves
  <2>4. job'[w].pc # "notify"
    <3>1. Check(w) \/ Finish(w) => job'[w].pc # "notify"
      BY Checked, Finished
    <3>2. (\E x \in Entities : LoadMember(w, x)) \/ MembersListed(w) => job'[w].pc # "notify"
      BY Loaded, AllListed
    <3>3. FetchClaimant(w) \/ ListGroups(w) \/ (\E n \in Groups : AddGroupCaps(w, n)) \/ Sign(w)
            => job'[w].pc # "notify"
      BY Gathers, Signed
    <3>4. Return(w) => job'[w].pc # "notify"
      BY Moves, IdleTypes DEF Return
    <3> QED
      BY <1>3, <3>1, <3>2, <3>3, <3>4
  <2> QED
    BY <2>1, <2>3, <2>4, QuietStep
<1>4. ASSUME NEW w \in Workers, NEW s \in Servers, NEW h \in Offers[w],
             NEW t \in issued \cup {NoToken}, Arrive(w, s, h, t)
      PROVE  Lull
  <2>1. job[w].pc = "idle" /\ UNCHANGED <<Storage, view>> /\ Goes(w, Incoming(s, h, t))
    BY <1>4 DEF Arrive
  <2>2. job'[w].pc = "check"
    BY <1>4, StartsAs
  <2> QED
    BY <2>1, <2>2, Moves, QuietStep
<1>5. CASE Tick \/ UNCHANGED vars
  BY <1>5 DEF Tick, vars, Lull, Storage
<1>6. ASSUME NEW s \in Servers, Crash(s)
      PROVE  Restart
  <2>1. Servers = {s}
    BY DEF OneServer
  <2>2. \A u \in Workers : job'[u].pc = "idle"
    <3> SUFFICES ASSUME NEW u \in Workers PROVE job'[u].pc = "idle"
      OBVIOUS
    <3>1. job'[u] = IF job[u].server = s THEN IdleJob ELSE job[u]
      BY <1>6 DEF Crash
    <3>2. job[u].pc # "idle" => job[u].server = s
      BY <2>1, Running
    <3> QED
      BY <3>1, <3>2, IdleTypes
  <2>3. view'[s] = Fresh(ents, groups) /\ UNCHANGED Storage
    BY <1>6 DEF Crash, SInv, DirectoryOK
  <2> QED
    BY <2>1, <2>2, <2>3 DEF Restart
<1> QED
  BY <1>1, <1>2, <1>3, <1>4, <1>5, <1>6 DEF Next, Step, WorkerStep, Progress

(* What is stored of an entity, or of a group, that is not removed.        *)
LEMMA StoredEntity ==
  ASSUME SInv, NEW w \in Workers, Strike(w), NEW c \in EntityTreeCall, c = Head(job[w].left)
  PROVE  /\ UNCHANGED groups /\ c.req.de.id \in Entities
         /\ \A y \in Entities \ {c.req.de.id} : ents'[y] = ents[y]
         /\ ents'[c.req.de.id] = NoEntity => c.req.chain = "DESTROY"
<1> DEFINE x == c.req.de.id
           used == {ents[y].number : y \in {z \in Entities : ents[z] # NoEntity}}
           made == Created(c.req.de, NumberFor(c.req.de.number, used))
<1>1. CallVerdict(c, ents, groups) = "ok" /\ ApplyEntity(c.req) /\ DirectoryOK
  BY CallTypes DEF Strike, SInv
<1>2. c.req \in Request /\ x \in Entities /\ c.req.de.number \in Numbers
  BY DEF EntityTreeCall, Request, DataEntity
<1>3. PICK e \in Entity \cup {NoEntity} :
        /\ ents' = [ents EXCEPT ![x] = e] /\ groups' = groups
        /\ c.req.chain \notin {"CREATE", "DESTROY"} => e = Edited(c.req, ents[x])
  BY <1>1, EntityApplied
<1>4. ents'[x] = e /\ \A y \in Entities \ {x} : ents'[y] = ents[y]
  BY <1>1, <1>2, <1>3 DEF DirectoryOK
<1>5. ASSUME c.req.chain = "CREATE" PROVE e \in Entity
  <2>1. ents' = [ents EXCEPT ![x] = made]
    BY <1>1, <1>5 DEF ApplyEntity
  <2>2. ents'[x] = made
    BY <1>1, <1>2, <2>1 DEF DirectoryOK
  <2>3. used \in SUBSET Numbers
    BY <1>1, UsedNumbers
  <2> HIDE DEF used
  <2>4. NumberFor(c.req.de.number, used) \in Numbers
    BY <1>2, <2>3, NumberForType
  <2> QED
    BY <1>2, <1>4, <2>2, <2>4, EditedType
<1>6. ASSUME c.req.chain \notin {"CREATE", "DESTROY"} PROVE e \in Entity
  <2>1. ents[x] \in Entity
    BY <1>1, <1>6, EntityAccepted DEF DirectoryOK
  <2> QED
    BY <1>2, <1>3, <1>6, <2>1, EditedType
<1> QED
  BY <1>2, <1>3, <1>4, <1>5, <1>6, NoEntityAssumption

(* The same of a group; an edit leaves what its chain makes of it.         *)
LEMMA StoredGroup ==
  ASSUME SInv, NEW w \in Workers, Strike(w), NEW c \in GroupTreeCall, c = Head(job[w].left)
  PROVE  /\ UNCHANGED ents /\ c.req.dg.name \in Groups
         /\ \A m \in Groups \ {c.req.dg.name} : groups'[m] = groups[m]
         /\ (groups'[c.req.dg.name] = NoGroup) <=> (c.req.chain = "DESTROY")
         /\ c.req.chain \notin {"CREATE", "DESTROY"} =>
              /\ groups[c.req.dg.name] \in Group
              /\ groups'[c.req.dg.name] = EditedGroup(c.req, groups[c.req.dg.name])
<1> DEFINE n == c.req.dg.name
           used == {groups[m].number : m \in {o \in Groups : groups[o] # NoGroup}}
           made == CreatedGroup(c.req.dg, NumberFor(c.req.dg.number, used))
<1>1. CallVerdict(c, ents, groups) = "ok" /\ ApplyGroup(c.req) /\ DirectoryOK
  BY CallTypes DEF Strike, SInv
<1>2. c.req \in GroupRequest /\ n \in Groups /\ c.req.dg.number \in Numbers
  BY DEF GroupTreeCall, GroupRequest, DataGroup
<1>3. PICK g \in Group \cup {NoGroup} :
        /\ groups' = [groups EXCEPT ![n] = g] /\ ents' = ents
        /\ c.req.chain = "DESTROY" => g = NoGroup
        /\ c.req.chain \notin {"CREATE", "DESTROY"} => g = EditedGroup(c.req, groups[n])
  BY <1>1, GroupApplied
<1>4. groups'[n] = g /\ \A m \in Groups \ {n} : groups'[m] = groups[m]
  BY <1>1, <1>2, <1>3 DEF DirectoryOK
<1>5. ASSUME c.req.chain = "CREATE" PROVE g \in Group
  <2>1. groups' = [groups EXCEPT ![n] = made]
    BY <1>1, <1>5 DEF ApplyGroup
  <2>2. groups'[n] = made
    BY <1>1, <1>2, <2>1 DEF DirectoryOK
  <2>3. used \in SUBSET Numbers
    BY <1>1, UsedNumbers
  <2> HIDE DEF used
  <2>4. NumberFor(c.req.dg.number, used) \in Numbers
    BY <1>2, <2>3, NumberForType
  <2> QED
    BY <1>2, <1>4, <2>2, <2>4, EditedGroupType
<1>6. ASSUME c.req.chain \notin {"CREATE", "DESTROY"} PROVE groups[n] \in Group /\ g \in Group
  <2>1. groups[n] \in Group
    BY <1>1, <1>6, GroupAccepted DEF DirectoryOK
  <2> QED
    BY <1>2, <1>3, <1>6, <2>1, EditedGroupType
<1> QED
  BY <1>2, <1>3, <1>4, <1>5, <1>6, GroupZeroValuesAssumption

(* What the callbacks make of the copy: at most what they name follows.    *)
LEMMA CopyFollows ==
  ASSUME SInv, OneServer, NEW w \in Workers, Announce(w), NEW s \in Servers, NEW c,
         c = Head(job[w].left)
  PROVE  /\ \A x \in Entities :
              view'[s].dm[x] =
                IF c.on # "entity" \/ c.req.de.id # x THEN view[s].dm[x]
                ELSE IF c.req.chain = "DESTROY" THEN NoEntity
                ELSE IF ents[x] = NoEntity THEN view[s].dm[x] ELSE DirectGroups(ents[x])
         /\ view'[s].rules \in RuleMap /\ view[s].rules \in RuleMap
         /\ \A n \in Groups :
              view'[s].rules[n] =
                IF c.on = "entity" \/ c.req.dg.name # n THEN view[s].rules[n]
                ELSE IF c.req.chain = "DESTROY" THEN NoGroup
                ELSE IF groups[n] = NoGroup THEN view[s].rules[n] ELSE groups[n].rules
<1> DEFINE v == view[s]
           new == Synced(v, c)
<1>1. job[w].server = s
  BY DEF OneServer, Announce
<1>2. c \in EntityTreeCall \cup GroupTreeCall /\ DirectoryOK
  BY DEF Announce, SInv
<1>3. v \in [dm : [Entities -> (SUBSET Groups) \cup {NoEntity}], rules : RuleMap]
  BY <1>2 DEF DirectoryOK
<1>4. view'[s] = new
  BY <1>1, <1>2 DEF Announce, DirectoryOK
<1>5. new \in [dm : [Entities -> (SUBSET Groups) \cup {NoEntity}], rules : RuleMap]
  BY <1>2, <1>3, SyncedTypes
<1> HIDE DEF v
<1>6. CASE c \in EntityTreeCall
  <2>1. c.on = "entity" /\ c.req.de.id \in Entities
    BY <1>6, CallTypes DEF EntityTreeCall, Request, DataEntity
  <2>2. new = [v EXCEPT !.dm[c.req.de.id] =
                 IF c.req.chain = "DESTROY" THEN NoEntity
                 ELSE IF ents[c.req.de.id] = NoEntity THEN @ ELSE DirectGroups(ents[c.req.de.id])]
    BY <2>1 DEF Synced
  <2>3. /\ new.rules = v.rules
        /\ new.dm = [v.dm EXCEPT ![c.req.de.id] =
                       IF c.req.chain = "DESTROY" THEN NoEntity
                       ELSE IF ents[c.req.de.id] = NoEntity THEN @
                       ELSE DirectGroups(ents[c.req.de.id])]
    BY <1>3, <2>2
  <2> HIDE DEF new
  <2> QED
    BY <1>3, <1>4, <1>5, <2>1, <2>3 DEF v
<1>7. CASE c \in GroupTreeCall
  <2>1. c.on = "group" /\ c.req.dg.name \in Groups
    BY <1>7, CallTypes DEF GroupTreeCall, GroupRequest, DataGroup
  <2>2. new = [v EXCEPT !.rules[c.req.dg.name] =
                 IF c.req.chain = "DESTROY" THEN NoGroup
                 ELSE IF groups[c.req.dg.name] = NoGroup THEN @ ELSE groups[c.req.dg.name].rules]
    BY <2>1 DEF Synced
  <2>3. /\ new.dm = v.dm
        /\ new.rules = [v.rules EXCEPT ![c.req.dg.name] =
                          IF c.req.chain = "DESTROY" THEN NoGroup
                          ELSE IF groups[c.req.dg.name] = NoGroup THEN @
                          ELSE groups[c.req.dg.name].rules]
    BY <1>3, <2>2
  <2> HIDE DEF new
  <2> QED
    BY <1>3, <1>4, <1>5, <2>1, <2>3 DEF v, RuleMap
<1> QED
  BY <1>2, <1>6, <1>7

(* What callbacks are about to run stays so until they do. *)
LEMMA EntityCopyKept ==
  ASSUME OneServer, SInv, EntityCopyOK, [Next]_vars
  PROVE  EntityCopyOK'
<1> SUFFICES ASSUME NEW s \in Servers, NEW x \in Entities
             PROVE  \/ view'[s].dm[x] = NoEntity
                    \/ ents'[x] # NoEntity /\ view'[s].dm[x] = DirectGroups(ents'[x])
                    \/ \E u \in Workers :
                         /\ EntityPending(u, x)'
                         /\ ents'[x] = NoEntity => Head(job'[u].left).req.chain = "DESTROY"
  BY DEF EntityCopyOK
<1>1. ASSUME UNCHANGED view, ents'[x] = ents[x],
             \A u \in Workers : job[u].pc = "notify" => job'[u] = job[u]
      PROVE  \/ view'[s].dm[x] = NoEntity
             \/ ents'[x] # NoEntity /\ view'[s].dm[x] = DirectGroups(ents'[x])
             \/ \E u \in Workers :
                  /\ EntityPending(u, x)'
                  /\ ents'[x] = NoEntity => Head(job'[u].left).req.chain = "DESTROY"
  BY <1>1 DEF EntityCopyOK, EntityPending
<1>2. CASE Lull
  BY <1>1, <1>2 DEF Lull, Storage
<1>3. ASSUME NEW w \in Workers, Strike(w)
      PROVE  \/ view'[s].dm[x] = NoEntity
             \/ ents'[x] # NoEntity /\ view'[s].dm[x] = DirectGroups(ents'[x])
             \/ \E u \in Workers :
                  /\ EntityPending(u, x)'
                  /\ ents'[x] = NoEntity => Head(job'[u].left).req.chain = "DESTROY"
  <2>1. PICK c : c = Head(job[w].left)
    OBVIOUS
  <2>2. /\ UNCHANGED view /\ c \in EntityTreeCall \cup GroupTreeCall
        /\ job'[w].pc = "notify" /\ Head(job'[w].left) = c
        /\ \A u \in Workers : job[u].pc = "notify" => job'[u] = job[u]
    BY <1>3, <2>1 DEF Strike
  <2>3. CASE ents'[x] = ents[x]
    BY <1>1, <2>2, <2>3
  <2>4. CASE ents'[x] # ents[x]
    <3>1. c \in EntityTreeCall
      BY <1>3, <2>1, <2>2, <2>4, StoredGroup
    <3>2. c.on = "entity" /\ c.req.de.id = x /\ (ents'[x] = NoEntity => c.req.chain = "DESTROY")
      BY <1>3, <2>1, <2>4, <3>1, StoredEntity, CallTypes
    <3> QED
      BY <2>2, <3>2 DEF EntityPending
  <2> QED
    BY <2>3, <2>4
<1>4. ASSUME NEW w \in Workers, Announce(w)
      PROVE  \/ view'[s].dm[x] = NoEntity
             \/ ents'[x] # NoEntity /\ view'[s].dm[x] = DirectGroups(ents'[x])
             \/ \E u \in Workers :
                  /\ EntityPending(u, x)'
                  /\ ents'[x] = NoEntity => Head(job'[u].left).req.chain = "DESTROY"
  <2>1. PICK c : c = Head(job[w].left)
    OBVIOUS
  <2>2. ents' = ents /\ \A u \in Workers \ {w} : job'[u] = job[u]
    BY <1>4 DEF Announce, Storage
  <2>3. view'[s].dm[x] =
          IF c.on # "entity" \/ c.req.de.id # x THEN view[s].dm[x]
          ELSE IF c.req.chain = "DESTROY" THEN NoEntity
          ELSE IF ents[x] = NoEntity THEN view[s].dm[x] ELSE DirectGroups(ents[x])
    BY <1>4, <2>1, CopyFollows
  <2>4. CASE view'[s].dm[x] = view[s].dm[x] /\ (EntityPending(w, x) => ents[x] = NoEntity
                                                                  /\ c.req.chain # "DESTROY")
    <3>1. ASSUME NEW u \in Workers, EntityPending(u, x),
                 ents[x] = NoEntity => Head(job[u].left).req.chain = "DESTROY"
          PROVE  u # w
      BY <2>1, <2>4, <3>1
    <3> QED
      BY <2>2, <2>4, <3>1 DEF EntityCopyOK, EntityPending
  <2>5. CASE view'[s].dm[x] = NoEntity
    BY <2>5
  <2>6. CASE ents[x] # NoEntity /\ view'[s].dm[x] = DirectGroups(ents[x])
    BY <2>2, <2>6
  <2> QED
    BY <2>1, <2>3, <2>4, <2>5, <2>6 DEF EntityPending
<1>5. CASE Restart
  <2>1. view'[s] = Fresh(ents, groups) /\ ents' = ents
    BY <1>5 DEF Restart, Storage
  <2> QED
    BY <2>1 DEF Fresh
<1> QED
  BY <1>2, <1>3, <1>4, <1>5, CopySteps

(* A request that begins has seen what is stored, and what those have seen *)
(* whose callbacks are about to run.                                       *)
LEMMA Begins ==
  ASSUME SInv, OneServer, [Next]_vars, NEW w \in Workers, job[w].pc = "idle", job'[w].pc # "idle"
  PROVE  /\ Lull /\ Snapshot \in past'[w]
         /\ \A u \in Workers : job[u].pc = "notify" => past[u] \subseteq past'[w]
<1>1. Remember
  BY DEF Next, Step, vars
<1>2. Lull
  BY CopySteps DEF Strike, Announce, Restart
<1>3. Snapshot' = Snapshot
  BY <1>2 DEF Lull, Storage, Snapshot
<1> QED
  BY <1>1, <1>2, <1>3 DEF Remember

(* A request that goes on has seen all that it had seen, and what is       *)
(* stored.                                                                 *)
LEMMA PastKept ==
  ASSUME [Next]_vars, NEW w \in Workers, job[w].pc # "idle", job'[w].pc # "idle",
         Snapshot \in past[w]
  PROVE  past[w] \subseteq past'[w] /\ Snapshot' \in past'[w]
<1>1. CASE Remember
  BY <1>1, PastGrows
<1>2. CASE UNCHANGED vars
  BY <1>2 DEF vars, Snapshot
<1> QED
  BY <1>1, <1>2 DEF Next, Step

(* What was in some directories was in more. *)
LEMMA WasInMore ==
  ASSUME NEW ds, NEW es, ds \subseteq es, NEW x, NEW gs, WasIn(ds, x, gs)
  PROVE  WasIn(es, x, gs)
BY DEF WasIn

(* What a request has seen covers what its copy knows of entities. *)
LEMMA RememberedKept ==
  ASSUME OneServer, SInv, EntityCopyOK, \A u \in Workers : Remembered(u), [Next]_vars,
         NEW w \in Workers
  PROVE  Remembered(w)'
<1> SUFFICES ASSUME job'[w].pc # "idle"
             PROVE  /\ Snapshot' \in past'[w]
                    /\ \A s \in Servers, x \in Entities :
                         view'[s].dm[x] = NoEntity \/ WasIn(past'[w], x, view'[s].dm[x])
  BY DEF Remembered, WasIn
<1>1. CASE job[w].pc # "idle"
  <2>1. past[w] \subseteq past'[w] /\ Snapshot' \in past'[w] /\ Snapshot \in past[w]
    BY <1>1, PastKept DEF Remembered
  <2>2. ASSUME NEW s \in Servers, NEW x \in Entities, view'[s].dm[x] # NoEntity
        PROVE  WasIn(past'[w], x, view'[s].dm[x])
    <3>1. view[s].dm[x] # NoEntity => WasIn(past[w], x, view[s].dm[x])
      BY <1>1 DEF Remembered
    <3>2. CASE view'[s].dm[x] = view[s].dm[x]
      BY <2>1, <2>2, <3>1, <3>2, WasInMore
    <3>3. CASE ents[x] # NoEntity /\ view'[s].dm[x] = DirectGroups(ents[x])
      BY <2>1, <3>3 DEF WasIn, Snapshot
    <3>4. CASE \E u \in Workers : Announce(u)
      <4>1. \E c : view'[s].dm[x] =
              IF c.on # "entity" \/ c.req.de.id # x THEN view[s].dm[x]
              ELSE IF c.req.chain = "DESTROY" THEN NoEntity
              ELSE IF ents[x] = NoEntity THEN view[s].dm[x] ELSE DirectGroups(ents[x])
        BY <3>4, CopyFollows
      <4> QED
        BY <2>2, <3>2, <3>3, <4>1
    <3>5. CASE Lull \/ (\E u \in Workers : Strike(u))
      BY <3>2, <3>5 DEF Lull, Strike
    <3>6. ~Restart
      BY DEF Restart
    <3> QED
      BY <3>4, <3>5, <3>6, CopySteps
  <2> QED
    BY <2>1, <2>2
<1>2. CASE job[w].pc = "idle"
  <2>1. /\ Lull /\ Snapshot \in past'[w]
        /\ \A u \in Workers : job[u].pc = "notify" => past[u] \subseteq past'[w]
    BY <1>2, Begins
  <2>2. ASSUME NEW s \in Servers, NEW x \in Entities, view[s].dm[x] # NoEntity
        PROVE  WasIn(past'[w], x, view[s].dm[x])
    <3>1. CASE ents[x] # NoEntity /\ view[s].dm[x] = DirectGroups(ents[x])
      BY <2>1, <3>1 DEF WasIn, Snapshot
    <3>2. ASSUME NEW u \in Workers, job[u].pc = "notify"
          PROVE  WasIn(past'[w], x, view[s].dm[x])
      <4>1. WasIn(past[u], x, view[s].dm[x])
        BY <2>2, <3>2 DEF Remembered
      <4> QED
        BY <2>1, <3>2, <4>1, WasInMore
    <3> QED
      BY <2>2, <3>1, <3>2 DEF EntityCopyOK, EntityPending
  <2>3. view' = view /\ Snapshot' = Snapshot
    BY <2>1 DEF Lull, Storage, Snapshot
  <2> QED
    BY <2>1, <2>2, <2>3
<1> QED
  BY <1>1, <1>2

-----------------------------------------------------------------------------
(* The members of a group.                                                 *)

(* A handler that lists members makes no call, and lets anyone in.         *)
LEMMA Listers ==
  ASSUME NEW h, Method(h), h.then = "members"
  PROVE  h.access = "anyone" /\ h.calls = <<>>
<1>1. \A access, cap, n, calls : Handler(access, cap, n, calls).then = "reply"
  BY DEF Handler
<1>2. ASSUME NEW x \in Entities PROVE ~EntityMethod(h, x)
  <2>1. \A s : AuthGetToken(x, s).then = "sign"
    BY DEF AuthGetToken, AuthEntity, Open, Handler
  <2> QED
    BY <1>1, <2>1 DEF EntityMethod, EntityInfo, EntityDestroy, EntityLock, EntityUnlock,
       EntityGroups, EntityCreate, EntityUpdate, EntityUM, EntityKVGet, EntityKVAdd, EntityKVDel,
       EntityKVReplace, EntityKeys, GroupAddMember, GroupDelMember, AuthEntity, AuthChangeSecret,
       SystemCapabilities, Open, Guarded, Managed, Rejected
<1>3. ASSUME NEW n \in Groups, GroupMethod(h, n) PROVE h = GroupMembers(n)
  BY <1>1, <1>3 DEF GroupMethod, GroupInfo, GroupDestroy, GroupCreate, GroupUpdate, GroupUM,
     GroupKVGet, GroupKVAdd, GroupKVDel, GroupKVReplace, GroupUpdateRules, SystemCapabilities,
     Open, Guarded, Managed, Rejected
<1>4. ~OtherMethod(h)
  BY <1>1 DEF OtherMethod, EntitySearch, GroupSearch, AuthValidateToken, SystemPing, SystemStatus,
     SystemCapabilities, Open, Guarded
<1>5. \A n : GroupMembers(n).access = "anyone" /\ GroupMembers(n).calls = <<>>
  BY DEF GroupMembers, Open, Handler
<1> QED
  BY <1>2, <1>3, <1>4, <1>5 DEF Method

(* A list of members stays one of those who were there. *)
LEMMA ListingKept ==
  ASSUME MethodsOffered, CInv, SInv', [Next]_vars, NEW w \in Workers
  PROVE  Listing(w)'
<1>0. SInv /\ Remembered(w) /\ Listing(w)
  BY DEF CInv
<1>1. ASSUME job'[w].pc \notin {"members", "done"} PROVE Listing(w)'
  BY <1>1 DEF Listing, SInv, WellPlaced
<1>2. ASSUME job'[w].pc = "done", job'[w].reply = "ok" PROVE Listing(w)'
  BY <1>2 DEF Listing
<1>3. ASSUME job'[w].pc = "done", job'[w].handler.then # "members" PROVE Listing(w)'
  BY <1>3 DEF Listing
<1>4. ASSUME job[w].pc # "idle" PROVE Method(job[w].handler) /\ Snapshot \in past[w]
  BY <1>0, <1>4 DEF SInv, WellPlaced, Remembered
<1>5. CASE job'[w] = job[w] /\ job[w].pc # "idle"
  <2>1. past[w] \subseteq past'[w]
    BY <1>4, <1>5, PastKept
  <2> QED
    BY <1>0, <1>5, <2>1 DEF Listing, SomebodyLeft
<1>6. CASE (job'[w] = job[w] /\ job[w].pc = "idle") \/ job'[w] = IdleJob
  BY <1>1, <1>6, IdleTypes
<1>7. ASSUME NEW s \in Servers, NEW h \in Offers[w], NEW t \in issued \cup {NoToken},
             Arrive(w, s, h, t)
      PROVE  Listing(w)'
  <2>1. job'[w].pc = "check"
    BY <1>0, <1>7, StartsAs
  <2> QED
    BY <1>1, <2>1
<1>8. CASE Check(w)
  <2>1. job[w].pc # "idle"
    BY <1>8 DEF Check
  <2>2. \/ job'[w].pc = "call"
        \/ /\ job'[w].pc = "done" /\ job'[w].handler = job[w].handler
           /\ job[w].handler.access # "anyone"
    BY <1>0, <1>8, Checked
  <2> QED
    BY <1>1, <1>3, <1>4, <2>1, <2>2, Listers
<1>9. CASE Call(w)
  <2>1. /\ job[w].pc = "call" /\ job[w].handler.calls # <<>>
        /\ job'[w].pc \in {"call", "notify"}
           \/ (job'[w].pc = "done" /\ job'[w].handler = job[w].handler)
    BY <1>0, <1>9, Called
  <2> QED
    BY <1>1, <1>3, <1>4, <2>1, Listers
<1>10. CASE Notify(w)
  <2>1. job'[w].pc = "call"
    BY <1>0, <1>10, Notified
  <2> QED
    BY <1>1, <2>1
<1>11. CASE Finish(w) /\ Remember
  <2> DEFINE s == job[w].server
             n == job[w].handler.subject
  <2>1. /\ job[w].pc = "call" /\ job'[w].handler = job[w].handler
        /\ \/ job'[w].pc = "done" /\ job'[w].reply = "ok"
           \/ /\ job[w].handler.then = "members"
              /\ job'[w].pc = "members" /\ job'[w].reply = "none"
              /\ job'[w].listed = MembersOfGroup(s, n)
           \/ job'[w].pc = "entity"
    BY <1>0, <1>11, Finished
  <2>2. CASE /\ job[w].handler.then = "members"
             /\ job'[w].pc = "members" /\ job'[w].reply = "none"
             /\ job'[w].listed = MembersOfGroup(s, n)
    <3>1. past[w] \subseteq past'[w] /\ s \in Servers
      BY <1>0, <1>4, <2>1, <2>2, PastKept, Running
    <3>2. ASSUME NEW x \in MembersOfGroup(s, n) PROVE \E d \in past'[w] : d.ents[x] # NoEntity
      <4>1. x \in Entities /\ view[s].dm[x] # NoEntity
        BY DEF MembersOfGroup, GroupsForEntity
      <4>2. WasIn(past[w], x, view[s].dm[x])
        BY <1>0, <2>1, <3>1, <4>1 DEF Remembered
      <4> QED
        BY <3>1, <4>2 DEF WasIn
    <3> QED
      BY <2>1, <2>2, <3>2 DEF Listing
  <2> QED
    BY <1>1, <1>2, <2>1, <2>2
<1>12. ASSUME NEW x \in Entities, LoadMember(w, x)
       PROVE  Listing(w)'
  <2>1. /\ job[w].pc = "members" /\ x \in job[w].listed /\ job'[w].handler = job[w].handler
        /\ \/ ents[x] = NoEntity /\ job'[w].pc = "done" /\ job'[w].reply = "internal"
           \/ /\ job'[w].pc = "members" /\ job'[w].reply = "none"
              /\ job'[w].listed \subseteq job[w].listed
    BY <1>0, <1>12, Loaded
  <2>2. past[w] \subseteq past'[w] /\ Snapshot \in past'[w]
    BY <1>4, <2>1, PastKept
  <2>3. job[w].handler.then = "members" /\ \E d \in past[w] : d.ents[x] # NoEntity
    BY <1>0, <2>1 DEF Listing
  <2>4. CASE ents[x] = NoEntity /\ job'[w].pc = "done" /\ job'[w].reply = "internal"
    <3>1. SomebodyLeft(w)'
      BY <2>2, <2>3, <2>4 DEF SomebodyLeft, Snapshot
    <3> QED
      BY <2>4, <3>1 DEF Listing
  <2>5. CASE /\ job'[w].pc = "members" /\ job'[w].reply = "none"
             /\ job'[w].listed \subseteq job[w].listed
    BY <1>0, <2>1, <2>2, <2>5 DEF Listing
  <2> QED
    BY <2>1, <2>4, <2>5
<1>13. CASE MembersListed(w) \/ Sign(w)
  <2>1. job'[w].pc = "done" /\ job'[w].reply = "ok"
    BY <1>0, <1>13, AllListed, Signed
  <2> QED
    BY <1>2, <2>1
<1>14. CASE FetchClaimant(w) \/ ListGroups(w) \/ (\E n \in Groups : AddGroupCaps(w, n))
  <2>1. job'[w].pc \in {"groups", "groupcaps"}
    BY <1>0, <1>14, Gathers
  <2> QED
    BY <1>1, <2>1
<1>15. CASE Return(w)
  <2>1. job'[w] = IdleJob
    BY <1>0, <1>15, Moves DEF Return
  <2> QED
    BY <1>6, <2>1
<1>16. CASE WorkerStep(w) /\ Remember
  BY <1>8, <1>9, <1>10, <1>11, <1>12, <1>13, <1>14, <1>15, <1>16 DEF WorkerStep, Progress
<1> QED
  BY <1>0, <1>5, <1>6, <1>7, <1>16, OwnStep

(* At the start every copy is exact and no request is under way. *)
LEMMA FirstCopies ==
  Init => EntityCopyOK /\ \A w \in Workers : Remembered(w) /\ Listing(w)
<1> SUFFICES ASSUME Init PROVE EntityCopyOK /\ \A w \in Workers : Remembered(w) /\ Listing(w)
  OBVIOUS
<1>1. \A s \in Servers : view[s] = Fresh(ents, groups)
  BY DEF Init
<1>2. EntityCopyOK
  <2>1. ASSUME NEW s \in Servers, NEW x \in Entities
        PROVE  view[s].dm[x] = IF ents[x] = NoEntity THEN NoEntity ELSE DirectGroups(ents[x])
    <3>1. Fresh(ents, groups).dm[x] =
            IF ents[x] = NoEntity THEN NoEntity ELSE DirectGroups(ents[x])
      BY DEF Fresh
    <3> QED
      BY <1>1, <3>1
  <2> QED
    BY <2>1 DEF EntityCopyOK
<1>3. \A w \in Workers : job[w] = IdleJob
  BY DEF Init
<1>4. \A w \in Workers : Remembered(w) /\ Listing(w)
  BY <1>3 DEF Remembered, Listing, IdleJob
<1> QED
  BY <1>2, <1>4

(* Every step keeps what is known of copies and of lists. *)
LEMMA CopiesKept ==
  ASSUME MethodsOffered, OneServer, CInv, [Next]_vars
  PROVE  CInv'
<1>1. SInv'
  BY StepTypes DEF CInv
<1>2. EntityCopyOK'
  BY EntityCopyKept DEF CInv
<1>3. \A w \in Workers : Remembered(w)'
  BY RememberedKept DEF CInv
<1>4. \A w \in Workers : Listing(w)'
  BY <1>1, ListingKept
<1> QED
  BY <1>1, <1>2, <1>3, <1>4 DEF CInv

(* The members of a group cannot be listed only when one of them is gone   *)
(* who was there since the request began: the copy in memory is never so   *)
(* far behind that it names somebody whom the request cannot have seen.    *)
THEOREM MembersThereOnce ==
  ASSUME MethodsOffered, OneServer
  PROVE  Spec => []MembersFailOnlyIfGone
<1>1. Init => CInv
  BY FirstTypes, FirstCopies DEF CInv
<1>2. CInv /\ [Next]_vars => CInv'
  BY CopiesKept
<1>3. CInv => MembersFailOnlyIfGone
  BY DEF CInv, Listing, SomebodyLeft, MembersFailOnlyIfGone
<1> QED
  BY <1>1, <1>2, <1>3, PTL DEF Spec

-----------------------------------------------------------------------------
(* The rules that the copy knows.                                          *)

(* A call that names no rule keeps those of its group. *)
LEMMA RulesKept ==
  ASSUME NEW r \in GroupRequest, r.chain \notin {"CREATE", "DESTROY"}, r.dg.rule = NoRule,
         NEW g \in Group
  PROVE  EditedGroup(r, g).rules = g.rules
<1>1. r.dg.rule.mode = "NONE"
  BY DEF NoRule
<1>2. Expanded(g.rules, r.dg.rule) = g.rules
  BY <1>1 DEF Expanded
<1>3. CASE r.chain = "FETCH"
  BY <1>3 DEF EditedGroup
<1>4. CASE r.chain = "MODIFY_EXPANSIONS"
  <2>1. EditedGroup(r, g) = [g EXCEPT !.rules = Expanded(g.rules, r.dg.rule)]
    BY <1>1, <1>4 DEF EditedGroup, PatchGroupExpansions
  <2> QED
    BY <1>2, <2>1
<1>5. CASE r.chain \in GroupEditChains
  <2>1. /\ GroupEditHook[r.chain] \in GroupEditHooks
        /\ EditedGroup(r, g) = GroupHookResult(GroupEditHook[r.chain], g, r.dg)
    BY <1>5, GroupChainsDistinct DEF EditedGroup, GroupEditHooks
  <2>2. MergeGroupMeta(g, r.dg).rules = g.rules
    BY <1>2 DEF MergeGroupMeta, Group
  <2>3. /\ \A add : ManageGroupCapabilities(add, g, r.dg).rules = g.rules
        /\ \A mode : ManageGroupUM(mode, g, r.dg).rules = g.rules
        /\ \A mode : GroupKVChange(mode, g, r.dg).rules = g.rules
    BY DEF ManageGroupCapabilities, ManageGroupUM, GroupKVChange, Group
  <2>4. GroupEditHook[r.chain] \in
          {"merge-group-meta", "set-group-capability", "remove-group-capability",
           "add-untyped-metadata", "del-untyped-metadata-fuzzy", "del-untyped-metadata-exact",
           "kv-add", "kv-del", "kv-replace"}
    BY <1>5 DEF GroupEditHook, GroupEditChains
  <2> QED
    BY <2>1, <2>2, <2>3, <2>4 DEF GroupHookResult
<1> QED
  BY <1>3, <1>4, <1>5 DEF GroupRequest, GroupChains

(* A write keeps the rules of all groups but its own; its own too, unless  *)
(* its call changes rules.                                                 *)
LEMMA StoredRules ==
  ASSUME SInv, NEW w \in Workers, Strike(w), NEW c, c = Head(job[w].left)
  PROVE  /\ ~ChangesRules(c) => RulesOf(groups)' = RulesOf(groups)
         /\ ~ChangesRules(c) =>
              \A m \in Groups : (groups'[m] = NoGroup) <=> (groups[m] = NoGroup)
         /\ ChangesRules(c) =>
              /\ \A m \in Groups \ {c.req.dg.name} : RulesOf(groups)'[m] = RulesOf(groups)[m]
              /\ (groups'[c.req.dg.name] = NoGroup) <=> (c.req.chain = "DESTROY")
<1>1. c \in EntityTreeCall \cup GroupTreeCall /\ DirectoryOK
  BY DEF Strike, SInv
<1>2. CASE c \in EntityTreeCall
  <2>1. groups' = groups /\ ~ChangesRules(c)
    BY <1>2, StoredEntity, CallTypes DEF ChangesRules
  <2> QED
    BY <2>1
<1>3. CASE c \in GroupTreeCall
  <2> DEFINE n == c.req.dg.name
  <2>1. /\ n \in Groups /\ \A m \in Groups \ {n} : groups'[m] = groups[m]
        /\ (groups'[n] = NoGroup) <=> (c.req.chain = "DESTROY")
        /\ c.req.chain \notin {"CREATE", "DESTROY"} =>
             groups[n] \in Group /\ groups'[n] = EditedGroup(c.req, groups[n])
    BY <1>3, StoredGroup
  <2>2. c.on = "group" /\ c.req \in GroupRequest
    BY <1>3, CallTypes DEF GroupTreeCall
  <2>3. \A m \in Groups \ {n} : RulesOf(groups)'[m] = RulesOf(groups)[m]
    BY <2>1 DEF RulesOf
  <2>4. ASSUME ~ChangesRules(c)
        PROVE  /\ RulesOf(groups)' = RulesOf(groups)
               /\ \A m \in Groups : (groups'[m] = NoGroup) <=> (groups[m] = NoGroup)
    <3>1. c.req.chain \notin {"CREATE", "DESTROY"} /\ c.req.dg.rule = NoRule
      BY <2>2, <2>4 DEF ChangesRules
    <3>2. groups[n] \in Group /\ groups'[n] = EditedGroup(c.req, groups[n])
      BY <2>1, <3>1
    <3>3. groups[n] # NoGroup /\ groups'[n] # NoGroup
      BY <2>1, <3>1, <3>2, GroupZeroValuesAssumption
    <3>4. groups'[n].rules = groups[n].rules
      BY <2>2, <3>1, <3>2, RulesKept
    <3>5. \A m \in Groups : RulesOf(groups)'[m] = RulesOf(groups)[m]
      BY <2>1, <3>3, <3>4 DEF RulesOf
    <3>6. RulesOf(groups)' = RulesOf(groups)
      BY <3>5 DEF RulesOf
    <3> QED
      BY <2>1, <3>3, <3>6
  <2> QED
    BY <2>1, <2>3, <2>4
<1> QED
  BY <1>1, <1>2, <1>3

(* Two rule maps are the same when they agree on every group. *)
LEMMA SameRules ==
  ASSUME NEW r \in RuleMap, NEW gs, \A m \in Groups : r[m] = RulesOf(gs)[m]
  PROVE  r = RulesOf(gs)
BY DEF RuleMap, RulesOf

(* One request at most waits for callbacks for rules. *)
LEMMA OnePending ==
  ASSUME SInv, RulesApart, NEW u \in Workers, RulesPending(u), NEW w \in Workers, Rewriting(w)
  PROVE  u = w
<1>1. \E k \in DOMAIN job[u].handler.calls : Head(job[u].left) = job[u].handler.calls[k]
  BY Announced DEF RulesPending
<1>2. Rewriting(u)
  BY <1>1 DEF RulesPending, Rewriting
<1> QED
  BY <1>2 DEF RulesApart

(* The callbacks leave the rules of the copy, or bring all up to date.     *)
LEMMA RulesFollow ==
  ASSUME SInv, OneServer, RuleCopyOK, RulesApart, NEW w \in Workers, Announce(w),
         NEW s \in Servers
  PROVE  \/ view'[s].rules = RulesOf(groups)
         \/ view'[s].rules = view[s].rules /\ ~RulesPending(w)
<1>1. PICK c : c = Head(job[w].left)
  OBVIOUS
<1>2. /\ view'[s].rules \in RuleMap /\ view[s].rules \in RuleMap
      /\ \A n \in Groups :
           view'[s].rules[n] =
             IF c.on = "entity" \/ c.req.dg.name # n THEN view[s].rules[n]
             ELSE IF c.req.chain = "DESTROY" THEN NoGroup
             ELSE IF groups[n] = NoGroup THEN view[s].rules[n] ELSE groups[n].rules
  BY <1>1, CopyFollows
<1>3. c \in EntityTreeCall \cup GroupTreeCall /\ job[w].pc = "notify"
  BY <1>1 DEF Announce
<1>4. CASE c.on = "entity"
  <2>1. view'[s].rules = view[s].rules
    BY <1>2, <1>4 DEF RuleMap
  <2> QED
    BY <1>1, <1>4, <2>1 DEF ChangesRules, RulesPending
<1>5. CASE c.on # "entity"
  <2>1. PICK n : n = c.req.dg.name
    OBVIOUS
  <2>2. c \in GroupTreeCall /\ c.on = "group" /\ n \in Groups
    BY <1>3, <1>5, <2>1, CallTypes DEF GroupTreeCall, GroupRequest, DataGroup
  <2>3. \A m \in Groups \ {n} : view'[s].rules[m] = view[s].rules[m]
    BY <1>2, <2>1
  <2>4. ASSUME NEW u \in Workers, RulesPending(u), Head(job[u].left).req.dg.name = n
        PROVE  \A m \in Groups \ {n} : view[s].rules[m] = RulesOf(groups)[m]
    <3>1. Rewriting(u)
      <4>1. \E k \in DOMAIN job[u].handler.calls : Head(job[u].left) = job[u].handler.calls[k]
        BY <2>4, Announced DEF RulesPending
      <4> QED
        BY <2>4, <4>1 DEF RulesPending, Rewriting
    <3>2. \A v \in Workers : RulesPending(v) => v = u
      BY <3>1, OnePending
    <3> QED
      BY <2>4, <3>2 DEF RuleCopyOK
  <2>5. CASE RulesPending(w)
    <3>1. \A m \in Groups \ {n} : view[s].rules[m] = RulesOf(groups)[m]
      BY <1>1, <2>1, <2>4, <2>5
    <3>2. (groups[n] = NoGroup) <=> (c.req.chain = "DESTROY")
      BY <1>1, <2>1, <2>5 DEF RuleCopyOK
    <3>3. view'[s].rules[n] = RulesOf(groups)[n]
      BY <1>2, <1>5, <2>1, <2>2, <3>2 DEF RulesOf
    <3>4. \A m \in Groups : view'[s].rules[m] = RulesOf(groups)[m]
      BY <2>3, <3>1, <3>3
    <3> QED
      BY <1>2, <3>4, SameRules
  <2>6. CASE ~RulesPending(w)
    <3>1. c.req.chain # "DESTROY"
      BY <1>1, <1>3, <2>2, <2>6 DEF RulesPending, ChangesRules
    <3>2. view'[s].rules[n] = view[s].rules[n] \/ view'[s].rules[n] = RulesOf(groups)[n]
      <4>1. RulesOf(groups)[n] = IF groups[n] = NoGroup THEN NoGroup ELSE groups[n].rules
        BY <2>2 DEF RulesOf
      <4> QED
        BY <1>2, <1>5, <2>1, <2>2, <3>1, <4>1
    <3>3. CASE view'[s].rules[n] = view[s].rules[n]
      <4>1. view'[s].rules = view[s].rules
        BY <1>2, <2>3, <3>3 DEF RuleMap
      <4> QED
        BY <2>6, <4>1
    <3>4. CASE view'[s].rules[n] = RulesOf(groups)[n] /\ view[s].rules[n] # RulesOf(groups)[n]
      <4>1. \E u \in Workers : RulesPending(u) /\ Head(job[u].left).req.dg.name = n
        BY <2>2, <3>4 DEF RuleCopyOK
      <4>2. \A m \in Groups : view'[s].rules[m] = RulesOf(groups)[m]
        BY <2>3, <2>4, <3>4, <4>1
      <4> QED
        BY <1>2, <4>2, SameRules
    <3> QED
      BY <3>2, <3>3, <3>4
  <2> QED
    BY <2>5, <2>6
<1> QED
  BY <1>4, <1>5

(* The copy stays behind by the rules of one group at most. *)
LEMMA RuleCopyKept ==
  ASSUME OneServer, SInv, RuleCopyOK, RulesApart, [Next]_vars
  PROVE  RuleCopyOK'
<1>1. CASE Lull
  <2>1. groups' = groups /\ view' = view
    BY <1>1 DEF Lull, Storage
  <2>2. \A u \in Workers : RulesPending(u) \/ RulesPending(u)' => job'[u] = job[u]
    BY <1>1 DEF Lull, RulesPending
  <2>3. \A u \in Workers : RulesPending(u)' <=> RulesPending(u)
    BY <2>2 DEF RulesPending
  <2>4. RulesOf(groups)' = RulesOf(groups)
    BY <2>1 DEF RulesOf
  <2>5. ASSUME NEW s \in Servers, NEW m \in Groups, view'[s].rules[m] # RulesOf(groups)'[m]
        PROVE  \E u \in Workers : RulesPending(u)' /\ Head(job'[u].left).req.dg.name = m
    <3>1. PICK u \in Workers : RulesPending(u) /\ Head(job[u].left).req.dg.name = m
      BY <2>1, <2>4, <2>5 DEF RuleCopyOK
    <3> QED
      BY <2>2, <2>3, <3>1
  <2>6. ASSUME NEW u \in Workers, RulesPending(u)'
        PROVE  (groups'[Head(job'[u].left).req.dg.name] = NoGroup)
                 <=> (Head(job'[u].left).req.chain = "DESTROY")
    BY <2>1, <2>2, <2>3, <2>6 DEF RuleCopyOK
  <2> QED
    BY <2>5, <2>6 DEF RuleCopyOK
<1>2. ASSUME NEW w \in Workers, Strike(w)
      PROVE  RuleCopyOK'
  <2>1. PICK c : c = Head(job[w].left)
    OBVIOUS
  <2>2. /\ UNCHANGED view /\ c \in EntityTreeCall \cup GroupTreeCall
        /\ job[w].pc = "call" /\ job[w].left # <<>>
        /\ job'[w].pc = "notify" /\ Head(job'[w].left) = c
        /\ \A u \in Workers \ {w} : job'[u] = job[u]
    BY <1>2, <2>1 DEF Strike
  <2>3. RulesPending(w)' <=> ChangesRules(c)
    BY <2>2 DEF RulesPending
  <2>4. \A u \in Workers \ {w} : RulesPending(u)' <=> RulesPending(u)
    BY <2>2 DEF RulesPending
  <2>5. ~RulesPending(w)
    BY <2>2 DEF RulesPending
  <2>6. CASE ~ChangesRules(c)
    <3>1. /\ RulesOf(groups)' = RulesOf(groups)
          /\ \A m \in Groups : (groups'[m] = NoGroup) <=> (groups[m] = NoGroup)
      BY <1>2, <2>1, <2>6, StoredRules
    <3>2. ASSUME NEW s \in Servers, NEW m \in Groups, view'[s].rules[m] # RulesOf(groups)'[m]
          PROVE  \E u \in Workers : RulesPending(u)' /\ Head(job'[u].left).req.dg.name = m
      <4>1. PICK u \in Workers : RulesPending(u) /\ Head(job[u].left).req.dg.name = m
        BY <2>2, <3>1, <3>2 DEF RuleCopyOK
      <4> QED
        BY <2>2, <2>4, <2>5, <4>1
    <3>3. ASSUME NEW u \in Workers, RulesPending(u)'
          PROVE  (groups'[Head(job'[u].left).req.dg.name] = NoGroup)
                   <=> (Head(job'[u].left).req.chain = "DESTROY")
      <4>1. u # w /\ RulesPending(u) /\ job'[u] = job[u]
        BY <2>2, <2>3, <2>4, <2>6, <3>3
      <4>2. Head(job[u].left).req.dg.name \in Groups
        <5>1. Head(job[u].left) \in EntityTreeCall \cup GroupTreeCall
          BY <4>1, Announced DEF RulesPending
        <5>2. Head(job[u].left) \in GroupTreeCall
          BY <4>1, <5>1, CallTypes DEF RulesPending, ChangesRules
        <5>3. Head(job[u].left).req \in GroupRequest
          BY <5>2 DEF GroupTreeCall
        <5> QED
          BY <5>3 DEF GroupRequest, DataGroup
      <4> QED
        BY <3>1, <4>1, <4>2 DEF RuleCopyOK
    <3> QED
      BY <3>2, <3>3 DEF RuleCopyOK
  <2>7. CASE ChangesRules(c)
    <3>1. /\ \A m \in Groups \ {c.req.dg.name} : RulesOf(groups)'[m] = RulesOf(groups)[m]
          /\ (groups'[c.req.dg.name] = NoGroup) <=> (c.req.chain = "DESTROY")
      BY <1>2, <2>1, <2>7, StoredRules
    <3>2. Rewriting(w)
      <4>1. \E k \in DOMAIN job[w].handler.calls : c = job[w].handler.calls[k]
        BY <2>1, <2>2, NextCall
      <4> QED
        BY <2>2, <2>7, <4>1 DEF Rewriting
    <3>3. \A u \in Workers : ~RulesPending(u)
      BY <2>5, <3>2, OnePending
    <3>4. ASSUME NEW s \in Servers, NEW m \in Groups, view'[s].rules[m] # RulesOf(groups)'[m]
          PROVE  \E u \in Workers : RulesPending(u)' /\ Head(job'[u].left).req.dg.name = m
      <4>1. view'[s].rules[m] = RulesOf(groups)[m]
        BY <2>2, <3>3 DEF RuleCopyOK
      <4>2. m = c.req.dg.name
        BY <3>1, <3>4, <4>1
      <4> QED
        BY <2>2, <2>3, <2>7, <4>2
    <3>5. ASSUME NEW u \in Workers, RulesPending(u)'
          PROVE  (groups'[Head(job'[u].left).req.dg.name] = NoGroup)
                   <=> (Head(job'[u].left).req.chain = "DESTROY")
      <4>1. u = w
        BY <2>4, <3>3, <3>5
      <4> QED
        BY <2>2, <3>1, <4>1
    <3> QED
      BY <3>4, <3>5 DEF RuleCopyOK
  <2> QED
    BY <2>6, <2>7
<1>3. ASSUME NEW w \in Workers, Announce(w)
      PROVE  RuleCopyOK'
  <2>1. /\ groups' = groups /\ job'[w].pc = "call"
        /\ \A u \in Workers \ {w} : job'[u] = job[u]
    BY <1>3 DEF Announce, Storage
  <2>2. ~RulesPending(w)' /\ \A u \in Workers \ {w} : RulesPending(u)' <=> RulesPending(u)
    BY <2>1 DEF RulesPending
  <2>3. ASSUME NEW s \in Servers, NEW m \in Groups, view'[s].rules[m] # RulesOf(groups)'[m]
        PROVE  \E u \in Workers : RulesPending(u)' /\ Head(job'[u].left).req.dg.name = m
    <3>1. view'[s].rules = view[s].rules /\ ~RulesPending(w)
      BY <1>3, <2>1, <2>3, RulesFollow
    <3>2. PICK u \in Workers : RulesPending(u) /\ Head(job[u].left).req.dg.name = m
      BY <2>1, <2>3, <3>1 DEF RuleCopyOK
    <3> QED
      BY <2>1, <2>2, <3>1, <3>2
  <2> QED
    BY <2>1, <2>2, <2>3 DEF RuleCopyOK
<1>4. CASE Restart
  <2>1. \A u \in Workers : ~RulesPending(u)'
    BY <1>4 DEF Restart, RulesPending
  <2>2. ASSUME NEW s \in Servers PROVE view'[s].rules = RulesOf(groups)'
    <3>1. Fresh(ents, groups).rules = RulesOf(groups)
      BY DEF Fresh
    <3>2. view'[s] = Fresh(ents, groups) /\ groups' = groups
      BY <1>4 DEF Restart, Storage
    <3> QED
      BY <3>1, <3>2
  <2> QED
    BY <2>1, <2>2 DEF RuleCopyOK
<1> QED
  BY <1>1, <1>2, <1>3, <1>4, CopySteps

(* What a request has seen covers what its copy knows of rules. *)
LEMMA RulesRememberedKept ==
  ASSUME OneServer, SInv, RuleCopyOK, RulesApart,
         \A u \in Workers : Remembered(u) /\ RulesRemembered(u), [Next]_vars, NEW w \in Workers
  PROVE  RulesRemembered(w)'
<1> SUFFICES ASSUME job'[w].pc # "idle", NEW s \in Servers
             PROVE  \E e \in past'[w] : view'[s].rules = RulesOf(e.groups)
  BY DEF RulesRemembered
<1>1. CASE job[w].pc # "idle"
  <2>1. past[w] \subseteq past'[w] /\ Snapshot \in past[w]
    BY <1>1, PastKept DEF Remembered
  <2>2. PICK e \in past[w] : view[s].rules = RulesOf(e.groups)
    BY <1>1 DEF RulesRemembered
  <2>3. CASE view'[s].rules = view[s].rules
    BY <2>1, <2>2, <2>3
  <2>4. CASE view'[s].rules = RulesOf(groups)
    BY <2>1, <2>4 DEF Snapshot
  <2>5. ~Restart
    BY DEF Restart
  <2> QED
    BY <2>3, <2>4, <2>5, CopySteps, RulesFollow DEF Lull, Strike
<1>2. CASE job[w].pc = "idle"
  <2>1. /\ Lull /\ Snapshot \in past'[w]
        /\ \A u \in Workers : job[u].pc = "notify" => past[u] \subseteq past'[w]
    BY <1>2, Begins
  <2>2. view' = view
    BY <2>1 DEF Lull
  <2>3. CASE \A m \in Groups : view[s].rules[m] = RulesOf(groups)[m]
    <3>1. view[s].rules \in RuleMap
      BY DEF SInv, DirectoryOK
    <3>2. view[s].rules = RulesOf(groups)
      BY <2>3, <3>1, SameRules
    <3> QED
      BY <2>1, <2>2, <3>2 DEF Snapshot
  <2>4. CASE \E m \in Groups : view[s].rules[m] # RulesOf(groups)[m]
    <3>1. PICK u \in Workers : RulesPending(u)
      BY <2>4 DEF RuleCopyOK
    <3>2. \E e \in past[u] : view[s].rules = RulesOf(e.groups)
      BY <3>1 DEF RulesPending, RulesRemembered
    <3> QED
      BY <2>1, <2>2, <3>1, <3>2 DEF RulesPending
  <2> QED
    BY <2>3, <2>4
<1> QED
  BY <1>1, <1>2

-----------------------------------------------------------------------------
(* Claims.                                                                 *)

(* Where the capabilities come from that an entity could have. *)
LEMMA Sources ==
  ASSUME NEW ds, NEW x, NEW cap
  PROVE  cap \in CouldHave(ds, x) <=>
           \/ \E d \in ds : d.ents[x] # NoEntity /\ cap \in RequestMeta(d.ents[x]).caps
           \/ \E f \in ds, n \in Groups :
                f.groups[n] # NoGroup /\ cap \in f.groups[n].caps /\ MayBeIn(ds, x, n)
<1> DEFINE own == UNION {IF d.ents[x] = NoEntity THEN {}
                         ELSE RequestMeta(d.ents[x]).caps : d \in ds}
           pairs == {q \in ds \X Groups : \E d, e \in ds :
                       d.ents[x] # NoEntity
                       /\ DirectGroups(d.ents[x]) \in Meaning(RulesOf(e.groups))[q[2]]}
           lent == UNION {IF p[1].groups[p[2]] = NoGroup THEN {} ELSE p[1].groups[p[2]].caps :
                            p \in pairs}
<1>1. CouldHave(ds, x) = own \cup lent
  BY DEF CouldHave
<1>2. cap \in own <=> \E d \in ds : d.ents[x] # NoEntity /\ cap \in RequestMeta(d.ents[x]).caps
  OBVIOUS
<1>3. \A f \in ds, n \in Groups : <<f, n>> \in pairs <=> MayBeIn(ds, x, n)
  BY DEF MayBeIn
<1>4. \A p \in pairs : p[1] \in ds /\ p[2] \in Groups /\ p = <<p[1], p[2]>>
  OBVIOUS
<1>5. cap \in lent <=>
        \E p \in pairs : p[1].groups[p[2]] # NoGroup /\ cap \in p[1].groups[p[2]].caps
  <2> HIDE DEF pairs
  <2> QED
    OBVIOUS
<1> HIDE DEF own, lent, pairs
<1>6. cap \in lent <=> \E f \in ds, n \in Groups :
        f.groups[n] # NoGroup /\ cap \in f.groups[n].caps /\ MayBeIn(ds, x, n)
  <2>1. ASSUME cap \in lent
        PROVE  \E f \in ds, n \in Groups :
                 f.groups[n] # NoGroup /\ cap \in f.groups[n].caps /\ MayBeIn(ds, x, n)
    <3>1. PICK p \in pairs : p[1].groups[p[2]] # NoGroup /\ cap \in p[1].groups[p[2]].caps
      BY <1>5, <2>1
    <3>2. p[1] \in ds /\ p[2] \in Groups /\ MayBeIn(ds, x, p[2])
      BY <1>3, <1>4, <3>1
    <3> QED
      BY <3>1, <3>2
  <2>2. ASSUME NEW f \in ds, NEW n \in Groups, f.groups[n] # NoGroup, cap \in f.groups[n].caps,
               MayBeIn(ds, x, n)
        PROVE  cap \in lent
    <3>1. PICK p : p = <<f, n>>
      OBVIOUS
    <3>2. p \in pairs /\ p[1] = f /\ p[2] = n
      BY <1>3, <2>2, <3>1
    <3> QED
      BY <1>5, <2>2, <3>2
  <2> QED
    BY <2>1, <2>2
<1> QED
  BY <1>1, <1>2, <1>6

(* With more directories, an entity could have more. *)
LEMMA CouldHaveMore ==
  ASSUME NEW ds, NEW es, ds \subseteq es, NEW x
  PROVE  /\ CouldHave(ds, x) \subseteq CouldHave(es, x)
         /\ \A n : MayBeIn(ds, x, n) => MayBeIn(es, x, n)
<1>1. \A n : MayBeIn(ds, x, n) => MayBeIn(es, x, n)
  BY DEF MayBeIn
<1>2. ASSUME NEW cap \in CouldHave(ds, x) PROVE cap \in CouldHave(es, x)
  <2>1. CASE \E d \in ds : d.ents[x] # NoEntity /\ cap \in RequestMeta(d.ents[x]).caps
    BY <2>1, Sources
  <2>2. CASE \E f \in ds, n \in Groups :
               f.groups[n] # NoGroup /\ cap \in f.groups[n].caps /\ MayBeIn(ds, x, n)
    BY <1>1, <2>2, Sources
  <2> QED
    BY <1>2, <2>1, <2>2, Sources
<1> QED
  BY <1>1, <1>2

(* What a request has collected stays traceable when it has seen more.     *)
LEMMA ClaimingStays ==
  ASSUME [Next]_vars, NEW w \in Workers, job[w].pc # "idle", job'[w] = job[w],
         Snapshot \in past[w], Claiming(w)
  PROVE  Claiming(w)'
<1>1. past[w] \subseteq past'[w]
  BY PastKept
<1>2. PICK x : x = job[w].handler.subject
  OBVIOUS
<1>3. /\ CouldHave(past[w], x) \subseteq CouldHave(past'[w], x)
      /\ \A n : MayBeIn(past[w], x, n) => MayBeIn(past'[w], x, n)
  BY <1>1, CouldHaveMore
<1> QED
  BY <1>2, <1>3 DEF Claiming

(* What a request finds of its subject, the copy's groups and a group's    *)
(* capabilities is traceable.                                              *)
LEMMA Found ==
  ASSUME SInv, NEW w \in Workers, Remembered(w), RulesRemembered(w), job[w].pc # "idle",
         NEW x \in Entities
  PROVE  /\ ents[x] # NoEntity => RequestMeta(ents[x]).caps \subseteq CouldHave(past[w], x)
         /\ \A n \in GroupsForEntity(job[w].server, x) : MayBeIn(past[w], x, n)
         /\ \A n \in Groups : groups[n] # NoGroup /\ MayBeIn(past[w], x, n) =>
              groups[n].caps \subseteq CouldHave(past[w], x)
<1>1. Snapshot \in past[w] /\ Snapshot.ents = ents /\ Snapshot.groups = groups
  BY DEF Remembered, Snapshot
<1>2. ents[x] # NoEntity => RequestMeta(ents[x]).caps \subseteq CouldHave(past[w], x)
  BY <1>1, Sources
<1>3. ASSUME NEW n \in GroupsForEntity(job[w].server, x) PROVE MayBeIn(past[w], x, n)
  <2>1. PICK s : s = job[w].server
    OBVIOUS
  <2>2. s \in Servers
    BY <2>1, Running
  <2>3. view[s].dm[x] # NoEntity /\ view[s].dm[x] \in Meaning(view[s].rules)[n]
    BY <1>3, <2>1 DEF GroupsForEntity
  <2>4. PICK d \in past[w] : d.ents[x] # NoEntity /\ view[s].dm[x] = DirectGroups(d.ents[x])
    BY <2>2, <2>3 DEF Remembered, WasIn
  <2>5. PICK e \in past[w] : view[s].rules = RulesOf(e.groups)
    BY <2>2 DEF RulesRemembered
  <2> QED
    BY <2>3, <2>4, <2>5 DEF MayBeIn
<1>4. ASSUME NEW n \in Groups, groups[n] # NoGroup, MayBeIn(past[w], x, n)
      PROVE  groups[n].caps \subseteq CouldHave(past[w], x)
  BY <1>1, <1>4, Sources
<1> QED
  BY <1>2, <1>3, <1>4

(* What is collected for a token stays traceable. *)
LEMMA ClaimingKept ==
  ASSUME TInv, SInv', [Next]_vars, NEW w \in Workers
  PROVE  Claiming(w)'
<1>0. SInv /\ Remembered(w) /\ RulesRemembered(w) /\ Listing(w) /\ Claiming(w)
  BY DEF TInv, CInv
<1>1. ASSUME job'[w].pc \in {"check", "call", "notify", "entity"},
             job'[w].caps = {}, job'[w].listed = {}
      PROVE  Claiming(w)'
  BY <1>1 DEF Claiming
<1>2. ASSUME job'[w].pc \in {"idle", "members"} PROVE Claiming(w)'
  BY <1>2 DEF Claiming
<1>3. ASSUME job'[w].pc = "done", job'[w].reply # "ok" \/ job'[w].handler.then # "sign"
      PROVE  Claiming(w)'
  BY <1>3 DEF Claiming
<1>4. job[w].pc # "idle" => Snapshot \in past[w]
  BY <1>0 DEF Remembered
<1>5. CASE job'[w] = job[w] /\ job[w].pc # "idle"
  BY <1>0, <1>4, <1>5, ClaimingStays
<1>6. CASE (job'[w] = job[w] /\ job[w].pc = "idle") \/ job'[w] = IdleJob
  BY <1>2, <1>6, IdleTypes
<1>7. ASSUME NEW s \in Servers, NEW h \in Offers[w], NEW t \in issued \cup {NoToken},
             Arrive(w, s, h, t)
      PROVE  Claiming(w)'
  <2>1. job'[w].pc = "check" /\ job'[w].caps = {} /\ job'[w].listed = {}
    BY <1>0, <1>7, StartsAs
  <2> QED
    BY <1>1, <2>1
<1>8. CASE Check(w)
  <2>1. job[w].pc = "check"
    BY <1>8 DEF Check
  <2>2. job[w].caps = {} /\ job[w].listed = {}
    BY <1>0, <2>1 DEF Claiming
  <2>3. /\ job'[w].caps = job[w].caps /\ job'[w].listed = job[w].listed
        /\ job'[w].pc = "call" \/ (job'[w].pc = "done" /\ job'[w].reply # "ok")
    BY <1>0, <1>8, Checked
  <2> QED
    BY <1>1, <1>3, <2>2, <2>3
<1>9. CASE Call(w)
  <2>1. /\ job[w].pc = "call"
        /\ job'[w].caps = job[w].caps /\ job'[w].listed = job[w].listed
        /\ job'[w].pc \in {"call", "notify"} \/ (job'[w].pc = "done" /\ job'[w].reply # "ok")
    BY <1>0, <1>9, Called
  <2>2. job[w].caps = {} /\ job[w].listed = {}
    BY <1>0, <2>1 DEF Claiming
  <2> QED
    BY <1>1, <1>3, <2>1, <2>2
<1>10. CASE Notify(w)
  <2>1. /\ job[w].pc = "notify" /\ job'[w].pc = "call"
        /\ job'[w].caps = job[w].caps /\ job'[w].listed = job[w].listed
    BY <1>0, <1>10, Notified
  <2>2. job[w].caps = {} /\ job[w].listed = {}
    BY <1>0, <2>1 DEF Claiming
  <2> QED
    BY <1>1, <2>1, <2>2
<1>11. CASE Finish(w)
  <2>1. /\ job[w].pc = "call" /\ job'[w].handler = job[w].handler /\ job'[w].caps = job[w].caps
        /\ \/ job[w].handler.then = "reply" /\ job'[w].pc = "done"
           \/ job'[w].pc = "members"
           \/ job'[w].pc = "entity" /\ job'[w].listed = job[w].listed
    BY <1>0, <1>11, Finished
  <2>2. job[w].caps = {} /\ job[w].listed = {}
    BY <1>0, <2>1 DEF Claiming
  <2> QED
    BY <1>1, <1>2, <1>3, <2>1, <2>2
<1>12. ASSUME NEW x \in Entities, LoadMember(w, x)
       PROVE  Claiming(w)'
  <2>1. job'[w].pc = "members" \/ (job'[w].pc = "done" /\ job'[w].reply = "internal")
    BY <1>0, <1>12, Loaded
  <2> QED
    BY <1>2, <1>3, <2>1
<1>13. CASE MembersListed(w)
  <2>1. job[w].pc = "members" /\ job'[w].handler = job[w].handler /\ job'[w].pc = "done"
    BY <1>0, <1>13, AllListed
  <2>2. job[w].handler.then = "members"
    BY <1>0, <2>1 DEF Listing
  <2> QED
    BY <1>3, <2>1, <2>2
<1>14. CASE FetchClaimant(w) \/ ListGroups(w) \/ (\E n \in Groups : AddGroupCaps(w, n))
  <2>1. PICK x : x = job[w].handler.subject
    OBVIOUS
  <2>2. /\ job[w].pc \in {"entity", "groups", "groupcaps"} /\ job'[w].handler = job[w].handler
        /\ job'[w].pc \in {"groups", "groupcaps"}
        /\ \/ /\ job[w].pc = "entity" /\ ents[x] = NoEntity /\ job'[w].pc = "groupcaps"
              /\ job'[w].caps = job[w].caps /\ job'[w].listed = job[w].listed
           \/ /\ job[w].pc = "entity" /\ ents[x] # NoEntity /\ job'[w].pc = "groups"
              /\ job'[w].caps = RequestMeta(ents[x]).caps
           \/ /\ job[w].pc = "groups" /\ job'[w].pc = "groupcaps"
              /\ job'[w].caps = job[w].caps
              /\ job'[w].listed = GroupsForEntity(job[w].server, x)
           \/ \E n \in job[w].listed \cap Groups :
                /\ job[w].pc = "groupcaps" /\ job'[w].pc = "groupcaps"
                /\ job'[w].listed \subseteq job[w].listed
                /\ job'[w].caps = IF groups[n] = NoGroup THEN job[w].caps
                                  ELSE job[w].caps \cup groups[n].caps
    BY <1>0, <1>14, <2>1, Gathers
  <2>3. x \in Entities
    BY <1>0, <2>1, <2>2, Running DEF SInv, WellPlaced, WellMade
  <2>4. past[w] \subseteq past'[w]
    BY <1>4, <2>2, PastKept
  <2>5. /\ CouldHave(past[w], x) \subseteq CouldHave(past'[w], x)
        /\ \A n : MayBeIn(past[w], x, n) => MayBeIn(past'[w], x, n)
    BY <2>4, CouldHaveMore
  <2>6. /\ ents[x] # NoEntity => RequestMeta(ents[x]).caps \subseteq CouldHave(past[w], x)
        /\ \A n \in GroupsForEntity(job[w].server, x) : MayBeIn(past[w], x, n)
        /\ \A n \in Groups : groups[n] # NoGroup /\ MayBeIn(past[w], x, n) =>
             groups[n].caps \subseteq CouldHave(past[w], x)
    BY <1>0, <2>2, <2>3, Found
  <2>7. /\ job[w].pc = "entity" => job[w].caps = {} /\ job[w].listed = {}
        /\ job[w].pc \in {"groups", "groupcaps"} => job[w].caps \subseteq CouldHave(past[w], x)
        /\ job[w].pc = "groupcaps" =>
             \A n \in job[w].listed \cap Groups : MayBeIn(past[w], x, n)
    BY <1>0, <2>1 DEF Claiming
  <2>8. job'[w].caps \subseteq CouldHave(past[w], x)
    BY <2>2, <2>6, <2>7
  <2>9. job'[w].pc = "groupcaps" =>
          \A n \in job'[w].listed \cap Groups : MayBeIn(past[w], x, n)
    BY <2>2, <2>6, <2>7
  <2> QED
    BY <2>1, <2>2, <2>5, <2>8, <2>9 DEF Claiming
<1>15. CASE Sign(w)
  <2>1. PICK x : x = job[w].handler.subject
    OBVIOUS
  <2>2. /\ job[w].pc = "groupcaps" /\ job'[w].handler = job[w].handler /\ job'[w].pc = "done"
        /\ job'[w].token.caps = job[w].caps
    BY <1>0, <1>15, Signed
  <2>3. CouldHave(past[w], x) \subseteq CouldHave(past'[w], x)
    BY <1>4, <2>2, PastKept, CouldHaveMore
  <2>4. job[w].caps \subseteq CouldHave(past[w], x)
    BY <1>0, <2>1, <2>2 DEF Claiming
  <2> QED
    BY <2>1, <2>2, <2>3, <2>4 DEF Claiming
<1>16. CASE Return(w)
  <2>1. job'[w] = IdleJob
    BY <1>0, <1>16, Moves DEF Return
  <2> QED
    BY <1>6, <2>1
<1>17. CASE WorkerStep(w) /\ Remember
  BY <1>8, <1>9, <1>10, <1>11, <1>12, <1>13, <1>14, <1>15, <1>16, <1>17 DEF WorkerStep, Progress
<1> QED
  BY <1>0, <1>5, <1>6, <1>7, <1>17, OwnStep

(* At the start the rules are exact, too. *)
LEMMA FirstClaims ==
  Init => RuleCopyOK /\ \A w \in Workers : RulesRemembered(w) /\ Claiming(w)
<1> SUFFICES ASSUME Init
             PROVE  RuleCopyOK /\ \A w \in Workers : RulesRemembered(w) /\ Claiming(w)
  OBVIOUS
<1>1. \A w \in Workers : job[w] = IdleJob
  BY DEF Init
<1>2. \A w \in Workers : RulesRemembered(w) /\ Claiming(w) /\ ~RulesPending(w)
  BY <1>1 DEF RulesRemembered, Claiming, RulesPending, IdleJob
<1>3. \A s \in Servers : view[s] = Fresh(ents, groups)
  BY DEF Init
<1>4. Fresh(ents, groups).rules = RulesOf(groups)
  BY DEF Fresh
<1>5. \A s \in Servers : view[s].rules = RulesOf(groups)
  BY <1>3, <1>4
<1> QED
  BY <1>2, <1>5 DEF RuleCopyOK

(* Every step keeps what is known of claims. *)
LEMMA ClaimsKept ==
  ASSUME MethodsOffered, OneServer, TInv, RulesApart, [Next]_vars
  PROVE  TInv'
<1>1. CInv'
  BY CopiesKept DEF TInv
<1>2. RuleCopyOK'
  BY RuleCopyKept DEF TInv, CInv
<1>3. \A w \in Workers : RulesRemembered(w)'
  BY RulesRememberedKept DEF TInv, CInv
<1>4. \A w \in Workers : Claiming(w)'
  BY <1>1, ClaimingKept DEF CInv
<1> QED
  BY <1>1, <1>2, <1>3, <1>4 DEF TInv

(* A token claims nothing that its entity could not have at some time      *)
(* between the request for it and its signature, although it is put        *)
(* together from reads of storage and of a copy that may be behind, while  *)
(* entities and memberships change.                                        *)
THEOREM TokensTraceable ==
  ASSUME MethodsOffered, OneServer
  PROVE  Spec /\ []RulesApart => []ClaimsTraceable
<1>1. Init => TInv
  BY FirstTypes, FirstCopies, FirstClaims DEF TInv, CInv
<1>2. TInv /\ RulesApart /\ [Next]_vars => TInv'
  BY ClaimsKept
<1>3. TInv => ClaimsTraceable
  BY DEF TInv, Claiming, ClaimsTraceable
<1> QED
  BY <1>1, <1>2, <1>3, PTL DEF Spec

=============================================================================
