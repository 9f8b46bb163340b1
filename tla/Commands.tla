------------------------------ MODULE Commands ------------------------------
(***************************************************************************)
(* The commands of the netauth program (internal/ctl), one definition      *)
(* each: what the command does, step by step, once its arguments are       *)
(* accepted.  Module Client carries the steps out.                         *)
(***************************************************************************)
EXTENDS EntityData, Sequences

CONSTANTS NameIn, NoGroup

Lib == INSTANCE Library

-----------------------------------------------------------------------------
(* The steps: token() attached to the requests that follow, a new token    *)
(* whatever is in the cache, the cached token removed, the claims of       *)
(* token() looked at, a method of the library called.                      *)
Token   == [do |-> "token"]
Renew   == [do |-> "renew"]
Drop    == [do |-> "drop"]
Inspect == [do |-> "inspect"]
Do(c)   == [do |-> "call", call |-> c]

Anonymously(c) == <<Do(c)>>
WithToken(c)   == <<Token, Do(c)>>

(* Reads go without a token. *)
ToChange(action, c) ==
  IF Lib!Upper(action) = "READ" THEN Anonymously(c) ELSE WithToken(c)

-----------------------------------------------------------------------------
(* auth-*.go: x is the entity that the command acts as, s its secret.      *)
(* Nobody else's old secret is asked for.                                  *)
authChangeSecretRun(x, s, y, new) ==
  <<Renew, Token, Do(Lib!AuthChangeSecret(y, new, IF y = x THEN s ELSE NoSecret))>>

authCheckRun(x, s) == Anonymously(Lib!AuthEntity(x, s))

authDestroyTokenRun == <<Drop>>

authGetTokenRun == <<Renew>>

authInspectTokenRun == <<Token, Inspect>>

authValidateTokenRun == WithToken(Lib!AuthValidateToken)

-----------------------------------------------------------------------------
(* entity-*.go *)
entityCreateRun(x, s, n) == WithToken(Lib!EntityCreate(x, n, s))

entityDestroyRun(x) == WithToken(Lib!EntityDestroy(x))

entityInfoRun(x) == Anonymously(Lib!EntityInfo(x))

entityKeysRun(x, action, k) == ToChange(action, Lib!EntityKeys(x, action, k))

entityKVRun(x, action, k, v) == ToChange(action, Lib!EntityUM(x, action, k, v))

entityLockRun(x) == WithToken(Lib!EntityLock(x))

entityMembershipRun(x, action, n) ==
  WithToken(CASE Lib!Upper(action) = "ADD"  -> Lib!GroupAddMember(n, x)
              [] Lib!Upper(action) = "DROP" -> Lib!GroupDelMember(n, x))

entityMembershipsRun(x) == Anonymously(Lib!EntityGroups(x))

entitySearchRun == Anonymously(Lib!EntitySearch)

entityUnlockRun(x) == WithToken(Lib!EntityUnlock(x))

(* The fields of m are those whose flags are given. *)
entityUpdateRun(x, m) == WithToken(Lib!EntityUpdate(x, m))

-----------------------------------------------------------------------------
(* group-*.go *)
groupCreateRun(n, t, by, num) == WithToken(Lib!GroupCreate(n, t, by, num))

groupDestroyRun(n) == WithToken(Lib!GroupDestroy(n))

groupRuleRun(n, action, target) == WithToken(Lib!GroupUpdateRules(n, action, target))

groupInfoRun(n) == Anonymously(Lib!GroupInfo(n))

groupKVRun(n, action, k, v) == ToChange(action, Lib!GroupUM(n, action, k, v))

groupMembersRun(n) == Anonymously(Lib!GroupMembers(n))

groupSearchRun == Anonymously(Lib!GroupSearch)

groupUpdateRun(n, t, by) == WithToken(Lib!GroupUpdate(n, t, by))

-----------------------------------------------------------------------------
(* kv2-*.go: on is "entity" or "group". *)
kv2AddRun(on, id, k, v) ==
  WithToken(CASE on = "entity" -> Lib!EntityKVAdd(id, k, v)
              [] on = "group"  -> Lib!GroupKVAdd(id, k, v))

kv2DelRun(on, id, k, v) ==
  WithToken(CASE on = "entity" -> Lib!EntityKVDel(id, k, v)
              [] on = "group"  -> Lib!GroupKVDel(id, k, v))

kv2GetRun(on, id, k) ==
  Anonymously(CASE on = "entity" -> Lib!EntityKVGet(id, k)
                [] on = "group"  -> Lib!GroupKVGet(id, k))

kv2ReplaceRun(on, id, k, v) ==
  WithToken(CASE on = "entity" -> Lib!EntityKVReplace(id, k, v)
              [] on = "group"  -> Lib!GroupKVReplace(id, k, v))

(* system-*.go *)
systemCapabilitiesRun(target, action, cap, direct) ==
  WithToken(Lib!SystemCapabilities(target, action, cap, direct))

systemPingRun == Anonymously(Lib!SystemPing)

systemStatusRun == Anonymously(Lib!SystemStatus)

=============================================================================
