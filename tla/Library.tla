------------------------------- MODULE Library ------------------------------
(***************************************************************************)
(* The methods of the client library (pkg/netauth), one definition each:   *)
(* the requests that it makes, and whether it first turns to the server    *)
(* that takes writes (makeWritable).                                       *)
(***************************************************************************)
EXTENDS EntityData, Sequences

CONSTANTS NameIn, NoGroup

Server == INSTANCE Handlers

-----------------------------------------------------------------------------
(* A method that makes no request has failed on its own.  An error of any  *)
(* request but the first is not looked at.                                 *)
Plain(h)    == [rpcs |-> <<h>>, master |-> FALSE]
OnMaster(h) == [rpcs |-> <<h>>, master |-> TRUE]

(* strings.ToUpper, of the actions as they are typed. *)
Upper(action) ==
  CASE action = "add"     -> "ADD"
    [] action = "drop"    -> "DROP"
    [] action = "include" -> "INCLUDE"
    [] OTHER              -> action

Actions     == {"ADD", "DROP", "UPSERT", "READ", "CLEAREXACT", "CLEARFUZZY"}
RuleActions == {"INCLUDE", "EXCLUDE", "REMOVE_RULE"}

(* The request, if the protocol knows its action; ...                      *)
IfKnown(action, known, h) ==
  [rpcs |-> IF action \in known THEN <<h>> ELSE <<>>, master |-> TRUE]

(* ... only READ changes nothing, where the method looks for it.           *)
ByAction(action, h) == [IfKnown(action, Actions, h) EXCEPT !.master = action # "READ"]

-----------------------------------------------------------------------------
(* entity.go *)
EntityCreate(x, n, s) == OnMaster(Server!EntityCreate(x, n, s))

EntityUpdate(x, m) == OnMaster(Server!EntityUpdate(x, m))

EntityInfo(x) == Plain(Server!EntityInfo(x))

EntitySearch == Plain(Server!EntitySearch)

EntityUM(x, action, k, v) ==
  LET a == Upper(action)
  IN  ByAction(a, Server!EntityUM(x, a, k, v))

EntityKVGet(x, k) == Plain(Server!EntityKVGet(x, k))

EntityKVAdd(x, k, v) == OnMaster(Server!EntityKVAdd(x, k, v))

EntityKVDel(x, k, v) == OnMaster(Server!EntityKVDel(x, k, v))

EntityKVReplace(x, k, v) == OnMaster(Server!EntityKVReplace(x, k, v))

EntityKeys(x, action, k) ==
  LET a == Upper(action)
  IN  ByAction(a, Server!EntityKeys(x, a, k))

EntityDestroy(x) == OnMaster(Server!EntityDestroy(x))

(* Variant: the lock is set wherever the client is connected. *)
EntityLockAnywhere(x) == Plain(Server!EntityLock(x))

EntityLock(x) == OnMaster(Server!EntityLock(x))

EntityUnlock(x) == OnMaster(Server!EntityUnlock(x))

EntityGroups(x) == Plain(Server!EntityGroups(x))

-----------------------------------------------------------------------------
(* group.go *)
GroupCreate(n, t, by, num) == OnMaster(Server!GroupCreate(n, t, by, num))

GroupUpdate(n, t, by) == OnMaster(Server!GroupUpdate(n, t, by))

(* The group, then those that it manages. *)
GroupInfo(n) ==
  [rpcs |-> <<Server!GroupInfo(n), Server!GroupSearch>>, master |-> FALSE]

GroupUM(n, action, k, v) ==
  LET a == Upper(action)
  IN  ByAction(a, Server!GroupUM(n, a, k, v))

GroupKVGet(n, k) == Plain(Server!GroupKVGet(n, k))

GroupKVAdd(n, k, v) == OnMaster(Server!GroupKVAdd(n, k, v))

GroupKVDel(n, k, v) == OnMaster(Server!GroupKVDel(n, k, v))

GroupKVReplace(n, k, v) == OnMaster(Server!GroupKVReplace(n, k, v))

(* DROP is short for the removal of a rule. *)
GroupUpdateRules(n, action, target) ==
  LET a == IF Upper(action) = "DROP" THEN "REMOVE_RULE" ELSE Upper(action)
  IN  IfKnown(a, RuleActions, Server!GroupUpdateRules(n, target, a))

(* One group at a time. *)
GroupAddMember(n, x) == OnMaster(Server!GroupAddMember(x, <<n>>))

GroupDelMember(n, x) == OnMaster(Server!GroupDelMember(x, <<n>>))

GroupDestroy(n) == OnMaster(Server!GroupDestroy(n))

GroupMembers(n) == Plain(Server!GroupMembers(n))

GroupSearch == Plain(Server!GroupSearch)

-----------------------------------------------------------------------------
(* auth.go *)
AuthEntity(x, s) == Plain(Server!AuthEntity(x, s))

AuthGetToken(x, s) == Plain(Server!AuthGetToken(x, s))

AuthValidateToken == Plain(Server!AuthValidateToken)

AuthChangeSecret(x, s, old) == OnMaster(Server!AuthChangeSecret(x, old, s))

(* system.go: capability and action are taken as they are typed. *)
SystemCapabilities(target, action, cap, direct) ==
  IfKnown(action, IF cap \in Capabilities THEN Actions ELSE {},
          Server!SystemCapabilities(direct, action, target, cap))

SystemPing == Plain(Server!SystemPing)

SystemStatus == Plain(Server!SystemStatus)

=============================================================================
