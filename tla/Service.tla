------------------------------- MODULE Service ------------------------------
(***************************************************************************)
(* The servers of one installation: each request runs its handler against  *)
(* the tree in a goroutine of its own, with tokens that expire and a copy  *)
(* of the memberships in memory that follows the writes.  A call of the    *)
(* tree is one step here, as modules Directory and GroupDirectory promise  *)
(* to clients that keep conflicting requests apart.                        *)
(***************************************************************************)
EXTENDS Handlers

CONSTANTS
  Workers,       \* the requests that can be under way at once
  Servers,       \* the servers of the installation; storage is shared
  ReadOnly,      \* those that refuse to change anything
  Offers,        \* the handlers that each worker's clients call
  Directories,   \* the entities and groups to start from
  FirstTokens,   \* tokens that were issued before
  Lifetime,      \* how long a token is valid
  MaxTime,       \* bound on the clock
  MaxRequests,   \* bound on the number of requests of each worker
  MaxCrashes     \* bound on the number of crashes

VARIABLES
  ents,     \* the entity stored under each ID
  groups,   \* the group stored under each name
  view,     \* each server's copy of direct groups and rules
  now,      \* the time
  issued,   \* every token that was ever issued
  job,      \* what each worker is doing
  served,   \* the requests of each worker so far
  crashes,  \* crashes so far
  past      \* history: the directories that each request has seen, and
            \* those that its server's copy can still stem from

vars == <<ents, groups, view, now, issued, job, served, crashes, past>>

Token == [entity : Entities, caps : SUBSET Capabilities, exp : Nat]

(* No token in the request. *)
NoToken  == [entity |-> NoID, caps |-> {}, exp |-> 0]
NoClaims == NoToken

ASSUME ServiceAssumption ==
  /\ ReadOnly \subseteq Servers
  /\ FirstTokens \subseteq Token
  /\ Lifetime \in Nat \ {0} /\ MaxTime \in Nat /\ MaxCrashes \in Nat
  /\ MaxRequests \in [Workers -> Nat]

ASSUME NoEntityAssumption == NoEntity \notin Entity

ASSUME DirectoriesAssumption ==
  \A d \in Directories :
    /\ d.ents \in [Entities -> Entity \cup {NoEntity}]
    /\ d.groups \in [Groups -> Group \cup {NoGroup}]

Snapshot == [ents |-> ents, groups |-> groups]

Replies == {"none", "ok", "exists", "missing", "internal", "malformed",
            "readonly", "unauthenticated", "unqualified"}

IdleJob ==
  [pc |-> "idle", server |-> NoID, handler |-> Rejected, token |-> NoToken,
   left |-> <<>>, claims |-> NoClaims, pre |-> "ok", reply |-> "none",
   listed |-> {}, caps |-> {}, checked |-> 0]

JobOK(j) ==
  /\ j.pc \in {"idle", "check", "call", "notify", "members", "entity",
               "groups", "groupcaps", "done"}
  /\ j.server \in Servers \cup {NoID}
  /\ j.token \in Token \cup {NoToken}
  /\ j.claims \in Token \cup {NoClaims}
  /\ j.pre \in Replies \ {"none"} /\ j.reply \in Replies
  /\ (j.pc = "done") <=> (j.reply # "none")
  /\ j.listed \subseteq Entities \cup Groups
  /\ j.caps \subseteq Capabilities

TypeOK ==
  /\ ents \in [Entities -> Entity \cup {NoEntity}]
  /\ groups \in [Groups -> Group \cup {NoGroup}]
  /\ view \in [Servers -> [dm : [Entities -> (SUBSET Groups) \cup {NoEntity}],
                           rules : RuleMap]]
  /\ now \in 0..MaxTime
  /\ issued \subseteq Token
  /\ served \in [Workers -> Nat] /\ crashes \in 0..MaxCrashes
  /\ \A w \in Workers : JobOK(job[w])

(* What a server that starts finds in storage. *)
Fresh(es, gs) ==
  [dm    |-> [x \in Entities |-> IF es[x] = NoEntity THEN NoEntity ELSE DirectGroups(es[x])],
   rules |-> RulesOf(gs)]

Init ==
  /\ \E d \in Directories : ents = d.ents /\ groups = d.groups
  /\ view = [s \in Servers |-> Fresh(ents, groups)]
  /\ now = 0
  /\ issued = FirstTokens
  /\ job = [w \in Workers |-> IdleJob]
  /\ served = [w \in Workers |-> 0] /\ crashes = 0
  /\ past = [w \in Workers |-> {}]

-----------------------------------------------------------------------------
(* The resolver's answers (module Membership), from a server's copy.       *)
GroupsForEntity(s, x) ==
  LET v == view[s]
  IN  IF v.dm[x] = NoEntity THEN {}
      ELSE {n \in Known(v.rules) : v.dm[x] \in Meaning(v.rules)[n]}

MembersOfGroup(s, n) ==
  {x \in Entities : n \in GroupsForEntity(s, x)}

Valid(t) == t \in issued /\ now < t.exp

(* manageByMembership: is entity x in the group that manages group n?      *)
ManageByMembership(s, x, n) ==
  /\ groups[n] # NoGroup /\ groups[n].managedBy # Unmanaged
  /\ x \in Entities /\ ents[x] # NoEntity
  /\ groups[n].managedBy \in GroupsForEntity(s, x)

Goes(w, j) == job' = [job EXCEPT ![w] = j]
Replied(w, r) == Goes(w, [job[w] EXCEPT !.pc = "done", !.reply = r])

Storage == <<ents, groups>>
Rest    == <<now, served, crashes>>

-----------------------------------------------------------------------------
Incoming(s, h, t) ==
  [IdleJob EXCEPT !.pc = "check", !.server = s, !.handler = h, !.token = t]

(* A token is of no account to a handler that anyone may call.             *)
Arrive(w, s, h, t) ==
  /\ job[w].pc = "idle" /\ served[w] < MaxRequests[w]
  /\ h.access \in {"anyone", "malformed"} => t = NoToken
  /\ served' = [served EXCEPT ![w] = @ + 1]
  /\ Goes(w, Incoming(s, h, t))
  /\ UNCHANGED <<Storage, view, issued, now, crashes>>

Qualified(h, t) ==
  \/ HasCapability(t, h.cap)
  \/ h.access \in {"or-self", "secret"} /\ t.entity = h.subject

(* Variant: the time is not looked at. *)
CheckTokenForever(h, t) ==
  IF t = NoToken THEN "malformed"
  ELSE IF t \notin issued THEN "unauthenticated"
  ELSE IF Qualified(h, t) THEN "ok" ELSE "unqualified"

CheckToken(h, t) ==
  IF t = NoToken THEN "malformed"
  ELSE IF ~Valid(t) THEN "unauthenticated"
  ELSE IF Qualified(h, t) THEN "ok" ELSE "unqualified"

(* mutablePrequisitesMet and its kin: the mode of the server comes first.  *)
Prerequisite(s, h, t) ==
  CASE h.access = "anyone"    -> "ok"
    [] h.access = "malformed" -> "malformed"
    [] h.access = "validate"  -> IF Valid(t) THEN "ok" ELSE "unauthenticated"
    [] OTHER -> IF s \in ReadOnly THEN "readonly" ELSE CheckToken(h, t)

(* A handler that lets the managers of a group in keeps the error for      *)
(* later.  The claims stay with mutablePrequisitesMet, except in the       *)
(* handlers that call checkToken themselves.                               *)
Check(w) ==
  LET j == job[w]
      h == j.handler
      v == Prerequisite(j.server, h, j.token)
      own == h.access = "secret" /\ j.token.entity = h.subject
  IN  /\ j.pc = "check"
      /\ IF v # "ok" /\ h.access # "manager"
           THEN Replied(w, v)
           ELSE Goes(w, [j EXCEPT
                  !.pc = "call", !.pre = v, !.checked = now,
                  !.claims = IF h.access \in {"or-self", "secret"} THEN j.token ELSE NoClaims,
                  !.left = IF h.access = "secret" /\ ~own THEN Tail(h.calls) ELSE h.calls])
      /\ UNCHANGED <<Storage, view, issued, Rest>>

(* The group whose managers are let in: that of the request, or each of    *)
(* those that it names.                                                    *)
Delegating(h, c) ==
  IF h.subject # NoID THEN h.subject ELSE CHOOSE n \in c.req.de.meta.groups : TRUE

Largest(ns) == CHOOSE n \in ns : \A m \in ns : m <= n

NumberFor(n, used) ==
  IF n = AutoNumber THEN Increment(Largest(used \cup {0})) ELSE n

ApplyEntity(r) ==
  LET x == r.de.id
      used == {ents[y].number : y \in {z \in Entities : ents[z] # NoEntity}}
  IN  /\ ents' = [ents EXCEPT ![x] =
                    CASE r.chain = "CREATE"  -> Created(r.de, NumberFor(r.de.number, used))
                      [] r.chain = "DESTROY" -> NoEntity
                      [] OTHER -> Edited(r, @)]
      /\ UNCHANGED groups

ApplyGroup(r) ==
  LET n == r.dg.name
      used == {groups[m].number : m \in {o \in Groups : groups[o] # NoGroup}}
  IN  /\ groups' = [groups EXCEPT ![n] =
                      CASE r.chain = "CREATE"  -> CreatedGroup(r.dg, NumberFor(r.dg.number, used))
                        [] r.chain = "DESTROY" -> NoGroup
                        [] OTHER -> EditedGroup(r, @)]
      /\ UNCHANGED ents

(* The next call of the handler: it is refused, or fails, or takes effect. *)
Call(w) ==
  LET j == job[w]
      c == Head(j.left)
      v == CallVerdict(c, ents, groups)
  IN  /\ j.pc = "call" /\ j.left # <<>>
      /\ IF j.pre # "ok" /\ ~ManageByMembership(j.server, j.claims.entity,
                                                  Delegating(j.handler, c))
           THEN Replied(w, j.pre) /\ UNCHANGED Storage
         ELSE IF v # "ok"
           THEN Replied(w, AnswerTo(v, c.answers)) /\ UNCHANGED Storage
         ELSE IF Reads(c)
           THEN Goes(w, [j EXCEPT !.left = Tail(@)]) /\ UNCHANGED Storage
           ELSE /\ Goes(w, [j EXCEPT !.pc = "notify"])
                /\ IF c.on = "entity" THEN ApplyEntity(c.req) ELSE ApplyGroup(c.req)
      /\ UNCHANGED <<view, issued, Rest>>

(* Variant: updates are not followed. *)
SyncedRemoval(v, c) ==
  IF c.on = "entity" /\ c.req.chain = "DESTROY" THEN [v EXCEPT !.dm[c.req.de.id] = NoEntity]
  ELSE IF c.on = "group" /\ c.req.chain = "DESTROY" THEN [v EXCEPT !.rules[c.req.dg.name] = NoGroup]
  ELSE v

(* Variant: a removal is taken for an update. *)
SyncedUpdate(v, c) ==
  IF c.on = "entity"
    THEN [v EXCEPT !.dm[c.req.de.id] =
            IF ents[c.req.de.id] = NoEntity THEN @ ELSE DirectGroups(ents[c.req.de.id])]
    ELSE [v EXCEPT !.rules[c.req.dg.name] =
            IF groups[c.req.dg.name] = NoGroup THEN @ ELSE groups[c.req.dg.name].rules]

(* The copy v after the callbacks for the write of call c, which load what *)
(* was written again.                                                      *)
Synced(v, c) ==
  IF c.on = "entity"
    THEN LET x == c.req.de.id
         IN  [v EXCEPT !.dm[x] =
                IF c.req.chain = "DESTROY" THEN NoEntity
                ELSE IF ents[x] = NoEntity THEN @ ELSE DirectGroups(ents[x])]
    ELSE LET n == c.req.dg.name
         IN  [v EXCEPT !.rules[n] =
                IF c.req.chain = "DESTROY" THEN NoGroup
                ELSE IF groups[n] = NoGroup THEN @ ELSE groups[n].rules]

(* The callbacks have run before the call returns. *)
Notify(w) ==
  LET j == job[w]
  IN  /\ j.pc = "notify"
      /\ view' = [view EXCEPT ![j.server] = Synced(@, Head(j.left))]
      /\ Goes(w, [j EXCEPT !.pc = "call", !.left = Tail(@)])
      /\ UNCHANGED <<Storage, issued, Rest>>

-----------------------------------------------------------------------------
(* After the last call. *)
Finish(w) ==
  LET j == job[w]
  IN  /\ j.pc = "call" /\ j.left = <<>>
      /\ CASE j.handler.then = "reply" -> Replied(w, "ok")
           [] j.handler.then = "members" ->
                Goes(w, [j EXCEPT !.pc = "members",
                                  !.listed = MembersOfGroup(j.server, j.handler.subject)])
           [] j.handler.then = "sign" -> Goes(w, [j EXCEPT !.pc = "entity"])
      /\ UNCHANGED <<Storage, view, issued, Rest>>

(* Variant: a member that is not there is tried again. *)
LoadMemberAgain(w, x) ==
  LET j == job[w]
  IN  /\ j.pc = "members" /\ x \in j.listed
      /\ Goes(w, IF ents[x] = NoEntity THEN j ELSE [j EXCEPT !.listed = @ \ {x}])
      /\ UNCHANGED <<Storage, view, issued, Rest>>

(* ListMembers loads the members one by one; all must be there.            *)
LoadMember(w, x) ==
  LET j == job[w]
  IN  /\ j.pc = "members" /\ x \in j.listed
      /\ IF ents[x] = NoEntity THEN Replied(w, "internal")
                               ELSE Goes(w, [j EXCEPT !.listed = @ \ {x}])
      /\ UNCHANGED <<Storage, view, issued, Rest>>

MembersListed(w) ==
  /\ job[w].pc = "members" /\ job[w].listed = {}
  /\ Replied(w, "ok")
  /\ UNCHANGED <<Storage, view, issued, Rest>>

(* getCapabilitiesForEntity looks the entity up once more, ...             *)
FetchClaimant(w) ==
  LET j == job[w]
      ent == ents[j.handler.subject]
  IN  /\ j.pc = "entity"
      /\ Goes(w, IF ent = NoEntity THEN [j EXCEPT !.pc = "groupcaps"]
                 ELSE [j EXCEPT !.pc = "groups", !.caps = RequestMeta(ent).caps])
      /\ UNCHANGED <<Storage, view, issued, Rest>>

(* ... then its groups, in the copy, ...                                   *)
ListGroups(w) ==
  LET j == job[w]
  IN  /\ j.pc = "groups"
      /\ Goes(w, [j EXCEPT !.pc = "groupcaps",
                           !.listed = GroupsForEntity(j.server, j.handler.subject)])
      /\ UNCHANGED <<Storage, view, issued, Rest>>

(* ... and loads each of them; one that is gone adds nothing.              *)
AddGroupCaps(w, n) ==
  LET j == job[w]
  IN  /\ j.pc = "groupcaps" /\ n \in j.listed
      /\ Goes(w, [j EXCEPT !.listed = @ \ {n},
                           !.caps = IF groups[n] = NoGroup THEN @ ELSE @ \cup groups[n].caps])
      /\ UNCHANGED <<Storage, view, issued, Rest>>

Sign(w) ==
  LET j == job[w]
      t == [entity |-> j.handler.subject, caps |-> j.caps, exp |-> now + Lifetime]
  IN  /\ j.pc = "groupcaps" /\ j.listed = {}
      /\ issued' = issued \cup {t}
      /\ Goes(w, [j EXCEPT !.pc = "done", !.reply = "ok", !.token = t])
      /\ UNCHANGED <<Storage, view, Rest>>

(* Variant: the answer is left behind. *)
ReturnOnly(w) ==
  /\ job[w].pc = "done"
  /\ Goes(w, [job[w] EXCEPT !.pc = "idle"])
  /\ UNCHANGED <<Storage, view, issued, Rest>>

Return(w) ==
  /\ job[w].pc = "done"
  /\ Goes(w, IdleJob)
  /\ UNCHANGED <<Storage, view, issued, Rest>>

-----------------------------------------------------------------------------
Tick ==
  /\ now < MaxTime
  /\ now' = now + 1
  /\ UNCHANGED <<Storage, view, issued, job, served, crashes>>

(* A server dies with its requests, and serves again once its copies are   *)
(* rebuilt; tokens stay valid, for the keys that sign them are on disk.    *)
Crash(s) ==
  /\ crashes < MaxCrashes
  /\ crashes' = crashes + 1
  /\ view' = [view EXCEPT ![s] = Fresh(ents, groups)]
  /\ job' = [w \in Workers |-> IF job[w].server = s THEN IdleJob ELSE job[w]]
  /\ UNCHANGED <<Storage, issued, now, served>>

Progress(w) ==
  \/ Check(w) \/ Call(w) \/ Notify(w) \/ Finish(w)
  \/ \E x \in Entities : LoadMember(w, x)
  \/ MembersListed(w)
  \/ FetchClaimant(w) \/ ListGroups(w)
  \/ \E n \in Groups : AddGroupCaps(w, n)
  \/ Sign(w)

WorkerStep(w) == Progress(w) \/ Return(w)

(* A request has seen what is stored while it runs.  The copy that it      *)
(* reads may lag behind by the writes whose callbacks had not run when it  *)
(* started.                                                                *)
Remember ==
  past' = [w \in Workers |->
    IF job'[w].pc = "idle" THEN {}
    ELSE {Snapshot'} \cup
         IF job[w].pc # "idle" THEN past[w]
         ELSE UNION {past[v] : v \in {u \in Workers : job[u].pc = "notify"}}]

Step(w) == WorkerStep(w) /\ Remember

Next ==
  \/ \E w \in Workers : Step(w)
  \/ /\ \/ \E w \in Workers, s \in Servers : \E h \in Offers[w] :
             \E t \in issued \cup {NoToken} : Arrive(w, s, h, t)
        \/ Tick
        \/ \E s \in Servers : Crash(s)
     /\ Remember

Spec == Init /\ [][Next]_vars

(* Go runs every goroutine; clients may stop asking. *)
FairSpec == Spec /\ \A w \in Workers : WF_vars(Step(w))

-----------------------------------------------------------------------------
(* The capabilities that a change of an entity, or of a group, calls for:  *)
(* told from what has changed, whatever the handler.                       *)
EntityDemands(e, f) ==
  IF e = f THEN {}
  ELSE IF e = NoEntity THEN {"CREATE_ENTITY"}
  ELSE IF f = NoEntity THEN {"DESTROY_ENTITY"}
  ELSE LET m == RequestMeta(e)
           n == RequestMeta(f)
           changed ==
             {<<"CHANGE_ENTITY_SECRET", e.secret # f.secret>>,
              <<"LOCK_ENTITY", m.locked # n.locked /\ n.locked = "locked">>,
              <<"UNLOCK_ENTITY", m.locked # n.locked /\ n.locked # "locked">>,
              <<"MODIFY_GROUP_MEMBERS", m.groups # n.groups>>,
              <<"MODIFY_ENTITY_KEYS", m.keys # n.keys>>,
              <<"MODIFY_ENTITY_META", <<m.um, m.kv, m.text>> # <<n.um, n.kv, n.text>> >>,
              <<"GLOBAL_ROOT", m.caps # n.caps \/ e.number # f.number>>}
       IN  {c[1] : c \in {d \in changed : d[2]}}

GroupDemands(g, h) ==
  IF g = h THEN {}
  ELSE IF g = NoGroup THEN {"CREATE_GROUP"}
  ELSE IF h = NoGroup THEN {"DESTROY_GROUP"}
  ELSE {"MODIFY_GROUP_META"} \cup IF g.caps # h.caps THEN {"GLOBAL_ROOT"} ELSE {}

(* The token of w was good when w looked at it, and carries cap.           *)
Vouched(w, cap) ==
  LET t == job[w].token
  IN  t \in issued /\ job[w].checked < t.exp /\ HasCapability(t, cap)

(* Entity x changes its own keys, or its secret when it knows the old one. *)
Own(w, x, cap) ==
  LET t == job[w].token
  IN  /\ t \in issued /\ job[w].checked < t.exp /\ t.entity = x
      /\ \/ cap = "MODIFY_ENTITY_KEYS"
         \/ /\ cap = "CHANGE_ENTITY_SECRET"
            /\ \E d \in past[w] :
                 d.ents[x] # NoEntity
                 /\ Verifies(job[w].handler.calls[1].req.de.secret, d.ents[x])

Authorised(w) ==
  /\ job[w].server \notin ReadOnly
  /\ \A x \in Entities : \A cap \in EntityDemands(ents[x], ents'[x]) :
       Vouched(w, cap) \/ Own(w, x, cap)
  /\ \A n \in Groups : \A cap \in GroupDemands(groups[n], groups'[n]) : Vouched(w, cap)

(* Whatever a request changes in storage, its token carries the            *)
(* capabilities for exactly that change: across all handlers, chains and   *)
(* merges.  The exceptions are an entity's own keys and secret.            *)
ChangesAuthorised ==
  [][\/ UNCHANGED Storage
     \/ \E w \in Workers : job'[w] # job[w] /\ Authorised(w)]_vars

-----------------------------------------------------------------------------
(* The capabilities that entity x could have by some of the directories    *)
(* ds: its own, and those of the groups that it was in.  A token is put    *)
(* together from several reads, between which the directory may change.    *)
CouldHave(ds, x) ==
  (UNION {IF d.ents[x] = NoEntity THEN {} ELSE RequestMeta(d.ents[x]).caps : d \in ds})
  \cup
  (UNION {IF p[1].groups[p[2]] = NoGroup THEN {} ELSE p[1].groups[p[2]].caps :
            p \in {q \in ds \X Groups : \E d, e \in ds :
               d.ents[x] # NoEntity
               /\ DirectGroups(d.ents[x]) \in Meaning(RulesOf(e.groups))[q[2]]}})

(* A token claims nothing that its entity could not have at some time      *)
(* between the request for it and its signature.                           *)
ClaimsTraceable ==
  \A w \in Workers :
    job[w].pc = "done" /\ job[w].reply = "ok" /\ job[w].handler.then = "sign" =>
      job[w].token.caps \subseteq CouldHave(past[w], job[w].handler.subject)

(* The members of a group cannot be listed only while one of them is being *)
(* removed: the copy names nobody who was gone before the request.         *)
MembersFailOnlyIfGone ==
  \A w \in Workers :
    job[w].handler.then = "members" /\ job[w].reply = "internal" =>
      \E x \in Entities : \E d, e \in past[w] :
        d.ents[x] # NoEntity /\ e.ents[x] = NoEntity

(* Every request is answered. *)
RequestsAnswered == \A w \in Workers : job[w].pc # "idle" ~> job[w].pc = "idle"

(* "An entity can be allowed to alter certain groups without needing to    *)
(* grant broad server level authority": a member of the managing group,    *)
(* with a good token, is not turned away for want of a capability.         *)
DelegationHonoured ==
  \A w \in Workers :
    LET j == job[w]
        n == IF j.handler.subject # NoID THEN j.handler.subject
             ELSE Delegating(j.handler, j.handler.calls[1])
    IN  /\ j.handler.access = "manager" /\ j.handler.calls # <<>>
        /\ j.pc = "done" /\ j.token \in issued
        /\ \A d \in past[w] :
             /\ d.groups[n] # NoGroup /\ d.groups[n].managedBy # Unmanaged
             /\ d.ents[j.token.entity] # NoEntity
             /\ DirectGroups(d.ents[j.token.entity]) \in
                  Meaning(RulesOf(d.groups))[d.groups[n].managedBy]
        => j.reply # "unqualified"

=============================================================================
