----------------------------- MODULE ClientProofs ----------------------------
(***************************************************************************)
(* Theorems about module Client.                                           *)
(***************************************************************************)
EXTENDS Client, ServiceProofs

(* Token t is the token of x, if it is one at all. *)
Of(t, x) == t = NoToken \/ t.entity = x

JobFields  == {"pc", "server", "handler", "token", "left", "claims", "pre",
               "reply", "listed", "caps", "checked"}
ProcFields == {"pc", "as", "secret", "left", "rest", "server", "read", "token",
               "attached", "reply", "began"}

(* A token is signed for the entity that asked, and for no other request.  *)
SignsFor(j, x) ==
  /\ j.handler.then \in {"reply", "members", "sign"}
  /\ j.pc # "idle" /\ j.handler.then = "sign" => j.handler.subject = x
  /\ j.pc \in {"entity", "groups", "groupcaps"} => j.handler.then = "sign"

JobInv(j, x) ==
  /\ JobFields \subseteq DOMAIN j
  /\ Of(j.token, x)
  /\ SignsFor(j, x)
  /\ j.pc = "idle" => j.token = NoToken

ProcInv(p) ==
  /\ ProcFields \subseteq DOMAIN p
  /\ Of(p.token, p.as) /\ Of(p.read, p.as)
  /\ p.left \in Seq(Steps) /\ p.rest \in Seq(Requested)
  /\ p.pc \notin {"idle", "ended"} => p.left # <<>>

(* What a process has under way is its own, and so is what its user's file *)
(* holds.                                                                  *)
OwnInv ==
  /\ DOMAIN job = Workers /\ DOMAIN proc = Workers
  /\ \A x \in DOMAIN cache : Of(cache[x], x)
  /\ \A w \in Workers :
       /\ JobInv(job[w], proc[w].as)
       /\ ProcInv(proc[w])
       /\ proc[w].pc \notin Waiting => job[w].pc = "idle"

LEMMA IdleJobInv == \A x : JobInv(IdleJob, x)
  BY DEF JobInv, JobFields, SignsFor, Of, IdleJob, Rejected, Handler

LEMMA IdleProcInv == ProcInv(Idle)
  BY DEF ProcInv, ProcFields, Of, Idle

LEMMA OwnInit == ClientInit => OwnInv
<1> SUFFICES ASSUME ClientInit PROVE OwnInv
  OBVIOUS
<1>1. /\ job = [w \in Workers |-> IdleJob]
      /\ proc = [w \in Workers |-> Idle]
      /\ cache = FirstFiles
  BY DEF ClientInit, Init
<1>2. \A x \in DOMAIN cache : Of(cache[x], x)
  BY <1>1, ClientAssumption DEF Of
<1>3. IdleJob.pc = "idle"
  BY DEF IdleJob
<1>4. QED
  BY <1>1, <1>2, <1>3, IdleJobInv, IdleProcInv DEF OwnInv

-----------------------------------------------------------------------------
(* Worker w goes on with its request, which stays one of its process.      *)
Moved(w) == \E j : Goes(w, j) /\ JobInv(j, proc[w].as) /\ j.pc # "idle"

(* An edit that keeps the token and the handler of a request is of no      *)
(* account.                                                                *)
LEMMA EditedJob ==
  ASSUME OwnInv, NEW w \in Workers, job[w].pc # "idle",
         NEW j, Goes(w, j), DOMAIN j = DOMAIN job[w],
         j.token = job[w].token, j.handler = job[w].handler, j.pc # "idle",
         j.pc \in {"entity", "groups", "groupcaps"} => job[w].handler.then = "sign"
  PROVE  Moved(w)
  BY DEF OwnInv, JobInv, SignsFor, Moved

LEMMA RepliedJob ==
  ASSUME OwnInv, NEW w \in Workers, job[w].pc # "idle", NEW r, Replied(w, r)
  PROVE  Moved(w)
<1> DEFINE j == [job[w] EXCEPT !.pc = "done", !.reply = r]
<1>1. JobFields \subseteq DOMAIN job[w]
  BY DEF OwnInv, JobInv
<1>2. /\ DOMAIN j = DOMAIN job[w] /\ Goes(w, j)
      /\ j.token = job[w].token /\ j.handler = job[w].handler /\ j.pc = "done"
  BY <1>1 DEF JobFields, Replied
<1> HIDE DEF j
<1>3. QED
  BY <1>2, EditedJob

(* What a handler does keeps the token it came with, or signs one for the  *)
(* entity that it is about; it never starts or drops a request.            *)
LEMMA HandlerStep ==
  ASSUME OwnInv, NEW w \in Workers, Progress(w)
  PROVE  job[w].pc # "idle" /\ Moved(w)
<1>0. /\ JobInv(job[w], proc[w].as) /\ SignsFor(job[w], proc[w].as)
      /\ JobFields \subseteq DOMAIN job[w]
  BY DEF OwnInv, JobInv
<1>1. ASSUME Check(w)
      PROVE  job[w].pc # "idle" /\ Moved(w)
  <2>1. job[w].pc # "idle"
    BY <1>1 DEF Check
  <2>2. (\E r : Replied(w, r)) => Moved(w)
    BY <2>1, RepliedJob
  <2>3. ASSUME NEW v, NEW c, NEW l,
               Goes(w, [job[w] EXCEPT !.pc = "call", !.pre = v, !.checked = now,
                                   !.claims = c, !.left = l])
        PROVE  Moved(w)
    <3> DEFINE j == [job[w] EXCEPT !.pc = "call", !.pre = v, !.checked = now,
                                   !.claims = c, !.left = l]
    <3>1. /\ DOMAIN j = DOMAIN job[w] /\ Goes(w, j)
          /\ j.token = job[w].token /\ j.handler = job[w].handler /\ j.pc = "call"
      BY <1>0, <1>1, <2>3 DEF JobFields, Check
    <3> HIDE DEF j
    <3>2. QED
      BY <1>0, <1>1, <2>1, <2>3, <3>1, EditedJob DEF SignsFor, Check
  <2>4. QED
    BY <1>1, <2>1, <2>2, <2>3 DEF Check
<1>2. ASSUME Call(w)
      PROVE  job[w].pc # "idle" /\ Moved(w)
  <2>1. job[w].pc # "idle"
    BY <1>2 DEF Call
  <2>2. (\E r : Replied(w, r)) => Moved(w)
    BY <2>1, RepliedJob
  <2>3. ASSUME NEW l, Goes(w, [job[w] EXCEPT !.left = l])
        PROVE  Moved(w)
    <3> DEFINE j == [job[w] EXCEPT !.left = l]
    <3>1. /\ DOMAIN j = DOMAIN job[w] /\ Goes(w, j)
          /\ j.token = job[w].token /\ j.handler = job[w].handler /\ j.pc = "call"
      BY <1>0, <1>2, <2>3 DEF JobFields, Call
    <3> HIDE DEF j
    <3>2. QED
      BY <1>0, <1>2, <2>1, <2>3, <3>1, EditedJob DEF SignsFor, Call
  <2>4. ASSUME Goes(w, [job[w] EXCEPT !.pc = "notify"])
        PROVE  Moved(w)
    <3> DEFINE j == [job[w] EXCEPT !.pc = "notify"]
    <3>1. /\ DOMAIN j = DOMAIN job[w] /\ Goes(w, j)
          /\ j.token = job[w].token /\ j.handler = job[w].handler /\ j.pc = "notify"
      BY <1>0, <1>2, <2>4 DEF JobFields, Call
    <3> HIDE DEF j
    <3>2. QED
      BY <1>0, <1>2, <2>1, <2>4, <3>1, EditedJob DEF SignsFor, Call
  <2>5. QED
    BY <1>2, <2>1, <2>2, <2>3, <2>4 DEF Call
<1>3. ASSUME Notify(w)
      PROVE  job[w].pc # "idle" /\ Moved(w)
  <2>1. job[w].pc # "idle"
    BY <1>3 DEF Notify
  <2>2. ASSUME NEW l, Goes(w, [job[w] EXCEPT !.pc = "call", !.left = l])
        PROVE  Moved(w)
    <3> DEFINE j == [job[w] EXCEPT !.pc = "call", !.left = l]
    <3>1. /\ DOMAIN j = DOMAIN job[w] /\ Goes(w, j)
          /\ j.token = job[w].token /\ j.handler = job[w].handler /\ j.pc = "call"
      BY <1>0, <1>3, <2>2 DEF JobFields, Notify
    <3> HIDE DEF j
    <3>2. QED
      BY <1>0, <1>3, <2>1, <2>2, <3>1, EditedJob DEF SignsFor, Notify
  <2>3. QED
    BY <1>3, <2>1, <2>2 DEF Notify
<1>4. ASSUME Finish(w)
      PROVE  job[w].pc # "idle" /\ Moved(w)
  <2>1. job[w].pc # "idle"
    BY <1>4 DEF Finish
  <2>2. (\E r : Replied(w, r)) => Moved(w)
    BY <2>1, RepliedJob
  <2>3. ASSUME NEW l, Goes(w, [job[w] EXCEPT !.pc = "members", !.listed = l])
        PROVE  Moved(w)
    <3> DEFINE j == [job[w] EXCEPT !.pc = "members", !.listed = l]
    <3>1. /\ DOMAIN j = DOMAIN job[w] /\ Goes(w, j)
          /\ j.token = job[w].token /\ j.handler = job[w].handler /\ j.pc = "members"
      BY <1>0, <1>4, <2>3 DEF JobFields, Finish
    <3> HIDE DEF j
    <3>2. QED
      BY <1>0, <1>4, <2>1, <2>3, <3>1, EditedJob DEF SignsFor, Finish
  <2>4. ASSUME job[w].handler.then = "sign",
               Goes(w, [job[w] EXCEPT !.pc = "entity"])
        PROVE  Moved(w)
    <3> DEFINE j == [job[w] EXCEPT !.pc = "entity"]
    <3>1. /\ DOMAIN j = DOMAIN job[w] /\ Goes(w, j)
          /\ j.token = job[w].token /\ j.handler = job[w].handler /\ j.pc = "entity"
      BY <1>0, <1>4, <2>4 DEF JobFields, Finish
    <3> HIDE DEF j
    <3>2. QED
      BY <1>0, <1>4, <2>1, <2>4, <3>1, EditedJob DEF SignsFor, Finish
  <2>5. job[w].handler.then \in {"reply", "members", "sign"}
    BY <1>0 DEF SignsFor
  <2>6. QED
    BY <1>4, <2>1, <2>2, <2>3, <2>4, <2>5 DEF Finish
<1>5. ASSUME NEW y \in Entities, LoadMember(w, y)
      PROVE  job[w].pc # "idle" /\ Moved(w)
  <2>1. job[w].pc # "idle"
    BY <1>5 DEF LoadMember
  <2>2. (\E r : Replied(w, r)) => Moved(w)
    BY <2>1, RepliedJob
  <2>3. ASSUME NEW l, Goes(w, [job[w] EXCEPT !.listed = l])
        PROVE  Moved(w)
    <3> DEFINE j == [job[w] EXCEPT !.listed = l]
    <3>1. /\ DOMAIN j = DOMAIN job[w] /\ Goes(w, j)
          /\ j.token = job[w].token /\ j.handler = job[w].handler /\ j.pc = "members"
      BY <1>0, <1>5, <2>3 DEF JobFields, LoadMember
    <3> HIDE DEF j
    <3>2. QED
      BY <1>0, <1>5, <2>1, <2>3, <3>1, EditedJob DEF SignsFor, LoadMember
  <2>4. QED
    BY <1>5, <2>1, <2>2, <2>3 DEF LoadMember
<1>6. ASSUME MembersListed(w)
      PROVE  job[w].pc # "idle" /\ Moved(w)
  <2>1. job[w].pc # "idle"
    BY <1>6 DEF MembersListed
  <2>2. (\E r : Replied(w, r)) => Moved(w)
    BY <2>1, RepliedJob
  <2>3. QED
    BY <1>6, <2>1, <2>2 DEF MembersListed
<1>7. ASSUME FetchClaimant(w)
      PROVE  job[w].pc # "idle" /\ Moved(w)
  <2>1. job[w].pc # "idle"
    BY <1>7 DEF FetchClaimant
  <2>2. ASSUME Goes(w, [job[w] EXCEPT !.pc = "groupcaps"])
        PROVE  Moved(w)
    <3> DEFINE j == [job[w] EXCEPT !.pc = "groupcaps"]
    <3>1. /\ DOMAIN j = DOMAIN job[w] /\ Goes(w, j)
          /\ j.token = job[w].token /\ j.handler = job[w].handler /\ j.pc = "groupcaps"
      BY <1>0, <1>7, <2>2 DEF JobFields, FetchClaimant
    <3> HIDE DEF j
    <3>2. QED
      BY <1>0, <1>7, <2>1, <2>2, <3>1, EditedJob DEF SignsFor, FetchClaimant
  <2>3. ASSUME NEW c, Goes(w, [job[w] EXCEPT !.pc = "groups", !.caps = c])
        PROVE  Moved(w)
    <3> DEFINE j == [job[w] EXCEPT !.pc = "groups", !.caps = c]
    <3>1. /\ DOMAIN j = DOMAIN job[w] /\ Goes(w, j)
          /\ j.token = job[w].token /\ j.handler = job[w].handler /\ j.pc = "groups"
      BY <1>0, <1>7, <2>3 DEF JobFields, FetchClaimant
    <3> HIDE DEF j
    <3>2. QED
      BY <1>0, <1>7, <2>1, <2>3, <3>1, EditedJob DEF SignsFor, FetchClaimant
  <2>4. QED
    BY <1>7, <2>1, <2>2, <2>3 DEF FetchClaimant
<1>8. ASSUME ListGroups(w)
      PROVE  job[w].pc # "idle" /\ Moved(w)
  <2>1. job[w].pc # "idle"
    BY <1>8 DEF ListGroups
  <2>2. ASSUME NEW l, Goes(w, [job[w] EXCEPT !.pc = "groupcaps", !.listed = l])
        PROVE  Moved(w)
    <3> DEFINE j == [job[w] EXCEPT !.pc = "groupcaps", !.listed = l]
    <3>1. /\ DOMAIN j = DOMAIN job[w] /\ Goes(w, j)
          /\ j.token = job[w].token /\ j.handler = job[w].handler /\ j.pc = "groupcaps"
      BY <1>0, <1>8, <2>2 DEF JobFields, ListGroups
    <3> HIDE DEF j
    <3>2. QED
      BY <1>0, <1>8, <2>1, <2>2, <3>1, EditedJob DEF SignsFor, ListGroups
  <2>3. QED
    BY <1>8, <2>1, <2>2 DEF ListGroups
<1>9. ASSUME NEW n \in Groups, AddGroupCaps(w, n)
      PROVE  job[w].pc # "idle" /\ Moved(w)
  <2>1. job[w].pc # "idle"
    BY <1>9 DEF AddGroupCaps
  <2>2. ASSUME NEW l, NEW c, Goes(w, [job[w] EXCEPT !.listed = l, !.caps = c])
        PROVE  Moved(w)
    <3> DEFINE j == [job[w] EXCEPT !.listed = l, !.caps = c]
    <3>1. /\ DOMAIN j = DOMAIN job[w] /\ Goes(w, j)
          /\ j.token = job[w].token /\ j.handler = job[w].handler /\ j.pc = "groupcaps"
      BY <1>0, <1>9, <2>2 DEF JobFields, AddGroupCaps
    <3> HIDE DEF j
    <3>2. QED
      BY <1>0, <1>9, <2>1, <2>2, <3>1, EditedJob DEF SignsFor, AddGroupCaps
  <2>3. QED
    BY <1>9, <2>1, <2>2 DEF AddGroupCaps
<1>10. ASSUME Sign(w)
      PROVE  job[w].pc # "idle" /\ Moved(w)
  <2> DEFINE t == [entity |-> job[w].handler.subject, caps |-> job[w].caps,
                   exp |-> now + Lifetime]
             j == [job[w] EXCEPT !.pc = "done", !.reply = "ok", !.token = t]
  <2>1. job[w].pc = "groupcaps" /\ Goes(w, j)
    BY <1>10 DEF Sign
  <2>2. job[w].handler.subject = proc[w].as
    BY <1>0, <2>1 DEF SignsFor
  <2>3. /\ DOMAIN j = DOMAIN job[w]
        /\ j.token = t /\ j.handler = job[w].handler /\ j.pc = "done"
    BY <1>0 DEF JobFields
  <2>4. t.entity = proc[w].as
    BY <2>2
  <2> HIDE DEF j, t
  <2>5. JobInv(j, proc[w].as)
    BY <1>0, <2>1, <2>3, <2>4 DEF JobInv, SignsFor, Of
  <2>6. QED
    BY <2>1, <2>3, <2>5 DEF Moved
<1>11. QED
  BY <1>1, <1>2, <1>3, <1>4, <1>5, <1>6, <1>7, <1>8, <1>9, <1>10 DEF Progress

-----------------------------------------------------------------------------
(* A step of worker w, or of the process it serves, has only those two to  *)
(* answer for.                                                             *)
OwnFiles == \A x \in DOMAIN cache : Of(cache[x], x)

LEMMA OwnKept ==
  ASSUME OwnInv, NEW w \in Workers, NEW p, Turns(w, p),
         DOMAIN job' = Workers, \A v \in Workers \ {w} : job'[v] = job[v],
         JobInv(job'[w], p.as), ProcInv(p), p.pc \notin Waiting => job'[w].pc = "idle",
         OwnFiles'
  PROVE  OwnInv'
<1>1. /\ DOMAIN proc' = Workers /\ proc'[w] = p
      /\ \A v \in Workers \ {w} : proc'[v] = proc[v]
  BY DEF Turns, OwnInv
<1>2. ASSUME NEW v \in Workers
      PROVE  /\ JobInv(job'[v], proc'[v].as) /\ ProcInv(proc'[v])
             /\ proc'[v].pc \notin Waiting => job'[v].pc = "idle"
  <2>1. CASE v = w
    BY <1>1, <2>1
  <2>2. CASE v # w
    BY <1>1, <2>2 DEF OwnInv
  <2>3. QED
    BY <2>1, <2>2
<1>3. QED
  BY <1>1, <1>2 DEF OwnInv, OwnFiles, JobInv, ProcInv, SignsFor

LEMMA SentKept ==
  ASSUME OwnInv, NEW w \in Workers, NEW p, Turns(w, p), NEW j, Goes(w, j),
         JobInv(j, p.as), ProcInv(p), p.pc \in Waiting, OwnFiles'
  PROVE  OwnInv'
<1>1. /\ DOMAIN job' = Workers /\ job'[w] = j
      /\ \A v \in Workers \ {w} : job'[v] = job[v]
  BY DEF Goes, OwnInv
<1>2. QED
  BY <1>1, OwnKept

LEMMA QuietKept ==
  ASSUME OwnInv, NEW w \in Workers, NEW p, Turns(w, p), Quiet(w), ProcInv(p), OwnFiles'
  PROVE  OwnInv'
<1>1. /\ DOMAIN job' = Workers /\ job'[w] = IdleJob
      /\ \A v \in Workers \ {w} : job'[v] = job[v]
  BY DEF Quiet, Goes, OwnInv
<1>2. IdleJob.pc = "idle"
  BY DEF IdleJob
<1>3. QED
  BY <1>1, <1>2, IdleJobInv, OwnKept

(* A request that was put together well. *)
LEMMA IncomingJob ==
  ASSUME NEW x, NEW s, NEW h, NEW t, Of(t, x),
         h.then \in {"reply", "members", "sign"}, h.then = "sign" => h.subject = x
  PROVE  JobInv(Incoming(s, h, t), x)
<1> DEFINE j == Incoming(s, h, t)
<1>1. JobFields \subseteq DOMAIN j /\ j.pc = "check" /\ j.handler = h /\ j.token = t
  BY DEF Incoming, IdleJob, JobFields
<1> HIDE DEF j
<1>2. Of(j.token, x) /\ SignsFor(j, x)
  BY <1>1 DEF SignsFor
<1>3. JobInv(j, x)
  BY <1>1, <1>2 DEF JobInv
<1>4. QED
  BY <1>3 DEF j

LEMMA TokenRequests ==
  ASSUME NEW x, NEW s
  PROVE  /\ AuthGetToken(x, s).then = "sign" /\ AuthGetToken(x, s).subject = x
         /\ AuthValidateToken.then = "reply"
  BY DEF AuthGetToken, AuthEntity, Open, AuthValidateToken, Handler

(* What is left of a process that goes on.                                 *)
LEMMA EditedProc ==
  ASSUME NEW p, ProcInv(p), NEW q, DOMAIN q = DOMAIN p, q.as = p.as,
         Of(q.token, p.as), Of(q.read, p.as),
         q.left \in Seq(Steps), q.rest \in Seq(Requested),
         q.pc \notin {"idle", "ended"} => q.left # <<>>
  PROVE  ProcInv(q)
  BY DEF ProcInv

LEMMA OnwardProc ==
  ASSUME NEW p, ProcInv(p), p.left # <<>>
  PROVE  /\ ProcInv(Onward(p)) /\ Onward(p).as = p.as
         /\ Onward(p).pc \in {"ended", "ready"}
<1> DEFINE e == [p EXCEPT !.pc = "ended", !.left = <<>>, !.reply = "ok"]
           r == [p EXCEPT !.pc = "ready", !.left = Tail(p.left)]
<1>0. /\ ProcFields \subseteq DOMAIN p /\ p.left \in Seq(Steps) /\ p.rest \in Seq(Requested)
      /\ Of(p.token, p.as) /\ Of(p.read, p.as)
  BY DEF ProcInv
<1>1. CASE Len(p.left) = 1
  <2>1. /\ DOMAIN e = DOMAIN p /\ e.as = p.as /\ e.token = p.token /\ e.read = p.read
        /\ e.left = <<>> /\ e.rest = p.rest /\ e.pc = "ended"
    BY <1>0 DEF ProcFields
  <2>2. Onward(p) = e
    BY <1>1 DEF Onward
  <2> HIDE DEF e
  <2>3. <<>> \in Seq(Steps)
    OBVIOUS
  <2>4. ProcInv(e)
    BY <1>0, <2>1, <2>3, EditedProc
  <2>5. QED
    BY <2>1, <2>2, <2>4
<1>2. CASE Len(p.left) # 1
  <2>1. /\ DOMAIN r = DOMAIN p /\ r.as = p.as /\ r.token = p.token /\ r.read = p.read
        /\ r.left = Tail(p.left) /\ r.rest = p.rest /\ r.pc = "ready"
    BY <1>0 DEF ProcFields
  <2>2. Onward(p) = r
    BY <1>2 DEF Onward
  <2>3. Tail(p.left) \in Seq(Steps) /\ Tail(p.left) # <<>>
    <3> DEFINE l == p.left
    <3>1. l \in Seq(Steps) /\ l # <<>> /\ Len(l) # 1
      BY <1>0, <1>2
    <3> HIDE DEF l
    <3>2. Tail(l) \in Seq(Steps) /\ Len(Tail(l)) = Len(l) - 1 /\ Len(l) \in Nat \ {0, 1}
      BY <3>1
    <3>3. Len(Tail(l)) # 0 /\ Len(<<>>) = 0
      BY <3>2
    <3>4. Tail(l) # <<>>
      BY ONLY <3>3, Zenon
    <3>5. QED
      BY <3>2, <3>4 DEF l
  <2> HIDE DEF r
  <2>4. ProcInv(r)
    BY <1>0, <2>1, <2>3, EditedProc
  <2>5. QED
    BY <2>1, <2>2, <2>4
<1>3. QED
  BY <1>1, <1>2

LEMMA AttachedProc ==
  ASSUME NEW p, ProcInv(p), p.left # <<>>, NEW t, Of(t, p.as)
  PROVE  /\ ProcInv(Attach(p, t)) /\ Attach(p, t).as = p.as
         /\ Attach(p, t).pc \in {"ended", "ready"}
<1> DEFINE q == [p EXCEPT !.token = t, !.attached = TRUE]
<1>0. /\ ProcFields \subseteq DOMAIN p /\ p.left \in Seq(Steps) /\ p.rest \in Seq(Requested)
      /\ Of(p.read, p.as)
  BY DEF ProcInv
<1>1. /\ DOMAIN q = DOMAIN p /\ q.as = p.as /\ q.token = t /\ q.read = p.read
      /\ q.left = p.left /\ q.rest = p.rest
  BY <1>0 DEF ProcFields
<1>2. Attach(p, t) = Onward(q)
  BY DEF Attach
<1> HIDE DEF q
<1>3. ProcInv(q)
  BY <1>0, <1>1, EditedProc
<1>4. QED
  BY <1>1, <1>2, <1>3, OnwardProc

LEMMA EndedProc ==
  ASSUME OwnInv, NEW w \in Workers, NEW p, ProcInv(p), NEW r, Ends(w, p, r), OwnFiles'
  PROVE  OwnInv'
<1> DEFINE q == [p EXCEPT !.pc = "ended", !.reply = r]
<1>1. /\ DOMAIN q = DOMAIN p /\ q.as = p.as /\ q.token = p.token /\ q.read = p.read
      /\ q.left = p.left /\ q.rest = p.rest /\ q.pc = "ended"
  BY DEF ProcInv, ProcFields
<1>2. Turns(w, q) /\ Quiet(w)
  BY DEF Ends
<1> HIDE DEF q
<1>3. ProcInv(q)
  BY <1>1, EditedProc DEF ProcInv
<1>4. QED
  BY <1>2, <1>3, QuietKept

-----------------------------------------------------------------------------
(* The steps of a command.                                                 *)
LEMMA ProcFacts ==
  ASSUME OwnInv, NEW w \in Workers
  PROVE  /\ ProcInv(proc[w]) /\ ProcFields \subseteq DOMAIN proc[w]
         /\ Of(proc[w].token, proc[w].as) /\ Of(proc[w].read, proc[w].as)
         /\ proc[w].left \in Seq(Steps) /\ proc[w].rest \in Seq(Requested)
         /\ proc[w].pc \notin {"idle", "ended"} => proc[w].left # <<>>
         /\ Of(job[w].token, proc[w].as)
         /\ OwnFiles
         /\ UNCHANGED cache => OwnFiles'
  BY DEF OwnInv, ProcInv, JobInv, OwnFiles

LEMMA AskForTokenKept ==
  ASSUME OwnInv, NEW w \in Workers, AskForToken(w, proc[w]), proc[w].left # <<>>, OwnFiles'
  PROVE  OwnInv'
<1> DEFINE p == proc[w]
           q == [p EXCEPT !.pc = "renew"]
           h == AuthGetToken(p.as, p.secret)
           j == Incoming(p.server, h, NoToken)
<1>1. /\ DOMAIN q = DOMAIN p /\ q.as = p.as /\ q.token = p.token /\ q.read = p.read
      /\ q.left = p.left /\ q.rest = p.rest /\ q.pc = "renew"
  BY ProcFacts DEF ProcFields
<1>2. Turns(w, q) /\ Goes(w, j)
  BY DEF AskForToken, Send
<1>3. h.then = "sign" /\ h.subject = p.as /\ Of(NoToken, p.as)
  BY TokenRequests DEF Of
<1>4. JobInv(j, p.as)
  <2> HIDE DEF h
  <2>1. QED
    BY <1>3, IncomingJob
<1> HIDE DEF q, j
<1>5. ProcInv(q)
  BY <1>1, ProcFacts, EditedProc
<1>6. QED
  BY <1>1, <1>2, <1>4, <1>5, SentKept DEF Waiting

LEMMA AskIfValidKept ==
  ASSUME OwnInv, NEW w \in Workers, NEW t, Of(t, proc[w].as), NEW pc0 \in {"first", "second"},
         AskIfValid(w, proc[w], t, pc0), proc[w].left # <<>>, OwnFiles'
  PROVE  OwnInv'
<1> DEFINE p == proc[w]
           q == [p EXCEPT !.pc = pc0, !.read = t]
           j == Incoming(p.server, AuthValidateToken, t)
<1>1. /\ DOMAIN q = DOMAIN p /\ q.as = p.as /\ q.token = p.token /\ q.read = t
      /\ q.left = p.left /\ q.rest = p.rest /\ q.pc = pc0
  BY ProcFacts DEF ProcFields
<1>2. Turns(w, q) /\ Goes(w, j)
  BY DEF AskIfValid, Send
<1>3. JobInv(j, p.as)
  BY TokenRequests, IncomingJob
<1> HIDE DEF q, j
<1>4. ProcInv(q)
  BY <1>1, ProcFacts, EditedProc
<1>5. QED
  BY <1>1, <1>2, <1>3, <1>4, SentKept DEF Waiting

LEMMA TokenStepsOwn ==
  ASSUME OwnInv, NEW w \in Workers,
         FindToken(w) \/ TokenChecked(w) \/ RenewToken(w)
  PROVE  OwnInv'
<1>0. OwnFiles'
  BY ProcFacts DEF FindToken, TokenChecked, RenewToken
<1>1. CASE FindToken(w)
  <2>1. proc[w].pc = "ready"
    BY <1>1 DEF FindToken, Doing
  <2>2. proc[w].left # <<>>
    BY <2>1, ProcFacts
  <2>3. CASE proc[w].as \in DOMAIN cache
    <3>1. Of(cache[proc[w].as], proc[w].as)
      BY <2>3, ProcFacts DEF OwnFiles
    <3>2. AskIfValid(w, proc[w], cache[proc[w].as], "first")
      BY <1>1, <2>3 DEF FindToken
    <3>3. QED
      BY <1>0, <2>2, <3>1, <3>2, AskIfValidKept
  <2>4. CASE proc[w].as \notin DOMAIN cache
    <3>1. AskForToken(w, proc[w])
      BY <1>1, <2>4 DEF FindToken
    <3>2. QED
      BY <1>0, <2>2, <3>1, AskForTokenKept
  <2>5. QED
    BY <2>3, <2>4
<1>2. CASE TokenChecked(w)
  <2>1. proc[w].pc \in {"first", "second"}
    BY <1>2 DEF TokenChecked
  <2>2. proc[w].left # <<>> /\ Of(proc[w].read, proc[w].as) /\ Of(NoToken, proc[w].as)
    BY <2>1, ProcFacts DEF Of
  <2>3. CASE proc[w].pc = "first"
    <3>1. AskIfValid(w, proc[w], proc[w].read, "second") \/ AskForToken(w, proc[w])
      BY <1>2, <2>3 DEF TokenChecked
    <3>2. QED
      BY <1>0, <2>2, <3>1, AskIfValidKept, AskForTokenKept
  <2>4. CASE proc[w].pc = "second"
    <3>1. PICK t \in {proc[w].read, NoToken} : Quiet(w) /\ Turns(w, Attach(proc[w], t))
      BY <1>2, <2>4 DEF TokenChecked
    <3>2. ProcInv(Attach(proc[w], t))
      BY <2>2, <3>1, ProcFacts, AttachedProc
    <3>3. QED
      BY <1>0, <3>1, <3>2, QuietKept
  <2>5. QED
    BY <2>1, <2>3, <2>4
<1>3. CASE RenewToken(w)
  <2>1. proc[w].pc = "ready" /\ AskForToken(w, proc[w])
    BY <1>3 DEF RenewToken, Doing
  <2>2. QED
    BY <1>0, <2>1, ProcFacts, AskForTokenKept
<1>4. QED
  BY <1>1, <1>2, <1>3

(* A file is written by the processes of its owner only. *)
LEMMA StoredOwn ==
  ASSUME OwnFiles, NEW x, NEW t, Of(t, x), cache' = Stored(x, t)
  PROVE  OwnFiles'
  BY DEF OwnFiles, Stored

LEMMA CacheStepsOwn ==
  ASSUME OwnInv, NEW w \in Workers,
         TokenRenewed(w) \/ WriteToken(w) \/ DropToken(w) \/ InspectToken(w)
  PROVE  OwnInv'
<1>1. CASE TokenRenewed(w)
  <2>1. proc[w].pc = "renew" /\ Of(NoToken, proc[w].as)
    BY <1>1 DEF TokenRenewed, Of
  <2>2. CASE Ends(w, proc[w], Reply(w)) /\ UNCHANGED cache
    BY <2>2, ProcFacts, EndedProc
  <2>3. CASE /\ Quiet(w) /\ cache' = Stored(proc[w].as, NoToken)
             /\ Turns(w, [proc[w] EXCEPT !.pc = "put", !.read = job[w].token])
    <3> DEFINE p == proc[w]
               q == [p EXCEPT !.pc = "put", !.read = job[w].token]
    <3>1. /\ DOMAIN q = DOMAIN p /\ q.as = p.as /\ q.token = p.token /\ q.read = job[w].token
          /\ q.left = p.left /\ q.rest = p.rest /\ Turns(w, q)
      BY <2>3, ProcFacts DEF ProcFields
    <3> HIDE DEF q
    <3>2. ProcInv(q)
      BY <2>1, <3>1, ProcFacts, EditedProc
    <3>3. OwnFiles'
      BY <2>1, <2>3, ProcFacts, StoredOwn
    <3>4. QED
      BY <2>3, <3>1, <3>2, <3>3, QuietKept
  <2>4. QED
    BY <1>1, <2>2, <2>3 DEF TokenRenewed
<1>2. CASE WriteToken(w)
  <2>1. /\ proc[w].pc = "put" /\ UNCHANGED job
        /\ cache' \in {cache, Stored(proc[w].as, proc[w].read)}
    BY <1>2 DEF WriteToken
  <2>2. PICK q \in {Attach(proc[w], proc[w].read), Onward(proc[w])} : Turns(w, q)
    BY <1>2 DEF WriteToken
  <2>3. ProcInv(q) /\ q.as = proc[w].as
    BY <2>1, ProcFacts, AttachedProc, OnwardProc
  <2>4. OwnFiles'
    BY <2>1, ProcFacts, StoredOwn
  <2>5. job[w].pc = "idle" /\ JobInv(job[w], proc[w].as) /\ DOMAIN job = Workers
    BY <2>1 DEF OwnInv, Waiting
  <2>6. QED
    BY <2>1, <2>2, <2>3, <2>4, <2>5, OwnKept
<1>3. CASE DropToken(w)
  <2>1. proc[w].pc = "ready" /\ UNCHANGED job /\ Turns(w, Onward(proc[w]))
    BY <1>3 DEF DropToken, Doing
  <2>2. ProcInv(Onward(proc[w])) /\ Onward(proc[w]).as = proc[w].as
    BY <2>1, ProcFacts, OnwardProc
  <2>3. OwnFiles'
    BY <1>3, ProcFacts DEF DropToken, OwnFiles
  <2>4. job[w].pc = "idle" /\ JobInv(job[w], proc[w].as) /\ DOMAIN job = Workers
    BY <2>1 DEF OwnInv, Waiting
  <2>5. QED
    BY <2>1, <2>2, <2>3, <2>4, OwnKept
<1>4. CASE InspectToken(w)
  <2>1. proc[w].pc = "ready" /\ UNCHANGED cache
    BY <1>4 DEF InspectToken, Doing
  <2>2. CASE Quiet(w) /\ Turns(w, Onward(proc[w]))
    BY <2>1, <2>2, ProcFacts, OnwardProc, QuietKept
  <2>3. CASE Ends(w, proc[w], "unauthenticated")
    BY <2>1, <2>3, ProcFacts, EndedProc
  <2>4. QED
    BY <1>4, <2>2, <2>3 DEF InspectToken
<1>5. QED
  BY <1>1, <1>2, <1>3, <1>4

(* The requests of a call are put together well. *)
LEMMA CalledJob ==
  ASSUME NEW h \in Requested, NEW s, NEW t, NEW x, Of(t, x)
  PROVE  JobInv(Incoming(s, h, t), x)
  BY CommandsAssumption, IncomingJob

LEMMA CallStepsOwn ==
  ASSUME OwnInv, NEW w \in Workers,
         CallLibrary(w) \/ CallAnswered(w) \/ Exit(w)
  PROVE  OwnInv'
<1>0. OwnFiles' /\ UNCHANGED cache
  BY ProcFacts DEF CallLibrary, CallAnswered, Exit
<1>1. CASE CallLibrary(w)
  <2> DEFINE p == proc[w]
             c == Head(p.left).call
             s == IF c.master THEN CoreMaster ELSE p.server
             q == [p EXCEPT !.pc = "asked", !.server = s, !.rest = Tail(c.rpcs)]
             j == Incoming(s, Head(c.rpcs), p.token)
  <2>1. p.pc = "ready" /\ Head(p.left).do = "call"
    BY <1>1 DEF CallLibrary, Doing
  <2>2. Head(p.left) \in Steps
    <3> DEFINE l == p.left
    <3>1. l \in Seq(Steps) /\ l # <<>>
      BY <2>1, ProcFacts
    <3> HIDE DEF l
    <3>2. Head(l) \in Steps
      BY <3>1
    <3>3. QED
      BY <3>2 DEF l
  <2>3. c.rpcs \in Seq(Requested)
    BY <2>1, <2>2, CommandsAssumption
  <2>4. CASE Ends(w, p, "refused")
    BY <1>0, <2>4, ProcFacts, EndedProc
  <2>5. CASE c.rpcs # <<>> /\ Send(w, s, Head(c.rpcs), p.token) /\ Turns(w, q)
    <3>1. /\ DOMAIN q = DOMAIN p /\ q.as = p.as /\ q.token = p.token /\ q.read = p.read
          /\ q.left = p.left /\ q.rest = Tail(c.rpcs) /\ q.pc = "asked"
      BY ProcFacts DEF ProcFields
    <3>2. Head(c.rpcs) \in Requested /\ Tail(c.rpcs) \in Seq(Requested)
      <4> DEFINE l == c.rpcs
      <4>1. l \in Seq(Requested) /\ l # <<>>
        BY <2>3, <2>5
      <4> HIDE DEF l
      <4>2. Head(l) \in Requested /\ Tail(l) \in Seq(Requested)
        BY <4>1
      <4>3. QED
        BY <4>2 DEF l
    <3>3. JobInv(j, p.as) /\ Goes(w, j)
      BY <2>5, <3>2, ProcFacts, CalledJob DEF Send
    <3>4. ProcInv(q)
      <4> HIDE DEF q, c
      <4>1. QED
        BY <2>1, <3>1, <3>2, ProcFacts, EditedProc
    <3> HIDE DEF q, j
    <3>5. QED
      BY <1>0, <2>5, <3>1, <3>3, <3>4, SentKept DEF Waiting
  <2>6. QED
    BY <1>1, <2>4, <2>5 DEF CallLibrary
<1>2. CASE CallAnswered(w)
  <2> DEFINE p == proc[w]
             q == [p EXCEPT !.rest = Tail(p.rest)]
             j == Incoming(p.server, Head(p.rest), p.token)
  <2>1. p.pc = "asked"
    BY <1>2 DEF CallAnswered
  <2>2. CASE Ends(w, p, Reply(w))
    BY <1>0, <2>2, ProcFacts, EndedProc
  <2>3. CASE Quiet(w) /\ Turns(w, Onward(p))
    BY <1>0, <2>1, <2>3, ProcFacts, OnwardProc, QuietKept
  <2>4. CASE p.rest # <<>> /\ Send(w, p.server, Head(p.rest), p.token) /\ Turns(w, q)
    <3>1. /\ DOMAIN q = DOMAIN p /\ q.as = p.as /\ q.token = p.token /\ q.read = p.read
          /\ q.left = p.left /\ q.rest = Tail(p.rest) /\ q.pc = "asked"
      BY <2>1, ProcFacts DEF ProcFields
    <3>2. Head(p.rest) \in Requested /\ Tail(p.rest) \in Seq(Requested)
      <4> DEFINE l == p.rest
      <4>1. l \in Seq(Requested) /\ l # <<>>
        BY <2>4, ProcFacts
      <4> HIDE DEF l
      <4>2. Head(l) \in Requested /\ Tail(l) \in Seq(Requested)
        BY <4>1
      <4>3. QED
        BY <4>2 DEF l
    <3>3. JobInv(j, p.as) /\ Goes(w, j)
      BY <2>4, <3>2, ProcFacts, CalledJob DEF Send
    <3> HIDE DEF q, j
    <3>4. ProcInv(q)
      BY <2>1, <3>1, <3>2, ProcFacts, EditedProc
    <3>5. QED
      BY <1>0, <2>4, <3>1, <3>3, <3>4, SentKept DEF Waiting
  <2>5. QED
    BY <1>2, <2>2, <2>3, <2>4 DEF CallAnswered
<1>3. CASE Exit(w)
  <2>1. proc[w].pc = "ended" /\ UNCHANGED job /\ Turns(w, Idle)
    BY <1>3 DEF Exit
  <2>2. job[w].pc = "idle" /\ JobInv(job[w], proc[w].as) /\ DOMAIN job = Workers
    BY <2>1 DEF OwnInv, Waiting
  <2>3. JobInv(job[w], Idle.as)
    BY <2>2 DEF JobInv, SignsFor, Of
  <2>4. QED
    BY <1>0, <2>1, <2>2, <2>3, IdleProcInv, OwnKept
<1>4. QED
  BY <1>1, <1>2, <1>3

(* A command begins for a user of its own. *)
LEMMA BeginOwn ==
  ASSUME OwnInv, NEW w \in Workers, NEW c \in Offered[w], Begin(w, c)
  PROVE  OwnInv'
<1> DEFINE q == [Idle EXCEPT !.pc = "ready", !.as = c.as, !.secret = c.secret,
                             !.left = c.steps, !.began = <<now, crashes>>]
<1>1. proc[w].pc = "idle" /\ UNCHANGED <<job, cache>> /\ Turns(w, q)
  BY DEF Begin
<1>2. c.steps \in Seq(Steps) /\ c.steps # <<>>
  BY CommandsAssumption
<1>3. /\ ProcFields \subseteq DOMAIN q /\ q.as = c.as /\ q.token = NoToken /\ q.read = NoToken
      /\ q.left = c.steps /\ q.rest = <<>> /\ q.pc = "ready"
  BY DEF Idle, ProcFields
<1> HIDE DEF q
<1>4. ProcInv(q)
  BY <1>2, <1>3 DEF ProcInv, Of
<1>5. job[w].pc = "idle" /\ JobInv(job[w], proc[w].as) /\ DOMAIN job = Workers
  BY <1>1 DEF OwnInv, Waiting
<1>6. JobInv(job[w], q.as)
  BY <1>5 DEF JobInv, SignsFor, Of
<1>7. OwnFiles'
  BY <1>1, ProcFacts
<1>8. QED
  BY <1>1, <1>4, <1>5, <1>6, <1>7, OwnKept

(* A handler at work, a server that dies. *)
LEMMA HandlerOwn ==
  ASSUME OwnInv, NEW w \in Workers, Progress(w), UNCHANGED commandVars
  PROVE  OwnInv'
<1>1. job[w].pc # "idle" /\ Moved(w)
  BY HandlerStep
<1>2. PICK j : Goes(w, j) /\ JobInv(j, proc[w].as) /\ j.pc # "idle"
  BY <1>1 DEF Moved
<1>3. UNCHANGED <<proc, cache>> /\ proc[w].pc \in Waiting
  BY <1>1 DEF commandVars, OwnInv
<1>4. DOMAIN job' = Workers /\ job'[w] = j /\ \A v \in Workers \ {w} : job'[v] = job[v]
  BY <1>2 DEF Goes, OwnInv
<1>5. ASSUME NEW v \in Workers
      PROVE  /\ JobInv(job'[v], proc[v].as) /\ ProcInv(proc[v])
             /\ proc[v].pc \notin Waiting => job'[v].pc = "idle"
  <2>1. CASE v = w
    BY <1>2, <1>3, <1>4, <2>1 DEF OwnInv
  <2>2. CASE v # w
    BY <1>4, <2>2 DEF OwnInv
  <2>3. QED
    BY <2>1, <2>2
<1>6. QED
  BY <1>3, <1>4, <1>5 DEF OwnInv, JobInv, ProcInv, SignsFor

LEMMA CrashOwn ==
  ASSUME OwnInv, NEW s \in Servers, Crash(s), UNCHANGED commandVars
  PROVE  OwnInv'
<1>1. UNCHANGED <<proc, cache>> /\ IdleJob.pc = "idle"
  BY DEF commandVars, IdleJob
<1>2. /\ DOMAIN job' = Workers
      /\ \A v \in Workers : job'[v] = job[v] \/ job'[v] = IdleJob
  BY DEF Crash
<1>3. ASSUME NEW v \in Workers
      PROVE  /\ JobInv(job'[v], proc[v].as) /\ ProcInv(proc[v])
             /\ proc[v].pc \notin Waiting => job'[v].pc = "idle"
  BY <1>1, <1>2, IdleJobInv DEF OwnInv
<1>4. QED
  BY <1>1, <1>2, <1>3 DEF OwnInv, JobInv, ProcInv, SignsFor

LEMMA OwnNext == OwnInv /\ [ClientNext]_allVars => OwnInv'
<1> SUFFICES ASSUME OwnInv, [ClientNext]_allVars PROVE OwnInv'
  OBVIOUS
<1>1. CASE UNCHANGED allVars
  BY <1>1 DEF allVars, vars, commandVars, OwnInv, JobInv, ProcInv, SignsFor
<1>2. ASSUME NEW w \in Workers, CommandStep(w) PROVE OwnInv'
  BY <1>2, TokenStepsOwn, CacheStepsOwn, CallStepsOwn, HandlerOwn DEF CommandStep
<1>3. ASSUME NEW w \in Workers, NEW c \in Offered[w], Begin(w, c) PROVE OwnInv'
  BY <1>3, BeginOwn
<1>4. CASE Tick /\ UNCHANGED <<past, commandVars>>
  BY <1>4 DEF Tick, commandVars, OwnInv, JobInv, ProcInv, SignsFor
<1>5. ASSUME NEW s \in Servers, Crash(s), UNCHANGED <<past, commandVars>> PROVE OwnInv'
  BY <1>5, CrashOwn
<1>6. QED
  BY <1>1, <1>2, <1>3, <1>4, <1>5 DEF ClientNext

(* Whatever token a request carries was issued to the entity that the      *)
(* command acts as: for any commands of any users of a host that share     *)
(* the files of the cache without a lock, any servers, and any crashes.    *)
THEOREM OwnTokens == ClientSpec => []CarriesOwnToken
<1>1. OwnInv => CarriesOwnToken
  BY DEF OwnInv, JobInv, Of, CarriesOwnToken
<1>2. QED
  BY <1>1, OwnInit, OwnNext, PTL DEF ClientSpec

-----------------------------------------------------------------------------
(* What the library and the servers agree on.                              *)

(* The calls of methods of the library about entity x, ...                 *)
EntityLibraryCall(c, x) ==
  \/ c \in {Cmd!Lib!EntityInfo(x), Cmd!Lib!EntityDestroy(x), Cmd!Lib!EntityLock(x),
            Cmd!Lib!EntityUnlock(x), Cmd!Lib!EntityGroups(x)}
  \/ \E n \in Numbers, s \in Secrets \cup {NoSecret} : c = Cmd!Lib!EntityCreate(x, n, s)
  \/ \E m \in Meta : c = Cmd!Lib!EntityUpdate(x, m)
  \/ \E action \in STRING, k \in MetaKeys, v \in Values : c = Cmd!Lib!EntityUM(x, action, k, v)
  \/ \E k \in KVKeys : c = Cmd!Lib!EntityKVGet(x, k)
  \/ \E k \in KVKeys, v \in Values :
       c \in {Cmd!Lib!EntityKVAdd(x, k, v), Cmd!Lib!EntityKVDel(x, k, v),
              Cmd!Lib!EntityKVReplace(x, k, v)}
  \/ \E action \in STRING, k \in Keys : c = Cmd!Lib!EntityKeys(x, action, k)
  \/ \E n \in Groups : c \in {Cmd!Lib!GroupAddMember(n, x), Cmd!Lib!GroupDelMember(n, x)}
  \/ \E s \in Secrets \cup {NoSecret} :
       c \in {Cmd!Lib!AuthEntity(x, s), Cmd!Lib!AuthGetToken(x, s)}
  \/ \E s, old \in Secrets \cup {NoSecret} : c = Cmd!Lib!AuthChangeSecret(x, s, old)
  \/ \E action \in STRING : \E cap :
       c = Cmd!Lib!SystemCapabilities(x, action, cap, TRUE)

(* ... about group n, ...                                                  *)
GroupLibraryCall(c, n) ==
  \/ c \in {Cmd!Lib!GroupInfo(n), Cmd!Lib!GroupDestroy(n), Cmd!Lib!GroupMembers(n)}
  \/ \E t \in Values \cup {NoText}, by \in Groups \cup {Unmanaged, Absent} :
       \/ \E num \in Numbers : c = Cmd!Lib!GroupCreate(n, t, by, num)
       \/ c = Cmd!Lib!GroupUpdate(n, t, by)
  \/ \E action \in STRING, k \in MetaKeys, v \in Values : c = Cmd!Lib!GroupUM(n, action, k, v)
  \/ \E k \in KVKeys : c = Cmd!Lib!GroupKVGet(n, k)
  \/ \E k \in KVKeys, v \in Values :
       c \in {Cmd!Lib!GroupKVAdd(n, k, v), Cmd!Lib!GroupKVDel(n, k, v),
              Cmd!Lib!GroupKVReplace(n, k, v)}
  \/ \E target \in Groups, action \in STRING : c = Cmd!Lib!GroupUpdateRules(n, action, target)
  \/ \E action \in STRING : \E cap :
       c = Cmd!Lib!SystemCapabilities(n, action, cap, FALSE)

(* ... and of the others, with any arguments.                              *)
LibraryCall(c) ==
  \/ \E x \in Entities : EntityLibraryCall(c, x)
  \/ \E n \in Groups : GroupLibraryCall(c, n)
  \/ c \in {Cmd!Lib!EntitySearch, Cmd!Lib!GroupSearch, Cmd!Lib!AuthValidateToken,
            Cmd!Lib!SystemPing, Cmd!Lib!SystemStatus}
  \/ \E direct \in BOOLEAN, action \in STRING : \E cap :
       c = Cmd!Lib!SystemCapabilities(NoID, action, cap, direct)

(* Every command acts as one of the entities, and whatever steps it takes, *)
(* it calls methods of the library.                                        *)
LibraryCalled ==
  /\ \A w \in Workers : \A c \in Offered[w] :
       c.as \in Entities /\ c.secret \in Secrets \cup {NoSecret}
  /\ \A s \in Steps : s.do = "call" => LibraryCall(s.call)

(* A handler that changes nothing asks for no token. *)
Harmless(h) == h.access \notin Guards

(* A call asks for methods of the service, and for those that change       *)
(* something it turns to the master.                                       *)
Proper(c) ==
  \A i \in DOMAIN c.rpcs : Method(c.rpcs[i]) /\ (c.master \/ Harmless(c.rpcs[i]))

(* A request means the same to the library and to the servers. *)
LEMMA SameEntityReads ==
  /\ \A x : Cmd!Lib!Server!EntityInfo(x) = EntityInfo(x)
  /\ \A x : Cmd!Lib!Server!EntityGroups(x) = EntityGroups(x)
  /\ \A x, k : Cmd!Lib!Server!EntityKVGet(x, k) = EntityKVGet(x, k)
  /\ \A x, s : Cmd!Lib!Server!AuthEntity(x, s) = AuthEntity(x, s)
  /\ \A x, s : Cmd!Lib!Server!AuthGetToken(x, s) = AuthGetToken(x, s)
  /\ Cmd!Lib!Server!EntitySearch = EntitySearch
BY DEF Cmd!Lib!Server!EntityInfo, EntityInfo, Cmd!Lib!Server!EntityGroups, EntityGroups,
       Cmd!Lib!Server!EntityKVGet, EntityKVGet, Cmd!Lib!Server!AuthEntity, AuthEntity,
       Cmd!Lib!Server!AuthGetToken, AuthGetToken, Cmd!Lib!Server!EntitySearch,
       EntitySearch, Cmd!Lib!Server!SearchCall, SearchCall, Cmd!Lib!Server!Handler,
       Handler, Cmd!Lib!Server!Open, Open, Cmd!Lib!Server!EntityCall, EntityCall,
       Cmd!Lib!Server!FetchEntity, FetchEntity, Cmd!Lib!Server!Bare, Bare, Cmd!Lib!Server!Data,
       Data, Cmd!Lib!Server!ValidateSecret, ValidateSecret, Cmd!Lib!Server!WithSecret,
       WithSecret, Cmd!Lib!Server!IfUnknown, IfUnknown, Cmd!Lib!Server!IfNoKey, IfNoKey,
       Cmd!Lib!Server!IfRefused, IfRefused, Cmd!Lib!Server!Anyhow, Anyhow

(* The same for changes of entities, ... *)
LEMMA SameEntityWrites ==
  /\ \A x, n, s : Cmd!Lib!Server!EntityCreate(x, n, s) = EntityCreate(x, n, s)
  /\ \A x, m : Cmd!Lib!Server!EntityUpdate(x, m) = EntityUpdate(x, m)
  /\ \A x : Cmd!Lib!Server!EntityDestroy(x) = EntityDestroy(x)
  /\ \A x : Cmd!Lib!Server!EntityLock(x) = EntityLock(x)
  /\ \A x : Cmd!Lib!Server!EntityUnlock(x) = EntityUnlock(x)
  /\ \A x, k, v : Cmd!Lib!Server!EntityKVAdd(x, k, v) = EntityKVAdd(x, k, v)
  /\ \A x, k, v : Cmd!Lib!Server!EntityKVDel(x, k, v) = EntityKVDel(x, k, v)
  /\ \A x, k, v : Cmd!Lib!Server!EntityKVReplace(x, k, v) = EntityKVReplace(x, k, v)
BY DEF Cmd!Lib!Server!EntityCreate, EntityCreate, Cmd!Lib!Server!EntityUpdate, EntityUpdate,
       Cmd!Lib!Server!EntityDestroy, EntityDestroy, Cmd!Lib!Server!EntityLock, EntityLock,
       Cmd!Lib!Server!EntityUnlock, EntityUnlock, Cmd!Lib!Server!EntityKVAdd, EntityKVAdd,
       Cmd!Lib!Server!EntityKVDel, EntityKVDel, Cmd!Lib!Server!EntityKVReplace,
       EntityKVReplace, Cmd!Lib!Server!Handler, Handler, Cmd!Lib!Server!Guarded, Guarded,
       Cmd!Lib!Server!EntityCall, EntityCall, Cmd!Lib!Server!CreateEntity, CreateEntity,
       Cmd!Lib!Server!UpdateEntityMeta, UpdateEntityMeta, Cmd!Lib!Server!DestroyEntity,
       DestroyEntity, Cmd!Lib!Server!LockEntity, LockEntity, Cmd!Lib!Server!UnlockEntity,
       UnlockEntity, Cmd!Lib!Server!EntityKV, EntityKV, Cmd!Lib!Server!Bare, Bare,
       Cmd!Lib!Server!WithMeta, WithMeta, Cmd!Lib!Server!Data, Data, Cmd!Lib!Server!EmptyMeta,
       EmptyMeta, Cmd!Lib!Server!IfDuplicate, IfDuplicate, Cmd!Lib!Server!IfUnknown,
       IfUnknown, Cmd!Lib!Server!IfKeyExists, IfKeyExists, Cmd!Lib!Server!IfNoKey, IfNoKey

(* ... for what has an action, a secret or members, ... *)
LEMMA SameEntityChoices ==
  /\ \A x, action, k, v : Cmd!Lib!Server!EntityUM(x, action, k, v) = EntityUM(x, action, k, v)
  /\ \A x, action, k : Cmd!Lib!Server!EntityKeys(x, action, k) = EntityKeys(x, action, k)
  /\ \A x, s, old : Cmd!Lib!Server!AuthChangeSecret(x, old, s) = AuthChangeSecret(x, old, s)
  /\ \A x, ns : Cmd!Lib!Server!GroupAddMember(x, ns) = GroupAddMember(x, ns)
  /\ \A x, ns : Cmd!Lib!Server!GroupDelMember(x, ns) = GroupDelMember(x, ns)
BY DEF Cmd!Lib!Server!EntityUM, EntityUM, Cmd!Lib!Server!UMActions, UMActions,
       Cmd!Lib!Server!EntityKeys, EntityKeys, Cmd!Lib!Server!AuthChangeSecret,
       AuthChangeSecret, Cmd!Lib!Server!GroupAddMember, GroupAddMember,
       Cmd!Lib!Server!GroupDelMember, GroupDelMember, Cmd!Lib!Server!Handler, Handler,
       Cmd!Lib!Server!Guarded, Guarded, Cmd!Lib!Server!Managed, Managed, Cmd!Lib!Server!Open,
       Open, Cmd!Lib!Server!EntityCall, EntityCall, Cmd!Lib!Server!EntityInfo, EntityInfo,
       Cmd!Lib!Server!FetchEntity, FetchEntity, Cmd!Lib!Server!Rejected, Rejected,
       Cmd!Lib!Server!ManageUntypedEntityMeta, ManageUntypedEntityMeta,
       Cmd!Lib!Server!UpdateEntityKeys, UpdateEntityKeys, Cmd!Lib!Server!ValidateSecret,
       ValidateSecret, Cmd!Lib!Server!SetSecret, SetSecret, Cmd!Lib!Server!WithSecret,
       WithSecret, Cmd!Lib!Server!ManageDirectGroup, ManageDirectGroup,
       Cmd!Lib!Server!Bare, Bare, Cmd!Lib!Server!WithMeta, WithMeta, Cmd!Lib!Server!Data, Data,
       Cmd!Lib!Server!EmptyMeta, EmptyMeta, Cmd!Lib!Server!IfUnknown, IfUnknown,
       Cmd!Lib!Server!IfRefused, IfRefused, Cmd!Lib!Server!Anyhow, Anyhow

(* ... for groups, ... *)
LEMMA SameGroupMethods ==
  /\ \A n : Cmd!Lib!Server!GroupInfo(n) = GroupInfo(n)
  /\ \A n, k : Cmd!Lib!Server!GroupKVGet(n, k) = GroupKVGet(n, k)
  /\ \A n : Cmd!Lib!Server!GroupMembers(n) = GroupMembers(n)
  /\ Cmd!Lib!Server!GroupSearch = GroupSearch
  /\ \A n, t, by, num : Cmd!Lib!Server!GroupCreate(n, t, by, num) = GroupCreate(n, t, by, num)
  /\ \A n, t, by : Cmd!Lib!Server!GroupUpdate(n, t, by) = GroupUpdate(n, t, by)
  /\ \A n : Cmd!Lib!Server!GroupDestroy(n) = GroupDestroy(n)
  /\ \A n, k, v : Cmd!Lib!Server!GroupKVAdd(n, k, v) = GroupKVAdd(n, k, v)
  /\ \A n, k, v : Cmd!Lib!Server!GroupKVDel(n, k, v) = GroupKVDel(n, k, v)
  /\ \A n, k, v : Cmd!Lib!Server!GroupKVReplace(n, k, v) = GroupKVReplace(n, k, v)
  /\ \A n, action, k, v : Cmd!Lib!Server!GroupUM(n, action, k, v) = GroupUM(n, action, k, v)
  /\ \A n, target, action :
       Cmd!Lib!Server!GroupUpdateRules(n, target, action) = GroupUpdateRules(n, target, action)
BY DEF Cmd!Lib!Server!GroupInfo, GroupInfo, Cmd!Lib!Server!GroupKVGet, GroupKVGet,
       Cmd!Lib!Server!GroupMembers, GroupMembers, Cmd!Lib!Server!GroupSearch, GroupSearch,
       Cmd!Lib!Server!SearchCall, SearchCall, Cmd!Lib!Server!GroupCreate, GroupCreate,
       Cmd!Lib!Server!GroupUpdate, GroupUpdate, Cmd!Lib!Server!GroupDestroy, GroupDestroy,
       Cmd!Lib!Server!GroupKVAdd, GroupKVAdd, Cmd!Lib!Server!GroupKVDel, GroupKVDel,
       Cmd!Lib!Server!GroupKVReplace, GroupKVReplace, Cmd!Lib!Server!GroupUM, GroupUM,
       Cmd!Lib!Server!UMActions, UMActions, Cmd!Lib!Server!GroupUpdateRules,
       GroupUpdateRules, Cmd!Lib!Server!Handler, Handler, Cmd!Lib!Server!Open, Open,
       Cmd!Lib!Server!Guarded, Guarded, Cmd!Lib!Server!Managed, Managed,
       Cmd!Lib!Server!GroupCall, GroupCall, Cmd!Lib!Server!Rejected, Rejected,
       Cmd!Lib!Server!FetchGroup, FetchGroup, Cmd!Lib!Server!CreateGroup, CreateGroup,
       Cmd!Lib!Server!UpdateGroupMeta, UpdateGroupMeta, Cmd!Lib!Server!DestroyGroup,
       DestroyGroup, Cmd!Lib!Server!GroupKV, GroupKV,
       Cmd!Lib!Server!ManageUntypedGroupMeta, ManageUntypedGroupMeta,
       Cmd!Lib!Server!ModifyGroupRule, ModifyGroupRule,
       Cmd!Lib!Server!ModifyGroupExpansions, ModifyGroupExpansions,
       Cmd!Lib!Server!OnGroup, OnGroup, Cmd!Lib!Server!NoRule, NoRule, Cmd!Lib!Server!Absent,
       Absent, Cmd!Lib!Server!IfDuplicate, IfDuplicate, Cmd!Lib!Server!IfUnknown,
       IfUnknown, Cmd!Lib!Server!IfNoKey, IfNoKey, Cmd!Lib!Server!Anyhow, Anyhow

(* ... and for the rest. *)
LEMMA SameOthers ==
  /\ Cmd!Lib!Server!AuthValidateToken = AuthValidateToken
  /\ Cmd!Lib!Server!SystemPing = SystemPing
  /\ Cmd!Lib!Server!SystemStatus = SystemStatus
  /\ \A direct, action, target, cap :
       Cmd!Lib!Server!SystemCapabilities(direct, action, target, cap)
         = SystemCapabilities(direct, action, target, cap)
BY DEF Cmd!Lib!Server!AuthValidateToken, AuthValidateToken, Cmd!Lib!Server!SystemPing,
       SystemPing, Cmd!Lib!Server!SystemStatus, SystemStatus,
       Cmd!Lib!Server!SystemCapabilities, SystemCapabilities, Cmd!Lib!Server!Handler,
       Handler, Cmd!Lib!Server!Open, Open, Cmd!Lib!Server!Guarded, Guarded,
       Cmd!Lib!Server!NoCall, NoCall, Cmd!Lib!Server!EntityCall, EntityCall,
       Cmd!Lib!Server!GroupCall, GroupCall, Cmd!Lib!Server!ManageCapability,
       ManageCapability, Cmd!Lib!Server!ManageGroupCapability,
       ManageGroupCapability, Cmd!Lib!Server!OnGroup, OnGroup, Cmd!Lib!Server!NoRule,
       NoRule, Cmd!Lib!Server!Absent, Absent, Cmd!Lib!Server!WithMeta, WithMeta,
       Cmd!Lib!Server!Data, Data, Cmd!Lib!Server!EmptyMeta, EmptyMeta,
       Cmd!Lib!Server!IfMalformed, IfMalformed, Cmd!Lib!Server!Anyhow, Anyhow

(* Who may call the methods that change nothing. *)
LEMMA HarmlessMethods ==
  /\ Harmless(Rejected) /\ Harmless(EntitySearch) /\ Harmless(GroupSearch)
  /\ Harmless(AuthValidateToken) /\ Harmless(SystemPing) /\ Harmless(SystemStatus)
  /\ \A x : Harmless(EntityInfo(x)) /\ Harmless(EntityGroups(x))
  /\ \A x, k : Harmless(EntityKVGet(x, k))
  /\ \A x, s : Harmless(AuthEntity(x, s)) /\ Harmless(AuthGetToken(x, s))
  /\ \A n : Harmless(GroupInfo(n)) /\ Harmless(GroupMembers(n))
  /\ \A n, k : Harmless(GroupKVGet(n, k))
BY DEF Harmless, Guards, Rejected, EntitySearch, GroupSearch, AuthValidateToken, SystemPing,
       SystemStatus, EntityInfo, EntityGroups, EntityKVGet, AuthEntity, AuthGetToken, GroupInfo,
       GroupMembers, GroupKVGet, Open, Handler

(* Calls of one request. *)
LEMMA PlainProper ==
  ASSUME NEW h, Method(h), Harmless(h)
  PROVE  Proper(Cmd!Lib!Plain(h))
BY DEF Proper, Cmd!Lib!Plain

LEMMA OnMasterProper ==
  ASSUME NEW h, Method(h)
  PROVE  Proper(Cmd!Lib!OnMaster(h))
BY DEF Proper, Cmd!Lib!OnMaster

LEMMA IfKnownProper ==
  ASSUME NEW a, NEW known, NEW h, a \in known => Method(h)
  PROVE  Proper(Cmd!Lib!IfKnown(a, known, h))
BY DEF Proper, Cmd!Lib!IfKnown

LEMMA ByActionProper ==
  ASSUME NEW a, NEW h, a \in Cmd!Lib!Actions => Method(h), a = "READ" => Harmless(h)
  PROVE  Proper(Cmd!Lib!ByAction(a, h))
<1> DEFINE c == Cmd!Lib!ByAction(a, h)
<1>1. c.rpcs = (IF a \in Cmd!Lib!Actions THEN <<h>> ELSE <<>>) /\ c.master = (a # "READ")
  BY DEF Cmd!Lib!ByAction, Cmd!Lib!IfKnown
<1> SUFFICES Proper(c)
  OBVIOUS
<1> HIDE DEF c
<1>2. CASE a \in Cmd!Lib!Actions
  <2>1. c.rpcs = <<h>> /\ Method(h)
    BY <1>1, <1>2
  <2>2. c.master \/ Harmless(h)
    BY <1>1
  <2>3. \A i \in DOMAIN c.rpcs : c.rpcs[i] = h
    BY <2>1
  <2> QED
    BY <2>1, <2>2, <2>3, Zenon DEF Proper
<1>3. CASE a \notin Cmd!Lib!Actions
  <2>1. DOMAIN c.rpcs = {}
    BY <1>1, <1>3
  <2> QED
    BY <2>1, Zenon DEF Proper
<1> QED
  BY <1>2, <1>3

(* An action that a method does not know is refused by the server. *)
LEMMA UMMethods ==
  ASSUME NEW a \in Cmd!Lib!Actions, NEW k \in MetaKeys, NEW v \in Values
  PROVE  /\ \A x \in Entities : Method(EntityUM(x, a, k, v))
         /\ \A n \in Groups : Method(GroupUM(n, a, k, v))
<1>1. CASE a \in UMActions \cup {"READ"}
  BY <1>1 DEF Method, EntityMethod, GroupMethod
<1>2. CASE a \notin UMActions \cup {"READ"}
  <2>1. a # "READ" /\ a \notin UMActions /\ "NONE" # "READ" /\ "NONE" \notin UMActions
    BY <1>2 DEF UMActions
  <2>2. \A x : EntityUM(x, a, k, v) = Rejected /\ EntityUM(x, "NONE", k, v) = Rejected
    BY <2>1, Zenon DEF EntityUM
  <2>3. \A n : GroupUM(n, a, k, v) = Rejected /\ GroupUM(n, "NONE", k, v) = Rejected
    BY <2>1, Zenon DEF GroupUM
  <2>4. \A x \in Entities : Method(EntityUM(x, "NONE", k, v))
    BY DEF Method, EntityMethod
  <2>5. \A n \in Groups : Method(GroupUM(n, "NONE", k, v))
    BY DEF Method, GroupMethod
  <2> QED
    BY <2>2, <2>3, <2>4, <2>5
<1> QED
  BY <1>1, <1>2

LEMMA KeysMethods ==
  ASSUME NEW a \in Cmd!Lib!Actions, NEW k \in Keys, NEW x \in Entities
  PROVE  Method(EntityKeys(x, a, k))
<1>1. CASE a \in {"ADD", "DROP", "READ"}
  BY <1>1 DEF Method, EntityMethod
<1>2. CASE a \notin {"ADD", "DROP", "READ"}
  <2>1. a # "READ" /\ a \notin {"ADD", "DROP"} /\ "NONE" # "READ" /\ "NONE" \notin {"ADD", "DROP"}
    BY <1>2
  <2>2. EntityKeys(x, a, k) = Rejected /\ EntityKeys(x, "NONE", k) = Rejected
    BY <2>1, Zenon DEF EntityKeys
  <2>3. Method(EntityKeys(x, "NONE", k))
    BY DEF Method, EntityMethod
  <2> QED
    BY <2>2, <2>3
<1> QED
  BY <1>1, <1>2

LEMMA RulesMethods ==
  ASSUME NEW a \in Cmd!Lib!RuleActions, NEW n \in Groups, NEW target \in Groups
  PROVE  Method(GroupUpdateRules(n, target, a))
<1>1. CASE a \in {"INCLUDE", "EXCLUDE"}
  BY <1>1 DEF Method, GroupMethod, Modes
<1>2. CASE a \notin {"INCLUDE", "EXCLUDE"}
  <2>1. GroupUpdateRules(n, target, a) = GroupUpdateRules(n, target, "DROP")
    BY <1>2 DEF GroupUpdateRules, ModifyGroupRule
  <2>2. Method(GroupUpdateRules(n, target, "DROP"))
    BY DEF Method, GroupMethod, Modes
  <2> QED
    BY <2>1, <2>2
<1> QED
  BY <1>1, <1>2

LEMMA CapabilitiesMethods ==
  ASSUME NEW a, NEW direct \in BOOLEAN, NEW cap \in Capabilities,
         NEW target, target \in (IF direct THEN Entities ELSE Groups) \cup {NoID}
  PROVE  Method(SystemCapabilities(direct, a, target, cap))
<1>1. PICK b \in {"ADD", "DROP", "NONE"} :
        SystemCapabilities(direct, a, target, cap) = SystemCapabilities(direct, b, target, cap)
  <2>1. CASE a \in {"ADD", "DROP"}
    BY <2>1
  <2>2. CASE a \notin {"ADD", "DROP"}
    BY <2>2 DEF SystemCapabilities
  <2> QED
    BY <2>1, <2>2
<1>2. CASE target = NoID
  BY <1>1, <1>2 DEF Method, OtherMethod
<1>3. CASE target # NoID /\ direct
  <2>1. target \in Entities /\ direct = TRUE
    BY <1>3
  <2> QED
    BY <1>1, <2>1 DEF Method, EntityMethod
<1>4. CASE target # NoID /\ ~direct
  <2>1. target \in Groups /\ direct = FALSE
    BY <1>4
  <2> QED
    BY <1>1, <2>1 DEF Method, GroupMethod
<1> QED
  BY <1>2, <1>3, <1>4

(* A capability that the protocol does not know is not sent. *)
LEMMA CapabilitiesProper ==
  ASSUME NEW a, NEW direct \in BOOLEAN, NEW cap,
         NEW target, target \in (IF direct THEN Entities ELSE Groups) \cup {NoID}
  PROVE  Proper(Cmd!Lib!SystemCapabilities(target, a, cap, direct))
<1> DEFINE h == SystemCapabilities(direct, a, target, cap)
           known == IF cap \in Capabilities THEN Cmd!Lib!Actions ELSE {}
<1>1. Cmd!Lib!SystemCapabilities(target, a, cap, direct) = Cmd!Lib!IfKnown(a, known, h)
  BY SameOthers DEF Cmd!Lib!SystemCapabilities
<1>2. a \in known => Method(h)
  BY CapabilitiesMethods
<1> HIDE DEF h, known
<1> QED
  BY <1>1, <1>2, IfKnownProper

LEMMA EntityCallsProper ==
  ASSUME NEW x \in Entities, NEW c, EntityLibraryCall(c, x)
  PROVE  Proper(c)
<1>1. CASE \/ c \in {Cmd!Lib!EntityInfo(x), Cmd!Lib!EntityGroups(x)}
           \/ \E k \in KVKeys : c = Cmd!Lib!EntityKVGet(x, k)
           \/ \E s \in Secrets \cup {NoSecret} :
                c \in {Cmd!Lib!AuthEntity(x, s), Cmd!Lib!AuthGetToken(x, s)}
  <2>1. PICK h : c = Cmd!Lib!Plain(h) /\ EntityMethod(h, x) /\ Harmless(h)
    BY <1>1, SameEntityReads, HarmlessMethods
       DEF EntityMethod, Cmd!Lib!EntityInfo, Cmd!Lib!EntityGroups, Cmd!Lib!EntityKVGet,
           Cmd!Lib!AuthEntity, Cmd!Lib!AuthGetToken
  <2> QED
    BY <2>1, PlainProper DEF Method
<1>2. CASE \/ c \in {Cmd!Lib!EntityDestroy(x), Cmd!Lib!EntityLock(x), Cmd!Lib!EntityUnlock(x)}
           \/ \E n \in Numbers, s \in Secrets \cup {NoSecret} : c = Cmd!Lib!EntityCreate(x, n, s)
           \/ \E m \in Meta : c = Cmd!Lib!EntityUpdate(x, m)
           \/ \E k \in KVKeys, v \in Values :
                c \in {Cmd!Lib!EntityKVAdd(x, k, v), Cmd!Lib!EntityKVDel(x, k, v),
                       Cmd!Lib!EntityKVReplace(x, k, v)}
  <2>1. PICK h : c = Cmd!Lib!OnMaster(h) /\ EntityMethod(h, x)
    BY <1>2, SameEntityWrites
       DEF EntityMethod, Cmd!Lib!EntityDestroy, Cmd!Lib!EntityLock, Cmd!Lib!EntityUnlock,
           Cmd!Lib!EntityCreate, Cmd!Lib!EntityUpdate, Cmd!Lib!EntityKVAdd,
           Cmd!Lib!EntityKVDel, Cmd!Lib!EntityKVReplace
  <2> QED
    BY <2>1, OnMasterProper DEF Method
<1>3. ASSUME NEW s \in Secrets \cup {NoSecret}, NEW old \in Secrets \cup {NoSecret},
             c = Cmd!Lib!AuthChangeSecret(x, s, old)
      PROVE  Proper(c)
  <2>1. c = Cmd!Lib!OnMaster(AuthChangeSecret(x, old, s))
    BY <1>3, SameEntityChoices DEF Cmd!Lib!AuthChangeSecret
  <2>2. Method(AuthChangeSecret(x, old, s))
    BY DEF Method, EntityMethod
  <2> QED
    BY <2>1, <2>2, OnMasterProper
<1>4. ASSUME NEW n \in Groups, c \in {Cmd!Lib!GroupAddMember(n, x), Cmd!Lib!GroupDelMember(n, x)}
      PROVE  Proper(c)
  <2>1. PICK h \in {GroupAddMember(x, <<n>>), GroupDelMember(x, <<n>>)} : c = Cmd!Lib!OnMaster(h)
    BY <1>4, SameEntityChoices DEF Cmd!Lib!GroupAddMember, Cmd!Lib!GroupDelMember
  <2>2. <<n>> \in Seq(Groups)
    OBVIOUS
  <2>3. Method(h)
    BY <2>1, <2>2 DEF Method, EntityMethod
  <2> QED
    BY <2>1, <2>3, OnMasterProper
<1>5. ASSUME NEW action \in STRING, NEW k \in MetaKeys, NEW v \in Values,
             c = Cmd!Lib!EntityUM(x, action, k, v)
      PROVE  Proper(c)
  <2> DEFINE a == Cmd!Lib!Upper(action)
  <2>1. c = Cmd!Lib!ByAction(a, EntityUM(x, a, k, v))
    BY <1>5, SameEntityChoices DEF Cmd!Lib!EntityUM
  <2> HIDE DEF a
  <2>2. a \in Cmd!Lib!Actions => Method(EntityUM(x, a, k, v))
    BY UMMethods
  <2>3. ASSUME a = "READ" PROVE EntityUM(x, a, k, v) = EntityInfo(x)
    <3>1. a \notin UMActions
      BY <2>3 DEF UMActions
    <3> QED
      BY <2>3, <3>1, Zenon DEF EntityUM
  <2> QED
    BY <2>1, <2>2, <2>3, ByActionProper, HarmlessMethods
<1>6. ASSUME NEW action \in STRING, NEW k \in Keys, c = Cmd!Lib!EntityKeys(x, action, k)
      PROVE  Proper(c)
  <2> DEFINE a == Cmd!Lib!Upper(action)
  <2>1. c = Cmd!Lib!ByAction(a, EntityKeys(x, a, k))
    BY <1>6, SameEntityChoices DEF Cmd!Lib!EntityKeys
  <2> HIDE DEF a
  <2>2. a \in Cmd!Lib!Actions => Method(EntityKeys(x, a, k))
    BY KeysMethods
  <2>3. a = "READ" => EntityKeys(x, a, k) = EntityInfo(x)
    BY Zenon DEF EntityKeys
  <2> QED
    BY <2>1, <2>2, <2>3, ByActionProper, HarmlessMethods
<1>7. ASSUME NEW action \in STRING, NEW cap,
             c = Cmd!Lib!SystemCapabilities(x, action, cap, TRUE)
      PROVE  Proper(c)
  <2>1. Proper(Cmd!Lib!SystemCapabilities(x, action, cap, TRUE))
    BY CapabilitiesProper
  <2> QED
    BY <1>7, <2>1
<1> QED
  BY <1>1, <1>2, <1>3, <1>4, <1>5, <1>6, <1>7, Zenon DEF EntityLibraryCall

LEMMA GroupCallsProper ==
  ASSUME NEW n \in Groups, NEW c, GroupLibraryCall(c, n)
  PROVE  Proper(c)
<1>1. CASE c = Cmd!Lib!GroupInfo(n)
  <2>1. c.rpcs = <<GroupInfo(n), GroupSearch>>
    BY <1>1, SameGroupMethods DEF Cmd!Lib!GroupInfo
  <2>2. Method(GroupInfo(n)) /\ Method(GroupSearch)
    BY DEF Method, GroupMethod, OtherMethod
  <2> QED
    BY <2>1, <2>2, HarmlessMethods DEF Proper
<1>2. CASE c = Cmd!Lib!GroupMembers(n) \/ \E k \in KVKeys : c = Cmd!Lib!GroupKVGet(n, k)
  <2>1. PICK h : c = Cmd!Lib!Plain(h) /\ GroupMethod(h, n) /\ Harmless(h)
    BY <1>2, SameGroupMethods, HarmlessMethods
       DEF GroupMethod, Cmd!Lib!GroupMembers, Cmd!Lib!GroupKVGet
  <2> QED
    BY <2>1, PlainProper DEF Method
<1>3. CASE \/ c = Cmd!Lib!GroupDestroy(n)
           \/ \E t \in Values \cup {NoText}, by \in Groups \cup {Unmanaged, Absent} :
                \/ \E num \in Numbers : c = Cmd!Lib!GroupCreate(n, t, by, num)
                \/ c = Cmd!Lib!GroupUpdate(n, t, by)
           \/ \E k \in KVKeys, v \in Values :
                c \in {Cmd!Lib!GroupKVAdd(n, k, v), Cmd!Lib!GroupKVDel(n, k, v),
                       Cmd!Lib!GroupKVReplace(n, k, v)}
  <2>1. PICK h : c = Cmd!Lib!OnMaster(h) /\ GroupMethod(h, n)
    BY <1>3, SameGroupMethods
       DEF GroupMethod, Cmd!Lib!GroupDestroy, Cmd!Lib!GroupCreate, Cmd!Lib!GroupUpdate,
           Cmd!Lib!GroupKVAdd, Cmd!Lib!GroupKVDel, Cmd!Lib!GroupKVReplace
  <2> QED
    BY <2>1, OnMasterProper DEF Method
<1>4. ASSUME NEW action \in STRING, NEW k \in MetaKeys, NEW v \in Values,
             c = Cmd!Lib!GroupUM(n, action, k, v)
      PROVE  Proper(c)
  <2> DEFINE a == Cmd!Lib!Upper(action)
  <2>1. c = Cmd!Lib!ByAction(a, GroupUM(n, a, k, v))
    BY <1>4, SameGroupMethods DEF Cmd!Lib!GroupUM
  <2> HIDE DEF a
  <2>2. a \in Cmd!Lib!Actions => Method(GroupUM(n, a, k, v))
    BY UMMethods
  <2>3. ASSUME a = "READ" PROVE GroupUM(n, a, k, v) = GroupInfo(n)
    <3>1. a \notin UMActions
      BY <2>3 DEF UMActions
    <3> QED
      BY <2>3, <3>1, Zenon DEF GroupUM
  <2> QED
    BY <2>1, <2>2, <2>3, ByActionProper, HarmlessMethods
<1>5. ASSUME NEW target \in Groups, NEW action \in STRING,
             c = Cmd!Lib!GroupUpdateRules(n, action, target)
      PROVE  Proper(c)
  <2>1. PICK a : c = Cmd!Lib!IfKnown(a, Cmd!Lib!RuleActions, GroupUpdateRules(n, target, a))
    BY <1>5, SameGroupMethods DEF Cmd!Lib!GroupUpdateRules
  <2>2. a \in Cmd!Lib!RuleActions => Method(GroupUpdateRules(n, target, a))
    BY RulesMethods
  <2> QED
    BY <2>1, <2>2, IfKnownProper
<1>6. ASSUME NEW action \in STRING, NEW cap,
             c = Cmd!Lib!SystemCapabilities(n, action, cap, FALSE)
      PROVE  Proper(c)
  <2>1. Proper(Cmd!Lib!SystemCapabilities(n, action, cap, FALSE))
    BY CapabilitiesProper
  <2> QED
    BY <1>6, <2>1
<1> QED
  BY <1>1, <1>2, <1>3, <1>4, <1>5, <1>6, Zenon DEF GroupLibraryCall

(* The methods of the library and the handlers agree on what is a change:  *)
(* a call that stays where the client is connected asks for nothing that a *)
(* server refuses because it takes no writes.                              *)
LEMMA CallsProper ==
  ASSUME NEW c, LibraryCall(c)
  PROVE  Proper(c)
<1>1. CASE c \in {Cmd!Lib!EntitySearch, Cmd!Lib!GroupSearch, Cmd!Lib!AuthValidateToken,
                Cmd!Lib!SystemPing, Cmd!Lib!SystemStatus}
  <2>1. PICK h : c = Cmd!Lib!Plain(h) /\ OtherMethod(h) /\ Harmless(h)
    BY <1>1, SameEntityReads, SameGroupMethods, SameOthers, HarmlessMethods
       DEF OtherMethod, Cmd!Lib!EntitySearch, Cmd!Lib!GroupSearch, Cmd!Lib!AuthValidateToken,
           Cmd!Lib!SystemPing, Cmd!Lib!SystemStatus
  <2> QED
    BY <2>1, PlainProper DEF Method
<1>2. ASSUME NEW direct \in BOOLEAN, NEW action \in STRING, NEW cap,
             c = Cmd!Lib!SystemCapabilities(NoID, action, cap, direct)
      PROVE  Proper(c)
  <2>1. Proper(Cmd!Lib!SystemCapabilities(NoID, action, cap, direct))
    BY CapabilitiesProper
  <2> QED
    BY <1>2, <2>1
<1> QED
  BY <1>1, <1>2, EntityCallsProper, GroupCallsProper, Zenon DEF LibraryCall

-----------------------------------------------------------------------------
(* Types of commands, and where their changes go.                          *)

(* No answer is that a server takes no writes. *)
Answers0 == (Replies \ {"readonly"}) \cup {"refused", "unavailable"}

Process ==
  [pc : Waiting \cup {"idle", "ready", "put", "ended"}, as : Entities \cup {NoID},
   secret : Secrets \cup {NoSecret}, left : Seq(Steps), rest : Seq(Requested),
   server : {CoreServer, CoreMaster}, read : Token \cup {NoToken},
   token : Token \cup {NoToken}, attached : BOOLEAN, reply : Answers0, began : Nat \X Nat]

(* A process has a user, and what is left of its call is for a server that *)
(* takes writes unless it writes nothing.                                  *)
InStep(p) ==
  /\ p.pc # "idle" => p.as \in Entities
  /\ p.pc = "asked" =>
       p.server \notin ReadOnly \/ \A i \in DOMAIN p.rest : Harmless(p.rest[i])
  /\ p.began[1] <= now /\ p.began[2] <= crashes

(* A request that asks for a token is at a server that takes writes, and   *)
(* has not been told otherwise.                                            *)
AtMaster(j) ==
  /\ Harmless(j.handler) \/ j.server \notin ReadOnly
  /\ j.pre # "readonly" /\ j.reply # "readonly"

CommandInv ==
  /\ SInv
  /\ IsCache(cache)
  /\ ran \in [Workers -> Nat]
  /\ proc \in [Workers -> Process]
  /\ \A w \in Workers : AtMaster(job[w]) /\ InStep(proc[w])

(* Only requests that are methods are made. *)
LEMMA RequestedMethods ==
  ASSUME LibraryCalled, NEW h \in Requested
  PROVE  Method(h)
<1>1. PICK s \in Steps : s.do = "call" /\ \E i \in DOMAIN s.call.rpcs : h = s.call.rpcs[i]
  BY DEF Requested
<1>2. Proper(s.call)
  BY <1>1, CallsProper DEF LibraryCalled
<1> QED
  BY <1>1, <1>2 DEF Proper

LEMMA IdleAtMaster == AtMaster(IdleJob)
BY HarmlessMethods DEF AtMaster, IdleJob

(* The job of worker w and the turn of its process keep the invariant. *)
LEMMA CommandKept ==
  ASSUME CommandInv, NEW w \in Workers, NEW p \in Process, Turns(w, p), InStep(p),
         NEW j \in Job, WellPlaced(j), AtMaster(j), Goes(w, j),
         UNCHANGED Elsewhere, IsCache(cache'), ran' \in [Workers -> Nat]
  PROVE  CommandInv'
<1>1. DirectoryOK'
  BY DEF CommandInv, SInv, DirectoryOK, Elsewhere, Storage
<1>2. SInv'
  BY <1>1, JobMoves DEF CommandInv
<1>3. proc' \in [Workers -> Process]
      /\ \A v \in Workers : proc'[v] = IF v = w THEN p ELSE proc[v]
  BY DEF CommandInv, Turns
<1>4. \A v \in Workers : job'[v] = IF v = w THEN j ELSE job[v]
  BY DEF CommandInv, SInv, Goes
<1>5. now' = now /\ crashes' = crashes
  BY DEF Elsewhere
<1>6. ASSUME NEW v \in Workers PROVE AtMaster(job'[v]) /\ InStep(proc[v])'
  <2>1. AtMaster(job[v]) /\ InStep(proc[v])
    BY DEF CommandInv
  <2> QED
    BY <1>3, <1>4, <1>5, <2>1 DEF InStep
<1> QED
  BY <1>2, <1>3, <1>6 DEF CommandInv, AtMaster, InStep

LEMMA QuietCommand ==
  ASSUME CommandInv, NEW w \in Workers, NEW p \in Process, Turns(w, p), InStep(p),
         Quiet(w) \/ UNCHANGED job,
         UNCHANGED Elsewhere, IsCache(cache'), ran' \in [Workers -> Nat]
  PROVE  CommandInv'
<1>1. PICK j \in {IdleJob, job[w]} : Goes(w, j)
  BY DEF Quiet, Goes, CommandInv, SInv
<1>2. j \in Job /\ WellPlaced(j) /\ AtMaster(j)
  BY <1>1, IdleTypes, IdleAtMaster DEF CommandInv, SInv
<1> QED
  BY <1>1, <1>2, CommandKept

LEMMA SentCommand ==
  ASSUME CommandInv, NEW w \in Workers, NEW p \in Process, Turns(w, p), InStep(p),
         NEW h, Method(h), NEW s \in {CoreServer, CoreMaster},
         Harmless(h) \/ s \notin ReadOnly,
         NEW t \in Token \cup {NoToken}, Send(w, s, h, t),
         UNCHANGED Elsewhere, IsCache(cache'), ran' \in [Workers -> Nat]
  PROVE  CommandInv'
<1> DEFINE j == Incoming(s, h, t)
<1>1. h \in HandlerType /\ s \in Servers
  BY Methods, ClientAssumption DEF WellMade
<1>2. /\ j \in Job /\ j.pc = "check" /\ j.server = s /\ j.handler = h /\ j.reply = "none"
      /\ j.pre = "ok"
  BY <1>1, IdleTypes DEF Incoming, Job, States, IdleJob
<1>3. Goes(w, j)
  BY DEF Send
<1> HIDE DEF j
<1>4. WellPlaced(j) /\ AtMaster(j)
  BY <1>1, <1>2 DEF WellPlaced, AtMaster
<1> QED
  BY <1>2, <1>3, <1>4, CommandKept

(* The turns of a process. *)
LEMMA OnwardTypes ==
  ASSUME NEW p \in Process, InStep(p), p.left # <<>>, p.as \in Entities
  PROVE  Onward(p) \in Process /\ InStep(Onward(p))
<1> DEFINE l == p.left
<1>1. l \in Seq(Steps) /\ l # <<>>
  BY DEF Process
<1> HIDE DEF l
<1>2. Tail(l) \in Seq(Steps)
  BY <1>1
<1>3. CASE Len(p.left) = 1
  <2> DEFINE q == [p EXCEPT !.pc = "ended", !.left = <<>>, !.reply = "ok"]
  <2>1. Onward(p) = q
    BY <1>3 DEF Onward
  <2>2. <<>> \in Seq(Steps) /\ "ok" \in Answers0
    BY DEF Answers0, Replies
  <2>3. q \in Process /\ q.pc = "ended" /\ q.as = p.as /\ q.began = p.began
    BY <2>2 DEF Process
  <2> HIDE DEF q
  <2> QED
    BY <2>1, <2>3 DEF InStep
<1>4. CASE Len(p.left) # 1
  <2> DEFINE q == [p EXCEPT !.pc = "ready", !.left = Tail(l)]
  <2>1. Onward(p) = q
    BY <1>4 DEF Onward, l
  <2>2. q \in Process /\ q.pc = "ready" /\ q.as = p.as /\ q.began = p.began
    BY <1>2 DEF Process
  <2> HIDE DEF q
  <2> QED
    BY <2>1, <2>2 DEF InStep
<1> QED
  BY <1>3, <1>4

LEMMA AttachTypes ==
  ASSUME NEW p \in Process, InStep(p), p.left # <<>>, p.as \in Entities,
         NEW t \in Token \cup {NoToken}
  PROVE  Attach(p, t) \in Process /\ InStep(Attach(p, t))
<1> DEFINE q == [p EXCEPT !.token = t, !.attached = TRUE]
<1>1. /\ q \in Process /\ q.pc = p.pc /\ q.as = p.as /\ q.began = p.began /\ q.left = p.left
      /\ q.server = p.server /\ q.rest = p.rest
  BY DEF Process
<1>2. Attach(p, t) = Onward(q)
  BY DEF Attach
<1> HIDE DEF q
<1>3. InStep(q)
  BY <1>1 DEF InStep
<1> QED
  BY <1>1, <1>2, <1>3, OnwardTypes

LEMMA EndsCommand ==
  ASSUME CommandInv, NEW w \in Workers, proc[w].pc # "idle", NEW r \in Answers0,
         Ends(w, proc[w], r), UNCHANGED Elsewhere, IsCache(cache'), ran' \in [Workers -> Nat]
  PROVE  CommandInv'
<1> DEFINE p == proc[w]
           q == [p EXCEPT !.pc = "ended", !.reply = r]
<1>1. p \in Process /\ InStep(p)
  BY DEF CommandInv
<1>2. q \in Process /\ q.pc = "ended" /\ q.as = p.as /\ q.began = p.began
  BY <1>1 DEF Process
<1>3. Quiet(w) /\ Turns(w, q)
  BY DEF Ends
<1> HIDE DEF q
<1>4. InStep(q)
  BY <1>1, <1>2 DEF InStep
<1> QED
  BY <1>2, <1>3, <1>4, QuietCommand

(* What a process that works has. *)
LEMMA WorkingFacts ==
  ASSUME OwnInv, CommandInv, NEW w \in Workers, proc[w].pc \notin {"idle", "ended"}
  PROVE  /\ proc[w] \in Process /\ InStep(proc[w]) /\ proc[w].as \in Entities
         /\ proc[w].left # <<>> /\ Head(proc[w].left) \in Steps
         /\ job[w] \in Job /\ AtMaster(job[w]) /\ Reply(w) \in Answers0
         /\ IsCache(cache) /\ ran \in [Workers -> Nat]
<1> DEFINE l == proc[w].left
<1>1. proc[w] \in Process /\ InStep(proc[w]) /\ proc[w].as \in Entities
  BY DEF CommandInv, InStep
<1>2. l \in Seq(Steps) /\ l # <<>>
  BY <1>1 DEF Process, OwnInv, ProcInv
<1> HIDE DEF l
<1>3. Head(l) \in Steps
  BY <1>2
<1>4. job[w] \in Job /\ AtMaster(job[w]) /\ IsCache(cache) /\ ran \in [Workers -> Nat]
  BY DEF CommandInv, SInv
<1>5. Reply(w) \in Answers0
  BY <1>4 DEF Reply, Job, AtMaster, Answers0
<1> QED
  BY <1>1, <1>2, <1>3, <1>4, <1>5 DEF l

LEMMA IdleProcess == Idle \in Process /\ Idle.pc = "idle" /\ Idle.began = <<0, 0>>
<1>1. <<>> \in Seq(Steps) /\ <<>> \in Seq(Requested) /\ <<0, 0>> \in Nat \X Nat
  OBVIOUS
<1>2. "none" \in Answers0
  BY DEF Answers0, Replies
<1> QED
  BY <1>1, <1>2 DEF Idle, Process

(* The steps that ask for a token, or for an opinion on one. *)
LEMMA AskForTokenCommand ==
  ASSUME OwnInv, CommandInv, NEW w \in Workers, proc[w].pc \notin {"idle", "ended"},
         AskForToken(w, proc[w]), UNCHANGED <<cache, ran, Elsewhere>>
  PROVE  CommandInv'
<1> DEFINE p == proc[w]
           q == [p EXCEPT !.pc = "renew"]
<1>1. /\ p \in Process /\ InStep(p) /\ p.as \in Entities
      /\ IsCache(cache') /\ ran' \in [Workers -> Nat]
  BY WorkingFacts DEF IsCache
<1>2. /\ q \in Process /\ q.pc = "renew" /\ q.as = p.as /\ q.began = p.began
      /\ p.server \in {CoreServer, CoreMaster} /\ p.secret \in Secrets \cup {NoSecret}
  BY <1>1 DEF Process, Waiting
<1>3. Turns(w, q) /\ Send(w, p.server, AuthGetToken(p.as, p.secret), NoToken)
  BY DEF AskForToken
<1> HIDE DEF q
<1>4. InStep(q)
  BY <1>1, <1>2 DEF InStep
<1>5. Method(AuthGetToken(p.as, p.secret)) /\ Harmless(AuthGetToken(p.as, p.secret))
  BY <1>1, <1>2, HarmlessMethods DEF Method, EntityMethod
<1> QED
  BY <1>1, <1>2, <1>3, <1>4, <1>5, SentCommand

LEMMA AskIfValidCommand ==
  ASSUME OwnInv, CommandInv, NEW w \in Workers, proc[w].pc \notin {"idle", "ended"},
         NEW t \in Token \cup {NoToken}, NEW pc0 \in {"first", "second"},
         AskIfValid(w, proc[w], t, pc0), UNCHANGED <<cache, ran, Elsewhere>>
  PROVE  CommandInv'
<1> DEFINE p == proc[w]
           q == [p EXCEPT !.pc = pc0, !.read = t]
<1>1. /\ p \in Process /\ InStep(p) /\ p.as \in Entities
      /\ IsCache(cache') /\ ran' \in [Workers -> Nat]
  BY WorkingFacts DEF IsCache
<1>2. /\ q \in Process /\ q.pc = pc0 /\ q.as = p.as /\ q.began = p.began
      /\ p.server \in {CoreServer, CoreMaster}
  BY <1>1 DEF Process, Waiting
<1>3. Turns(w, q) /\ Send(w, p.server, AuthValidateToken, t)
  BY DEF AskIfValid
<1> HIDE DEF q
<1>4. InStep(q)
  BY <1>1, <1>2 DEF InStep
<1>5. Method(AuthValidateToken) /\ Harmless(AuthValidateToken)
  BY HarmlessMethods DEF Method, OtherMethod
<1> QED
  BY <1>1, <1>2, <1>3, <1>4, <1>5, SentCommand

LEMMA TokenCommands ==
  ASSUME OwnInv, CommandInv, NEW w \in Workers,
         FindToken(w) \/ TokenChecked(w) \/ RenewToken(w)
  PROVE  CommandInv'
<1>1. proc[w].pc \in {"ready", "first", "second"} /\ UNCHANGED <<cache, ran, Elsewhere>>
  BY DEF FindToken, TokenChecked, RenewToken, Doing
<1>2. /\ proc[w] \in Process /\ InStep(proc[w]) /\ proc[w].as \in Entities
      /\ proc[w].left # <<>> /\ IsCache(cache) /\ ran \in [Workers -> Nat]
      /\ IsCache(cache') /\ ran' \in [Workers -> Nat]
  BY <1>1, WorkingFacts DEF IsCache
<1>3. CASE FindToken(w)
  <2>1. proc[w].as \in DOMAIN cache => cache[proc[w].as] \in Token \cup {NoToken}
    BY <1>2 DEF IsCache
  <2>2. \/ /\ proc[w].as \in DOMAIN cache
           /\ AskIfValid(w, proc[w], cache[proc[w].as], "first")
        \/ AskForToken(w, proc[w])
    BY <1>3 DEF FindToken
  <2> QED
    BY <1>1, <2>1, <2>2, AskIfValidCommand, AskForTokenCommand
<1>4. CASE TokenChecked(w)
  <2>1. proc[w].read \in Token \cup {NoToken}
    BY <1>2 DEF Process
  <2>2. CASE proc[w].pc = "first"
    <3>1. AskIfValid(w, proc[w], proc[w].read, "second") \/ AskForToken(w, proc[w])
      BY <1>4, <2>2 DEF TokenChecked
    <3> QED
      BY <1>1, <2>1, <3>1, AskIfValidCommand, AskForTokenCommand
  <2>3. CASE proc[w].pc = "second"
    <3>1. PICK t \in {proc[w].read, NoToken} : Quiet(w) /\ Turns(w, Attach(proc[w], t))
      BY <1>4, <2>3 DEF TokenChecked
    <3>2. Attach(proc[w], t) \in Process /\ InStep(Attach(proc[w], t))
      BY <1>2, <2>1, <3>1, AttachTypes
    <3> QED
      BY <1>1, <1>2, <3>1, <3>2, QuietCommand
  <2> QED
    BY <1>4, <2>2, <2>3 DEF TokenChecked
<1>5. CASE RenewToken(w)
  <2>1. AskForToken(w, proc[w])
    BY <1>5 DEF RenewToken
  <2> QED
    BY <1>1, <2>1, AskForTokenCommand
<1> QED
  BY <1>3, <1>4, <1>5

LEMMA StoredCache ==
  ASSUME IsCache(cache), NEW x \in Entities, NEW t \in Token \cup {NoToken}
  PROVE  IsCache(Stored(x, t))
BY DEF IsCache, Stored

LEMMA CacheCommands ==
  ASSUME OwnInv, CommandInv, NEW w \in Workers,
         TokenRenewed(w) \/ WriteToken(w) \/ DropToken(w) \/ InspectToken(w)
  PROVE  CommandInv'
<1>1. proc[w].pc \in {"ready", "renew", "put"} /\ UNCHANGED <<ran, Elsewhere>>
  BY DEF TokenRenewed, WriteToken, DropToken, InspectToken, Doing
<1>2. /\ proc[w] \in Process /\ InStep(proc[w]) /\ proc[w].as \in Entities
      /\ proc[w].left # <<>> /\ IsCache(cache) /\ ran' \in [Workers -> Nat]
      /\ job[w] \in Job /\ Reply(w) \in Answers0
      /\ UNCHANGED cache => IsCache(cache')
  BY <1>1, WorkingFacts DEF IsCache
<1>3. Onward(proc[w]) \in Process /\ InStep(Onward(proc[w]))
  BY <1>2, OnwardTypes
<1>4. proc[w].read \in Token \cup {NoToken} /\ job[w].token \in Token \cup {NoToken}
  BY <1>2 DEF Process, Job
<1>5. CASE TokenRenewed(w)
  <2>1. CASE Ends(w, proc[w], Reply(w)) /\ UNCHANGED cache
    BY <1>1, <1>2, <2>1, EndsCommand
  <2>2. CASE /\ Quiet(w) /\ cache' = Stored(proc[w].as, NoToken)
             /\ Turns(w, [proc[w] EXCEPT !.pc = "put", !.read = job[w].token])
    <3> DEFINE p == proc[w]
               q == [p EXCEPT !.pc = "put", !.read = job[w].token]
    <3>1. q \in Process /\ q.pc = "put" /\ q.as = p.as /\ q.began = p.began /\ Turns(w, q)
      BY <1>2, <1>4, <2>2 DEF Process
    <3> HIDE DEF q
    <3>2. InStep(q)
      BY <1>2, <3>1 DEF InStep
    <3>3. IsCache(cache')
      BY <1>2, <2>2, StoredCache
    <3> QED
      BY <1>1, <1>2, <2>2, <3>1, <3>2, <3>3, QuietCommand
  <2> QED
    BY <1>5, <2>1, <2>2 DEF TokenRenewed
<1>6. CASE WriteToken(w)
  <2>1. /\ UNCHANGED job /\ cache' \in {cache, Stored(proc[w].as, proc[w].read)}
    BY <1>6 DEF WriteToken
  <2>2. PICK q \in {Attach(proc[w], proc[w].read), Onward(proc[w])} : Turns(w, q)
    BY <1>6 DEF WriteToken
  <2>3. q \in Process /\ InStep(q)
    BY <1>2, <1>3, <1>4, <2>2, AttachTypes
  <2>4. IsCache(cache')
    BY <1>2, <1>4, <2>1, StoredCache
  <2> QED
    BY <1>1, <1>2, <2>1, <2>2, <2>3, <2>4, QuietCommand
<1>7. CASE DropToken(w)
  <2>1. UNCHANGED job /\ Turns(w, Onward(proc[w]))
    BY <1>7 DEF DropToken
  <2>2. IsCache(cache')
    BY <1>2, <1>7 DEF DropToken, IsCache
  <2> QED
    BY <1>1, <1>2, <1>3, <2>1, <2>2, QuietCommand
<1>8. CASE InspectToken(w)
  <2>1. UNCHANGED cache
    BY <1>8 DEF InspectToken
  <2>2. CASE Quiet(w) /\ Turns(w, Onward(proc[w]))
    BY <1>1, <1>2, <1>3, <2>1, <2>2, QuietCommand
  <2>3. CASE Ends(w, proc[w], "unauthenticated")
    <3>1. "unauthenticated" \in Answers0
      BY DEF Answers0, Replies
    <3> QED
      BY <1>1, <1>2, <2>1, <2>3, <3>1, EndsCommand
  <2> QED
    BY <1>8, <2>2, <2>3 DEF InspectToken
<1> QED
  BY <1>5, <1>6, <1>7, <1>8

(* A call goes to the master if it changes anything. *)
LEMMA CallCommands ==
  ASSUME LibraryCalled, OwnInv, CommandInv, NEW w \in Workers,
         CallLibrary(w) \/ CallAnswered(w) \/ Exit(w)
  PROVE  CommandInv'
<1>1. UNCHANGED <<cache, ran, Elsewhere>>
  BY DEF CallLibrary, CallAnswered, Exit
<1>2. IsCache(cache') /\ ran' \in [Workers -> Nat]
  BY <1>1 DEF CommandInv, IsCache
<1>3. CASE CallLibrary(w)
  <2> DEFINE p == proc[w]
             c == Head(p.left).call
             s == IF c.master THEN CoreMaster ELSE p.server
             q == [p EXCEPT !.pc = "asked", !.server = s, !.rest = Tail(c.rpcs)]
  <2>1. p.pc = "ready" /\ Head(p.left).do = "call"
    BY <1>3 DEF CallLibrary, Doing
  <2>2. p \in Process /\ InStep(p) /\ p.as \in Entities /\ Head(p.left) \in Steps
    BY <2>1, WorkingFacts
  <2>3. c.rpcs \in Seq(Requested) /\ Proper(c)
    BY <2>1, <2>2, CommandsAssumption, CallsProper DEF LibraryCalled
  <2>4. CASE Ends(w, p, "refused")
    <3>1. "refused" \in Answers0
      BY DEF Answers0
    <3> QED
      BY <1>1, <1>2, <2>1, <2>4, <3>1, EndsCommand
  <2>5. CASE c.rpcs # <<>> /\ Send(w, s, Head(c.rpcs), p.token) /\ Turns(w, q)
    <3> DEFINE l == c.rpcs
    <3> HIDE DEF c
    <3>1. l \in Seq(Requested) /\ Len(l) # 0
      <4>1. l \in Seq(Requested) /\ l # <<>>
        BY <2>3, <2>5
      <4> HIDE DEF l
      <4> QED
        BY <4>1, EmptySeq
    <3>2. \A i \in DOMAIN l : c.master \/ Harmless(l[i])
      BY <2>3 DEF Proper
    <3> HIDE DEF l
    <3>3. /\ Head(l) \in Requested /\ Tail(l) \in Seq(Requested)
          /\ c.master \/ Harmless(Head(l))
          /\ \A i \in DOMAIN Tail(l) : c.master \/ Harmless(Tail(l)[i])
      BY <3>1, <3>2, TailShift
    <3>4. s \in {CoreServer, CoreMaster} /\ (c.master => s \notin ReadOnly)
      BY <2>2, ClientAssumption DEF Process
    <3>5. p.token \in Token \cup {NoToken}
      BY <2>2 DEF Process
    <3> HIDE DEF s
    <3>6. /\ q \in Process /\ q.pc = "asked" /\ q.server = s /\ q.rest = Tail(l)
          /\ q.as = p.as /\ q.began = p.began
      BY <2>2, <3>3, <3>4 DEF Process, Waiting, l
    <3>7. Turns(w, q) /\ Send(w, s, Head(l), p.token)
      BY <2>5 DEF l
    <3> HIDE DEF q
    <3>8. InStep(q)
      BY <2>2, <3>3, <3>4, <3>6 DEF InStep
    <3>9. Method(Head(l)) /\ (Harmless(Head(l)) \/ s \notin ReadOnly)
      BY <3>3, <3>4, RequestedMethods
    <3> QED
      BY <1>1, <1>2, <3>4, <3>5, <3>6, <3>7, <3>8, <3>9, SentCommand
  <2> QED
    BY <1>3, <2>4, <2>5 DEF CallLibrary
<1>4. CASE CallAnswered(w)
  <2> DEFINE p == proc[w]
             q == [p EXCEPT !.rest = Tail(p.rest)]
  <2>1. p.pc = "asked"
    BY <1>4 DEF CallAnswered
  <2>2. /\ p \in Process /\ InStep(p) /\ p.as \in Entities /\ p.left # <<>>
        /\ Reply(w) \in Answers0
    BY <2>1, WorkingFacts
  <2>3. CASE Ends(w, p, Reply(w))
    BY <1>1, <1>2, <2>1, <2>2, <2>3, EndsCommand
  <2>4. CASE Quiet(w) /\ Turns(w, Onward(p))
    BY <1>1, <1>2, <2>2, <2>4, OnwardTypes, QuietCommand
  <2>5. CASE p.rest # <<>> /\ Send(w, p.server, Head(p.rest), p.token) /\ Turns(w, q)
    <3> DEFINE l == p.rest
    <3>1. l \in Seq(Requested) /\ Len(l) # 0
      <4>1. l \in Seq(Requested) /\ l # <<>>
        BY <2>2, <2>5 DEF Process
      <4> HIDE DEF l
      <4> QED
        BY <4>1, EmptySeq
    <3>2. \A i \in DOMAIN l : p.server \notin ReadOnly \/ Harmless(l[i])
      BY <2>1, <2>2 DEF InStep
    <3> HIDE DEF l
    <3>3. /\ Head(l) \in Requested /\ Tail(l) \in Seq(Requested)
          /\ p.server \notin ReadOnly \/ Harmless(Head(l))
          /\ \A i \in DOMAIN Tail(l) : p.server \notin ReadOnly \/ Harmless(Tail(l)[i])
      BY <3>1, <3>2, TailShift
    <3>4. /\ q \in Process /\ q.pc = "asked" /\ q.server = p.server /\ q.rest = Tail(l)
          /\ q.as = p.as /\ q.began = p.began
          /\ p.server \in {CoreServer, CoreMaster} /\ p.token \in Token \cup {NoToken}
      BY <2>1, <2>2, <3>3 DEF Process, l
    <3>5. Turns(w, q) /\ Send(w, p.server, Head(l), p.token)
      BY <2>5 DEF l
    <3> HIDE DEF q
    <3>6. InStep(q)
      BY <2>2, <3>3, <3>4 DEF InStep
    <3>7. Method(Head(l))
      BY <3>3, RequestedMethods
    <3> QED
      BY <1>1, <1>2, <3>3, <3>4, <3>5, <3>6, <3>7, SentCommand
  <2> QED
    BY <1>4, <2>3, <2>4, <2>5 DEF CallAnswered
<1>5. CASE Exit(w)
  <2>1. Idle \in Process /\ Idle.pc = "idle" /\ Idle.began = <<0, 0>>
    BY IdleProcess
  <2>2. InStep(Idle)
    BY <2>1 DEF InStep, CommandInv, SInv, DirectoryOK
  <2>3. UNCHANGED job /\ Turns(w, Idle)
    BY <1>5 DEF Exit
  <2> QED
    BY <1>1, <1>2, <2>1, <2>2, <2>3, QuietCommand
<1> QED
  BY <1>3, <1>4, <1>5

(* A command begins. *)
LEMMA BeginCommand ==
  ASSUME LibraryCalled, CommandInv, NEW w \in Workers, NEW c \in Offered[w], Begin(w, c)
  PROVE  CommandInv'
<1> DEFINE q == [Idle EXCEPT !.pc = "ready", !.as = c.as, !.secret = c.secret,
                             !.left = c.steps, !.began = <<now, crashes>>]
<1>1. UNCHANGED <<job, cache, Elsewhere>> /\ Turns(w, q) /\ ran' = [ran EXCEPT ![w] = ran[w] + 1]
  BY DEF Begin
<1>2. c.steps \in Seq(Steps) /\ c.as \in Entities /\ c.secret \in Secrets \cup {NoSecret}
  BY CommandsAssumption DEF LibraryCalled
<1>3. now \in Nat /\ crashes \in Nat
  BY DEF CommandInv, SInv, DirectoryOK
<1>4. /\ q \in Process /\ q.pc = "ready" /\ q.as = c.as /\ q.began = <<now, crashes>>
  BY <1>2, <1>3, IdleProcess DEF Process
<1> HIDE DEF q
<1>5. InStep(q)
  BY <1>2, <1>3, <1>4 DEF InStep
<1>6. IsCache(cache') /\ ran' \in [Workers -> Nat]
  BY <1>1 DEF CommandInv, IsCache
<1> QED
  BY <1>1, <1>4, <1>5, <1>6, QuietCommand

(* No error of a call is told as a refusal of all writes. *)
LEMMA AnswersAtMaster ==
  ASSUME NEW c \in TreeCall, NEW v
  PROVE  AnswerTo(v, c.answers) \in Replies \ {"readonly"}
<1>1. c.answers \in Answers
  BY DEF TreeCall, EntityTreeCall, GroupTreeCall, NoCall, SearchCall, Answers
<1> QED
  BY <1>1 DEF Answers, AnswerTo, Replies, IfDuplicate, IfUnknown, IfNoKey, IfKeyExists,
              IfRefused, IfMalformed, Anyhow

(* A handler at work is never told that its server takes no writes. *)
LEMMA ProgressAtMaster ==
  ASSUME SInv, NEW w \in Workers, Progress(w), AtMaster(job[w])
  PROVE  \E j : Goes(w, j) /\ AtMaster(j)
<1>1. job[w] \in Job /\ job[w].handler \in HandlerType
  BY DEF SInv, Job
<1>2. ASSUME NEW j \in Job, Goes(w, j), j.handler = job[w].handler, j.server = job[w].server,
             j.pre # "readonly", j.reply # "readonly"
      PROVE  \E k : Goes(w, k) /\ AtMaster(k)
  BY <1>2 DEF AtMaster
<1>3. ASSUME NEW r \in Replies \ {"readonly"}, Replied(w, r)
      PROVE  \E k : Goes(w, k) /\ AtMaster(k)
  <2> DEFINE j == [job[w] EXCEPT !.pc = "done", !.reply = r]
  <2>1. /\ j \in Job /\ j.handler = job[w].handler /\ j.server = job[w].server
        /\ j.pre = job[w].pre /\ j.reply = r /\ Goes(w, j)
    BY <1>1, <1>3 DEF Job, States, Replied
  <2> HIDE DEF j
  <2> QED
    BY <1>2, <1>3, <2>1 DEF AtMaster
<1>4. CASE Check(w)
  <2> DEFINE h == job[w].handler
             v == Prerequisite(job[w].server, h, job[w].token)
  <2>1. v \in Replies \ {"none", "readonly"}
    <3>1. CASE h.access \notin Guards
      <4>1. h.access \in {"anyone", "malformed", "validate"}
        BY <1>1, <3>1 DEF HandlerType
      <4> QED
        BY <4>1 DEF Prerequisite, Replies
    <3>2. CASE job[w].server \notin ReadOnly
      BY <3>2 DEF Prerequisite, CheckToken, Replies
    <3> QED
      BY <3>1, <3>2 DEF AtMaster, Harmless
  <2>2. CASE Replied(w, v)
    BY <1>3, <2>1, <2>2
  <2>3. ASSUME NEW c, NEW l,
               Goes(w, [job[w] EXCEPT !.pc = "call", !.pre = v, !.checked = now,
                                      !.claims = c, !.left = l])
        PROVE  \E k : Goes(w, k) /\ AtMaster(k)
    <3> DEFINE j == [job[w] EXCEPT !.pc = "call", !.pre = v, !.checked = now,
                                   !.claims = c, !.left = l]
    <3> HIDE DEF v
    <3>1. /\ j.handler = job[w].handler /\ j.server = job[w].server /\ j.pre = v
          /\ j.reply = job[w].reply /\ Goes(w, j)
      BY <1>1, <2>3 DEF Job, v
    <3> HIDE DEF j
    <3> QED
      BY <2>1, <3>1 DEF AtMaster
  <2> QED
    BY <1>4, <2>2, <2>3 DEF Check
<1>5. CASE Call(w)
  <2>1. job[w].pc = "call" /\ job[w].left # <<>>
    BY <1>5 DEF Call
  <2>2. Head(job[w].left) \in TreeCall
    BY <2>1, NextCall
  <2>3. CASE Refuses(w)
    BY <1>1, <1>3, <2>3 DEF Refuses, Job, AtMaster
  <2>4. CASE Fails(w)
    <3>1. PICK v : Replied(w, AnswerTo(v, Head(job[w].left).answers))
      BY <2>4 DEF Fails
    <3>2. AnswerTo(v, Head(job[w].left).answers) \in Replies \ {"readonly"}
      BY <2>2, AnswersAtMaster
    <3> QED
      BY <1>3, <3>1, <3>2
  <2>5. CASE LooksUp(w) \/ Writes(w)
    <3>1. PICK j \in {[job[w] EXCEPT !.left = Tail(job[w].left)], [job[w] EXCEPT !.pc = "notify"]} :
            Goes(w, j)
      BY <2>5 DEF LooksUp, Writes
    <3>2. /\ j.handler = job[w].handler /\ j.server = job[w].server
          /\ j.pre = job[w].pre /\ j.reply = job[w].reply
      BY <1>1, <3>1 DEF Job
    <3> QED
      BY <3>1, <3>2 DEF AtMaster
  <2> QED
    BY <1>5, <2>3, <2>4, <2>5, CallOutcomes
<1>6. CASE Notify(w)
  <2> DEFINE j == [job[w] EXCEPT !.pc = "call", !.left = Tail(job[w].left)]
  <2>1. /\ j.handler = job[w].handler /\ j.server = job[w].server
        /\ j.pre = job[w].pre /\ j.reply = job[w].reply /\ Goes(w, j)
    BY <1>1, <1>6 DEF Job, Notify
  <2> QED
    BY <2>1 DEF AtMaster
<1>7. "ok" \in Replies \ {"readonly"} /\ "internal" \in Replies \ {"readonly"}
  BY DEF Replies
<1>8. ASSUME NEW s, NEW l, NEW c, NEW k \in {"members", "entity", "groups", "groupcaps"},
             Goes(w, [job[w] EXCEPT !.pc = k, !.listed = l, !.caps = c])
      PROVE  \E j : Goes(w, j) /\ AtMaster(j)
  <2> DEFINE j == [job[w] EXCEPT !.pc = k, !.listed = l, !.caps = c]
  <2>1. /\ j.handler = job[w].handler /\ j.server = job[w].server
        /\ j.pre = job[w].pre /\ j.reply = job[w].reply /\ Goes(w, j)
    BY <1>1, <1>8 DEF Job
  <2> QED
    BY <2>1 DEF AtMaster
<1>9. CASE Finish(w)
  <2>1. job[w].handler.then \in {"reply", "members", "sign"}
    BY <1>1 DEF HandlerType
  <2>2. CASE job[w].handler.then = "reply"
    BY <1>3, <1>7, <1>9, <2>2 DEF Finish
  <2>3. CASE job[w].handler.then # "reply"
    <3>1. PICK l : Goes(w, [job[w] EXCEPT !.pc = "members", !.listed = l])
                   \/ Goes(w, [job[w] EXCEPT !.pc = "entity"])
      BY <1>9, <2>1, <2>3 DEF Finish
    <3> DEFINE a == [job[w] EXCEPT !.pc = "members", !.listed = l]
               b == [job[w] EXCEPT !.pc = "entity"]
    <3>2. /\ a.handler = job[w].handler /\ a.server = job[w].server
          /\ a.pre = job[w].pre /\ a.reply = job[w].reply
          /\ b.handler = job[w].handler /\ b.server = job[w].server
          /\ b.pre = job[w].pre /\ b.reply = job[w].reply
      BY <1>1 DEF Job
    <3>3. AtMaster(a) /\ AtMaster(b)
      BY <3>2 DEF AtMaster
    <3> QED
      BY <3>1, <3>3
  <2> QED
    BY <2>2, <2>3
<1>10. ASSUME NEW x \in Entities, LoadMember(w, x)
       PROVE  \E j : Goes(w, j) /\ AtMaster(j)
  <2>1. CASE ents[x] = NoEntity
    BY <1>3, <1>7, <1>10, <2>1 DEF LoadMember
  <2>2. CASE ents[x] # NoEntity
    <3> DEFINE j == [job[w] EXCEPT !.listed = job[w].listed \ {x}]
    <3>1. /\ j.handler = job[w].handler /\ j.server = job[w].server
          /\ j.pre = job[w].pre /\ j.reply = job[w].reply /\ Goes(w, j)
      BY <1>1, <1>10, <2>2 DEF Job, LoadMember
    <3> QED
      BY <3>1 DEF AtMaster
  <2> QED
    BY <2>1, <2>2
<1>11. CASE MembersListed(w)
  BY <1>3, <1>7, <1>11 DEF MembersListed
<1>12. CASE FetchClaimant(w)
  <2>1. PICK c : Goes(w, [job[w] EXCEPT !.pc = "groupcaps"])
                 \/ Goes(w, [job[w] EXCEPT !.pc = "groups", !.caps = c])
    BY <1>12 DEF FetchClaimant
  <2> DEFINE a == [job[w] EXCEPT !.pc = "groupcaps"]
             b == [job[w] EXCEPT !.pc = "groups", !.caps = c]
  <2>2. /\ a.handler = job[w].handler /\ a.server = job[w].server
        /\ a.pre = job[w].pre /\ a.reply = job[w].reply
        /\ b.handler = job[w].handler /\ b.server = job[w].server
        /\ b.pre = job[w].pre /\ b.reply = job[w].reply
    BY <1>1 DEF Job
  <2>3. AtMaster(a) /\ AtMaster(b)
    BY <2>2 DEF AtMaster
  <2> QED
    BY <2>1, <2>3
<1>13. CASE ListGroups(w)
  <2> DEFINE j == [job[w] EXCEPT !.pc = "groupcaps",
                     !.listed = GroupsForEntity(job[w].server, job[w].handler.subject)]
  <2>1. /\ j.handler = job[w].handler /\ j.server = job[w].server
        /\ j.pre = job[w].pre /\ j.reply = job[w].reply /\ Goes(w, j)
    BY <1>1, <1>13 DEF Job, ListGroups
  <2> QED
    BY <2>1 DEF AtMaster
<1>14. ASSUME NEW n \in Groups, AddGroupCaps(w, n)
       PROVE  \E j : Goes(w, j) /\ AtMaster(j)
  <2>1. PICK c : Goes(w, [job[w] EXCEPT !.listed = job[w].listed \ {n}, !.caps = c])
    BY <1>14 DEF AddGroupCaps
  <2> DEFINE j == [job[w] EXCEPT !.listed = job[w].listed \ {n}, !.caps = c]
  <2>2. /\ j.handler = job[w].handler /\ j.server = job[w].server
        /\ j.pre = job[w].pre /\ j.reply = job[w].reply /\ Goes(w, j)
    BY <1>1, <2>1 DEF Job
  <2> QED
    BY <2>2 DEF AtMaster
<1>15. CASE Sign(w)
  <2>1. PICK t : Goes(w, [job[w] EXCEPT !.pc = "done", !.reply = "ok", !.token = t])
    BY <1>15 DEF Sign
  <2> DEFINE j == [job[w] EXCEPT !.pc = "done", !.reply = "ok", !.token = t]
  <2>2. /\ j.handler = job[w].handler /\ j.server = job[w].server
        /\ j.pre = job[w].pre /\ j.reply = "ok" /\ Goes(w, j)
    BY <1>1, <2>1 DEF Job
  <2> QED
    BY <2>2 DEF AtMaster
<1> QED
  BY <1>4, <1>5, <1>6, <1>9, <1>10, <1>11, <1>12, <1>13, <1>14, <1>15 DEF Progress

LEMMA HandlerCommand ==
  ASSUME CommandInv, NEW w \in Workers, Progress(w), UNCHANGED commandVars
  PROVE  CommandInv'
<1>1. SInv'
  BY CheckTypes, CallKeeps, NotifyKeeps, FinishKeeps, LoadMemberKeeps, MembersListedKeeps,
     ClaimKeeps, SignKeeps DEF Progress, CommandInv
<1>2. PICK j : Goes(w, j) /\ AtMaster(j)
  BY ProgressAtMaster DEF CommandInv
<1>3. now' = now /\ crashes' = crashes
  BY DEF Progress, Check, Call, Notify, Finish, LoadMember, MembersListed, FetchClaimant,
         ListGroups, AddGroupCaps, Sign, Rest
<1>4. UNCHANGED <<cache, proc, ran>>
  BY DEF commandVars
<1>5. ASSUME NEW v \in Workers PROVE AtMaster(job'[v]) /\ InStep(proc[v])'
  <2>1. AtMaster(job[v]) /\ InStep(proc[v]) /\ job'[v] \in {j, job[v]}
    BY <1>2 DEF CommandInv, SInv, Goes
  <2> QED
    BY <1>2, <1>3, <1>4, <2>1 DEF InStep
<1> QED
  BY <1>1, <1>4, <1>5 DEF CommandInv, AtMaster, InStep, IsCache

LEMMA ElsewhereCommand ==
  ASSUME CommandInv, UNCHANGED commandVars, Tick \/ \E s \in Servers : Crash(s)
  PROVE  CommandInv'
<1>1. UNCHANGED <<cache, proc, ran>>
  BY DEF commandVars
<1>2. SInv'
  <2>1. CASE Tick
    <3>1. DirectoryOK'
      BY <2>1, ServiceAssumption DEF CommandInv, SInv, DirectoryOK, Tick, Storage
    <3> QED
      BY <2>1, <3>1 DEF CommandInv, SInv, Tick, WellPlaced
  <2>2. ASSUME NEW s \in Servers, Crash(s) PROVE SInv'
    BY <2>2, CrashKeeps DEF CommandInv
  <2> QED
    BY <2>1, <2>2
<1>3. /\ now \in Nat /\ crashes \in Nat
      /\ now' \in {now, now + 1} /\ crashes' \in {crashes, crashes + 1}
  BY DEF CommandInv, SInv, DirectoryOK, Tick, Crash
<1>4. ASSUME NEW v \in Workers PROVE AtMaster(job'[v]) /\ InStep(proc[v])'
  <2>1. AtMaster(job[v]) /\ InStep(proc[v]) /\ job'[v] \in {IdleJob, job[v]}
    BY DEF CommandInv, SInv, Tick, Crash
  <2>2. proc[v].began \in Nat \X Nat
    BY DEF CommandInv, Process
  <2>3. proc[v].began[1] <= now' /\ proc[v].began[2] <= crashes'
    BY <1>3, <2>1, <2>2 DEF InStep
  <2> QED
    BY <1>1, <2>1, <2>3, IdleAtMaster DEF InStep
<1> QED
  BY <1>1, <1>2, <1>4 DEF CommandInv, AtMaster, InStep, IsCache

LEMMA CommandNext ==
  LibraryCalled /\ OwnInv /\ CommandInv /\ [ClientNext]_allVars => CommandInv'
<1> SUFFICES ASSUME LibraryCalled, OwnInv, CommandInv, [ClientNext]_allVars PROVE CommandInv'
  OBVIOUS
<1>1. CASE UNCHANGED allVars
  BY <1>1 DEF allVars, vars, commandVars, CommandInv, SInv, DirectoryOK, WellPlaced, AtMaster,
              InStep, IsCache
<1>2. ASSUME NEW w \in Workers, CommandStep(w) PROVE CommandInv'
  BY <1>2, TokenCommands, CacheCommands, CallCommands, HandlerCommand DEF CommandStep
<1>3. ASSUME NEW w \in Workers, NEW c \in Offered[w], Begin(w, c) PROVE CommandInv'
  BY <1>3, BeginCommand
<1>4. CASE /\ Tick \/ \E s \in Servers : Crash(s)
           /\ UNCHANGED <<past, commandVars>>
  <2>1. UNCHANGED commandVars
    BY <1>4
  <2> QED
    BY <1>4, <2>1, ElsewhereCommand
<1> QED
  BY <1>1, <1>2, <1>3, <1>4 DEF ClientNext

LEMMA CommandInit == ClientInit => CommandInv
<1> SUFFICES ASSUME ClientInit PROVE CommandInv
  OBVIOUS
<1>1. SInv /\ now = 0 /\ crashes = 0 /\ \A w \in Workers : job[w] = IdleJob /\ proc[w] = Idle
  BY FirstTypes DEF ClientInit, Init
<1>2. IsCache(cache) /\ ran \in [Workers -> Nat] /\ proc \in [Workers -> Process]
  BY ClientAssumption, IdleProcess DEF ClientInit
<1>3. \A w \in Workers : AtMaster(job[w]) /\ InStep(proc[w])
  BY <1>1, IdleAtMaster, IdleProcess DEF InStep
<1> QED
  BY <1>1, <1>2, <1>3 DEF CommandInv

(* The invariant holds all along. *)
LEMMA CommandsKeep ==
  ASSUME LibraryCalled
  PROVE  ClientSpec => [](OwnInv /\ CommandInv)
<1>1. OwnInv /\ CommandInv /\ [ClientNext]_allVars => (OwnInv /\ CommandInv)'
  BY OwnNext, CommandNext
<1>2. ClientInit => OwnInv /\ CommandInv
  BY OwnInit, CommandInit
<1> QED
  BY <1>1, <1>2, PTL DEF ClientSpec

(* Servers and commands keep their types, whatever users run; and a        *)
(* process has a request under way only while it waits for the answer.     *)
THEOREM ClientTypeCorrect ==
  ASSUME LibraryCalled
  PROVE  ClientSpec => []ClientTypeOK
<1>1. OwnInv /\ CommandInv => ClientTypeOK
  <2> SUFFICES ASSUME OwnInv, CommandInv PROVE ClientTypeOK
    OBVIOUS
  <2>1. TypeOK
    BY TypesFollow DEF CommandInv
  <2>2. ASSUME NEW w \in Workers
        PROVE  ProcOK(proc[w]) /\ (job[w].pc # "idle" => proc[w].pc \in Waiting)
    <3>1. proc[w] \in Process /\ InStep(proc[w])
      BY DEF CommandInv
    <3>2. proc[w].pc \notin {"idle", "ended"} => proc[w].left # <<>>
      BY DEF OwnInv, ProcInv
    <3>3. ProcOK(proc[w])
      BY <3>1, <3>2 DEF Process, InStep, ProcOK, Answers0
    <3> QED
      BY <3>3 DEF OwnInv
  <2> QED
    BY <2>1, <2>2 DEF CommandInv, ClientTypeOK
<1> QED
  BY <1>1, CommandsKeep, PTL

(* No command ends with the answer that a server takes no writes: whatever *)
(* methods of the library it calls, in whatever order, with whatever       *)
(* arguments and answers, what changes something has reached a server that *)
(* takes writes (makeWritable, pkg/netauth/netauth.go).                    *)
THEOREM ChangesReachMaster ==
  ASSUME LibraryCalled
  PROVE  ClientSpec => []WritesReachMaster
<1>1. CommandInv => WritesReachMaster
  BY DEF CommandInv, WritesReachMaster, Process, Answers0, Replies
<1> QED
  BY <1>1, CommandsKeep, PTL

-----------------------------------------------------------------------------
(* Commands whose token is refused.                                        *)

(* The command of w began at another time, or a server has died since. *)
Delayed(w) == proc[w].began # <<now, crashes>>

Refusals == {"malformed", "unauthenticated"}

(* A request that a token serves: with a valid one, its handler never      *)
(* answers that it is refused.                                             *)
Served(h) ==
  /\ h.access # "malformed"
  /\ \A i \in DOMAIN h.calls : \A e \in DOMAIN h.calls[i].answers :
       h.calls[i].answers[e] \notin Refusals

(* The exception is a change of a secret, which has the old one checked. *)
AsksSecret(c) == c.rpcs # <<>> /\ c.rpcs[1].access = "secret"
CallServed(c) == AsksSecret(c) \/ \A i \in DOMAIN c.rpcs : Served(c.rpcs[i])

(* What a command may do once it has its token: nothing that asks for      *)
(* another one.                                                            *)
TokenServes(s) ==
  s.do \notin {"token", "renew"} /\ (s.do = "call" => CallServed(s.call))

TokenFirst(l) ==
  \A i, k \in DOMAIN l : i < k /\ l[i].do = "token" => TokenServes(l[k])

(* Where the steps of a command leave its process. *)
InOrder(p) ==
  /\ TokenFirst(p.left)
  /\ p.attached => \A i \in DOMAIN p.left : TokenServes(p.left[i])
  /\ p.pc \in {"first", "second", "renew", "put"} => ~p.attached
  /\ p.pc \in {"first", "second"} => Head(p.left).do = "token"
  /\ p.pc = "asked" => Head(p.left).do = "call"

(* The tokens that are valid now. *)
Good == {t \in issued : Valid(t)}

(* Job j asks whether token t is valid, when those of T are; ... *)
Vouching(j, t, T) ==
  /\ j.handler = AuthValidateToken /\ j.token = t /\ j.left = <<>>
  /\ j.pc \in {"check", "call", "done"} /\ j.reply \in {"none", "ok", "unauthenticated"}
  /\ j.pc # "done" => j.reply = "none"
  /\ j.pc = "check" \/ j.reply = "unauthenticated" \/ t \in T

(* ... it asks for a token; ... *)
Signing(j, p, T) ==
  /\ j.handler = AuthGetToken(p.as, p.secret) /\ j.pc \notin {"idle", "members"}
  /\ j.reply = "ok" => j.token \in T

(* ... it carries the token of p, and is not refused. *)
Carrying(j, p) ==
  /\ j.token = p.token /\ j.handler \in Requested /\ Served(j.handler)
  /\ j.pc # "idle" /\ j.pre \notin Refusals /\ j.reply \notin Refusals
  /\ \A i \in DOMAIN p.rest : Served(p.rest[i])

(* While no time has passed: a token that was put to a server and found    *)
(* valid is valid, and so is a new one.                                    *)
InTime(p, j, T) ==
  /\ p.pc \in {"first", "second"} => Vouching(j, p.read, T)
  /\ p.pc = "second" => p.read \in T /\ j.reply # "unauthenticated"
  /\ p.pc = "renew" => Signing(j, p, T)
  /\ p.pc = "put" => p.read \in T
  /\ p.attached => p.token \in T
  /\ p.pc = "asked" /\ p.attached /\ ~AsksSecret(Head(p.left).call) => Carrying(j, p)
  /\ /\ p.pc = "ended" /\ p.attached
     /\ p.left # <<>> /\ Head(p.left).do = "call" => ~AsksSecret(Head(p.left).call)
     => p.reply \notin Refusals
  /\ p.pc \in Waiting => j.pc # "idle"

(* What holds of every command, with the tokens that are valid now. *)
TokenInv ==
  \A w \in Workers :
    /\ InOrder(proc[w])
    /\ proc[w].pc # "idle" => Delayed(w) \/ InTime(proc[w], job[w], Good)

(* What a step of its handler makes of job j: it is checked, ... *)
Judged(j, k) ==
  LET v == Prerequisite(j.server, j.handler, j.token)
  IN  /\ j.pc = "check" /\ k.token = j.token
      /\ \/ v # "ok" /\ k.pc = "done" /\ k.pre = j.pre /\ k.reply = v /\ k.left = j.left
         \/ /\ v = "ok" \/ j.handler.access = "manager"
            /\ k.pc = "call" /\ k.pre = v /\ k.reply = j.reply
            /\ j.handler.calls = <<>> /\ j.handler.access # "secret" => k.left = <<>>

(* ... ends at a call, ... *)
Stopped(j, k) ==
  /\ j.pc = "call" /\ j.left # <<>>
  /\ k.pc = "done" /\ k.token = j.token /\ k.pre = j.pre /\ k.left = j.left
  /\ \/ k.reply = j.pre /\ j.pre # "ok"
     \/ \E i \in DOMAIN j.handler.calls :
          \E v : k.reply = AnswerTo(v, j.handler.calls[i].answers)

(* ... goes on, ... *)
GoesOn(j, k) ==
  /\ j.pc \notin {"check", "idle", "done"} /\ k.pc \notin {"check", "idle", "done"}
  /\ k.token = j.token /\ k.pre = j.pre /\ k.reply = j.reply
  /\ j.pc = "call" => j.left # <<>> \/ j.handler.then # "reply"
  /\ k.pc = "members" => j.pc = "members" \/ j.handler.then = "members"

(* ... or ends after its calls. *)
Concluded(j, k) ==
  /\ j.pc \notin {"check", "idle", "done"} /\ k.pc = "done" /\ k.pre = j.pre
  /\ \/ k.token = j.token /\ k.left = j.left /\ k.reply = "ok" /\ j.handler.then = "reply"
     \/ k.token = j.token /\ k.reply \in {"ok", "internal"} /\ j.pc = "members"
     \/ /\ k.reply = "ok" /\ j.handler.then = "sign" /\ k.token.exp = now + Lifetime
        /\ issued' = issued \cup {k.token}

(* Every step of a handler is one of these. *)
LEMMA ProgressOutcomes ==
  ASSUME SInv, NEW w \in Workers, Progress(w)
  PROVE  \E k : /\ Goes(w, k) /\ k.handler = job[w].handler
                /\ \/ Judged(job[w], k) \/ Stopped(job[w], k)
                   \/ GoesOn(job[w], k) \/ Concluded(job[w], k)
<1> DEFINE P == \E k : /\ Goes(w, k) /\ k.handler = job[w].handler
                       /\ \/ Judged(job[w], k) \/ Stopped(job[w], k)
                          \/ GoesOn(job[w], k) \/ Concluded(job[w], k)
<1> SUFFICES P
  OBVIOUS
<1>1. job[w] \in Job /\ job[w].handler \in HandlerType
  BY DEF SInv, Job
<1>2. ASSUME NEW r, Replied(w, r)
      PROVE  \E k : /\ Goes(w, k) /\ k.handler = job[w].handler /\ k.pc = "done" /\ k.reply = r
                    /\ k.token = job[w].token /\ k.pre = job[w].pre /\ k.left = job[w].left
  <2> DEFINE k == [job[w] EXCEPT !.pc = "done", !.reply = r]
  <2>1. /\ Goes(w, k) /\ k.handler = job[w].handler /\ k.pc = "done" /\ k.reply = r
        /\ k.token = job[w].token /\ k.pre = job[w].pre /\ k.left = job[w].left
    BY <1>1, <1>2 DEF Job, Replied
  <2> HIDE DEF k
  <2> QED
    BY <2>1
<1>3. CASE Check(w)
  <2> DEFINE h == job[w].handler
             v == Prerequisite(job[w].server, h, job[w].token)
             own == h.access = "secret" /\ job[w].token.entity = h.subject
             l == IF h.access = "secret" /\ ~own THEN Tail(h.calls) ELSE h.calls
  <2>1. job[w].pc = "check"
    BY <1>3 DEF Check
  <2>2. CASE v # "ok" /\ Replied(w, v)
    <3>1. PICK k : /\ Goes(w, k) /\ k.handler = job[w].handler /\ k.pc = "done" /\ k.reply = v
                   /\ k.token = job[w].token /\ k.pre = job[w].pre /\ k.left = job[w].left
      BY <1>2, <2>2
    <3>2. Judged(job[w], k)
      BY <2>1, <2>2, <3>1 DEF Judged
    <3> QED
      BY <3>1, <3>2
  <2>3. ASSUME v = "ok" \/ h.access = "manager",
               NEW c, Goes(w, [job[w] EXCEPT !.pc = "call", !.pre = v, !.checked = now,
                                             !.claims = c, !.left = l])
        PROVE  P
    <3> DEFINE k == [job[w] EXCEPT !.pc = "call", !.pre = v, !.checked = now,
                                   !.claims = c, !.left = l]
    <3>1. h.calls = <<>> /\ h.access # "secret" => l = <<>>
      OBVIOUS
    <3> HIDE DEF l
    <3>2. /\ Goes(w, k) /\ k.handler = h /\ k.pc = "call" /\ k.pre = v /\ k.left = l
          /\ k.reply = job[w].reply /\ k.token = job[w].token
      BY <1>1, <2>3 DEF Job
    <3> HIDE DEF k
    <3>3. Judged(job[w], k)
      BY <2>1, <2>3, <3>1, <3>2 DEF Judged
    <3> HIDE DEF P
    <3> QED
      BY <3>2, <3>3 DEF P
  <2>4. \/ v # "ok" /\ Replied(w, v)
        \/ /\ v = "ok" \/ h.access = "manager"
           /\ Goes(w, [job[w] EXCEPT !.pc = "call", !.pre = v, !.checked = now,
                         !.claims = IF h.access \in {"or-self", "secret"} THEN job[w].token
                                                                          ELSE NoClaims,
                         !.left = l])
    BY <1>3 DEF Check
  <2> QED
    BY <2>2, <2>3, <2>4
<1>4. CASE Call(w)
  <2>1. job[w].pc = "call" /\ job[w].left # <<>>
    BY <1>4 DEF Call
  <2>2. PICK i \in DOMAIN job[w].handler.calls : Head(job[w].left) = job[w].handler.calls[i]
    BY <2>1, NextCall
  <2>3. ASSUME NEW r, Replied(w, r),
               \/ r = job[w].pre /\ job[w].pre # "ok"
               \/ \E v : r = AnswerTo(v, Head(job[w].left).answers)
        PROVE  P
    <3>1. PICK k : /\ Goes(w, k) /\ k.handler = job[w].handler /\ k.pc = "done" /\ k.reply = r
                   /\ k.token = job[w].token /\ k.pre = job[w].pre /\ k.left = job[w].left
      BY <1>2, <2>3
    <3>2. Stopped(job[w], k)
      BY <2>1, <2>2, <2>3, <3>1 DEF Stopped
    <3> QED
      BY <3>1, <3>2
  <2>4. CASE LooksUp(w) \/ Writes(w)
    <3>1. PICK k \in {[job[w] EXCEPT !.left = Tail(job[w].left)],
                      [job[w] EXCEPT !.pc = "notify"]} : Goes(w, k)
      BY <2>4 DEF LooksUp, Writes
    <3>2. /\ k.handler = job[w].handler /\ k.token = job[w].token
          /\ k.pre = job[w].pre /\ k.reply = job[w].reply /\ k.pc \in {"call", "notify"}
      BY <1>1, <2>1, <3>1 DEF Job
    <3>3. GoesOn(job[w], k)
      BY <2>1, <3>2 DEF GoesOn
    <3> QED
      BY <3>1, <3>2, <3>3
  <2> QED
    BY <1>4, <2>3, <2>4, CallOutcomes DEF Refuses, Fails
<1>5. ASSUME NEW k, Goes(w, k), job[w].pc \notin {"check", "idle", "done", "call"},
             k.handler = job[w].handler, k.token = job[w].token, k.pre = job[w].pre,
             k.reply = job[w].reply, k.pc \notin {"check", "idle", "done"},
             k.pc = "members" => job[w].pc = "members"
      PROVE  P
  BY <1>5 DEF GoesOn
<1>6. CASE Notify(w)
  <2> DEFINE k == [job[w] EXCEPT !.pc = "call", !.left = Tail(job[w].left)]
  <2>1. /\ Goes(w, k) /\ job[w].pc = "notify" /\ k.handler = job[w].handler
        /\ k.token = job[w].token /\ k.pre = job[w].pre /\ k.reply = job[w].reply /\ k.pc = "call"
    BY <1>1, <1>6 DEF Notify, Job
  <2> HIDE DEF k
  <2> QED
    BY <1>5, <2>1
<1>7. ASSUME NEW r \in {"ok", "internal"}, Replied(w, r),
             job[w].pc \notin {"check", "idle", "done"},
             job[w].pc = "members" \/ (r = "ok" /\ job[w].handler.then = "reply")
      PROVE  P
  <2>1. PICK k : /\ Goes(w, k) /\ k.handler = job[w].handler /\ k.pc = "done" /\ k.reply = r
                 /\ k.token = job[w].token /\ k.pre = job[w].pre /\ k.left = job[w].left
    BY <1>2, <1>7
  <2>2. Concluded(job[w], k)
    BY <1>7, <2>1 DEF Concluded
  <2> QED
    BY <2>1, <2>2
<1>8. CASE Finish(w)
  <2>1. job[w].handler.then \in {"reply", "members", "sign"} /\ job[w].pc = "call"
    BY <1>1, <1>8 DEF HandlerType, Finish
  <2>2. CASE job[w].handler.then = "reply"
    BY <1>7, <1>8, <2>1, <2>2 DEF Finish
  <2>3. CASE job[w].handler.then = "members"
    <3> DEFINE k == [job[w] EXCEPT !.pc = "members",
                       !.listed = MembersOfGroup(job[w].server, job[w].handler.subject)]
    <3>1. /\ Goes(w, k) /\ k.handler = job[w].handler /\ k.token = job[w].token
          /\ k.pre = job[w].pre /\ k.reply = job[w].reply /\ k.pc = "members"
      BY <1>1, <1>8, <2>3 DEF Finish, Job
    <3> HIDE DEF k
    <3>2. GoesOn(job[w], k)
      BY <2>1, <2>3, <3>1 DEF GoesOn
    <3> QED
      BY <3>1, <3>2
  <2>4. CASE job[w].handler.then = "sign"
    <3> DEFINE k == [job[w] EXCEPT !.pc = "entity"]
    <3>1. /\ Goes(w, k) /\ k.handler = job[w].handler /\ k.token = job[w].token
          /\ k.pre = job[w].pre /\ k.reply = job[w].reply /\ k.pc = "entity"
      BY <1>1, <1>8, <2>4 DEF Finish, Job
    <3> HIDE DEF k
    <3>2. GoesOn(job[w], k)
      BY <2>1, <2>4, <3>1 DEF GoesOn
    <3> QED
      BY <3>1, <3>2
  <2> QED
    BY <2>1, <2>2, <2>3, <2>4
<1>9. ASSUME NEW x \in Entities, LoadMember(w, x) PROVE P
  <2>1. CASE ents[x] = NoEntity
    BY <1>7, <1>9, <2>1 DEF LoadMember
  <2>2. CASE ents[x] # NoEntity
    <3> DEFINE k == [job[w] EXCEPT !.listed = job[w].listed \ {x}]
    <3>1. /\ Goes(w, k) /\ k.handler = job[w].handler /\ k.token = job[w].token
          /\ k.pre = job[w].pre /\ k.reply = job[w].reply /\ k.pc = "members"
          /\ job[w].pc = "members"
      BY <1>1, <1>9, <2>2 DEF LoadMember, Job
    <3> HIDE DEF k
    <3> QED
      BY <1>5, <3>1
  <2> QED
    BY <2>1, <2>2
<1>10. CASE MembersListed(w)
  BY <1>7, <1>10 DEF MembersListed
<1>11. CASE FetchClaimant(w)
  <2> DEFINE a == [job[w] EXCEPT !.pc = "groupcaps"]
             b == [job[w] EXCEPT !.pc = "groups",
                     !.caps = RequestMeta(ents[job[w].handler.subject]).caps]
  <2>1. PICK k \in {a, b} : Goes(w, k)
    BY <1>11 DEF FetchClaimant
  <2>2. /\ k.handler = job[w].handler /\ k.token = job[w].token /\ k.pre = job[w].pre
        /\ k.reply = job[w].reply /\ k.pc \in {"groups", "groupcaps"} /\ job[w].pc = "entity"
    BY <1>1, <1>11, <2>1 DEF FetchClaimant, Job
  <2> QED
    BY <1>5, <2>1, <2>2
<1>12. CASE ListGroups(w)
  <2> DEFINE k == [job[w] EXCEPT !.pc = "groupcaps",
                     !.listed = GroupsForEntity(job[w].server, job[w].handler.subject)]
  <2>1. /\ Goes(w, k) /\ k.handler = job[w].handler /\ k.token = job[w].token
        /\ k.pre = job[w].pre /\ k.reply = job[w].reply /\ k.pc = "groupcaps"
        /\ job[w].pc = "groups"
    BY <1>1, <1>12 DEF ListGroups, Job
  <2> HIDE DEF k
  <2> QED
    BY <1>5, <2>1
<1>13. ASSUME NEW n \in Groups, AddGroupCaps(w, n) PROVE P
  <2>1. PICK c : Goes(w, [job[w] EXCEPT !.listed = job[w].listed \ {n}, !.caps = c])
    BY <1>13 DEF AddGroupCaps
  <2> DEFINE k == [job[w] EXCEPT !.listed = job[w].listed \ {n}, !.caps = c]
  <2>2. /\ Goes(w, k) /\ k.handler = job[w].handler /\ k.token = job[w].token
        /\ k.pre = job[w].pre /\ k.reply = job[w].reply /\ k.pc = "groupcaps"
        /\ job[w].pc = "groupcaps"
    BY <1>1, <1>13, <2>1 DEF AddGroupCaps, Job
  <2> HIDE DEF k
  <2> QED
    BY <1>5, <2>2
<1>14. CASE Sign(w)
  <2> DEFINE t == [entity |-> job[w].handler.subject, caps |-> job[w].caps, exp |-> now + Lifetime]
             k == [job[w] EXCEPT !.pc = "done", !.reply = "ok", !.token = t]
  <2>1. /\ Goes(w, k) /\ job[w].pc = "groupcaps" /\ issued' = issued \cup {t}
        /\ t.exp = now + Lifetime
    BY <1>14 DEF Sign
  <2> HIDE DEF t
  <2>2. /\ k.handler = job[w].handler /\ k.token = t /\ k.pre = job[w].pre /\ k.reply = "ok"
        /\ k.pc = "done"
    BY <1>1 DEF Job
  <2> HIDE DEF k
  <2>3. job[w].handler.then = "sign"
    BY <2>1 DEF SInv, WellPlaced
  <2>4. Concluded(job[w], k)
    BY <2>1, <2>2, <2>3 DEF Concluded
  <2> QED
    BY <2>1, <2>2, <2>4
<1> HIDE DEF P
<1> QED
  BY <1>3, <1>4, <1>6, <1>8, <1>9, <1>10, <1>11, <1>12, <1>13, <1>14 DEF Progress

(* While time stands still, tokens stay valid. *)
LEMMA GoodStays ==
  ASSUME UNCHANGED now, issued \subseteq issued'
  PROVE  Good \subseteq Good'
BY DEF Good, Valid

(* A token that was found valid is found valid until time passes, ... *)
LEMMA VouchingStays ==
  ASSUME UNCHANGED now, issued \subseteq issued', NEW t, NEW j, NEW k, Vouching(j, t, Good),
         k.handler = j.handler,
         Judged(j, k) \/ Stopped(j, k) \/ GoesOn(j, k) \/ Concluded(j, k)
  PROVE  /\ Vouching(k, t, Good')
         /\ t \in Good /\ j.reply # "unauthenticated" => k.reply # "unauthenticated"
<1>1. /\ j.handler = AuthValidateToken /\ j.token = t /\ j.left = <<>>
      /\ j.pc \in {"check", "call", "done"} /\ j.reply \in {"none", "ok", "unauthenticated"}
      /\ j.pc # "done" => j.reply = "none"
      /\ j.pc = "check" \/ j.reply = "unauthenticated" \/ t \in Good
  BY DEF Vouching
<1>2. /\ AuthValidateToken.access = "validate" /\ AuthValidateToken.calls = <<>>
      /\ AuthValidateToken.then = "reply"
  BY DEF AuthValidateToken, Handler
<1>3. Prerequisite(j.server, j.handler, j.token) = IF t \in Good THEN "ok" ELSE "unauthenticated"
  BY <1>1, <1>2 DEF Prerequisite, Good, Valid
<1>4. CASE Judged(j, k)
  <2>1. /\ j.reply = "none" /\ k.token = t /\ k.left = <<>> /\ k.pc \in {"call", "done"}
        /\ \/ t \in Good /\ k.reply = j.reply
           \/ t \notin Good /\ k.reply = "unauthenticated" /\ k.pc = "done"
    BY <1>1, <1>2, <1>3, <1>4 DEF Judged
  <2> QED
    BY <1>1, <2>1, GoodStays DEF Vouching
<1>5. ~Stopped(j, k) /\ ~GoesOn(j, k)
  BY <1>1, <1>2 DEF Stopped, GoesOn
<1>6. CASE Concluded(j, k)
  <2>1. j.pc = "call" /\ k.pc = "done" /\ k.token = t /\ k.left = <<>> /\ k.reply = "ok"
    BY <1>1, <1>2, <1>6 DEF Concluded
  <2> QED
    BY <1>1, <2>1, GoodStays DEF Vouching
<1> QED
  BY <1>4, <1>5, <1>6

(* ... a new one is valid, ... *)
LEMMA SigningStays ==
  ASSUME UNCHANGED now, now \in Nat, issued \subseteq issued', NEW p, NEW j, NEW k,
         Signing(j, p, Good), k.handler = j.handler,
         Judged(j, k) \/ Stopped(j, k) \/ GoesOn(j, k) \/ Concluded(j, k)
  PROVE  Signing(k, p, Good')
<1> DEFINE h == AuthGetToken(p.as, p.secret)
           c == EntityCall(ValidateSecret(p.as, p.secret), IfRefused)
<1>1. /\ j.handler = h /\ j.pc \notin {"idle", "members"}
      /\ j.reply = "ok" => j.token \in Good
  BY DEF Signing
<1>2. h.access = "anyone" /\ h.then = "sign" /\ h.calls = <<c>> /\ c.answers = IfRefused
  BY DEF AuthGetToken, AuthEntity, Open, Handler, EntityCall
<1> HIDE DEF h, c
<1>3. CASE k.pc \notin {"idle", "members"} /\ k.token = j.token /\ k.reply = j.reply
  BY <1>1, <1>3, GoodStays DEF Signing, h
<1>4. CASE k.pc \notin {"idle", "members"} /\ k.reply # "ok"
  BY <1>1, <1>4 DEF Signing, h
<1>5. CASE Judged(j, k)
  <2>1. Prerequisite(j.server, j.handler, j.token) = "ok"
    BY <1>1, <1>2 DEF Prerequisite
  <2> QED
    BY <1>3, <1>5, <2>1 DEF Judged
<1>6. CASE Stopped(j, k)
  <2>1. \A v : AnswerTo(v, IfRefused) # "ok"
    BY DEF AnswerTo, IfRefused
  <2>2. \A i \in DOMAIN h.calls : h.calls[i] = c
    BY <1>2
  <2>3. k.pc = "done" /\ k.reply # "ok"
    BY <1>1, <1>2, <1>6, <2>1, <2>2 DEF Stopped
  <2> QED
    BY <1>4, <2>3
<1>7. CASE GoesOn(j, k)
  BY <1>1, <1>2, <1>3, <1>7 DEF GoesOn
<1>8. CASE Concluded(j, k)
  <2>1. k.pc = "done" /\ k.token \in issued' /\ k.token.exp = now + Lifetime
    BY <1>1, <1>2, <1>8 DEF Concluded
  <2>2. now' < k.token.exp
    BY <2>1, ServiceAssumption
  <2>3. k.token \in Good'
    BY <2>1, <2>2 DEF Good, Valid
  <2> QED
    BY <1>1, <2>1, <2>3 DEF Signing, h
<1> QED
  BY <1>5, <1>6, <1>7, <1>8

(* ... and a request that carries a valid one is not refused. *)
LEMMA CarryingStays ==
  ASSUME now \in Nat, NEW p, NEW j, NEW k, Carrying(j, p), p.token \in Good,
         k.handler = j.handler,
         Judged(j, k) \/ Stopped(j, k) \/ GoesOn(j, k) \/ Concluded(j, k)
  PROVE  Carrying(k, p)
<1> DEFINE h == j.handler
           v == Prerequisite(j.server, h, j.token)
<1>1. /\ j.token = p.token /\ h \in Requested /\ Served(h)
      /\ j.pc # "idle" /\ j.pre \notin Refusals /\ j.reply \notin Refusals
      /\ \A i \in DOMAIN p.rest : Served(p.rest[i])
  BY DEF Carrying
<1>2. h.then \in {"reply", "members"}
  BY <1>1, CommandsAssumption
<1>3. v \notin Refusals
  <2>1. p.token # NoToken /\ Valid(p.token)
    BY DEF Good, Valid, NoToken
  <2>2. CheckToken(h, j.token) \in {"ok", "unqualified"}
    BY <1>1, <2>1 DEF CheckToken
  <2> QED
    BY <1>1, <2>1, <2>2 DEF Prerequisite, Served, Refusals
<1>4. ASSUME NEW i \in DOMAIN h.calls, NEW u PROVE AnswerTo(u, h.calls[i].answers) \notin Refusals
  BY <1>1, Zenon DEF AnswerTo, Served, Refusals
<1>5. "ok" \notin Refusals /\ "internal" \notin Refusals
  BY DEF Refusals
<1>6. k.token = j.token /\ k.pc # "idle"
  BY <1>2 DEF Judged, Stopped, GoesOn, Concluded
<1>7. k.pre \notin Refusals /\ k.reply \notin Refusals
  <2>1. CASE Judged(j, k)
    BY <1>1, <1>3, <2>1 DEF Judged
  <2>2. CASE Stopped(j, k)
    BY <1>1, <1>4, <2>2 DEF Stopped
  <2>3. CASE GoesOn(j, k) \/ Concluded(j, k)
    BY <1>1, <1>5, <2>3 DEF GoesOn, Concluded
  <2> QED
    BY <2>1, <2>2, <2>3
<1> QED
  BY <1>1, <1>6, <1>7 DEF Carrying

(* What a process knows in time, it knows with more tokens issued. *)
LEMMA InTimeStays ==
  ASSUME UNCHANGED now, issued \subseteq issued', NEW p, NEW j, InTime(p, j, Good)
  PROVE  InTime(p, j, Good')
BY GoodStays DEF InTime, Vouching, Signing

(* Worker w and its process move on, and time stands still. *)
LEMMA TokenKept ==
  ASSUME OwnInv, TokenInv, NEW w \in Workers, NEW p, NEW j, Turns(w, p), Goes(w, j),
         UNCHANGED <<now, crashes>>, issued \subseteq issued', InOrder(p),
         p.pc = "idle" \/ p.began # <<now, crashes>> \/ InTime(p, j, Good')
  PROVE  TokenInv'
<1>1. /\ \A v \in Workers : proc'[v] = IF v = w THEN p ELSE proc[v]
      /\ \A v \in Workers : job'[v] = IF v = w THEN j ELSE job[v]
  BY DEF OwnInv, Turns, Goes
<1>2. ASSUME NEW v \in Workers
      PROVE  /\ InOrder(proc'[v])
             /\ \/ proc'[v].pc = "idle" \/ proc'[v].began # <<now', crashes'>>
                \/ InTime(proc'[v], job'[v], Good')
  <2>1. CASE v = w
    BY <1>1, <2>1
  <2>2. CASE v # w
    <3>1. proc'[v] = proc[v] /\ job'[v] = job[v]
      BY <1>1, <2>2
    <3>2. /\ InOrder(proc[v])
          /\ \/ proc[v].pc = "idle" \/ proc[v].began # <<now, crashes>>
             \/ InTime(proc[v], job[v], Good)
      BY DEF TokenInv, Delayed
    <3>3. InTime(proc[v], job[v], Good) => InTime(proc[v], job[v], Good')
      BY InTimeStays
    <3> QED
      BY <3>1, <3>2, <3>3
  <2> QED
    BY <2>1, <2>2
<1> QED
  BY <1>2 DEF TokenInv, Delayed

(* The process of w keeps its time, or moves on in time. *)
LEMMA TokenTurns ==
  ASSUME OwnInv, TokenInv, NEW w \in Workers, proc[w].pc # "idle", NEW p, NEW j,
         Turns(w, p), Goes(w, j), UNCHANGED Elsewhere, InOrder(p), p.began = proc[w].began,
         InTime(proc[w], job[w], Good) => InTime(p, j, Good)
  PROVE  TokenInv'
<1>1. UNCHANGED <<now, crashes>> /\ issued \subseteq issued'
  BY DEF Elsewhere
<1>2. proc[w].began # <<now, crashes>> \/ InTime(proc[w], job[w], Good)
  BY DEF TokenInv, Delayed
<1>3. p.began # <<now, crashes>> \/ InTime(p, j, Good')
  BY <1>1, <1>2, InTimeStays
<1> QED
  BY <1>1, <1>3, TokenKept

(* The next step of a command. *)
LEMMA OnwardOrder ==
  ASSUME NEW p \in Process, p.left # <<>>, TokenFirst(p.left),
         p.attached => \A i \in DOMAIN Tail(p.left) : TokenServes(Tail(p.left)[i])
  PROVE  LET q == Onward(p)
         IN  /\ InOrder(q) /\ (q.pc = "ready" \/ (q.pc = "ended" /\ q.reply = "ok"))
             /\ q.attached = p.attached /\ q.token = p.token /\ q.began = p.began
<1> DEFINE l == p.left
<1>1. l \in Seq(Steps) /\ l # <<>>
  BY DEF Process
<1>2. CASE Len(p.left) = 1
  <2> DEFINE q == [p EXCEPT !.pc = "ended", !.left = <<>>, !.reply = "ok"]
  <2>1. Onward(p) = q
    BY <1>2 DEF Onward
  <2>2. /\ q.pc = "ended" /\ q.reply = "ok" /\ q.left = <<>>
        /\ q.attached = p.attached /\ q.token = p.token /\ q.began = p.began
    BY DEF Process
  <2> HIDE DEF q
  <2>3. InOrder(q)
    BY <2>2 DEF InOrder, TokenFirst
  <2> QED
    BY <2>1, <2>2, <2>3
<1>3. CASE Len(p.left) # 1
  <2> DEFINE q == [p EXCEPT !.pc = "ready", !.left = Tail(l)]
  <2>1. Onward(p) = q
    BY <1>3 DEF Onward
  <2>2. /\ q.pc = "ready" /\ q.left = Tail(l)
        /\ q.attached = p.attached /\ q.token = p.token /\ q.began = p.began
    BY DEF Process
  <2> HIDE DEF q
  <2>3. TokenFirst(l)
    OBVIOUS
  <2>4. p.attached => \A i \in DOMAIN Tail(l) : TokenServes(Tail(l)[i])
    OBVIOUS
  <2> HIDE DEF l
  <2>5. Len(l) # 0
    BY <1>1, EmptySeq
  <2>6. /\ \A i \in DOMAIN Tail(l) : i + 1 \in DOMAIN l /\ Tail(l)[i] = l[i + 1]
        /\ Tail(l) \in Seq(Steps)
    BY ONLY <1>1, <2>5, TailShift
  <2>7. TokenFirst(Tail(l))
    <3> SUFFICES ASSUME NEW i \in DOMAIN Tail(l), NEW k \in DOMAIN Tail(l), i < k,
                        Tail(l)[i].do = "token"
                 PROVE  TokenServes(Tail(l)[k])
      BY DEF TokenFirst
    <3>1. i \in Int /\ k \in Int
      BY <2>6
    <3>2. i + 1 < k + 1
      BY <3>1
    <3> QED
      BY <2>3, <2>6, <3>2 DEF TokenFirst
  <2>8. InOrder(q)
    BY <2>2, <2>4, <2>7 DEF InOrder
  <2> QED
    BY <2>1, <2>2, <2>8
<1> QED
  BY <1>2, <1>3

(* A step that the token serves leaves the others. *)
LEMMA InOrderTail ==
  ASSUME NEW p \in Process, p.left # <<>>, InOrder(p)
  PROVE  /\ TokenFirst(p.left)
         /\ p.attached => /\ TokenServes(Head(p.left))
                          /\ \A i \in DOMAIN Tail(p.left) : TokenServes(Tail(p.left)[i])
         /\ Head(p.left).do = "token" =>
              \A i \in DOMAIN Tail(p.left) : TokenServes(Tail(p.left)[i])
<1> DEFINE l == p.left
<1>1. l \in Seq(Steps) /\ l # <<>>
  BY DEF Process
<1>2. /\ TokenFirst(l)
      /\ p.attached => \A i \in DOMAIN l : TokenServes(l[i])
  BY DEF InOrder
<1> HIDE DEF l
<1>3. Len(l) # 0
  BY <1>1, EmptySeq
<1>4. /\ Head(l) = l[1] /\ 1 \in DOMAIN l /\ Tail(l) \in Seq(Steps)
      /\ \A i \in DOMAIN Tail(l) : i + 1 \in DOMAIN l /\ Tail(l)[i] = l[i + 1]
  BY ONLY <1>1, <1>3, TailShift
<1>5. ASSUME Head(l).do = "token", NEW i \in DOMAIN Tail(l) PROVE TokenServes(Tail(l)[i])
  <2>1. i \in 1..Len(Tail(l))
    BY <1>4
  <2>2. 1 < i + 1
    BY <2>1
  <2> QED
    BY <1>2, <1>4, <1>5, <2>2 DEF TokenFirst
<1> QED
  BY <1>2, <1>4, <1>5 DEF l

(* A process that waits for nobody. *)
LEMMA RestingInTime ==
  ASSUME NEW p, NEW j, p.pc \in {"ready", "ended"}, p.attached => p.token \in Good,
         p.pc = "ended" /\ p.attached => p.reply \notin Refusals
  PROVE  InTime(p, j, Good)
BY DEF InTime, Waiting

(* A process that goes on to its next step. *)
LEMMA OnwardToken ==
  ASSUME OwnInv, TokenInv, NEW w \in Workers, proc[w].pc # "idle", NEW j, Goes(w, j),
         NEW p \in Process, p.left # <<>>, TokenFirst(p.left), p.began = proc[w].began,
         p.attached => \A i \in DOMAIN Tail(p.left) : TokenServes(Tail(p.left)[i]),
         Turns(w, Onward(p)), UNCHANGED Elsewhere,
         InTime(proc[w], job[w], Good) /\ p.attached => p.token \in Good
  PROVE  TokenInv'
<1>1. PICK q : q = Onward(p)
  OBVIOUS
<1>2. /\ InOrder(q) /\ (q.pc = "ready" \/ (q.pc = "ended" /\ q.reply = "ok"))
      /\ q.attached = p.attached /\ q.token = p.token /\ q.began = p.began
  BY <1>1, OnwardOrder
<1>3. InTime(proc[w], job[w], Good) => InTime(q, j, Good)
  BY <1>2, RestingInTime DEF Refusals
<1>4. Turns(w, q) /\ q.began = proc[w].began
  BY <1>1, <1>2
<1> QED
  BY <1>2, <1>3, <1>4, TokenTurns

(* What the process of a working command has. *)
LEMMA TokenFacts ==
  ASSUME OwnInv, CommandInv, TokenInv, NEW w \in Workers, proc[w].pc \notin {"idle", "ended"}
  PROVE  /\ proc[w] \in Process /\ proc[w].left # <<>> /\ InOrder(proc[w])
         /\ TokenFirst(proc[w].left)
         /\ proc[w].attached =>
              /\ TokenServes(Head(proc[w].left))
              /\ \A i \in DOMAIN Tail(proc[w].left) : TokenServes(Tail(proc[w].left)[i])
         /\ Head(proc[w].left).do = "token" =>
              \A i \in DOMAIN Tail(proc[w].left) : TokenServes(Tail(proc[w].left)[i])
         /\ Head(proc[w].left).do \in {"token", "renew"} => ~proc[w].attached
<1>1. proc[w] \in Process /\ proc[w].left # <<>> /\ InOrder(proc[w])
  BY WorkingFacts DEF TokenInv
<1>2. /\ TokenFirst(proc[w].left)
      /\ proc[w].attached =>
           /\ TokenServes(Head(proc[w].left))
           /\ \A i \in DOMAIN Tail(proc[w].left) : TokenServes(Tail(proc[w].left)[i])
      /\ Head(proc[w].left).do = "token" =>
           \A i \in DOMAIN Tail(proc[w].left) : TokenServes(Tail(proc[w].left)[i])
  BY <1>1, InOrderTail
<1>3. Head(proc[w].left).do \in {"token", "renew"} => ~proc[w].attached
  BY <1>2 DEF TokenServes
<1> QED
  BY <1>1, <1>2, <1>3

(* A valid token is attached. *)
LEMMA AttachToken ==
  ASSUME OwnInv, CommandInv, TokenInv, NEW w \in Workers, proc[w].pc \notin {"idle", "ended"},
         Head(proc[w].left).do = "token", NEW t \in Token \cup {NoToken}, NEW j, Goes(w, j),
         Turns(w, Attach(proc[w], t)), UNCHANGED Elsewhere,
         InTime(proc[w], job[w], Good) => t \in Good
  PROVE  TokenInv'
<1> DEFINE q == [proc[w] EXCEPT !.token = t, !.attached = TRUE]
<1>1. proc[w] \in Process
  BY TokenFacts
<1>2. /\ q \in Process /\ q.began = proc[w].began /\ q.left = proc[w].left
      /\ q.token = t
  BY <1>1 DEF Process
<1>3. Turns(w, Onward(q))
  BY DEF Attach
<1> HIDE DEF q
<1>4. /\ proc[w].left # <<>> /\ TokenFirst(proc[w].left)
      /\ \A i \in DOMAIN Tail(proc[w].left) : TokenServes(Tail(proc[w].left)[i])
  BY TokenFacts
<1> QED
  BY <1>2, <1>3, <1>4, OnwardToken

(* A process that waits for an answer to what it has sent. *)
LEMMA AskedToken ==
  ASSUME OwnInv, CommandInv, TokenInv, NEW w \in Workers, proc[w].pc \notin {"idle", "ended"},
         NEW s, NEW h, NEW t, Send(w, s, h, t), NEW p, Turns(w, p), UNCHANGED Elsewhere,
         p.left = proc[w].left, p.attached = proc[w].attached, p.token = proc[w].token,
         p.began = proc[w].began, p.pc \in Waiting,
         p.pc = "asked" => Head(p.left).do = "call",
         p.pc \in {"first", "second"} =>
           Head(p.left).do = "token" /\ h = AuthValidateToken /\ t = p.read,
         p.pc = "second" /\ InTime(proc[w], job[w], Good) => p.read \in Good,
         p.pc = "renew" =>
           Head(p.left).do \in {"token", "renew"} /\ h = AuthGetToken(p.as, p.secret),
         /\ p.pc = "asked" /\ p.attached /\ ~AsksSecret(Head(p.left).call)
         /\ InTime(proc[w], job[w], Good)
         => /\ t = p.token /\ h \in Requested /\ Served(h)
            /\ \A i \in DOMAIN p.rest : Served(p.rest[i])
  PROVE  TokenInv'
<1> DEFINE j == Incoming(s, h, t)
<1>1. /\ j.pc = "check" /\ j.handler = h /\ j.token = t /\ j.left = <<>> /\ j.pre = "ok"
      /\ j.reply = "none" /\ Goes(w, j)
  BY DEF Incoming, IdleJob, Send
<1> HIDE DEF j
<1>2. InOrder(p)
  <2>1. InOrder(proc[w])
    BY DEF TokenInv
  <2>2. Head(proc[w].left).do \in {"token", "renew"} => ~proc[w].attached
    BY TokenFacts
  <2> QED
    BY <2>1, <2>2 DEF InOrder, Waiting
<1>3. ASSUME InTime(proc[w], job[w], Good) PROVE InTime(p, j, Good)
  <2>1. p.attached => p.token \in Good
    BY <1>3 DEF InTime
  <2>2. p.pc \in {"first", "second"} => Vouching(j, p.read, Good)
    BY <1>1 DEF Vouching
  <2>3. p.pc = "renew" => Signing(j, p, Good)
    BY <1>1 DEF Signing
  <2>4. p.pc = "asked" /\ p.attached /\ ~AsksSecret(Head(p.left).call) => Carrying(j, p)
    BY <1>1, <1>3 DEF Carrying, Refusals
  <2> QED
    BY <1>1, <1>3, <2>1, <2>2, <2>3, <2>4 DEF InTime, Waiting
<1> QED
  BY <1>1, <1>2, <1>3, TokenTurns

(* A command that ends. *)
LEMMA EndedToken ==
  ASSUME OwnInv, CommandInv, TokenInv, NEW w \in Workers, proc[w].pc \notin {"idle", "ended"},
         NEW r, Ends(w, proc[w], r), UNCHANGED Elsewhere,
         /\ InTime(proc[w], job[w], Good) /\ proc[w].attached
         /\ Head(proc[w].left).do = "call" => ~AsksSecret(Head(proc[w].left).call)
         => r \notin Refusals
  PROVE  TokenInv'
<1> DEFINE q == [proc[w] EXCEPT !.pc = "ended", !.reply = r]
<1>1. proc[w] \in Process /\ InOrder(proc[w]) /\ proc[w].left # <<>>
  BY TokenFacts
<1>2. /\ q.pc = "ended" /\ q.reply = r /\ q.left = proc[w].left /\ q.began = proc[w].began
      /\ q.attached = proc[w].attached /\ q.token = proc[w].token
      /\ Turns(w, q) /\ Goes(w, IdleJob)
  BY <1>1 DEF Process, Ends, Quiet
<1> HIDE DEF q
<1>3. InOrder(q)
  BY <1>1, <1>2 DEF InOrder
<1>4. InTime(proc[w], job[w], Good) => InTime(q, IdleJob, Good)
  BY <1>1, <1>2 DEF InTime, Waiting
<1> QED
  BY <1>2, <1>3, <1>4, TokenTurns

(* Every command asks for its token before what the token serves. *)
TokensFirst == \A w \in Workers : \A c \in Offered[w] : TokenFirst(c.steps)

(* The steps of token(), ... *)
LEMMA TokenStepsToken ==
  ASSUME OwnInv, CommandInv, TokenInv, NEW w \in Workers,
         FindToken(w) \/ TokenChecked(w) \/ RenewToken(w)
  PROVE  TokenInv'
<1> DEFINE p == proc[w]
<1>1. p.pc \in {"ready", "first", "second"} /\ UNCHANGED Elsewhere
  BY DEF FindToken, TokenChecked, RenewToken, Doing
<1>2. p \in Process /\ InOrder(p) /\ p.left # <<>>
  BY <1>1, TokenFacts
<1>3. ASSUME AskForToken(w, p), Head(p.left).do \in {"token", "renew"}
      PROVE  TokenInv'
  <2> DEFINE q == [p EXCEPT !.pc = "renew"]
  <2>1. /\ q.left = p.left /\ q.attached = p.attached /\ q.token = p.token /\ q.began = p.began
        /\ q.pc = "renew" /\ q.as = p.as /\ q.secret = p.secret
        /\ Turns(w, q) /\ Send(w, p.server, AuthGetToken(p.as, p.secret), NoToken)
    BY <1>2, <1>3 DEF AskForToken, Process
  <2> HIDE DEF q
  <2> QED
    BY <1>1, <1>3, <2>1, AskedToken DEF Waiting
<1>4. ASSUME NEW t, NEW pc0 \in {"first", "second"}, AskIfValid(w, p, t, pc0),
             Head(p.left).do = "token",
             pc0 = "second" /\ InTime(p, job[w], Good) => t \in Good
      PROVE  TokenInv'
  <2> DEFINE q == [p EXCEPT !.pc = pc0, !.read = t]
  <2>1. /\ q.left = p.left /\ q.attached = p.attached /\ q.token = p.token /\ q.began = p.began
        /\ q.pc = pc0 /\ q.read = t
        /\ Turns(w, q) /\ Send(w, p.server, AuthValidateToken, t)
    BY <1>2, <1>4 DEF AskIfValid, Process
  <2> HIDE DEF q
  <2> QED
    BY <1>1, <1>4, <2>1, AskedToken DEF Waiting
<1>5. CASE FindToken(w)
  <2>1. Head(p.left).do = "token"
    BY <1>5 DEF FindToken, Doing
  <2>2. AskForToken(w, p) \/ AskIfValid(w, p, cache[p.as], "first")
    BY <1>5 DEF FindToken
  <2> QED
    BY <1>3, <1>4, <2>1, <2>2
<1>6. CASE TokenChecked(w)
  <2>1. p.pc \in {"first", "second"} /\ Answered(w) /\ Head(p.left).do = "token"
    BY <1>2, <1>6 DEF TokenChecked, InOrder
  <2>2. ASSUME InTime(p, job[w], Good)
        PROVE  /\ Reply(w) = "ok" => p.read \in Good
               /\ p.pc = "second" => Reply(w) = "ok" /\ p.read \in Good
    <3>1. Vouching(job[w], p.read, Good) /\ job[w].pc # "idle"
          /\ (p.pc = "second" => p.read \in Good /\ job[w].reply # "unauthenticated")
      BY <2>1, <2>2 DEF InTime, Waiting
    <3>2. job[w].pc = "done" /\ Reply(w) = job[w].reply
      BY <2>1, <3>1 DEF Answered, Reply
    <3>3. job[w].reply # "none"
      BY <3>2 DEF CommandInv, SInv, WellPlaced
    <3> QED
      BY <3>1, <3>2, <3>3 DEF Vouching
  <2>3. CASE p.pc = "first"
    <3>1. \/ Reply(w) = "ok" /\ AskIfValid(w, p, p.read, "second")
          \/ AskForToken(w, p)
      BY <1>6, <2>3 DEF TokenChecked
    <3> QED
      BY <1>3, <1>4, <2>1, <2>2, <3>1
  <2>4. CASE p.pc = "second"
    <3>1. PICK t : /\ t = (IF Reply(w) = "ok" THEN p.read ELSE NoToken)
                   /\ Quiet(w) /\ Turns(w, Attach(p, t))
      BY <1>6, <2>4 DEF TokenChecked
    <3>2. t \in Token \cup {NoToken}
      BY <1>2, <3>1 DEF Process
    <3>3. InTime(p, job[w], Good) => t \in Good
      BY <2>2, <2>4, <3>1
    <3>4. Goes(w, IdleJob)
      BY <3>1 DEF Quiet
    <3> QED
      BY <1>1, <2>1, <3>1, <3>2, <3>3, <3>4, AttachToken
  <2> QED
    BY <2>1, <2>3, <2>4
<1>7. CASE RenewToken(w)
  <2>1. Head(p.left).do = "renew" /\ AskForToken(w, p)
    BY <1>7 DEF RenewToken, Doing
  <2> QED
    BY <1>3, <2>1
<1> QED
  BY <1>5, <1>6, <1>7

(* A step that has nothing to do with the token. *)
LEMMA NextToken ==
  ASSUME OwnInv, CommandInv, TokenInv, NEW w \in Workers, proc[w].pc \notin {"idle", "ended"},
         NEW j, Goes(w, j), Turns(w, Onward(proc[w])), UNCHANGED Elsewhere
  PROVE  TokenInv'
<1>1. /\ proc[w] \in Process /\ proc[w].left # <<>> /\ TokenFirst(proc[w].left)
      /\ proc[w].attached =>
           \A i \in DOMAIN Tail(proc[w].left) : TokenServes(Tail(proc[w].left)[i])
  BY TokenFacts
<1>2. InTime(proc[w], job[w], Good) /\ proc[w].attached => proc[w].token \in Good
  BY DEF InTime
<1> QED
  BY <1>1, <1>2, OnwardToken

(* ... those on the cache, ... *)
LEMMA CacheStepsToken ==
  ASSUME OwnInv, CommandInv, TokenInv, NEW w \in Workers,
         TokenRenewed(w) \/ WriteToken(w) \/ DropToken(w) \/ InspectToken(w)
  PROVE  TokenInv'
<1> DEFINE p == proc[w]
<1>1. p.pc \in {"ready", "renew", "put"} /\ UNCHANGED Elsewhere
  BY DEF TokenRenewed, WriteToken, DropToken, InspectToken, Doing
<1>2. p \in Process /\ InOrder(p) /\ p.left # <<>>
  BY <1>1, TokenFacts
<1>3. Quiet(w) \/ UNCHANGED job => \E j : Goes(w, j)
  <2>1. UNCHANGED job => Goes(w, job[w])
    BY DEF Goes, CommandInv, SInv
  <2> QED
    BY <2>1 DEF Quiet
<1>4. CASE TokenRenewed(w)
  <2>1. p.pc = "renew" /\ Answered(w) /\ ~p.attached
    BY <1>2, <1>4 DEF TokenRenewed, InOrder
  <2>2. CASE Ends(w, p, Reply(w))
    BY <1>1, <2>1, <2>2, EndedToken
  <2>3. CASE /\ Reply(w) = "ok" /\ Quiet(w)
             /\ Turns(w, [p EXCEPT !.pc = "put", !.read = job[w].token])
    <3> DEFINE q == [p EXCEPT !.pc = "put", !.read = job[w].token]
    <3>1. /\ q.pc = "put" /\ q.read = job[w].token /\ q.left = p.left
          /\ q.attached = p.attached /\ q.token = p.token /\ q.began = p.began
          /\ Turns(w, q) /\ Goes(w, IdleJob)
      BY <1>2, <2>3 DEF Process, Quiet
    <3> HIDE DEF q
    <3>2. InOrder(q)
      BY <1>2, <2>1, <3>1 DEF InOrder
    <3>3. ASSUME InTime(p, job[w], Good) PROVE job[w].token \in Good
      <4>1. job[w].pc # "idle" /\ Signing(job[w], p, Good)
        BY <2>1, <3>3 DEF InTime, Waiting
      <4> QED
        BY <2>3, <4>1 DEF Reply, Signing
    <3>4. InTime(p, job[w], Good) => InTime(q, IdleJob, Good)
      BY <2>1, <3>1, <3>3 DEF InTime, Waiting
    <3> QED
      BY <1>1, <3>1, <3>2, <3>4, TokenTurns
  <2> QED
    BY <1>4, <2>2, <2>3 DEF TokenRenewed
<1>5. CASE WriteToken(w)
  <2>1. p.pc = "put" /\ UNCHANGED job /\ p.read \in Token \cup {NoToken}
    BY <1>2, <1>5 DEF WriteToken, Process
  <2>2. PICK j : Goes(w, j)
    BY <1>3, <2>1
  <2>3. CASE Head(p.left).do = "token"
    <3>1. Turns(w, Attach(p, p.read))
      BY <1>5, <2>3 DEF WriteToken
    <3>2. InTime(p, job[w], Good) => p.read \in Good
      BY <2>1 DEF InTime
    <3> QED
      BY <1>1, <2>1, <2>2, <2>3, <3>1, <3>2, AttachToken
  <2>4. CASE Head(p.left).do # "token"
    <3>1. Turns(w, Onward(p))
      BY <1>5, <2>4 DEF WriteToken
    <3> QED
      BY <1>1, <2>2, <3>1, NextToken
  <2> QED
    BY <2>3, <2>4
<1>6. CASE DropToken(w)
  <2>1. UNCHANGED job /\ Turns(w, Onward(p))
    BY <1>6 DEF DropToken
  <2>2. PICK j : Goes(w, j)
    BY <1>3, <2>1
  <2> QED
    BY <1>1, <2>1, <2>2, NextToken
<1>7. CASE InspectToken(w)
  <2>1. CASE Quiet(w) /\ Turns(w, Onward(p))
    <3>1. PICK j : Goes(w, j)
      BY <1>3, <2>1
    <3> QED
      BY <1>1, <2>1, <3>1, NextToken
  <2>2. CASE ~Valid(p.token) /\ Ends(w, p, "unauthenticated")
    <3>1. ~(InTime(p, job[w], Good) /\ p.attached)
      BY <2>2 DEF InTime, Good
    <3> QED
      BY <1>1, <2>2, <3>1, EndedToken
  <2> QED
    BY <1>7, <2>1, <2>2 DEF InspectToken
<1> QED
  BY <1>4, <1>5, <1>6, <1>7

(* ... the calls of the library, ... *)
LEMMA CallStepsToken ==
  ASSUME OwnInv, CommandInv, TokenInv, NEW w \in Workers,
         CallLibrary(w) \/ CallAnswered(w) \/ Exit(w)
  PROVE  TokenInv'
<1> DEFINE p == proc[w]
<1>1. UNCHANGED Elsewhere
  BY DEF CallLibrary, CallAnswered, Exit
<1>2. CASE CallLibrary(w)
  <2> DEFINE c == Head(p.left).call
             s == IF c.master THEN CoreMaster ELSE p.server
             q == [p EXCEPT !.pc = "asked", !.server = s, !.rest = Tail(c.rpcs)]
  <2>1. p.pc = "ready" /\ Head(p.left).do = "call"
    BY <1>2 DEF CallLibrary, Doing
  <2>2. p \in Process /\ Head(p.left) \in Steps /\ (p.attached => TokenServes(Head(p.left)))
    BY <2>1, WorkingFacts, TokenFacts
  <2>3. c.rpcs \in Seq(Requested)
    BY <2>1, <2>2, CommandsAssumption
  <2>4. CASE Ends(w, p, "refused")
    BY <1>1, <2>1, <2>4, EndedToken DEF Refusals
  <2>5. CASE c.rpcs # <<>> /\ Send(w, s, Head(c.rpcs), p.token) /\ Turns(w, q)
    <3>1. ASSUME p.attached, ~AsksSecret(c)
          PROVE  /\ Head(c.rpcs) \in Requested /\ Served(Head(c.rpcs))
                 /\ \A i \in DOMAIN Tail(c.rpcs) : Served(Tail(c.rpcs)[i])
      <4>1. \A i \in DOMAIN c.rpcs : Served(c.rpcs[i])
        BY <2>1, <2>2, <3>1 DEF TokenServes, CallServed
      <4> DEFINE l == c.rpcs
      <4>2. l \in Seq(Requested) /\ l # <<>> /\ \A i \in DOMAIN l : Served(l[i])
        BY <2>3, <2>5, <4>1
      <4> HIDE DEF l
      <4>3. Len(l) # 0
        BY <4>2, EmptySeq
      <4>4. /\ Head(l) = l[1] /\ 1 \in DOMAIN l /\ l[1] \in Requested
            /\ \A i \in DOMAIN Tail(l) : i + 1 \in DOMAIN l /\ Tail(l)[i] = l[i + 1]
        BY ONLY <4>2, <4>3, TailShift
      <4>5. /\ Head(l) \in Requested /\ Served(Head(l))
            /\ \A i \in DOMAIN Tail(l) : Served(Tail(l)[i])
        BY <4>2, <4>4
      <4> QED
        BY <4>5 DEF l
    <3> HIDE DEF s
    <3>2. /\ q.pc = "asked" /\ q.rest = Tail(c.rpcs) /\ q.left = p.left /\ q.token = p.token
          /\ q.attached = p.attached /\ q.began = p.began
          /\ Turns(w, q) /\ Send(w, s, Head(c.rpcs), p.token)
      BY <2>2, <2>5 DEF Process
    <3> HIDE DEF q
    <3>3. /\ q.attached /\ ~AsksSecret(Head(q.left).call)
          => /\ Head(c.rpcs) \in Requested /\ Served(Head(c.rpcs))
             /\ \A i \in DOMAIN q.rest : Served(q.rest[i])
      BY <3>1, <3>2
    <3> HIDE DEF c
    <3> QED
      BY <1>1, <2>1, <3>2, <3>3, AskedToken DEF Waiting
  <2> QED
    BY <1>2, <2>4, <2>5 DEF CallLibrary
<1>3. CASE CallAnswered(w)
  <2> DEFINE q == [p EXCEPT !.rest = Tail(p.rest)]
  <2>1. p.pc = "asked" /\ Answered(w)
    BY <1>3 DEF CallAnswered
  <2>2. p \in Process /\ InOrder(p) /\ Head(p.left).do = "call"
    BY <2>1, TokenFacts DEF InOrder
  <2>3. CASE Ends(w, p, Reply(w))
    <3>1. ASSUME InTime(p, job[w], Good), p.attached, ~AsksSecret(Head(p.left).call)
          PROVE  Reply(w) \notin Refusals
      <4>1. Carrying(job[w], p) /\ Reply(w) \in {job[w].reply, "unavailable"}
        BY <2>1, <3>1 DEF InTime, Reply
      <4> QED
        BY <4>1 DEF Carrying, Refusals
    <3> QED
      BY <1>1, <2>1, <2>2, <2>3, <3>1, EndedToken
  <2>4. CASE Quiet(w) /\ Turns(w, Onward(p))
    BY <1>1, <2>1, <2>4, NextToken DEF Quiet
  <2>5. CASE p.rest # <<>> /\ Send(w, p.server, Head(p.rest), p.token) /\ Turns(w, q)
    <3> DEFINE l == p.rest
    <3>1. l \in Seq(Requested) /\ l # <<>>
      BY <2>2, <2>5 DEF Process
    <3>2. q.pc = "asked" /\ q.rest = Tail(l) /\ q.left = p.left /\ q.token = p.token
          /\ q.attached = p.attached /\ q.began = p.began
          /\ Turns(w, q) /\ Send(w, p.server, Head(l), p.token)
      BY <2>1, <2>2, <2>5 DEF Process
    <3> HIDE DEF q
    <3> DEFINE T == p.attached /\ ~AsksSecret(Head(p.left).call) /\ InTime(p, job[w], Good)
    <3>3. T => \A i \in DOMAIN l : Served(l[i])
      BY <2>1 DEF InTime, Carrying
    <3> HIDE DEF l, T
    <3>4. Len(l) # 0
      BY <3>1, EmptySeq
    <3>5. /\ Head(l) = l[1] /\ 1 \in DOMAIN l /\ l[1] \in Requested
          /\ \A i \in DOMAIN Tail(l) : i + 1 \in DOMAIN l /\ Tail(l)[i] = l[i + 1]
      BY ONLY <3>1, <3>4, TailShift
    <3>6. Head(l) \in Requested
          /\ (T => Served(Head(l)) /\ \A i \in DOMAIN Tail(l) : Served(Tail(l)[i]))
      BY <3>3, <3>5
    <3> QED
      BY <1>1, <2>1, <2>2, <3>2, <3>6, AskedToken DEF Waiting, T
  <2> QED
    BY <1>3, <2>3, <2>4, <2>5 DEF CallAnswered
<1>4. CASE Exit(w)
  <2>1. UNCHANGED job /\ Turns(w, Idle)
    BY <1>4 DEF Exit
  <2>2. Goes(w, job[w])
    BY <2>1 DEF Goes, CommandInv, SInv
  <2>3. Idle.pc = "idle" /\ InOrder(Idle)
    BY DEF Idle, InOrder, TokenFirst
  <2>4. UNCHANGED <<now, crashes>> /\ issued \subseteq issued'
    BY <1>1 DEF Elsewhere
  <2> QED
    BY <2>1, <2>2, <2>3, <2>4, TokenKept
<1> QED
  BY <1>2, <1>3, <1>4

(* ... the start of a command, ... *)
LEMMA BeginToken ==
  ASSUME TokensFirst, OwnInv, CommandInv, TokenInv, NEW w \in Workers, NEW c \in Offered[w],
         Begin(w, c)
  PROVE  TokenInv'
<1> DEFINE q == [Idle EXCEPT !.pc = "ready", !.as = c.as, !.secret = c.secret,
                             !.left = c.steps, !.began = <<now, crashes>>]
<1>1. UNCHANGED <<job, Elsewhere>> /\ Turns(w, q)
  BY DEF Begin
<1>2. q.pc = "ready" /\ q.left = c.steps /\ q.attached = FALSE
  BY DEF Idle
<1> HIDE DEF q
<1>3. InOrder(q)
  BY <1>2 DEF InOrder, TokensFirst
<1>4. Goes(w, job[w]) /\ UNCHANGED <<now, crashes>> /\ issued \subseteq issued'
  BY <1>1 DEF Goes, CommandInv, SInv, Elsewhere
<1>5. InTime(q, job[w], Good')
  BY <1>2 DEF InTime, Waiting
<1> QED
  BY <1>1, <1>3, <1>4, <1>5, TokenKept

(* ... and what its handler does. *)
LEMMA HandlerToken ==
  ASSUME OwnInv, CommandInv, TokenInv, NEW w \in Workers, Progress(w), UNCHANGED commandVars
  PROVE  TokenInv'
<1> DEFINE p == proc[w]
           j == job[w]
<1>1. UNCHANGED <<now, crashes, proc>> /\ issued \subseteq issued'
  BY DEF Progress, Check, Call, Notify, Finish, LoadMember, MembersListed, FetchClaimant,
         ListGroups, AddGroupCaps, Sign, Rest, commandVars
<1>2. PICK k : /\ Goes(w, k) /\ k.handler = j.handler
               /\ Judged(j, k) \/ Stopped(j, k) \/ GoesOn(j, k) \/ Concluded(j, k)
  BY ProgressOutcomes DEF CommandInv
<1>3. Turns(w, p) /\ InOrder(p) /\ now \in Nat /\ j.pc # "idle" /\ p.pc \in Waiting
  BY <1>1, HandlerStep DEF Turns, OwnInv, TokenInv, CommandInv, SInv, DirectoryOK
<1>4. k.pc # "idle"
  BY <1>2 DEF Judged, Stopped, GoesOn, Concluded
<1>5. p.began # <<now, crashes>> \/ InTime(p, j, Good)
  BY <1>3 DEF TokenInv, Delayed, Waiting
<1> HIDE DEF p, j
<1>6. ASSUME InTime(p, j, Good) PROVE InTime(p, k, Good')
  <2>1. p.pc \in {"first", "second"} => Vouching(k, p.read, Good')
    BY <1>1, <1>2, <1>6, VouchingStays DEF InTime
  <2>2. p.pc = "second" => p.read \in Good' /\ k.reply # "unauthenticated"
    BY <1>1, <1>2, <1>6, VouchingStays, GoodStays DEF InTime
  <2>3. p.pc = "renew" => Signing(k, p, Good')
    BY <1>1, <1>2, <1>3, <1>6, SigningStays DEF InTime
  <2>4. p.attached => p.token \in Good'
    BY <1>1, <1>6, GoodStays DEF InTime
  <2>5. p.pc = "asked" /\ p.attached /\ ~AsksSecret(Head(p.left).call) => Carrying(k, p)
    BY <1>1, <1>2, <1>3, <1>6, CarryingStays DEF InTime
  <2> QED
    BY <1>3, <1>4, <2>1, <2>2, <2>3, <2>4, <2>5 DEF InTime, Waiting
<1> QED
  BY <1>1, <1>2, <1>3, <1>5, <1>6, TokenKept DEF p

(* Once time passes, or a server dies, every command is late. *)
LEMMA ElsewhereToken ==
  ASSUME CommandInv, TokenInv, UNCHANGED proc, Tick \/ \E s \in Servers : Crash(s)
  PROVE  TokenInv'
<1>1. ASSUME NEW v \in Workers PROVE Delayed(v)'
  <2>1. proc[v] \in Process /\ InStep(proc[v]) /\ now \in Nat /\ crashes \in Nat
    BY DEF CommandInv, SInv, DirectoryOK
  <2>2. now' = now + 1 \/ crashes' = crashes + 1
    BY DEF Tick, Crash
  <2>3. proc[v].began[1] # now' \/ proc[v].began[2] # crashes'
    BY <2>1, <2>2 DEF Process, InStep
  <2>4. proc[v].began # <<now', crashes'>>
    BY <2>3
  <2> QED
    BY <2>4 DEF Delayed
<1> QED
  BY <1>1 DEF TokenInv

(* No step gets the token of a command in time refused. *)
LEMMA TokenNext ==
  ASSUME TokensFirst, OwnInv, CommandInv, TokenInv, [ClientNext]_allVars
  PROVE  TokenInv'
<1>1. CASE UNCHANGED allVars
  <2>1. UNCHANGED <<job, proc, now, crashes, issued>>
    BY <1>1 DEF allVars, vars, commandVars
  <2> QED
    BY <2>1 DEF TokenInv, InOrder, InTime, Delayed, Vouching, Signing, Carrying, Good, Valid
<1>2. ASSUME NEW w \in Workers, CommandStep(w) PROVE TokenInv'
  BY <1>2, TokenStepsToken, CacheStepsToken, CallStepsToken, HandlerToken DEF CommandStep
<1>3. ASSUME NEW w \in Workers, NEW c \in Offered[w], Begin(w, c) PROVE TokenInv'
  BY <1>3, BeginToken
<1>4. CASE /\ Tick \/ \E s \in Servers : Crash(s)
           /\ UNCHANGED <<past, commandVars>>
  BY <1>4, ElsewhereToken DEF commandVars
<1> QED
  BY <1>1, <1>2, <1>3, <1>4 DEF ClientNext

(* Nobody has begun anything. *)
LEMMA TokenInit == ClientInit => TokenInv
BY DEF ClientInit, TokenInv, Idle, InOrder, TokenFirst

(* What the invariant says of the commands that have ended. *)
LEMMA TokenRefused ==
  ASSUME TokenInv
  PROVE  RefusedOnlyByTime
<1> SUFFICES ASSUME NEW w \in Workers, proc[w].pc = "ended", proc[w].attached,
                    proc[w].reply \in Refusals,
                    Head(proc[w].left).do = "call" =>
                      Head(proc[w].left).call.rpcs[1].access # "secret"
             PROVE  proc[w].began # <<now, crashes>>
  BY DEF RefusedOnlyByTime, Refusals
<1>1. /\ proc[w].left # <<>> /\ Head(proc[w].left).do = "call"
      => ~AsksSecret(Head(proc[w].left).call)
  BY DEF AsksSecret
<1>2. ~InTime(proc[w], job[w], Good)
  BY <1>1 DEF InTime
<1> QED
  BY <1>2 DEF TokenInv, Delayed

-----------------------------------------------------------------------------
(* The commands that are about nobody else than user x, whose secret is s, *)
OwnCommand(l, x, s) ==
  l \in {Cmd!authCheckRun(x, s), Cmd!authDestroyTokenRun, Cmd!authGetTokenRun,
         Cmd!authInspectTokenRun, Cmd!authValidateTokenRun, Cmd!entitySearchRun,
         Cmd!groupSearchRun, Cmd!systemPingRun, Cmd!systemStatusRun}

(* What is typed for action, once it is accepted. *)
Typed(known) == {action \in STRING : Cmd!Lib!Upper(action) \in known}
UMTyped == Typed({"UPSERT", "CLEARFUZZY", "CLEAREXACT", "READ"})

(* ... the commands about entity y, ...                                    *)
EntityCommand(l, x, s, y) ==
  \/ l \in {Cmd!entityDestroyRun(y), Cmd!entityInfoRun(y), Cmd!entityLockRun(y),
            Cmd!entityMembershipsRun(y), Cmd!entityUnlockRun(y)}
  \/ \E new \in Secrets \cup {NoSecret} :
       \/ l = Cmd!authChangeSecretRun(x, s, y, new)
       \/ \E i \in Numbers : l = Cmd!entityCreateRun(y, new, i)
  \/ \E m \in Meta : l = Cmd!entityUpdateRun(y, m)
  \/ \E a \in Typed({"ADD", "DROP", "READ"}), k \in Keys : l = Cmd!entityKeysRun(y, a, k)
  \/ \E a \in UMTyped, k \in MetaKeys, v \in Values : l = Cmd!entityKVRun(y, a, k, v)
  \/ \E a \in Typed({"ADD", "DROP"}), n \in Groups : l = Cmd!entityMembershipRun(y, a, n)
  \/ \E a \in Typed({"ADD", "DROP"}) : \E cap :
       l = Cmd!systemCapabilitiesRun(y, a, cap, TRUE)
  \/ \E k \in KVKeys, v \in Values :
       l \in {Cmd!kv2AddRun("entity", y, k, v), Cmd!kv2DelRun("entity", y, k, v),
              Cmd!kv2GetRun("entity", y, k), Cmd!kv2ReplaceRun("entity", y, k, v)}

(* ... and those about group n.                                            *)
GroupCommand(l, n) ==
  \/ l \in {Cmd!groupDestroyRun(n), Cmd!groupInfoRun(n), Cmd!groupMembersRun(n)}
  \/ \E t \in Values \cup {NoText}, by \in Groups \cup {Unmanaged, Absent} :
       \/ \E num \in Numbers : l = Cmd!groupCreateRun(n, t, by, num)
       \/ l = Cmd!groupUpdateRun(n, t, by)
  \/ \E a \in Typed({"INCLUDE", "EXCLUDE", "DROP"}), target \in Groups :
       l = Cmd!groupRuleRun(n, a, target)
  \/ \E a \in UMTyped, k \in MetaKeys, v \in Values : l = Cmd!groupKVRun(n, a, k, v)
  \/ \E a \in Typed({"ADD", "DROP"}) : \E cap :
       l = Cmd!systemCapabilitiesRun(n, a, cap, FALSE)
  \/ \E k \in KVKeys, v \in Values :
       l \in {Cmd!kv2AddRun("group", n, k, v), Cmd!kv2DelRun("group", n, k, v),
              Cmd!kv2GetRun("group", n, k), Cmd!kv2ReplaceRun("group", n, k, v)}

(* Users are entities, and run the commands of the program, with arguments *)
(* that it accepts.                                                        *)
CommandsOffered ==
  \A w \in Workers : \A c \in Offered[w] :
    /\ c.as \in Entities /\ c.secret \in Secrets \cup {NoSecret}
    /\ \/ OwnCommand(c.steps, c.as, c.secret)
       \/ \E y \in Entities : EntityCommand(c.steps, c.as, c.secret, y)
       \/ \E n \in Groups : GroupCommand(c.steps, n)

(* Answers that are no refusal. *)
Mild == {IfDuplicate, IfUnknown, IfNoKey, IfKeyExists, Anyhow}

(* None of them is "malformed" or "unauthenticated". *)
LEMMA MildAnswers ==
  \A answers \in Mild : \A e \in DOMAIN answers : answers[e] \notin Refusals
BY DEF Mild, Refusals, IfDuplicate, IfUnknown, IfNoKey, IfKeyExists, Anyhow

(* A method for those who hold a capability, ... *)
LEMMA GuardedServed ==
  ASSUME NEW cap, NEW c, c.answers \in Mild
  PROVE  Served(Guarded(cap, c))
<1> DEFINE h == Guarded(cap, c)
<1>1. h.access = "capability" /\ h.calls = <<c>>
  BY DEF Guarded, Handler
<1> HIDE DEF h
<1>2. \A i \in DOMAIN h.calls : h.calls[i].answers \in Mild
  BY <1>1
<1> QED
  BY <1>1, <1>2, MildAnswers DEF Served, h

(* One call, by whoever may make it. *)
LEMMA SingleServed ==
  ASSUME NEW access, access # "malformed", NEW cap, NEW x, NEW c, c.answers \in Mild
  PROVE  Served(Handler(access, cap, x, <<c>>))
<1> DEFINE h == Handler(access, cap, x, <<c>>)
<1>1. h.access # "malformed" /\ h.calls = <<c>>
  BY DEF Handler
<1> HIDE DEF h
<1>2. \A i \in DOMAIN h.calls : h.calls[i].answers \in Mild
  BY <1>1
<1> QED
  BY <1>1, <1>2, MildAnswers DEF Served, h

(* The changes that a token serves. *)
LEMMA EntitiesServed ==
  ASSUME NEW x
  PROVE  /\ Served(EntityDestroy(x)) /\ Served(EntityLock(x)) /\ Served(EntityUnlock(x))
         /\ \A n, s : Served(EntityCreate(x, n, s))
         /\ \A m : Served(EntityUpdate(x, m))
         /\ \A k, v : /\ Served(EntityKVAdd(x, k, v)) /\ Served(EntityKVDel(x, k, v))
                      /\ Served(EntityKVReplace(x, k, v))
<1>1. \A r, answers : EntityCall(r, answers).answers = answers
  BY DEF EntityCall
<1> QED
  BY <1>1, GuardedServed DEF Mild, EntityDestroy, EntityLock, EntityUnlock, EntityCreate,
     EntityUpdate, EntityKVAdd, EntityKVDel, EntityKVReplace

(* ... those that go by an action, or by a list of groups, ... *)
LEMMA EntityEditsServed ==
  /\ \A x, k, v : \A a \in UMActions : Served(EntityUM(x, a, k, v))
  /\ \A x, k : \A a \in {"ADD", "DROP"} : Served(EntityKeys(x, a, k))
  /\ \A x : \A n : Served(GroupAddMember(x, <<n>>)) /\ Served(GroupDelMember(x, <<n>>))
<1>1. \A r, answers : EntityCall(r, answers).answers = answers
  BY DEF EntityCall
<1>2. ASSUME NEW x, NEW k, NEW v, NEW a \in UMActions PROVE Served(EntityUM(x, a, k, v))
  <2>1. a # "READ"
    BY DEF UMActions
  <2>2. PICK chain : EntityUM(x, a, k, v) =
          Guarded("MODIFY_ENTITY_META",
                  EntityCall(ManageUntypedEntityMeta(chain, x, k, v), IfUnknown))
    BY <2>1 DEF EntityUM
  <2> QED
    BY <1>1, <2>2, GuardedServed DEF Mild
<1>3. ASSUME NEW x, NEW k, NEW a \in {"ADD", "DROP"} PROVE Served(EntityKeys(x, a, k))
  <2>1. PICK chain : EntityKeys(x, a, k) =
          Handler("or-self", "MODIFY_ENTITY_KEYS", x,
                  <<EntityCall(UpdateEntityKeys(chain, x, k), IfUnknown)>>)
    BY DEF EntityKeys
  <2> QED
    BY <1>1, <2>1, SingleServed DEF Mild
<1>4. ASSUME NEW x, NEW n, NEW h \in {GroupAddMember(x, <<n>>), GroupDelMember(x, <<n>>)}
      PROVE  Served(h)
  <2>1. PICK chain : h = Managed("MODIFY_GROUP_MEMBERS", NoID,
          [i \in DOMAIN <<n>> |-> EntityCall(ManageDirectGroup(chain, x, <<n>>[i]), Anyhow)])
    BY DEF GroupAddMember, GroupDelMember
  <2> DEFINE cs == [i \in DOMAIN <<n>> |->
                     EntityCall(ManageDirectGroup(chain, x, <<n>>[i]), Anyhow)]
  <2>2. \A i \in DOMAIN cs : cs[i].answers \in Mild
    BY <1>1 DEF Mild
  <2>3. h.access = "manager" /\ h.calls = cs
    BY <2>1 DEF Managed, Handler
  <2> HIDE DEF cs
  <2> QED
    BY <2>2, <2>3, MildAnswers DEF Served
<1> QED
  BY <1>2, <1>3, <1>4

(* ... those of groups, ... *)
LEMMA GroupsServed ==
  ASSUME NEW n
  PROVE  /\ Served(GroupDestroy(n))
         /\ \A t, by, num : Served(GroupCreate(n, t, by, num)) /\ Served(GroupUpdate(n, t, by))
         /\ \A k, v : /\ Served(GroupKVAdd(n, k, v)) /\ Served(GroupKVDel(n, k, v))
                      /\ Served(GroupKVReplace(n, k, v))
         /\ \A target, a : Served(GroupUpdateRules(n, target, a))
<1>1. \A r, answers : GroupCall(r, answers).answers = answers
  BY DEF GroupCall
<1> QED
  BY <1>1, GuardedServed, SingleServed
     DEF Mild, GroupDestroy, GroupCreate, GroupUpdate, GroupKVAdd, GroupKVDel, GroupKVReplace,
         GroupUpdateRules, Managed

(* ... and the rest, if the action is one that the method knows. *)
LEMMA OthersServed ==
  /\ \A n, k, v : \A a \in UMActions : Served(GroupUM(n, a, k, v))
  /\ Served(AuthValidateToken)
  /\ \A direct, target, cap : \A a \in {"ADD", "DROP"} :
       target # NoID => Served(SystemCapabilities(direct, a, target, cap))
<1>1. \A r, answers : /\ GroupCall(r, answers).answers = answers
                      /\ EntityCall(r, answers).answers = answers
  BY DEF GroupCall, EntityCall
<1>2. ASSUME NEW n, NEW k, NEW v, NEW a \in UMActions PROVE Served(GroupUM(n, a, k, v))
  <2>1. a # "READ"
    BY DEF UMActions
  <2>2. PICK chain : GroupUM(n, a, k, v) =
          Managed("MODIFY_GROUP_META", n,
                  <<GroupCall(ManageUntypedGroupMeta(chain, n, k, v), IfUnknown)>>)
    BY <2>1 DEF GroupUM
  <2> QED
    BY <1>1, <2>2, SingleServed DEF Mild, Managed
<1>3. Served(AuthValidateToken)
  BY DEF Served, AuthValidateToken, Handler
<1>4. ASSUME NEW direct, NEW target, NEW cap, NEW a \in {"ADD", "DROP"}, target # NoID
      PROVE  Served(SystemCapabilities(direct, a, target, cap))
  <2>1. PICK c, r : /\ SystemCapabilities(direct, a, target, cap) = Guarded("GLOBAL_ROOT", c)
                    /\ c \in {EntityCall(r, Anyhow), GroupCall(r, Anyhow)}
    BY <1>4 DEF SystemCapabilities
  <2> QED
    BY <1>1, <2>1, GuardedServed DEF Mild
<1> QED
  BY <1>2, <1>3, <1>4

(* A command as the library and the servers take it. *)
Accepted(l) ==
  /\ TokenFirst(l)
  /\ \A i \in DOMAIN l : l[i].do = "call" => LibraryCall(l[i].call)

(* The kinds of steps are told apart. *)
LEMMA StepKinds ==
  /\ Cmd!Token.do = "token" /\ Cmd!Renew.do = "renew"
  /\ Cmd!Drop.do = "drop" /\ Cmd!Inspect.do = "inspect"
  /\ \A c : Cmd!Do(c).do = "call" /\ Cmd!Do(c).call = c
BY DEF Cmd!Token, Cmd!Renew, Cmd!Drop, Cmd!Inspect, Cmd!Do

(* A call by itself asks for no token, ... *)
LEMMA AnonymousAccepted ==
  ASSUME NEW c, LibraryCall(c)
  PROVE  Accepted(Cmd!Anonymously(c))
<1> DEFINE d == Cmd!Do(c)
<1>1. d.do = "call" /\ d.call = c
  BY StepKinds
<1>2. Cmd!Anonymously(c) = <<d>>
  BY DEF Cmd!Anonymously
<1> HIDE DEF d
<1> QED
  BY <1>1, <1>2 DEF Accepted, TokenFirst

(* ... and one that a token serves may follow it. *)
LEMMA WithTokenAccepted ==
  ASSUME NEW c, LibraryCall(c), CallServed(c)
  PROVE  Accepted(Cmd!WithToken(c))
<1> DEFINE d == Cmd!Do(c)
           t == Cmd!Token
<1>1. d.do = "call" /\ d.call = c /\ t.do = "token"
  BY StepKinds
<1>2. Cmd!WithToken(c) = <<t, d>>
  BY DEF Cmd!WithToken
<1> HIDE DEF d, t
<1>3. TokenServes(d)
  BY <1>1 DEF TokenServes
<1>4. TokenFirst(<<t, d>>)
  BY <1>3 DEF TokenFirst
<1> QED
  BY <1>1, <1>2, <1>4 DEF Accepted

(* What goes by an action needs a token unless it is to read. *)
LEMMA ChangeAccepted ==
  ASSUME NEW c, LibraryCall(c), NEW action,
         Cmd!Lib!Upper(action) # "READ" => CallServed(c)
  PROVE  Accepted(Cmd!ToChange(action, c))
BY AnonymousAccepted, WithTokenAccepted DEF Cmd!ToChange

(* Calls of one request that a token serves. *)
LEMMA OneServed ==
  ASSUME NEW h, Served(h)
  PROVE  /\ CallServed(Cmd!Lib!Plain(h)) /\ CallServed(Cmd!Lib!OnMaster(h))
         /\ \A a, known : CallServed(Cmd!Lib!IfKnown(a, known, h))
         /\ \A a : CallServed(Cmd!Lib!ByAction(a, h))
<1> DEFINE S == {<<h>>, <<>>}
<1>1. ASSUME NEW c, c.rpcs \in S PROVE CallServed(c)
  <2>1. \A i \in DOMAIN c.rpcs : c.rpcs[i] = h
    BY <1>1
  <2> QED
    BY <2>1 DEF CallServed
<1>2. Cmd!Lib!Plain(h).rpcs \in S /\ Cmd!Lib!OnMaster(h).rpcs \in S
  BY DEF Cmd!Lib!Plain, Cmd!Lib!OnMaster
<1>3. \A a, known : Cmd!Lib!IfKnown(a, known, h).rpcs \in S
  BY DEF Cmd!Lib!IfKnown
<1>4. \A a : Cmd!Lib!ByAction(a, h).rpcs \in S
  BY DEF Cmd!Lib!ByAction, Cmd!Lib!IfKnown
<1> HIDE DEF S
<1>5. CallServed(Cmd!Lib!Plain(h)) /\ CallServed(Cmd!Lib!OnMaster(h))
  BY <1>1, <1>2
<1>6. \A a, known : CallServed(Cmd!Lib!IfKnown(a, known, h))
  BY <1>1, <1>3
<1>7. \A a : CallServed(Cmd!Lib!ByAction(a, h))
  BY <1>1, <1>4
<1> QED
  BY <1>5, <1>6, <1>7

(* An action that the protocol does not know is never sent. *)
LEMMA UnknownServed ==
  ASSUME NEW a, NEW known, a \notin known, NEW h
  PROVE  CallServed(Cmd!Lib!IfKnown(a, known, h))
<1> DEFINE c == Cmd!Lib!IfKnown(a, known, h)
<1>1. c.rpcs = <<>>
  BY DEF Cmd!Lib!IfKnown
<1> HIDE DEF c
<1>2. DOMAIN c.rpcs = {}
  BY <1>1
<1>3. CallServed(c)
  BY <1>2, Zenon DEF CallServed
<1> QED
  BY <1>3 DEF c

(* A change of a secret has the old one checked. *)
LEMMA SecretAsked ==
  ASSUME NEW x, NEW s, NEW old
  PROVE  AsksSecret(Cmd!Lib!AuthChangeSecret(x, s, old))
<1> DEFINE h == AuthChangeSecret(x, old, s)
           c == Cmd!Lib!AuthChangeSecret(x, s, old)
<1>1. c.rpcs = <<h>>
  BY SameEntityChoices DEF Cmd!Lib!AuthChangeSecret, Cmd!Lib!OnMaster
<1>2. h.access = "secret"
  BY DEF AuthChangeSecret, Handler
<1> HIDE DEF h, c
<1>3. c.rpcs # <<>> /\ c.rpcs[1] = h
  BY <1>1
<1>4. AsksSecret(c)
  BY <1>2, <1>3 DEF AsksSecret
<1> QED
  BY <1>4 DEF c

(* The commands of a user's own, ... *)
LEMMA OwnAccepted ==
  ASSUME NEW x \in Entities, NEW s \in Secrets \cup {NoSecret}, NEW l, OwnCommand(l, x, s)
  PROVE  Accepted(l)
<1>1. CASE l = Cmd!authCheckRun(x, s)
  <2>1. LibraryCall(Cmd!Lib!AuthEntity(x, s))
    BY DEF LibraryCall, EntityLibraryCall
  <2> QED
    BY <1>1, <2>1, AnonymousAccepted DEF Cmd!authCheckRun
<1>2. CASE l \in {Cmd!entitySearchRun, Cmd!groupSearchRun, Cmd!systemPingRun,
                  Cmd!systemStatusRun}
  <2>1. PICK c \in {Cmd!Lib!EntitySearch, Cmd!Lib!GroupSearch, Cmd!Lib!SystemPing,
                    Cmd!Lib!SystemStatus} : l = Cmd!Anonymously(c)
    BY <1>2 DEF Cmd!entitySearchRun, Cmd!groupSearchRun, Cmd!systemPingRun,
                Cmd!systemStatusRun
  <2> QED
    BY <2>1, AnonymousAccepted DEF LibraryCall
<1>3. CASE l = Cmd!authValidateTokenRun
  <2>1. Cmd!Lib!AuthValidateToken = Cmd!Lib!Plain(AuthValidateToken)
    BY SameOthers DEF Cmd!Lib!AuthValidateToken
  <2>2. CallServed(Cmd!Lib!AuthValidateToken)
    BY <2>1, OthersServed, OneServed
  <2> QED
    BY <1>3, <2>2, WithTokenAccepted DEF LibraryCall, Cmd!authValidateTokenRun
<1>4. ASSUME NEW t, t.do \in {"drop", "renew"}, l = <<t>> PROVE Accepted(l)
  <2>1. \A i \in DOMAIN l : l[i].do \in {"drop", "renew"}
    BY <1>4
  <2> QED
    BY <2>1 DEF Accepted, TokenFirst
<1>5. CASE l = Cmd!authInspectTokenRun
  <2> DEFINE t == Cmd!Token
             i == Cmd!Inspect
  <2>1. l = <<t, i>> /\ t.do = "token" /\ i.do = "inspect"
    BY <1>5, StepKinds DEF Cmd!authInspectTokenRun
  <2> HIDE DEF t, i
  <2>2. TokenServes(i)
    BY <2>1 DEF TokenServes
  <2> QED
    BY <2>1, <2>2 DEF Accepted, TokenFirst
<1>6. CASE l \in {Cmd!authDestroyTokenRun, Cmd!authGetTokenRun}
  BY <1>4, <1>6, StepKinds DEF Cmd!authDestroyTokenRun, Cmd!authGetTokenRun
<1> QED
  BY <1>1, <1>2, <1>3, <1>5, <1>6 DEF OwnCommand

(* A change of a secret: a new token, then the old one checked with it. *)
LEMMA SecretAccepted ==
  ASSUME NEW x, NEW y \in Entities, NEW s \in Secrets \cup {NoSecret},
         NEW new \in Secrets \cup {NoSecret}
  PROVE  Accepted(Cmd!authChangeSecretRun(x, s, y, new))
<1> DEFINE old == IF y = x THEN s ELSE NoSecret
           c == Cmd!Lib!AuthChangeSecret(y, new, old)
           d == Cmd!Do(c)
           t == Cmd!Token
           r == Cmd!Renew
           l == Cmd!authChangeSecretRun(x, s, y, new)
<1>1. l = <<r, t, d>>
  BY DEF Cmd!authChangeSecretRun
<1>2. d.do = "call" /\ d.call = c /\ t.do = "token" /\ r.do = "renew"
  BY StepKinds
<1>3. LibraryCall(c)
  BY DEF LibraryCall, EntityLibraryCall
<1>4. CallServed(c)
  BY SecretAsked DEF CallServed
<1> HIDE DEF c, d, t, r, l
<1>5. TokenServes(d)
  BY <1>2, <1>4 DEF TokenServes
<1>6. DOMAIN l = 1 .. 3 /\ l[1] = r /\ l[2] = t /\ l[3] = d
  BY <1>1
<1>7. \A i, k \in DOMAIN l : i < k /\ l[i].do = "token" => i = 2 /\ k = 3
  BY <1>2, <1>6
<1>8. TokenFirst(l)
  BY <1>5, <1>6, <1>7 DEF TokenFirst
<1>9. \A i \in DOMAIN l : l[i].do = "call" => i = 3
  BY <1>2, <1>6
<1>10. Accepted(l)
  BY <1>2, <1>3, <1>6, <1>8, <1>9 DEF Accepted
<1> QED
  BY <1>10 DEF l

(* What is typed in the place of an action. *)
LEMMA TypedActions ==
  /\ \A a \in Typed({"ADD", "DROP", "READ"}) :
       a \in STRING /\ Cmd!Lib!Upper(a) \in {"ADD", "DROP", "READ"}
  /\ \A a \in UMTyped :
       a \in STRING /\ Cmd!Lib!Upper(a) \in UMActions \cup {"READ"}
BY DEF Typed, UMTyped, UMActions

(* The changes that commands make of entities, ... *)
LEMMA EntityWritesServed ==
  ASSUME NEW x
  PROVE  /\ CallServed(Cmd!Lib!EntityDestroy(x)) /\ CallServed(Cmd!Lib!EntityLock(x))
         /\ CallServed(Cmd!Lib!EntityUnlock(x))
         /\ \A n, s : CallServed(Cmd!Lib!EntityCreate(x, n, s))
         /\ \A m : CallServed(Cmd!Lib!EntityUpdate(x, m))
         /\ \A k, v : /\ CallServed(Cmd!Lib!EntityKVAdd(x, k, v))
                      /\ CallServed(Cmd!Lib!EntityKVDel(x, k, v))
                      /\ CallServed(Cmd!Lib!EntityKVReplace(x, k, v))
         /\ \A n : /\ CallServed(Cmd!Lib!GroupAddMember(n, x))
                   /\ CallServed(Cmd!Lib!GroupDelMember(n, x))
BY EntitiesServed, EntityEditsServed, SameEntityWrites, SameEntityChoices, OneServed
   DEF Cmd!Lib!EntityDestroy, Cmd!Lib!EntityLock, Cmd!Lib!EntityUnlock, Cmd!Lib!EntityCreate,
       Cmd!Lib!EntityUpdate, Cmd!Lib!EntityKVAdd, Cmd!Lib!EntityKVDel, Cmd!Lib!EntityKVReplace,
       Cmd!Lib!GroupAddMember, Cmd!Lib!GroupDelMember

(* ... and of groups, with a token. *)
LEMMA GroupWritesServed ==
  ASSUME NEW n
  PROVE  /\ CallServed(Cmd!Lib!GroupDestroy(n))
         /\ \A t, by, num : /\ CallServed(Cmd!Lib!GroupCreate(n, t, by, num))
                            /\ CallServed(Cmd!Lib!GroupUpdate(n, t, by))
         /\ \A k, v : /\ CallServed(Cmd!Lib!GroupKVAdd(n, k, v))
                      /\ CallServed(Cmd!Lib!GroupKVDel(n, k, v))
                      /\ CallServed(Cmd!Lib!GroupKVReplace(n, k, v))
         /\ \A a, target : CallServed(Cmd!Lib!GroupUpdateRules(n, a, target))
BY GroupsServed, SameGroupMethods, OneServed
   DEF Cmd!Lib!GroupDestroy, Cmd!Lib!GroupCreate, Cmd!Lib!GroupUpdate, Cmd!Lib!GroupKVAdd,
       Cmd!Lib!GroupKVDel, Cmd!Lib!GroupKVReplace, Cmd!Lib!GroupUpdateRules

(* A call that is made by its action, unless it is to read. *)
LEMMA ChoicesServed ==
  /\ \A x, k, v : \A a \in UMTyped : Cmd!Lib!Upper(a) # "READ" =>
       CallServed(Cmd!Lib!EntityUM(x, a, k, v)) /\ CallServed(Cmd!Lib!GroupUM(x, a, k, v))
  /\ \A x, k : \A a \in Typed({"ADD", "DROP", "READ"}) : Cmd!Lib!Upper(a) # "READ" =>
       CallServed(Cmd!Lib!EntityKeys(x, a, k))
<1>1. ASSUME NEW x, NEW k, NEW v, NEW a \in UMTyped, Cmd!Lib!Upper(a) # "READ"
      PROVE  CallServed(Cmd!Lib!EntityUM(x, a, k, v)) /\ CallServed(Cmd!Lib!GroupUM(x, a, k, v))
  <2>1. PICK b : b = Cmd!Lib!Upper(a)
    OBVIOUS
  <2>2. b \in UMActions
    BY <1>1, <2>1, TypedActions
  <2>3. Served(EntityUM(x, b, k, v)) /\ Served(GroupUM(x, b, k, v))
    BY <2>2, EntityEditsServed, OthersServed
  <2>4. /\ Cmd!Lib!EntityUM(x, a, k, v) = Cmd!Lib!ByAction(b, EntityUM(x, b, k, v))
        /\ Cmd!Lib!GroupUM(x, a, k, v) = Cmd!Lib!ByAction(b, GroupUM(x, b, k, v))
    BY <2>1, SameEntityChoices, SameGroupMethods DEF Cmd!Lib!EntityUM, Cmd!Lib!GroupUM
  <2> QED
    BY <2>3, <2>4, OneServed
<1>2. ASSUME NEW x, NEW k, NEW a \in Typed({"ADD", "DROP", "READ"}), Cmd!Lib!Upper(a) # "READ"
      PROVE  CallServed(Cmd!Lib!EntityKeys(x, a, k))
  <2>1. PICK b : b = Cmd!Lib!Upper(a)
    OBVIOUS
  <2>2. b \in {"ADD", "DROP"}
    BY <1>2, <2>1, TypedActions
  <2>3. Served(EntityKeys(x, b, k))
    BY <2>2, EntityEditsServed
  <2>4. Cmd!Lib!EntityKeys(x, a, k) = Cmd!Lib!ByAction(b, EntityKeys(x, b, k))
    BY <2>1, SameEntityChoices DEF Cmd!Lib!EntityKeys
  <2> QED
    BY <2>3, <2>4, OneServed
<1> QED
  BY <1>1, <1>2

(* The action of a change of capabilities is sent as it is typed; what the *)
(* protocol does not know is refused before.                               *)
LEMMA CapabilitiesServed ==
  ASSUME NEW target, target # NoID, NEW cap, NEW direct,
         NEW a \in Typed({"ADD", "DROP"})
  PROVE  CallServed(Cmd!Lib!SystemCapabilities(target, a, cap, direct))
<1> DEFINE h == SystemCapabilities(direct, a, target, cap)
<1>1. PICK known \in SUBSET Cmd!Lib!Actions :
        Cmd!Lib!SystemCapabilities(target, a, cap, direct) = Cmd!Lib!IfKnown(a, known, h)
  BY SameOthers DEF Cmd!Lib!SystemCapabilities
<1>2. CASE a \in {"ADD", "DROP"}
  <2>1. Served(h)
    BY <1>2, OthersServed
  <2> QED
    BY <1>1, <2>1, OneServed
<1>3. CASE a \notin {"ADD", "DROP"}
  <2>1. a \notin Cmd!Lib!Actions
    BY <1>3 DEF Typed, Cmd!Lib!Upper, Cmd!Lib!Actions
  <2> QED
    BY <1>1, <2>1, UnknownServed
<1> QED
  BY <1>2, <1>3

(* ... those about an entity, ... *)
LEMMA EntityRunsAccepted ==
  ASSUME NEW x, NEW s \in Secrets \cup {NoSecret}, NEW y \in Entities, NEW l,
         EntityCommand(l, x, s, y)
  PROVE  Accepted(l)
<1>1. CASE l \in {Cmd!entityInfoRun(y), Cmd!entityMembershipsRun(y)}
  <2>1. PICK c \in {Cmd!Lib!EntityInfo(y), Cmd!Lib!EntityGroups(y)} : l = Cmd!Anonymously(c)
    BY <1>1 DEF Cmd!entityInfoRun, Cmd!entityMembershipsRun
  <2> QED
    BY <2>1, AnonymousAccepted DEF LibraryCall, EntityLibraryCall
<1>2. CASE l \in {Cmd!entityDestroyRun(y), Cmd!entityLockRun(y), Cmd!entityUnlockRun(y)}
  <2>1. PICK c \in {Cmd!Lib!EntityDestroy(y), Cmd!Lib!EntityLock(y), Cmd!Lib!EntityUnlock(y)} :
          l = Cmd!WithToken(c)
    BY <1>2 DEF Cmd!entityDestroyRun, Cmd!entityLockRun, Cmd!entityUnlockRun
  <2>2. LibraryCall(c)
    BY <2>1 DEF LibraryCall, EntityLibraryCall
  <2> QED
    BY <2>1, <2>2, WithTokenAccepted, EntityWritesServed
<1>3. ASSUME NEW new \in Secrets \cup {NoSecret}, NEW i \in Numbers,
             l = Cmd!entityCreateRun(y, new, i)
      PROVE  Accepted(l)
  <2>1. LibraryCall(Cmd!Lib!EntityCreate(y, i, new))
    BY DEF LibraryCall, EntityLibraryCall
  <2> QED
    BY <1>3, <2>1, WithTokenAccepted, EntityWritesServed DEF Cmd!entityCreateRun
<1>4. ASSUME NEW m \in Meta, l = Cmd!entityUpdateRun(y, m) PROVE Accepted(l)
  <2>1. LibraryCall(Cmd!Lib!EntityUpdate(y, m))
    BY DEF LibraryCall, EntityLibraryCall
  <2> QED
    BY <1>4, <2>1, WithTokenAccepted, EntityWritesServed DEF Cmd!entityUpdateRun
<1>5. ASSUME NEW a \in Typed({"ADD", "DROP", "READ"}), NEW k \in Keys,
             l = Cmd!entityKeysRun(y, a, k)
      PROVE  Accepted(l)
  <2>1. LibraryCall(Cmd!Lib!EntityKeys(y, a, k))
    BY TypedActions DEF LibraryCall, EntityLibraryCall
  <2> QED
    BY <1>5, <2>1, ChangeAccepted, ChoicesServed DEF Cmd!entityKeysRun
<1>6. ASSUME NEW a \in UMTyped, NEW k \in MetaKeys, NEW v \in Values,
             l = Cmd!entityKVRun(y, a, k, v)
      PROVE  Accepted(l)
  <2>1. LibraryCall(Cmd!Lib!EntityUM(y, a, k, v))
    BY TypedActions DEF LibraryCall, EntityLibraryCall
  <2> QED
    BY <1>6, <2>1, ChangeAccepted, ChoicesServed DEF Cmd!entityKVRun
<1>7. ASSUME NEW a \in Typed({"ADD", "DROP"}), NEW n \in Groups,
             l = Cmd!entityMembershipRun(y, a, n)
      PROVE  Accepted(l)
  <2>1. PICK c \in {Cmd!Lib!GroupAddMember(n, y), Cmd!Lib!GroupDelMember(n, y)} :
          l = Cmd!WithToken(c)
    <3>1. PICK b : b = Cmd!Lib!Upper(a)
      OBVIOUS
    <3>2. b = "ADD" \/ b = "DROP"
      BY <3>1 DEF Typed
    <3>3. CASE b = "ADD"
      BY <1>7, <3>1, <3>3 DEF Cmd!entityMembershipRun
    <3>4. CASE b = "DROP"
      BY <1>7, <3>1, <3>4 DEF Cmd!entityMembershipRun
    <3> QED
      BY <3>2, <3>3, <3>4
  <2>2. LibraryCall(c)
    BY <2>1 DEF LibraryCall, EntityLibraryCall
  <2> QED
    BY <2>1, <2>2, WithTokenAccepted, EntityWritesServed
<1>8. ASSUME NEW a \in Typed({"ADD", "DROP"}), NEW cap,
             l = Cmd!systemCapabilitiesRun(y, a, cap, TRUE)
      PROVE  Accepted(l)
  <2>1. LibraryCall(Cmd!Lib!SystemCapabilities(y, a, cap, TRUE))
    BY DEF LibraryCall, EntityLibraryCall, Typed
  <2>2. y # NoID
    BY ZeroValuesAssumption
  <2> QED
    BY <1>8, <2>1, <2>2, WithTokenAccepted, CapabilitiesServed DEF Cmd!systemCapabilitiesRun
<1>9. ASSUME NEW k \in KVKeys, NEW v \in Values,
             l \in {Cmd!kv2AddRun("entity", y, k, v), Cmd!kv2DelRun("entity", y, k, v),
                   Cmd!kv2ReplaceRun("entity", y, k, v)}
      PROVE  Accepted(l)
  <2>1. PICK c \in {Cmd!Lib!EntityKVAdd(y, k, v), Cmd!Lib!EntityKVDel(y, k, v),
                   Cmd!Lib!EntityKVReplace(y, k, v)} : l = Cmd!WithToken(c)
    BY <1>9 DEF Cmd!kv2AddRun, Cmd!kv2DelRun, Cmd!kv2ReplaceRun
  <2>2. LibraryCall(c)
    BY <2>1 DEF LibraryCall, EntityLibraryCall
  <2> QED
    BY <2>1, <2>2, WithTokenAccepted, EntityWritesServed
<1>10. ASSUME NEW k \in KVKeys, l = Cmd!kv2GetRun("entity", y, k)
       PROVE  Accepted(l)
  <2>1. LibraryCall(Cmd!Lib!EntityKVGet(y, k))
    BY DEF LibraryCall, EntityLibraryCall
  <2> QED
    BY <1>10, <2>1, AnonymousAccepted DEF Cmd!kv2GetRun
<1> QED
  BY <1>1, <1>2, <1>3, <1>4, <1>5, <1>6, <1>7, <1>8, <1>9, <1>10, SecretAccepted, Zenon
     DEF EntityCommand

(* ... and about a group. *)
LEMMA GroupRunsAccepted ==
  ASSUME NEW n \in Groups, NEW l, GroupCommand(l, n)
  PROVE  Accepted(l)
<1>1. CASE l \in {Cmd!groupInfoRun(n), Cmd!groupMembersRun(n)}
  <2>1. PICK c \in {Cmd!Lib!GroupInfo(n), Cmd!Lib!GroupMembers(n)} : l = Cmd!Anonymously(c)
    BY <1>1 DEF Cmd!groupInfoRun, Cmd!groupMembersRun
  <2> QED
    BY <2>1, AnonymousAccepted DEF LibraryCall, GroupLibraryCall
<1>2. CASE l = Cmd!groupDestroyRun(n)
  <2>1. LibraryCall(Cmd!Lib!GroupDestroy(n))
    BY DEF LibraryCall, GroupLibraryCall
  <2> QED
    BY <1>2, <2>1, WithTokenAccepted, GroupWritesServed DEF Cmd!groupDestroyRun
<1>3. ASSUME NEW t \in Values \cup {NoText}, NEW by \in Groups \cup {Unmanaged, Absent},
             \/ \E num \in Numbers : l = Cmd!groupCreateRun(n, t, by, num)
             \/ l = Cmd!groupUpdateRun(n, t, by)
      PROVE  Accepted(l)
  <2>1. PICK c : /\ l = Cmd!WithToken(c)
                 /\ \/ \E num \in Numbers : c = Cmd!Lib!GroupCreate(n, t, by, num)
                    \/ c = Cmd!Lib!GroupUpdate(n, t, by)
    BY <1>3 DEF Cmd!groupCreateRun, Cmd!groupUpdateRun
  <2>2. LibraryCall(c)
    BY <2>1 DEF LibraryCall, GroupLibraryCall
  <2> QED
    BY <2>1, <2>2, WithTokenAccepted, GroupWritesServed
<1>4. ASSUME NEW a \in Typed({"INCLUDE", "EXCLUDE", "DROP"}), NEW target \in Groups,
             l = Cmd!groupRuleRun(n, a, target)
      PROVE  Accepted(l)
  <2>1. LibraryCall(Cmd!Lib!GroupUpdateRules(n, a, target))
    BY DEF LibraryCall, GroupLibraryCall, Typed
  <2> QED
    BY <1>4, <2>1, WithTokenAccepted, GroupWritesServed DEF Cmd!groupRuleRun
<1>5. ASSUME NEW a \in UMTyped, NEW k \in MetaKeys, NEW v \in Values,
             l = Cmd!groupKVRun(n, a, k, v)
      PROVE  Accepted(l)
  <2>1. LibraryCall(Cmd!Lib!GroupUM(n, a, k, v))
    BY TypedActions DEF LibraryCall, GroupLibraryCall
  <2> QED
    BY <1>5, <2>1, ChangeAccepted, ChoicesServed DEF Cmd!groupKVRun
<1>6. ASSUME NEW a \in Typed({"ADD", "DROP"}), NEW cap,
             l = Cmd!systemCapabilitiesRun(n, a, cap, FALSE)
      PROVE  Accepted(l)
  <2>1. LibraryCall(Cmd!Lib!SystemCapabilities(n, a, cap, FALSE))
    BY DEF LibraryCall, GroupLibraryCall, Typed
  <2>2. n # NoID
    BY GroupZeroValuesAssumption
  <2> QED
    BY <1>6, <2>1, <2>2, WithTokenAccepted, CapabilitiesServed DEF Cmd!systemCapabilitiesRun
<1>7. ASSUME NEW k \in KVKeys, NEW v \in Values,
             l \in {Cmd!kv2AddRun("group", n, k, v), Cmd!kv2DelRun("group", n, k, v),
                   Cmd!kv2ReplaceRun("group", n, k, v)}
      PROVE  Accepted(l)
  <2>1. PICK c \in {Cmd!Lib!GroupKVAdd(n, k, v), Cmd!Lib!GroupKVDel(n, k, v),
                   Cmd!Lib!GroupKVReplace(n, k, v)} : l = Cmd!WithToken(c)
    BY <1>7 DEF Cmd!kv2AddRun, Cmd!kv2DelRun, Cmd!kv2ReplaceRun
  <2>2. LibraryCall(c)
    BY <2>1 DEF LibraryCall, GroupLibraryCall
  <2> QED
    BY <2>1, <2>2, WithTokenAccepted, GroupWritesServed
<1>8. ASSUME NEW k \in KVKeys, l = Cmd!kv2GetRun("group", n, k)
      PROVE  Accepted(l)
  <2>1. LibraryCall(Cmd!Lib!GroupKVGet(n, k))
    BY DEF LibraryCall, GroupLibraryCall
  <2> QED
    BY <1>8, <2>1, AnonymousAccepted DEF Cmd!kv2GetRun
<1> QED
  BY <1>1, <1>2, <1>3, <1>4, <1>5, <1>6, <1>7, <1>8, Zenon DEF GroupCommand

(* The commands of the program agree with the library and the servers. *)
LEMMA OfferedAccepted ==
  ASSUME CommandsOffered
  PROVE  LibraryCalled /\ TokensFirst
<1>1. \A w \in Workers : \A c \in Offered[w] : Accepted(c.steps)
  BY OwnAccepted, EntityRunsAccepted, GroupRunsAccepted, Zenon DEF CommandsOffered
<1>2. TokensFirst
  BY <1>1 DEF Accepted, TokensFirst
<1>3. ASSUME NEW s \in Steps, s.do = "call" PROVE LibraryCall(s.call)
  <2>1. PICK w \in Workers : \E c \in Offered[w] : \E i \in DOMAIN c.steps : s = c.steps[i]
    BY DEF Steps
  <2>2. PICK c \in Offered[w] : \E i \in DOMAIN c.steps : s = c.steps[i]
    BY <2>1
  <2> QED
    BY <1>1, <1>3, <2>2 DEF Accepted
<1> QED
  BY <1>2, <1>3 DEF LibraryCalled, CommandsOffered

(* Once token() has returned, its token is refused only if time has passed *)
(* or a server has died since the command began: whatever commands the     *)
(* users run, however many share a cache, and whatever they do to the      *)
(* directory meanwhile (token, getToken, internal/ctl/helpers.go).         *)
THEOREM RefusedOnlyLate ==
  ASSUME CommandsOffered
  PROVE  ClientSpec => []RefusedOnlyByTime
<1>1. LibraryCalled /\ TokensFirst
  BY OfferedAccepted
<1>2. ClientSpec => [](OwnInv /\ CommandInv)
  BY <1>1, CommandsKeep
<1>3. OwnInv /\ CommandInv /\ TokenInv /\ [ClientNext]_allVars => TokenInv'
  BY <1>1, TokenNext
<1>4. ClientInit => TokenInv
  BY TokenInit
<1>5. TokenInv => RefusedOnlyByTime
  BY TokenRefused
<1> QED
  BY <1>2, <1>3, <1>4, <1>5, PTL DEF ClientSpec

=============================================================================
