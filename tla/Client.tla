------------------------------- MODULE Client -------------------------------
(***************************************************************************)
(* Users run commands against the servers of module Service: each command  *)
(* is a process of its own that shares the token cache with the others of  *)
(* its host, starts at the server that is closest and turns to the one     *)
(* that takes writes for its first change.  Worker w serves the requests   *)
(* of one such process at a time.                                          *)
(***************************************************************************)
EXTENDS Service

CONSTANTS
  Offered,       \* the commands that each process may run
  CoreServer,    \* core.server of the configuration, and core.master
  CoreMaster,
  FirstFiles,    \* the token cache to start from
  MaxCommands    \* bound on the number of commands of each process

Cmd == INSTANCE Commands

VARIABLES
  cache,   \* the files of the token cache: under an entity, a token
  proc,    \* the command of each process
  ran      \* commands started by each process

commandVars == <<cache, proc, ran>>
allVars     == <<vars, commandVars>>

(* A file that is not fully written holds no token. *)
IsCache(c) == DOMAIN c \subseteq Entities /\ c \in [DOMAIN c -> Token \cup {NoToken}]

ASSUME ClientAssumption ==
  /\ {CoreServer, CoreMaster} \subseteq Servers
  /\ CoreMaster \notin ReadOnly
  /\ IsCache(FirstFiles)
  /\ \A x \in DOMAIN FirstFiles : FirstFiles[x].entity = x
  /\ MaxCommands \in [Workers -> Nat]

(* The steps of all commands, and the requests that their calls make.      *)
Steps ==
  UNION {{c.steps[i] : i \in DOMAIN c.steps} : c \in UNION {Offered[w] : w \in Workers}}
Requested ==
  UNION {{s.call.rpcs[i] : i \in DOMAIN s.call.rpcs} : s \in {t \in Steps : t.do = "call"}}

(* Tokens are asked for by token() and its kin only (internal/ctl). *)
ASSUME CommandsAssumption ==
  /\ \A w \in Workers : \A c \in Offered[w] : c.steps \in Seq(Steps) \ {<<>>}
  /\ \A s \in Steps : s.do = "call" => s.call.rpcs \in Seq(Requested)
  /\ \A h \in Requested : h.then \in {"reply", "members"}

(* as and secret: who the user is, and the secret that is typed. began is  *)
(* history: the clock and the crashes when the command began.              *)
Idle ==
  [pc |-> "idle", as |-> NoID, secret |-> NoSecret, left |-> <<>>, rest |-> <<>>,
   server |-> CoreServer, read |-> NoToken, token |-> NoToken, attached |-> FALSE,
   reply |-> "none", began |-> <<0, 0>>]

Waiting == {"first", "second", "renew", "asked"}

ProcOK(p) ==
  /\ p.pc \in Waiting \cup {"idle", "ready", "put", "ended"}
  /\ p.as \in Entities \cup {NoID} /\ p.secret \in Secrets \cup {NoSecret}
  /\ p.server \in {CoreServer, CoreMaster}
  /\ {p.read, p.token} \subseteq Token \cup {NoToken}
  /\ p.reply \in Replies \cup {"refused", "unavailable"}
  /\ p.pc \notin {"idle", "ended"} => p.left # <<>>
  /\ p.began[1] <= now /\ p.began[2] <= crashes

(* A process has a request under way only while it waits for the answer.   *)
ClientTypeOK ==
  /\ TypeOK
  /\ IsCache(cache)
  /\ ran \in [Workers -> Nat]
  /\ \A w \in Workers :
       /\ ProcOK(proc[w])
       /\ job[w].pc # "idle" => proc[w].pc \in Waiting

ClientInit ==
  /\ Init
  /\ cache = FirstFiles
  /\ proc = [w \in Workers |-> Idle]
  /\ ran = [w \in Workers |-> 0]

-----------------------------------------------------------------------------
Turns(w, p) == proc' = [proc EXCEPT ![w] = p]

(* No request is under way after the step, or the one that it sends is.    *)
Quiet(w)        == Goes(w, IdleJob)
Send(w, s, h, t) == Goes(w, Incoming(s, h, t))

(* Variant: the answer is left behind. *)
EndsAlone(w, p, r) == UNCHANGED job /\ Turns(w, [p EXCEPT !.pc = "ended", !.reply = r])

Ends(w, p, r) == Quiet(w) /\ Turns(w, [p EXCEPT !.pc = "ended", !.reply = r])

(* The command goes on with its next step, if there is one. *)
Onward(p) ==
  IF Len(p.left) = 1 THEN [p EXCEPT !.pc = "ended", !.left = <<>>, !.reply = "ok"]
                     ELSE [p EXCEPT !.pc = "ready", !.left = Tail(@)]

Attach(p, t) == Onward([p EXCEPT !.token = t, !.attached = TRUE])

Answered(w) == job[w].pc \in {"idle", "done"}

(* A request that died with its server gets an error from gRPC. *)
Reply(w) == IF job[w].pc = "idle" THEN "unavailable" ELSE job[w].reply

AskForToken(w, p) ==
  /\ Send(w, p.server, AuthGetToken(p.as, p.secret), NoToken)
  /\ Turns(w, [p EXCEPT !.pc = "renew"])

AskIfValid(w, p, t, pc) ==
  /\ Send(w, p.server, AuthValidateToken, t)
  /\ Turns(w, [p EXCEPT !.pc = pc, !.read = t])

Doing(w, what) ==
  proc[w].pc = "ready" /\ Head(proc[w].left).do = what

Elsewhere == <<Storage, view, now, issued, served, crashes, past>>

-----------------------------------------------------------------------------
Begin(w, c) ==
  /\ proc[w].pc = "idle" /\ ran[w] < MaxCommands[w]
  /\ ran' = [ran EXCEPT ![w] = @ + 1]
  /\ Turns(w, [Idle EXCEPT !.pc = "ready", !.as = c.as, !.secret = c.secret,
                           !.left = c.steps, !.began = <<now, crashes>>])
  /\ UNCHANGED <<job, cache, Elsewhere>>

(* Variant: a token that is in the cache is used as it is. *)
FindTokenUnchecked(w) ==
  LET p == proc[w]
  IN  /\ Doing(w, "token")
      /\ IF p.as \in DOMAIN cache THEN Quiet(w) /\ Turns(w, Attach(p, cache[p.as]))
                                  ELSE AskForToken(w, p)
      /\ UNCHANGED <<cache, ran, Elsewhere>>

(* token(): a token of the cache is put to the server, ...                 *)
FindToken(w) ==
  LET p == proc[w]
  IN  /\ Doing(w, "token")
      /\ IF p.as \in DOMAIN cache THEN AskIfValid(w, p, cache[p.as], "first")
                                  ELSE AskForToken(w, p)
      /\ UNCHANGED <<cache, ran, Elsewhere>>

(* ... renewed if it is not valid, and put to the server once more if it   *)
(* is; if it is not valid then, the command goes on without a token.       *)
TokenChecked(w) ==
  LET p == proc[w]
      valid == Reply(w) = "ok"
  IN  /\ p.pc \in {"first", "second"} /\ Answered(w)
      /\ CASE p.pc = "first"  -> IF valid THEN AskIfValid(w, p, p.read, "second")
                                          ELSE AskForToken(w, p)
           [] p.pc = "second" -> /\ Quiet(w)
                                 /\ Turns(w, Attach(p, IF valid THEN p.read ELSE NoToken))
      /\ UNCHANGED <<cache, ran, Elsewhere>>

RenewToken(w) ==
  /\ Doing(w, "renew")
  /\ AskForToken(w, proc[w])
  /\ UNCHANGED <<cache, ran, Elsewhere>>

Stored(x, t) == [y \in DOMAIN cache \cup {x} |-> IF y = x THEN t ELSE cache[y]]

(* PutToken truncates the file of the owner, if there is one, ...          *)
TokenRenewed(w) ==
  LET p == proc[w]
  IN  /\ p.pc = "renew" /\ Answered(w)
      /\ IF Reply(w) # "ok"
           THEN Ends(w, p, Reply(w)) /\ UNCHANGED cache
           ELSE /\ Quiet(w)
                /\ Turns(w, [p EXCEPT !.pc = "put", !.read = job[w].token])
                /\ cache' = Stored(p.as, NoToken)
      /\ UNCHANGED <<ran, Elsewhere>>

(* Variant: the name of the file is the same for every owner. *)
WriteTokenForAll(w) ==
  LET p == proc[w]
  IN  /\ p.pc = "put"
      /\ cache' = [x \in Entities |-> p.read]
      /\ Turns(w, IF Head(p.left).do = "token" THEN Attach(p, p.read) ELSE Onward(p))
      /\ UNCHANGED <<job, ran, Elsewhere>>

(* ... and writes it.  The write may fail, or come after the file was      *)
(* removed or replaced: it leaves the cache as it is then.                 *)
WriteToken(w) ==
  LET p == proc[w]
  IN  /\ p.pc = "put"
      /\ \/ UNCHANGED cache
         \/ p.as \in DOMAIN cache /\ cache' = Stored(p.as, p.read)
      /\ Turns(w, IF Head(p.left).do = "token" THEN Attach(p, p.read) ELSE Onward(p))
      /\ UNCHANGED <<job, ran, Elsewhere>>

DropToken(w) ==
  LET p == proc[w]
  IN  /\ Doing(w, "drop")
      /\ cache' = [x \in DOMAIN cache \ {p.as} |-> cache[x]]
      /\ Turns(w, Onward(p))
      /\ UNCHANGED <<job, ran, Elsewhere>>

(* The claims are read with the key of the server, on the host. *)
InspectToken(w) ==
  LET p == proc[w]
  IN  /\ Doing(w, "inspect")
      /\ IF Valid(p.token) THEN Quiet(w) /\ Turns(w, Onward(p))
                           ELSE Ends(w, p, "unauthenticated")
      /\ UNCHANGED <<cache, ran, Elsewhere>>

(* A change is sent to the master, and so is everything after it. *)
CallLibrary(w) ==
  LET p == proc[w]
      c == Head(p.left).call
      s == IF c.master THEN CoreMaster ELSE p.server
  IN  /\ Doing(w, "call")
      /\ IF c.rpcs = <<>> THEN Ends(w, p, "refused")
         ELSE /\ Send(w, s, Head(c.rpcs), p.token)
              /\ Turns(w, [p EXCEPT !.pc = "asked", !.server = s, !.rest = Tail(c.rpcs)])
      /\ UNCHANGED <<cache, ran, Elsewhere>>

(* Variant: an answer from a server that died is waited for. *)
CallAnsweredOnly(w) ==
  LET p == proc[w]
      first == Len(p.rest) + 1 = Len(Head(p.left).call.rpcs)
  IN  /\ p.pc = "asked" /\ job[w].pc = "done"
      /\ IF first /\ Reply(w) # "ok" THEN Ends(w, p, Reply(w))
         ELSE IF p.rest = <<>> THEN Quiet(w) /\ Turns(w, Onward(p))
         ELSE /\ Send(w, p.server, Head(p.rest), p.token)
              /\ Turns(w, [p EXCEPT !.rest = Tail(@)])
      /\ UNCHANGED <<cache, ran, Elsewhere>>

(* The command ends with the error of the first request, if it has one. *)
CallAnswered(w) ==
  LET p == proc[w]
      first == Len(p.rest) + 1 = Len(Head(p.left).call.rpcs)
  IN  /\ p.pc = "asked" /\ Answered(w)
      /\ IF first /\ Reply(w) # "ok" THEN Ends(w, p, Reply(w))
         ELSE IF p.rest = <<>> THEN Quiet(w) /\ Turns(w, Onward(p))
         ELSE /\ Send(w, p.server, Head(p.rest), p.token)
              /\ Turns(w, [p EXCEPT !.rest = Tail(@)])
      /\ UNCHANGED <<cache, ran, Elsewhere>>

Exit(w) ==
  /\ proc[w].pc = "ended"
  /\ Turns(w, Idle)
  /\ UNCHANGED <<job, cache, ran, Elsewhere>>

-----------------------------------------------------------------------------
CommandStep(w) ==
  \/ FindToken(w) \/ TokenChecked(w) \/ RenewToken(w) \/ TokenRenewed(w)
  \/ WriteToken(w) \/ DropToken(w) \/ InspectToken(w)
  \/ CallLibrary(w) \/ CallAnswered(w) \/ Exit(w)
  \/ Progress(w) /\ UNCHANGED <<past, commandVars>>

ClientNext ==
  \/ \E w \in Workers : CommandStep(w)
  \/ \E w \in Workers : \E c \in Offered[w] : Begin(w, c)
  \/ /\ Tick \/ \E s \in Servers : Crash(s)
     /\ UNCHANGED <<past, commandVars>>

ClientSpec == ClientInit /\ [][ClientNext]_allVars

(* The system runs every process and every goroutine; nobody has to start  *)
(* a command.                                                              *)
FairClientSpec == ClientSpec /\ \A w \in Workers : WF_allVars(CommandStep(w))

-----------------------------------------------------------------------------
(* Nothing that a command does ends at a server that takes no writes: the  *)
(* methods of the library and the handlers agree on what is a change.      *)
WritesReachMaster ==
  \A w \in Workers : proc[w].pc = "ended" => proc[w].reply # "readonly"

(* Whatever token a request carries was issued to the entity that the      *)
(* command acts as, for all the commands that share the cache.             *)
CarriesOwnToken ==
  \A w \in Workers :
    job[w].token # NoToken => job[w].token.entity = proc[w].as

(* Once token() has returned, its token is refused only if time has passed *)
(* or a server has died since the command began: neither an old file nor   *)
(* one that another process is writing gets a command refused.  Secrets    *)
(* that do not match are refused likewise, hence the exception.            *)
RefusedOnlyByTime ==
  \A w \in Workers :
    LET p == proc[w]
    IN  /\ p.pc = "ended" /\ p.attached
        /\ p.reply \in {"malformed", "unauthenticated"}
        /\ Head(p.left).do = "call" => Head(p.left).call.rpcs[1].access # "secret"
        => p.began # <<now, crashes>>

(* Every command ends, whatever becomes of the servers. *)
CommandsEnd == \A w \in Workers : proc[w].pc # "idle" ~> proc[w].pc = "idle"

=============================================================================
