----------------------------- MODULE EntityTree -----------------------------
(***************************************************************************)
(* The entity half of the NetAuth server: concurrent requests run their    *)
(* chains hook by hook over a key/value store, with no lock around a       *)
(* chain, and every write fires the callbacks that keep the two in-memory  *)
(* copies (the membership resolver's direct groups and the search index)   *)
(* up to date.  A crash loses what is in memory; a restart rebuilds the    *)
(* copies from storage before it serves.                                   *)
(***************************************************************************)
EXTENDS EntityHooks

CONSTANTS
  Workers,       \* the goroutines that serve requests
  Requests,      \* the requests that clients make
  Searching,     \* whether clients search as well
  Populations,   \* what may be in storage when the server first starts
  Faults,        \* the calls of the back end and of the crypto that can fail
  StrictDelete,  \* whether the back end refuses to delete what is not there
  Exclusive,     \* whether clients keep conflicting requests apart
  MaxAutoNumber, \* bound: no number is assigned once one this large is stored
  MaxCrashes     \* bound on the number of crashes

ASSUME RequestsAssumption ==
  /\ Requests \subseteq Request
  /\ \A r \in Requests : r.chain \in MetaChains => r.de.meta # NoMeta

ASSUME PopulationsAssumption ==
  \A p \in Populations :
    /\ p \in [Entities -> Entity \cup {NoEntity}]
    /\ \A x \in Entities : p[x] # NoEntity => p[x].id = x

ASSUME OptionsAssumption ==
  /\ Searching \in BOOLEAN /\ StrictDelete \in BOOLEAN /\ Exclusive \in BOOLEAN
  /\ Faults \subseteq {"get", "put", "del", "secure"}
  /\ MaxAutoNumber \in Nat /\ MaxCrashes \in Nat

ASSUME NoEntityAssumption == NoEntity \notin Entity

VARIABLES
  store,     \* the entity stored under each ID, or NoEntity
  dm,        \* the resolver's direct groups of each ID, or NoEntity
  index,     \* the entity indexed under each ID, or NoEntity
  bootTodo,  \* callbacks that EventUpdateAll has still to make
  crashes,   \* crashes so far
  pc,        \* what each worker is doing
  req,       \* the request each worker serves
  at,        \* the position of the hook that each worker runs next
  e,         \* each worker's draft
  todo,      \* IDs a worker has still to load (to number, or after a search)
  largest,   \* the largest number a worker has found
  pending,   \* callbacks a worker's write has still to call
  current,   \* the callback a worker is in
  loaded,    \* what that callback loaded
  reply,     \* what the worker answers: "none", "ok" or an error
  seen,      \* history: what storage held for the worker's ID meanwhile
  raced      \* history: IDs last written while callbacks for them ran

stateVars  == <<store, dm, index, bootTodo, crashes>>
workerVars == <<pc, req, at, e, todo, largest, pending, current, loaded, reply>>
vars == <<stateVars, workerVars, seen, raced>>

-----------------------------------------------------------------------------
Callbacks == {"entity-resolver", "BleveSearch"}

(* A search is not a chain: it has a request of its own. *)
SearchRequest == [chain |-> "SEARCH"]
AnyRequest == Requests \cup {SearchRequest}

NoRequest == [chain |-> "NONE"]

Errors == {"unknown", "duplicate", "internal", "refused"}

(* The IDs that DiscoverEntityIDs returns. *)
Stored == {x \in Entities : store[x] # NoEntity}

Serving == bootTodo = {}

Busy(w) == pc[w] # "idle"

Chain(w) == EntityChain[req[w].chain]

InChain(w, h) ==
  pc[w] = "hook" /\ at[w] \in DOMAIN Chain(w) /\ Chain(w)[at[w]] = h

ID(w) == req[w].de.id

(* Worker w is making, or about to make, callbacks for ID x. *)
Notifying(w, x) == pc[w] \in {"notify", "apply"} /\ e[w].id = x

(* The key of the event that the write of w's last hook fires, and whether *)
(* it is a removal.                                                        *)
PK(w) == e[w].id
Destroys(w) == Chain(w)[at[w]] = "destroy-entity"

TypeOK ==
  /\ store \in [Entities -> Entity \cup {NoEntity}]
  /\ dm \in [Entities -> (SUBSET Groups) \cup {NoEntity}]
  /\ index \in [Entities -> Entity \cup {NoEntity}]
  /\ bootTodo \subseteq Entities \X Callbacks
  /\ crashes \in 0..MaxCrashes
  /\ pc \in [Workers -> {"idle", "hook", "number", "notify", "apply",
                         "search", "done"}]
  /\ req \in [Workers -> AnyRequest \cup {NoRequest}]
  /\ at \in [Workers -> 1..6]
  /\ e \in [Workers -> Entity]
  /\ todo \in [Workers -> SUBSET Entities]
  /\ largest \in [Workers -> 0..MaxInt32]
  /\ pending \in [Workers -> SUBSET Callbacks]
  /\ current \in [Workers -> Callbacks \cup {"none"}]
  /\ loaded \in [Workers -> Entity \cup {NoEntity}]
  /\ reply \in [Workers -> {"none", "ok"} \cup Errors]
  /\ seen \in [Workers -> SUBSET (Entity \cup {NoEntity})]
  /\ raced \subseteq Entities

Init ==
  /\ store \in Populations
  /\ dm = [x \in Entities |-> NoEntity]
  /\ index = [x \in Entities |-> NoEntity]
  /\ bootTodo = Stored \X Callbacks
  /\ crashes = 0
  /\ pc = [w \in Workers |-> "idle"]
  /\ req = [w \in Workers |-> NoRequest]
  /\ at = [w \in Workers |-> 1]
  /\ e = [w \in Workers |-> BlankEntity]
  /\ todo = [w \in Workers |-> {}]
  /\ largest = [w \in Workers |-> 0]
  /\ pending = [w \in Workers |-> {}]
  /\ current = [w \in Workers |-> "none"]
  /\ loaded = [w \in Workers |-> NoEntity]
  /\ reply = [w \in Workers |-> "none"]
  /\ seen = [w \in Workers |-> {}]
  /\ raced = {}

-----------------------------------------------------------------------------
(***************************************************************************)
(* Two requests conflict when both are for one ID and when both create;    *)
(* a search conflicts with every chain.                                    *)
(***************************************************************************)
Conflict(r, s) ==
  \/ r.chain = "SEARCH" /\ s.chain # "SEARCH"
  \/ s.chain = "SEARCH" /\ r.chain # "SEARCH"
  \/ r.chain = "CREATE" /\ s.chain = "CREATE"
  \/ /\ r.chain # "SEARCH" /\ s.chain # "SEARCH"
     /\ r.de.id = s.de.id

(* No number beyond the bound is asked for. *)
InBounds(r) ==
  r.chain = "CREATE" /\ r.de.number = AutoNumber =>
    \A x \in Stored : store[x].number < MaxAutoNumber

Admissible(r) ==
  Exclusive => \A v \in Workers : Busy(v) => ~Conflict(req[v], r)

(* A request arrives and is given a goroutine. *)
Begin(w, r) ==
  /\ Serving /\ ~Busy(w) /\ Admissible(r) /\ InBounds(r)
  /\ pc' = [pc EXCEPT ![w] = "hook"]
  /\ req' = [req EXCEPT ![w] = r]
  /\ seen' = [seen EXCEPT ![w] = {store[r.de.id]}]
  /\ UNCHANGED <<stateVars, at, e, todo, largest, pending, current, loaded,
                 reply, raced>>

(* Moving on to the next hook, and giving up. *)
Advance(w) ==
  /\ pc' = [pc EXCEPT ![w] = "hook"]
  /\ at' = [at EXCEPT ![w] = @ + 1]
  /\ UNCHANGED <<reply>>

Fail(w, err) ==
  /\ pc' = [pc EXCEPT ![w] = "done"]
  /\ reply' = [reply EXCEPT ![w] = err]
  /\ UNCHANGED <<at>>

(* The tail of every hook that touches neither storage nor the copies. *)
LocalStep == UNCHANGED <<stateVars, req, pending, current, loaded, seen, raced>>

(* Variant: the error of the load is dropped. *)
LoadEntityUnchecked(w) ==
  /\ InChain(w, "load-entity")
  /\ e' = [e EXCEPT ![w] = store[ID(w)]]
  /\ Advance(w)
  /\ LocalStep /\ UNCHANGED <<todo, largest>>

LoadEntity(w) ==
  /\ InChain(w, "load-entity")
  /\ \/ /\ store[ID(w)] = NoEntity
        /\ Fail(w, "unknown") /\ UNCHANGED e
     \/ /\ "get" \in Faults
        /\ Fail(w, "internal") /\ UNCHANGED e
     \/ /\ store[ID(w)] # NoEntity
        /\ e' = [e EXCEPT ![w] = store[ID(w)]]
        /\ Advance(w)
  /\ LocalStep /\ UNCHANGED <<todo, largest>>

(* Variant: what is stored does not matter. *)
FailOnNothing(w) ==
  /\ InChain(w, "fail-on-existing-entity")
  /\ Advance(w)
  /\ LocalStep /\ UNCHANGED <<e, todo, largest>>

(* A load that fails for whatever reason lets the chain go on. *)
FailOnExistingEntity(w) ==
  /\ InChain(w, "fail-on-existing-entity")
  /\ \/ store[ID(w)] # NoEntity /\ Fail(w, "duplicate")
     \/ (store[ID(w)] = NoEntity \/ "get" \in Faults) /\ Advance(w)
  /\ LocalStep /\ UNCHANGED <<e, todo, largest>>

(* Variant: -1 is taken as it is, too. *)
SetGivenNumber(w) ==
  /\ InChain(w, "set-entity-number")
  /\ e' = [e EXCEPT ![w].number = req[w].de.number]
  /\ Advance(w)
  /\ LocalStep /\ UNCHANGED <<todo, largest>>

(* A number other than -1 is taken as it is; for -1 NextEntityNumber lists *)
(* the IDs, ...                                                            *)
SetEntityNumber(w) ==
  /\ InChain(w, "set-entity-number")
  /\ IF req[w].de.number = AutoNumber
       THEN /\ pc' = [pc EXCEPT ![w] = "number"]
            /\ todo' = [todo EXCEPT ![w] = Stored]
            /\ UNCHANGED <<at, e, reply>>
       ELSE /\ e' = [e EXCEPT ![w].number = req[w].de.number]
            /\ Advance(w) /\ UNCHANGED todo
  /\ LocalStep /\ UNCHANGED largest

(* Variant: the scan never gets past an ID. *)
ScanForever(w, x) ==
  /\ pc[w] = "number" /\ x \in todo[w] /\ store[x] # NoEntity
  /\ LocalStep /\ UNCHANGED <<e, todo, largest, pc, at, reply>>

(* ... loads each of them, ...                                             *)
ScanNumber(w, x) ==
  /\ pc[w] = "number" /\ x \in todo[w]
  /\ \/ store[x] = NoEntity /\ Fail(w, "unknown") /\ UNCHANGED <<todo, largest>>
     \/ "get" \in Faults /\ Fail(w, "internal") /\ UNCHANGED <<todo, largest>>
     \/ /\ store[x] # NoEntity
        /\ todo' = [todo EXCEPT ![w] = @ \ {x}]
        /\ largest' = [largest EXCEPT ![w] =
                         IF store[x].number > @ THEN store[x].number ELSE @]
        /\ UNCHANGED <<pc, at, reply>>
  /\ LocalStep /\ UNCHANGED e

(* Variant: the largest number itself. *)
AssignLargest(w) ==
  /\ pc[w] = "number" /\ todo[w] = {}
  /\ e' = [e EXCEPT ![w].number = largest[w]]
  /\ Advance(w)
  /\ LocalStep /\ UNCHANGED <<todo, largest>>

(* ... and returns one more than the largest number it saw.                *)
AssignNumber(w) ==
  /\ pc[w] = "number" /\ todo[w] = {}
  /\ e' = [e EXCEPT ![w].number = Increment(largest[w])]
  /\ Advance(w)
  /\ LocalStep /\ UNCHANGED <<todo, largest>>

(* Any hook that works on the draft alone. *)
RunHook(w, h) ==
  /\ InChain(w, h)
  /\ \/ HookFails(h, e[w], req[w].de) /\ Fail(w, "refused") /\ UNCHANGED e
     \/ /\ h = "set-entity-secret" /\ "secure" \in Faults
        /\ Fail(w, "internal") /\ UNCHANGED e
     \/ /\ ~HookFails(h, e[w], req[w].de)
        /\ e' = [e EXCEPT ![w] = HookResult(h, @, req[w].de)]
        /\ Advance(w)
  /\ LocalStep /\ UNCHANGED <<todo, largest>>

-----------------------------------------------------------------------------
(***************************************************************************)
(* Storage takes the new value v for x, unlocks, and then calls the        *)
(* registered callbacks one after the other in the order of a map.         *)
(***************************************************************************)
Write(w, x, v) ==
  /\ store' = [store EXCEPT ![x] = v]
  /\ pc' = [pc EXCEPT ![w] = "notify"]
  /\ pending' = [pending EXCEPT ![w] = Callbacks]
  /\ seen' = [u \in Workers |-> IF Busy(u) /\ req[u].chain # "SEARCH" /\ ID(u) = x
                                  THEN seen[u] \cup {v} ELSE seen[u]]
  /\ raced' = IF \E u \in Workers \ {w} : Notifying(u, x)
                THEN raced \cup {x} ELSE raced \ {x}
  /\ UNCHANGED <<dm, index, bootTodo, crashes, req, at, todo, largest,
                 current, loaded, reply>>

SaveEntity(w) ==
  /\ InChain(w, "save-entity")
  /\ \/ /\ "put" \in Faults /\ Fail(w, "internal")
        /\ LocalStep /\ UNCHANGED <<e, todo, largest>>
     \/ Write(w, e[w].id, e[w]) /\ UNCHANGED e

(* Variant: the entity stays where it is. *)
DeleteNothing(w) ==
  /\ InChain(w, "destroy-entity")
  /\ Advance(w)
  /\ LocalStep /\ UNCHANGED <<e, todo, largest>>

DeleteEntity(w) ==
  /\ InChain(w, "destroy-entity")
  /\ LET x == IF e[w].id = NoID THEN ID(w) ELSE e[w].id
     IN  /\ e' = [e EXCEPT ![w].id = x]
         /\ \/ /\ StrictDelete /\ store[x] = NoEntity
               /\ Fail(w, "unknown") /\ LocalStep /\ UNCHANGED <<todo, largest>>
            \/ /\ "del" \in Faults
               /\ Fail(w, "internal") /\ LocalStep /\ UNCHANGED <<todo, largest>>
            \/ /\ StrictDelete => store[x] # NoEntity
               /\ Write(w, x, NoEntity)

(* Variant: a removal leaves the index as it is. *)
ApplyUpdate(c, x, v) ==
  IF c = "entity-resolver"
    THEN /\ dm' = [dm EXCEPT ![x] = IF v = NoEntity THEN NoEntity
                                                    ELSE DirectGroups(v)]
         /\ UNCHANGED index
    ELSE /\ index' = IF v = NoEntity THEN index ELSE [index EXCEPT ![x] = v]
         /\ UNCHANGED dm

(* What callback c makes of entity v stored under x, or of its removal. *)
Apply(c, x, v) ==
  IF c = "entity-resolver"
    THEN /\ dm' = [dm EXCEPT ![x] = IF v = NoEntity THEN NoEntity
                                                    ELSE DirectGroups(v)]
         /\ UNCHANGED index
    ELSE index' = [index EXCEPT ![x] = v] /\ UNCHANGED dm

(* Variant: events for removals are ignored. *)
CallbackIgnore(w, c) ==
  /\ pc[w] = "notify" /\ c \in pending[w] /\ Destroys(w)
  /\ pending' = [pending EXCEPT ![w] = @ \ {c}]
  /\ UNCHANGED <<stateVars, pc, req, at, e, todo, largest, current, loaded,
                 reply, seen, raced>>

(* The callback for a removal has nothing to load. *)
CallbackRemove(w, c) ==
  /\ pc[w] = "notify" /\ c \in pending[w] /\ Destroys(w)
  /\ pending' = [pending EXCEPT ![w] = @ \ {c}]
  /\ Apply(c, PK(w), NoEntity)
  /\ UNCHANGED <<store, bootTodo, crashes, pc, req, at, e, todo, largest,
                 current, loaded, reply, seen, raced>>

(* The callback for an update loads the entity again; if it cannot, it     *)
(* leaves its copy as it is.                                               *)
CallbackLoad(w, c) ==
  /\ pc[w] = "notify" /\ c \in pending[w] /\ ~Destroys(w)
  /\ pending' = [pending EXCEPT ![w] = @ \ {c}]
  /\ \/ /\ store[PK(w)] = NoEntity \/ "get" \in Faults
        /\ UNCHANGED <<pc, current, loaded>>
     \/ /\ store[PK(w)] # NoEntity
        /\ pc' = [pc EXCEPT ![w] = "apply"]
        /\ current' = [current EXCEPT ![w] = c]
        /\ loaded' = [loaded EXCEPT ![w] = store[PK(w)]]
  /\ UNCHANGED <<stateVars, req, at, e, todo, largest, reply, seen, raced>>

CallbackApply(w) ==
  /\ pc[w] = "apply"
  /\ Apply(current[w], loaded[w].id, loaded[w])
  /\ pc' = [pc EXCEPT ![w] = "notify"]
  /\ current' = [current EXCEPT ![w] = "none"]
  /\ loaded' = [loaded EXCEPT ![w] = NoEntity]
  /\ UNCHANGED <<store, bootTodo, crashes, req, at, e, todo, largest, pending,
                 reply, seen, raced>>

(* Every callback has returned, and so does the hook that wrote. *)
FinishWrite(w) ==
  /\ pc[w] = "notify" /\ pending[w] = {}
  /\ Advance(w)
  /\ UNCHANGED <<stateVars, req, e, todo, largest, pending, current, loaded,
                 seen, raced>>

FinishChain(w) ==
  /\ pc[w] = "hook" /\ at[w] > Len(Chain(w))
  /\ pc' = [pc EXCEPT ![w] = "done"]
  /\ reply' = [reply EXCEPT ![w] = "ok"]
  /\ UNCHANGED <<stateVars, req, at, e, todo, largest, pending, current,
                 loaded, seen, raced>>

-----------------------------------------------------------------------------
(* A search asks the index, and then loads each entity that it names. *)
BeginSearch(w) ==
  /\ Searching /\ Serving /\ ~Busy(w) /\ Admissible(SearchRequest)
  /\ pc' = [pc EXCEPT ![w] = "search"]
  /\ req' = [req EXCEPT ![w] = SearchRequest]
  /\ todo' = [todo EXCEPT ![w] = {x \in Entities : index[x] # NoEntity}]
  /\ UNCHANGED <<stateVars, at, e, largest, pending, current, loaded, reply,
                 seen, raced>>

SearchLoad(w, x) ==
  /\ pc[w] = "search" /\ x \in todo[w]
  /\ \/ store[x] = NoEntity /\ Fail(w, "unknown") /\ UNCHANGED todo
     \/ "get" \in Faults /\ Fail(w, "internal") /\ UNCHANGED todo
     \/ /\ store[x] # NoEntity
        /\ todo' = [todo EXCEPT ![w] = @ \ {x}]
        /\ UNCHANGED <<pc, at, reply>>
  /\ LocalStep /\ UNCHANGED <<e, largest>>

FinishSearch(w) ==
  /\ pc[w] = "search" /\ todo[w] = {}
  /\ pc' = [pc EXCEPT ![w] = "done"]
  /\ reply' = [reply EXCEPT ![w] = "ok"]
  /\ LocalStep /\ UNCHANGED <<at, e, todo, largest>>

(* The answer is sent and the goroutine ends. *)
Return(w) ==
  /\ pc[w] = "done"
  /\ pc' = [pc EXCEPT ![w] = "idle"]
  /\ req' = [req EXCEPT ![w] = NoRequest]
  /\ at' = [at EXCEPT ![w] = 1]
  /\ e' = [e EXCEPT ![w] = BlankEntity]
  /\ todo' = [todo EXCEPT ![w] = {}]
  /\ largest' = [largest EXCEPT ![w] = 0]
  /\ reply' = [reply EXCEPT ![w] = "none"]
  /\ seen' = [seen EXCEPT ![w] = {}]
  /\ UNCHANGED <<stateVars, pending, current, loaded, raced>>

-----------------------------------------------------------------------------
(* The process dies: requests in flight and the copies in memory are gone. *)
Crash ==
  /\ crashes < MaxCrashes
  /\ crashes' = crashes + 1
  /\ dm' = [x \in Entities |-> NoEntity]
  /\ index' = [x \in Entities |-> NoEntity]
  /\ bootTodo' = Stored \X Callbacks
  /\ pc' = [w \in Workers |-> "idle"]
  /\ req' = [w \in Workers |-> NoRequest]
  /\ at' = [w \in Workers |-> 1]
  /\ e' = [w \in Workers |-> BlankEntity]
  /\ todo' = [w \in Workers |-> {}]
  /\ largest' = [w \in Workers |-> 0]
  /\ pending' = [w \in Workers |-> {}]
  /\ current' = [w \in Workers |-> "none"]
  /\ loaded' = [w \in Workers |-> NoEntity]
  /\ reply' = [w \in Workers |-> "none"]
  /\ seen' = [w \in Workers |-> {}]
  /\ raced' = {}
  /\ UNCHANGED store

(* Variant: the index is not filled. *)
PreloadResolver(x, c) ==
  /\ <<x, c>> \in bootTodo
  /\ bootTodo' = bootTodo \ {<<x, c>>}
  /\ IF c = "entity-resolver" THEN Apply(c, x, store[x]) ELSE UNCHANGED <<dm, index>>
  /\ UNCHANGED <<store, crashes, workerVars, seen, raced>>

(* EventUpdateAll makes one callback; nothing else runs yet. *)
Preload(x, c) ==
  /\ <<x, c>> \in bootTodo
  /\ bootTodo' = bootTodo \ {<<x, c>>}
  /\ \/ Apply(c, x, store[x])
     \/ "get" \in Faults /\ UNCHANGED <<dm, index>>
  /\ UNCHANGED <<store, crashes, workerVars, seen, raced>>

WorkerStep(w) ==
  \/ LoadEntity(w)
  \/ FailOnExistingEntity(w)
  \/ SetEntityNumber(w)
  \/ \E x \in Entities : ScanNumber(w, x)
  \/ AssignNumber(w)
  \/ \E h \in Hooks \ StorageHooks : RunHook(w, h)
  \/ SaveEntity(w)
  \/ DeleteEntity(w)
  \/ \E c \in Callbacks : CallbackRemove(w, c)
  \/ \E c \in Callbacks : CallbackLoad(w, c)
  \/ CallbackApply(w)
  \/ FinishWrite(w)
  \/ FinishChain(w)
  \/ \E x \in Entities : SearchLoad(w, x)
  \/ FinishSearch(w)
  \/ Return(w)

Boot == \E x \in Entities, c \in Callbacks : Preload(x, c)

Next ==
  \/ \E w \in Workers : WorkerStep(w)
  \/ \E w \in Workers, r \in Requests : Begin(w, r)
  \/ \E w \in Workers : BeginSearch(w)
  \/ Boot
  \/ Crash

Spec == Init /\ [][Next]_vars

(* Go runs every goroutine; clients may stop asking. *)
FairSpec == Spec /\ WF_vars(Boot) /\ \A w \in Workers : WF_vars(WorkerStep(w))

-----------------------------------------------------------------------------
(* Safety.                                                                 *)

Done(w, c) == pc[w] = "done" /\ reply[w] = "ok" /\ req[w].chain = c

(* Whatever is stored under a key carries that key as its ID: no           *)
(* interleaving of loads, saves and removals files one entity under the    *)
(* ID of another.                                                          *)
StoredUnderOwnKey == \A x \in Stored : store[x].id = x

(* Authentication is sound: when VALIDATE-IDENTITY answers "ok", storage   *)
(* held, at some instant of the request, an unlocked entity with that ID   *)
(* and that secret, whatever other requests did meanwhile.                 *)
AuthSound ==
  \A w \in Workers : Done(w, "VALIDATE_IDENTITY") =>
    \E v \in seen[w] :
      v # NoEntity /\ ~IsLocked(v) /\ Verifies(req[w].de.secret, v)

(* No hook dereferences metadata that its draft does not have: the         *)
(* priorities keep ensure-entity-meta ahead of every hook that edits.      *)
NoNilDereference ==
  \A w \in Workers, h \in Hooks :
    InChain(w, h) /\ NeedsMeta(h) => e[w].meta # NoMeta

(* The copies in memory agree with storage about every ID that no callback *)
(* is under way for, unless its last write came while callbacks for an     *)
(* earlier one ran.                                                        *)
Agrees(x) ==
  /\ index[x] = store[x]
  /\ dm[x] = IF store[x] = NoEntity THEN NoEntity ELSE DirectGroups(store[x])

CopiesCoherent ==
  Serving => \A x \in Entities \ raced :
    (\A w \in Workers : ~Notifying(w, x)) => Agrees(x)

(* A chain that has written has nothing left that can fail: the client is  *)
(* never told that a request failed whose effect is in storage.            *)
HasWritten(w) ==
  /\ req[w].chain \in Chains
  /\ \/ pc[w] \in {"notify", "apply"}
     \/ \E i \in DOMAIN Chain(w) :
          i < at[w] /\ Chain(w)[i] \in {"save-entity", "destroy-entity"}

NoErrorAfterWrite ==
  [][\A w \in Workers : HasWritten(w) => reply'[w] \notin Errors]_vars

(* The typed key/value store of an entity has one value for each key.      *)
KVKeysUnique ==
  \A x \in Stored : store[x].meta # NoMeta =>
    \A p, q \in store[x].meta.kv : p[1] = q[1] => p = q

(* No two entities have the same number. *)
NumbersUnique ==
  \A x, y \in Stored : store[x].number = store[y].number => x = y

(* CREATE writes only over nothing: storage held nothing under the ID that *)
(* is created, at some instant of the request that creates it.             *)
CreateOnlyIfAbsent ==
  [][\A w \in Workers :
       /\ pc[w] = "hook" /\ pc'[w] = "notify" /\ req[w].chain = "CREATE"
       => NoEntity \in seen[w]]_vars

-----------------------------------------------------------------------------
(* Liveness.                                                               *)

(* Every request is answered: no chain, scan or round of callbacks waits   *)
(* for another request.                                                    *)
EventuallyAnswered == \A w \in Workers : Busy(w) ~> ~Busy(w)

-----------------------------------------------------------------------------
(***************************************************************************)
(* Refinement.  A request takes effect when its chain writes; one that     *)
(* writes nothing, when its last hook returns.                             *)
(***************************************************************************)
Answered(w) ==
  \/ pc[w] \in {"notify", "apply", "done"}
  \/ pc[w] = "hook" /\ at[w] > Len(Chain(w))

Dir == INSTANCE Directory WITH
  Requests <- AnyRequest,
  dir      <- store,
  request  <- req,
  phase    <- [w \in Workers |-> IF ~Busy(w) THEN "idle"
                                 ELSE IF Answered(w) THEN "answered" ELSE "called"],
  verdict  <- [w \in Workers |-> IF ~Answered(w) THEN "none"
                                 ELSE IF reply[w] \in Errors THEN "error" ELSE "ok"]

(* Clients that keep conflicting requests apart see the directory that     *)
(* module Directory promises, across crashes too.                          *)
ImplementsDirectory == Dir!DirSpec

=============================================================================
