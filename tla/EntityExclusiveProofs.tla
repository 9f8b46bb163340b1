------------------------- MODULE EntityExclusiveProofs ----------------------
(***************************************************************************)
(* Proofs about the entity tree for clients that keep conflicting requests *)
(* apart: what the chains promise although nothing in the server locks     *)
(* them, for any number of goroutines whose requests do not conflict, and  *)
(* across crashes.                                                         *)
(***************************************************************************)
EXTENDS EntityAcks, EntityTreeProofs

-----------------------------------------------------------------------------
(* What a step of worker w does to the rest.                               *)

(* The requests of the others stay as they are. *)
OthersAsTheyWere(w) ==
  \A v \in Workers \ {w} :
    /\ pc'[v] = pc[v] /\ req'[v] = req[v] /\ at'[v] = at[v] /\ e'[v] = e[v]
    /\ todo'[v] = todo[v] /\ largest'[v] = largest[v] /\ reply'[v] = reply[v]

(* The last hook of w's chain writes. *)
Writes(w) ==
  /\ pc[w] = "hook" /\ at[w] \in DOMAIN Chain(w)
  /\ Chain(w)[at[w]] \in {"save-entity", "destroy-entity"}
  /\ pc'[w] = "notify" /\ req'[w] = req[w] /\ at'[w] = at[w] /\ e'[w] = e[w]
  /\ store' = [store EXCEPT ![ID(w)] = IF Destroys(w) THEN NoEntity ELSE e[w]]

Unwritten(w) == store' = store /\ (pc[w] = "hook" => pc'[w] # "notify")

LEMMA SaveFrame ==
  ASSUME IInv, NEW w \in Workers, SaveEntity(w) \/ DeleteEntity(w)
  PROVE  /\ Writes(w) \/ (Unwritten(w) /\ \E err \in Errors : Fail(w, err))
         /\ OthersAsTheyWere(w)
         /\ e' = e /\ UNCHANGED <<req, todo, largest>>
<1>0. /\ pc[w] \in InChainStates /\ pc[w] = "hook" /\ at[w] \in DOMAIN Chain(w)
      /\ Chain(w)[at[w]] \in {"save-entity", "destroy-entity"}
  BY DEF SaveEntity, DeleteEntity, InChain, InChainStates
<1>1. /\ ID(w) \in Entities /\ e[w] \in Entity /\ e[w].id = ID(w)
      /\ e[w].id # NoID
  BY <1>0, InChainFacts, ZeroValuesAssumption DEF HookFact, IInv, Drafted
<1>2. e' = e
  <2>1. CASE SaveEntity(w)
    BY <2>1 DEF SaveEntity
  <2>2. CASE DeleteEntity(w)
    <3>1. e' = [e EXCEPT ![w].id = e[w].id]
      BY <1>1, <2>2 DEF DeleteEntity
    <3>2. [e[w] EXCEPT !.id = e[w].id] = e[w]
      BY <1>1 DEF Entity
    <3> QED BY <3>1, <3>2 DEF IInv, TypeOK
  <2> QED BY <2>1, <2>2
<1>3. \/ \E err \in Errors : Fail(w, err) /\ LocalStep /\ UNCHANGED <<todo, largest>>
      \/ Write(w, ID(w), IF Destroys(w) THEN NoEntity ELSE e[w])
  <2>1. CASE SaveEntity(w)
    <3>1. ~Destroys(w)
      BY <2>1 DEF SaveEntity, InChain, Destroys
    <3> QED BY <1>1, <2>1, <3>1 DEF SaveEntity, Errors
  <2>2. CASE DeleteEntity(w)
    <3>1. Destroys(w)
      BY <2>2 DEF DeleteEntity, InChain, Destroys
    <3> QED BY <1>1, <2>2, <3>1 DEF DeleteEntity, Errors
  <2> QED BY <2>1, <2>2
<1>4. CASE \E err \in Errors : Fail(w, err) /\ LocalStep /\ UNCHANGED <<todo, largest>>
  <2>1. Unwritten(w) /\ UNCHANGED <<req, todo, largest>>
    BY <1>4 DEF Unwritten, Fail, LocalStep, stateVars, IInv, TypeOK
  <2>2. OthersAsTheyWere(w)
    BY <1>2, <1>4 DEF OthersAsTheyWere, Fail, LocalStep, IInv, TypeOK
  <2> QED BY <1>2, <1>4, <2>1, <2>2
<1>5. CASE Write(w, ID(w), IF Destroys(w) THEN NoEntity ELSE e[w])
  <2>1. /\ pc' = [pc EXCEPT ![w] = "notify"]
        /\ store' = [store EXCEPT ![ID(w)] = IF Destroys(w) THEN NoEntity ELSE e[w]]
        /\ UNCHANGED <<req, at, todo, largest, reply>>
    BY <1>5 DEF Write
  <2>2. Writes(w)
    BY <1>0, <1>2, <2>1 DEF Writes, IInv, TypeOK
  <2>3. OthersAsTheyWere(w)
    BY <1>2, <2>1 DEF OthersAsTheyWere, IInv, TypeOK
  <2> QED BY <1>2, <2>1, <2>2, <2>3
<1> QED BY <1>3, <1>4, <1>5

(* The same of any step. *)
LEMMA WorkerFrame ==
  ASSUME IInv, NEW w \in Workers, WorkerStep(w)
  PROVE  /\ Busy(w)
         /\ OthersAsTheyWere(w)
         /\ Writes(w) \/ Unwritten(w)
         /\ pc'[w] = "idle" \/ (pc'[w] # "idle" /\ req'[w] = req[w])
<1>0. /\ pc \in [Workers -> {"idle", "hook", "number", "notify", "apply", "search", "done"}]
      /\ e \in [Workers -> Entity] /\ at \in [Workers -> 1..6]
      /\ todo \in [Workers -> SUBSET Entities] /\ largest \in [Workers -> 0..MaxInt32]
      /\ reply \in [Workers -> {"none", "ok"} \cup Errors]
      /\ req \in [Workers -> AnyRequest \cup {NoRequest}]
  BY DEF IInv, TypeOK
<1>1. CASE LoadEntity(w) \/ FailOnExistingEntity(w) \/ SetEntityNumber(w) \/ AssignNumber(w)
  <2>1. Busy(w) /\ UNCHANGED <<store, req>>
    BY <1>1 DEF LoadEntity, FailOnExistingEntity, SetEntityNumber, AssignNumber,
                InChain, LocalStep, stateVars, Busy
  <2>2. pc'[w] \in {"hook", "done", "number"}
    BY <1>0, <1>1 DEF LoadEntity, FailOnExistingEntity, SetEntityNumber, AssignNumber,
                Advance, Fail
  <2>3. OthersAsTheyWere(w)
    BY <1>0, <1>1, <2>1 DEF LoadEntity, FailOnExistingEntity, SetEntityNumber, AssignNumber,
                Advance, Fail, LocalStep, OthersAsTheyWere
  <2> QED BY <2>1, <2>2, <2>3 DEF Unwritten
<1>2. CASE \/ \E x \in Entities : ScanNumber(w, x) \/ SearchLoad(w, x)
           \/ \E h \in Hooks \ StorageHooks : RunHook(w, h)
  <2>1. Busy(w) /\ UNCHANGED <<store, req>>
    BY <1>2 DEF ScanNumber, SearchLoad, RunHook, InChain, LocalStep, stateVars, Busy
  <2>2. pc'[w] \in {"hook", "done", "number", "search"}
    BY <1>0, <1>2 DEF ScanNumber, SearchLoad, RunHook, Advance, Fail
  <2>3. OthersAsTheyWere(w)
    BY <1>0, <1>2, <2>1 DEF ScanNumber, SearchLoad, RunHook, Advance, Fail, LocalStep,
                OthersAsTheyWere
  <2> QED BY <2>1, <2>2, <2>3 DEF Unwritten
<1>3. CASE SaveEntity(w) \/ DeleteEntity(w)
  <2>1. /\ Busy(w) /\ OthersAsTheyWere(w) /\ req' = req
        /\ Writes(w) \/ (Unwritten(w) /\ \E err \in Errors : Fail(w, err))
    BY <1>3, SaveFrame DEF SaveEntity, DeleteEntity, InChain, Busy
  <2>2. pc'[w] \in {"notify", "done"}
    BY <1>0, <2>1 DEF Writes, Fail
  <2> QED BY <2>1, <2>2
<1>4. CASE \/ \E c \in Callbacks : CallbackRemove(w, c) \/ CallbackLoad(w, c)
           \/ CallbackApply(w) \/ FinishWrite(w)
  <2>1. Busy(w) /\ UNCHANGED <<store, req>> /\ pc[w] # "hook"
    BY <1>4 DEF CallbackRemove, CallbackLoad, CallbackApply, FinishWrite, stateVars, Busy
  <2>2. pc'[w] \in {"notify", "apply", "hook"}
    BY <1>0, <1>4 DEF CallbackRemove, CallbackLoad, CallbackApply, FinishWrite, Advance
  <2>3. OthersAsTheyWere(w)
    BY <1>0, <1>4, <2>1 DEF CallbackRemove, CallbackLoad, CallbackApply, FinishWrite, Advance,
                OthersAsTheyWere
  <2> QED BY <2>1, <2>2, <2>3 DEF Unwritten
<1>5. CASE FinishChain(w) \/ FinishSearch(w) \/ Return(w)
  <2>1. Busy(w) /\ store' = store
    BY <1>5 DEF FinishChain, FinishSearch, Return, LocalStep, stateVars, Busy
  <2>2. pc'[w] = "idle" \/ (pc'[w] = "done" /\ req'[w] = req[w])
    BY <1>0, <1>5 DEF FinishChain, FinishSearch, Return, LocalStep
  <2>3. OthersAsTheyWere(w)
    BY <1>0, <1>5, <2>1 DEF FinishChain, FinishSearch, Return, LocalStep, OthersAsTheyWere
  <2> QED BY <2>1, <2>2, <2>3 DEF Unwritten
<1> QED BY <1>1, <1>2, <1>3, <1>4, <1>5 DEF WorkerStep

-----------------------------------------------------------------------------
(* Requests that are under way do not conflict. *)
Apart ==
  \A v, w \in Workers : v # w /\ Busy(v) /\ Busy(w) => ~Conflict(req[v], req[w])

LEMMA ConflictSymmetric ==
  ASSUME NEW r, NEW s, Conflict(r, s) PROVE Conflict(s, r)
BY DEF Conflict

(* A request is admitted only if it conflicts with none. *)
LEMMA NextApart ==
  ASSUME Exclusive
  PROVE  IInv /\ Apart /\ [Next]_vars => Apart'
<1> SUFFICES ASSUME IInv, Apart, [Next]_vars PROVE Apart'
  OBVIOUS
<1>1. ASSUME NEW w \in Workers, WorkerStep(w) PROVE Apart'
  BY <1>1, WorkerFrame DEF Apart, OthersAsTheyWere, Busy
<1>2. ASSUME NEW w \in Workers, NEW r,
             Admissible(r), req' = [req EXCEPT ![w] = r],
             NEW s, s # "idle", pc' = [pc EXCEPT ![w] = s]
      PROVE  Apart'
  <2>1. /\ pc \in [Workers -> {"idle", "hook", "number", "notify", "apply", "search", "done"}]
        /\ req \in [Workers -> AnyRequest \cup {NoRequest}]
    BY DEF IInv, TypeOK
  <2>2. \A v \in Workers : v # w => pc'[v] = pc[v] /\ req'[v] = req[v]
    BY <1>2, <2>1
  <2>3. req'[w] = r
    BY <1>2, <2>1
  <2>4. \A v \in Workers : v # w /\ Busy(v) => ~Conflict(req[v], r) /\ ~Conflict(r, req[v])
    BY <1>2, ConflictSymmetric DEF Admissible
  <2> QED BY <2>2, <2>3, <2>4 DEF Apart, Busy
<1>3. ASSUME NEW w \in Workers, BeginSearch(w) \/ \E r \in Requests : Begin(w, r)
      PROVE  Apart'
  BY <1>2, <1>3 DEF BeginSearch, Begin
<1>4. CASE Boot \/ UNCHANGED vars
  BY <1>4 DEF Boot, Preload, vars, workerVars, Apart, Busy
<1>5. CASE Crash
  BY <1>5 DEF Crash, Apart, Busy
<1> QED BY <1>1, <1>3, <1>4, <1>5 DEF Next

LEMMA ApartInvariant ==
  ASSUME Exclusive
  PROVE  Spec => [](IInv /\ Apart)
<1>1. Init => Apart
  BY DEF Init, Apart, Busy
<1> QED BY <1>1, NextApart, Invariance, PTL DEF Spec

(* A request for a chain is one that clients make. *)
LEMMA ChainRequest ==
  ASSUME IInv, NEW v \in Workers, pc[v] \in InChainStates \/ req[v].chain \in Chains
  PROVE  req[v] \in Requests /\ req[v].chain \in Chains /\ ID(v) \in Entities
<1>1. {"SEARCH", "NONE"} \cap Chains = {}
  BY DEF Chains, EditChains, EditHook
<1>2. req[v] \in Requests
  BY <1>1 DEF IInv, Placed, TypeOK, AnyRequest, SearchRequest, NoRequest, InChainStates
<1> QED BY <1>2, RequestFacts DEF ID

(* While a chain is under way, what is stored under its ID changes only by *)
(* its own hand.                                                           *)
LEMMA OthersStored ==
  ASSUME IInv, Apart, NEW w \in Workers, WorkerStep(w), NEW v \in Workers \ {w},
         Busy(v), req[v].chain \in Chains
  PROVE  /\ store'[ID(v)] = store[ID(v)] /\ ID(v)' = ID(v)
         /\ Writes(w) => ID(v) # ID(w) /\ ~(req[v].chain = "CREATE" /\ req[w].chain = "CREATE")
<1>1. ID(v)' = ID(v)
  BY WorkerFrame DEF OthersAsTheyWere, ID
<1>2. CASE Writes(w)
  <2>1. /\ ID(w) # ID(v) /\ ~(req[v].chain = "CREATE" /\ req[w].chain = "CREATE")
        /\ ID(v) \in Entities
    <3>1. /\ req[w].chain \in Chains /\ Busy(w) /\ ID(v) \in Entities
      BY <1>2, ChainRequest DEF Writes, InChainStates, Busy
    <3>2. "SEARCH" \notin Chains
      BY DEF Chains, EditChains, EditHook
    <3>3. ~Conflict(req[v], req[w])
      BY <3>1 DEF Apart
    <3> QED BY <3>1, <3>2, <3>3 DEF Conflict, ID
  <2> QED BY <1>1, <1>2, <2>1 DEF Writes, IInv, TypeOK
<1>3. CASE Unwritten(w) /\ ~Writes(w)
  BY <1>1, <1>3 DEF Unwritten
<1> QED BY <1>2, <1>3, WorkerFrame

-----------------------------------------------------------------------------
(* Numbers.                                                                *)

(* No number that the tree assigns gets past the largest int32. *)
NumbersInRange == MaxAutoNumber <= MaxInt32

(***************************************************************************)
(* The inductive invariant.  A creation that asks for a number has the     *)
(* numbers to itself: nothing that was in storage when it began to look    *)
(* for the largest gets another one (Creating), because what runs next to  *)
(* it saves what it loaded with the number that it has (Editing).          *)
(***************************************************************************)
Low == \A x \in Stored : store[x].number < MaxAutoNumber

Creating(w) ==
  pc[w] \in {"hook", "number"} /\ req[w].chain = "CREATE" =>
    /\ pc[w] = "number" => req[w].de.number = AutoNumber
    /\ req[w].de.number = AutoNumber =>
         /\ at[w] <= 3 => Low
         /\ at[w] <= 3 /\ pc[w] = "hook" => largest[w] = 0
         /\ pc[w] = "number" =>
              /\ largest[w] < MaxInt32
              /\ \A x \in Stored \ todo[w] : store[x].number <= largest[w]
         /\ at[w] \in 4..5 =>
              e[w].number > 0 /\ \A x \in Stored : store[x].number < e[w].number

Editing(w) ==
  pc[w] = "hook" /\ at[w] \in 2..Len(Chain(w)) /\ req[w].chain # "CREATE" =>
    store[ID(w)] # NoEntity /\ e[w].number = store[ID(w)].number

Numbering(w) == (pc[w] = "idle" => largest[w] = 0) /\ Creating(w) /\ Editing(w)

NumInv == \A w \in Workers : Numbering(w)

(* Storage has no number that it did not have. *)
NoNewNumber == \A x \in Stored' : x \in Stored /\ store'[x].number = store[x].number

(* No hook but that of a creation gives an entity a new number. *)
LEMMA WriteNumbers ==
  ASSUME IInv, NumInv, NEW w \in Workers, Writes(w), req[w].chain # "CREATE"
  PROVE  NoNewNumber
<1>1. /\ ID(w) \in Entities /\ at[w] \in 2..Len(Chain(w))
      /\ e[w] \in Entity /\ store \in [Entities -> Entity \cup {NoEntity}]
  BY InChainFacts DEF Writes, InChainStates, HookFact, IInv, TypeOK
<1>2. CASE Destroys(w)
  <2>1. store' = [store EXCEPT ![ID(w)] = NoEntity]
    BY <1>2 DEF Writes
  <2> QED BY <1>1, <2>1 DEF NoNewNumber, Stored
<1>3. CASE ~Destroys(w)
  <2>1. store' = [store EXCEPT ![ID(w)] = e[w]]
    BY <1>3 DEF Writes
  <2>2. store[ID(w)] # NoEntity /\ e[w].number = store[ID(w)].number
    BY <1>1 DEF NumInv, Numbering, Editing, Writes
  <2>3. ASSUME NEW x \in Stored' PROVE x \in Stored /\ store'[x].number = store[x].number
    <3>1. CASE x = ID(w)
      BY <1>1, <2>1, <2>2, <3>1 DEF Stored
    <3>2. CASE x # ID(w)
      BY <1>1, <2>1, <3>2 DEF Stored
    <3> QED BY <3>1, <3>2
  <2> QED BY <2>3 DEF NoNewNumber
<1> QED BY <1>2, <1>3

(* A creation that asked for a number has one above all that are stored.   *)
LEMMA CreationNumbers ==
  ASSUME IInv, NumInv, NEW w \in Workers, Writes(w), req[w].chain = "CREATE"
  PROVE  /\ at[w] = 5 /\ ~Destroys(w) /\ store' = [store EXCEPT ![ID(w)] = e[w]]
         /\ req[w].de.number = AutoNumber =>
              e[w].number > 0 /\ \A x \in Stored : store[x].number < e[w].number
<1>1. at[w] = Len(Chain(w)) /\ Chain(w)[5] = "save-entity"
  BY InChainFacts, ChainCases DEF Writes, InChainStates, HookFact, Chain
<1>2. at[w] = 5
  <2>1. Len(EntityChain["CREATE"]) = 5
    BY ChainCases
  <2> QED BY <1>1, <2>1 DEF Chain
<1>3. ~Destroys(w)
  BY <1>1, <1>2 DEF Destroys
<1>4. store' = [store EXCEPT ![ID(w)] = e[w]]
  BY <1>3 DEF Writes
<1> QED BY <1>2, <1>3, <1>4 DEF NumInv, Numbering, Creating, Writes

(* The requests of others are none the wiser. *)
LEMMA OthersKeepNumbers ==
  ASSUME IInv, Apart, NumInv, NEW w \in Workers, WorkerStep(w), NEW v \in Workers \ {w}
  PROVE  Numbering(v)'
<1>1. /\ pc'[v] = pc[v] /\ req'[v] = req[v] /\ at'[v] = at[v] /\ e'[v] = e[v]
      /\ todo'[v] = todo[v] /\ largest'[v] = largest[v]
  BY WorkerFrame DEF OthersAsTheyWere
<1>2. Numbering(v)
  BY DEF NumInv
<1>3. Creating(v)'
  <2>1. SUFFICES ASSUME pc[v] \in {"hook", "number"}, req[v].chain = "CREATE"
                 PROVE  Creating(v)'
    BY <1>1 DEF Creating
  <2>2. Busy(v) /\ req[v].chain \in Chains
    BY <2>1 DEF Busy, Chains
  <2>3. NoNewNumber
    <3>1. CASE Writes(w)
      BY <2>1, <2>2, <3>1, OthersStored, WriteNumbers
    <3>2. CASE Unwritten(w)
      BY <3>2 DEF Unwritten, NoNewNumber, Stored
    <3> QED BY <3>1, <3>2, WorkerFrame
  <2>4. Low => Low'
    BY <2>3 DEF NoNewNumber, Low
  <2> QED BY <1>1, <1>2, <2>3, <2>4 DEF Numbering, Creating, NoNewNumber
<1>4. Editing(v)'
  <2>1. SUFFICES ASSUME pc[v] = "hook"
                 PROVE  Editing(v)'
    BY <1>1 DEF Editing
  <2>2. store'[ID(v)] = store[ID(v)] /\ ID(v)' = ID(v)
    BY <2>1, ChainRequest, OthersStored DEF Busy, InChainStates
  <2>3. Chain(v)' = Chain(v)
    BY <1>1 DEF Chain
  <2> QED BY <1>1, <1>2, <2>2, <2>3 DEF Numbering, Editing
<1> QED BY <1>1, <1>2, <1>3, <1>4 DEF Numbering

(* A request past its hooks has no number to look after. *)
LEMMA NumberingOver ==
  ASSUME NEW w \in Workers,
         \/ pc'[w] \notin {"idle", "hook", "number"}
         \/ pc'[w] = "idle" /\ largest'[w] = 0
  PROVE  Numbering(w)'
BY DEF Numbering, Creating, Editing

(* Any other hook keeps the number of the draft. *)
LEMMA HookKeepsNumber ==
  ASSUME NEW h \in EditHooks \cup {"set-entity-id", "set-entity-secret",
           "ensure-entity-meta", "validate-entity-unlocked", "validate-entity-secret"},
         NEW d \in Entity, NEW de
  PROVE  HookResult(h, d, de).number = d.number
<1>1. CASE h \in EditHooks
  BY <1>1, EditHooksDistinct DEF HookResult, Entity
<1>2. CASE h \notin EditHooks
  BY <1>2, EditHooksDistinct
  DEF HookResult, SetEntityID, SetEntitySecret, EnsureEntityMeta, Entity
<1> QED BY <1>1, <1>2

(* What every hook of a chain knows of its place. *)
LEMMA HookNumbered ==
  ASSUME IInv, NEW w \in Workers, NEW h, InChain(w, h)
  PROVE  /\ pc[w] = "hook" /\ pc[w] \in InChainStates /\ at[w] \in 1..Len(Chain(w))
         /\ Len(Chain(w)) \in 1..5
         /\ req[w].chain = "CREATE" => Len(Chain(w)) = 5
         /\ req[w].chain \in Chains /\ req[w] \in Requests /\ ID(w) \in Entities
         /\ e[w] \in Entity /\ HookFact(req[w].chain, at[w], h, Len(Chain(w)))
<1>1. pc[w] = "hook" /\ at[w] \in DOMAIN Chain(w) /\ Chain(w)[at[w]] = h
  BY DEF InChain
<1>2. req[w].chain = "CREATE" => Len(Chain(w)) = 5
  <2>1. Len(EntityChain["CREATE"]) = 5
    BY ChainCases
  <2> QED BY <2>1 DEF Chain
<1> QED BY <1>1, <1>2, InChainFacts DEF InChainStates

(* From one hook to the next: loading brings a number, set-entity-number   *)
(* gives one, and the other hooks keep it.                                 *)
LEMMA AdvanceNumbers ==
  ASSUME IInv, NumInv, NEW w \in Workers, NEW h, InChain(w, h),
         h \notin {"set-entity-number", "save-entity", "destroy-entity"},
         pc'[w] = "hook", at'[w] = at[w] + 1, UNCHANGED <<store, req, largest>>,
         IF h = "load-entity" THEN store[ID(w)] # NoEntity /\ e'[w] = store[ID(w)]
                              ELSE e'[w].number = e[w].number
  PROVE  Numbering(w)'
<1>1. /\ pc[w] = "hook" /\ at[w] \in 1..Len(Chain(w)) /\ Len(Chain(w)) \in 1..5
      /\ HookFact(req[w].chain, at[w], h, Len(Chain(w)))
      /\ req[w].chain = "CREATE" => Len(Chain(w)) = 5
  BY HookNumbered
<1>2. Creating(w) /\ Editing(w)
  BY DEF NumInv, Numbering
<1>3. Stored' = Stored /\ ID(w)' = ID(w) /\ Chain(w)' = Chain(w)
  BY DEF Stored, ID, Chain
<1>4. Creating(w)'
  <2>1. SUFFICES ASSUME req[w].chain = "CREATE" PROVE Creating(w)'
    BY DEF Creating
  <2>2. at[w] \in {1, 2, 4} \/ at[w] = 5
    <3>1. at[w] # 3
      <4>1. at[w] = 3 => h = "set-entity-number"
        BY <1>1, <2>1 DEF HookFact
      <4> QED BY <4>1
    <3>2. Len(Chain(w)) = 5
      BY <1>1, <2>1
    <3>3. at[w] \in 1..5
      BY <1>1, <3>2
    <3> QED BY <3>1, <3>3
  <2>3. CASE at[w] \in {1, 2}
    BY <1>1, <1>2, <1>3, <2>1, <2>3 DEF Creating, Low
  <2>4. CASE at[w] = 4
    <3>1. h # "load-entity"
      BY <1>1, <2>4 DEF HookFact
    <3> QED BY <1>1, <1>2, <1>3, <2>1, <2>4, <3>1 DEF Creating
  <2>5. CASE at[w] = 5
    BY <2>5 DEF Creating
  <2> QED BY <2>2, <2>3, <2>4, <2>5
<1>5. Editing(w)'
  <2>1. SUFFICES ASSUME req[w].chain # "CREATE", at[w] + 1 <= Len(Chain(w))
                 PROVE  Editing(w)'
    BY <1>3 DEF Editing
  <2>2. CASE at[w] = 1
    BY <1>1, <1>3, <2>1, <2>2 DEF Editing, HookFact
  <2>3. CASE at[w] # 1
    BY <1>1, <1>2, <1>3, <2>1, <2>3 DEF Editing, HookFact
  <2> QED BY <2>2, <2>3
<1> QED BY <1>4, <1>5 DEF Numbering

(* The hooks that read storage or edit the draft. *)
LEMMA LocalHooksNumber ==
  ASSUME IInv, NumInv, NEW w \in Workers,
         \/ LoadEntity(w) \/ FailOnExistingEntity(w)
         \/ \E h \in Hooks \ StorageHooks : RunHook(w, h)
  PROVE  Numbering(w)'
<1>0. /\ pc \in [Workers -> {"idle", "hook", "number", "notify", "apply", "search", "done"}]
      /\ e \in [Workers -> Entity] /\ at \in [Workers -> 1..6]
  BY DEF IInv, TypeOK
<1>1. UNCHANGED <<store, req, largest>>
  BY DEF LoadEntity, FailOnExistingEntity, RunHook, LocalStep, stateVars
<1>2. CASE \E err \in Errors : Fail(w, err)
  BY <1>0, <1>2, NumberingOver DEF Fail
<1>3. CASE LoadEntity(w) /\ ~\E err \in Errors : Fail(w, err)
  <2>1. /\ InChain(w, "load-entity") /\ store[ID(w)] # NoEntity
        /\ e' = [e EXCEPT ![w] = store[ID(w)]] /\ Advance(w)
    BY <1>3 DEF LoadEntity, Errors
  <2>2. pc'[w] = "hook" /\ at'[w] = at[w] + 1 /\ e'[w] = store[ID(w)]
    BY <1>0, <2>1 DEF Advance
  <2> QED BY <1>1, <2>1, <2>2, AdvanceNumbers
<1>4. CASE FailOnExistingEntity(w) /\ ~\E err \in Errors : Fail(w, err)
  <2>1. InChain(w, "fail-on-existing-entity") /\ Advance(w) /\ e' = e
    BY <1>4 DEF FailOnExistingEntity, Errors
  <2>2. pc'[w] = "hook" /\ at'[w] = at[w] + 1
    BY <1>0, <2>1 DEF Advance
  <2> QED BY <1>1, <2>1, <2>2, AdvanceNumbers
<1>5. CASE \E h \in Hooks \ StorageHooks : RunHook(w, h) /\ ~\E err \in Errors : Fail(w, err)
  <2>1. PICK h \in Hooks \ StorageHooks :
               /\ InChain(w, h) /\ Advance(w)
               /\ e' = [e EXCEPT ![w] = HookResult(h, e[w], req[w].de)]
    BY <1>5 DEF RunHook, Errors
  <2>2. pc'[w] = "hook" /\ at'[w] = at[w] + 1 /\ e'[w] = HookResult(h, e[w], req[w].de)
    BY <1>0, <2>1 DEF Advance
  <2>3. /\ h \notin StorageHooks /\ e[w] \in Entity
        /\ HookFact(req[w].chain, at[w], h, Len(Chain(w)))
    BY <2>1, HookNumbered
  <2>4. h \in EditHooks \cup {"set-entity-id", "set-entity-secret",
           "ensure-entity-meta", "validate-entity-unlocked", "validate-entity-secret"}
    BY <2>3 DEF HookFact
  <2>5. e'[w].number = e[w].number
    <3>1. HookResult(h, e[w], req[w].de).number = e[w].number
      BY <2>3, <2>4, HookKeepsNumber
    <3> QED BY <2>2, <3>1
  <2>6. h \notin {"load-entity", "set-entity-number", "save-entity", "destroy-entity"}
    BY <2>3 DEF StorageHooks
  <2> QED BY <1>1, <2>1, <2>2, <2>5, <2>6, AdvanceNumbers
<1> QED BY <1>2, <1>3, <1>4, <1>5

(* set-entity-number: a scan over storage starts from nothing, ...         *)
LEMMA SetEntityNumberNumbers ==
  ASSUME IInv, NumInv, NEW w \in Workers, SetEntityNumber(w)
  PROVE  Numbering(w)'
<1>0. /\ pc \in [Workers -> {"idle", "hook", "number", "notify", "apply", "search", "done"}]
      /\ at \in [Workers -> 1..6] /\ todo \in [Workers -> SUBSET Entities]
  BY DEF IInv, TypeOK
<1>1. /\ pc[w] = "hook" /\ at[w] = 3 /\ req[w].chain = "CREATE" /\ req[w] \in Requests
      /\ UNCHANGED <<store, req, largest>>
  BY HookNumbered DEF SetEntityNumber, HookFact, LocalStep, stateVars
<1>2. CASE req[w].de.number = AutoNumber
  <2>1. /\ pc' = [pc EXCEPT ![w] = "number"] /\ todo' = [todo EXCEPT ![w] = Stored]
        /\ at' = at
    BY <1>2 DEF SetEntityNumber
  <2>2. pc'[w] = "number" /\ todo'[w] = Stored /\ Stored' = Stored
    BY <1>0, <1>1, <2>1 DEF Stored
  <2>3. Low /\ largest[w] = 0
    BY <1>1, <1>2 DEF NumInv, Numbering, Creating
  <2> QED BY <1>1, <1>2, <2>1, <2>2, <2>3, MaxInt32Assumption
          DEF Numbering, Creating, Editing, Low
<1>3. CASE req[w].de.number # AutoNumber
  <2>1. pc'[w] = "hook"
    BY <1>0, <1>3 DEF SetEntityNumber, Advance
  <2> QED BY <1>1, <1>3, <2>1 DEF Numbering, Creating, Editing
<1> QED BY <1>2, <1>3

(* ... remembers the largest number, ...                                   *)
LEMMA ScanNumbers ==
  ASSUME NumbersInRange, IInv, NumInv, NEW w \in Workers, NEW x \in Entities,
         ScanNumber(w, x)
  PROVE  Numbering(w)'
<1>0. /\ pc \in [Workers -> {"idle", "hook", "number", "notify", "apply", "search", "done"}]
      /\ todo \in [Workers -> SUBSET Entities] /\ largest \in [Workers -> 0..MaxInt32]
      /\ store \in [Entities -> Entity \cup {NoEntity}]
  BY DEF IInv, TypeOK
<1>1. CASE \E err \in Errors : Fail(w, err)
  BY <1>0, <1>1, NumberingOver DEF Fail
<1>2. CASE ~\E err \in Errors : Fail(w, err)
  <2>1. /\ pc[w] = "number" /\ store[x] # NoEntity
        /\ todo' = [todo EXCEPT ![w] = @ \ {x}]
        /\ largest' = [largest EXCEPT ![w] =
                         IF store[x].number > @ THEN store[x].number ELSE @]
        /\ UNCHANGED <<pc, at, store, req>>
    BY <1>2 DEF ScanNumber, Errors, LocalStep, stateVars
  <2>2. at[w] = 3 /\ req[w].chain = "CREATE"
    BY <2>1, InChainFacts DEF IInv, Placed, InChainStates, HookFact
  <2>3. /\ Low /\ largest[w] < MaxInt32 /\ req[w].de.number = AutoNumber
        /\ \A y \in Stored \ todo[w] : store[y].number <= largest[w]
    BY <2>1, <2>2 DEF NumInv, Numbering, Creating
  <2>4. /\ todo'[w] = todo[w] \ {x}
        /\ largest'[w] = IF store[x].number > largest[w] THEN store[x].number ELSE largest[w]
        /\ Stored' = Stored
    BY <1>0, <2>1 DEF Stored
  <2>5. \A y \in Stored : store[y].number \in Int
    BY <1>0 DEF Stored, Entity, Numbers
  <2>6. x \in Stored /\ store[x].number < MaxInt32 /\ largest[w] \in Int
    <3>1. x \in Stored
      BY <2>1 DEF Stored
    <3> QED BY <1>0, <2>3, <2>5, <3>1, MaxInt32Assumption, OptionsAssumption
            DEF Low, NumbersInRange
  <2>7. largest'[w] < MaxInt32
    BY <2>3, <2>4, <2>6
  <2>8. \A y \in Stored \ todo'[w] : store[y].number <= largest'[w]
    BY <2>3, <2>4, <2>5, <2>6
  <2> QED BY <2>1, <2>2, <2>3, <2>4, <2>7, <2>8 DEF Numbering, Creating, Editing, Low
<1> QED BY <1>1, <1>2

(* ... and gives the draft the next one.                                   *)
LEMMA AssignNumbers ==
  ASSUME IInv, NumInv, NEW w \in Workers, AssignNumber(w)
  PROVE  Numbering(w)'
<1>0. /\ pc \in [Workers -> {"idle", "hook", "number", "notify", "apply", "search", "done"}]
      /\ e \in [Workers -> Entity] /\ at \in [Workers -> 1..6]
      /\ largest \in [Workers -> 0..MaxInt32]
      /\ store \in [Entities -> Entity \cup {NoEntity}]
  BY DEF IInv, TypeOK
<1>1. /\ pc[w] = "number" /\ todo[w] = {} /\ UNCHANGED <<store, req>>
      /\ e' = [e EXCEPT ![w].number = Increment(largest[w])] /\ Advance(w)
  BY DEF AssignNumber, LocalStep, stateVars
<1>2. at[w] = 3 /\ req[w].chain = "CREATE"
  BY <1>1, InChainFacts DEF IInv, Placed, InChainStates, HookFact
<1>3. pc'[w] = "hook" /\ at'[w] = 4
  BY <1>0, <1>1, <1>2 DEF Advance
<1>4. /\ largest[w] < MaxInt32 /\ \A x \in Stored : store[x].number <= largest[w]
      /\ req[w].de.number = AutoNumber
  BY <1>1, <1>2 DEF NumInv, Numbering, Creating
<1>5. e'[w].number = Increment(largest[w])
  BY <1>0, <1>1 DEF Entity
<1>6. Increment(largest[w]) = largest[w] + 1
  BY <1>0, <1>4, MaxInt32Assumption DEF Increment
<1>7. e'[w].number > 0 /\ \A x \in Stored' : store'[x].number < e'[w].number
  <2>1. \A x \in Stored : store[x].number \in Int
    BY <1>0 DEF Stored, Entity, Numbers
  <2>2. Stored' = Stored
    BY <1>1 DEF Stored
  <2> QED BY <1>0, <1>1, <1>4, <1>5, <1>6, <2>1, <2>2, MaxInt32Assumption
<1> QED BY <1>1, <1>2, <1>3, <1>4, <1>7 DEF Numbering, Creating, Editing

(* A step of w keeps what is known of the numbers true. *)
LEMMA WorkerNumbers ==
  ASSUME NumbersInRange, IInv, Apart, NumInv, NEW w \in Workers, WorkerStep(w)
  PROVE  NumInv'
<1>0. /\ pc \in [Workers -> {"idle", "hook", "number", "notify", "apply", "search", "done"}]
      /\ at \in [Workers -> 1..6] /\ largest \in [Workers -> 0..MaxInt32]
  BY DEF IInv, TypeOK
<1>2. \A v \in Workers \ {w} : Numbering(v)'
  BY OthersKeepNumbers
<1>3. Numbering(w)'
  <2>1. CASE \/ LoadEntity(w) \/ FailOnExistingEntity(w)
             \/ \E h \in Hooks \ StorageHooks : RunHook(w, h)
    BY <2>1, LocalHooksNumber
  <2>2. CASE SetEntityNumber(w) \/ AssignNumber(w) \/ \E x \in Entities : ScanNumber(w, x)
    BY <2>2, SetEntityNumberNumbers, ScanNumbers, AssignNumbers
  <2>3. CASE SaveEntity(w) \/ DeleteEntity(w)
    <3>1. pc'[w] \in {"notify", "done"}
      BY <1>0, <2>3, SaveFrame DEF Writes, Fail
    <3> QED BY <3>1, NumberingOver
  <2>4. CASE \/ \E c \in Callbacks : CallbackRemove(w, c) \/ CallbackLoad(w, c)
             \/ CallbackApply(w)
    <3>1. pc'[w] \in {"notify", "apply"}
      BY <1>0, <2>4 DEF CallbackRemove, CallbackLoad, CallbackApply
    <3> QED BY <3>1, NumberingOver
  <2>5. CASE FinishWrite(w)
    <3>1. /\ pc[w] \in InChainStates /\ at[w] \in DOMAIN Chain(w)
          /\ Chain(w)[at[w]] \in {"save-entity", "destroy-entity"}
      BY <2>5 DEF FinishWrite, IInv, Placed, InChainStates
    <3>2. /\ at[w] = Len(Chain(w)) /\ at[w] \in 1..5
          /\ req[w].chain = "CREATE" => at[w] = 5
      <4>1. at[w] = Len(Chain(w)) /\ Len(Chain(w)) \in 1..5
        BY <3>1, InChainFacts DEF HookFact
      <4>2. Len(EntityChain["CREATE"]) = 5
        BY ChainCases
      <4> QED BY <4>1, <4>2 DEF Chain
    <3>3. pc'[w] = "hook" /\ req' = req
      BY <1>0, <2>5 DEF FinishWrite, Advance
    <3>4. at'[w] = at[w] + 1
      BY <1>0, <2>5 DEF FinishWrite, Advance
    <3>5. at[w] \in 1..5 /\ (req[w].chain = "CREATE" => at[w] = 5)
      BY <3>2
    <3>6. at'[w] \in 2..6 /\ (req[w].chain = "CREATE" => at'[w] = 6) /\ at'[w] > at[w]
      BY <3>4, <3>5
    <3>7. Creating(w)'
      BY <3>3, <3>6 DEF Creating
    <3>8. Editing(w)'
      <4>1. Len(Chain(w))' = at[w]
        BY <3>2, <3>3 DEF Chain
      <4> QED BY <3>5, <3>6, <4>1 DEF Editing
    <3> QED BY <3>3, <3>7, <3>8 DEF Numbering
  <2>6. CASE FinishChain(w) \/ FinishSearch(w) \/ Return(w)
             \/ \E x \in Entities : SearchLoad(w, x)
    <3>1. pc'[w] \in {"done", "search"} \/ (pc'[w] = "idle" /\ largest'[w] = 0)
      BY <1>0, <2>6 DEF FinishChain, FinishSearch, Return, SearchLoad, Fail
    <3> QED BY <3>1, NumberingOver
  <2> QED BY <2>1, <2>2, <2>3, <2>4, <2>5, <2>6 DEF WorkerStep
<1> QED BY <1>2, <1>3 DEF NumInv

(* The invariant is inductive. *)
LEMMA NextNumbers ==
  ASSUME NumbersInRange
  PROVE  IInv /\ Apart /\ NumInv /\ [Next]_vars => NumInv'
<1> SUFFICES ASSUME IInv, Apart, NumInv, [Next]_vars PROVE NumInv'
  OBVIOUS
<1>0. /\ pc \in [Workers -> {"idle", "hook", "number", "notify", "apply", "search", "done"}]
      /\ req \in [Workers -> AnyRequest \cup {NoRequest}]
  BY DEF IInv, TypeOK
<1>1. ASSUME store' = store PROVE Stored' = Stored
  BY <1>1 DEF Stored
<1>2. ASSUME NEW w \in Workers, NEW r \in Requests, Begin(w, r) PROVE NumInv'
  <2>1. /\ pc[w] = "idle" /\ at[w] = 1 /\ largest[w] = 0
    BY <1>2 DEF Begin, Busy, IInv, Placed, NumInv, Numbering
  <2>2. /\ pc' = [pc EXCEPT ![w] = "hook"] /\ req' = [req EXCEPT ![w] = r]
        /\ UNCHANGED <<store, at, e, todo, largest>>
    BY <1>2 DEF Begin, stateVars
  <2>3. r.chain = "CREATE" /\ r.de.number = AutoNumber => Low
    BY <1>2 DEF Begin, InBounds, Low
  <2>4. Numbering(w)'
    BY <1>0, <1>1, <2>1, <2>2, <2>3 DEF Numbering, Creating, Editing, Low
  <2>5. ASSUME NEW v \in Workers, v # w PROVE Numbering(v)'
    BY <1>0, <1>1, <2>2, <2>5 DEF NumInv, Numbering, Creating, Editing, Low, ID, Chain
  <2> QED BY <1>1, <2>2, <2>4, <2>5 DEF NumInv
<1>3. ASSUME NEW w \in Workers, BeginSearch(w) PROVE NumInv'
  <2>1. /\ pc' = [pc EXCEPT ![w] = "search"] /\ req' = [req EXCEPT ![w] = SearchRequest]
        /\ \A v \in Workers : v # w => todo'[v] = todo[v]
        /\ UNCHANGED <<store, at, e, largest>>
    BY <1>3 DEF BeginSearch, stateVars, IInv, TypeOK
  <2>2. ASSUME NEW v \in Workers PROVE Numbering(v)'
    BY <1>0, <1>1, <2>1 DEF NumInv, Numbering, Creating, Editing, Low, ID, Chain
  <2> QED BY <1>1, <2>1, <2>2 DEF NumInv
<1>4. CASE Boot \/ UNCHANGED vars
  <2>1. UNCHANGED <<store, pc, req, at, e, todo, largest>>
    BY <1>4 DEF Boot, Preload, vars, stateVars, workerVars
  <2> QED BY <1>1, <2>1 DEF NumInv, Numbering, Creating, Editing, Low, ID, Chain
<1>5. CASE Crash
  <2>1. store' = store /\ \A w \in Workers : pc'[w] = "idle" /\ largest'[w] = 0
    BY <1>5 DEF Crash
  <2> QED BY <1>1, <2>1, NumberingOver DEF NumInv
<1> QED BY <1>2, <1>3, <1>4, <1>5, WorkerNumbers DEF Next

LEMMA InitNumbers == Init => NumInv
BY DEF Init, NumInv, Numbering, Creating, Editing

(* Clients keep conflicting requests apart and leave numbers to the tree,  *)
(* no two entities share one to begin with, and none gets past MaxInt32.   *)
NumbersAssigned ==
  /\ Exclusive /\ NumbersInRange
  /\ \A r \in Requests : r.chain = "CREATE" => r.de.number = AutoNumber
  /\ \A p \in Populations : \A x, y \in Entities :
       p[x] # NoEntity /\ p[y] # NoEntity /\ p[x].number = p[y].number => x = y

(* A step keeps the numbers apart. *)
LEMMA NextUnique ==
  ASSUME NumbersAssigned
  PROVE  IInv /\ NumInv /\ NumbersUnique /\ [Next]_vars => NumbersUnique'
<1> SUFFICES ASSUME IInv, NumInv, NumbersUnique, [Next]_vars PROVE NumbersUnique'
  OBVIOUS
<1>1. CASE store' = store
  BY <1>1 DEF NumbersUnique, Stored
<1>2. ASSUME NEW w \in Workers, Writes(w) PROVE NumbersUnique'
  <2>1. CASE req[w].chain # "CREATE"
    <3>1. NoNewNumber
      BY <1>2, <2>1, WriteNumbers
    <3> QED BY <3>1 DEF NumbersUnique, NoNewNumber
  <2>2. CASE req[w].chain = "CREATE"
    <3>1. /\ e[w] \in Entity /\ ID(w) \in Entities /\ req[w] \in Requests
          /\ store \in [Entities -> Entity \cup {NoEntity}]
      BY <1>2, InChainFacts DEF Writes, InChainStates, IInv, TypeOK
    <3>2. /\ store' = [store EXCEPT ![ID(w)] = e[w]]
          /\ \A x \in Stored : store[x].number < e[w].number
      BY <1>2, <2>2, <3>1, CreationNumbers DEF NumbersAssigned
    <3>3. ASSUME NEW x \in Stored', x # ID(w)
          PROVE  x \in Stored /\ store'[x] = store[x] /\ store[x].number # e[w].number
      <4>1. x \in Stored /\ store'[x] = store[x]
        BY <3>1, <3>2, <3>3 DEF Stored
      <4>2. store[x].number \in Int /\ e[w].number \in Int
        BY <3>1, <4>1 DEF Stored, Entity, Numbers
      <4> QED BY <3>2, <4>1, <4>2
    <3>4. store'[ID(w)] = e[w]
      BY <3>1, <3>2
    <3> QED BY <3>3, <3>4 DEF NumbersUnique
  <2> QED BY <2>1, <2>2
<1>3. ASSUME NEW w \in Workers, WorkerStep(w) PROVE NumbersUnique'
  BY <1>1, <1>2, <1>3, WorkerFrame DEF Unwritten
<1>4. ASSUME ~\E w \in Workers : WorkerStep(w) PROVE store' = store
  BY <1>4 DEF Next, Begin, BeginSearch, Boot, Preload, Crash, vars, stateVars
<1> QED BY <1>1, <1>3, <1>4

(* No two entities ever share a number that the tree assigned, although    *)
(* the search for the largest number holds no lock: the requests that run  *)
(* next to a creation save what they loaded with the number that it has.   *)
THEOREM EntityNumbersStayUnique ==
  ASSUME NumbersAssigned
  PROVE  Spec => []NumbersUnique
<1>1. Init => NumbersUnique
  BY DEF Init, NumbersUnique, NumbersAssigned, Stored
<1>2. Exclusive /\ NumbersInRange
  BY DEF NumbersAssigned
<1> QED BY <1>1, <1>2, InitNumbers, NextNumbers, NextUnique, ApartInvariant, PTL DEF Spec

-----------------------------------------------------------------------------
(* Creations.                                                              *)

(* Nothing is stored under the ID of a creation that has looked for it.    *)
Fresh(w) ==
  pc[w] \in {"hook", "number"} /\ req[w].chain = "CREATE" /\ at[w] \in 2..5 =>
    store[ID(w)] = NoEntity

AllFresh == \A w \in Workers : Fresh(w)

LEMMA OwnFresh ==
  ASSUME LoadsSucceed, IInv, AllFresh, NEW w \in Workers, WorkerStep(w)
  PROVE  Fresh(w)'
<1>0. /\ pc \in [Workers -> {"idle", "hook", "number", "notify", "apply", "search", "done"}]
      /\ at \in [Workers -> 1..6]
  BY DEF IInv, TypeOK
<1>1. SUFFICES ASSUME pc'[w] \in {"hook", "number"}, req'[w].chain = "CREATE", at'[w] \in 2..5
               PROVE  store'[ID(w)'] = NoEntity
  BY DEF Fresh
<1>2. req'[w] = req[w] /\ ID(w)' = ID(w) /\ store' = store
  BY <1>1, WorkerFrame DEF Writes, Unwritten, ID
<1>3. CASE pc[w] \in {"hook", "number"} /\ at[w] \in 2..5
  BY <1>1, <1>2, <1>3 DEF AllFresh, Fresh
<1>4. CASE LoadEntity(w) \/ FailOnExistingEntity(w)
  <2>1. ~LoadEntity(w)
    BY <1>1, <1>2, HookNumbered DEF LoadEntity, HookFact
  <2>2. store[ID(w)] = NoEntity
    BY <1>0, <1>1, <1>4, <2>1 DEF FailOnExistingEntity, Fail, LoadsSucceed
  <2> QED BY <1>2, <2>2
<1>5. CASE SetEntityNumber(w) \/ AssignNumber(w) \/ \E x \in Entities : ScanNumber(w, x)
  <2>1. pc[w] \in {"hook", "number"} /\ pc[w] \in InChainStates
        /\ at[w] \in DOMAIN Chain(w) /\ Chain(w)[at[w]] = "set-entity-number"
    BY <1>5 DEF SetEntityNumber, AssignNumber, ScanNumber, InChain, IInv, Placed, InChainStates
  <2>2. at[w] = 3
    BY <2>1, InChainFacts DEF HookFact
  <2> QED BY <1>3, <2>1, <2>2
<1>6. CASE \E h \in Hooks \ StorageHooks : RunHook(w, h)
  <2>1. PICK h \in Hooks \ StorageHooks : InChain(w, h)
    BY <1>6 DEF RunHook
  <2>2. /\ HookFact(req[w].chain, at[w], h, Len(Chain(w)))
        /\ at[w] \in 1..5 /\ pc[w] = "hook"
    <3>1. Len(Chain(w)) = 5
      BY <1>1, <1>2, <2>1, HookNumbered
    <3> QED BY <2>1, <3>1, HookNumbered
  <2>3. at[w] # 1
    BY <1>1, <1>2, <2>2 DEF HookFact, StorageHooks
  <2> QED BY <1>3, <2>2, <2>3
<1>7. CASE FinishWrite(w)
  <2>1. /\ pc[w] \in InChainStates /\ at[w] \in DOMAIN Chain(w)
        /\ Chain(w)[at[w]] \in {"save-entity", "destroy-entity"}
    BY <1>7 DEF FinishWrite, IInv, Placed, InChainStates
  <2>2. at[w] = Len(Chain(w))
    BY <2>1, InChainFacts DEF HookFact
  <2>3. Len(EntityChain["CREATE"]) = 5
    BY ChainCases
  <2>4. at[w] = 5
    BY <1>1, <1>2, <2>2, <2>3 DEF Chain
  <2>5. at'[w] = at[w] + 1
    BY <1>0, <1>7 DEF FinishWrite, Advance
  <2> QED BY <1>1, <2>4, <2>5
<1>8. CASE SaveEntity(w) \/ DeleteEntity(w)
  BY <1>0, <1>1, <1>8, SaveFrame DEF Writes, Fail
<1>9. CASE \/ \E c \in Callbacks : CallbackRemove(w, c) \/ CallbackLoad(w, c)
           \/ CallbackApply(w) \/ FinishChain(w) \/ FinishSearch(w) \/ Return(w)
           \/ \E x \in Entities : SearchLoad(w, x)
  BY <1>0, <1>1, <1>9 DEF CallbackRemove, CallbackLoad, CallbackApply, FinishChain,
     FinishSearch, Return, SearchLoad, Fail
<1> QED BY <1>4, <1>5, <1>6, <1>7, <1>8, <1>9 DEF WorkerStep

(* The invariant is inductive: no one else writes under that ID. *)
LEMMA NextFresh ==
  ASSUME LoadsSucceed
  PROVE  IInv /\ Apart /\ AllFresh /\ [Next]_vars => AllFresh'
<1> SUFFICES ASSUME IInv, Apart, AllFresh, [Next]_vars PROVE AllFresh'
  OBVIOUS
<1>1. ASSUME NEW w \in Workers, WorkerStep(w), NEW v \in Workers, v # w PROVE Fresh(v)'
  <2>1. /\ pc'[v] = pc[v] /\ req'[v] = req[v] /\ at'[v] = at[v]
    BY <1>1, WorkerFrame DEF OthersAsTheyWere
  <2>2. pc[v] \in {"hook", "number"} => store'[ID(v)] = store[ID(v)] /\ ID(v)' = ID(v)
    BY <1>1, ChainRequest, OthersStored DEF Busy, InChainStates
  <2> QED BY <2>1, <2>2 DEF AllFresh, Fresh
<1>2. ASSUME NEW w \in Workers, BeginSearch(w) \/ \E r \in Requests : Begin(w, r)
      PROVE  AllFresh'
  <2>1. pc[w] = "idle" /\ at[w] = 1 /\ UNCHANGED <<store, at>>
    BY <1>2 DEF BeginSearch, Begin, Busy, stateVars, IInv, Placed
  <2>2. \A v \in Workers : v # w => pc'[v] = pc[v] /\ req'[v] = req[v]
    BY <1>2 DEF BeginSearch, Begin, IInv, TypeOK
  <2> QED BY <2>1, <2>2 DEF AllFresh, Fresh, ID
<1>3. CASE Boot \/ UNCHANGED vars
  BY <1>3 DEF Boot, Preload, vars, stateVars, workerVars, AllFresh, Fresh, ID
<1>4. CASE Crash
  BY <1>4 DEF Crash, AllFresh, Fresh
<1> QED BY <1>1, <1>2, <1>3, <1>4, OwnFresh DEF Next, AllFresh

-----------------------------------------------------------------------------
(* Searches.                                                               *)

(* While a search is under way storage has whatever the index named to it: *)
(* no chain runs next to it.  And no write races the callbacks of another. *)
Finds(w) ==
  /\ pc[w] = "search" => todo[w] \subseteq Stored
  /\ pc[w] = "done" /\ req[w].chain = "SEARCH" => reply[w] = "ok"

SearchInv == raced = {} /\ \A w \in Workers : Finds(w)

(* No search runs next to a chain. *)
LEMMA NoSearchNext ==
  ASSUME IInv, Apart, NEW w \in Workers, req[w].chain \in Chains, Busy(w),
         NEW v \in Workers, Busy(v), req[v].chain = "SEARCH"
  PROVE  FALSE
<1>1. "SEARCH" \notin Chains
  BY DEF Chains, EditChains, EditHook
<1> QED BY <1>1 DEF Apart, Conflict

(* A write meets no callbacks for its ID. *)
LEMMA NothingRaced ==
  ASSUME IInv, Apart, SearchInv, NEW w \in Workers, SaveEntity(w) \/ DeleteEntity(w)
  PROVE  raced' = {}
<1>0. /\ pc[w] \in InChainStates /\ pc[w] = "hook" /\ at[w] \in DOMAIN Chain(w)
      /\ Chain(w)[at[w]] \in {"save-entity", "destroy-entity"}
  BY DEF SaveEntity, DeleteEntity, InChain, InChainStates
<1>1. /\ ID(w) \in Entities /\ e[w].id = ID(w) /\ e[w].id # NoID
      /\ req[w].chain \in Chains /\ Busy(w)
  BY <1>0, InChainFacts, ZeroValuesAssumption DEF HookFact, IInv, Drafted, Busy
<1>2. ASSUME NEW u \in Workers \ {w}, Notifying(u, ID(w)) PROVE FALSE
  <2>1. /\ pc[u] \in InChainStates /\ at[u] \in DOMAIN Chain(u)
        /\ Chain(u)[at[u]] \in {"save-entity", "destroy-entity"} /\ Busy(u)
    BY <1>2 DEF Notifying, IInv, Placed, InChainStates, Busy
  <2>2. e[u].id = ID(u) /\ req[u].chain \in Chains
    BY <2>1, InChainFacts DEF HookFact, IInv, Drafted
  <2>3. ID(u) = ID(w)
    BY <1>2, <2>2 DEF Notifying
  <2>4. "SEARCH" \notin Chains
    BY DEF Chains, EditChains, EditHook
  <2> QED BY <1>1, <2>1, <2>2, <2>3, <2>4 DEF Apart, Conflict, ID
<1>3. raced' = raced \/ \E v : Write(w, ID(w), v)
  BY <1>1 DEF SaveEntity, DeleteEntity, LocalStep
<1>4. ASSUME NEW v, Write(w, ID(w), v) PROVE raced' = {}
  BY <1>2, <1>4 DEF Write, SearchInv
<1> QED BY <1>3, <1>4 DEF SearchInv

(* The invariant is inductive. *)
LEMMA NextSearch ==
  ASSUME LoadsSucceed, Exclusive
  PROVE  IInv /\ CInv /\ Apart /\ SearchInv /\ [Next]_vars => SearchInv'
<1> SUFFICES ASSUME IInv, CInv, Apart, SearchInv, [Next]_vars PROVE SearchInv'
  OBVIOUS
<1>0. /\ pc \in [Workers -> {"idle", "hook", "number", "notify", "apply", "search", "done"}]
      /\ req \in [Workers -> AnyRequest \cup {NoRequest}]
      /\ todo \in [Workers -> SUBSET Entities]
      /\ reply \in [Workers -> {"none", "ok"} \cup Errors]
  BY DEF IInv, TypeOK
<1>1. ASSUME NEW w \in Workers, WorkerStep(w), NEW v \in Workers, v # w PROVE Finds(v)'
  <2>1. /\ pc'[v] = pc[v] /\ req'[v] = req[v] /\ todo'[v] = todo[v] /\ reply'[v] = reply[v]
    BY <1>1, WorkerFrame DEF OthersAsTheyWere
  <2>2. pc[v] = "search" => store' = store
    <3>1. CASE pc[v] = "search" /\ Writes(w)
      <4>1. Busy(v) /\ req[v].chain = "SEARCH"
        BY <3>1 DEF Busy, IInv, Placed, SearchRequest
      <4>2. Busy(w) /\ req[w].chain \in Chains
        BY <3>1, ChainRequest DEF Writes, InChainStates, Busy
      <4> QED BY <4>1, <4>2, NoSearchNext
    <3> QED BY <1>1, <3>1, WorkerFrame DEF Unwritten
  <2> QED BY <2>1, <2>2 DEF SearchInv, Finds, Stored
<1>2. ASSUME NEW w \in Workers, WorkerStep(w) PROVE Finds(w)' /\ raced' = {}
  <2>1. CASE SaveEntity(w) \/ DeleteEntity(w)
    <3>1. pc'[w] \in {"notify", "done"} /\ req' = req /\ pc[w] = "hook"
      BY <1>0, <2>1, SaveFrame DEF Writes, Fail, SaveEntity, DeleteEntity, InChain, InChainStates
    <3>2. req[w].chain # "SEARCH"
      BY <3>1, ChainRequest DEF InChainStates, Chains, EditChains, EditHook
    <3> QED BY <2>1, <3>1, <3>2, NothingRaced DEF Finds
  <2>2. CASE \E x \in Entities : SearchLoad(w, x)
    <3>1. PICK x \in Entities : SearchLoad(w, x)
      BY <2>2
    <3>2. store[x] # NoEntity
      BY <3>1 DEF SearchLoad, SearchInv, Finds, Stored
    <3>3. /\ todo' = [todo EXCEPT ![w] = @ \ {x}] /\ pc[w] = "search"
          /\ UNCHANGED <<pc, store, raced>>
      BY <3>1, <3>2 DEF SearchLoad, LoadsSucceed, LocalStep, stateVars
    <3> QED BY <1>0, <3>3 DEF Finds, SearchInv, Stored
  <2>3. CASE FinishSearch(w)
    <3>1. pc'[w] = "done" /\ reply'[w] = "ok" /\ raced' = raced
      BY <1>0, <2>3 DEF FinishSearch, LocalStep
    <3> QED BY <3>1 DEF Finds, SearchInv
  <2>4. CASE Return(w)
    <3>1. pc'[w] = "idle" /\ raced' = raced
      BY <1>0, <2>4 DEF Return
    <3> QED BY <3>1 DEF Finds, SearchInv
  <2>5. CASE \/ LoadEntity(w) \/ FailOnExistingEntity(w) \/ SetEntityNumber(w)
             \/ AssignNumber(w) \/ FinishChain(w)
             \/ \E x \in Entities : ScanNumber(w, x)
             \/ \E h \in Hooks \ StorageHooks : RunHook(w, h)
    <3>1. pc[w] \in {"hook", "number"} /\ UNCHANGED <<req, raced>>
      BY <2>5 DEF LoadEntity, FailOnExistingEntity, SetEntityNumber, AssignNumber,
         FinishChain, ScanNumber, RunHook, InChain, LocalStep
    <3>2. pc'[w] # "search"
      BY <1>0, <2>5 DEF LoadEntity, FailOnExistingEntity, SetEntityNumber, AssignNumber,
         FinishChain, ScanNumber, RunHook, Advance, Fail
    <3>3. req[w].chain # "SEARCH"
      BY <3>1, ChainRequest DEF InChainStates, Chains, EditChains, EditHook
    <3> QED BY <3>1, <3>2, <3>3 DEF Finds, SearchInv
  <2>6. CASE \/ \E c \in Callbacks : CallbackRemove(w, c) \/ CallbackLoad(w, c)
             \/ CallbackApply(w) \/ FinishWrite(w)
    <3>1. pc'[w] \in {"notify", "apply", "hook"} /\ raced' = raced
      BY <1>0, <2>6 DEF CallbackRemove, CallbackLoad, CallbackApply, FinishWrite, Advance
    <3> QED BY <3>1 DEF Finds, SearchInv
  <2> QED BY <1>2, <2>1, <2>2, <2>3, <2>4, <2>5, <2>6 DEF WorkerStep
<1>3. ASSUME NEW w \in Workers, BeginSearch(w) PROVE SearchInv'
  <2>1. /\ Serving /\ Admissible(SearchRequest)
        /\ todo' = [todo EXCEPT ![w] = {x \in Entities : index[x] # NoEntity}]
        /\ pc' = [pc EXCEPT ![w] = "search"] /\ req' = [req EXCEPT ![w] = SearchRequest]
        /\ UNCHANGED <<store, raced, reply>>
    BY <1>3 DEF BeginSearch, stateVars
  <2>2. ASSUME NEW u \in Workers, NEW x PROVE ~Notifying(u, x)
    <3>1. SUFFICES ASSUME pc[u] \in {"notify", "apply"} PROVE FALSE
      BY DEF Notifying
    <3>2. req[u].chain \in Chains /\ Busy(u)
      BY <3>1, ChainRequest DEF InChainStates, Busy
    <3>3. "SEARCH" \notin Chains
      BY DEF Chains, EditChains, EditHook
    <3> QED BY <2>1, <3>2, <3>3 DEF Admissible, Conflict, SearchRequest
  <2>3. ASSUME NEW x \in Entities PROVE index[x] = store[x]
    <3>1. AgreesOn("BleveSearch", x)
      BY <2>1, <2>2 DEF CInv, Told, WillTell, Serving, Callbacks, SearchInv
    <3> QED BY <3>1 DEF AgreesOn
  <2>4. todo'[w] \subseteq Stored /\ pc'[w] = "search"
    BY <1>0, <2>1, <2>3 DEF Stored
  <2>5. \A v \in Workers : v # w =>
          pc'[v] = pc[v] /\ req'[v] = req[v] /\ todo'[v] = todo[v] /\ reply'[v] = reply[v]
    BY <1>0, <2>1
  <2> QED BY <2>1, <2>4, <2>5 DEF SearchInv, Finds, Stored
<1>4. ASSUME NEW w \in Workers, NEW r \in Requests, Begin(w, r) PROVE SearchInv'
  <2>1. /\ pc' = [pc EXCEPT ![w] = "hook"] /\ req' = [req EXCEPT ![w] = r]
        /\ UNCHANGED <<store, raced, reply, todo>>
    BY <1>4 DEF Begin, stateVars
  <2>2. \A v \in Workers : v # w => pc'[v] = pc[v] /\ req'[v] = req[v]
    BY <1>0, <2>1
  <2>3. pc'[w] = "hook"
    BY <1>0, <2>1
  <2> QED BY <2>1, <2>2, <2>3 DEF SearchInv, Finds, Stored
<1>5. CASE Boot \/ UNCHANGED vars
  BY <1>5 DEF Boot, Preload, vars, stateVars, workerVars, SearchInv, Finds, Stored
<1>6. CASE Crash
  BY <1>6 DEF Crash, SearchInv, Finds
<1> QED BY <1>1, <1>2, <1>3, <1>4, <1>5, <1>6 DEF Next, SearchInv

-----------------------------------------------------------------------------
(* What clients have been told.                                            *)

(***************************************************************************)
(* The inductive invariant.  An entity that clients know cannot            *)
(* authenticate is gone or locked, and whoever is at work on it holds it   *)
(* locked and never gets past the hook that asks (Barring); a chain that   *)
(* locks or removes has done so once it has written (Effected).            *)
(***************************************************************************)
Shut(x) == store[x] = NoEntity \/ IsLocked(store[x])

PastWrite(w) ==
  \/ pc[w] \in {"notify", "apply"}
  \/ pc[w] = "hook" /\ at[w] > Len(Chain(w))
  \/ pc[w] = "done" /\ reply[w] = "ok"

Effected(w) ==
  /\ req[w].chain = "LOCK" /\ pc[w] = "hook" /\ at[w] = 4 => IsLocked(e[w])
  /\ req[w].chain \in Bars /\ PastWrite(w) => Shut(ID(w))

Barring(w) ==
  Busy(w) /\ req[w].chain \in Chains /\ ID(w) \in barred =>
    /\ req[w].chain \notin Reopens
    /\ pc[w] = "hook" /\ at[w] \in 2..Len(Chain(w)) => IsLocked(e[w])
    /\ req[w].chain = "VALIDATE_IDENTITY" =>
         /\ pc[w] \in InChainStates => at[w] <= 2
         /\ pc[w] = "done" => reply[w] \in Errors

Refusable(w) == Busy(w) /\ req[w].chain \in Chains /\ ID(w) \in barred

AckInv ==
  /\ barred \subseteq Entities /\ \A x \in barred : Shut(x)
  /\ \A w \in Workers : Effected(w) /\ Barring(w)
  /\ refusable \subseteq Workers /\ \A w \in refusable : Refusable(w)

(* The chains in question. *)
LEMMA AckChains ==
  ASSUME NEW w
  PROVE  /\ req[w].chain = "LOCK" =>
              /\ Len(Chain(w)) = 4
              /\ Chain(w)[1] = "load-entity" /\ Chain(w)[2] = "ensure-entity-meta"
              /\ Chain(w)[3] = "lock-entity" /\ Chain(w)[4] = "save-entity"
         /\ req[w].chain = "DESTROY" =>
              /\ Len(Chain(w)) = 2
              /\ Chain(w)[1] = "load-entity" /\ Chain(w)[2] = "destroy-entity"
         /\ req[w].chain = "VALIDATE_IDENTITY" =>
              Len(Chain(w)) = 4 /\ Chain(w)[2] = "validate-entity-unlocked"
<1>1. ASSUME req[w].chain = "LOCK"
      PROVE  Chain(w) = <<"load-entity", "ensure-entity-meta", "lock-entity", "save-entity">>
  <2>1. "LOCK" \in EditChains /\ EditHook["LOCK"] = "lock-entity"
    BY DEF EditChains, EditHook
  <2> QED BY <1>1, <2>1, ChainCases DEF Chain
<1>2. ASSUME req[w].chain = "DESTROY"
      PROVE  Chain(w) = <<"load-entity", "destroy-entity">>
  BY <1>2, ChainCases DEF Chain
<1> QED BY <1>1, <1>2, ValidateChain

(* No hook but those of UNLOCK and MERGE-METADATA opens a locked draft,    *)
(* and that of LOCK locks any.                                             *)
LEMMA HookKeepsLock ==
  ASSUME NEW d \in Entity, NEW de \in DataEntity,
         NEW h \in EditHooks \cup {"set-entity-id", "set-entity-secret",
           "ensure-entity-meta", "validate-entity-unlocked", "validate-entity-secret"},
         h \notin {"unlock-entity", "merge-entity-meta"}, d.meta # NoMeta,
         IsLocked(d) \/ h = "lock-entity"
  PROVE  IsLocked(HookResult(h, d, de))
<1>0. d.meta \in Meta /\ RequestMeta(de) \in Meta
  BY RequestMetaType DEF Entity
<1>1. CASE h \in EditHooks
  <2> DEFINE m == EditedMeta(h, d.meta, RequestMeta(de))
  <2>1. h \in {"set-entity-capability", "remove-entity-capability", "add-entity-key",
               "del-entity-key", "lock-entity",
               "add-untyped-metadata", "del-untyped-metadata-fuzzy",
               "del-untyped-metadata-exact", "kv-add", "kv-del", "kv-replace",
               "add-direct-group", "del-direct-group"}
    BY <1>1 DEF EditHooks, EditChains, EditHook
  <2>2. m \in Meta
    BY <1>0, <1>1, EditedMetaType
  <2>3. m # NoMeta
    BY <2>2, ZeroValuesAssumption
  <2>4. h # "lock-entity" => d.meta.locked = "locked"
    BY DEF IsLocked
  <2>5. m.locked = "locked"
    <3>1. CASE h \in {"set-entity-capability", "remove-entity-capability",
                      "add-direct-group", "del-direct-group", "lock-entity"}
      BY <1>0, <2>4, <3>1
      DEF EditedMeta, Meta, ManageEntityCapabilities, DirectGroupManager, EntityLockManager
    <3>2. CASE h \in {"add-entity-key", "del-entity-key"}
      BY <1>0, <2>4, <3>2 DEF EditedMeta, Meta, ManageEntityKeys
    <3>3. CASE h \in {"add-untyped-metadata", "del-untyped-metadata-fuzzy",
                      "del-untyped-metadata-exact"}
      BY <1>0, <2>4, <3>3 DEF EditedMeta, Meta, ManageEntityUM
    <3>4. CASE h \in {"kv-add", "kv-del", "kv-replace"}
      BY <1>0, <2>4, <3>4 DEF EditedMeta, Meta, KVChange
    <3> QED BY <2>1, <3>1, <3>2, <3>3, <3>4
  <2>6. HookResult(h, d, de).meta = m
    BY <1>1, EditHooksDistinct DEF HookResult, Entity
  <2> HIDE DEF m
  <2> QED BY <2>3, <2>5, <2>6 DEF IsLocked
<1>2. CASE h \in {"set-entity-id", "set-entity-secret", "ensure-entity-meta"}
  <2>1. HookResult(h, d, de).meta = d.meta
    BY <1>2, EditHooksDistinct
    DEF HookResult, SetEntityID, SetEntitySecret, EnsureEntityMeta, Entity
  <2>2. h # "lock-entity"
    BY <1>2
  <2> QED BY <2>1, <2>2 DEF IsLocked
<1>3. CASE h \in {"validate-entity-unlocked", "validate-entity-secret"}
  BY <1>3, EditHooksDistinct DEF HookResult
<1> QED BY <1>1, <1>2, <1>3

(* A request that gives up has neither had its effect nor let anyone in. *)
LEMMA FailAcks ==
  ASSUME IInv, AckInv, NEW w \in Workers, NEW err \in Errors, Fail(w, err), Busy(w),
         req' = req, barred' = barred
  PROVE  Effected(w)' /\ Barring(w)'
<1>1. /\ pc'[w] = "done" /\ reply'[w] = err /\ err # "ok" /\ ID(w)' = ID(w)
      /\ req'[w] = req[w]
  BY DEF Fail, IInv, TypeOK, Errors, ID
<1>2. Effected(w)'
  BY <1>1 DEF Effected, PastWrite
<1>3. Barring(w)'
  BY <1>1 DEF AckInv, Barring, InChainStates
<1> QED BY <1>2, <1>3

(* load-entity finds an entity that clients know cannot authenticate       *)
(* locked.                                                                 *)
LEMMA LoadEntityAcks ==
  ASSUME IInv, AckInv, NEW w \in Workers, LoadEntity(w), barred' = barred
  PROVE  Effected(w)' /\ Barring(w)'
<1>1. /\ pc[w] = "hook" /\ at[w] \in DOMAIN Chain(w) /\ Busy(w) /\ req' = req
      /\ pc[w] \in InChainStates /\ Chain(w)[at[w]] = "load-entity"
  BY DEF LoadEntity, InChain, LocalStep, Busy, InChainStates
<1>2. CASE \E err \in Errors : Fail(w, err)
  BY <1>1, <1>2, FailAcks
<1>3. CASE e' = [e EXCEPT ![w] = store[ID(w)]] /\ Advance(w) /\ store[ID(w)] # NoEntity
  <2>1. at[w] = 1 /\ req[w].chain \in Chains
    BY <1>1, InChainFacts DEF HookFact
  <2>2. /\ pc'[w] = "hook" /\ at'[w] = 2 /\ e'[w] = store[ID(w)] /\ store' = store
        /\ req'[w] = req[w] /\ ID(w)' = ID(w) /\ Chain(w)' = Chain(w)
    BY <1>1, <1>3, <2>1 DEF Advance, IInv, TypeOK, LoadEntity, LocalStep, stateVars, ID, Chain
  <2>3. Effected(w)'
    BY <2>2, AckChains DEF Effected, PastWrite, Bars
  <2>4. Barring(w)'
    BY <1>1, <1>3, <2>1, <2>2 DEF AckInv, Barring, Shut, InChainStates
  <2> QED BY <2>3, <2>4
<1> QED BY <1>2, <1>3 DEF LoadEntity, Errors

(* A hook without storage refuses a locked draft, or leaves it locked; the *)
(* one of LOCK locks it.                                                   *)
LEMMA RunHookAcks ==
  ASSUME IInv, AckInv, NEW w \in Workers, NEW h \in Hooks \ StorageHooks, RunHook(w, h),
         barred' = barred
  PROVE  Effected(w)' /\ Barring(w)'
<1>1. /\ pc[w] = "hook" /\ at[w] \in DOMAIN Chain(w) /\ Busy(w) /\ req' = req
      /\ pc[w] \in InChainStates /\ Chain(w)[at[w]] = h /\ store' = store
  BY DEF RunHook, InChain, LocalStep, stateVars, Busy, InChainStates
<1>2. CASE \E err \in Errors : Fail(w, err)
  BY <1>1, <1>2, FailAcks
<1>3. CASE /\ ~HookFails(h, e[w], req[w].de)
           /\ e' = [e EXCEPT ![w] = HookResult(h, e[w], req[w].de)] /\ Advance(w)
  <2>1. /\ HookFact(req[w].chain, at[w], h, Len(Chain(w))) /\ e[w] \in Entity
        /\ req[w].de \in DataEntity /\ at[w] \in 1..Len(Chain(w)) /\ Len(Chain(w)) \in 1..5
        /\ req[w].chain \in Chains
    BY <1>1, InChainFacts
  <2>2. /\ pc'[w] = "hook" /\ at'[w] = at[w] + 1 /\ e'[w] = HookResult(h, e[w], req[w].de)
        /\ req'[w] = req[w] /\ ID(w)' = ID(w) /\ Chain(w)' = Chain(w)
    BY <1>1, <1>3 DEF Advance, IInv, TypeOK, ID, Chain
  <2>3. at[w] # 1
    BY <2>1 DEF HookFact, StorageHooks
  <2>4. h \in EditHooks => e[w].meta # NoMeta
    BY <1>1, <2>1 DEF HookFact, IInv, Drafted
  <2>5. h \in EditHooks \cup {"set-entity-id", "set-entity-secret",
          "ensure-entity-meta", "validate-entity-unlocked", "validate-entity-secret"}
    BY <2>1 DEF HookFact
  <2>6. "lock-entity" \in EditHooks
    BY DEF EditHooks, EditChains, EditHook
  <2>7. Effected(w)'
    <3>1. req[w].chain # "DESTROY"
      BY <1>1, <2>1, <2>3, AckChains DEF StorageHooks
    <3>2. CASE req[w].chain = "LOCK"
      <4>1. at[w] \in {2, 3}
        BY <1>1, <2>1, <2>3, <3>2, AckChains DEF StorageHooks
      <4>2. at[w] = 3 => IsLocked(e'[w])
        BY <1>1, <2>1, <2>2, <2>4, <2>6, <3>2, AckChains, HookKeepsLock
      <4>3. ~PastWrite(w)'
        BY <2>2, <3>2, <4>1, AckChains DEF PastWrite
      <4> QED BY <2>2, <4>1, <4>2, <4>3 DEF Effected
    <3> QED BY <2>2, <3>1, <3>2 DEF Effected, Bars
  <2>8. Barring(w)'
    <3>1. SUFFICES ASSUME ID(w) \in barred PROVE Barring(w)'
      BY <2>2 DEF Barring
    <3>2. /\ req[w].chain \notin Reopens /\ IsLocked(e[w])
          /\ req[w].chain = "VALIDATE_IDENTITY" => at[w] <= 2
      BY <1>1, <2>1, <2>3, <3>1 DEF AckInv, Barring
    <3>3. req[w].chain # "VALIDATE_IDENTITY"
      <4>1. SUFFICES ASSUME req[w].chain = "VALIDATE_IDENTITY" PROVE FALSE
        OBVIOUS
      <4>2. at[w] = 2
        BY <2>1, <2>3, <3>2, <4>1
      <4>3. h = "validate-entity-unlocked"
        BY <1>1, <4>1, <4>2, AckChains
      <4> QED BY <1>3, <3>2, <4>3 DEF HookFails
    <3>4. h \notin {"unlock-entity", "merge-entity-meta"}
      <4>1. SUFFICES ASSUME h \in {"unlock-entity", "merge-entity-meta"} PROVE FALSE
        OBVIOUS
      <4>2. h \in EditHooks
        BY <4>1 DEF EditHooks, EditChains, EditHook
      <4>3. at[w] = 3 /\ req[w].chain \in EditChains
        BY <2>1, <4>2 DEF HookFact
      <4>4. h = EditHook[req[w].chain]
        BY <1>1, <4>3, ChainCases DEF Chain
      <4> QED BY <3>2, <4>1, <4>3, <4>4 DEF EditHook, EditChains, Reopens
    <3>5. e[w].meta # NoMeta
      BY <3>2 DEF IsLocked
    <3>6. IsLocked(e'[w])
      BY <2>1, <2>2, <2>5, <3>2, <3>4, <3>5, HookKeepsLock
    <3> QED BY <2>2, <3>2, <3>3, <3>6 DEF Barring
  <2> QED BY <2>7, <2>8
<1> QED BY <1>2, <1>3 DEF RunHook, Errors

(* A write carries out what LOCK or DESTROY was asked for, and no request  *)
(* to authenticate gets as far as one.                                     *)
LEMMA WriteAcks ==
  ASSUME IInv, AckInv, NEW w \in Workers, Writes(w), barred' = barred
  PROVE  /\ Effected(w)' /\ Barring(w)'
         /\ \A x \in barred : Shut(x)'
<1>1. /\ HookFact(req[w].chain, at[w], Chain(w)[at[w]], Len(Chain(w)))
      /\ at[w] \in 1..Len(Chain(w)) /\ Len(Chain(w)) \in 1..5 /\ ID(w) \in Entities
      /\ req[w].chain \in Chains /\ Busy(w) /\ pc[w] = "hook"
  BY InChainFacts DEF Writes, InChainStates, Busy
<1>2. at[w] = Len(Chain(w)) /\ at[w] >= 2
  BY <1>1 DEF Writes, HookFact
<1>3. /\ pc'[w] = "notify" /\ req'[w] = req[w] /\ at'[w] = at[w] /\ ID(w)' = ID(w)
      /\ store' = [store EXCEPT ![ID(w)] = IF Destroys(w) THEN NoEntity ELSE e[w]]
  BY DEF Writes, ID
<1>4. /\ store'[ID(w)] = IF Destroys(w) THEN NoEntity ELSE e[w]
      /\ \A x \in Entities : x # ID(w) => store'[x] = store[x]
  BY <1>1, <1>3 DEF IInv, TypeOK
<1>5. IsLocked(e[w]) \/ Destroys(w) => Shut(ID(w))'
  BY <1>3, <1>4 DEF Shut
<1>6. Effected(w)'
  <2>1. req[w].chain = "DESTROY" => Destroys(w)
    BY <1>2, AckChains DEF Destroys
  <2>2. req[w].chain = "LOCK" => IsLocked(e[w])
    BY <1>1, <1>2, AckChains DEF AckInv, Effected
  <2> QED BY <1>3, <1>5, <2>1, <2>2 DEF Effected, Bars
<1>7. ID(w) \in barred => /\ req[w].chain \notin Reopens /\ IsLocked(e[w])
                          /\ req[w].chain = "VALIDATE_IDENTITY" => at[w] <= 2
  BY <1>1, <1>2 DEF AckInv, Barring, InChainStates
<1>8. Barring(w)'
  <2>1. req[w].chain = "VALIDATE_IDENTITY" => at[w] = 4
    BY <1>2, AckChains
  <2> QED BY <1>3, <1>7, <2>1 DEF Barring
<1>9. \A x \in barred : Shut(x)'
  BY <1>3, <1>4, <1>5, <1>7 DEF AckInv, Shut
<1> QED BY <1>6, <1>8, <1>9

(* A step of its own that is not its last one. *)
LEMMA OwnAcks ==
  ASSUME IInv, AckInv, NEW w \in Workers, WorkerStep(w), pc'[w] # "idle", barred' = barred
  PROVE  Effected(w)' /\ Barring(w)'
<1>0. /\ pc \in [Workers -> {"idle", "hook", "number", "notify", "apply", "search", "done"}]
      /\ at \in [Workers -> 1..6] /\ reply \in [Workers -> {"none", "ok"} \cup Errors]
  BY DEF IInv, TypeOK
<1>1. Busy(w) /\ req'[w] = req[w] /\ ID(w)' = ID(w) /\ Chain(w)' = Chain(w)
  BY WorkerFrame DEF Writes, ID, Chain
<1>2. CASE \/ FailOnExistingEntity(w) \/ SetEntityNumber(w) \/ AssignNumber(w)
           \/ \E x \in Entities : ScanNumber(w, x)
  <2>1. /\ pc[w] \in InChainStates /\ at[w] \in DOMAIN Chain(w)
        /\ Chain(w)[at[w]] \in {"fail-on-existing-entity", "set-entity-number"}
    BY <1>2 DEF FailOnExistingEntity, SetEntityNumber, AssignNumber, ScanNumber, InChain,
                InChainStates, IInv, Placed
  <2>2. req[w].chain = "CREATE"
    BY <2>1, InChainFacts DEF HookFact
  <2> QED BY <1>1, <2>2 DEF AckInv, Effected, Barring, Bars, Reopens
<1>3. CASE SaveEntity(w) \/ DeleteEntity(w)
  <2>1. CASE Writes(w)
    BY <2>1, WriteAcks
  <2>2. CASE \E err \in Errors : Fail(w, err)
    BY <1>1, <1>3, <2>2, SaveFrame, FailAcks
  <2> QED BY <1>3, <2>1, <2>2, SaveFrame
<1>4. CASE \/ \E c \in Callbacks : CallbackRemove(w, c) \/ CallbackLoad(w, c)
           \/ CallbackApply(w)
  <2>1. /\ pc[w] \in {"notify", "apply"} /\ pc'[w] \in {"notify", "apply"}
        /\ at'[w] = at[w] /\ store' = store
    BY <1>0, <1>4 DEF CallbackRemove, CallbackLoad, CallbackApply, stateVars
  <2>2. Shut(ID(w)) => Shut(ID(w))'
    BY <1>1, <2>1 DEF Shut
  <2> QED BY <1>1, <2>1, <2>2 DEF AckInv, Effected, Barring, PastWrite, InChainStates
<1>5. CASE FinishWrite(w)
  <2>1. /\ pc[w] = "notify" /\ pc'[w] = "hook" /\ at'[w] = at[w] + 1 /\ store' = store
    BY <1>0, <1>5 DEF FinishWrite, Advance, stateVars
  <2>2. /\ at[w] \in DOMAIN Chain(w) /\ pc[w] \in InChainStates
        /\ Chain(w)[at[w]] \in {"save-entity", "destroy-entity"}
    BY <2>1 DEF IInv, Placed, InChainStates
  <2>3. at[w] = Len(Chain(w)) /\ Len(Chain(w)) \in 1..5
    BY <2>2, InChainFacts DEF HookFact
  <2>4. Shut(ID(w)) => Shut(ID(w))'
    BY <1>1, <2>1 DEF Shut
  <2>5. Effected(w)'
    <3>1. req[w].chain = "LOCK" => at'[w] # 4
      <4>1. req[w].chain = "LOCK" => Len(Chain(w)) = 4
        BY AckChains
      <4> QED BY <2>1, <2>3, <4>1
    <3>2. req[w].chain \in Bars => Shut(ID(w))
      BY <2>1 DEF AckInv, Effected, PastWrite
    <3> QED BY <1>1, <2>4, <3>1, <3>2 DEF Effected
  <2>6. Barring(w)'
    <3>1. at'[w] \notin 2..Len(Chain(w))
      BY <2>1, <2>3
    <3>2. req[w].chain = "VALIDATE_IDENTITY" => at[w] = 4
      BY <2>3, AckChains
    <3>3. req[w].chain \in Chains /\ ID(w) \in barred =>
            /\ req[w].chain \notin Reopens
            /\ req[w].chain = "VALIDATE_IDENTITY" => at[w] <= 2
      BY <1>1, <2>2 DEF AckInv, Barring
    <3> QED BY <1>1, <3>1, <3>2, <3>3 DEF Barring
  <2> QED BY <2>5, <2>6
<1>6. CASE FinishChain(w)
  <2>1. /\ pc[w] = "hook" /\ at[w] > Len(Chain(w)) /\ pc'[w] = "done" /\ store' = store
    BY <1>0, <1>6 DEF FinishChain, stateVars
  <2>2. Effected(w)'
    <3>1. req[w].chain \in Bars => Shut(ID(w))
      BY <2>1 DEF AckInv, Effected, PastWrite
    <3>2. Shut(ID(w)) => Shut(ID(w))'
      BY <1>1, <2>1 DEF Shut
    <3> QED BY <1>1, <2>1, <3>1, <3>2 DEF Effected
  <2>3. Barring(w)'
    <3>1. req[w].chain = "VALIDATE_IDENTITY" => at[w] > 2
      BY <1>0, <2>1, AckChains
    <3>2. req[w].chain \in Chains /\ ID(w) \in barred =>
            /\ req[w].chain \notin Reopens
            /\ req[w].chain = "VALIDATE_IDENTITY" => at[w] <= 2
      BY <1>1, <2>1 DEF AckInv, Barring, InChainStates
    <3>3. at[w] \in 1..6
      BY <1>0
    <3> QED BY <1>1, <2>1, <3>1, <3>2, <3>3 DEF Barring
  <2> QED BY <2>2, <2>3
<1>7. CASE FinishSearch(w) \/ \E x \in Entities : SearchLoad(w, x)
  <2>1. req[w].chain = "SEARCH"
    BY <1>7 DEF FinishSearch, SearchLoad, IInv, Placed, SearchRequest
  <2>2. "SEARCH" \notin Chains \cup Bars
    BY DEF Chains, EditChains, EditHook, Bars
  <2> QED BY <1>1, <2>1, <2>2 DEF Effected, Barring
<1>8. ~Return(w)
  BY <1>0 DEF Return
<1>9. CASE LoadEntity(w) \/ \E h \in Hooks \ StorageHooks : RunHook(w, h)
  BY <1>9, LoadEntityAcks, RunHookAcks
<1> QED BY <1>2, <1>3, <1>4, <1>5, <1>6, <1>7, <1>8, <1>9 DEF WorkerStep

(* What a step of a worker makes known: the last one of a chain that locks *)
(* or removes.                                                             *)
LEMMA WorkerKnown ==
  ASSUME IInv, AckNext, NEW w \in Workers, WorkerStep(w)
  PROVE  /\ Reopened = {} /\ barred' = barred \cup Acknowledged
         /\ \A x \in Acknowledged :
              /\ x = ID(w) /\ pc[w] = "done" /\ reply[w] = "ok" /\ req[w].chain \in Bars
              /\ pc'[w] = "idle"
         /\ \A v \in refusable' : v \in refusable /\ pc'[v] # "idle"
<1>1. Busy(w) /\ OthersAsTheyWere(w)
  BY WorkerFrame
<1>2. ASSUME NEW u \in Workers PROVE ~Begins(u)
  BY <1>1 DEF Begins, Busy, OthersAsTheyWere
<1>3. Reopened = {}
  BY <1>2 DEF Reopened
<1>4. ASSUME NEW u \in Workers, pc[u] = "done", pc'[u] = "idle" PROVE u = w
  BY <1>1, <1>4 DEF OthersAsTheyWere
<1> QED BY <1>2, <1>3, <1>4 DEF AckNext, Acknowledged

(* A worker's step preserves the invariant. *)
LEMMA WorkerAcks ==
  ASSUME IInv, Apart, AckInv, AckNext, NEW w \in Workers, WorkerStep(w)
  PROVE  AckInv'
<1>0. /\ Busy(w) /\ OthersAsTheyWere(w) /\ (Writes(w) \/ Unwritten(w))
      /\ pc'[w] = "idle" \/ (pc'[w] # "idle" /\ req'[w] = req[w])
  BY WorkerFrame
<1>1. /\ barred' = barred \cup Acknowledged
      /\ \A x \in Acknowledged :
           /\ x = ID(w) /\ pc[w] = "done" /\ reply[w] = "ok" /\ req[w].chain \in Bars
           /\ pc'[w] = "idle"
      /\ \A v \in refusable' : v \in refusable /\ pc'[v] # "idle"
  BY WorkerKnown
<1>2. Bars \subseteq Chains
  BY DEF Bars, Chains, EditChains, EditHook
<1>3. ASSUME NEW x \in Acknowledged PROVE x \in Entities /\ Shut(x)'
  <2>1. x = ID(w) /\ pc[w] = "done" /\ reply[w] = "ok" /\ req[w].chain \in Bars
    BY <1>1
  <2>2. Shut(x) /\ x \in Entities
    BY <1>2, <2>1, ChainRequest DEF AckInv, Effected, PastWrite
  <2>3. store' = store
    BY <1>0, <2>1 DEF Writes, Unwritten
  <2> QED BY <2>2, <2>3 DEF Shut
<1>4. ASSUME NEW x \in barred PROVE Shut(x)'
  <2>1. CASE Writes(w)
    <3>1. /\ pc'[w] = "notify" /\ ID(w) \in Entities /\ req[w].chain \in Chains
          /\ pc[w] = "hook" /\ at[w] \in DOMAIN Chain(w)
          /\ HookFact(req[w].chain, at[w], Chain(w)[at[w]], Len(Chain(w)))
      BY <2>1, InChainFacts DEF Writes, InChainStates
    <3>2. Acknowledged = {}
      BY <1>1, <3>1
    <3>3. barred' = barred
      BY <1>1, <3>2
    <3> QED BY <2>1, <3>3, WriteAcks
  <2>2. CASE Unwritten(w)
    BY <2>2 DEF Unwritten, AckInv, Shut
  <2> QED BY <1>0, <2>1, <2>2
<1>5. Effected(w)' /\ Barring(w)'
  <2>1. CASE pc'[w] = "idle"
    BY <2>1 DEF Effected, PastWrite, Barring, Busy
  <2>2. CASE pc'[w] # "idle"
    <3>1. barred' = barred
      BY <1>1, <2>2
    <3> QED BY <2>2, <3>1, OwnAcks
  <2> QED BY <2>1, <2>2
<1>6. ASSUME NEW v \in Workers, v # w PROVE Effected(v)' /\ Barring(v)'
  <2>1. /\ pc'[v] = pc[v] /\ req'[v] = req[v] /\ at'[v] = at[v] /\ e'[v] = e[v]
        /\ reply'[v] = reply[v] /\ ID(v)' = ID(v) /\ Chain(v)' = Chain(v)
    BY <1>0, <1>6 DEF OthersAsTheyWere, ID, Chain
  <2>2. Effected(v) /\ Barring(v)
    BY DEF AckInv
  <2>3. Busy(v) /\ req[v].chain \in Chains => store'[ID(v)] = store[ID(v)]
    BY <1>6, OthersStored
  <2>4. PastWrite(v)' <=> PastWrite(v)
    BY <2>1 DEF PastWrite
  <2>5. PastWrite(v) => Busy(v)
    BY DEF PastWrite, Busy
  <2>6. Effected(v)'
    BY <1>2, <2>1, <2>2, <2>3, <2>4, <2>5 DEF Effected, Shut
  <2>7. Busy(v) /\ req[v].chain \in Chains => ID(v) \notin Acknowledged
    <3>1. SUFFICES ASSUME Busy(v), req[v].chain \in Chains, ID(v) \in Acknowledged
                   PROVE  FALSE
      OBVIOUS
    <3>2. ID(v) = ID(w) /\ req[w].chain \in Chains
      BY <1>1, <1>2, <3>1
    <3>3. "SEARCH" \notin Chains
      BY DEF Chains, EditChains, EditHook
    <3> QED BY <1>0, <1>6, <3>1, <3>2, <3>3 DEF Apart, Conflict, ID
  <2>8. Barring(v)'
    BY <1>1, <2>1, <2>2, <2>7 DEF Barring, Busy
  <2> QED BY <2>6, <2>8
<1>7. ASSUME NEW v \in refusable' PROVE v \in Workers /\ Refusable(v)'
  <2>1. v \in refusable /\ pc'[v] # "idle" /\ v \in Workers /\ Refusable(v)
    BY <1>1 DEF AckInv
  <2>2. req'[v] = req[v]
    BY <1>0, <2>1 DEF OthersAsTheyWere
  <2> QED BY <1>1, <2>1, <2>2 DEF Refusable, Busy, ID
<1> QED BY <1>1, <1>3, <1>4, <1>5, <1>6, <1>7 DEF AckInv

(* A request that arrives for an entity that clients know cannot           *)
(* authenticate either makes that forgotten or is refusable.               *)
LEMMA ArrivalAcks ==
  ASSUME IInv, AckInv, AckNext, NEW w \in Workers,
         BeginSearch(w) \/ \E r \in Requests : Begin(w, r)
  PROVE  AckInv'
<1>1. PICK r \in AnyRequest : /\ req' = [req EXCEPT ![w] = r]
                              /\ BeginSearch(w) \/ (r \in Requests /\ Begin(w, r))
                              /\ BeginSearch(w) => r = SearchRequest
  BY DEF BeginSearch, Begin, AnyRequest, Busy, IInv, TypeOK
<1>2. /\ pc \in [Workers -> {"idle", "hook", "number", "notify", "apply", "search", "done"}]
      /\ req \in [Workers -> AnyRequest \cup {NoRequest}]
  BY DEF IInv, TypeOK
<1>3. /\ pc[w] = "idle" /\ at[w] = 1 /\ UNCHANGED <<store, at, e, reply>>
      /\ req'[w] = r /\ pc'[w] \in {"hook", "search"}
      /\ pc'[w] = "hook" => r \in Requests
      /\ pc'[w] = "search" => r = SearchRequest
  BY <1>1, <1>2 DEF BeginSearch, Begin, Busy, stateVars, IInv, Placed
<1>4. ASSUME NEW v \in Workers, v # w PROVE pc'[v] = pc[v] /\ req'[v] = req[v]
  BY <1>1, <1>2, <1>4 DEF BeginSearch, Begin
<1>5. Acknowledged = {}
  BY <1>3, <1>4 DEF Acknowledged
<1>6. barred' = barred \ Reopened
  BY <1>5 DEF AckNext
<1>7. pc'[w] = "hook" /\ r.chain \in Reopens => r.de.id \in Reopened
  BY <1>3 DEF Reopened, Begins
<1>8. "SEARCH" \notin Chains \cup Bars
  BY DEF Chains, EditChains, EditHook, Bars
<1>9. Effected(w)' /\ Barring(w)'
  <2>1. CASE pc'[w] = "search"
    BY <1>3, <1>8, <2>1 DEF Effected, Barring, SearchRequest
  <2>2. CASE pc'[w] = "hook"
    <3>1. at'[w] = 1 /\ Len(EntityChain[r.chain]) \in 1..5
      BY <1>3, <2>2, RequestFacts, ChainFacts
    <3>2. ~PastWrite(w)'
      <4>1. Chain(w)' = EntityChain[r.chain]
        BY <1>3 DEF Chain
      <4>2. ~(at'[w] > Len(EntityChain[r.chain]))
        <5> DEFINE n == Len(EntityChain[r.chain])
        <5>1. n \in 1..5 /\ at'[w] = 1
          BY <3>1
        <5> HIDE DEF n
        <5>2. ~(at'[w] > n)
          BY <5>1
        <5> QED BY <5>2 DEF n
      <4> QED BY <2>2, <4>1, <4>2 DEF PastWrite
    <3>3. ID(w)' \in barred' => r.chain \notin Reopens
      BY <1>3, <1>6, <1>7, <2>2 DEF ID
    <3> QED BY <1>3, <2>2, <3>1, <3>2, <3>3 DEF Effected, Barring
  <2> QED BY <1>3, <2>1, <2>2
<1>10. ASSUME NEW v \in Workers, v # w PROVE Effected(v)' /\ Barring(v)'
  <2>1. /\ pc'[v] = pc[v] /\ req'[v] = req[v] /\ ID(v)' = ID(v) /\ Chain(v)' = Chain(v)
    BY <1>4, <1>10 DEF ID, Chain
  <2>2. Effected(v) /\ Barring(v)
    BY DEF AckInv
  <2>3. Effected(v)'
    BY <1>3, <2>1, <2>2 DEF Effected, PastWrite, Shut
  <2>4. Barring(v)'
    BY <1>3, <1>6, <2>1, <2>2 DEF Barring, Busy
  <2> QED BY <2>3, <2>4
<1>11. ASSUME NEW v \in refusable' PROVE v \in Workers /\ Refusable(v)'
  <2>1. /\ v \in Workers /\ req'[v].de.id \notin Reopened
        /\ v \in refusable \/ (Begins(v) /\ req'[v].de.id \in barred)
    BY DEF AckNext
  <2>2. CASE v # w
    <3>1. v \in refusable
      BY <1>4, <2>1, <2>2 DEF Begins
    <3> QED BY <1>4, <1>6, <2>1, <2>2, <3>1 DEF AckInv, Refusable, Busy, ID
  <2>3. CASE v = w
    <3>1. v \notin refusable
      BY <1>3, <2>3 DEF AckInv, Refusable, Busy
    <3>2. pc'[w] = "hook" /\ r.de.id \in barred
      BY <1>3, <2>1, <2>3, <3>1 DEF Begins
    <3>3. r.chain \in Chains
      BY <1>3, <3>2, RequestFacts
    <3> QED BY <1>3, <1>6, <2>1, <2>3, <3>2, <3>3 DEF Refusable, Busy, ID
  <2> QED BY <2>2, <2>3
<1> QED BY <1>3, <1>6, <1>9, <1>10, <1>11 DEF AckInv, Shut

(* Nothing is learnt while the server starts, and a crash makes nothing    *)
(* known.                                                                  *)
LEMMA StartAcks ==
  ASSUME IInv, AckInv, AckNext, Boot \/ Crash
  PROVE  AckInv'
<1>1. CASE Boot
  <2>1. UNCHANGED <<store, pc, req, at, e, reply>>
    BY <1>1 DEF Boot, Preload, workerVars
  <2>2. Acknowledged = {} /\ Reopened = {}
    BY <2>1 DEF Acknowledged, Reopened, Begins
  <2>3. barred' = barred /\ \A v \in refusable' : v \in refusable /\ v \in Workers
    BY <2>1, <2>2 DEF AckNext, Begins
  <2> QED BY <2>1, <2>3 DEF AckInv, Shut, Effected, Barring, Refusable, PastWrite, Busy, ID, Chain
<1>2. CASE Crash
  <2>1. store' = store /\ \A v \in Workers : pc'[v] = "idle"
    BY <1>2 DEF Crash
  <2>2. crashes' # crashes
    BY <1>2 DEF Crash, IInv, TypeOK
  <2>3. Acknowledged = {} /\ Reopened = {}
    BY <2>1, <2>2 DEF Acknowledged, Reopened, Begins
  <2>4. barred' = barred /\ refusable' = {}
    BY <2>1, <2>3 DEF AckNext
  <2> QED BY <2>1, <2>4 DEF AckInv, Shut, Effected, Barring, PastWrite, Busy
<1> QED BY <1>1, <1>2

(* The invariant is inductive. *)
LEMMA NextAcks == IInv /\ Apart /\ AckInv /\ [AckNext]_ackVars => AckInv'
<1> SUFFICES ASSUME IInv, Apart, AckInv, [AckNext]_ackVars PROVE AckInv'
  OBVIOUS
<1>1. CASE UNCHANGED ackVars
  BY <1>1 DEF ackVars, vars, stateVars, workerVars, AckInv, Shut, Effected, Barring,
     Refusable, PastWrite, Busy, ID, Chain
<1>2. CASE AckNext
  BY <1>2, WorkerAcks, ArrivalAcks, StartAcks DEF AckNext, Next
<1> QED BY <1>1, <1>2

(* A request to authenticate that starts after a client was told that the  *)
(* entity is locked or destroyed is refused, however the requests for      *)
(* other entities, the callbacks and crashes fall, unless a request that   *)
(* unlocks or creates it has started since.                                *)
THEOREM AcknowledgedLocksHold ==
  ASSUME Exclusive
  PROVE  AckSpec => []BarredCannotAuthenticate
<1>1. AckInit => Init /\ AckInv
  BY DEF AckInit, Init, AckInv, Effected, Barring, PastWrite, Busy
<1>2. [AckNext]_ackVars => [Next]_vars
  BY DEF AckNext, ackVars
<1>3. AckInv => BarredCannotAuthenticate
  <2>1. SUFFICES ASSUME AckInv, NEW w \in refusable, Done(w, "VALIDATE_IDENTITY") PROVE FALSE
    BY DEF BarredCannotAuthenticate
  <2>2. reply[w] \in Errors
    BY <2>1 DEF AckInv, Refusable, Barring, Done
  <2> QED BY <2>1, <2>2 DEF Done, Errors
<1>4. Init => Apart
  BY DEF Init, Apart, Busy
<1> QED BY <1>1, <1>2, <1>3, <1>4, InitIInv, NextIInv, NextApart, NextAcks, PTL DEF AckSpec

-----------------------------------------------------------------------------
(* The directory that clients see.                                         *)

(* Nothing that the back end or the crypto is asked for fails. *)
NoFaults == Faults = {}

(* What module Directory says of values is what the tree's modules say. *)
LEMMA DirectoryValues ==
  /\ Dir!Numbers = Numbers /\ Dir!AutoNumber = AutoNumber /\ Dir!NoRequest = NoRequest
  /\ Dir!Chains = Chains /\ Dir!EditHook = EditHook
BY DEF Dir!Numbers, Numbers, Dir!AutoNumber, AutoNumber, Dir!NoRequest, NoRequest,
  Dir!Chains, Chains, Dir!EditChains, EditChains, Dir!EditHook, EditHook

LEMMA DirectoryMeta ==
  ASSUME NEW h, NEW m, NEW d, NEW x
  PROVE  /\ Dir!EditedMeta(h, m, d) = EditedMeta(h, m, d)
         /\ Dir!RequestMeta(x) = RequestMeta(x)
         /\ Dir!IsLocked(x) = IsLocked(x)
         /\ Dir!KeysOf(x) = KeysOf(x)
         /\ Dir!Secured(x) = Secured(x)
         /\ Dir!Cardinality(x) = Cardinality(x)
<1>1. Dir!EditedMeta(h, m, d) = EditedMeta(h, m, d)
  BY DEF EditedMeta, ManageEntityCapabilities, ManageEntityKeys, MergeEntityMeta,
    EntityLockManager, ManageEntityUM, KVChange, DirectGroupManager, AddKey, DropKey,
    Upsert, ClearExact, ClearFuzzy, Without, KeysOf, MergeMeta, Mergeable,
    Dir!EditedMeta, Dir!ManageEntityCapabilities, Dir!ManageEntityKeys,
    Dir!MergeEntityMeta, Dir!EntityLockManager, Dir!ManageEntityUM, Dir!KVChange,
    Dir!DirectGroupManager, Dir!AddKey, Dir!DropKey, Dir!Upsert, Dir!ClearExact,
    Dir!ClearFuzzy, Dir!Without, Dir!KeysOf, Dir!MergeMeta, Dir!Mergeable
<1>2. /\ Dir!RequestMeta(x) = RequestMeta(x) /\ Dir!IsLocked(x) = IsLocked(x)
      /\ Dir!KeysOf(x) = KeysOf(x) /\ Dir!Secured(x) = Secured(x)
  BY DEF Dir!RequestMeta, RequestMeta, Dir!EmptyMeta, EmptyMeta, Dir!IsLocked, IsLocked,
    Dir!KeysOf, KeysOf, Dir!Secured, Secured
<1>3. Dir!Cardinality(x) = Cardinality(x)
  BY DEF Dir!Cardinality, Cardinality
<1> QED BY <1>1, <1>2, <1>3

(* A request is acceptable for entity x, or for none. *)
Accepts(r, x) == Dir!EntityVerdict(r, x) = "ok"

LEMMA AcceptsKnown ==
  ASSUME NEW r, NEW x
  PROVE  /\ r.chain = "CREATE" => (Accepts(r, x) <=> x = NoEntity)
         /\ r.chain # "CREATE" => (Accepts(r, x) => x # NoEntity)
         /\ r.chain \in {"DESTROY", "FETCH", "SET_SECRET"} => (Accepts(r, x) <=> x # NoEntity)
         /\ r.chain = "VALIDATE_IDENTITY" =>
              (Accepts(r, x) <=>
                 x # NoEntity /\ ~IsLocked(x) /\ Verifies(r.de.secret, x))
BY DirectoryMeta DEF Accepts, Dir!EntityVerdict, Dir!EditVerdict, Dir!Verifies, Verifies

(* What the key/value store of a draft refuses. *)
LEMMA AcceptsPairs ==
  ASSUME NEW mode \in {"add", "del", "replace"}, NEW x, NEW d, NEW r,
         RequestMeta(d) = RequestMeta(x)
  PROVE  Dir!KVVerdict(mode, Dir!RequestMeta(x).kv, Dir!RequestMeta(r).kv) = "ok"
           <=> ~KVRefused(mode, d, RequestMeta(r))
<1> DEFINE kv == RequestMeta(x).kv
           dkv == RequestMeta(r).kv
           one == Cardinality(dkv) = 1
           known == KeysOf(kv) \cap KeysOf(dkv) # {}
<1>1. Dir!RequestMeta(x).kv = kv /\ Dir!RequestMeta(r).kv = dkv
  BY DirectoryMeta
<1>2. Dir!KVVerdict(mode, kv, dkv) =
        CASE ~one                              -> "precondition"
          [] one /\ mode = "add" /\ known    -> "key-exists"
          [] one /\ mode # "add" /\ ~known   -> "no-key"
          [] OTHER                             -> "ok"
  BY DirectoryMeta DEF Dir!KVVerdict
<1>3. KVRefused(mode, d, RequestMeta(r)) <=>
        ~one \/ (mode = "add" /\ known) \/ (mode # "add" /\ ~known)
  BY DEF KVRefused
<1> HIDE DEF kv, dkv, one, known
<1>4. Dir!KVVerdict(mode, kv, dkv) = "ok" <=>
        ~(~one \/ (mode = "add" /\ known) \/ (mode # "add" /\ ~known))
  BY <1>2
<1> QED BY <1>1, <1>3, <1>4

(* A hook that edits refuses a draft with the metadata of x, if any, just  *)
(* when the request is not acceptable for x.                               *)
LEMMA AcceptsEdit ==
  ASSUME NEW r, r.chain \in EditChains, NEW x, x # NoEntity,
         NEW d, d.meta = RequestMeta(x), d.meta # NoMeta
  PROVE  Accepts(r, x) <=> ~HookFails(EditHook[r.chain], d, r.de)
<1>0. RequestMeta(d) = RequestMeta(x)
  BY DEF RequestMeta
<1>1. Accepts(r, x) <=> Dir!EditVerdict(r, x) = "ok"
  BY EditHooksDistinct DEF Accepts, Dir!EntityVerdict
<1>2. CASE r.chain \in {"SET_CAPABILITY", "DROP_CAPABILITY"}
  <2>1. Dir!EditVerdict(r, x) = "ok" <=> ~CapabilityMissing(RequestMeta(r.de))
    BY <1>2, DirectoryMeta DEF Dir!EditVerdict, Dir!CapabilityMissing, CapabilityMissing
  <2>2. EditHook[r.chain] \in {"set-entity-capability", "remove-entity-capability"}
    BY <1>2 DEF EditHook
  <2> QED BY <1>1, <2>1, <2>2 DEF HookFails
<1>3. CASE r.chain = "KV_ADD"
  <2>1. Dir!EditVerdict(r, x) = "ok" <=> ~KVRefused("add", d, RequestMeta(r.de))
    BY <1>0, <1>3, AcceptsPairs DEF Dir!EditVerdict
  <2>2. EditHook[r.chain] = "kv-add"
    BY <1>3 DEF EditHook
  <2> QED BY <1>1, <2>1, <2>2 DEF HookFails
<1>4. CASE r.chain = "KV_DEL"
  <2>1. Dir!EditVerdict(r, x) = "ok" <=> ~KVRefused("del", d, RequestMeta(r.de))
    BY <1>0, <1>4, AcceptsPairs DEF Dir!EditVerdict
  <2>2. EditHook[r.chain] = "kv-del"
    BY <1>4 DEF EditHook
  <2> QED BY <1>1, <2>1, <2>2 DEF HookFails
<1>5. CASE r.chain = "KV_REPLACE"
  <2>1. Dir!EditVerdict(r, x) = "ok" <=> ~KVRefused("replace", d, RequestMeta(r.de))
    BY <1>0, <1>5, AcceptsPairs DEF Dir!EditVerdict
  <2>2. EditHook[r.chain] = "kv-replace"
    BY <1>5 DEF EditHook
  <2> QED BY <1>1, <2>1, <2>2 DEF HookFails
<1>6. CASE r.chain \notin {"SET_CAPABILITY", "DROP_CAPABILITY", "KV_ADD", "KV_DEL",
                           "KV_REPLACE"}
  <2>1. Dir!EditVerdict(r, x) = "ok"
    BY <1>6, EditHooksDistinct DEF Dir!EditVerdict
  <2>2. EditHook[r.chain] \in {"add-entity-key", "del-entity-key", "merge-entity-meta",
          "lock-entity", "unlock-entity", "add-untyped-metadata",
          "del-untyped-metadata-fuzzy", "del-untyped-metadata-exact",
          "add-direct-group", "del-direct-group"}
    BY <1>6 DEF EditHook, EditChains
  <2> QED BY <1>1, <2>1, <2>2 DEF HookFails
<1> QED BY <1>2, <1>3, <1>4, <1>5, <1>6

(* Entities are told apart by their fields. *)
LEMMA EntityFields ==
  ASSUME NEW x \in Entity, NEW y \in Entity,
         x.id = y.id, x.number = y.number, x.secret = y.secret, x.meta = y.meta
  PROVE  x = y
BY DEF Entity

LEMMA EditedFields ==
  ASSUME NEW r \in Requests, NEW x \in Entity
  PROVE  /\ r.chain \in {"FETCH", "VALIDATE_IDENTITY"} => Dir!Edited(r, x) = x
         /\ r.chain = "SET_SECRET" =>
              /\ Dir!Edited(r, x) \in Entity
              /\ Dir!Edited(r, x).secret = Secured(r.de.secret)
              /\ Dir!Edited(r, x).id = x.id /\ Dir!Edited(r, x).number = x.number
              /\ Dir!Edited(r, x).meta = x.meta
         /\ r.chain \in EditChains =>
              /\ Dir!Edited(r, x) \in Entity
              /\ Dir!Edited(r, x).meta =
                   EditedMeta(EditHook[r.chain], RequestMeta(x), RequestMeta(r.de))
              /\ Dir!Edited(r, x).id = x.id /\ Dir!Edited(r, x).number = x.number
              /\ Dir!Edited(r, x).secret = x.secret
<1>0. r.de \in DataEntity
  BY RequestFacts
<1>1. r.chain \in {"FETCH", "VALIDATE_IDENTITY"} => Dir!Edited(r, x) = x
  BY DEF Dir!Edited
<1>2. ASSUME r.chain = "SET_SECRET"
      PROVE  /\ Dir!Edited(r, x) \in Entity
             /\ Dir!Edited(r, x).secret = Secured(r.de.secret)
             /\ Dir!Edited(r, x).id = x.id /\ Dir!Edited(r, x).number = x.number
             /\ Dir!Edited(r, x).meta = x.meta
  <2> DEFINE s == Secured(r.de.secret)
  <2>1. Dir!Edited(r, x) = [x EXCEPT !.secret = s]
    BY <1>2, DirectoryMeta DEF Dir!Edited
  <2>2. s \in SecuredSecrets
    BY <1>0 DEF Secured, SecuredSecrets, DataEntity
  <2> HIDE DEF s
  <2>3. /\ [x EXCEPT !.secret = s] \in Entity /\ [x EXCEPT !.secret = s].secret = s
        /\ [x EXCEPT !.secret = s].id = x.id /\ [x EXCEPT !.secret = s].number = x.number
        /\ [x EXCEPT !.secret = s].meta = x.meta
    BY <2>2 DEF Entity
  <2> QED BY <2>1, <2>3 DEF s
<1>3. ASSUME r.chain \in EditChains
      PROVE  /\ Dir!Edited(r, x) \in Entity
             /\ Dir!Edited(r, x).meta =
                  EditedMeta(EditHook[r.chain], RequestMeta(x), RequestMeta(r.de))
             /\ Dir!Edited(r, x).id = x.id /\ Dir!Edited(r, x).number = x.number
             /\ Dir!Edited(r, x).secret = x.secret
  <2> DEFINE m == EditedMeta(EditHook[r.chain], RequestMeta(x), RequestMeta(r.de))
  <2>1. Dir!Edited(r, x) = [x EXCEPT !.meta = m]
    BY <1>3, EditHooksDistinct, DirectoryMeta, DirectoryValues DEF Dir!Edited
  <2>2. m \in Meta
    <3>1. RequestMeta(x) \in Meta
      BY EmptyMetaType DEF RequestMeta, Entity
    <3> QED BY <1>0, <1>3, <3>1, RequestMetaType, EditedMetaType, EditHooksDistinct
  <2> HIDE DEF m
  <2>3. /\ [x EXCEPT !.meta = m] \in Entity /\ [x EXCEPT !.meta = m].meta = m
        /\ [x EXCEPT !.meta = m].id = x.id /\ [x EXCEPT !.meta = m].number = x.number
        /\ [x EXCEPT !.meta = m].secret = x.secret
    BY <2>2 DEF Entity
  <2> QED BY <2>1, <2>3 DEF m
<1> QED BY <1>1, <1>2, <1>3

LEMMA CreatedFields ==
  ASSUME NEW r \in Requests, NEW n \in Numbers
  PROVE  /\ Dir!Created(r.de, n) \in Entity
         /\ Dir!Created(r.de, n).id = r.de.id /\ Dir!Created(r.de, n).number = n
         /\ Dir!Created(r.de, n).secret = Secured(r.de.secret)
         /\ Dir!Created(r.de, n).meta = NoMeta
<1>1. r.de \in DataEntity /\ Secured(r.de.secret) \in SecuredSecrets
  BY RequestFacts DEF Secured, SecuredSecrets, DataEntity
<1>2. Dir!Created(r.de, n) =
        [id |-> r.de.id, number |-> n, secret |-> Secured(r.de.secret), meta |-> NoMeta]
  BY DirectoryMeta DEF Dir!Created
<1> QED BY <1>1, <1>2 DEF Entity, DataEntity

-----------------------------------------------------------------------------
(* What chains make of what is stored.                                     *)

(***************************************************************************)
(* The inductive invariant.  A creation builds its draft from the request  *)
(* alone (Built).  Every other chain works on what is stored all along,    *)
(* though it has loaded it before: each hook leaves of it what module      *)
(* Directory says of the hooks so far (Revised).                           *)
(***************************************************************************)
Built(w) ==
  /\ pc[w] = "idle" => e[w].meta = NoMeta
  /\ pc[w] \in {"hook", "number"} /\ req[w].chain = "CREATE" /\ at[w] <= 5 =>
       /\ e[w].meta = NoMeta
       /\ at[w] >= 4 /\ req[w].de.number # AutoNumber => e[w].number = req[w].de.number
       /\ at[w] = 5 => e[w].secret = Secured(req[w].de.secret)

RevisedTo(r, i, d, x) ==
  /\ d.secret = IF r.chain = "SET_SECRET" /\ i = 3 THEN Secured(r.de.secret) ELSE x.secret
  /\ r.chain \notin EditChains \/ i = 2 => d.meta = x.meta
  /\ r.chain \in EditChains /\ i = 3 => d.meta = RequestMeta(x)
  /\ r.chain \in EditChains /\ i = 4 =>
       /\ d.meta = EditedMeta(EditHook[r.chain], RequestMeta(x), RequestMeta(r.de))
       /\ Accepts(r, x)
  /\ r.chain = "VALIDATE_IDENTITY" =>
       /\ i >= 3 => ~IsLocked(x)
       /\ i = 4 => Verifies(r.de.secret, x)

Revised(w) ==
  pc[w] = "hook" /\ req[w].chain \in Chains \ {"CREATE"} /\ at[w] \in 2..Len(Chain(w)) =>
    store[ID(w)] # NoEntity /\ RevisedTo(req[w], at[w], e[w], store[ID(w)])

DraftInv == \A w \in Workers : Built(w) /\ Revised(w)

(* Where each hook that works on the draft alone is.                       *)
LEMMA HookPlaces ==
  ASSUME IInv, NEW w \in Workers, NEW h \in Hooks \ StorageHooks, InChain(w, h)
  PROVE  \/ req[w].chain = "CREATE" /\ at[w] = 2 /\ h = "set-entity-id"
         \/ req[w].chain = "CREATE" /\ at[w] = 4 /\ h = "set-entity-secret"
         \/ req[w].chain = "SET_SECRET" /\ at[w] = 2 /\ h = "set-entity-secret"
         \/ /\ req[w].chain = "VALIDATE_IDENTITY"
            /\ \/ at[w] = 2 /\ h = "validate-entity-unlocked"
               \/ at[w] = 3 /\ h = "validate-entity-secret"
         \/ /\ req[w].chain \in EditChains
            /\ \/ at[w] = 2 /\ h = "ensure-entity-meta"
               \/ at[w] = 3 /\ h = EditHook[req[w].chain]
<1>1. /\ at[w] \in 1..Len(Chain(w)) /\ req[w].chain \in Chains /\ Chain(w)[at[w]] = h
      /\ h \notin StorageHooks
  BY HookNumbered DEF InChain
<1>2. CASE req[w].chain = "CREATE"
  BY <1>1, <1>2, ChainCases DEF Chain, StorageHooks
<1>3. CASE req[w].chain \in {"DESTROY", "FETCH"}
  BY <1>1, <1>3, ChainCases DEF Chain, StorageHooks
<1>4. CASE req[w].chain = "SET_SECRET"
  BY <1>1, <1>4, ChainCases DEF Chain, StorageHooks
<1>5. CASE req[w].chain = "VALIDATE_IDENTITY"
  BY <1>1, <1>5, ChainCases DEF Chain, StorageHooks
<1>6. CASE req[w].chain \in EditChains
  <2>1. Chain(w) = <<"load-entity", "ensure-entity-meta", EditHook[req[w].chain],
                     "save-entity">>
    BY <1>6, ChainCases DEF Chain
  <2> QED BY <1>1, <1>6, <2>1 DEF StorageHooks
<1> QED BY <1>1, <1>2, <1>3, <1>4, <1>5, <1>6 DEF Chains

(* A request that is past its hooks has no draft to account for. *)
LEMMA DraftOver ==
  ASSUME NEW w \in Workers,
         \/ pc'[w] \notin {"idle", "hook", "number"}
         \/ pc'[w] = "idle" /\ e'[w].meta = NoMeta
  PROVE  Built(w)' /\ Revised(w)'
BY DEF Built, Revised

(* The hooks that work on the draft alone. *)
LEMMA RunHookDraft ==
  ASSUME IInv, DraftInv, NEW w \in Workers, NEW h \in Hooks \ StorageHooks, RunHook(w, h)
  PROVE  Built(w)' /\ Revised(w)'
<1>0. /\ pc \in [Workers -> {"idle", "hook", "number", "notify", "apply", "search", "done"}]
      /\ e \in [Workers -> Entity] /\ at \in [Workers -> 1..6]
      /\ store \in [Entities -> Entity \cup {NoEntity}]
  BY DEF IInv, TypeOK
<1>1. CASE \E err \in Errors : Fail(w, err)
  BY <1>0, <1>1, DraftOver DEF Fail
<1>2. CASE /\ ~HookFails(h, e[w], req[w].de) /\ Advance(w)
           /\ e' = [e EXCEPT ![w] = HookResult(h, e[w], req[w].de)]
  <2> DEFINE r == req[w]
             x == store[ID(w)]
             d == e[w]
             f == HookResult(h, e[w], req[w].de)
  <2>1. /\ InChain(w, h) /\ pc[w] = "hook" /\ at[w] \in 1..Len(Chain(w)) /\ r.chain \in Chains
        /\ d \in Entity /\ ID(w) \in Entities
    BY HookNumbered DEF RunHook
  <2>2. /\ pc'[w] = "hook" /\ at'[w] = at[w] + 1 /\ e'[w] = f
        /\ req'[w] = r /\ store' = store /\ ID(w)' = ID(w) /\ Chain(w)' = Chain(w)
    BY <1>0, <1>2 DEF RunHook, Advance, LocalStep, stateVars, ID, Chain
  <2>3. Built(w) /\ Revised(w)
    BY DEF DraftInv
  <2>4. CASE r.chain = "CREATE"
    <3>1. /\ d.meta = NoMeta /\ at[w] \in {2, 4}
          /\ at[w] = 2 => h = "set-entity-id"
          /\ at[w] = 4 => h = "set-entity-secret"
          /\ at[w] = 4 /\ r.de.number # AutoNumber => d.number = r.de.number
      BY <2>1, <2>3, <2>4, HookPlaces, EditHooksDistinct DEF Built
    <3>2. /\ at[w] = 2 => f = SetEntityID(d, r.de)
          /\ at[w] = 4 => f = SetEntitySecret(d, r.de)
      BY <3>1, EditHooksDistinct DEF HookResult
    <3>3. /\ f.meta = NoMeta
          /\ at[w] = 4 => f.number = d.number /\ f.secret = Secured(r.de.secret)
      BY <2>1, <3>1, <3>2 DEF SetEntityID, SetEntitySecret, Entity
    <3> HIDE DEF f, d, r, x
    <3>4. Built(w)'
      BY <2>2, <3>1, <3>3 DEF Built
    <3> QED BY <2>2, <2>4, <3>4 DEF Revised
  <2>5. CASE r.chain # "CREATE"
    <3>1. at[w] # 1 /\ at[w] \in {2, 3}
      BY <2>1, <2>5, HookPlaces
    <3>2. x # NoEntity /\ RevisedTo(r, at[w], d, x)
      BY <2>1, <2>3, <2>5, <3>1 DEF Revised
    <3>3. x \in Entity
      BY <1>0, <2>1, <3>2
    <3>4. RevisedTo(r, at[w] + 1, f, x)
      <4>1. CASE r.chain = "SET_SECRET"
        <5>1. at[w] = 2 /\ h = "set-entity-secret"
          BY <2>1, <4>1, HookPlaces, EditHooksDistinct
        <5>2. f = SetEntitySecret(d, r.de)
          BY <5>1, EditHooksDistinct DEF HookResult
        <5>3. f.secret = Secured(r.de.secret) /\ f.meta = d.meta
          BY <2>1, <5>2 DEF SetEntitySecret, Entity
        <5> QED BY <3>2, <4>1, <5>1, <5>3, EditHooksDistinct DEF RevisedTo
      <4>2. CASE r.chain = "VALIDATE_IDENTITY"
        <5>1. /\ h \in {"validate-entity-unlocked", "validate-entity-secret"}
              /\ at[w] = 2 => h = "validate-entity-unlocked"
              /\ at[w] = 3 => h = "validate-entity-secret"
          BY <2>1, <4>2, HookPlaces, EditHooksDistinct
        <5>2. f = d
          BY <5>1, EditHooksDistinct DEF HookResult
        <5>3. d.secret = x.secret /\ d.meta = x.meta
          BY <3>1, <3>2, <4>2, EditHooksDistinct DEF RevisedTo
        <5>4. /\ at[w] = 2 => ~IsLocked(x)
              /\ at[w] = 3 => Verifies(r.de.secret, x) /\ ~IsLocked(x)
          <6>1. at[w] = 2 => ~IsLocked(d)
            BY <1>2, <5>1 DEF HookFails
          <6>2. at[w] = 3 => Verifies(r.de.secret, d)
            BY <1>2, <5>1 DEF HookFails
          <6>3. at[w] = 3 => ~IsLocked(x)
            BY <3>2, <4>2 DEF RevisedTo
          <6> QED BY <5>3, <6>1, <6>2, <6>3 DEF IsLocked, Verifies
        <5> HIDE DEF f, d, r, x
        <5> QED BY <3>1, <4>2, <5>2, <5>3, <5>4, EditHooksDistinct DEF RevisedTo
      <4>3. CASE r.chain \in EditChains /\ at[w] = 2
        <5>1. h = "ensure-entity-meta"
          BY <2>1, <4>3, HookPlaces, EditHooksDistinct
        <5>2. f = EnsureEntityMeta(d)
          BY <5>1, EditHooksDistinct DEF HookResult
        <5>3. f.secret = d.secret /\ f.meta = RequestMeta(d)
          BY <2>1, <5>2 DEF EnsureEntityMeta, Entity, RequestMeta
        <5>4. d.secret = x.secret /\ d.meta = x.meta
          BY <3>2, <4>3, EditHooksDistinct DEF RevisedTo
        <5>5. RequestMeta(d) = RequestMeta(x)
          BY <5>4 DEF RequestMeta
        <5> HIDE DEF f, d, r, x
        <5> QED BY <4>3, <5>3, <5>4, <5>5, EditHooksDistinct DEF RevisedTo
      <4>4. CASE r.chain \in EditChains /\ at[w] = 3
        <5>1. h = EditHook[r.chain] /\ h \in EditHooks
          BY <2>1, <4>4, HookPlaces, EditHooksDistinct
        <5>2. d.secret = x.secret /\ d.meta = RequestMeta(x)
          BY <3>2, <4>4, EditHooksDistinct DEF RevisedTo
        <5>3. d.meta # NoMeta
          BY <2>1, <4>4 DEF IInv, Drafted, InChainStates
        <5>4. f.meta = EditedMeta(h, d.meta, RequestMeta(r.de)) /\ f.secret = d.secret
          BY <2>1, <5>1, EditHooksDistinct DEF HookResult, Entity
        <5>5. Accepts(r, x)
          BY <1>2, <3>2, <4>4, <5>1, <5>2, <5>3, AcceptsEdit
        <5> HIDE DEF f, d, r, x
        <5> QED BY <4>4, <5>1, <5>2, <5>4, <5>5, EditHooksDistinct DEF RevisedTo
      <4> QED BY <2>1, <2>5, <3>1, <4>1, <4>2, <4>3, <4>4, HookPlaces
    <3> HIDE DEF f, d, r, x
    <3>5. Revised(w)'
      BY <2>2, <3>2, <3>4 DEF Revised, x
    <3>6. Built(w)'
      BY <2>2, <2>5 DEF Built
    <3> QED BY <3>5, <3>6
  <2> QED BY <2>4, <2>5
<1> QED BY <1>1, <1>2 DEF RunHook, Errors

(* Every step of its own. *)
LEMMA OwnDraft ==
  ASSUME IInv, NumInv, DraftInv, NEW w \in Workers, WorkerStep(w)
  PROVE  Built(w)' /\ Revised(w)'
<1>0. /\ pc \in [Workers -> {"idle", "hook", "number", "notify", "apply", "search", "done"}]
      /\ e \in [Workers -> Entity] /\ at \in [Workers -> 1..6]
  BY DEF IInv, TypeOK
<1>1. CASE LoadEntity(w)
  <2>1. CASE \E err \in Errors : Fail(w, err)
    BY <1>0, <2>1, DraftOver DEF Fail
  <2>2. CASE store[ID(w)] # NoEntity /\ e' = [e EXCEPT ![w] = store[ID(w)]] /\ Advance(w)
    <3>1. at[w] = 1 /\ req[w].chain # "CREATE" /\ req[w].chain \in Chains
      BY <1>1, HookNumbered DEF LoadEntity, HookFact
    <3>2. /\ pc'[w] = "hook" /\ at'[w] = 2 /\ e'[w] = store[ID(w)]
          /\ req'[w] = req[w] /\ store' = store /\ ID(w)' = ID(w) /\ Chain(w)' = Chain(w)
      BY <1>0, <1>1, <2>2, <3>1 DEF LoadEntity, Advance, LocalStep, stateVars, ID, Chain
    <3>3. RevisedTo(req[w], 2, store[ID(w)], store[ID(w)])
      BY DEF RevisedTo
    <3> QED BY <2>2, <3>1, <3>2, <3>3 DEF Built, Revised
  <2> QED BY <1>1, <2>1, <2>2 DEF LoadEntity, Errors
<1>2. CASE FailOnExistingEntity(w)
  <2>1. CASE \E err \in Errors : Fail(w, err)
    BY <1>0, <2>1, DraftOver DEF Fail
  <2>2. CASE Advance(w)
    <3>1. at[w] = 1 /\ req[w].chain = "CREATE" /\ pc[w] = "hook"
      BY <1>2, HookNumbered DEF FailOnExistingEntity, HookFact
    <3>2. pc'[w] = "hook" /\ at'[w] = 2 /\ e'[w] = e[w] /\ req'[w] = req[w]
      BY <1>0, <1>2, <2>2, <3>1 DEF FailOnExistingEntity, Advance, LocalStep
    <3> QED BY <3>1, <3>2 DEF DraftInv, Built, Revised
  <2> QED BY <1>2, <2>1, <2>2 DEF FailOnExistingEntity, Errors
<1>3. CASE SetEntityNumber(w) \/ AssignNumber(w) \/ \E x \in Entities : ScanNumber(w, x)
  <2>1. CASE \E err \in Errors : Fail(w, err)
    BY <1>0, <2>1, DraftOver DEF Fail
  <2>2. CASE ~\E err \in Errors : Fail(w, err)
    <3>1. /\ pc[w] \in {"hook", "number"} /\ pc[w] \in InChainStates
          /\ at[w] \in DOMAIN Chain(w) /\ Chain(w)[at[w]] = "set-entity-number"
      BY <1>3 DEF SetEntityNumber, AssignNumber, ScanNumber, InChain, IInv, Placed,
                  InChainStates
    <3>2. at[w] = 3 /\ req[w].chain = "CREATE" /\ e[w] \in Entity
      BY <3>1, InChainFacts DEF HookFact
    <3>3. e[w].meta = NoMeta
      BY <3>1, <3>2 DEF DraftInv, Built
    <3>4. req'[w] = req[w] /\ pc'[w] \in {"hook", "number"}
      BY <1>0, <1>3, <2>2 DEF SetEntityNumber, AssignNumber, ScanNumber, Advance, LocalStep, Errors
    <3>5. \/ at'[w] = 3 /\ e'[w] = e[w]
          \/ \E n : /\ at'[w] = 4 /\ e'[w] = [e[w] EXCEPT !.number = n]
                    /\ req[w].de.number # AutoNumber => n = req[w].de.number
      <4>1. CASE SetEntityNumber(w) /\ req[w].de.number = AutoNumber
        BY <1>0, <3>2, <4>1 DEF SetEntityNumber
      <4>2. CASE SetEntityNumber(w) /\ req[w].de.number # AutoNumber
        BY <1>0, <3>2, <4>2 DEF SetEntityNumber, Advance
      <4>3. CASE \E x \in Entities : ScanNumber(w, x)
        BY <1>0, <2>2, <3>2, <4>3 DEF ScanNumber, Errors
      <4>4. CASE AssignNumber(w)
        <5>1. at'[w] = 4 /\ e'[w] = [e[w] EXCEPT !.number = Increment(largest[w])]
          BY <1>0, <3>2, <4>4 DEF AssignNumber, Advance
        <5>2. req[w].de.number = AutoNumber
          BY <3>2, <4>4 DEF AssignNumber, NumInv, Numbering, Creating
        <5> QED BY <5>1, <5>2
      <4> QED BY <1>3, <4>1, <4>2, <4>3, <4>4
    <3>6. \A n : /\ [e[w] EXCEPT !.number = n].meta = e[w].meta
                 /\ [e[w] EXCEPT !.number = n].number = n
      BY <3>2 DEF Entity
    <3>7. /\ e'[w].meta = NoMeta
          /\ at'[w] = 4 /\ req[w].de.number # AutoNumber => e'[w].number = req[w].de.number
      <4>1. CASE at'[w] = 3 /\ e'[w] = e[w]
        BY <3>3, <4>1
      <4>2. CASE ~(at'[w] = 3 /\ e'[w] = e[w])
        <5>1. PICK n : /\ e'[w] = [e[w] EXCEPT !.number = n]
                       /\ req[w].de.number # AutoNumber => n = req[w].de.number
          BY <3>5, <4>2
        <5>2. e'[w].meta = e[w].meta /\ e'[w].number = n
          BY <3>6, <5>1
        <5> QED BY <3>3, <5>1, <5>2
      <4> QED BY <4>1, <4>2
    <3>8. at'[w] \in {3, 4}
      BY <3>5
    <3> QED BY <3>2, <3>4, <3>7, <3>8 DEF Built, Revised
  <2> QED BY <2>1, <2>2
<1>4. CASE SaveEntity(w) \/ DeleteEntity(w)
  <2>1. pc'[w] \in {"notify", "done"}
    BY <1>0, <1>4, SaveFrame DEF Writes, Fail
  <2> QED BY <2>1, DraftOver
<1>5. CASE \/ \E c \in Callbacks : CallbackRemove(w, c) \/ CallbackLoad(w, c)
           \/ CallbackApply(w)
  <2>1. pc'[w] \in {"notify", "apply"}
    BY <1>0, <1>5 DEF CallbackRemove, CallbackLoad, CallbackApply
  <2> QED BY <2>1, DraftOver
<1>6. CASE FinishWrite(w)
  <2>1. /\ pc[w] \in InChainStates /\ at[w] \in DOMAIN Chain(w)
        /\ Chain(w)[at[w]] \in {"save-entity", "destroy-entity"}
    BY <1>6 DEF FinishWrite, IInv, Placed, InChainStates
  <2>2. at[w] = Len(Chain(w)) /\ Len(Chain(w)) \in 1..5
    BY <2>1, InChainFacts DEF HookFact
  <2>3. req[w].chain = "CREATE" => Len(Chain(w)) = 5
    <3>1. Len(EntityChain["CREATE"]) = 5
      BY ChainCases
    <3> QED BY <3>1 DEF Chain
  <2>4. /\ pc'[w] = "hook" /\ at'[w] = at[w] + 1 /\ req'[w] = req[w]
    BY <1>0, <1>6 DEF FinishWrite, Advance
  <2>5. Chain(w)' = Chain(w)
    BY <2>4 DEF Chain
  <2>6. /\ ~(at'[w] \in 2..Len(Chain(w)))
        /\ req[w].chain = "CREATE" => ~(at'[w] <= 5)
    <3>1. PICK n : n = Len(Chain(w))
      OBVIOUS
    <3>2. n \in 1..5 /\ at'[w] = n + 1 /\ (req[w].chain = "CREATE" => n = 5)
      BY <2>2, <2>3, <2>4, <3>1
    <3>3. ~(at'[w] \in 2..n) /\ (req[w].chain = "CREATE" => ~(at'[w] <= 5))
      BY <3>2
    <3> QED BY <3>1, <3>3
  <2> QED BY <2>4, <2>5, <2>6 DEF Built, Revised
<1>7. CASE FinishChain(w) \/ FinishSearch(w) \/ \E x \in Entities : SearchLoad(w, x)
  <2>1. pc'[w] \in {"done", "search"}
    BY <1>0, <1>7 DEF FinishChain, FinishSearch, SearchLoad, Fail
  <2> QED BY <2>1, DraftOver
<1>8. CASE Return(w)
  <2>1. pc'[w] = "idle" /\ e'[w] = BlankEntity
    BY <1>0, <1>8 DEF Return
  <2> QED BY <2>1, DraftOver DEF BlankEntity
<1>9. CASE \E h \in Hooks \ StorageHooks : RunHook(w, h)
  BY <1>9, RunHookDraft
<1> QED BY <1>1, <1>2, <1>3, <1>4, <1>5, <1>6, <1>7, <1>8, <1>9 DEF WorkerStep

(* The invariant is inductive: no one else writes what a chain works on.   *)
LEMMA NextDraft == IInv /\ Apart /\ NumInv /\ DraftInv /\ [Next]_vars => DraftInv'
<1> SUFFICES ASSUME IInv, Apart, NumInv, DraftInv, [Next]_vars PROVE DraftInv'
  OBVIOUS
<1>0. /\ pc \in [Workers -> {"idle", "hook", "number", "notify", "apply", "search", "done"}]
      /\ req \in [Workers -> AnyRequest \cup {NoRequest}]
  BY DEF IInv, TypeOK
<1>1. ASSUME NEW w \in Workers, WorkerStep(w), NEW v \in Workers, v # w
      PROVE  Built(v)' /\ Revised(v)'
  <2>1. /\ pc'[v] = pc[v] /\ req'[v] = req[v] /\ at'[v] = at[v] /\ e'[v] = e[v]
        /\ Chain(v)' = Chain(v)
    BY <1>1, WorkerFrame DEF OthersAsTheyWere, Chain
  <2>2. pc[v] = "hook" => store'[ID(v)] = store[ID(v)] /\ ID(v)' = ID(v)
    BY <1>1, ChainRequest, OthersStored DEF Busy, InChainStates
  <2>3. Built(v) /\ Revised(v)
    BY DEF DraftInv
  <2> QED BY <2>1, <2>2, <2>3 DEF Built, Revised
<1>2. ASSUME NEW w \in Workers, BeginSearch(w) \/ \E r \in Requests : Begin(w, r)
      PROVE  DraftInv'
  <2>1. /\ pc[w] = "idle" /\ at[w] = 1 /\ UNCHANGED <<store, at, e>>
        /\ pc'[w] # "idle"
    BY <1>0, <1>2 DEF BeginSearch, Begin, Busy, stateVars, IInv, Placed
  <2>2. \A v \in Workers : v # w => pc'[v] = pc[v] /\ req'[v] = req[v]
    BY <1>0, <1>2 DEF BeginSearch, Begin
  <2>3. e[w].meta = NoMeta
    BY <2>1 DEF DraftInv, Built
  <2>4. Built(w)' /\ Revised(w)'
    BY <2>1, <2>3 DEF Built, Revised
  <2>5. ASSUME NEW v \in Workers, v # w PROVE Built(v)' /\ Revised(v)'
    BY <2>1, <2>2, <2>5 DEF DraftInv, Built, Revised, ID, Chain
  <2> QED BY <2>4, <2>5 DEF DraftInv
<1>3. CASE Boot \/ UNCHANGED vars
  <2>1. UNCHANGED <<store, pc, req, at, e>>
    BY <1>3 DEF Boot, Preload, vars, stateVars, workerVars
  <2> QED BY <2>1 DEF DraftInv, Built, Revised, ID, Chain
<1>4. CASE Crash
  <2>1. \A v \in Workers : pc'[v] = "idle" /\ e'[v].meta = NoMeta
    BY <1>4 DEF Crash, BlankEntity
  <2> QED BY <2>1, DraftOver DEF DraftInv
<1> QED BY <1>1, <1>2, <1>3, <1>4, OwnDraft DEF Next, DraftInv

-----------------------------------------------------------------------------
(* Every step of the tree is one of the directory, or none.                *)

(* The refinement mapping of EntityTree: what clients see of a request. *)
PhaseOf(w) ==
  IF ~Busy(w) THEN "idle" ELSE IF Answered(w) THEN "answered" ELSE "called"

VerdictOf(w) ==
  IF ~Answered(w) THEN "none" ELSE IF reply[w] \in Errors THEN "error" ELSE "ok"

Phases   == [w \in Workers |-> PhaseOf(w)]
Verdicts == [w \in Workers |-> VerdictOf(w)]

(* Only the worker that makes a step has its request seen to move. *)
LEMMA OthersMap ==
  ASSUME NEW w \in Workers, OthersAsTheyWere(w)
  PROVE  /\ Phases' = [Phases EXCEPT ![w] = PhaseOf(w)']
         /\ Verdicts' = [Verdicts EXCEPT ![w] = VerdictOf(w)']
<1>1. \A v \in Workers \ {w} : PhaseOf(v)' = PhaseOf(v) /\ VerdictOf(v)' = VerdictOf(v)
  BY DEF OthersAsTheyWere, PhaseOf, VerdictOf, Answered, Busy, Chain
<1> QED BY <1>1 DEF Phases, Verdicts

(* A step that clients do not see. *)
LEMMA QuietMaps ==
  ASSUME NEW w \in Workers, OthersAsTheyWere(w), UNCHANGED <<store, req>>,
         PhaseOf(w)' = PhaseOf(w), VerdictOf(w)' = VerdictOf(w)
  PROVE  UNCHANGED Dir!dirVars
<1>1. Phases' = Phases /\ Verdicts' = Verdicts
  BY OthersMap DEF Phases, Verdicts
<1> QED BY <1>1 DEF Dir!dirVars, Phases, Verdicts, PhaseOf, VerdictOf

(* A step that answers. *)
LEMMA AnswerMaps ==
  ASSUME NEW w \in Workers, OthersAsTheyWere(w), req' = req, NEW v,
         PhaseOf(w) = "called", PhaseOf(w)' = "answered", VerdictOf(w)' = v
  PROVE  Dir!Answer(w, v)
<1>1. /\ Phases' = [Phases EXCEPT ![w] = "answered"] /\ Phases[w] = "called"
      /\ Verdicts' = [Verdicts EXCEPT ![w] = v]
  BY OthersMap DEF Phases
<1> QED BY <1>1 DEF Dir!Answer, Phases, Verdicts, PhaseOf, VerdictOf

(* Giving up refuses. *)
LEMMA FailMaps ==
  ASSUME IInv, NEW w \in Workers, WorkerStep(w), NEW err \in Errors, Fail(w, err),
         ~Answered(w), UNCHANGED <<store, req>>, req[w].chain \in Chains,
         \/ ~Accepts(req[w], store[ID(w)])
         \/ req[w].chain = "CREATE" /\ req[w].de.number = AutoNumber
  PROVE  Dir!Refuse(w)
<1>1. Busy(w) /\ OthersAsTheyWere(w)
  BY WorkerFrame
<1>2. pc'[w] = "done" /\ reply'[w] = err
  BY DEF Fail, IInv, TypeOK
<1>3. PhaseOf(w) = "called" /\ PhaseOf(w)' = "answered" /\ VerdictOf(w)' = "error"
  BY <1>1, <1>2 DEF PhaseOf, VerdictOf, Answered, Busy
<1>4. Dir!Answer(w, "error")
  BY <1>1, <1>3, AnswerMaps
<1>5. "SEARCH" \notin Chains
  BY DEF Chains, EditChains, EditHook
<1> QED BY <1>4, <1>5, DirectoryValues DEF Dir!Refuse, Dir!Acceptable, Accepts, ID

(* Before its last hook has run a chain has not answered. *)
LEMMA NotAnswered ==
  ASSUME NEW w, pc[w] \in {"number", "search", "idle"}
                \/ (pc[w] = "hook" /\ at[w] <= Len(Chain(w)) /\ at[w] \in Nat
                                   /\ Len(Chain(w)) \in Nat)
  PROVE  ~Answered(w)
BY DEF Answered

(* Going on to another hook is not seen. *)
LEMMA AdvanceMaps ==
  ASSUME IInv, NEW w \in Workers, WorkerStep(w), UNCHANGED <<store, req>>,
         pc[w] = "number" \/ (pc[w] = "hook" /\ at[w] <= Len(Chain(w))),
         pc'[w] = "number" \/ (pc'[w] = "hook" /\ at'[w] <= Len(Chain(w))),
         Len(Chain(w)) \in 1..5
  PROVE  UNCHANGED Dir!dirVars
<1>1. Busy(w) /\ OthersAsTheyWere(w) /\ IInv' /\ Chain(w)' = Chain(w)
  <2>1. IInv'
    BY NextIInv DEF Next
  <2> QED BY <2>1, WorkerFrame DEF Chain
<1>2. at[w] \in Nat /\ at'[w] \in Nat
  <2>1. at \in [Workers -> 1..6] /\ at' \in [Workers -> 1..6]
    BY <1>1 DEF IInv, TypeOK
  <2>2. at[w] \in 1..6 /\ at'[w] \in 1..6
    BY <2>1
  <2> QED BY <2>2
<1>3. ~Answered(w) /\ ~Answered(w)'
  BY <1>1, <1>2, NotAnswered DEF Answered
<1>4. PhaseOf(w)' = PhaseOf(w) /\ VerdictOf(w)' = VerdictOf(w)
  BY <1>1, <1>3 DEF PhaseOf, VerdictOf, Busy
<1> QED BY <1>1, <1>4, QuietMaps

(* How many hooks each chain has. *)
LEMMA ChainLengths ==
  ASSUME NEW w, req[w].chain \in Chains
  PROVE  /\ req[w].chain = "CREATE" => Len(Chain(w)) = 5
         /\ req[w].chain = "DESTROY" => Len(Chain(w)) = 2
         /\ req[w].chain = "FETCH" => Len(Chain(w)) = 1
         /\ req[w].chain = "SET_SECRET" => Len(Chain(w)) = 3
         /\ req[w].chain = "VALIDATE_IDENTITY" => Len(Chain(w)) = 4
         /\ req[w].chain \in EditChains => Len(Chain(w)) = 4
<1> DEFINE c == req[w].chain
<1>1. CASE c \in EditChains
  <2> DEFINE h == EditHook[c]
  <2>1. Chain(w) = <<"load-entity", "ensure-entity-meta", h, "save-entity">>
    BY <1>1, ChainCases DEF Chain
  <2>2. c \notin {"CREATE", "DESTROY", "FETCH", "SET_SECRET", "VALIDATE_IDENTITY"}
    BY <1>1, EditHooksDistinct
  <2> HIDE DEF h
  <2> QED BY <2>1, <2>2
<1>2. CASE c \in {"CREATE", "DESTROY", "FETCH", "SET_SECRET", "VALIDATE_IDENTITY"}
  <2>1. /\ Len(EntityChain["CREATE"]) = 5 /\ Len(EntityChain["DESTROY"]) = 2
        /\ Len(EntityChain["FETCH"]) = 1 /\ Len(EntityChain["SET_SECRET"]) = 3
        /\ Len(EntityChain["VALIDATE_IDENTITY"]) = 4
    BY ChainCases
  <2>2. c \notin EditChains
    BY <1>2, EditHooksDistinct
  <2> QED BY <2>1, <2>2 DEF Chain
<1> QED BY <1>1, <1>2 DEF Chains

(* The write of a chain is where its request takes effect.                 *)
LEMMA WriteAnswers ==
  ASSUME IInv, IInv', NEW w \in Workers, WorkerStep(w), Writes(w)
  PROVE  /\ Dir!Answer(w, "ok")
         /\ req[w] \in Requests /\ req[w].chain \in Chains /\ ID(w) \in Entities
         /\ e[w] \in Entity /\ e[w].id = ID(w) /\ store \in [Entities -> Entity \cup {NoEntity}]
         /\ at[w] = Len(Chain(w)) /\ at[w] >= 2
<1>1. /\ pc[w] = "hook" /\ at[w] \in DOMAIN Chain(w) /\ pc'[w] = "notify"
      /\ OthersAsTheyWere(w) /\ req'[w] = req[w]
  BY WorkerFrame DEF Writes
<1>2. /\ req[w] \in Requests /\ req[w].chain \in Chains /\ ID(w) \in Entities
      /\ e[w] \in Entity /\ at[w] \in 1..Len(Chain(w)) /\ Len(Chain(w)) \in 1..5
      /\ HookFact(req[w].chain, at[w], Chain(w)[at[w]], Len(Chain(w)))
  BY <1>1, InChainFacts DEF InChainStates
<1>3. at[w] = Len(Chain(w)) /\ at[w] >= 2 /\ (req[w].chain = "CREATE" => at[w] >= 3)
  BY <1>2 DEF HookFact, Writes
<1>4. e[w].id = ID(w)
  BY <1>1, <1>3 DEF IInv, Drafted, InChainStates
<1>5. reply'[w] = "none"
  BY <1>1 DEF IInv, Placed
<1>6. ~Answered(w)
  <2>1. PICK n : n = Len(Chain(w))
    OBVIOUS
  <2>2. ~(at[w] > n)
    BY <1>2, <1>3, <2>1
  <2> QED BY <1>1, <2>1, <2>2 DEF Answered
<1>7. PhaseOf(w) = "called" /\ PhaseOf(w)' = "answered" /\ VerdictOf(w)' = "ok"
  BY <1>1, <1>5, <1>6 DEF PhaseOf, VerdictOf, Answered, Busy, Errors
<1>8. req' = req
  BY <1>1 DEF IInv, TypeOK, OthersAsTheyWere
<1> QED BY <1>1, <1>2, <1>3, <1>4, <1>7, <1>8, AnswerMaps DEF IInv, TypeOK

(* CREATE puts a new entity where there was none. *)
LEMMA CreateMaps ==
  ASSUME IInv, IInv', NumInv, AllFresh, DraftInv,
         NEW w \in Workers, WorkerStep(w), Writes(w), req[w].chain = "CREATE"
  PROVE  Dir!Create(w)
<1> DEFINE r == req[w]  n == e[w].number
<1>1. /\ Dir!Answer(w, "ok") /\ r \in Requests /\ ID(w) \in Entities
      /\ e[w] \in Entity /\ e[w].id = ID(w) /\ store \in [Entities -> Entity \cup {NoEntity}]
  BY WriteAnswers
<1>2. /\ pc[w] = "hook" /\ at[w] = 5 /\ store' = [store EXCEPT ![ID(w)] = e[w]]
      /\ r.de.number = AutoNumber => n > 0 /\ \A x \in Stored : store[x].number < n
  BY CreationNumbers DEF Writes
<1>3. /\ e[w].meta = NoMeta /\ e[w].secret = Secured(r.de.secret)
      /\ r.de.number # AutoNumber => n = r.de.number
  BY <1>2 DEF DraftInv, Built
<1>4. n \in Numbers
  BY <1>1 DEF Entity
<1>5. e[w] = Dir!Created(r.de, n)
  <2>1. ID(w) = r.de.id
    BY DEF ID
  <2>2. PICK c : c = Dir!Created(r.de, n)
    OBVIOUS
  <2>3. c \in Entity /\ c.id = e[w].id /\ c.number = n /\ c.secret = e[w].secret
        /\ c.meta = e[w].meta
    BY <1>1, <1>3, <1>4, <2>1, <2>2, CreatedFields
  <2> QED BY <1>1, <2>2, <2>3, EntityFields
<1>6. Dir!Acceptable(r)
  <2>1. store[ID(w)] = NoEntity
    BY <1>2 DEF AllFresh, Fresh
  <2>2. Accepts(r, store[ID(w)])
    BY <2>1, AcceptsKnown
  <2> QED BY <2>2 DEF Dir!Acceptable, Accepts, ID
<1>7. r.de.number = AutoNumber => n > 0 /\ Dir!Unused(n)
  <2>1. ASSUME r.de.number = AutoNumber, NEW x \in Entities, store[x] # NoEntity
        PROVE  store[x].number # n
    <3>1. store[x].number < n
      BY <1>2, <2>1 DEF Stored
    <3>2. store[x].number \in Int /\ n \in Int
      BY <1>1, <1>4, <2>1 DEF Entity, Numbers
    <3> QED BY <3>1, <3>2
  <2> QED BY <1>2, <2>1 DEF Dir!Unused
<1>8. store' = [store EXCEPT ![r.de.id] = Dir!Created(r.de, n)]
  BY <1>2, <1>5 DEF ID
<1> HIDE DEF n
<1> QED BY <1>1, <1>3, <1>4, <1>6, <1>7, <1>8, DirectoryValues DEF Dir!Create

(* DESTROY removes what is there. *)
LEMMA DestroyMaps ==
  ASSUME IInv, IInv', DraftInv,
         NEW w \in Workers, WorkerStep(w), Writes(w), req[w].chain = "DESTROY"
  PROVE  Dir!Destroy(w)
<1>1. Dir!Answer(w, "ok") /\ ID(w) \in Entities /\ at[w] = Len(Chain(w))
  BY WriteAnswers
<1>2. Len(Chain(w)) = 2 /\ Chain(w)[2] = "destroy-entity"
  BY AckChains
<1>3. store' = [store EXCEPT ![ID(w)] = NoEntity]
  BY <1>1, <1>2 DEF Writes, Destroys
<1>4. store[ID(w)] # NoEntity
  <2>1. at[w] = 2 /\ at[w] \in 2..Len(Chain(w)) /\ "DESTROY" \in Chains
    BY <1>1, <1>2 DEF Chains
  <2> QED BY <2>1 DEF DraftInv, Revised, Writes
<1>5. Dir!Acceptable(req[w])
  BY <1>4, AcceptsKnown DEF Dir!Acceptable, Accepts, ID
<1> QED BY <1>1, <1>3, <1>5 DEF Dir!Destroy, ID

(* Any other chain that writes leaves what the directory makes of what is  *)
(* stored, however long ago it loaded that.                                *)
LEMMA EditMaps ==
  ASSUME IInv, IInv', NumInv, DraftInv, NEW w \in Workers, WorkerStep(w), Writes(w),
         req[w].chain \notin {"CREATE", "DESTROY"}
  PROVE  Dir!Edit(w)
<1> DEFINE r == req[w]  x == store[ID(w)]  d == e[w]
<1>1. /\ Dir!Answer(w, "ok") /\ r \in Requests /\ r.chain \in Chains /\ ID(w) \in Entities
      /\ d \in Entity /\ d.id = ID(w) /\ store \in [Entities -> Entity \cup {NoEntity}]
      /\ at[w] = Len(Chain(w)) /\ at[w] >= 2
  BY WriteAnswers
<1>2. r.chain # "FETCH"
  <2>1. PICK n : n = Len(Chain(w))
    OBVIOUS
  <2>2. at[w] = n /\ at[w] >= 2 /\ (r.chain = "FETCH" => n = 1)
    BY <1>1, <2>1, ChainLengths
  <2> QED BY <2>2
<1>3. /\ r.chain = "SET_SECRET" => at[w] = 3
      /\ r.chain = "VALIDATE_IDENTITY" => at[w] = 4
      /\ r.chain \in EditChains => at[w] = 4
  BY <1>1, ChainLengths, EditHooksDistinct
<1>4. r.chain \in {"SET_SECRET", "VALIDATE_IDENTITY"} \/ r.chain \in EditChains
  BY <1>1, <1>2 DEF Chains
<1>5. at[w] \in 2..Len(Chain(w)) /\ pc[w] = "hook"
  BY <1>1, <1>3, <1>4 DEF Writes
<1>6. x # NoEntity /\ RevisedTo(r, at[w], d, x) /\ d.number = x.number
  BY <1>1, <1>5 DEF DraftInv, Revised, NumInv, Numbering, Editing
<1>7. x \in Entity /\ x.id = ID(w)
  BY <1>1, <1>6 DEF IInv, StoredUnderOwnKey, Stored
<1>8. ~Destroys(w)
  <2>1. /\ Chain(w)[at[w]] = "save-entity"
    BY <1>3, <1>4, ChainCases DEF Chain
  <2> QED BY <2>1 DEF Destroys
<1>9. store' = [store EXCEPT ![ID(w)] = d]
  BY <1>8 DEF Writes
<1> HIDE DEF r, x, d
<1>10. Accepts(r, x) /\ d = Dir!Edited(r, x)
  <2>1. PICK y : y = Dir!Edited(r, x)
    OBVIOUS
  <2>2. CASE r.chain = "SET_SECRET"
    <3>1. d.secret = Secured(r.de.secret) /\ d.meta = x.meta
      BY <1>3, <1>6, <2>2, EditHooksDistinct DEF RevisedTo
    <3>2. /\ y \in Entity /\ y.secret = d.secret /\ y.meta = d.meta
          /\ y.id = d.id /\ y.number = d.number
      BY <1>1, <1>6, <1>7, <2>1, <2>2, <3>1, EditedFields
    <3> QED BY <1>1, <1>6, <2>1, <2>2, <3>2, EntityFields, AcceptsKnown
  <2>3. CASE r.chain = "VALIDATE_IDENTITY"
    <3>1. d.secret = x.secret /\ d.meta = x.meta /\ ~IsLocked(x) /\ Verifies(r.de.secret, x)
      BY <1>3, <1>6, <2>3, EditHooksDistinct DEF RevisedTo
    <3>2. d = x
      BY <1>1, <1>6, <1>7, <3>1, EntityFields
    <3> QED BY <1>1, <1>6, <1>7, <2>3, <3>1, <3>2, EditedFields, AcceptsKnown
  <2>4. CASE r.chain \in EditChains
    <3>1. /\ d.secret = x.secret /\ Accepts(r, x)
          /\ d.meta = EditedMeta(EditHook[r.chain], RequestMeta(x), RequestMeta(r.de))
      BY <1>3, <1>6, <2>4, EditHooksDistinct DEF RevisedTo
    <3>2. /\ y \in Entity /\ y.secret = d.secret /\ y.meta = d.meta
          /\ y.id = d.id /\ y.number = d.number
      BY <1>1, <1>6, <1>7, <2>1, <2>4, <3>1, EditedFields
    <3> QED BY <1>1, <2>1, <3>1, <3>2, EntityFields
  <2> QED BY <1>4, <2>2, <2>3, <2>4
<1>11. Dir!Acceptable(r) /\ store' = [store EXCEPT ![r.de.id] = Dir!Edited(r, @)]
  BY <1>9, <1>10 DEF Dir!Acceptable, Accepts, ID, r, x
<1>12. r.chain \in Dir!Chains \ {"CREATE", "DESTROY"}
  BY <1>1, DirectoryValues DEF r
<1> QED BY <1>1, <1>11, <1>12 DEF Dir!Edit, r

(* load-entity: FETCH has nothing else to do, and any chain may find that  *)
(* there is no such entity.                                                *)
LEMMA LoadEntityMaps ==
  ASSUME NoFaults, IInv, NEW w \in Workers, LoadEntity(w)
  PROVE  Dir!Refuse(w) \/ Dir!Edit(w) \/ UNCHANGED Dir!dirVars
<1>1. /\ WorkerStep(w) /\ UNCHANGED <<store, req>> /\ pc[w] = "hook"
      /\ at[w] = 1 /\ req[w].chain # "CREATE" /\ req[w] \in Requests /\ req[w].chain \in Chains
      /\ Len(Chain(w)) \in 1..5 /\ ID(w) \in Entities
  BY HookNumbered DEF LoadEntity, LocalStep, stateVars, WorkerStep, HookFact
<1>2. ~Answered(w)
  <2>1. PICK n : n = Len(Chain(w))
    OBVIOUS
  <2>2. ~(at[w] > n)
    BY <1>1, <2>1
  <2> QED BY <1>1, <2>1, <2>2 DEF Answered
<1>3. CASE \E err \in Errors : Fail(w, err)
  <2>1. store[ID(w)] = NoEntity
    BY <1>1, <1>3 DEF LoadEntity, NoFaults, Advance, Fail, IInv, TypeOK
  <2> QED BY <1>1, <1>2, <1>3, <2>1, AcceptsKnown, FailMaps
<1>4. CASE store[ID(w)] # NoEntity /\ Advance(w)
  <2>1. /\ pc'[w] = "hook" /\ at'[w] = 2
    BY <1>1, <1>4 DEF Advance, IInv, TypeOK
  <2>2. CASE req[w].chain = "FETCH"
    <3>1. Len(Chain(w)) = 1 /\ Len(Chain(w))' = 1
      <4>1. Len(Chain(w)) = 1
        BY <1>1, <2>2, ChainLengths
      <4> QED BY <1>1, <4>1 DEF Chain
    <3>2. OthersAsTheyWere(w) /\ IInv'
      BY <1>1, WorkerFrame, NextIInv DEF Next
    <3>3. Answered(w)' /\ reply'[w] = "none"
      BY <2>1, <3>1, <3>2 DEF Answered, IInv, Placed
    <3>4. PhaseOf(w) = "called" /\ PhaseOf(w)' = "answered" /\ VerdictOf(w)' = "ok"
      BY <1>1, <1>2, <2>1, <3>3 DEF PhaseOf, VerdictOf, Busy, Errors
    <3>5. Dir!Answer(w, "ok")
      BY <1>1, <3>2, <3>4, AnswerMaps
    <3>6. Dir!Acceptable(req[w])
      BY <1>4, <2>2, AcceptsKnown DEF Dir!Acceptable, Accepts, ID
    <3>7. store' = [store EXCEPT ![req[w].de.id] = Dir!Edited(req[w], @)]
      <4>1. Dir!Edited(req[w], store[ID(w)]) = store[ID(w)]
        BY <2>2 DEF Dir!Edited
      <4>2. store = [store EXCEPT ![ID(w)] = store[ID(w)]]
        BY <1>1 DEF IInv, TypeOK
      <4> QED BY <1>1, <4>1, <4>2 DEF ID
    <3> QED BY <1>1, <2>2, <3>5, <3>6, <3>7, DirectoryValues DEF Dir!Edit
  <2>3. CASE req[w].chain # "FETCH"
    <3>1. PICK n : n = Len(Chain(w))
      OBVIOUS
    <3>2. n \in {2, 3, 4}
      BY <1>1, <2>3, <3>1, ChainLengths DEF Chains
    <3>3. at'[w] <= n /\ at[w] <= n
      BY <1>1, <2>1, <3>2
    <3>4. at'[w] <= Len(Chain(w)) /\ at[w] <= Len(Chain(w))
      BY <3>1, <3>3
    <3> QED BY <1>1, <2>1, <3>4, AdvanceMaps
  <2> QED BY <2>2, <2>3
<1> QED BY <1>3, <1>4 DEF LoadEntity, Errors

(* The hooks of a creation that look at storage. *)
LEMMA CreationMaps ==
  ASSUME NoFaults, IInv, NumInv, NEW w \in Workers,
         \/ FailOnExistingEntity(w) \/ SetEntityNumber(w) \/ AssignNumber(w)
         \/ \E x \in Entities : ScanNumber(w, x)
  PROVE  Dir!Refuse(w) \/ UNCHANGED Dir!dirVars
<1>0. /\ pc \in [Workers -> {"idle", "hook", "number", "notify", "apply", "search", "done"}]
      /\ at \in [Workers -> 1..6]
  BY DEF IInv, TypeOK
<1>1. /\ WorkerStep(w) /\ UNCHANGED <<store, req>>
      /\ pc[w] \in {"hook", "number"} /\ at[w] \in DOMAIN Chain(w)
      /\ Chain(w)[at[w]] \in {"fail-on-existing-entity", "set-entity-number"}
      /\ Chain(w)[at[w]] = "fail-on-existing-entity" => FailOnExistingEntity(w)
  BY DEF FailOnExistingEntity, SetEntityNumber, AssignNumber, ScanNumber, InChain,
         LocalStep, stateVars, WorkerStep, IInv, Placed
<1>2. /\ req[w].chain = "CREATE" /\ req[w] \in Requests /\ req[w].chain \in Chains
      /\ at[w] \in {1, 3} /\ Len(Chain(w)) = 5
  <2>1. /\ HookFact(req[w].chain, at[w], Chain(w)[at[w]], Len(Chain(w)))
        /\ req[w] \in Requests /\ req[w].chain \in Chains
    BY <1>1, InChainFacts DEF InChainStates
  <2> QED BY <1>1, <2>1, ChainLengths DEF HookFact
<1>3. ~Answered(w) /\ (pc[w] = "number" \/ (pc[w] = "hook" /\ at[w] <= Len(Chain(w))))
  <2>1. ~(at[w] > 5) /\ at[w] <= 5
    BY <1>2
  <2> QED BY <1>1, <1>2, <2>1 DEF Answered
<1>4. ASSUME NEW err \in Errors, Fail(w, err)
      PROVE  \/ ~Accepts(req[w], store[ID(w)])
             \/ req[w].chain = "CREATE" /\ req[w].de.number = AutoNumber
  <2>1. pc'[w] = "done"
    BY <1>0, <1>4 DEF Fail
  <2>2. CASE FailOnExistingEntity(w)
    <3>1. store[ID(w)] # NoEntity
      BY <1>0, <2>1, <2>2 DEF FailOnExistingEntity, Advance
    <3> QED BY <1>2, <3>1, AcceptsKnown
  <2>3. CASE SetEntityNumber(w) \/ AssignNumber(w)
    BY <1>0, <2>1, <2>3 DEF SetEntityNumber, AssignNumber, Advance
  <2>4. CASE \E x \in Entities : ScanNumber(w, x)
    BY <1>2, <2>4 DEF ScanNumber, NumInv, Numbering, Creating
  <2> QED BY <2>2, <2>3, <2>4
<1>5. CASE \E err \in Errors : Fail(w, err)
  BY <1>1, <1>2, <1>3, <1>4, <1>5, FailMaps
<1>6. CASE ~\E err \in Errors : Fail(w, err)
  <2>1. \/ pc'[w] = "number"
        \/ pc'[w] = "hook" /\ at'[w] = at[w] + 1
    BY <1>0, <1>6 DEF FailOnExistingEntity, SetEntityNumber, AssignNumber, ScanNumber,
       Advance, Errors
  <2>2. pc'[w] = "number" \/ (pc'[w] = "hook" /\ at'[w] <= Len(Chain(w)))
    BY <1>2, <2>1
  <2>3. Len(Chain(w)) \in 1..5
    BY <1>2
  <2> QED BY <1>1, <1>3, <2>2, <2>3, AdvanceMaps
<1> QED BY <1>5, <1>6

(* The hooks that work on the draft alone. *)
LEMMA RunHookMaps ==
  ASSUME NoFaults, IInv, DraftInv, NEW w \in Workers, NEW h \in Hooks \ StorageHooks,
         RunHook(w, h)
  PROVE  Dir!Refuse(w) \/ UNCHANGED Dir!dirVars
<1>1. /\ WorkerStep(w) /\ UNCHANGED <<store, req>> /\ pc[w] = "hook" /\ InChain(w, h)
      /\ req[w] \in Requests /\ req[w].chain \in Chains
      /\ Len(Chain(w)) \in 1..5 /\ at[w] \in 1..Len(Chain(w))
      /\ e[w] \in Entity /\ ID(w) \in Entities
  BY HookNumbered DEF RunHook, LocalStep, stateVars, WorkerStep
<1>2. at[w] < Len(Chain(w)) /\ at[w] \in 2..4
  <2>1. \/ req[w].chain = "CREATE" /\ at[w] \in {2, 4}
        \/ req[w].chain = "SET_SECRET" /\ at[w] = 2
        \/ req[w].chain \in EditChains \cup {"VALIDATE_IDENTITY"} /\ at[w] \in {2, 3}
    BY <1>1, HookPlaces
  <2>2. PICK n : n = Len(Chain(w))
    OBVIOUS
  <2>3. /\ req[w].chain = "CREATE" => n = 5
        /\ req[w].chain = "SET_SECRET" => n = 3
        /\ req[w].chain \in EditChains \cup {"VALIDATE_IDENTITY"} => n = 4
    BY <1>1, <2>2, ChainLengths
  <2>4. at[w] < n /\ at[w] \in 2..4
    BY <2>1, <2>3
  <2> QED BY <2>2, <2>4
<1>3. ~Answered(w)
  BY <1>1, <1>2 DEF Answered
<1>4. CASE \E err \in Errors : Fail(w, err)
  <2>1. HookFails(h, e[w], req[w].de)
    BY <1>1, <1>4 DEF RunHook, NoFaults, Advance, Fail, IInv, TypeOK
  <2>2. ~Accepts(req[w], store[ID(w)])
    <3> DEFINE r == req[w]  x == store[ID(w)]  d == e[w]
    <3>1. r.chain \notin {"CREATE", "SET_SECRET"}
      <4>1. SUFFICES ASSUME r.chain \in {"CREATE", "SET_SECRET"} PROVE FALSE
        OBVIOUS
      <4>2. h \in {"set-entity-id", "set-entity-secret"}
        BY <1>1, <4>1, HookPlaces, EditHooksDistinct
      <4> QED BY <2>1, <4>2 DEF HookFails
    <3>2. x # NoEntity /\ RevisedTo(r, at[w], d, x)
      <4>1. at[w] \in 2..Len(Chain(w))
        BY <1>1, <1>2
      <4> QED BY <1>1, <3>1, <4>1 DEF DraftInv, Revised
    <3>3. CASE r.chain = "VALIDATE_IDENTITY"
      <4>1. \/ h = "validate-entity-unlocked" \/ h = "validate-entity-secret"
        BY <1>1, <3>3, HookPlaces, EditHooksDistinct
      <4>2. d.secret = x.secret /\ d.meta = x.meta
        BY <3>2, <3>3, EditHooksDistinct DEF RevisedTo
      <4>3. IsLocked(d) \/ ~Verifies(r.de.secret, d)
        BY <2>1, <4>1 DEF HookFails
      <4>4. IsLocked(x) \/ ~Verifies(r.de.secret, x)
        BY <4>2, <4>3 DEF IsLocked, Verifies
      <4> QED BY <3>3, <4>4, AcceptsKnown
    <3>4. CASE r.chain \in EditChains
      <4>1. h # "ensure-entity-meta"
        BY <2>1 DEF HookFails
      <4>2. at[w] = 3 /\ h = EditHook[r.chain]
        BY <1>1, <3>4, <4>1, HookPlaces, EditHooksDistinct
      <4>3. d.meta = RequestMeta(x)
        BY <3>2, <3>4, <4>2 DEF RevisedTo
      <4>4. d.meta # NoMeta
        BY <1>1, <3>4, <4>2 DEF IInv, Drafted, InChainStates
      <4>5. HookFails(EditHook[r.chain], d, r.de)
        BY <2>1, <4>2
      <4> HIDE DEF r, x, d
      <4>6. ~Accepts(r, x)
        BY <3>2, <3>4, <4>3, <4>4, <4>5, AcceptsEdit
      <4> QED BY <4>6 DEF r, x
    <3> QED BY <1>1, <3>1, <3>3, <3>4, HookPlaces
  <2> QED BY <1>1, <1>3, <1>4, <2>2, FailMaps
<1>5. CASE Advance(w)
  <2>1. pc'[w] = "hook" /\ at'[w] = at[w] + 1
    BY <1>5 DEF Advance, IInv, TypeOK
  <2>2. at'[w] <= Len(Chain(w)) /\ at[w] <= Len(Chain(w))
    BY <1>1, <1>2, <2>1
  <2> QED BY <1>1, <2>1, <2>2, AdvanceMaps
<1> QED BY <1>4, <1>5 DEF RunHook, Errors

(* What the rest of the steps of a request come to. *)
LEMMA WorkerMaps ==
  ASSUME NoFaults, IInv, NumInv, AllFresh, DraftInv, SearchInv,
         NEW w \in Workers, WorkerStep(w)
  PROVE  \/ Dir!Create(w) \/ Dir!Destroy(w) \/ Dir!Edit(w) \/ Dir!Search(w)
         \/ Dir!Refuse(w) \/ Dir!Forget(w) \/ UNCHANGED Dir!dirVars
<1>0. /\ pc \in [Workers -> {"idle", "hook", "number", "notify", "apply", "search", "done"}]
      /\ at \in [Workers -> 1..6] /\ reply \in [Workers -> {"none", "ok"} \cup Errors]
  BY DEF IInv, TypeOK
<1>1. IInv' /\ OthersAsTheyWere(w)
  BY WorkerFrame, NextIInv DEF Next
<1>2. CASE LoadEntity(w)
  BY <1>2, LoadEntityMaps
<1>3. CASE \/ FailOnExistingEntity(w) \/ SetEntityNumber(w) \/ AssignNumber(w)
           \/ \E x \in Entities : ScanNumber(w, x)
  BY <1>3, CreationMaps
<1>4. CASE \E h \in Hooks \ StorageHooks : RunHook(w, h)
  BY <1>4, RunHookMaps
<1>5. CASE SaveEntity(w) \/ DeleteEntity(w)
  <2>1. CASE Writes(w)
    BY <1>1, <2>1, CreateMaps, DestroyMaps, EditMaps
  <2>2. CASE ~Writes(w)
    <3>1. CASE SaveEntity(w)
      <4>1. ~\E err \in Errors : Fail(w, err)
        <5>1. pc' = [pc EXCEPT ![w] = "notify"]
          BY <3>1 DEF SaveEntity, NoFaults, Write
        <5> QED BY <1>0, <5>1 DEF Fail
      <4> QED BY <1>5, <2>2, <4>1, SaveFrame
    <3>2. CASE DeleteEntity(w)
      <4>1. /\ pc[w] = "hook" /\ pc[w] \in InChainStates /\ at[w] \in DOMAIN Chain(w)
            /\ Chain(w)[at[w]] = "destroy-entity"
        BY <3>2 DEF DeleteEntity, InChain, InChainStates
      <4>2. /\ ID(w) \in Entities /\ req[w].chain \in Chains /\ at[w] >= 2
            /\ at[w] \in 1..Len(Chain(w)) /\ at[w] = Len(Chain(w))
            /\ req[w].chain = "CREATE" => at[w] >= 3
            /\ Len(Chain(w)) \in 1..5
        BY <4>1, InChainFacts DEF HookFact
      <4>3. e[w].id = ID(w) /\ ID(w) # NoID
        BY <4>1, <4>2, ZeroValuesAssumption DEF IInv, Drafted
      <4>4. req[w].chain # "CREATE"
        <5>1. req[w].chain = "CREATE" => at[w] = 5
          BY <4>2, ChainLengths
        <5> QED BY <4>1, <5>1, ChainCases DEF Chain
      <4>5. store[ID(w)] # NoEntity
        <5>1. at[w] \in 2..Len(Chain(w))
          BY <4>2
        <5> QED BY <4>1, <4>2, <4>4, <5>1 DEF DraftInv, Revised
      <4>6. Write(w, ID(w), NoEntity)
        BY <3>2, <4>3, <4>5 DEF DeleteEntity, NoFaults
      <4>7. pc' = [pc EXCEPT ![w] = "notify"]
        BY <4>6 DEF Write
      <4>8. ~\E err \in Errors : Fail(w, err)
        BY <1>0, <4>7 DEF Fail
      <4> QED BY <1>5, <2>2, <4>8, SaveFrame
    <3> QED BY <1>5, <3>1, <3>2
  <2> QED BY <2>1, <2>2
<1>6. CASE \/ \E c \in Callbacks : CallbackRemove(w, c) \/ CallbackLoad(w, c)
           \/ CallbackApply(w)
  <2>1. /\ UNCHANGED <<store, req>> /\ pc[w] \in {"notify", "apply"}
        /\ pc'[w] \in {"notify", "apply"} /\ reply' = reply
    BY <1>0, <1>6 DEF CallbackRemove, CallbackLoad, CallbackApply, stateVars
  <2>2. PhaseOf(w)' = PhaseOf(w) /\ VerdictOf(w)' = VerdictOf(w)
    BY <2>1 DEF PhaseOf, VerdictOf, Answered, Busy, Errors
  <2> QED BY <1>1, <2>1, <2>2, QuietMaps
<1>7. CASE FinishWrite(w)
  <2>1. /\ UNCHANGED <<store, req>> /\ pc[w] = "notify" /\ reply' = reply
        /\ pc'[w] = "hook" /\ at'[w] = at[w] + 1
    BY <1>0, <1>7 DEF FinishWrite, Advance, stateVars
  <2>2. /\ pc[w] \in InChainStates /\ at[w] \in DOMAIN Chain(w)
        /\ Chain(w)[at[w]] \in {"save-entity", "destroy-entity"}
    BY <2>1 DEF IInv, Placed, InChainStates
  <2>3. at[w] = Len(Chain(w)) /\ Len(Chain(w)) \in 1..5 /\ Chain(w)' = Chain(w)
    BY <2>1, <2>2, InChainFacts DEF HookFact, Chain
  <2>4. at'[w] > Len(Chain(w))'
    <3>1. PICK n : n = Len(Chain(w)) /\ n \in 1..5
      BY <2>3
    <3>2. at'[w] > n
      BY <2>1, <2>3, <3>1
    <3> QED BY <2>3, <3>1, <3>2
  <2>5. Answered(w) /\ Answered(w)' /\ Busy(w) /\ Busy(w)'
    BY <2>1, <2>4 DEF Answered, Busy
  <2>6. PhaseOf(w)' = PhaseOf(w) /\ VerdictOf(w)' = VerdictOf(w)
    BY <2>1, <2>5 DEF PhaseOf, VerdictOf, Errors
  <2> QED BY <1>1, <2>1, <2>6, QuietMaps
<1>8. CASE FinishChain(w)
  <2>1. /\ UNCHANGED <<store, req>> /\ pc[w] = "hook" /\ at[w] > Len(Chain(w))
        /\ pc'[w] = "done" /\ reply'[w] = "ok"
    BY <1>0, <1>8 DEF FinishChain, stateVars
  <2>2. reply[w] = "none"
    BY <2>1 DEF IInv, Placed
  <2>3. Answered(w) /\ Answered(w)' /\ Busy(w) /\ Busy(w)'
    BY <2>1 DEF Answered, Busy
  <2>4. PhaseOf(w)' = PhaseOf(w) /\ VerdictOf(w)' = VerdictOf(w)
    BY <2>1, <2>2, <2>3 DEF PhaseOf, VerdictOf, Errors
  <2> QED BY <1>1, <2>1, <2>4, QuietMaps
<1>9. CASE \E x \in Entities : SearchLoad(w, x)
  <2>1. PICK x \in Entities : SearchLoad(w, x)
    BY <1>9
  <2>2. /\ UNCHANGED <<store, req>> /\ pc[w] = "search" /\ store[x] # NoEntity
    BY <2>1 DEF SearchLoad, LocalStep, stateVars, SearchInv, Finds, Stored
  <2>3. pc'[w] = "search"
    BY <2>1, <2>2 DEF SearchLoad, NoFaults
  <2>4. PhaseOf(w)' = PhaseOf(w) /\ VerdictOf(w)' = VerdictOf(w)
    BY <2>2, <2>3 DEF PhaseOf, VerdictOf, Answered, Busy
  <2> QED BY <1>1, <2>2, <2>4, QuietMaps
<1>10. CASE FinishSearch(w)
  <2>1. /\ UNCHANGED <<store, req>> /\ pc[w] = "search" /\ pc'[w] = "done" /\ reply'[w] = "ok"
    BY <1>0, <1>10 DEF FinishSearch, LocalStep, stateVars
  <2>2. req[w].chain = "SEARCH"
    BY <2>1 DEF IInv, Placed, SearchRequest
  <2>3. PhaseOf(w) = "called" /\ PhaseOf(w)' = "answered" /\ VerdictOf(w)' = "ok"
    BY <2>1 DEF PhaseOf, VerdictOf, Answered, Busy, Errors
  <2> QED BY <1>1, <2>1, <2>2, <2>3, AnswerMaps DEF Dir!Search
<1>11. CASE Return(w)
  <2>1. /\ store' = store /\ pc[w] = "done" /\ pc'[w] = "idle"
        /\ req' = [req EXCEPT ![w] = NoRequest]
    BY <1>0, <1>11 DEF Return, stateVars
  <2>2. /\ PhaseOf(w) = "answered" /\ PhaseOf(w)' = "idle" /\ VerdictOf(w)' = "none"
    BY <2>1 DEF PhaseOf, VerdictOf, Answered, Busy
  <2>3. /\ Phases' = [Phases EXCEPT ![w] = "idle"] /\ Phases[w] = "answered"
        /\ Verdicts' = [Verdicts EXCEPT ![w] = "none"]
    BY <1>1, <2>2, OthersMap DEF Phases
  <2> QED BY <2>1, <2>3, DirectoryValues
          DEF Dir!Forget, Phases, Verdicts, PhaseOf, VerdictOf
<1> QED BY <1>2, <1>3, <1>4, <1>5, <1>6, <1>7, <1>8, <1>9, <1>10, <1>11 DEF WorkerStep

(* A request that arrives is called. *)
LEMMA ArrivalMaps ==
  ASSUME IInv, NEW w \in Workers, NEW r \in AnyRequest,
         \/ r \in Requests /\ Begin(w, r)
         \/ r = SearchRequest /\ BeginSearch(w)
  PROVE  Dir!Call(w, r)
<1>0. /\ pc \in [Workers -> {"idle", "hook", "number", "notify", "apply", "search", "done"}]
      /\ req \in [Workers -> AnyRequest \cup {NoRequest}] /\ at \in [Workers -> 1..6]
  BY DEF IInv, TypeOK
<1>1. /\ pc[w] = "idle" /\ at[w] = 1 /\ UNCHANGED <<store, at, reply>>
      /\ req' = [req EXCEPT ![w] = r] /\ req'[w] = r
  BY <1>0 DEF Begin, BeginSearch, Busy, stateVars, IInv, Placed
<1>2. pc'[w] = "search" \/ (pc'[w] = "hook" /\ r \in Requests)
  BY <1>0 DEF Begin, BeginSearch
<1>3. ~Answered(w)'
  <2>1. CASE pc'[w] = "search"
    BY <2>1 DEF Answered
  <2>2. CASE pc'[w] = "hook" /\ r \in Requests
    <3>1. Len(Chain(w))' \in 1..5
      BY <1>1, <2>2, RequestFacts, ChainFacts DEF Chain
    <3>2. PICK n : n = Len(Chain(w))' /\ n \in 1..5
      BY <3>1
    <3>3. at'[w] = 1
      BY <1>1
    <3>4. ~(at'[w] > n)
      BY <3>2, <3>3
    <3> QED BY <2>2, <3>2, <3>4 DEF Answered
  <2> QED BY <1>2, <2>1, <2>2
<1>4. \A v \in Workers \ {w} : PhaseOf(v)' = PhaseOf(v) /\ VerdictOf(v)' = VerdictOf(v)
  <2>1. \A v \in Workers \ {w} : pc'[v] = pc[v] /\ req'[v] = req[v]
    BY <1>0 DEF Begin, BeginSearch
  <2> QED BY <1>1, <2>1 DEF PhaseOf, VerdictOf, Answered, Busy, Chain
<1>5. /\ PhaseOf(w) = "idle" /\ PhaseOf(w)' = "called"
      /\ VerdictOf(w)' = VerdictOf(w)
  BY <1>1, <1>2, <1>3 DEF PhaseOf, VerdictOf, Busy, Answered
<1>6. /\ Phases' = [Phases EXCEPT ![w] = "called"] /\ Phases[w] = "idle"
      /\ Verdicts' = Verdicts
  BY <1>4, <1>5 DEF Phases, Verdicts
<1> QED BY <1>1, <1>6 DEF Dir!Call, Phases, Verdicts, PhaseOf, VerdictOf

(* Any step. *)
LEMMA NextMaps ==
  ASSUME NoFaults
  PROVE  IInv /\ NumInv /\ AllFresh /\ DraftInv /\ SearchInv /\ [Next]_vars
           => [Dir!DirNext]_(Dir!dirVars)
<1> SUFFICES ASSUME IInv, NumInv, AllFresh, DraftInv, SearchInv, [Next]_vars
             PROVE  [Dir!DirNext]_(Dir!dirVars)
  OBVIOUS
<1>1. ASSUME NEW w \in Workers, WorkerStep(w) PROVE Dir!DirNext \/ UNCHANGED Dir!dirVars
  BY <1>1, WorkerMaps DEF Dir!DirNext
<1>2. ASSUME NEW w \in Workers, BeginSearch(w) \/ \E r \in Requests : Begin(w, r)
      PROVE  Dir!DirNext
  BY <1>2, ArrivalMaps DEF Dir!DirNext, AnyRequest
<1>3. CASE Boot \/ UNCHANGED vars
  <2>1. UNCHANGED <<store, pc, req, at, reply>>
    BY <1>3 DEF Boot, Preload, vars, stateVars, workerVars
  <2> QED BY <2>1 DEF Dir!dirVars, Busy, Answered, Chain
<1>4. CASE Crash
  <2>1. /\ store' = store /\ req' = [w \in Workers |-> NoRequest]
        /\ \A w \in Workers : pc'[w] = "idle"
    BY <1>4 DEF Crash
  <2>2. \A w \in Workers : PhaseOf(w)' = "idle" /\ VerdictOf(w)' = "none"
    BY <2>1 DEF PhaseOf, VerdictOf, Busy, Answered
  <2>3. /\ Phases' = [w \in Workers |-> "idle"] /\ Verdicts' = [w \in Workers |-> "none"]
    BY <2>2 DEF Phases, Verdicts
  <2>4. Dir!Restart
    BY <2>1, <2>3, DirectoryValues DEF Dir!Restart, Phases, Verdicts, PhaseOf, VerdictOf
  <2> QED BY <2>4 DEF Dir!DirNext
<1> QED BY <1>1, <1>2, <1>3, <1>4 DEF Next

(* Clients that keep conflicting requests apart see the directory that     *)
(* module Directory promises, when nothing that the server calls fails and *)
(* no number gets past MaxInt32: each request takes effect at one instant, *)
(* the write of its chain, or is refused and leaves no trace, whatever     *)
(* requests run next to it, and across crashes.                            *)
THEOREM DirectoryImplemented ==
  ASSUME Exclusive, NoFaults, NumbersInRange
  PROVE  Spec => ImplementsDirectory
<1>1. LoadsSucceed
  BY DEF NoFaults, LoadsSucceed
<1>2. Init => AllFresh /\ DraftInv /\ SearchInv
  BY DEF Init, AllFresh, Fresh, DraftInv, Built, Revised, BlankEntity, SearchInv, Finds
<1>3. Init => Dir!DirInit
  BY DEF Init, Dir!DirInit, Dir!NoRequest, NoRequest, Answered, Busy
<1>4. IInv /\ Apart /\ AllFresh /\ [Next]_vars => AllFresh'
  BY <1>1, NextFresh
<1>5. IInv /\ Apart /\ CInv /\ SearchInv /\ [Next]_vars => SearchInv'
  BY <1>1, NextSearch
<1>6. IInv /\ CInv /\ [Next]_vars => CInv'
  BY <1>1, NextCInv
<1> QED BY <1>2, <1>3, <1>4, <1>5, <1>6, InitCInv, InitNumbers, NextNumbers, NextDraft,
           NextMaps, ApartInvariant, PTL DEF Spec, ImplementsDirectory, Dir!DirSpec

=============================================================================
