-------------------------- MODULE EntityTreeProofs --------------------------
(***************************************************************************)
(* Proofs about the entity tree, for any number of goroutines, IDs,        *)
(* secrets and requests, any interleaving of their hooks, any faults and   *)
(* any number of crashes; and, behind those, about the copies of the       *)
(* entities that the server keeps in memory.                               *)
(*                                                                         *)
(* IInv is the inductive invariant.  It says where in its chain a request  *)
(* can be in each state of its goroutine (Placed), and what the draft of   *)
(* the request is sure to hold at that place (Drafted).                    *)
(***************************************************************************)
EXTENDS EntitySearches, HookProofs, FiniteSetTheorems

-----------------------------------------------------------------------------
(* The chains.                                                             *)

(* The hooks of each chain. *)
LEMMA ChainCases ==
  /\ EntityChain["CREATE"] = <<"fail-on-existing-entity", "set-entity-id",
              "set-entity-number", "set-entity-secret", "save-entity">>
  /\ EntityChain["DESTROY"] = <<"load-entity", "destroy-entity">>
  /\ EntityChain["FETCH"] = <<"load-entity">>
  /\ EntityChain["SET_SECRET"] = <<"load-entity", "set-entity-secret", "save-entity">>
  /\ EntityChain["VALIDATE_IDENTITY"] = <<"load-entity", "validate-entity-unlocked",
              "validate-entity-secret", "save-entity">>
  /\ \A c \in EditChains : EntityChain[c] =
       <<"load-entity", "ensure-entity-meta", EditHook[c], "save-entity">>
BY EditHooksDistinct DEF EntityChain, EditChain, IdentityChain, Chains

(* What the order of the hooks comes to: a chain writes last, it loads the *)
(* draft or sets its ID before that, and edits behind ensure-entity-meta.  *)
HookFact(c, i, h, n) ==
  /\ h \in {"save-entity", "destroy-entity"} =>
       i = n /\ i >= 2 /\ (c = "CREATE" => i >= 3)
  /\ h = "load-entity" <=> i = 1 /\ c # "CREATE"
  /\ h = "fail-on-existing-entity" <=> i = 1 /\ c = "CREATE"
  /\ h = "set-entity-id" <=> i = 2 /\ c = "CREATE"
  /\ h = "set-entity-number" <=> i = 3 /\ c = "CREATE"
  /\ c \in EditChains => (h = "ensure-entity-meta" <=> i = 2)
  /\ h \in EditHooks <=> i = 3 /\ c \in EditChains
  /\ h \in StorageHooks \cup EditHooks \cup {"set-entity-id", "set-entity-secret",
        "ensure-entity-meta", "validate-entity-unlocked", "validate-entity-secret"}

(* Every chain has one to five hooks, and each of them is where HookFact   *)
(* says.                                                                   *)
LEMMA ChainFacts ==
  ASSUME NEW c \in Chains
  PROVE  /\ Len(EntityChain[c]) \in 1..5
         /\ DOMAIN EntityChain[c] = 1..Len(EntityChain[c])
         /\ \A i \in DOMAIN EntityChain[c] :
              HookFact(c, i, EntityChain[c][i], Len(EntityChain[c]))
<1>1. CASE c \in EditChains
  <2> DEFINE h == EditHook[c]
  <2>1. EntityChain[c] = <<"load-entity", "ensure-entity-meta", h, "save-entity">>
    BY <1>1, ChainCases
  <2>2. /\ h \in EditHooks
        /\ h \notin {"load-entity", "ensure-entity-meta", "save-entity",
                     "destroy-entity", "set-entity-id", "set-entity-number",
                     "fail-on-existing-entity"}
        /\ c # "CREATE"
        /\ {"load-entity", "ensure-entity-meta", "save-entity"} \cap EditHooks = {}
    BY <1>1, EditHooksDistinct
  <2> HIDE DEF h
  <2>3. /\ Len(EntityChain[c]) = 4
        /\ DOMAIN EntityChain[c] = 1..4
    BY <2>1
  <2>4. /\ EntityChain[c][1] = "load-entity"
        /\ EntityChain[c][2] = "ensure-entity-meta"
        /\ EntityChain[c][3] = h
        /\ EntityChain[c][4] = "save-entity"
    BY <2>1
  <2>5. ASSUME NEW i \in 1..4
        PROVE  HookFact(c, i, EntityChain[c][i], 4)
    BY <1>1, <2>2, <2>4 DEF HookFact, StorageHooks
  <2> QED BY <2>3, <2>5
<1>2. CASE c = "CREATE"
  BY <1>2, ChainCases, EditHooksDistinct DEF HookFact, StorageHooks
<1>3. CASE c = "DESTROY"
  BY <1>3, ChainCases, EditHooksDistinct DEF HookFact, StorageHooks
<1>4. CASE c = "FETCH"
  BY <1>4, ChainCases, EditHooksDistinct DEF HookFact, StorageHooks
<1>5. CASE c = "SET_SECRET"
  BY <1>5, ChainCases, EditHooksDistinct DEF HookFact, StorageHooks
<1>6. CASE c = "VALIDATE_IDENTITY"
  BY <1>6, ChainCases, EditHooksDistinct DEF HookFact, StorageHooks
<1> QED
  BY <1>1, <1>2, <1>3, <1>4, <1>5, <1>6 DEF Chains

(* What a request is made of. *)
LEMMA RequestFacts ==
  ASSUME NEW r \in Requests
  PROVE  r.chain \in Chains /\ r.de \in DataEntity /\ r.de.id \in Entities
BY RequestsAssumption DEF Request, DataEntity

(* A search is none of the chains. *)
LEMMA SearchIsNoChain == "SEARCH" \notin Chains
BY DEF Chains, EditChains, EditHook

-----------------------------------------------------------------------------
(* The inductive invariant.                                                *)

InChainStates == {"hook", "number", "notify", "apply"}

(* Where in its chain the request of worker w can be. *)
Placed(w) ==
  /\ pc[w] \in InChainStates => req[w] \in Requests /\ at[w] \in 1..(Len(Chain(w)) + 1)
  /\ pc[w] = "number" => at[w] \in DOMAIN Chain(w) /\ Chain(w)[at[w]] = "set-entity-number"
  /\ pc[w] \in {"notify", "apply"} =>
       at[w] \in DOMAIN Chain(w) /\ Chain(w)[at[w]] \in {"save-entity", "destroy-entity"}
  /\ pc[w] = "apply" => loaded[w] \in Entity /\ current[w] \in Callbacks
  /\ pc[w] = "idle" => at[w] = 1
  /\ pc[w] = "search" => req[w] = SearchRequest
  /\ pc[w] # "done" => reply[w] = "none"
  /\ pc[w] = "done" /\ req[w].chain \in Chains =>
       IF reply[w] \in Errors THEN at[w] <= Len(Chain(w)) ELSE at[w] = Len(Chain(w)) + 1

(* What the draft of worker w holds there: the ID that the request names,  *)
(* and metadata once ensure-entity-meta is past.                           *)
Drafted(w) ==
  pc[w] \in InChainStates =>
    /\ at[w] >= 2 /\ req[w].chain # "CREATE" => e[w].id = ID(w)
    /\ at[w] >= 3 => e[w].id = ID(w)
    /\ at[w] >= 3 /\ req[w].chain \in EditChains => e[w].meta # NoMeta

IInv ==
  /\ TypeOK
  /\ StoredUnderOwnKey
  /\ \A w \in Workers : Placed(w)
  /\ \A w \in Workers : Drafted(w)

-----------------------------------------------------------------------------
(* A server that starts satisfies the invariant, whatever it finds in      *)
(* storage.                                                                *)
LEMMA InitIInv == Init => IInv
<1> SUFFICES ASSUME Init PROVE IInv
  OBVIOUS
<1>1. store \in [Entities -> Entity \cup {NoEntity}] /\ StoredUnderOwnKey
  BY PopulationsAssumption DEF Init, StoredUnderOwnKey, Stored
<1>2. BlankEntity \in Entity /\ 0 \in 0..MaxInt32 /\ crashes \in 0..MaxCrashes
  BY MaxInt32Assumption, OptionsAssumption DEF BlankEntity, Entity, Numbers, Init
<1>3. TypeOK
  BY <1>1, <1>2 DEF TypeOK, Init, Stored, Callbacks, AnyRequest
<1>4. ASSUME NEW w \in Workers PROVE Placed(w) /\ Drafted(w)
  BY DEF Init, Placed, Drafted, InChainStates
<1> QED BY <1>1, <1>3, <1>4 DEF IInv

(* What a worker whose next hook is h has to go by. *)
LEMMA InChainFacts ==
  ASSUME IInv, NEW w \in Workers, pc[w] \in InChainStates, at[w] \in DOMAIN Chain(w)
  PROVE  /\ req[w] \in Requests /\ req[w].chain \in Chains
         /\ req[w].de \in DataEntity /\ ID(w) \in Entities
         /\ Len(Chain(w)) \in 1..5 /\ at[w] \in 1..Len(Chain(w))
         /\ HookFact(req[w].chain, at[w], Chain(w)[at[w]], Len(Chain(w)))
         /\ e[w] \in Entity /\ reply[w] = "none"
<1>1. req[w] \in Requests
  BY DEF IInv, Placed, InChainStates
<1>2. req[w].chain \in Chains /\ req[w].de \in DataEntity /\ ID(w) \in Entities
  BY <1>1, RequestFacts DEF ID
<1>3. reply[w] = "none" /\ e[w] \in Entity
  BY DEF IInv, TypeOK, Placed, InChainStates
<1> QED BY <1>1, <1>2, <1>3, ChainFacts DEF Chain

(* The invariant after a step of worker w that moves to its next hook.     *)
LEMMA AdvancePlaces ==
  ASSUME IInv, NEW w \in Workers, pc[w] \in InChainStates, at[w] \in DOMAIN Chain(w),
         Advance(w), UNCHANGED <<req, loaded, current>>
  PROVE  /\ pc' \in [Workers -> {"idle", "hook", "number", "notify", "apply", "search", "done"}]
         /\ at' \in [Workers -> 1..6]
         /\ reply' = reply
         /\ \A u \in Workers : Placed(u)'
<1>1. /\ req[w] \in Requests /\ Len(Chain(w)) \in 1..5 /\ at[w] \in 1..Len(Chain(w))
      /\ reply[w] = "none"
  BY InChainFacts
<1>2. /\ pc' = [pc EXCEPT ![w] = "hook"] /\ at' = [at EXCEPT ![w] = at[w] + 1]
      /\ reply' = reply
  BY DEF Advance
<1>3. /\ pc' \in [Workers -> {"idle", "hook", "number", "notify", "apply", "search", "done"}]
      /\ at' \in [Workers -> 1..6]
  <2>1. at[w] + 1 \in 1..6
    BY <1>1
  <2> QED BY <1>2, <2>1 DEF IInv, TypeOK
<1>4. ASSUME NEW u \in Workers PROVE Placed(u)'
  <2>1. CASE u = w
    BY <1>1, <1>2, <2>1 DEF IInv, TypeOK, Placed, InChainStates, Chain
  <2>2. CASE u # w
    BY <1>2, <2>2 DEF IInv, TypeOK, Placed, InChainStates, Chain
  <2> QED BY <2>1, <2>2
<1> QED BY <1>2, <1>3, <1>4

(* ... that gives up. *)
LEMMA FailPreserves ==
  ASSUME IInv, NEW w \in Workers, NEW err \in Errors, Fail(w, err),
         UNCHANGED <<stateVars, req, e, todo, largest, pending, current, loaded, seen, raced>>,
         \/ pc[w] \in {"hook", "number"} /\ at[w] \in DOMAIN Chain(w)
         \/ pc[w] = "search"
  PROVE  IInv'
<1>1. /\ pc' = [pc EXCEPT ![w] = "done"] /\ reply' = [reply EXCEPT ![w] = err]
      /\ at' = at
  BY DEF Fail
<1>2. TypeOK'
  BY <1>1 DEF IInv, TypeOK, stateVars, Callbacks
<1>3. StoredUnderOwnKey'
  BY DEF IInv, StoredUnderOwnKey, Stored, stateVars
<1>4. ASSUME NEW u \in Workers PROVE Placed(u)' /\ Drafted(u)'
  <2>1. CASE u = w
    <3>1. Drafted(u)'
      BY <1>1, <2>1 DEF IInv, TypeOK, Drafted, InChainStates
    <3>2. CASE pc[w] = "search"
      BY <1>1, <2>1, <3>1, <3>2 DEF IInv, TypeOK, Placed, InChainStates, SearchRequest, Chains, EditChains, EditHook
    <3>3. CASE pc[w] \in {"hook", "number"} /\ at[w] \in DOMAIN Chain(w)
      <4>1. req[w] \in Requests /\ DOMAIN Chain(w) = 1..Len(Chain(w))
        BY <3>3, RequestFacts, ChainFacts DEF IInv, Placed, InChainStates, Chain
      <4>2. at[w] <= Len(Chain(w))
        BY <3>3, <4>1
      <4> QED BY <1>1, <2>1, <3>1, <3>3, <4>2 DEF IInv, TypeOK, Placed, InChainStates, Chain
    <3> QED BY <3>2, <3>3
  <2>2. CASE u # w
    BY <1>1, <2>2 DEF IInv, TypeOK, Placed, Drafted, InChainStates, Chain, ID
  <2> QED BY <2>1, <2>2
<1> QED BY <1>2, <1>3, <1>4 DEF IInv

(* ... that has left draft d. *)
LEMMA AdvancePreserves ==
  ASSUME IInv, NEW w \in Workers, pc[w] \in InChainStates, at[w] \in DOMAIN Chain(w),
         Advance(w),
         UNCHANGED <<stateVars, req, largest, pending, current, loaded, seen, raced>>,
         NEW d \in Entity, e' = [e EXCEPT ![w] = d],
         todo' \in [Workers -> SUBSET Entities],
         at[w] >= 2 \/ req[w].chain # "CREATE" => d.id = ID(w),
         at[w] >= 2 /\ req[w].chain \in EditChains => d.meta # NoMeta
  PROVE  IInv'
<1>1. /\ pc' \in [Workers -> {"idle", "hook", "number", "notify", "apply", "search", "done"}]
      /\ at' \in [Workers -> 1..6]
      /\ reply' = reply
      /\ \A u \in Workers : Placed(u)'
  BY AdvancePlaces
<1>2. TypeOK'
  BY <1>1 DEF IInv, TypeOK, stateVars, Callbacks
<1>3. StoredUnderOwnKey'
  BY DEF IInv, StoredUnderOwnKey, Stored, stateVars
<1>4. ASSUME NEW u \in Workers PROVE Drafted(u)'
  <2>1. CASE u = w
    BY <2>1, InChainFacts DEF IInv, TypeOK, Drafted, InChainStates, ID, Advance
  <2>2. CASE u # w
    BY <2>2 DEF IInv, TypeOK, Drafted, InChainStates, ID, Advance
  <2> QED BY <2>1, <2>2
<1> QED BY <1>1, <1>2, <1>3, <1>4 DEF IInv

-----------------------------------------------------------------------------
(* Each action preserves the invariant.                                    *)

(* load-entity: the draft becomes an entity stored under the ID asked for. *)
LEMMA LoadEntityIInv ==
  ASSUME IInv, NEW w \in Workers, LoadEntity(w) PROVE IInv'
<1> USE DEF LocalStep
<1>1. /\ pc[w] \in InChainStates /\ at[w] \in DOMAIN Chain(w)
      /\ Chain(w)[at[w]] = "load-entity"
  BY DEF LoadEntity, InChain, InChainStates
<1>2. /\ ID(w) \in Entities /\ at[w] = 1 /\ req[w].chain # "CREATE"
  BY <1>1, InChainFacts DEF HookFact
<1>3. CASE \E err \in Errors : Fail(w, err) /\ UNCHANGED e
  BY <1>1, <1>3, FailPreserves DEF LoadEntity, InChain, LocalStep
<1>4. CASE store[ID(w)] # NoEntity /\ e' = [e EXCEPT ![w] = store[ID(w)]] /\ Advance(w)
  <2>1. store[ID(w)] \in Entity /\ store[ID(w)].id = ID(w)
    BY <1>2, <1>4 DEF IInv, TypeOK, StoredUnderOwnKey, Stored
  <2>2. todo' \in [Workers -> SUBSET Entities]
    BY DEF LoadEntity, IInv, TypeOK
  <2>3. UNCHANGED <<stateVars, req, largest, pending, current, loaded, seen, raced>>
    BY DEF LoadEntity
  <2>4. ~(at[w] >= 2)
    BY <1>2
  <2> QED BY <1>1, <1>2, <1>4, <2>1, <2>2, <2>3, <2>4, AdvancePreserves
<1> QED BY <1>3, <1>4 DEF LoadEntity, Errors

(* fail-on-existing-entity: the draft stays blank. *)
LEMMA FailOnExistingEntityIInv ==
  ASSUME IInv, NEW w \in Workers, FailOnExistingEntity(w) PROVE IInv'
<1> USE DEF LocalStep
<1>1. /\ pc[w] \in InChainStates /\ at[w] \in DOMAIN Chain(w)
      /\ Chain(w)[at[w]] = "fail-on-existing-entity"
  BY DEF FailOnExistingEntity, InChain, InChainStates
<1>2. at[w] = 1 /\ req[w].chain = "CREATE" /\ e[w] \in Entity
  BY <1>1, InChainFacts DEF HookFact
<1>3. CASE Fail(w, "duplicate")
  BY <1>1, <1>3, FailPreserves DEF FailOnExistingEntity, InChain, Errors
<1>4. CASE Advance(w)
  <2>1. e' = [e EXCEPT ![w] = e[w]] /\ todo' \in [Workers -> SUBSET Entities]
    BY DEF FailOnExistingEntity, IInv, TypeOK
  <2>2. UNCHANGED <<stateVars, req, largest, pending, current, loaded, seen, raced>>
    BY DEF FailOnExistingEntity
  <2>3. ~(at[w] >= 2)
    BY <1>2
  <2> QED BY <1>1, <1>2, <1>4, <2>1, <2>2, <2>3, AdvancePreserves
<1> QED BY <1>3, <1>4 DEF FailOnExistingEntity

(* set-entity-number: a scan starts, or the draft takes the number given. *)
LEMMA SetEntityNumberIInv ==
  ASSUME IInv, NEW w \in Workers, SetEntityNumber(w) PROVE IInv'
<1> USE DEF LocalStep
<1>1. /\ pc[w] \in InChainStates /\ at[w] \in DOMAIN Chain(w)
      /\ Chain(w)[at[w]] = "set-entity-number" /\ pc[w] = "hook"
  BY DEF SetEntityNumber, InChain, InChainStates
<1>2. /\ at[w] = 3 /\ req[w].chain = "CREATE" /\ e[w] \in Entity
      /\ req[w].de \in DataEntity /\ req[w] \in Requests /\ reply[w] = "none"
      /\ e[w].id = ID(w)
  BY <1>1, InChainFacts DEF HookFact, IInv, Drafted
<1>3. CASE req[w].de.number = AutoNumber
  <2>1. /\ pc' = [pc EXCEPT ![w] = "number"] /\ todo' = [todo EXCEPT ![w] = Stored]
        /\ UNCHANGED <<at, e, reply>>
    BY <1>3 DEF SetEntityNumber
  <2>2. TypeOK'
    BY <2>1 DEF SetEntityNumber, IInv, TypeOK, stateVars, Callbacks, Stored
  <2>3. StoredUnderOwnKey'
    BY DEF SetEntityNumber, IInv, StoredUnderOwnKey, Stored, stateVars
  <2>4. ASSUME NEW u \in Workers PROVE Placed(u)' /\ Drafted(u)'
    BY <1>1, <1>2, <2>1 DEF SetEntityNumber, IInv, TypeOK, Placed, Drafted, InChainStates, Chain, ID
  <2> QED BY <2>2, <2>3, <2>4 DEF IInv
<1>4. CASE req[w].de.number # AutoNumber
  <2>1. /\ e' = [e EXCEPT ![w] = [e[w] EXCEPT !.number = req[w].de.number]] /\ Advance(w)
        /\ todo' \in [Workers -> SUBSET Entities]
    BY <1>4 DEF SetEntityNumber, IInv, TypeOK
  <2>2. [e[w] EXCEPT !.number = req[w].de.number] \in Entity
    BY <1>2 DEF Entity, DataEntity
  <2>3. [e[w] EXCEPT !.number = req[w].de.number].id = ID(w) /\ "CREATE" \notin EditChains
    BY <1>2, EditHooksDistinct DEF Entity
  <2> QED BY <1>1, <1>2, <2>1, <2>2, <2>3, AdvancePreserves DEF SetEntityNumber
<1> QED BY <1>3, <1>4

(* NextEntityNumber, at one entity: the scan goes on or the chain fails. *)
LEMMA ScanNumberIInv ==
  ASSUME IInv, NEW w \in Workers, NEW x \in Entities, ScanNumber(w, x) PROVE IInv'
<1> USE DEF LocalStep
<1>1. pc[w] \in {"hook", "number"} /\ at[w] \in DOMAIN Chain(w)
  BY DEF ScanNumber, IInv, Placed
<1>2. CASE \E err \in Errors : Fail(w, err) /\ UNCHANGED <<todo, largest>>
  BY <1>1, <1>2, FailPreserves DEF ScanNumber
<1>3. CASE /\ store[x] # NoEntity
           /\ todo' = [todo EXCEPT ![w] = @ \ {x}]
           /\ largest' = [largest EXCEPT ![w] =
                            IF store[x].number > @ THEN store[x].number ELSE @]
           /\ UNCHANGED <<pc, at, reply>>
  <2>1. store[x].number \in Numbers /\ largest[w] \in 0..MaxInt32
    BY <1>3 DEF IInv, TypeOK, Entity
  <2>2. largest' \in [Workers -> 0..MaxInt32]
    BY <1>3, <2>1, MaxInt32Assumption DEF Numbers, IInv, TypeOK
  <2>3. TypeOK'
    BY <1>3, <2>2 DEF ScanNumber, IInv, TypeOK, stateVars, Callbacks
  <2>4. StoredUnderOwnKey'
    BY DEF ScanNumber, IInv, StoredUnderOwnKey, Stored, stateVars
  <2>5. ASSUME NEW u \in Workers PROVE Placed(u)' /\ Drafted(u)'
    BY <1>3 DEF ScanNumber, IInv, Placed, Drafted, InChainStates, Chain, ID
  <2> QED BY <2>3, <2>4, <2>5 DEF IInv
<1> QED BY <1>2, <1>3 DEF ScanNumber, Errors

(* NextEntityNumber, at its end: the number is one that an int32 holds. *)
LEMMA AssignNumberIInv ==
  ASSUME IInv, NEW w \in Workers, AssignNumber(w) PROVE IInv'
<1> USE DEF LocalStep
<1>1. /\ pc[w] \in InChainStates /\ at[w] \in DOMAIN Chain(w)
      /\ Chain(w)[at[w]] = "set-entity-number"
  BY DEF AssignNumber, InChainStates, IInv, Placed
<1>2. /\ at[w] = 3 /\ req[w].chain = "CREATE" /\ e[w] \in Entity /\ e[w].id = ID(w)
  BY <1>1, InChainFacts DEF HookFact, IInv, Drafted
<1> DEFINE d == [e[w] EXCEPT !.number = Increment(largest[w])]
<1>3. Increment(largest[w]) \in Numbers
  BY MaxInt32Assumption DEF Increment, Numbers, IInv, TypeOK
<1>4. d \in Entity /\ d.id = ID(w) /\ "CREATE" \notin EditChains
  BY <1>2, <1>3, EditHooksDistinct DEF Entity
<1>5. /\ e' = [e EXCEPT ![w] = d] /\ Advance(w)
      /\ todo' \in [Workers -> SUBSET Entities]
  BY DEF AssignNumber, IInv, TypeOK
<1>6. UNCHANGED <<stateVars, req, largest, pending, current, loaded, seen, raced>>
  BY DEF AssignNumber
<1> HIDE DEF d
<1> QED BY <1>1, <1>2, <1>4, <1>5, <1>6, AdvancePreserves

(* Any hook without storage: it refuses, or edits the draft it was given. *)
LEMMA RunHookIInv ==
  ASSUME IInv, NEW w \in Workers, NEW h \in Hooks \ StorageHooks, RunHook(w, h)
  PROVE  IInv'
<1> USE DEF LocalStep
<1>1. /\ pc[w] \in InChainStates /\ pc[w] = "hook" /\ at[w] \in DOMAIN Chain(w)
      /\ Chain(w)[at[w]] = h
  BY DEF RunHook, InChain, InChainStates
<1>2. /\ HookFact(req[w].chain, at[w], h, Len(Chain(w))) /\ e[w] \in Entity
      /\ req[w].de \in DataEntity /\ at[w] \in 1..Len(Chain(w)) /\ Len(Chain(w)) \in 1..5
      /\ req[w].chain \in Chains
  BY <1>1, InChainFacts
<1>3. CASE \E err \in Errors : Fail(w, err) /\ UNCHANGED e
  BY <1>1, <1>3, FailPreserves DEF RunHook
<1>4. CASE e' = [e EXCEPT ![w] = HookResult(h, e[w], req[w].de)] /\ Advance(w)
  <2>1. h \in EditHooks \cup {"set-entity-id", "set-entity-secret",
           "ensure-entity-meta", "validate-entity-unlocked", "validate-entity-secret"}
    BY <1>2 DEF HookFact
  <2>2. NeedsMeta(h) => e[w].meta # NoMeta
    BY <1>1, <1>2 DEF NeedsMeta, HookFact, IInv, Drafted
  <2> DEFINE d == HookResult(h, e[w], req[w].de)
  <2>3. /\ d \in Entity
        /\ h # "set-entity-id" => d.id = e[w].id
        /\ h = "set-entity-id" => d.id = ID(w)
        /\ h \in EditHooks \cup {"ensure-entity-meta"} => d.meta # NoMeta
    BY <1>2, <2>1, <2>2, HookResultType DEF ID
  <2>4. at[w] >= 2 \/ req[w].chain # "CREATE" => d.id = ID(w)
    <3>1. h # "load-entity"
      BY DEF StorageHooks
    <3>2. at[w] = 1 => req[w].chain = "CREATE"
      BY <1>2, <3>1 DEF HookFact
    <3>3. at[w] = 2 /\ req[w].chain = "CREATE" => h = "set-entity-id"
      BY <1>2 DEF HookFact
    <3>4. at[w] >= 2 /\ ~(at[w] = 2 /\ req[w].chain = "CREATE") => e[w].id = ID(w)
      BY <1>1, <1>2 DEF IInv, Drafted
    <3> QED BY <1>2, <2>3, <3>2, <3>3, <3>4
  <2>5. at[w] >= 2 /\ req[w].chain \in EditChains => d.meta # NoMeta
    <3>1. CASE at[w] <= 3
      BY <1>2, <2>3, <3>1 DEF HookFact
    <3>2. CASE at[w] > 3 /\ req[w].chain \in EditChains
      <4>1. EntityChain[req[w].chain][4] = "save-entity" /\ Len(EntityChain[req[w].chain]) = 4
        BY <3>2, ChainCases
      <4> QED BY <1>1, <1>2, <3>2, <4>1 DEF Chain, StorageHooks
    <3> QED BY <1>2, <3>1, <3>2
  <2>6. todo' \in [Workers -> SUBSET Entities] /\ e' = [e EXCEPT ![w] = d]
    BY <1>4 DEF RunHook, IInv, TypeOK
  <2> HIDE DEF d
  <2> QED BY <1>1, <1>4, <2>3, <2>4, <2>5, <2>6, AdvancePreserves DEF RunHook
<1> QED BY <1>3, <1>4 DEF RunHook, Errors

(* A write of v under x by the last hook of w's chain. *)
LEMMA WriteIInv ==
  ASSUME IInv, NEW w \in Workers, pc[w] = "hook", at[w] \in DOMAIN Chain(w),
         Chain(w)[at[w]] \in {"save-entity", "destroy-entity"},
         NEW x \in Entities, NEW v \in Entity \cup {NoEntity},
         v # NoEntity => v.id = x,
         NEW d \in Entity, d.id = ID(w), d.meta = e[w].meta, e' = [e EXCEPT ![w] = d],
         Write(w, x, v)
  PROVE  IInv'
<1>1. /\ req[w] \in Requests /\ Len(Chain(w)) \in 1..5 /\ at[w] = Len(Chain(w))
      /\ reply[w] = "none"
  BY InChainFacts DEF HookFact, InChainStates
<1>5. at[w] \in DOMAIN Chain(w) /\ Chain(w)[at[w]] \in {"save-entity", "destroy-entity"}
  OBVIOUS
<1>2. TypeOK'
  BY DEF IInv, TypeOK, Write, Callbacks, Stored
<1>3. StoredUnderOwnKey'
  BY DEF IInv, TypeOK, StoredUnderOwnKey, Stored, Write
<1>4. ASSUME NEW u \in Workers PROVE Placed(u)' /\ Drafted(u)'
  <2>1. CASE u = w
    BY <1>1, <1>5, <2>1 DEF IInv, TypeOK, Placed, Drafted, Write, InChainStates, Chain, ID
  <2>2. CASE u # w
    BY <2>2 DEF IInv, TypeOK, Placed, Drafted, Write, InChainStates, Chain, ID
  <2> QED BY <2>1, <2>2
<1> QED BY <1>2, <1>3, <1>4 DEF IInv

(* save-entity: the draft goes under the ID that the request named. *)
LEMMA SaveEntityIInv ==
  ASSUME IInv, NEW w \in Workers, SaveEntity(w) PROVE IInv'
<1>1. /\ pc[w] \in InChainStates /\ pc[w] = "hook" /\ at[w] \in DOMAIN Chain(w)
      /\ Chain(w)[at[w]] = "save-entity"
  BY DEF SaveEntity, InChain, InChainStates
<1>2. ID(w) \in Entities /\ e[w] \in Entity /\ e[w].id = ID(w)
  BY <1>1, InChainFacts DEF HookFact, IInv, Drafted
<1>3. CASE Fail(w, "internal") /\ LocalStep /\ UNCHANGED <<e, todo, largest>>
  BY <1>1, <1>3, FailPreserves DEF LocalStep, Errors
<1>4. CASE Write(w, e[w].id, e[w]) /\ UNCHANGED e
  <2>1. e' = [e EXCEPT ![w] = e[w]]
    BY <1>4 DEF IInv, TypeOK
  <2> QED BY <1>1, <1>2, <1>4, <2>1, WriteIInv
<1> QED BY <1>3, <1>4 DEF SaveEntity

(* destroy-entity: the ID that the request named is gone. *)
LEMMA DeleteEntityIInv ==
  ASSUME IInv, NEW w \in Workers, DeleteEntity(w) PROVE IInv'
<1>1. /\ pc[w] \in InChainStates /\ pc[w] = "hook" /\ at[w] \in DOMAIN Chain(w)
      /\ Chain(w)[at[w]] = "destroy-entity"
  BY DEF DeleteEntity, InChain, InChainStates
<1>2. ID(w) \in Entities /\ e[w] \in Entity /\ e[w].id = ID(w)
  BY <1>1, InChainFacts DEF HookFact, IInv, Drafted
<1>3. e' = [e EXCEPT ![w] = e[w]]
  <2>1. e' = [e EXCEPT ![w].id = ID(w)]
    BY <1>2 DEF DeleteEntity
  <2>2. [e[w] EXCEPT !.id = ID(w)] = e[w]
    BY <1>2 DEF Entity
  <2> QED BY <2>1, <2>2
<1>4. e' = e
  BY <1>3 DEF IInv, TypeOK
<1>5. CASE \E err \in Errors : Fail(w, err) /\ LocalStep /\ UNCHANGED <<todo, largest>>
  BY <1>1, <1>4, <1>5, FailPreserves DEF LocalStep
<1>6. CASE Write(w, ID(w), NoEntity)
  BY <1>1, <1>2, <1>3, <1>6, WriteIInv
<1> QED BY <1>2, <1>5, <1>6 DEF DeleteEntity, Errors

(* A callback for a removal takes an ID out of its copy. *)
LEMMA CallbackRemoveIInv ==
  ASSUME IInv, NEW w \in Workers, NEW c \in Callbacks, CallbackRemove(w, c) PROVE IInv'
<1>1. TypeOK'
  BY DEF IInv, TypeOK, CallbackRemove, Apply, Callbacks, Stored
<1>2. StoredUnderOwnKey'
  BY DEF IInv, StoredUnderOwnKey, Stored, CallbackRemove
<1>3. ASSUME NEW u \in Workers PROVE Placed(u)' /\ Drafted(u)'
  BY DEF IInv, Placed, Drafted, CallbackRemove, InChainStates, Chain, ID
<1> QED BY <1>1, <1>2, <1>3 DEF IInv

(* A callback for an update loads an entity, or leaves its copy alone. *)
LEMMA CallbackLoadIInv ==
  ASSUME IInv, NEW w \in Workers, NEW c \in Callbacks, CallbackLoad(w, c) PROVE IInv'
<1>1. CASE UNCHANGED <<pc, current, loaded>>
  <2>1. TypeOK'
    BY <1>1 DEF IInv, TypeOK, CallbackLoad, Callbacks, stateVars
  <2>2. StoredUnderOwnKey'
    BY DEF IInv, StoredUnderOwnKey, Stored, CallbackLoad, stateVars
  <2>3. ASSUME NEW u \in Workers PROVE Placed(u)' /\ Drafted(u)'
    BY <1>1 DEF IInv, Placed, Drafted, CallbackLoad, InChainStates, Chain, ID
  <2> QED BY <2>1, <2>2, <2>3 DEF IInv
<1>2. CASE /\ store[PK(w)] # NoEntity
           /\ pc' = [pc EXCEPT ![w] = "apply"]
           /\ current' = [current EXCEPT ![w] = c]
           /\ loaded' = [loaded EXCEPT ![w] = store[PK(w)]]
  <2>1. /\ pc[w] = "notify" /\ pc[w] \in InChainStates
        /\ at[w] \in DOMAIN Chain(w) /\ Chain(w)[at[w]] \in {"save-entity", "destroy-entity"}
    BY DEF CallbackLoad, IInv, Placed, InChainStates
  <2>2. /\ req[w] \in Requests /\ reply[w] = "none"
        /\ Len(Chain(w)) \in 1..5 /\ at[w] \in 1..Len(Chain(w))
    BY <2>1, InChainFacts
  <2>3. PK(w) \in Entities
    BY <2>1, InChainFacts DEF HookFact, PK, IInv, Drafted
  <2>4. store[PK(w)] \in Entity
    BY <1>2, <2>3 DEF IInv, TypeOK
  <2>5. TypeOK'
    BY <1>2, <2>4 DEF IInv, TypeOK, CallbackLoad, Callbacks, stateVars
  <2>6. StoredUnderOwnKey'
    BY DEF IInv, StoredUnderOwnKey, Stored, CallbackLoad, stateVars
  <2>7. ASSUME NEW u \in Workers PROVE Placed(u)' /\ Drafted(u)'
    <3>1. CASE u = w
      BY <1>2, <2>1, <2>2, <2>4, <3>1 DEF IInv, TypeOK, Placed, Drafted, CallbackLoad, InChainStates, Chain, ID
    <3>2. CASE u # w
      BY <1>2, <3>2 DEF IInv, TypeOK, Placed, Drafted, CallbackLoad, InChainStates, Chain, ID
    <3> QED BY <3>1, <3>2
  <2> QED BY <2>5, <2>6, <2>7 DEF IInv
<1> QED BY <1>1, <1>2 DEF CallbackLoad

(* ... and files what it loaded in its copy. *)
LEMMA CallbackApplyIInv ==
  ASSUME IInv, NEW w \in Workers, CallbackApply(w) PROVE IInv'
<1>1. /\ pc[w] = "apply" /\ loaded[w] \in Entity /\ current[w] \in Callbacks
      /\ at[w] \in DOMAIN Chain(w) /\ Chain(w)[at[w]] \in {"save-entity", "destroy-entity"}
      /\ req[w] \in Requests /\ reply[w] = "none" /\ at[w] \in 1..(Len(Chain(w)) + 1)
  BY DEF CallbackApply, IInv, Placed, InChainStates
<1>2. DirectGroups(loaded[w]) \in SUBSET Groups
  BY <1>1 DEF DirectGroups, Entity, Meta
<1>6. dm' \in [Entities -> (SUBSET Groups) \cup {NoEntity}]
  BY <1>1, <1>2 DEF IInv, TypeOK, CallbackApply, Apply
<1>7. index' \in [Entities -> Entity \cup {NoEntity}]
  BY <1>1 DEF IInv, TypeOK, CallbackApply, Apply
<1>3. TypeOK'
  BY <1>1, <1>6, <1>7 DEF IInv, TypeOK, CallbackApply, Callbacks
<1>4. StoredUnderOwnKey'
  BY DEF IInv, StoredUnderOwnKey, Stored, CallbackApply
<1>5. ASSUME NEW u \in Workers PROVE Placed(u)' /\ Drafted(u)'
  <2>1. CASE u = w
    BY <1>1, <2>1 DEF IInv, TypeOK, Placed, Drafted, CallbackApply, InChainStates, Chain, ID
  <2>2. CASE u # w
    BY <2>2 DEF IInv, TypeOK, Placed, Drafted, CallbackApply, InChainStates, Chain, ID
  <2> QED BY <2>1, <2>2
<1> QED BY <1>3, <1>4, <1>5 DEF IInv

(* When the callbacks have returned, the chain is past the hook that       *)
(* wrote.                                                                  *)
LEMMA FinishWriteIInv ==
  ASSUME IInv, NEW w \in Workers, FinishWrite(w) PROVE IInv'
<1>1. /\ pc[w] \in InChainStates /\ at[w] \in DOMAIN Chain(w)
      /\ Chain(w)[at[w]] \in {"save-entity", "destroy-entity"}
  BY DEF FinishWrite, IInv, Placed, InChainStates
<1>2. /\ e[w] \in Entity
      /\ at[w] >= 2 \/ req[w].chain # "CREATE" => e[w].id = ID(w)
      /\ at[w] >= 2 /\ req[w].chain \in EditChains => e[w].meta # NoMeta
  <2>1. /\ HookFact(req[w].chain, at[w], Chain(w)[at[w]], Len(Chain(w)))
        /\ at[w] \in 1..Len(Chain(w)) /\ e[w] \in Entity
    BY <1>1, InChainFacts
  <2>2. at[w] >= 2 /\ (req[w].chain = "CREATE" => at[w] >= 3)
    BY <1>1, <2>1 DEF HookFact
  <2>3. req[w].chain \in EditChains => at[w] >= 3
    <3> SUFFICES ASSUME req[w].chain \in EditChains PROVE at[w] >= 3
      OBVIOUS
    <3>1. Chain(w)[2] = "ensure-entity-meta"
      BY ChainCases DEF Chain
    <3> QED BY <1>1, <2>1, <2>2, <3>1
  <2> QED BY <1>1, <2>1, <2>2, <2>3 DEF IInv, Drafted
<1>3. /\ Advance(w) /\ e' = [e EXCEPT ![w] = e[w]]
      /\ todo' \in [Workers -> SUBSET Entities]
      /\ UNCHANGED <<stateVars, req, largest, pending, current, loaded, seen, raced>>
  BY DEF FinishWrite, IInv, TypeOK
<1> QED BY <1>1, <1>2, <1>3, AdvancePreserves

(* A chain past its last hook answers "ok". *)
LEMMA FinishChainIInv ==
  ASSUME IInv, NEW w \in Workers, FinishChain(w) PROVE IInv'
<1>1. /\ req[w] \in Requests /\ at[w] \in 1..(Len(Chain(w)) + 1) /\ at[w] > Len(Chain(w))
      /\ Len(Chain(w)) \in 1..5
  BY RequestFacts, ChainFacts DEF FinishChain, IInv, Placed, InChainStates, Chain
<1>2. at[w] = Len(Chain(w)) + 1
  BY <1>1
<1>3. TypeOK'
  BY DEF IInv, TypeOK, FinishChain, Callbacks, stateVars
<1>4. StoredUnderOwnKey'
  BY DEF IInv, StoredUnderOwnKey, Stored, FinishChain, stateVars
<1>5. ASSUME NEW u \in Workers PROVE Placed(u)' /\ Drafted(u)'
  BY <1>2 DEF IInv, TypeOK, Placed, Drafted, FinishChain, InChainStates, Chain, ID, Errors
<1> QED BY <1>3, <1>4, <1>5 DEF IInv

(* A request that arrives starts at the first hook, with a blank draft. *)
LEMMA BeginIInv ==
  ASSUME IInv, NEW w \in Workers, NEW r \in Requests, Begin(w, r) PROVE IInv'
<1>1. /\ pc[w] = "idle" /\ at[w] = 1 /\ reply[w] = "none" /\ r.de.id \in Entities
      /\ Len(EntityChain[r.chain]) \in 1..5
  BY RequestFacts, ChainFacts DEF Begin, Busy, IInv, Placed
<1>2. TypeOK'
  BY <1>1 DEF IInv, TypeOK, Begin, Callbacks, stateVars, AnyRequest
<1>3. StoredUnderOwnKey'
  BY DEF IInv, StoredUnderOwnKey, Stored, Begin, stateVars
<1>4. ASSUME NEW u \in Workers PROVE Placed(u)' /\ Drafted(u)'
  BY <1>1 DEF IInv, TypeOK, Placed, Drafted, Begin, InChainStates, Chain, ID
<1> QED BY <1>2, <1>3, <1>4 DEF IInv

(* A search that arrives has no chain to be placed in. *)
LEMMA BeginSearchIInv ==
  ASSUME IInv, NEW w \in Workers, BeginSearch(w) PROVE IInv'
<1>1. TypeOK'
  BY DEF IInv, TypeOK, BeginSearch, Callbacks, stateVars, AnyRequest
<1>2. StoredUnderOwnKey'
  BY DEF IInv, StoredUnderOwnKey, Stored, BeginSearch, stateVars
<1>3. ASSUME NEW u \in Workers PROVE Placed(u)' /\ Drafted(u)'
  BY DEF IInv, TypeOK, Placed, Drafted, BeginSearch, Busy, InChainStates, Chain, ID
<1> QED BY <1>1, <1>2, <1>3 DEF IInv

(* A search loads an entity that the index named, or fails. *)
LEMMA SearchLoadIInv ==
  ASSUME IInv, NEW w \in Workers, NEW x \in Entities, SearchLoad(w, x) PROVE IInv'
<1>1. CASE \E err \in Errors : Fail(w, err) /\ UNCHANGED todo
  BY <1>1, FailPreserves DEF SearchLoad, LocalStep
<1>2. CASE todo' = [todo EXCEPT ![w] = @ \ {x}] /\ UNCHANGED <<pc, at, reply>>
  <2>1. TypeOK'
    BY <1>2 DEF IInv, TypeOK, SearchLoad, LocalStep, Callbacks, stateVars
  <2>2. StoredUnderOwnKey'
    BY DEF IInv, StoredUnderOwnKey, Stored, SearchLoad, LocalStep, stateVars
  <2>3. ASSUME NEW u \in Workers PROVE Placed(u)' /\ Drafted(u)'
    BY <1>2 DEF IInv, Placed, Drafted, SearchLoad, LocalStep, InChainStates, Chain, ID
  <2> QED BY <2>1, <2>2, <2>3 DEF IInv
<1> QED BY <1>1, <1>2 DEF SearchLoad, Errors

(* A search that has loaded all answers "ok". *)
LEMMA FinishSearchIInv ==
  ASSUME IInv, NEW w \in Workers, FinishSearch(w) PROVE IInv'
<1>1. req[w].chain \notin Chains
  BY DEF FinishSearch, IInv, Placed, SearchRequest, Chains, EditChains, EditHook
<1>2. TypeOK'
  BY DEF IInv, TypeOK, FinishSearch, LocalStep, Callbacks, stateVars
<1>3. StoredUnderOwnKey'
  BY DEF IInv, StoredUnderOwnKey, Stored, FinishSearch, LocalStep, stateVars
<1>4. ASSUME NEW u \in Workers PROVE Placed(u)' /\ Drafted(u)'
  BY <1>1 DEF IInv, TypeOK, Placed, Drafted, FinishSearch, LocalStep, InChainStates, Chain, ID
<1> QED BY <1>2, <1>3, <1>4 DEF IInv

(* An answered request leaves its goroutine as it was before. *)
LEMMA ReturnIInv ==
  ASSUME IInv, NEW w \in Workers, Return(w) PROVE IInv'
<1>1. BlankEntity \in Entity /\ 0 \in 0..MaxInt32
  BY MaxInt32Assumption DEF BlankEntity, Entity, Numbers
<1>2. TypeOK'
  BY <1>1 DEF IInv, TypeOK, Return, Callbacks, stateVars
<1>3. StoredUnderOwnKey'
  BY DEF IInv, StoredUnderOwnKey, Stored, Return, stateVars
<1>4. ASSUME NEW u \in Workers PROVE Placed(u)' /\ Drafted(u)'
  BY DEF IInv, TypeOK, Placed, Drafted, Return, InChainStates, Chain, ID
<1> QED BY <1>2, <1>3, <1>4 DEF IInv

(* A crash leaves storage as it is and nothing in flight. *)
LEMMA CrashIInv == ASSUME IInv, Crash PROVE IInv'
<1>1. BlankEntity \in Entity /\ 0 \in 0..MaxInt32
  BY MaxInt32Assumption DEF BlankEntity, Entity, Numbers
<1>2. crashes' \in 0..MaxCrashes
  BY OptionsAssumption DEF Crash, IInv, TypeOK
<1>3. TypeOK'
  BY <1>1, <1>2 DEF IInv, TypeOK, Crash, Callbacks, Stored, AnyRequest
<1>4. StoredUnderOwnKey'
  BY DEF IInv, StoredUnderOwnKey, Stored, Crash
<1>5. ASSUME NEW u \in Workers PROVE Placed(u)' /\ Drafted(u)'
  BY DEF Placed, Drafted, Crash, InChainStates
<1> QED BY <1>3, <1>4, <1>5 DEF IInv

(* Filling the copies at a start disturbs nobody. *)
LEMMA PreloadIInv ==
  ASSUME IInv, NEW x \in Entities, NEW c \in Callbacks, Preload(x, c) PROVE IInv'
<1>1. store[x] # NoEntity => DirectGroups(store[x]) \in SUBSET Groups
  BY DEF DirectGroups, Entity, Meta, IInv, TypeOK
<1>2. dm' \in [Entities -> (SUBSET Groups) \cup {NoEntity}]
  BY <1>1 DEF IInv, TypeOK, Preload, Apply
<1>3. index' \in [Entities -> Entity \cup {NoEntity}]
  BY DEF IInv, TypeOK, Preload, Apply
<1>4. TypeOK'
  BY <1>2, <1>3 DEF IInv, TypeOK, Preload, Callbacks, workerVars
<1>5. StoredUnderOwnKey'
  BY DEF IInv, StoredUnderOwnKey, Stored, Preload
<1>6. ASSUME NEW u \in Workers PROVE Placed(u)' /\ Drafted(u)'
  BY DEF IInv, Placed, Drafted, Preload, InChainStates, Chain, ID, workerVars
<1> QED BY <1>4, <1>5, <1>6 DEF IInv

(* The invariant is inductive. *)
LEMMA NextIInv == IInv /\ [Next]_vars => IInv'
<1> SUFFICES ASSUME IInv, [Next]_vars PROVE IInv'
  OBVIOUS
<1>1. ASSUME NEW w \in Workers, WorkerStep(w) PROVE IInv'
  BY <1>1, LoadEntityIInv, FailOnExistingEntityIInv, SetEntityNumberIInv,
     ScanNumberIInv, AssignNumberIInv, RunHookIInv, SaveEntityIInv, DeleteEntityIInv,
     CallbackRemoveIInv, CallbackLoadIInv, CallbackApplyIInv, FinishWriteIInv,
     FinishChainIInv, SearchLoadIInv, FinishSearchIInv, ReturnIInv DEF WorkerStep
<1>2. CASE UNCHANGED vars
  BY <1>2 DEF vars, stateVars, workerVars, IInv, TypeOK, StoredUnderOwnKey, Stored,
              Placed, Drafted, Chain, ID
<1> QED
  BY <1>1, <1>2, BeginIInv, BeginSearchIInv, PreloadIInv, CrashIInv DEF Next, Boot

-----------------------------------------------------------------------------
(* Theorems.                                                               *)

(* The invariant holds in every state of every run of the server. *)
LEMMA Invariance == Spec => []IInv
BY InitIInv, NextIInv, PTL DEF Spec

(* The state keeps its types: in particular every draft that a hook works  *)
(* on, and everything in storage, is an entity, whatever requests          *)
(* interleave.                                                             *)
THEOREM TypeCorrect == Spec => []TypeOK
<1>1. IInv => TypeOK
  BY DEF IInv
<1> QED BY <1>1, Invariance, PTL

(* Whatever is stored under a key carries that key as its ID: no           *)
(* interleaving of loads, saves and removals files one entity under the    *)
(* ID of another.                                                          *)
THEOREM FiledUnderOwnID == Spec => []StoredUnderOwnKey
<1>1. IInv => StoredUnderOwnKey
  BY DEF IInv
<1> QED BY <1>1, Invariance, PTL

(* No hook of any chain dereferences metadata that its draft lacks,        *)
(* whatever other requests did to the entity meanwhile.                    *)
THEOREM MetadataPresent == Spec => []NoNilDereference
<1>1. ASSUME IInv, NEW w \in Workers, NEW h \in Hooks, InChain(w, h), NeedsMeta(h)
      PROVE  e[w].meta # NoMeta
  <2>1. /\ pc[w] \in InChainStates /\ at[w] \in DOMAIN Chain(w)
        /\ Chain(w)[at[w]] = h /\ h \in EditHooks
    BY <1>1 DEF InChain, InChainStates, NeedsMeta
  <2>2. at[w] = 3 /\ req[w].chain \in EditChains
    BY <1>1, <2>1, InChainFacts DEF HookFact
  <2> QED BY <1>1, <2>1, <2>2 DEF IInv, Drafted
<1>2. IInv => NoNilDereference
  BY <1>1 DEF NoNilDereference
<1> QED BY <1>2, Invariance, PTL

-----------------------------------------------------------------------------
(* A chain that has written is at its end.                                 *)
LEMMA WrittenIsLast ==
  ASSUME IInv, NEW w \in Workers, HasWritten(w)
  PROVE  /\ reply[w] \notin Errors
         /\ pc[w] \notin {"number", "search"}
         /\ ~(pc[w] = "hook" /\ at[w] \in DOMAIN Chain(w))
<1>1. CASE pc[w] \in {"notify", "apply"}
  BY <1>1 DEF IInv, Placed, Errors
<1>2. CASE pc[w] \notin {"notify", "apply"}
  <2>1. /\ req[w].chain \in Chains
        /\ Len(Chain(w)) \in 1..5 /\ DOMAIN Chain(w) = 1..Len(Chain(w))
        /\ at[w] \in 1..6
    BY ChainFacts DEF HasWritten, Chain, IInv, TypeOK
  <2>2. at[w] > Len(Chain(w))
    <3>1. PICK i \in DOMAIN Chain(w) :
            i < at[w] /\ Chain(w)[i] \in {"save-entity", "destroy-entity"}
      BY <1>2 DEF HasWritten
    <3>2. i = Len(Chain(w))
      BY <2>1, <3>1, ChainFacts DEF Chain, HookFact
    <3> QED BY <2>1, <3>1, <3>2
  <2>3. pc[w] # "number"
    BY <2>1, <2>2 DEF IInv, Placed
  <2>4. pc[w] # "search"
    BY <2>1 DEF IInv, Placed, SearchRequest, Chains, EditChains, EditHook
  <2>5. reply[w] \notin Errors
    <3>1. CASE pc[w] # "done"
      BY <3>1 DEF IInv, Placed, Errors
    <3>2. CASE pc[w] = "done"
      BY <2>1, <2>2, <3>2 DEF IInv, Placed
    <3> QED BY <3>1, <3>2
  <2> QED BY <2>1, <2>2, <2>3, <2>4, <2>5
<1> QED BY <1>1, <1>2

(* Only a hook that runs, a scan and a search can fail. *)
LEMMA WhoFails ==
  ASSUME IInv, Next, NEW w \in Workers, reply'[w] \in Errors
  PROVE  \/ reply[w] \in Errors
         \/ pc[w] = "hook" /\ at[w] \in DOMAIN Chain(w)
         \/ pc[w] \in {"number", "search"}
<1>1. CASE reply' = reply
  BY <1>1
<1>2. ASSUME NEW u \in Workers, NEW err \in Errors, Fail(u, err),
             (pc[u] = "hook" /\ at[u] \in DOMAIN Chain(u)) \/ pc[u] \in {"number", "search"}
      PROVE  \/ reply[w] \in Errors
             \/ pc[w] = "hook" /\ at[w] \in DOMAIN Chain(w)
             \/ pc[w] \in {"number", "search"}
  BY <1>2 DEF Fail, IInv, TypeOK
<1>3. ASSUME NEW u \in Workers, WorkerStep(u)
      PROVE  \/ reply' = reply
             \/ FinishChain(u) \/ FinishSearch(u) \/ Return(u)
             \/ /\ \E err \in Errors : Fail(u, err)
                /\ (pc[u] = "hook" /\ at[u] \in DOMAIN Chain(u)) \/ pc[u] \in {"number", "search"}
  <2>1. CASE LoadEntity(u) \/ FailOnExistingEntity(u) \/ SetEntityNumber(u)
    BY <2>1 DEF LoadEntity, FailOnExistingEntity, SetEntityNumber, InChain, Advance, Errors
  <2>2. CASE AssignNumber(u) \/ \E x \in Entities : ScanNumber(u, x)
    BY <2>2 DEF AssignNumber, ScanNumber, Advance, Errors
  <2>3. CASE \E h \in Hooks \ StorageHooks : RunHook(u, h)
    BY <2>3 DEF RunHook, InChain, Advance, Errors
  <2>4. CASE SaveEntity(u) \/ DeleteEntity(u)
    BY <2>4 DEF SaveEntity, DeleteEntity, Write, InChain, Errors
  <2>5. CASE \/ \E c \in Callbacks : CallbackRemove(u, c) \/ CallbackLoad(u, c)
             \/ CallbackApply(u) \/ FinishWrite(u)
    BY <2>5 DEF CallbackRemove, CallbackLoad, CallbackApply, FinishWrite, Advance
  <2>6. CASE \E x \in Entities : SearchLoad(u, x)
    BY <2>6 DEF SearchLoad, Errors
  <2> QED BY <1>3, <2>1, <2>2, <2>3, <2>4, <2>5, <2>6 DEF WorkerStep
<1>4. ASSUME NEW u \in Workers, FinishChain(u) \/ FinishSearch(u) \/ Return(u)
      PROVE  reply[w] \in Errors
  BY <1>4 DEF FinishChain, FinishSearch, Return, Errors, IInv, TypeOK
<1>5. CASE Crash
  BY <1>5 DEF Crash, Errors
<1>6. CASE \/ \E u \in Workers, r \in Requests : Begin(u, r)
           \/ \E u \in Workers : BeginSearch(u)
           \/ Boot
  BY <1>6, <1>1 DEF Begin, BeginSearch, Boot, Preload, workerVars
<1> QED BY <1>1, <1>2, <1>3, <1>4, <1>5, <1>6 DEF Next

(* A client is never told that a request failed after its chain has        *)
(* written, whatever call of the back end or of the crypto fails.          *)
THEOREM WritesAreAnswered == Spec => NoErrorAfterWrite
<1>1. ASSUME IInv, [Next]_vars, NEW w \in Workers, HasWritten(w)
      PROVE  reply'[w] \notin Errors
  <2>1. CASE UNCHANGED vars
    BY <1>1, <2>1, WrittenIsLast DEF vars, workerVars
  <2>2. CASE Next
    BY <1>1, <2>2, WrittenIsLast, WhoFails
  <2> QED BY <1>1, <2>1, <2>2
<1>2. IInv /\ [Next]_vars =>
        [\A w \in Workers : HasWritten(w) => reply'[w] \notin Errors]_vars
  BY <1>1
<1> QED BY <1>2, Invariance, PTL DEF Spec, NoErrorAfterWrite

-----------------------------------------------------------------------------
(* Authentication.                                                         *)

(* What a request to authenticate has established by the time it has come  *)
(* to hook at[w]: its draft is an entity that storage held meanwhile, and  *)
(* that passed the hooks so far.                                           *)
Vouched(w) ==
  /\ req[w].chain = "VALIDATE_IDENTITY"
  /\ pc[w] \in InChainStates \/ (pc[w] = "done" /\ reply[w] = "ok")
  => /\ pc[w] \in InChainStates => store[ID(w)] \in seen[w]
     /\ at[w] >= 2 => e[w] \in seen[w]
     /\ at[w] >= 3 => ~IsLocked(e[w])
     /\ at[w] >= 4 => Verifies(req[w].de.secret, e[w])

AuthInv == \A w \in Workers : Vouched(w)

(* No request to authenticate has been vouched for at the start. *)
LEMMA InitAuthInv == Init => AuthInv
BY DEF Init, AuthInv, Vouched, InChainStates

(* The hooks of the chain, by their place. *)
LEMMA ValidateChain ==
  ASSUME NEW w, req[w].chain = "VALIDATE_IDENTITY"
  PROVE  /\ Chain(w) = <<"load-entity", "validate-entity-unlocked",
                         "validate-entity-secret", "save-entity">>
         /\ Len(Chain(w)) = 4 /\ DOMAIN Chain(w) = 1..4
         /\ Chain(w)[1] = "load-entity" /\ Chain(w)[2] = "validate-entity-unlocked"
         /\ Chain(w)[3] = "validate-entity-secret" /\ Chain(w)[4] = "save-entity"
BY ChainCases DEF Chain

(* A step of another worker leaves a request its draft, and can only add   *)
(* to what storage is known to have held meanwhile.                        *)
LEMMA OthersSee ==
  ASSUME IInv, NEW w \in Workers, NEW u \in Workers, u # w, WorkerStep(w)
  PROVE  /\ pc'[u] = pc[u] /\ reply'[u] = reply[u] /\ at'[u] = at[u]
         /\ req'[u] = req[u] /\ e'[u] = e[u]
         /\ seen[u] \subseteq seen'[u]
         /\ pc[u] \in InChainStates /\ store[ID(u)] \in seen[u] => store'[ID(u)] \in seen'[u]
<1>1. /\ pc'[u] = pc[u] /\ reply'[u] = reply[u] /\ at'[u] = at[u]
      /\ req'[u] = req[u] /\ e'[u] = e[u]
  <2>1. CASE LoadEntity(w) \/ FailOnExistingEntity(w) \/ SetEntityNumber(w) \/ AssignNumber(w)
    BY <2>1 DEF LoadEntity, FailOnExistingEntity, SetEntityNumber, AssignNumber,
                Advance, Fail, LocalStep, IInv, TypeOK
  <2>2. CASE \/ \E x \in Entities : ScanNumber(w, x) \/ SearchLoad(w, x)
             \/ \E h \in Hooks \ StorageHooks : RunHook(w, h)
             \/ FinishSearch(w)
    BY <2>2 DEF ScanNumber, SearchLoad, RunHook, FinishSearch, Advance, Fail, LocalStep,
                IInv, TypeOK
  <2>3. CASE SaveEntity(w) \/ DeleteEntity(w)
    BY <2>3 DEF SaveEntity, DeleteEntity, Write, Fail, LocalStep, IInv, TypeOK
  <2>4. CASE \/ \E c \in Callbacks : CallbackRemove(w, c) \/ CallbackLoad(w, c)
             \/ CallbackApply(w) \/ FinishWrite(w) \/ FinishChain(w) \/ Return(w)
    BY <2>4 DEF CallbackRemove, CallbackLoad, CallbackApply, FinishWrite, FinishChain,
                Return, Advance, IInv, TypeOK
  <2> QED BY <2>1, <2>2, <2>3, <2>4 DEF WorkerStep
<1>2. CASE store' = store /\ seen'[u] = seen[u]
  BY <1>1, <1>2
<1>3. CASE \E x \in Entities, v \in Entity \cup {NoEntity} : Write(w, x, v)
  <2>1. PICK x \in Entities, v \in Entity \cup {NoEntity} : Write(w, x, v)
    BY <1>3
  <2>2. pc[u] \in InChainStates => ID(u) \in Entities /\ Busy(u) /\ req[u].chain # "SEARCH"
    BY RequestFacts, SearchIsNoChain DEF IInv, Placed, ID, Busy, InChainStates
  <2>3. /\ seen[u] \subseteq seen'[u]
        /\ pc[u] \in InChainStates /\ ID(u) = x => v \in seen'[u]
        /\ store' = [store EXCEPT ![x] = v]
    BY <2>1, <2>2 DEF Write
  <2> QED BY <1>1, <2>2, <2>3 DEF IInv, TypeOK
<1>4. \/ store' = store /\ seen'[u] = seen[u]
      \/ \E x \in Entities, v \in Entity \cup {NoEntity} : Write(w, x, v)
  <2>1. CASE SaveEntity(w)
    <3>1. InChain(w, "save-entity")
      BY <2>1 DEF SaveEntity
    <3>2. e[w] \in Entity /\ e[w].id \in Entities
      BY <3>1, InChainFacts DEF InChain, InChainStates, HookFact, IInv, Drafted
    <3> QED BY <2>1, <3>2 DEF SaveEntity, LocalStep, stateVars
  <2>2. CASE DeleteEntity(w)
    <3>1. InChain(w, "destroy-entity")
      BY <2>2 DEF DeleteEntity
    <3>2. ID(w) \in Entities /\ e[w].id = ID(w)
      BY <3>1, InChainFacts DEF InChain, InChainStates, HookFact, IInv, Drafted
    <3> QED BY <2>2, <3>2 DEF DeleteEntity, LocalStep, stateVars
  <2>3. CASE \/ LoadEntity(w) \/ FailOnExistingEntity(w) \/ SetEntityNumber(w)
             \/ AssignNumber(w) \/ FinishSearch(w)
             \/ \E x \in Entities : ScanNumber(w, x) \/ SearchLoad(w, x)
             \/ \E h \in Hooks \ StorageHooks : RunHook(w, h)
    BY <2>3 DEF LoadEntity, FailOnExistingEntity, SetEntityNumber, AssignNumber,
                FinishSearch, ScanNumber, SearchLoad, RunHook, LocalStep, stateVars
  <2>4. CASE \/ \E c \in Callbacks : CallbackRemove(w, c) \/ CallbackLoad(w, c)
             \/ CallbackApply(w) \/ FinishWrite(w) \/ FinishChain(w) \/ Return(w)
    BY <2>4 DEF CallbackRemove, CallbackLoad, CallbackApply, FinishWrite, FinishChain,
                Return, stateVars, IInv, TypeOK
  <2> QED BY <2>1, <2>2, <2>3, <2>4 DEF WorkerStep
<1> QED BY <1>1, <1>2, <1>3, <1>4

(* What a request to authenticate has established, others leave alone. *)
LEMMA OthersVouched ==
  ASSUME IInv, AuthInv, NEW w \in Workers, NEW u \in Workers, u # w, WorkerStep(w)
  PROVE  Vouched(u)'
<1>1. /\ pc'[u] = pc[u] /\ reply'[u] = reply[u] /\ at'[u] = at[u]
      /\ req'[u] = req[u] /\ e'[u] = e[u]
      /\ seen[u] \subseteq seen'[u]
      /\ pc[u] \in InChainStates /\ store[ID(u)] \in seen[u] => store'[ID(u)] \in seen'[u]
  BY OthersSee
<1>2. Vouched(u)
  BY DEF AuthInv
<1> QED BY <1>1, <1>2 DEF Vouched, ID

(* A step of its own takes a request to authenticate past one hook.        *)
LEMMA OwnVouched ==
  ASSUME IInv, AuthInv, NEW w \in Workers, WorkerStep(w)
  PROVE  Vouched(w)'
<1> SUFFICES ASSUME req'[w].chain = "VALIDATE_IDENTITY",
                    pc'[w] \in InChainStates \/ (pc'[w] = "done" /\ reply'[w] = "ok")
             PROVE  Vouched(w)'
  BY DEF Vouched
<1>1. req'[w] = req[w] /\ pc[w] \in InChainStates \cup {"search", "done"}
  <2>1. ~Return(w)
    BY DEF Return, InChainStates, IInv, TypeOK
  <2> QED BY <2>1 DEF WorkerStep, LoadEntity, FailOnExistingEntity, SetEntityNumber,
        ScanNumber, AssignNumber, RunHook, SaveEntity, DeleteEntity, CallbackRemove,
        CallbackLoad, CallbackApply, FinishWrite, FinishChain, SearchLoad, FinishSearch,
        InChain, LocalStep, Write, InChainStates
<1>2. /\ req[w].chain = "VALIDATE_IDENTITY"
      /\ Len(Chain(w)) = 4 /\ DOMAIN Chain(w) = 1..4
      /\ Chain(w)[1] = "load-entity" /\ Chain(w)[2] = "validate-entity-unlocked"
      /\ Chain(w)[3] = "validate-entity-secret" /\ Chain(w)[4] = "save-entity"
  BY <1>1, ValidateChain
<1>3. pc[w] # "search" /\ pc[w] # "number"
  BY <1>2 DEF IInv, Placed, SearchRequest
<1>4. /\ pc[w] \in InChainStates => store[ID(w)] \in seen[w]
      /\ pc[w] \in InChainStates =>
           /\ at[w] >= 2 => e[w] \in seen[w]
           /\ at[w] >= 3 => ~IsLocked(e[w])
           /\ at[w] >= 4 => Verifies(req[w].de.secret, e[w])
  BY <1>2 DEF AuthInv, Vouched
<1>5. ~(\E err \in Errors : Fail(w, err))
  BY DEF Fail, IInv, TypeOK, InChainStates, Errors
<1>6. at[w] \in 1..6 /\ e[w] \in Entity /\ ID(w)' = ID(w)
  BY <1>1 DEF IInv, TypeOK, ID
<1>7. CASE LoadEntity(w)
  <2>1. /\ at[w] = 1 /\ pc[w] = "hook"
    BY <1>2, <1>7 DEF LoadEntity, InChain
  <2>2. e' = [e EXCEPT ![w] = store[ID(w)]] /\ Advance(w) /\ store' = store /\ seen' = seen
    BY <1>5, <1>7 DEF LoadEntity, LocalStep, stateVars, Errors
  <2>3. at'[w] = 2 /\ e'[w] = store[ID(w)]
    BY <2>1, <2>2 DEF Advance, IInv, TypeOK
  <2> QED BY <1>2, <1>4, <1>6, <2>1, <2>2, <2>3 DEF Vouched, InChainStates
<1>8. CASE \E h \in Hooks \ StorageHooks : RunHook(w, h)
  <2>1. PICK h \in Hooks \ StorageHooks : RunHook(w, h)
    BY <1>8
  <2>2. /\ pc[w] = "hook" /\ at[w] \in 1..4 /\ Chain(w)[at[w]] = h
        /\ ~HookFails(h, e[w], req[w].de) /\ Advance(w)
        /\ e' = [e EXCEPT ![w] = HookResult(h, e[w], req[w].de)]
        /\ store' = store /\ seen' = seen
    BY <1>2, <1>5, <2>1 DEF RunHook, InChain, LocalStep, stateVars, Errors
  <2>3. /\ at[w] \in {2, 3}
        /\ h \in {"validate-entity-unlocked", "validate-entity-secret"}
        /\ at[w] = 2 => h = "validate-entity-unlocked"
        /\ at[w] = 3 => h = "validate-entity-secret"
    BY <1>2, <2>2 DEF StorageHooks
  <2>4. e'[w] = e[w] /\ at'[w] = at[w] + 1
    BY <1>6, <2>2, <2>3, EditHooksDistinct DEF HookResult, Advance, IInv, TypeOK
  <2>5. /\ at[w] = 2 => ~IsLocked(e[w])
        /\ at[w] = 3 => Verifies(req[w].de.secret, e[w])
    BY <2>2, <2>3 DEF HookFails
  <2> QED BY <1>1, <1>2, <1>4, <1>6, <2>2, <2>3, <2>4, <2>5 DEF Vouched, InChainStates
<1>9. CASE SaveEntity(w)
  <2>1. /\ pc[w] = "hook" /\ at[w] = 4 /\ Write(w, e[w].id, e[w]) /\ UNCHANGED e
    BY <1>2, <1>5, <1>9 DEF SaveEntity, InChain, Errors
  <2>2. e[w].id = ID(w) /\ ID(w) \in Entities
    BY <1>2, <2>1, InChainFacts DEF InChainStates, IInv, Drafted
  <2>3. store'[ID(w)] \in seen'[w] /\ seen[w] \subseteq seen'[w] /\ at' = at
    BY <1>2, <2>1, <2>2 DEF Write, Busy, IInv, TypeOK
  <2> QED BY <1>1, <1>2, <1>4, <1>6, <2>1, <2>3 DEF Vouched, InChainStates
<1>10. CASE \/ \E c \in Callbacks : CallbackRemove(w, c) \/ CallbackLoad(w, c)
            \/ CallbackApply(w) \/ FinishWrite(w) \/ FinishChain(w)
  <2>1. /\ e' = e /\ seen' = seen /\ store' = store
        /\ pc[w] \in InChainStates
    BY <1>10 DEF CallbackRemove, CallbackLoad, CallbackApply, FinishWrite, FinishChain,
                 InChainStates, stateVars
  <2>2. at'[w] = at[w] \/ (pc[w] = "notify" /\ at'[w] = at[w] + 1)
    BY <1>10 DEF CallbackRemove, CallbackLoad, CallbackApply, FinishWrite, FinishChain,
                 Advance, IInv, TypeOK
  <2>3. pc[w] = "notify" => at[w] = 4
    BY <1>2 DEF IInv, Placed
  <2> QED BY <1>1, <1>2, <1>4, <1>6, <2>1, <2>2, <2>3 DEF Vouched
<1>11. ~FailOnExistingEntity(w) /\ ~SetEntityNumber(w) /\ ~DeleteEntity(w)
  BY <1>2 DEF FailOnExistingEntity, SetEntityNumber, DeleteEntity, InChain
<1>12. /\ ~(\E x \in Entities : ScanNumber(w, x)) /\ ~AssignNumber(w)
       /\ ~(\E x \in Entities : SearchLoad(w, x)) /\ ~FinishSearch(w)
  BY <1>3 DEF ScanNumber, AssignNumber, SearchLoad, FinishSearch
<1>13. ~Return(w)
  BY DEF Return, InChainStates, IInv, TypeOK
<1> QED BY <1>7, <1>8, <1>9, <1>10, <1>11, <1>12, <1>13 DEF WorkerStep

(* What a request to authenticate has established stays established. *)
LEMMA NextAuthInv == IInv /\ AuthInv /\ [Next]_vars => AuthInv'
<1> SUFFICES ASSUME IInv, AuthInv, [Next]_vars PROVE AuthInv'
  OBVIOUS
<1>1. ASSUME NEW w \in Workers, WorkerStep(w) PROVE AuthInv'
  BY <1>1, OwnVouched, OthersVouched DEF AuthInv
<1>2. ASSUME NEW w \in Workers, NEW r \in Requests, Begin(w, r) PROVE AuthInv'
  <2>1. pc[w] = "idle" /\ at[w] = 1
    BY <1>2 DEF Begin, Busy, IInv, Placed
  <2>2. ASSUME NEW u \in Workers PROVE Vouched(u)'
    BY <1>2, <2>1 DEF Begin, AuthInv, Vouched, InChainStates, ID, stateVars, IInv, TypeOK
  <2> QED BY <2>2 DEF AuthInv
<1>3. ASSUME NEW w \in Workers, BeginSearch(w) PROVE AuthInv'
  BY <1>3 DEF BeginSearch, AuthInv, Vouched, InChainStates, ID, stateVars, IInv, TypeOK
<1>4. CASE Crash
  BY <1>4 DEF Crash, AuthInv, Vouched, InChainStates
<1>5. CASE Boot
  BY <1>5 DEF Boot, Preload, AuthInv, Vouched, ID, workerVars
<1>6. CASE UNCHANGED vars
  BY <1>6 DEF vars, stateVars, workerVars, AuthInv, Vouched, ID
<1> QED BY <1>1, <1>2, <1>3, <1>4, <1>5, <1>6 DEF Next

(* Authentication is sound for any number of concurrent requests: an "ok"  *)
(* means that storage held, at some instant of the request, the entity     *)
(* unlocked and with that secret.                                          *)
THEOREM AuthenticationSound == Spec => []AuthSound
<1>1. ASSUME IInv, AuthInv, NEW w \in Workers, Done(w, "VALIDATE_IDENTITY")
      PROVE  \E v \in seen[w] :
               v # NoEntity /\ ~IsLocked(v) /\ Verifies(req[w].de.secret, v)
  <2>1. pc[w] = "done" /\ reply[w] = "ok" /\ req[w].chain = "VALIDATE_IDENTITY"
    BY <1>1 DEF Done
  <2>2. Len(Chain(w)) = 4
    BY <2>1, ValidateChain
  <2>3. at[w] = 5
    <3>1. req[w].chain \in Chains /\ reply[w] \notin Errors
      BY <2>1 DEF Chains, Errors
    <3>2. at[w] = Len(Chain(w)) + 1
      BY <1>1, <2>1, <3>1 DEF IInv, Placed
    <3> QED BY <2>2, <3>2
  <2>4. e[w] # NoEntity
    BY <1>1, NoEntityAssumption DEF IInv, TypeOK
  <2> QED BY <1>1, <2>1, <2>3, <2>4 DEF AuthInv, Vouched
<1>2. IInv /\ AuthInv => AuthSound
  BY <1>1 DEF AuthSound
<1>3. Spec => []AuthInv
  BY InitAuthInv, NextAuthInv, Invariance, PTL DEF Spec
<1> QED BY <1>2, <1>3, Invariance, PTL

-----------------------------------------------------------------------------
(* A back end that does not fail to load what it has.  A load that fails   *)
(* lets a creation go on, and a callback leave its copy as it is.          *)
LoadsSucceed == "get" \notin Faults

(***************************************************************************)
(* Creations.  A creation knows what storage has held under its ID since   *)
(* it began, whoever wrote it; once it is past the hook that looks whether *)
(* there is anything, there was nothing at that moment.                    *)
(***************************************************************************)
Watched(w) ==
  pc[w] \in InChainStates /\ req[w].chain = "CREATE" =>
    /\ store[ID(w)] \in seen[w]
    /\ at[w] >= 2 => NoEntity \in seen[w]

CreateInv == \A w \in Workers : Watched(w)

(* The hooks of the chain, by their place. *)
LEMMA CreateChain ==
  ASSUME NEW w, req[w].chain = "CREATE"
  PROVE  /\ Len(Chain(w)) = 5 /\ DOMAIN Chain(w) = 1..5
         /\ Chain(w)[1] = "fail-on-existing-entity" /\ Chain(w)[2] = "set-entity-id"
         /\ Chain(w)[3] = "set-entity-number" /\ Chain(w)[4] = "set-entity-secret"
         /\ Chain(w)[5] = "save-entity"
BY ChainCases DEF Chain

(* A step of its own: only the first hook has anything to establish.       *)
LEMMA OwnWatched ==
  ASSUME LoadsSucceed, IInv, CreateInv, NEW w \in Workers, WorkerStep(w)
  PROVE  Watched(w)'
<1> SUFFICES ASSUME pc'[w] \in InChainStates, req'[w].chain = "CREATE"
             PROVE  Watched(w)'
  BY DEF Watched
<1>1. req'[w] = req[w] /\ pc[w] \in InChainStates \cup {"search", "done"}
  <2>1. ~Return(w)
    BY DEF Return, InChainStates, IInv, TypeOK
  <2> QED BY <2>1 DEF WorkerStep, LoadEntity, FailOnExistingEntity, SetEntityNumber,
        ScanNumber, AssignNumber, RunHook, SaveEntity, DeleteEntity, CallbackRemove,
        CallbackLoad, CallbackApply, FinishWrite, FinishChain, SearchLoad, FinishSearch,
        InChain, LocalStep, Write, InChainStates
<1>2. /\ req[w].chain = "CREATE"
      /\ Len(Chain(w)) = 5 /\ DOMAIN Chain(w) = 1..5
      /\ Chain(w)[1] = "fail-on-existing-entity" /\ Chain(w)[2] = "set-entity-id"
      /\ Chain(w)[3] = "set-entity-number" /\ Chain(w)[4] = "set-entity-secret"
      /\ Chain(w)[5] = "save-entity"
  BY <1>1, CreateChain
<1>3. /\ ~(\E x \in Entities : SearchLoad(w, x)) /\ ~FinishSearch(w)
      /\ ~LoadEntity(w) /\ ~DeleteEntity(w) /\ ~FinishChain(w)
      /\ ~Return(w)
  BY <1>2 DEF SearchLoad, FinishSearch, LoadEntity, DeleteEntity, FinishChain, Return, InChain,
              IInv, TypeOK, Placed, SearchRequest, InChainStates
<1>4. ~(\E err \in Errors : Fail(w, err))
  BY DEF Fail, IInv, TypeOK, InChainStates
<1>5. ID(w)' = ID(w) /\ at[w] \in 1..6
  BY <1>1 DEF ID, IInv, TypeOK
<1>6. pc[w] \in InChainStates => store[ID(w)] \in seen[w] /\ (at[w] >= 2 => NoEntity \in seen[w])
  BY <1>2 DEF CreateInv, Watched
<1>7. CASE FailOnExistingEntity(w)
  <2>1. pc[w] = "hook" /\ store[ID(w)] = NoEntity /\ store' = store /\ seen' = seen
    BY <1>4, <1>7 DEF FailOnExistingEntity, InChain, LocalStep, stateVars, Errors, LoadsSucceed
  <2> QED BY <1>5, <1>6, <2>1 DEF Watched, InChainStates
<1>8. CASE SaveEntity(w)
  <2>1. pc[w] = "hook" /\ at[w] = 5 /\ Write(w, e[w].id, e[w])
    BY <1>2, <1>4, <1>8 DEF SaveEntity, InChain, Errors
  <2>2. e[w].id = ID(w) /\ ID(w) \in Entities /\ e[w] \in Entity
    BY <1>2, <2>1, InChainFacts DEF InChainStates, IInv, Drafted
  <2>3. store'[ID(w)] \in seen'[w] /\ seen[w] \subseteq seen'[w] /\ at' = at
    BY <1>2, <2>1, <2>2 DEF Write, Busy, IInv, TypeOK
  <2> QED BY <1>5, <1>6, <2>1, <2>3 DEF Watched, InChainStates
<1>9. CASE \/ SetEntityNumber(w) \/ AssignNumber(w) \/ \E x \in Entities : ScanNumber(w, x)
           \/ \E h \in Hooks \ StorageHooks : RunHook(w, h)
  <2>1. store' = store /\ seen' = seen /\ pc[w] \in {"hook", "number"}
    BY <1>9 DEF SetEntityNumber, AssignNumber, ScanNumber, RunHook, InChain, LocalStep, stateVars
  <2>2. at[w] >= 2
    <3>1. pc[w] = "number" => at[w] = 3
      BY <1>2, EditHooksDistinct DEF IInv, Placed
    <3>2. pc[w] = "hook" => at[w] # 1
      <4>1. ASSUME NEW h \in Hooks \ StorageHooks, RunHook(w, h), at[w] = 1 PROVE FALSE
        BY <1>2, <4>1 DEF RunHook, InChain, StorageHooks
      <4>2. ~(SetEntityNumber(w) /\ at[w] = 1)
        BY <1>2 DEF SetEntityNumber, InChain
      <4> QED BY <1>9, <4>1, <4>2 DEF AssignNumber, ScanNumber
    <3> QED BY <1>5, <2>1, <3>1, <3>2
  <2> QED BY <1>5, <1>6, <2>1, <2>2 DEF Watched, InChainStates
<1>10. CASE \/ \E c \in Callbacks : CallbackRemove(w, c) \/ CallbackLoad(w, c)
            \/ CallbackApply(w) \/ FinishWrite(w)
  <2>1. store' = store /\ seen' = seen /\ pc[w] \in {"notify", "apply"}
    BY <1>10 DEF CallbackRemove, CallbackLoad, CallbackApply, FinishWrite, stateVars
  <2>2. at[w] = 5
    BY <1>2, <2>1 DEF IInv, Placed
  <2> QED BY <1>5, <1>6, <2>1, <2>2 DEF Watched, InChainStates
<1> QED BY <1>3, <1>7, <1>8, <1>9, <1>10 DEF WorkerStep

(* What a creation knows stays so. *)
LEMMA NextCreateInv ==
  ASSUME LoadsSucceed
  PROVE  IInv /\ CreateInv /\ [Next]_vars => CreateInv'
<1> SUFFICES ASSUME IInv, CreateInv, [Next]_vars PROVE CreateInv'
  OBVIOUS
<1>1. ASSUME NEW w \in Workers, WorkerStep(w) PROVE CreateInv'
  <2>1. ASSUME NEW u \in Workers, u # w PROVE Watched(u)'
    <3>1. /\ pc'[u] = pc[u] /\ at'[u] = at[u] /\ req'[u] = req[u]
          /\ seen[u] \subseteq seen'[u]
          /\ pc[u] \in InChainStates /\ store[ID(u)] \in seen[u] =>
               store'[ID(u)] \in seen'[u]
      BY <1>1, <2>1, OthersSee
    <3>2. Watched(u)
      BY DEF CreateInv
    <3> QED BY <3>1, <3>2 DEF Watched, ID
  <2> QED BY <1>1, <2>1, OwnWatched DEF CreateInv
<1>2. ASSUME NEW w \in Workers, NEW r \in Requests, Begin(w, r) PROVE CreateInv'
  <2>1. pc[w] = "idle" /\ at[w] = 1
    BY <1>2 DEF Begin, Busy, IInv, Placed
  <2>2. ASSUME NEW u \in Workers PROVE Watched(u)'
    BY <1>2, <2>1 DEF Begin, CreateInv, Watched, InChainStates, ID, stateVars, IInv, TypeOK
  <2> QED BY <2>2 DEF CreateInv
<1>3. ASSUME NEW w \in Workers, BeginSearch(w) PROVE CreateInv'
  BY <1>3 DEF BeginSearch, CreateInv, Watched, InChainStates, ID, stateVars, IInv, TypeOK
<1>4. CASE Crash
  BY <1>4 DEF Crash, CreateInv, Watched, InChainStates
<1>5. CASE Boot
  BY <1>5 DEF Boot, Preload, CreateInv, Watched, ID, workerVars
<1>6. CASE UNCHANGED vars
  BY <1>6 DEF vars, stateVars, workerVars, CreateInv, Watched, ID
<1> QED BY <1>1, <1>2, <1>3, <1>4, <1>5, <1>6 DEF Next

(* With loads that succeed, a creation saves only where storage held       *)
(* nothing at some instant of it, whatever requests for the same ID run    *)
(* next to it.                                                             *)
THEOREM CreationsOverwriteNothing ==
  ASSUME LoadsSucceed
  PROVE  Spec => CreateOnlyIfAbsent
<1>1. ASSUME IInv, CreateInv, [Next]_vars, NEW w \in Workers,
             pc[w] = "hook", pc'[w] = "notify", req[w].chain = "CREATE"
      PROVE  NoEntity \in seen[w]
  <2>1. at[w] # 1
    <3>1. WorkerStep(w)
      <4>1. ASSUME NEW u \in Workers, u # w, WorkerStep(u) PROVE FALSE
        BY <1>1, <4>1, OthersSee
      <4>2. ~(\E u \in Workers, r \in Requests : Begin(u, r))
        BY <1>1 DEF Begin, IInv, TypeOK
      <4>3. ~(\E u \in Workers : BeginSearch(u)) /\ ~Boot /\ ~Crash /\ ~UNCHANGED vars
        BY <1>1 DEF BeginSearch, Boot, Preload, Crash, vars, workerVars, IInv, TypeOK
      <4> QED BY <1>1, <4>1, <4>2, <4>3 DEF Next
    <3>2. SaveEntity(w) \/ DeleteEntity(w)
      BY <1>1, <3>1 DEF WorkerStep, LoadEntity, FailOnExistingEntity, SetEntityNumber,
         ScanNumber, AssignNumber, RunHook, CallbackRemove, CallbackLoad, CallbackApply,
         FinishWrite, FinishChain, SearchLoad, FinishSearch, Return, Advance, Fail,
         IInv, TypeOK
    <3> QED BY <1>1, <3>2, CreateChain DEF SaveEntity, DeleteEntity, InChain
  <2>2. Watched(w) /\ at[w] \in 1..6
    BY <1>1 DEF CreateInv, IInv, TypeOK
  <2> QED BY <1>1, <2>1, <2>2 DEF Watched, InChainStates
<1>2. IInv /\ CreateInv /\ [Next]_vars =>
        [\A w \in Workers :
           /\ pc[w] = "hook" /\ pc'[w] = "notify" /\ req[w].chain = "CREATE"
           => NoEntity \in seen[w]]_vars
  BY <1>1
<1>3. Init => CreateInv
  BY DEF Init, CreateInv, Watched, InChainStates
<1>4. Spec => []CreateInv
  BY <1>3, NextCreateInv, Invariance, PTL DEF Spec
<1> QED BY <1>2, <1>4, Invariance, PTL DEF Spec, CreateOnlyIfAbsent

-----------------------------------------------------------------------------
(* The typed key/value store.                                              *)

(* A message is finite, an update of metadata (`entity update`) carries no *)
(* pairs, and what is found in storage has one value for each key.         *)
PairsAssigned ==
  /\ \A r \in Requests : r.de.meta # NoMeta =>
       /\ IsFiniteSet(r.de.meta.kv)
       /\ r.chain = "MERGE_METADATA" => r.de.meta.kv = {}
  /\ \A p \in Populations : \A x \in Entities :
       p[x] # NoEntity /\ p[x].meta # NoMeta =>
         \A q, r \in p[x].meta.kv : q[1] = r[1] => q = r

(* One value for each key. *)
OneValue(kv) == \A p, q \in kv : p[1] = q[1] => p = q

(* The same of a draft: it is what will be stored. *)
DraftKeysUnique == \A w \in Workers : e[w].meta # NoMeta => OneValue(e[w].meta.kv)

(* An edit of the pairs keeps one value for each key. *)
LEMMA KVChangeOneValue ==
  ASSUME NEW h \in {"kv-add", "kv-del", "kv-replace"}, NEW d \in Entity, d.meta # NoMeta,
         NEW de \in DataEntity, IsFiniteSet(RequestMeta(de).kv),
         ~HookFails(h, d, de), OneValue(d.meta.kv)
  PROVE  OneValue(EditedMeta(h, d.meta, RequestMeta(de)).kv)
<1> DEFINE kv == RequestMeta(de).kv
<1>1. d.meta \in Meta /\ RequestMeta(d) = d.meta /\ RequestMeta(de) \in Meta
  BY RequestMetaType DEF Entity, RequestMeta
<1>2. \E p : kv = {p}
  <2>1. Cardinality(kv) = 1
    BY DEF HookFails, KVRefused
  <2> QED BY <2>1, FS_Singleton
<1>3. CASE h = "kv-add"
  <2>1. EditedMeta(h, d.meta, RequestMeta(de)).kv = d.meta.kv \cup kv
    BY <1>1, <1>3 DEF EditedMeta, KVChange, Meta
  <2>2. KeysOf(d.meta.kv) \cap KeysOf(kv) = {}
    BY <1>1, <1>3 DEF HookFails, KVRefused
  <2>3. \A p \in d.meta.kv, q \in kv : p[1] # q[1]
    BY <2>2 DEF KeysOf
  <2> QED BY <1>2, <2>1, <2>3 DEF OneValue
<1>4. CASE h = "kv-del"
  <2>1. EditedMeta(h, d.meta, RequestMeta(de)).kv = Without(d.meta.kv, KeysOf(kv))
    BY <1>1, <1>4 DEF EditedMeta, KVChange, Meta
  <2> QED BY <2>1 DEF OneValue, Without
<1>5. CASE h = "kv-replace"
  <2>1. EditedMeta(h, d.meta, RequestMeta(de)).kv = Without(d.meta.kv, KeysOf(kv)) \cup kv
    BY <1>1, <1>5 DEF EditedMeta, KVChange, Meta
  <2>2. \A p \in Without(d.meta.kv, KeysOf(kv)), q \in kv : p[1] # q[1]
    BY DEF KeysOf, Without
  <2>3. OneValue(Without(d.meta.kv, KeysOf(kv)))
    BY DEF OneValue, Without
  <2> QED BY <1>2, <2>1, <2>2, <2>3 DEF OneValue
<1> QED BY <1>3, <1>4, <1>5

(* No other edit touches the pairs, but for an update that brings some. *)
LEMMA OtherEditsKeepPairs ==
  ASSUME NEW h \in EditHooks \ {"kv-add", "kv-del", "kv-replace"},
         NEW m \in Meta, NEW d \in Meta, h = "merge-entity-meta" => d.kv = {}
  PROVE  EditedMeta(h, m, d).kv = m.kv
<1>1. h \in {"set-entity-capability", "remove-entity-capability", "add-entity-key",
             "del-entity-key", "merge-entity-meta", "lock-entity", "unlock-entity",
             "add-untyped-metadata", "del-untyped-metadata-fuzzy",
             "del-untyped-metadata-exact", "add-direct-group", "del-direct-group"}
  BY DEF EditHooks, EditChains, EditHook
<1>2. CASE h = "merge-entity-meta"
  <2>1. Mergeable(d).kv = {}
    BY <1>2 DEF Mergeable, Meta
  <2> QED BY <1>2, <2>1 DEF EditedMeta, MergeEntityMeta, MergeMeta
<1>3. CASE h \in {"set-entity-capability", "remove-entity-capability",
                  "add-direct-group", "del-direct-group", "lock-entity", "unlock-entity"}
  BY <1>3 DEF EditedMeta, Meta, ManageEntityCapabilities, DirectGroupManager, EntityLockManager
<1>4. CASE h \in {"add-entity-key", "del-entity-key"}
  BY <1>4 DEF EditedMeta, Meta, ManageEntityKeys
<1>5. CASE h \in {"add-untyped-metadata", "del-untyped-metadata-fuzzy",
                  "del-untyped-metadata-exact"}
  BY <1>5 DEF EditedMeta, Meta, ManageEntityUM
<1> QED BY <1>1, <1>2, <1>3, <1>4, <1>5

(* What a hook leaves of a draft with one value for each key. *)
LEMMA RunHookOneValue ==
  ASSUME PairsAssigned, IInv, DraftKeysUnique, NEW w \in Workers,
         NEW h \in Hooks \ StorageHooks, InChain(w, h), ~HookFails(h, e[w], req[w].de),
         NEW d, d = HookResult(h, e[w], req[w].de), d.meta # NoMeta
  PROVE  OneValue(d.meta.kv)
<1>1. /\ pc[w] \in InChainStates /\ at[w] \in DOMAIN Chain(w) /\ Chain(w)[at[w]] = h
  BY DEF InChain, InChainStates
<1>2. /\ HookFact(req[w].chain, at[w], h, Len(Chain(w))) /\ e[w] \in Entity
      /\ req[w] \in Requests /\ req[w].de \in DataEntity /\ req[w].chain \in Chains
  BY <1>1, InChainFacts
<1>3. e[w].meta # NoMeta => OneValue(e[w].meta.kv)
  BY DEF DraftKeysUnique
<1>4. CASE h \in EditHooks
  <2>1. at[w] = 3 /\ req[w].chain \in EditChains
    BY <1>2, <1>4 DEF HookFact
  <2>2. e[w].meta # NoMeta /\ e[w].meta \in Meta
    BY <1>1, <1>2, <2>1 DEF IInv, Drafted, Entity
  <2>3. d.meta = EditedMeta(h, e[w].meta, RequestMeta(req[w].de))
    BY <1>2, <1>4, EditHooksDistinct DEF HookResult, Entity
  <2>4. h = EditHook[req[w].chain]
    BY <1>1, <2>1, ChainCases DEF Chain
  <2>5. h = "merge-entity-meta" => req[w].chain = "MERGE_METADATA"
    BY <2>1, <2>4 DEF EditHook, EditChains
  <2>6. /\ RequestMeta(req[w].de) \in Meta
        /\ IsFiniteSet(RequestMeta(req[w].de).kv)
        /\ h = "merge-entity-meta" => RequestMeta(req[w].de).kv = {}
    BY <1>2, <2>5, RequestMetaType, FS_EmptySet DEF PairsAssigned, RequestMeta, EmptyMeta
  <2>7. CASE h \in {"kv-add", "kv-del", "kv-replace"}
    BY <1>2, <1>3, <2>2, <2>3, <2>6, <2>7, KVChangeOneValue
  <2>8. CASE h \notin {"kv-add", "kv-del", "kv-replace"}
    BY <1>3, <1>4, <2>2, <2>3, <2>6, <2>8, OtherEditsKeepPairs
  <2> QED BY <2>7, <2>8
<1>5. CASE h = "ensure-entity-meta"
  BY <1>2, <1>3, <1>5, EditHooksDistinct
  DEF HookResult, EnsureEntityMeta, Entity, EmptyMeta, OneValue
<1>6. CASE h \in {"set-entity-id", "set-entity-secret"}
  BY <1>2, <1>3, <1>6, EditHooksDistinct DEF HookResult, SetEntityID, SetEntitySecret, Entity
<1>7. CASE h \in {"validate-entity-unlocked", "validate-entity-secret"}
  BY <1>2, <1>3, <1>7, EditHooksDistinct DEF HookResult
<1> QED BY <1>2, <1>4, <1>5, <1>6, <1>7 DEF HookFact, StorageHooks

(* A step that writes a draft, or loads one, or keeps the pairs of every   *)
(* draft it touches.                                                       *)
LEMMA WorkerKeysUnique ==
  ASSUME PairsAssigned, IInv, KVKeysUnique, DraftKeysUnique,
         NEW w \in Workers, WorkerStep(w)
  PROVE  KVKeysUnique' /\ DraftKeysUnique'
<1>1. /\ e \in [Workers -> Entity] /\ store \in [Entities -> Entity \cup {NoEntity}]
  BY DEF IInv, TypeOK
<1>2. ASSUME NEW d, e' = [e EXCEPT ![w] = d], d.meta # NoMeta => OneValue(d.meta.kv)
      PROVE  DraftKeysUnique'
  BY <1>1, <1>2 DEF DraftKeysUnique
<1>3. e' = e => DraftKeysUnique'
  BY DEF DraftKeysUnique
<1>4. store' = store => KVKeysUnique'
  BY DEF KVKeysUnique, Stored
<1>5. CASE LoadEntity(w)
  <2>1. store' = store
    BY <1>5 DEF LoadEntity, LocalStep, stateVars
  <2>2. CASE e' = e
    BY <1>3, <1>4, <2>1, <2>2
  <2>3. CASE store[ID(w)] # NoEntity /\ e' = [e EXCEPT ![w] = store[ID(w)]]
    <3>1. ID(w) \in Entities
      BY <1>5, InChainFacts DEF LoadEntity, InChain, InChainStates
    <3>2. store[ID(w)].meta # NoMeta => OneValue(store[ID(w)].meta.kv)
      BY <2>3, <3>1 DEF KVKeysUnique, Stored, OneValue
    <3> QED BY <1>2, <1>4, <2>1, <2>3, <3>2
  <2> QED BY <1>5, <2>2, <2>3 DEF LoadEntity
<1>6. CASE SetEntityNumber(w) \/ AssignNumber(w)
  <2>1. store' = store
    BY <1>6 DEF SetEntityNumber, AssignNumber, LocalStep, stateVars
  <2>2. e' = e \/ \E n : e' = [e EXCEPT ![w].number = n]
    BY <1>6 DEF SetEntityNumber, AssignNumber
  <2>3. ASSUME NEW n, e' = [e EXCEPT ![w].number = n] PROVE DraftKeysUnique'
    <3>1. [e[w] EXCEPT !.number = n].meta = e[w].meta
      BY <1>1 DEF Entity
    <3>2. e' = [e EXCEPT ![w] = [e[w] EXCEPT !.number = n]]
      BY <2>3
    <3> QED BY <1>2, <3>1, <3>2 DEF DraftKeysUnique
  <2> QED BY <1>3, <1>4, <2>1, <2>2, <2>3
<1>7. CASE \E h \in Hooks \ StorageHooks : RunHook(w, h)
  <2>1. PICK h \in Hooks \ StorageHooks : RunHook(w, h)
    BY <1>7
  <2>2. store' = store
    BY <2>1 DEF RunHook, LocalStep, stateVars
  <2>3. CASE e' = e
    BY <1>3, <1>4, <2>2, <2>3
  <2>4. CASE ~HookFails(h, e[w], req[w].de)
             /\ e' = [e EXCEPT ![w] = HookResult(h, e[w], req[w].de)]
    <3>1. PICK d : d = HookResult(h, e[w], req[w].de)
      OBVIOUS
    <3>2. d.meta # NoMeta => OneValue(d.meta.kv)
      BY <2>1, <2>4, <3>1, RunHookOneValue DEF RunHook
    <3> QED BY <1>2, <1>4, <2>2, <2>4, <3>1, <3>2
  <2> QED BY <2>1, <2>3, <2>4 DEF RunHook
<1>8. CASE SaveEntity(w)
  <2>1. e' = e
    BY <1>8 DEF SaveEntity
  <2>2. store' = store \/ store' = [store EXCEPT ![e[w].id] = e[w]]
    BY <1>8 DEF SaveEntity, LocalStep, stateVars, Write
  <2>3. e[w].meta # NoMeta => OneValue(e[w].meta.kv)
    BY DEF DraftKeysUnique
  <2>4. CASE store' = [store EXCEPT ![e[w].id] = e[w]]
    <3>1. ASSUME NEW x \in Entities, store'[x] # NoEntity, store'[x].meta # NoMeta
          PROVE  OneValue(store'[x].meta.kv)
      <4>1. CASE x = e[w].id
        BY <1>1, <2>3, <2>4, <3>1, <4>1
      <4>2. CASE x # e[w].id
        BY <1>1, <2>4, <3>1, <4>2 DEF KVKeysUnique, Stored, OneValue
      <4> QED BY <4>1, <4>2
    <3>2. KVKeysUnique'
      BY <3>1 DEF KVKeysUnique, Stored, OneValue
    <3> QED BY <1>3, <2>1, <3>2
  <2> QED BY <1>3, <1>4, <2>1, <2>2, <2>4
<1>9. CASE DeleteEntity(w)
  <2>1. PICK x : /\ e' = [e EXCEPT ![w].id = x]
                 /\ store' = store \/ store' = [store EXCEPT ![x] = NoEntity]
    BY <1>9 DEF DeleteEntity, LocalStep, stateVars, Write
  <2>2. DraftKeysUnique'
    <3>1. [e[w] EXCEPT !.id = x].meta = e[w].meta
      BY <1>1 DEF Entity
    <3>2. e' = [e EXCEPT ![w] = [e[w] EXCEPT !.id = x]]
      BY <2>1
    <3> QED BY <1>2, <3>1, <3>2 DEF DraftKeysUnique
  <2>3. CASE store' = [store EXCEPT ![x] = NoEntity]
    <3>1. ASSUME NEW y \in Entities, store'[y] # NoEntity
          PROVE  store[y] # NoEntity /\ store'[y] = store[y]
      BY <1>1, <2>3, <3>1
    <3> QED BY <2>2, <3>1 DEF KVKeysUnique, Stored
  <2> QED BY <1>4, <2>1, <2>2, <2>3
<1>10. CASE Return(w)
  <2>1. e' = [e EXCEPT ![w] = BlankEntity] /\ store' = store
    BY <1>10 DEF Return, stateVars
  <2> QED BY <1>2, <1>4, <2>1 DEF BlankEntity
<1>11. CASE \/ FailOnExistingEntity(w) \/ FinishChain(w) \/ FinishSearch(w) \/ FinishWrite(w)
            \/ \E x \in Entities : ScanNumber(w, x) \/ SearchLoad(w, x)
            \/ \E c \in Callbacks : CallbackRemove(w, c) \/ CallbackLoad(w, c)
            \/ CallbackApply(w)
  <2>1. store' = store /\ e' = e
    BY <1>11 DEF FailOnExistingEntity, FinishChain, FinishSearch, FinishWrite, ScanNumber,
                 SearchLoad, CallbackRemove, CallbackLoad, CallbackApply, LocalStep, stateVars
  <2> QED BY <1>3, <1>4, <2>1
<1> QED BY <1>5, <1>6, <1>7, <1>8, <1>9, <1>10, <1>11 DEF WorkerStep

(* The typed key/value store of an entity has one value for each key,      *)
(* whatever the requests that edit it interleave with: a request names one *)
(* pair, and the hook that adds it looks for its key in the draft that the *)
(* chain then saves whole.                                                 *)
THEOREM KeysStayUnique ==
  ASSUME PairsAssigned
  PROVE  Spec => []KVKeysUnique
<1>1. Init => KVKeysUnique /\ DraftKeysUnique
  BY DEF Init, PairsAssigned, KVKeysUnique, DraftKeysUnique, Stored, BlankEntity
<1>2. IInv /\ KVKeysUnique /\ DraftKeysUnique /\ [Next]_vars
        => KVKeysUnique' /\ DraftKeysUnique'
  <2> SUFFICES ASSUME IInv, KVKeysUnique, DraftKeysUnique, [Next]_vars
               PROVE  KVKeysUnique' /\ DraftKeysUnique'
    OBVIOUS
  <2>1. CASE \E w \in Workers : WorkerStep(w)
    BY <2>1, WorkerKeysUnique
  <2>2. CASE \/ UNCHANGED vars \/ Boot
             \/ \E w \in Workers : BeginSearch(w) \/ \E r \in Requests : Begin(w, r)
    <3>1. store' = store /\ e' = e
      BY <2>2 DEF vars, stateVars, workerVars, Boot, Preload, BeginSearch, Begin
    <3> QED BY <3>1 DEF KVKeysUnique, DraftKeysUnique, Stored
  <2>3. CASE Crash
    BY <2>3 DEF Crash, KVKeysUnique, DraftKeysUnique, Stored, BlankEntity
  <2> QED BY <2>1, <2>2, <2>3 DEF Next
<1>3. Spec => [](KVKeysUnique /\ DraftKeysUnique)
  BY <1>1, <1>2, Invariance, PTL DEF Spec
<1> QED BY <1>3, PTL

-----------------------------------------------------------------------------
(***************************************************************************)
(* The copies of the entities that the server keeps in memory, the         *)
(* resolver's direct groups and the search index, for any number of        *)
(* goroutines that write and call back at once, and across crashes.        *)
(***************************************************************************)
(* The copy that callback c keeps agrees with storage about x. *)
AgreesOn(c, x) ==
  IF c = "entity-resolver"
    THEN dm[x] = IF store[x] = NoEntity THEN NoEntity ELSE DirectGroups(store[x])
    ELSE index[x] = store[x]

(* Worker w has still to call callback c for x, or is in it with what is   *)
(* stored.                                                                 *)
WillTell(w, c, x) ==
  /\ Notifying(w, x)
  /\ c \in pending[w] \/ (pc[w] = "apply" /\ current[w] = c /\ loaded[w] = store[x])

(***************************************************************************)
(* The inductive invariant.  A copy that is behind will be told (Told),    *)
(* and what it is told is right: while callbacks run for an ID that no     *)
(* other write has raced them for, storage holds what their write left     *)
(* there (Backed).                                                         *)
(***************************************************************************)
Told ==
  \A x \in Entities \ raced, c \in Callbacks :
    AgreesOn(c, x) \/ <<x, c>> \in bootTodo \/ \E w \in Workers : WillTell(w, c, x)

Backed(w) ==
  pc[w] \in {"notify", "apply"} =>
    /\ pc[w] = "apply" => ~Destroys(w) /\ loaded[w].id = PK(w)
    /\ PK(w) \notin raced /\ Destroys(w) => store[PK(w)] = NoEntity
    /\ PK(w) \notin raced /\ ~Destroys(w) => store[PK(w)] # NoEntity
    /\ PK(w) \notin raced /\ pc[w] = "apply" => loaded[w] = store[PK(w)]

CInv ==
  /\ Told
  /\ ~Serving => \A w \in Workers : pc[w] = "idle"
  /\ \A w \in Workers : Backed(w)

-----------------------------------------------------------------------------
Telling == {"notify", "apply"}

(* What a step of worker w leaves alone: the other workers. *)
OthersStay(w) ==
  \A u \in Workers \ {w} :
    /\ pc'[u] = pc[u] /\ e'[u] = e[u] /\ req'[u] = req[u] /\ at'[u] = at[u]
    /\ pending'[u] = pending[u] /\ current'[u] = current[u] /\ loaded'[u] = loaded[u]

(* A server that starts has everything still to tell. *)
LEMMA InitCInv == Init => CInv
<1> SUFFICES ASSUME Init PROVE CInv
  OBVIOUS
<1>1. ASSUME NEW x \in Entities, NEW c \in Callbacks
      PROVE  AgreesOn(c, x) \/ <<x, c>> \in bootTodo
  BY DEF Init, AgreesOn, Stored
<1>2. ASSUME NEW w \in Workers PROVE pc[w] = "idle" /\ Backed(w)
  BY DEF Init, Backed
<1> QED BY <1>1, <1>2 DEF CInv, Told

(* What a worker other than w is about to tell stays right while storage   *)
(* keeps what it holds for that ID.                                        *)
LEMMA OthersBacked ==
  ASSUME CInv, NEW w \in Workers, OthersStay(w), NEW u \in Workers \ {w},
         pc[u] \in Telling /\ PK(u) \notin raced' =>
           PK(u) \notin raced /\ store'[PK(u)] = store[PK(u)]
  PROVE  Backed(u)'
<1>1. /\ pc'[u] = pc[u] /\ e'[u] = e[u] /\ req'[u] = req[u] /\ at'[u] = at[u]
      /\ loaded'[u] = loaded[u]
  BY DEF OthersStay
<1>2. PK(u)' = PK(u) /\ Destroys(u)' = Destroys(u)
  BY <1>1 DEF PK, Destroys, Chain
<1>3. Backed(u)
  BY DEF CInv
<1> QED BY <1>1, <1>2, <1>3 DEF Backed, Telling

(* ... and so is what makes up for a copy that is behind.                  *)
LEMMA OthersTell ==
  ASSUME NEW w \in Workers, OthersStay(w), NEW u \in Workers \ {w},
         NEW c, NEW x, WillTell(u, c, x), store'[x] = store[x]
  PROVE  WillTell(u, c, x)'
<1>1. /\ pc'[u] = pc[u] /\ e'[u] = e[u] /\ pending'[u] = pending[u]
      /\ current'[u] = current[u] /\ loaded'[u] = loaded[u]
  BY DEF OthersStay
<1> QED BY <1>1 DEF WillTell, Notifying

(* A step that neither writes nor calls back. *)
LEMMA QuietCInv ==
  ASSUME CInv, NEW w \in Workers, OthersStay(w),
         pc[w] \notin Telling, pc'[w] \notin Telling,
         Serving, UNCHANGED <<store, dm, index, bootTodo, raced>>
  PROVE  CInv'
<1>1. Serving'
  BY DEF Serving
<1>2. ASSUME NEW u \in Workers PROVE Backed(u)'
  <2>1. CASE u = w
    BY <2>1 DEF Backed, Telling
  <2>2. CASE u # w
    BY <2>2, OthersBacked
  <2> QED BY <2>1, <2>2
<1>3. ASSUME NEW x \in Entities \ raced', NEW c \in Callbacks
      PROVE  (AgreesOn(c, x) \/ \E u \in Workers : WillTell(u, c, x))'
  <2>1. CASE AgreesOn(c, x)
    BY <2>1 DEF AgreesOn
  <2>2. CASE \E u \in Workers : WillTell(u, c, x)
    <3>1. PICK u \in Workers : WillTell(u, c, x)
      BY <2>2
    <3>2. u # w
      BY <3>1 DEF WillTell, Notifying, Telling
    <3>3. WillTell(u, c, x)'
      BY <3>1, <3>2, OthersTell
    <3> QED BY <3>3
  <2> QED BY <2>1, <2>2 DEF CInv, Told, Serving
<1> QED BY <1>1, <1>2, <1>3 DEF CInv, Told

(* A worker that does something is one that a server serving is busy with. *)
LEMMA BusyServing ==
  ASSUME CInv, NEW w \in Workers, Busy(w)
  PROVE  Serving
BY DEF CInv, Busy

(* The hooks and searches that write nothing. *)
LEMMA LocalCInv ==
  ASSUME IInv, CInv, NEW w \in Workers,
         \/ LoadEntity(w) \/ FailOnExistingEntity(w) \/ SetEntityNumber(w)
         \/ AssignNumber(w) \/ FinishChain(w) \/ FinishSearch(w) \/ Return(w)
         \/ \E x \in Entities : ScanNumber(w, x) \/ SearchLoad(w, x)
         \/ \E h \in Hooks \ StorageHooks : RunHook(w, h)
  PROVE  CInv'
<1>1. /\ pc \in [Workers -> {"idle", "hook", "number", "notify", "apply", "search", "done"}]
      /\ e \in [Workers -> Entity] /\ at \in [Workers -> 1..6]
      /\ req \in [Workers -> AnyRequest \cup {NoRequest}]
  BY DEF IInv, TypeOK
<1>2. CASE LoadEntity(w) \/ FailOnExistingEntity(w) \/ SetEntityNumber(w) \/ AssignNumber(w)
  <2>1. /\ Busy(w) /\ pc[w] \notin Telling
        /\ UNCHANGED <<store, dm, index, bootTodo, raced>>
    BY <1>2 DEF LoadEntity, FailOnExistingEntity, SetEntityNumber, AssignNumber,
                InChain, LocalStep, stateVars, Busy, Telling
  <2>2. pc'[w] \notin Telling /\ OthersStay(w)
    BY <1>1, <1>2 DEF LoadEntity, FailOnExistingEntity, SetEntityNumber, AssignNumber,
                InChain, LocalStep, Advance, Fail, OthersStay, Telling
  <2> QED BY <2>1, <2>2, BusyServing, QuietCInv
<1>3. CASE FinishChain(w) \/ FinishSearch(w) \/ Return(w)
  <2>1. /\ Busy(w) /\ pc[w] \notin Telling
        /\ UNCHANGED <<store, dm, index, bootTodo, raced>>
    BY <1>3 DEF FinishChain, FinishSearch, Return, LocalStep, stateVars, Busy, Telling
  <2>2. pc'[w] \notin Telling /\ OthersStay(w)
    BY <1>1, <1>3 DEF FinishChain, FinishSearch, Return, LocalStep, OthersStay, Telling
  <2> QED BY <2>1, <2>2, BusyServing, QuietCInv
<1>4. CASE \/ \E x \in Entities : ScanNumber(w, x) \/ SearchLoad(w, x)
           \/ \E h \in Hooks \ StorageHooks : RunHook(w, h)
  <2>1. /\ Busy(w) /\ pc[w] \notin Telling
        /\ UNCHANGED <<store, dm, index, bootTodo, raced>>
    BY <1>4 DEF ScanNumber, SearchLoad, RunHook, InChain, LocalStep, stateVars, Busy, Telling
  <2>2. pc'[w] \notin Telling /\ OthersStay(w)
    BY <1>1, <1>4, <2>1 DEF ScanNumber, SearchLoad, RunHook, LocalStep, Advance, Fail,
                OthersStay, Telling
  <2> QED BY <2>1, <2>2, BusyServing, QuietCInv
<1> QED BY <1>2, <1>3, <1>4

(* A request or a search that arrives. *)
LEMMA ArrivalCInv ==
  ASSUME IInv, CInv, NEW w \in Workers,
         BeginSearch(w) \/ \E r \in Requests : Begin(w, r)
  PROVE  CInv'
<1>1. /\ Serving /\ pc[w] \notin Telling
      /\ UNCHANGED <<store, dm, index, bootTodo, raced>>
  BY DEF Begin, BeginSearch, Busy, Telling, stateVars
<1>2. pc'[w] \notin Telling /\ OthersStay(w)
  BY DEF Begin, BeginSearch, IInv, TypeOK, OthersStay, Telling
<1> QED BY <1>1, <1>2, QuietCInv

-----------------------------------------------------------------------------
(* A write of v under x that w is then about to tell.                      *)
LEMMA WriteCInv ==
  ASSUME IInv, CInv, NEW w \in Workers, pc[w] = "hook",
         NEW x \in Entities, NEW v \in Entity \cup {NoEntity},
         Write(w, x, v), NEW d, e' = [e EXCEPT ![w] = d], d.id = x,
         Destroys(w) <=> v = NoEntity
  PROVE  CInv'
<1>1. /\ pc' = [pc EXCEPT ![w] = "notify"] /\ pending' = [pending EXCEPT ![w] = Callbacks]
      /\ store' = [store EXCEPT ![x] = v]
      /\ raced' = IF \E u \in Workers \ {w} : Notifying(u, x)
                    THEN raced \cup {x} ELSE raced \ {x}
      /\ UNCHANGED <<dm, index, bootTodo, req, at, current, loaded>>
      /\ e' = [e EXCEPT ![w] = d] /\ e \in [Workers -> Entity]
      /\ pc \in [Workers -> {"idle", "hook", "number", "notify", "apply", "search", "done"}]
      /\ pending \in [Workers -> SUBSET Callbacks]
      /\ store \in [Entities -> Entity \cup {NoEntity}]
  BY DEF Write, IInv, TypeOK
<1>2. Serving /\ Serving'
  BY <1>1, BusyServing DEF Busy, Serving
<1>3. OthersStay(w)
  BY <1>1 DEF OthersStay
<1>4. ASSUME NEW u \in Workers PROVE Backed(u)'
  <2>1. CASE u = w
    <3>1. PK(w)' = x /\ pc'[w] = "notify" /\ store'[x] = v
      BY <1>1 DEF PK
    <3>2. Destroys(w)' = Destroys(w)
      BY <1>1 DEF Destroys, Chain
    <3> QED BY <2>1, <3>1, <3>2 DEF Backed
  <2>2. CASE u # w
    <3>1. ASSUME pc[u] \in Telling, PK(u) \notin raced'
          PROVE  PK(u) \notin raced /\ store'[PK(u)] = store[PK(u)]
      <4>1. PK(u) # x
        BY <1>1, <2>2, <3>1 DEF Notifying, PK, Telling
      <4> QED BY <1>1, <3>1, <4>1
    <3> QED BY <1>3, <2>2, <3>1, OthersBacked
  <2> QED BY <2>1, <2>2
<1>5. ASSUME NEW y \in Entities \ raced', NEW c \in Callbacks
      PROVE  (AgreesOn(c, y) \/ \E u \in Workers : WillTell(u, c, y))'
  <2>1. CASE y = x
    <3>1. WillTell(w, c, y)'
      BY <1>1, <2>1 DEF WillTell, Notifying
    <3> QED BY <3>1
  <2>2. CASE y # x
    <3>1. store'[y] = store[y] /\ y \in Entities \ raced
      BY <1>1, <2>2
    <3>2. CASE AgreesOn(c, y)
      BY <1>1, <3>1, <3>2 DEF AgreesOn
    <3>3. CASE \E u \in Workers : WillTell(u, c, y)
      <4>1. PICK u \in Workers : WillTell(u, c, y)
        BY <3>3
      <4>2. u # w
        BY <4>1 DEF WillTell, Notifying
      <4>3. WillTell(u, c, y)'
        BY <1>3, <3>1, <4>1, <4>2, OthersTell
      <4> QED BY <4>3
    <3> QED BY <1>2, <3>1, <3>2, <3>3 DEF CInv, Told, Serving
  <2> QED BY <2>1, <2>2
<1> QED BY <1>2, <1>4, <1>5 DEF CInv, Told

(* A hook that writes and fails has changed nothing. *)
LEMMA FailedWriteCInv ==
  ASSUME IInv, CInv, NEW w \in Workers, pc[w] = "hook",
         NEW err, Fail(w, err), LocalStep, NEW d, e' = [e EXCEPT ![w] = d]
  PROVE  CInv'
<1>1. pc[w] \notin Telling /\ pc'[w] \notin Telling /\ OthersStay(w)
  BY DEF Fail, LocalStep, IInv, TypeOK, OthersStay, Telling
<1>2. Serving /\ UNCHANGED <<store, dm, index, bootTodo, raced>>
  BY BusyServing DEF Busy, LocalStep, stateVars
<1> QED BY <1>1, <1>2, QuietCInv

(* save-entity. *)
LEMMA SaveEntityCInv ==
  ASSUME IInv, CInv, NEW w \in Workers, SaveEntity(w) PROVE CInv'
<1>1. /\ pc[w] \in InChainStates /\ pc[w] = "hook" /\ at[w] \in DOMAIN Chain(w)
      /\ Chain(w)[at[w]] = "save-entity"
  BY DEF SaveEntity, InChain, InChainStates
<1>2. ID(w) \in Entities /\ e[w] \in Entity /\ e[w].id = ID(w)
  BY <1>1, InChainFacts DEF HookFact, IInv, Drafted
<1>3. e[w] # NoEntity /\ ~Destroys(w)
  BY <1>1, <1>2, NoEntityAssumption DEF Destroys
<1>4. e' = [e EXCEPT ![w] = e[w]]
  BY DEF SaveEntity, IInv, TypeOK
<1>5. CASE Fail(w, "internal") /\ LocalStep
  BY <1>1, <1>4, <1>5, FailedWriteCInv
<1>6. CASE Write(w, e[w].id, e[w])
  BY <1>1, <1>2, <1>3, <1>4, <1>6, WriteCInv
<1> QED BY <1>5, <1>6 DEF SaveEntity

(* destroy-entity. *)
LEMMA DeleteEntityCInv ==
  ASSUME IInv, CInv, NEW w \in Workers, DeleteEntity(w) PROVE CInv'
<1>1. /\ pc[w] \in InChainStates /\ pc[w] = "hook" /\ at[w] \in DOMAIN Chain(w)
      /\ Chain(w)[at[w]] = "destroy-entity"
  BY DEF DeleteEntity, InChain, InChainStates
<1>2. ID(w) \in Entities /\ e[w] \in Entity /\ e[w].id = ID(w)
  BY <1>1, InChainFacts DEF HookFact, IInv, Drafted
<1>3. e' = [e EXCEPT ![w] = e[w]]
  <2>1. e' = [e EXCEPT ![w].id = ID(w)]
    BY <1>2 DEF DeleteEntity
  <2>2. [e[w] EXCEPT !.id = ID(w)] = e[w]
    BY <1>2 DEF Entity
  <2> QED BY <2>1, <2>2
<1>4. Destroys(w)
  BY <1>1 DEF Destroys
<1>5. CASE \E err \in Errors : Fail(w, err) /\ LocalStep
  BY <1>1, <1>3, <1>5, FailedWriteCInv
<1>6. CASE Write(w, ID(w), NoEntity)
  BY <1>1, <1>2, <1>3, <1>4, <1>6, WriteCInv
<1> QED BY <1>2, <1>5, <1>6 DEF DeleteEntity, Errors

-----------------------------------------------------------------------------
(* Callback c files v, which brings its copy up to date about x if that is *)
(* what is stored, and leaves the rest of the copies alone.                *)
LEMMA AppliedAgrees ==
  ASSUME IInv, NEW c \in Callbacks, NEW x \in Entities, NEW v, Apply(c, x, v),
         UNCHANGED store
  PROVE  /\ v = store[x] => AgreesOn(c, x)'
         /\ \A y \in Entities, b \in Callbacks :
              (y # x \/ b # c) /\ AgreesOn(b, y) => AgreesOn(b, y)'
<1>1. dm \in [Entities -> (SUBSET Groups) \cup {NoEntity}]
      /\ index \in [Entities -> Entity \cup {NoEntity}]
  BY DEF IInv, TypeOK
<1>2. CASE c = "entity-resolver"
  BY <1>1, <1>2 DEF Apply, AgreesOn, Callbacks
<1>3. CASE c # "entity-resolver"
  BY <1>1, <1>3 DEF Apply, AgreesOn, Callbacks
<1> QED BY <1>2, <1>3

(* Worker w leaves what the others are about to tell alone; what it was    *)
(* itself about to tell has been told, or still will be.                   *)
LEMMA TellingCInv ==
  ASSUME CInv, Serving, NEW w \in Workers, OthersStay(w),
         UNCHANGED <<store, bootTodo, raced>>, Backed(w)',
         \A x \in Entities \ raced, c \in Callbacks :
           AgreesOn(c, x) => AgreesOn(c, x)',
         \A x \in Entities \ raced, c \in Callbacks :
           WillTell(w, c, x) => AgreesOn(c, x)' \/ WillTell(w, c, x)'
  PROVE  CInv'
<1>1. Serving'
  BY DEF Serving
<1>2. ASSUME NEW u \in Workers PROVE Backed(u)'
  <2>1. CASE u = w
    BY <2>1
  <2>2. CASE u # w
    BY <2>2, OthersBacked
  <2> QED BY <2>1, <2>2
<1>3. ASSUME NEW x \in Entities \ raced, NEW c \in Callbacks
      PROVE  (AgreesOn(c, x) \/ \E u \in Workers : WillTell(u, c, x))'
  <2>1. CASE AgreesOn(c, x)
    BY <2>1
  <2>2. CASE WillTell(w, c, x)
    BY <2>2
  <2>3. CASE \E u \in Workers \ {w} : WillTell(u, c, x)
    BY <2>3, OthersTell
  <2> QED BY <2>1, <2>2, <2>3 DEF CInv, Told, Serving
<1> QED BY <1>1, <1>2, <1>3 DEF CInv, Told

(* What a worker that makes callbacks has to go by. *)
LEMMA TellingFacts ==
  ASSUME IInv, CInv, NEW w \in Workers, pc[w] \in Telling
  PROVE  /\ Serving /\ PK(w) \in Entities /\ Backed(w)
         /\ at[w] \in DOMAIN Chain(w)
<1>1. /\ pc[w] \in InChainStates /\ at[w] \in DOMAIN Chain(w)
      /\ Chain(w)[at[w]] \in {"save-entity", "destroy-entity"}
  BY DEF Telling, IInv, Placed, InChainStates
<1>2. PK(w) \in Entities
  BY <1>1, InChainFacts DEF HookFact, PK, IInv, Drafted
<1> QED BY <1>1, <1>2, BusyServing DEF CInv, Busy, Telling

(* The callback for a removal finds the ID gone from storage, too. *)
LEMMA CallbackRemoveCInv ==
  ASSUME IInv, CInv, NEW w \in Workers, NEW c \in Callbacks, CallbackRemove(w, c)
  PROVE  CInv'
<1> PICK k : k = PK(w)
  OBVIOUS
<1>1. /\ pc[w] = "notify" /\ Destroys(w) /\ Apply(c, k, NoEntity)
      /\ pending' = [pending EXCEPT ![w] = @ \ {c}]
      /\ UNCHANGED <<store, bootTodo, raced, pc, req, at, e, current, loaded>>
      /\ pending \in [Workers -> SUBSET Callbacks]
  BY DEF CallbackRemove, IInv, TypeOK
<1>2. Serving /\ k \in Entities /\ Backed(w)
  BY <1>1, TellingFacts DEF Telling
<1>3. OthersStay(w)
  BY <1>1 DEF OthersStay
<1>4. Backed(w)'
  BY <1>1, <1>2 DEF Backed, PK, Destroys, Chain
<1>5. \A y \in Entities, b \in Callbacks :
        (y # k \/ b # c) /\ AgreesOn(b, y) => AgreesOn(b, y)'
  BY <1>1, <1>2, AppliedAgrees
<1>6. k \notin raced => AgreesOn(c, k)'
  <2>1. k \notin raced => store[k] = NoEntity
    BY <1>1, <1>2 DEF Backed
  <2> QED BY <1>1, <1>2, <2>1, AppliedAgrees
<1>7. ASSUME NEW x \in Entities \ raced, NEW b \in Callbacks
      PROVE  /\ AgreesOn(b, x) => AgreesOn(b, x)'
             /\ WillTell(w, b, x) => AgreesOn(b, x)' \/ WillTell(w, b, x)'
  <2>1. CASE x = k /\ b = c
    BY <1>6, <2>1
  <2>2. CASE x # k
    BY <1>5, <2>2 DEF WillTell, Notifying, PK
  <2>3. CASE b # c
    BY <1>1, <1>5, <2>3 DEF WillTell, Notifying
  <2> QED BY <2>1, <2>2, <2>3
<1> QED BY <1>1, <1>2, <1>3, <1>4, <1>7, TellingCInv

(* The callback for an update loads what is stored. *)
LEMMA CallbackLoadCInv ==
  ASSUME LoadsSucceed, IInv, CInv, NEW w \in Workers, NEW c \in Callbacks,
         CallbackLoad(w, c)
  PROVE  CInv'
<1> PICK k : k = PK(w)
  OBVIOUS
<1>1. /\ pc[w] = "notify" /\ ~Destroys(w) /\ c \in pending[w]
      /\ pending' = [pending EXCEPT ![w] = @ \ {c}]
      /\ UNCHANGED <<store, dm, index, bootTodo, raced, req, at, e>>
      /\ pending \in [Workers -> SUBSET Callbacks]
      /\ pc \in [Workers -> {"idle", "hook", "number", "notify", "apply", "search", "done"}]
      /\ current \in [Workers -> Callbacks \cup {"none"}]
      /\ loaded \in [Workers -> Entity \cup {NoEntity}]
  BY DEF CallbackLoad, stateVars, IInv, TypeOK
<1>2. Serving /\ k \in Entities /\ Backed(w)
  BY <1>1, TellingFacts DEF Telling
<1>3. ASSUME NEW x \in Entities \ raced, NEW b \in Callbacks
      PROVE  AgreesOn(b, x) => AgreesOn(b, x)'
  BY <1>1 DEF AgreesOn
<1>4. Destroys(w)' = Destroys(w) /\ PK(w)' = k
  BY <1>1 DEF Destroys, Chain, PK
<1>5. CASE store[k] = NoEntity /\ UNCHANGED <<pc, current, loaded>>
  <2>1. OthersStay(w)
    BY <1>1, <1>5 DEF OthersStay
  <2>2. k \in raced
    BY <1>1, <1>2, <1>5 DEF Backed
  <2>3. Backed(w)'
    BY <1>1, <1>4, <1>5, <2>2 DEF Backed
  <2>4. ASSUME NEW x \in Entities \ raced, NEW b \in Callbacks
        PROVE  ~WillTell(w, b, x)
    BY <2>2 DEF WillTell, Notifying, PK
  <2> QED BY <1>1, <1>2, <1>3, <2>1, <2>3, <2>4, TellingCInv
<1>6. CASE /\ store[k] # NoEntity
           /\ pc' = [pc EXCEPT ![w] = "apply"]
           /\ current' = [current EXCEPT ![w] = c]
           /\ loaded' = [loaded EXCEPT ![w] = store[k]]
  <2>1. OthersStay(w)
    BY <1>1, <1>6 DEF OthersStay
  <2>2. /\ pc'[w] = "apply" /\ current'[w] = c /\ loaded'[w] = store[k]
        /\ pending'[w] = pending[w] \ {c}
    BY <1>1, <1>6
  <2>3. store[k].id = k
    BY <1>2, <1>6 DEF IInv, StoredUnderOwnKey, Stored
  <2>4. Backed(w)'
    BY <1>1, <1>4, <1>6, <2>2, <2>3 DEF Backed
  <2>5. ASSUME NEW x \in Entities \ raced, NEW b \in Callbacks, WillTell(w, b, x)
        PROVE  WillTell(w, b, x)'
    <3>1. x = k /\ b \in pending[w]
      BY <1>1, <2>5 DEF WillTell, Notifying, PK
    <3>2. Notifying(w, x)'
      BY <1>1, <2>2, <3>1 DEF Notifying, PK
    <3> QED BY <1>1, <2>2, <3>1, <3>2 DEF WillTell
  <2> QED BY <1>1, <1>2, <1>3, <2>1, <2>4, <2>5, TellingCInv
<1> QED BY <1>5, <1>6 DEF CallbackLoad, LoadsSucceed

(* ... and files it. *)
LEMMA CallbackApplyCInv ==
  ASSUME IInv, CInv, NEW w \in Workers, CallbackApply(w) PROVE CInv'
<1> PICK k, c : k = PK(w) /\ c = current[w]
  OBVIOUS
<1>1. /\ pc[w] = "apply" /\ Apply(c, loaded[w].id, loaded[w])
      /\ pc' = [pc EXCEPT ![w] = "notify"] /\ current' = [current EXCEPT ![w] = "none"]
      /\ loaded' = [loaded EXCEPT ![w] = NoEntity]
      /\ UNCHANGED <<store, bootTodo, raced, req, at, e, pending>>
      /\ pc \in [Workers -> {"idle", "hook", "number", "notify", "apply", "search", "done"}]
      /\ current \in [Workers -> Callbacks \cup {"none"}]
      /\ loaded \in [Workers -> Entity \cup {NoEntity}]
  BY DEF CallbackApply, IInv, TypeOK
<1>2. Serving /\ k \in Entities /\ Backed(w) /\ c \in Callbacks /\ loaded[w] \in Entity
  BY <1>1, TellingFacts DEF Telling, IInv, Placed
<1>3. loaded[w].id = k /\ ~Destroys(w) /\ (k \notin raced => loaded[w] = store[k])
  BY <1>1, <1>2 DEF Backed
<1>4. OthersStay(w)
  BY <1>1 DEF OthersStay
<1>5. Backed(w)'
  <2>1. Destroys(w)' = Destroys(w) /\ PK(w)' = k /\ pc'[w] = "notify"
    BY <1>1 DEF Destroys, Chain, PK
  <2>2. k \notin raced => store[k] # NoEntity
    BY <1>1, <1>2, <1>3 DEF Backed
  <2> QED BY <1>1, <1>3, <2>1, <2>2 DEF Backed
<1>6. Apply(c, k, loaded[w])
  BY <1>1, <1>3
<1>7. /\ k \notin raced => AgreesOn(c, k)'
      /\ \A y \in Entities, b \in Callbacks :
           (y # k \/ b # c) /\ AgreesOn(b, y) => AgreesOn(b, y)'
  BY <1>1, <1>2, <1>3, <1>6, AppliedAgrees
<1>8. ASSUME NEW x \in Entities \ raced, NEW b \in Callbacks
      PROVE  /\ AgreesOn(b, x) => AgreesOn(b, x)'
             /\ WillTell(w, b, x) => AgreesOn(b, x)' \/ WillTell(w, b, x)'
  <2>1. CASE x = k /\ b = c
    BY <1>7, <2>1
  <2>2. CASE x # k
    BY <1>7, <2>2 DEF WillTell, Notifying, PK
  <2>3. CASE b # c
    BY <1>1, <1>7, <2>3 DEF WillTell, Notifying
  <2> QED BY <2>1, <2>2, <2>3
<1> QED BY <1>1, <1>2, <1>4, <1>5, <1>8, TellingCInv

(* When every callback has returned there is nothing left to tell. *)
LEMMA FinishWriteCInv ==
  ASSUME IInv, CInv, NEW w \in Workers, FinishWrite(w) PROVE CInv'
<1>1. /\ pc[w] = "notify" /\ pending[w] = {} /\ pc'[w] = "hook"
      /\ UNCHANGED <<store, dm, index, bootTodo, raced>>
  BY DEF FinishWrite, Advance, stateVars, IInv, TypeOK
<1>2. OthersStay(w)
  BY DEF FinishWrite, Advance, IInv, TypeOK, OthersStay
<1>3. Serving /\ Backed(w)'
  BY <1>1, TellingFacts DEF Telling, Backed
<1>4. ASSUME NEW x \in Entities \ raced, NEW c \in Callbacks
      PROVE  (AgreesOn(c, x) => AgreesOn(c, x)') /\ ~WillTell(w, c, x)
  BY <1>1 DEF AgreesOn, WillTell
<1> QED BY <1>1, <1>2, <1>3, <1>4, TellingCInv

-----------------------------------------------------------------------------
(* A crash: the copies are empty, and everything stored has to be told.    *)
LEMMA CrashCInv == ASSUME Crash PROVE CInv'
<1>1. ASSUME NEW x \in Entities, NEW c \in Callbacks
      PROVE  (AgreesOn(c, x) \/ <<x, c>> \in bootTodo)'
  BY DEF Crash, AgreesOn, Stored
<1>2. ASSUME NEW w \in Workers PROVE pc'[w] = "idle" /\ Backed(w)'
  BY DEF Crash, Backed
<1> QED BY <1>1, <1>2 DEF CInv, Told

(* EventUpdateAll, at one callback. *)
LEMMA PreloadCInv ==
  ASSUME LoadsSucceed, IInv, CInv, NEW x \in Entities, NEW c \in Callbacks, Preload(x, c)
  PROVE  CInv'
<1>1. /\ Apply(c, x, store[x]) /\ bootTodo' = bootTodo \ {<<x, c>>} /\ bootTodo # {}
      /\ UNCHANGED <<store, raced, pc, e, at, req, pending, current, loaded>>
  BY DEF Preload, LoadsSucceed, workerVars
<1>2. \A w \in Workers : pc[w] = "idle" /\ pc'[w] = "idle"
  BY <1>1 DEF CInv, Serving
<1>3. \A w \in Workers : Backed(w)'
  BY <1>2 DEF Backed
<1>4. /\ AgreesOn(c, x)'
      /\ \A y \in Entities, b \in Callbacks :
           (y # x \/ b # c) /\ AgreesOn(b, y) => AgreesOn(b, y)'
  BY <1>1, AppliedAgrees
<1>5. ASSUME NEW y \in Entities \ raced', NEW b \in Callbacks
      PROVE  (AgreesOn(b, y) \/ <<y, b>> \in bootTodo)'
  <2>1. AgreesOn(b, y) \/ <<y, b>> \in bootTodo
    <3>1. \A w \in Workers : ~WillTell(w, b, y)
      BY <1>2 DEF WillTell, Notifying
    <3> QED BY <1>1, <3>1 DEF CInv, Told
  <2>2. CASE y = x /\ b = c
    BY <1>4, <2>2
  <2>3. CASE y # x \/ b # c
    BY <1>1, <1>4, <2>1, <2>3
  <2> QED BY <2>2, <2>3
<1> QED BY <1>2, <1>3, <1>5 DEF CInv, Told

(* The invariant is inductive. *)
LEMMA NextCInv ==
  ASSUME LoadsSucceed
  PROVE  IInv /\ CInv /\ [Next]_vars => CInv'
<1> SUFFICES ASSUME IInv, CInv, [Next]_vars PROVE CInv'
  OBVIOUS
<1>1. ASSUME NEW w \in Workers, WorkerStep(w) PROVE CInv'
  BY <1>1, LocalCInv, SaveEntityCInv, DeleteEntityCInv, CallbackRemoveCInv,
     CallbackLoadCInv, CallbackApplyCInv, FinishWriteCInv DEF WorkerStep
<1>2. CASE UNCHANGED vars
  BY <1>2 DEF vars, stateVars, workerVars, CInv, Told, AgreesOn, WillTell, Notifying,
              Backed, Destroys, Chain, PK, Serving
<1> QED
  BY <1>1, <1>2, ArrivalCInv, PreloadCInv, CrashCInv DEF Next, Boot

(* The copies in memory agree with storage about every ID that no callback *)
(* is under way for, unless its last write came while callbacks for an     *)
(* earlier one ran: whatever the goroutines do at once, and across crashes *)
(* that empty the copies.                                                  *)
THEOREM CopiesAgree ==
  ASSUME LoadsSucceed
  PROVE  Spec => []CopiesCoherent
<1>1. ASSUME CInv, Serving, NEW x \in Entities \ raced,
             \A w \in Workers : ~Notifying(w, x)
      PROVE  Agrees(x)
  <2>1. AgreesOn("entity-resolver", x) /\ AgreesOn("BleveSearch", x)
    BY <1>1 DEF CInv, Told, WillTell, Serving, Callbacks
  <2> QED BY <2>1 DEF AgreesOn, Agrees
<1>2. CInv => CopiesCoherent
  BY <1>1 DEF CopiesCoherent
<1>3. Spec => []CInv
  BY InitCInv, NextCInv, Invariance, PTL DEF Spec
<1> QED BY <1>2, <1>3, PTL

-----------------------------------------------------------------------------
(***************************************************************************)
(* Searches next to changes.  What is in change now is among what a search *)
(* counts as touched; an ID that is not has its index entry right when the *)
(* search begins, and no write can come for it without touching it.        *)
(***************************************************************************)
Found(w) ==
  Searches(w) =>
    /\ Unsettled \subseteq touched[w]
    /\ \A x \in todo[w] \ touched[w] : store[x] # NoEntity

TouchInv ==
  /\ touched \in [Workers -> SUBSET Entities]
  /\ \A w \in Workers : Found(w)

LEMMA InitTouchInv == SearchInit => TouchInv
BY DEF SearchInit, Init, TouchInv, Found, Searches

(* A write puts its ID in change.                                          *)
LEMMA WritesTouch ==
  ASSUME IInv, NEW u \in Workers, WorkerStep(u), NEW x \in Entities, store'[x] # store[x]
  PROVE  x \in Unsettled'
<1>1. ASSUME NEW y \in Entities, NEW v, Write(u, y, v), e'[u].id = y PROVE x \in Unsettled'
  <2>1. y = x
    BY <1>1 DEF Write, IInv, TypeOK
  <2>2. pc'[u] = "notify"
    BY <1>1 DEF Write, IInv, TypeOK
  <2> QED BY <1>1, <2>1, <2>2 DEF Unsettled, Notifying
<1>2. CASE SaveEntity(u)
  <2>1. InChain(u, "save-entity")
    BY <1>2 DEF SaveEntity
  <2>2. e[u] \in Entity /\ e[u].id \in Entities
    BY <2>1, InChainFacts DEF InChain, InChainStates, HookFact, IInv, Drafted
  <2> QED BY <1>1, <1>2, <2>2 DEF SaveEntity, LocalStep, stateVars
<1>3. CASE DeleteEntity(u)
  <2>1. InChain(u, "destroy-entity")
    BY <1>3 DEF DeleteEntity
  <2>2. ID(u) \in Entities /\ e[u].id = ID(u) /\ e[u] \in Entity
    BY <2>1, InChainFacts DEF InChain, InChainStates, HookFact, IInv, Drafted
  <2>3. e' = [e EXCEPT ![u].id = ID(u)]
    BY <1>3, <2>2 DEF DeleteEntity
  <2>4. e'[u].id = ID(u)
    BY <2>2, <2>3 DEF IInv, TypeOK, Entity
  <2>5. store' = store \/ Write(u, ID(u), NoEntity)
    BY <1>3, <2>2 DEF DeleteEntity, LocalStep, stateVars
  <2> QED BY <1>1, <2>2, <2>4, <2>5
<1>4. CASE \/ LoadEntity(u) \/ FailOnExistingEntity(u) \/ SetEntityNumber(u)
           \/ AssignNumber(u) \/ FinishSearch(u)
           \/ \E y \in Entities : ScanNumber(u, y) \/ SearchLoad(u, y)
           \/ \E h \in Hooks \ StorageHooks : RunHook(u, h)
  BY <1>4 DEF LoadEntity, FailOnExistingEntity, SetEntityNumber, AssignNumber,
              FinishSearch, ScanNumber, SearchLoad, RunHook, LocalStep, stateVars
<1>5. CASE \/ \E c \in Callbacks : CallbackRemove(u, c) \/ CallbackLoad(u, c)
           \/ CallbackApply(u) \/ FinishWrite(u) \/ FinishChain(u) \/ Return(u)
  BY <1>5 DEF CallbackRemove, CallbackLoad, CallbackApply, FinishWrite, FinishChain,
              Return, stateVars
<1> QED BY <1>2, <1>3, <1>4, <1>5 DEF WorkerStep

(* A search that goes on has nothing new to load.                          *)
LEMMA SearchGoesOn ==
  ASSUME IInv, NEW u \in Workers, WorkerStep(u), NEW w \in Workers, Searches(w)'
  PROVE  Searches(w) /\ todo'[w] \subseteq todo[w]
<1>1. CASE u # w
  <2>1. pc'[w] = pc[w] /\ req'[w] = req[w] /\ todo'[w] = todo[w]
    <3>1. CASE \/ LoadEntity(u) \/ FailOnExistingEntity(u) \/ SetEntityNumber(u)
               \/ AssignNumber(u) \/ FinishSearch(u)
      BY <1>1, <3>1 DEF LoadEntity, FailOnExistingEntity, SetEntityNumber, AssignNumber,
              FinishSearch, Advance, Fail, LocalStep, IInv, TypeOK
    <3>2. CASE \/ \E y \in Entities : ScanNumber(u, y) \/ SearchLoad(u, y)
               \/ \E h \in Hooks \ StorageHooks : RunHook(u, h)
      BY <1>1, <3>2 DEF ScanNumber, SearchLoad, RunHook, Advance, Fail, LocalStep, IInv,
              TypeOK
    <3>3. CASE SaveEntity(u) \/ DeleteEntity(u)
      BY <1>1, <3>3 DEF SaveEntity, DeleteEntity, Write, Fail, LocalStep, IInv, TypeOK
    <3>4. CASE \/ \E c \in Callbacks : CallbackRemove(u, c) \/ CallbackLoad(u, c)
               \/ CallbackApply(u) \/ FinishWrite(u) \/ FinishChain(u) \/ Return(u)
      BY <1>1, <3>4 DEF CallbackRemove, CallbackLoad, CallbackApply, FinishWrite,
              FinishChain, Return, Advance, IInv, TypeOK
    <3> QED BY <3>1, <3>2, <3>3, <3>4 DEF WorkerStep
  <2> QED BY <2>1 DEF Searches
<1>2. CASE u = w
  <2>1. ~Return(w)
    BY DEF Return, Searches, IInv, TypeOK
  <2>2. req'[w] = req[w] /\ pc[w] # "idle"
    BY <1>2, <2>1 DEF WorkerStep, LoadEntity, FailOnExistingEntity, SetEntityNumber,
        ScanNumber, AssignNumber, RunHook, SaveEntity, DeleteEntity, CallbackRemove,
        CallbackLoad, CallbackApply, FinishWrite, FinishChain, SearchLoad, FinishSearch,
        InChain, LocalStep, Write
  <2>3. Searches(w)
    BY <2>2 DEF Searches
  <2>4. pc[w] \in {"search", "done"}
    BY <2>3, RequestFacts, SearchIsNoChain DEF Searches, IInv, TypeOK, Placed, InChainStates
  <2>5. (\E x \in Entities : SearchLoad(w, x)) \/ FinishSearch(w)
    BY <1>2, <2>1, <2>4 DEF WorkerStep, LoadEntity, FailOnExistingEntity, SetEntityNumber,
        ScanNumber, AssignNumber, RunHook, SaveEntity, DeleteEntity, CallbackRemove,
        CallbackLoad, CallbackApply, FinishWrite, FinishChain, InChain
  <2>6. todo'[w] \subseteq todo[w]
    BY <2>5 DEF SearchLoad, FinishSearch, IInv, TypeOK
  <2> QED BY <2>3, <2>6
<1> QED BY <1>1, <1>2

(* Searches that are under way stay right, and new ones begin right.       *)
LEMMA NextTouchInv ==
  IInv /\ IInv' /\ CInv /\ TouchInv /\ [SearchNext]_searchVars => TouchInv'
<1> SUFFICES ASSUME IInv, IInv', CInv, TouchInv, [SearchNext]_searchVars PROVE TouchInv'
  OBVIOUS
<1>1. CASE UNCHANGED searchVars
  BY <1>1 DEF searchVars, vars, stateVars, workerVars, TouchInv, Found, Searches,
              Unsettled, Notifying
<1>2. CASE SearchNext
  <2>1. Unsettled' \subseteq Entities
    BY DEF Unsettled, IInv, TypeOK
  <2>2. /\ touched' = [w \in Workers |-> IF Searches(w)' THEN touched[w] \cup Unsettled' ELSE {}]
        /\ touched' \in [Workers -> SUBSET Entities]
    BY <1>2, <2>1 DEF SearchNext, TouchInv
  <2>3. ASSUME NEW w \in Workers, Searches(w)', NEW x \in todo'[w] \ touched'[w]
        PROVE  store'[x] # NoEntity
    <3>1. /\ x \in Entities /\ x \notin Unsettled' /\ x \notin touched[w]
      BY <2>2, <2>3 DEF IInv, TypeOK
    <3>2. CASE \E u \in Workers : WorkerStep(u)
      <4>1. PICK u \in Workers : WorkerStep(u)
        BY <3>2
      <4>2. Searches(w) /\ x \in todo[w]
        BY <2>3, <4>1, SearchGoesOn
      <4>3. store'[x] = store[x]
        BY <3>1, <4>1, WritesTouch
      <4> QED BY <3>1, <4>2, <4>3 DEF TouchInv, Found
    <3>3. CASE \E u \in Workers, r \in Requests : Begin(u, r)
      <4>1. PICK u \in Workers, r \in Requests : Begin(u, r)
        BY <3>3
      <4>2. Searches(w) /\ todo' = todo /\ store' = store
        <5>1. req'[u] = r /\ r.chain # "SEARCH"
          BY <4>1, RequestFacts, SearchIsNoChain DEF Begin, IInv, TypeOK
        <5> QED BY <2>3, <4>1, <5>1 DEF Begin, Searches, stateVars, IInv, TypeOK
      <4> QED BY <2>3, <3>1, <4>2 DEF TouchInv, Found
    <3>4. CASE \E u \in Workers : BeginSearch(u)
      <4>1. PICK u \in Workers : BeginSearch(u)
        BY <3>4
      <4>2. CASE u # w
        BY <2>3, <3>1, <4>1, <4>2
           DEF BeginSearch, Searches, stateVars, IInv, TypeOK, TouchInv, Found
      <4>3. CASE u = w
        <5>1. Serving /\ index[x] # NoEntity /\ store' = store
          BY <2>3, <4>1, <4>3 DEF BeginSearch, stateVars, IInv, TypeOK
        <5>2. x \notin raced /\ \A v \in Workers : ~Notifying(v, x)
          BY <3>1, <4>1 DEF Unsettled, Notifying, BeginSearch, Busy, IInv, TypeOK
        <5>3. AgreesOn("BleveSearch", x)
          BY <3>1, <5>1, <5>2 DEF CInv, Told, WillTell, Serving, Callbacks
        <5> QED BY <5>1, <5>3 DEF AgreesOn
      <4> QED BY <4>2, <4>3
    <3>5. CASE Boot
      <4>1. UNCHANGED <<store, workerVars>> /\ ~Serving
        BY <3>5 DEF Boot, Preload, Serving
      <4>2. pc[w] = "idle"
        BY <4>1 DEF CInv
      <4> QED BY <2>3, <4>1, <4>2 DEF Searches, workerVars
    <3>6. ~Crash
      BY <2>3 DEF Crash, Searches
    <3> QED BY <1>2, <3>2, <3>3, <3>4, <3>5, <3>6 DEF SearchNext, Next
  <2> QED BY <2>2, <2>3 DEF TouchInv, Found
<1> QED BY <1>1, <1>2

(* A search fails only on an entity that somebody changes meanwhile,       *)
(* whatever else any number of goroutines do next to it, and across        *)
(* crashes.                                                                *)
THEOREM SearchesFindUntouched ==
  ASSUME LoadsSucceed
  PROVE  SearchSpec => []UntouchedAreFound
<1>1. SearchInit => Init /\ TouchInv
  BY InitTouchInv DEF SearchInit
<1>2. [SearchNext]_searchVars => [Next]_vars
  BY DEF SearchNext, searchVars
<1>3. SearchSpec => Spec
  BY <1>1, <1>2, PTL DEF SearchSpec, Spec
<1>4. SearchSpec => []IInv
  BY <1>3, Invariance, PTL
<1>5. SearchSpec => []CInv
  BY <1>3, <1>4, InitCInv, NextCInv, PTL DEF Spec
<1>6. TouchInv => UntouchedAreFound
  BY DEF TouchInv, Found, UntouchedAreFound
<1> QED BY <1>1, <1>4, <1>5, <1>6, NextTouchInv, PTL DEF SearchSpec

=============================================================================
