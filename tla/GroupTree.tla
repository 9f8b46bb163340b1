------------------------------ MODULE GroupTree -----------------------------
(***************************************************************************)
(* The group half of the tree: concurrent requests run their chains hook   *)
(* by hook over storage.  Nothing is locked between the hooks that check   *)
(* and the one that saves, and the check for cycles loads the groups below *)
(* the target one after the other.  What the callbacks of a write do is in *)
(* module Membership; reads of storage succeed here, writes may fail.      *)
(***************************************************************************)
EXTENDS GroupCalls

CONSTANTS
  Workers,       \* the goroutines that serve requests
  Requests,      \* the requests that clients make
  Populations,   \* what may be in storage at the start
  Faults,        \* the calls of the back end that can fail: "put", "del"
  Exclusive,     \* whether clients keep conflicting requests apart
  MaxAutoNumber  \* bound: no number is assigned once one this large is stored

ASSUME GroupRequestsAssumption == Requests \subseteq GroupRequest

ASSUME GroupPopulationsAssumption ==
  \A p \in Populations :
    /\ p \in [Groups -> Group \cup {NoGroup}]
    /\ \A n \in Groups : p[n] # NoGroup =>
         /\ p[n].name = n
         /\ \A t \in Targets(p[n].rules) : p[t] # NoGroup

ASSUME GroupOptionsAssumption ==
  Faults \subseteq {"put", "del"} /\ Exclusive \in BOOLEAN /\ MaxAutoNumber \in Nat

VARIABLES
  store,    \* the group stored under each name, or NoGroup
  pc,       \* what each worker is doing
  req,      \* the request each worker serves
  at,       \* the position of the hook that each worker runs next
  draft,    \* the group each worker builds
  todo,     \* the names that a worker has still to load for a number
  largest,  \* the largest number a worker has found
  walk,     \* the check for cycles: what is left of each level, deepest first
  reply,    \* what the worker answers
  gone      \* history: the groups that were ever destroyed

workerVars == <<pc, req, at, draft, todo, largest, walk, reply>>
vars == <<store, workerVars, gone>>

-----------------------------------------------------------------------------
NoRequest == [chain |-> "NONE"]

GroupErrors == {"unknown", "duplicate", "existing-expansion", "unknown-capability",
                "precondition", "key-exists", "no-key", "internal"}

Stored == {n \in Groups : store[n] # NoGroup}

Busy(w) == pc[w] # "idle"
Chain(w) == GroupChain[req[w].chain]
InChain(w, h) ==
  pc[w] = "hook" /\ at[w] \in DOMAIN Chain(w) /\ Chain(w)[at[w]] = h

Name(w)  == req[w].dg.name
Child(w) == req[w].dg.rule.target

TypeOK ==
  /\ store \in [Groups -> Group \cup {NoGroup}]
  /\ pc \in [Workers -> {"idle", "hook", "number", "cycle", "done"}]
  /\ req \in [Workers -> Requests \cup {NoRequest}]
  /\ at \in [Workers -> 1..7]
  /\ draft \in [Workers -> Group]
  /\ todo \in [Workers -> SUBSET Groups]
  /\ largest \in [Workers -> 0..MaxInt32]
  /\ walk \in [Workers -> Seq(SUBSET Groups)]
  /\ reply \in [Workers -> {"none", "ok"} \cup GroupErrors]
  /\ gone \subseteq Groups

Init ==
  /\ store \in Populations
  /\ pc = [w \in Workers |-> "idle"]
  /\ req = [w \in Workers |-> NoRequest]
  /\ at = [w \in Workers |-> 1]
  /\ draft = [w \in Workers |-> BlankGroup]
  /\ todo = [w \in Workers |-> {}]
  /\ largest = [w \in Workers |-> 0]
  /\ walk = [w \in Workers |-> <<>>]
  /\ reply = [w \in Workers |-> "none"]
  /\ gone = {}

-----------------------------------------------------------------------------
(* The chains that change, or look at, more than the group they name. *)
Structural == {"CREATE", "DESTROY", "MODIFY_EXPANSIONS"}

Conflict(r, s) ==
  \/ r.dg.name = s.dg.name
  \/ r.chain \in Structural /\ s.chain \in Structural

InBounds(r) ==
  r.chain = "CREATE" /\ r.dg.number = AutoNumber =>
    \A n \in Stored : store[n].number < MaxAutoNumber

Admissible(r) ==
  Exclusive => \A v \in Workers : Busy(v) => ~Conflict(req[v], r)

Begin(w, r) ==
  /\ ~Busy(w) /\ Admissible(r) /\ InBounds(r)
  /\ pc' = [pc EXCEPT ![w] = "hook"]
  /\ req' = [req EXCEPT ![w] = r]
  /\ UNCHANGED <<store, at, draft, todo, largest, walk, reply, gone>>

Advance(w) ==
  /\ pc' = [pc EXCEPT ![w] = "hook"]
  /\ at' = [at EXCEPT ![w] = @ + 1]
  /\ UNCHANGED reply

Fail(w, err) ==
  /\ pc' = [pc EXCEPT ![w] = "done"]
  /\ reply' = [reply EXCEPT ![w] = err]
  /\ UNCHANGED at

LocalStep == UNCHANGED <<store, req, gone>>

(* Variant: the error of the load is dropped. *)
LoadGroupUnchecked(w) ==
  /\ InChain(w, "load-group")
  /\ draft' = [draft EXCEPT ![w] = store[Name(w)]] /\ Advance(w)
  /\ LocalStep /\ UNCHANGED <<todo, largest, walk>>

LoadGroup(w) ==
  /\ InChain(w, "load-group")
  /\ IF store[Name(w)] = NoGroup
       THEN Fail(w, "unknown") /\ UNCHANGED draft
       ELSE draft' = [draft EXCEPT ![w] = store[Name(w)]] /\ Advance(w)
  /\ LocalStep /\ UNCHANGED <<todo, largest, walk>>

FailOnExistingGroup(w) ==
  /\ InChain(w, "fail-on-existing-group")
  /\ IF store[Name(w)] # NoGroup THEN Fail(w, "duplicate") ELSE Advance(w)
  /\ LocalStep /\ UNCHANGED <<draft, todo, largest, walk>>

(* A group may manage itself; any other manager must be stored. *)
SetManagingGroup(w) ==
  LET d == req[w].dg
  IN  /\ InChain(w, "set-managing-group")
      /\ IF ManagerKnown(d, store)
           THEN /\ draft' = [draft EXCEPT ![w].managedBy =
                               IF d.managedBy \in {Unmanaged, Absent} THEN @ ELSE d.managedBy]
                /\ Advance(w)
           ELSE Fail(w, "unknown") /\ UNCHANGED draft
      /\ LocalStep /\ UNCHANGED <<todo, largest, walk>>

(* NextGroupNumber lists the names, ...                                    *)
SetGroupNumber(w) ==
  /\ InChain(w, "set-group-number")
  /\ IF req[w].dg.number = AutoNumber
       THEN /\ pc' = [pc EXCEPT ![w] = "number"]
            /\ todo' = [todo EXCEPT ![w] = Stored]
            /\ UNCHANGED <<at, draft, reply>>
       ELSE /\ draft' = [draft EXCEPT ![w].number = req[w].dg.number]
            /\ Advance(w) /\ UNCHANGED todo
  /\ LocalStep /\ UNCHANGED <<largest, walk>>

(* ... loads each of them, ...                                             *)
ScanNumber(w, n) ==
  /\ pc[w] = "number" /\ n \in todo[w]
  /\ IF store[n] = NoGroup
       THEN Fail(w, "unknown") /\ UNCHANGED <<todo, largest>>
       ELSE /\ todo' = [todo EXCEPT ![w] = @ \ {n}]
            /\ largest' = [largest EXCEPT ![w] =
                             IF store[n].number > @ THEN store[n].number ELSE @]
            /\ UNCHANGED <<pc, at, reply>>
  /\ LocalStep /\ UNCHANGED <<draft, walk>>

(* Variant: the largest number itself. *)
AssignLargest(w) ==
  /\ pc[w] = "number" /\ todo[w] = {}
  /\ draft' = [draft EXCEPT ![w].number = largest[w]]
  /\ Advance(w)
  /\ LocalStep /\ UNCHANGED <<todo, largest, walk>>

(* ... and returns one more than the largest number it saw.                *)
AssignNumber(w) ==
  /\ pc[w] = "number" /\ todo[w] = {}
  /\ draft' = [draft EXCEPT ![w].number = Increment(largest[w])]
  /\ Advance(w)
  /\ LocalStep /\ UNCHANGED <<todo, largest, walk>>

(* Any hook that works on the draft alone. *)
RunGroupHook(w, h) ==
  LET err == GroupHookError(h, draft[w], req[w].dg)
  IN  /\ InChain(w, h)
      /\ IF err # "none"
           THEN Fail(w, err) /\ UNCHANGED draft
           ELSE draft' = [draft EXCEPT ![w] = GroupHookResult(h, @, req[w].dg)] /\ Advance(w)
      /\ LocalStep /\ UNCHANGED <<todo, largest, walk>>

-----------------------------------------------------------------------------
(***************************************************************************)
(* check-expansion-cycles loads the target and walks the groups below it,  *)
(* depth first, looking for the group that is to be changed.               *)
(***************************************************************************)
CheckExpansionCycles(w) ==
  /\ InChain(w, "check-expansion-cycles")
  /\ IF ~Proposes(req[w].dg)
       THEN Advance(w) /\ UNCHANGED walk
       ELSE IF store[Child(w)] = NoGroup
              THEN Fail(w, "unknown") /\ UNCHANGED walk
              ELSE /\ pc' = [pc EXCEPT ![w] = "cycle"]
                   /\ walk' = [walk EXCEPT ![w] = <<Targets(store[Child(w)].rules)>>]
                   /\ UNCHANGED <<at, reply>>
  /\ LocalStep /\ UNCHANGED <<draft, todo, largest>>

(* Variant: only the rules of the target itself are looked at. *)
VisitShallow(w, t) ==
  /\ pc[w] = "cycle" /\ t \in Head(walk[w])
  /\ IF t = draft[w].name
       THEN Fail(w, "existing-expansion") /\ walk' = [walk EXCEPT ![w] = <<>>]
       ELSE /\ walk' = [walk EXCEPT ![w] = <<Head(@) \ {t}>> \o Tail(@)]
            /\ UNCHANGED <<pc, at, reply>>
  /\ LocalStep /\ UNCHANGED <<draft, todo, largest>>

(* Variant: a level that is done is started again. *)
VisitAgain(w, t) ==
  /\ pc[w] = "cycle" /\ t \in Head(walk[w])
  /\ UNCHANGED <<pc, at, reply, walk>>
  /\ LocalStep /\ UNCHANGED <<draft, todo, largest>>

Visit(w, t) ==
  /\ pc[w] = "cycle" /\ t \in Head(walk[w])
  /\ IF t = draft[w].name \/ store[t] = NoGroup
       THEN Fail(w, "existing-expansion") /\ walk' = [walk EXCEPT ![w] = <<>>]
       ELSE /\ walk' = [walk EXCEPT ![w] =
                          <<Targets(store[t].rules), Head(@) \ {t}>> \o Tail(@)]
            /\ UNCHANGED <<pc, at, reply>>
  /\ LocalStep /\ UNCHANGED <<draft, todo, largest>>

(* A level without anything left returns to the one above. *)
Ascend(w) ==
  /\ pc[w] = "cycle" /\ Head(walk[w]) = {}
  /\ walk' = [walk EXCEPT ![w] = Tail(@)]
  /\ IF Tail(walk[w]) = <<>> THEN Advance(w) ELSE UNCHANGED <<pc, at, reply>>
  /\ LocalStep /\ UNCHANGED <<draft, todo, largest>>

CheckExpansionTargets(w) ==
  /\ InChain(w, "check-expansion-targets")
  /\ IF Proposes(req[w].dg) /\ store[Child(w)] = NoGroup
       THEN Fail(w, "unknown") ELSE Advance(w)
  /\ LocalStep /\ UNCHANGED <<draft, todo, largest, walk>>

-----------------------------------------------------------------------------
SaveGroup(w) ==
  /\ InChain(w, "save-group")
  /\ \/ "put" \in Faults /\ Fail(w, "internal") /\ UNCHANGED store
     \/ store' = [store EXCEPT ![draft[w].name] = draft[w]] /\ Advance(w)
  /\ UNCHANGED <<req, draft, todo, largest, walk, gone>>

(* Variant: the answer of the back end is not looked at. *)
DestroyUnchecked(w) ==
  /\ InChain(w, "destroy-group")
  /\ store' \in {store, [store EXCEPT ![draft[w].name] = NoGroup]}
  /\ gone' = gone \cup {draft[w].name}
  /\ Advance(w)
  /\ UNCHANGED <<req, draft, todo, largest, walk>>

(* A back end may or may not mind that the group is gone already. *)
DestroyGroupHook(w) ==
  LET n == IF draft[w].name = NoID THEN Name(w) ELSE draft[w].name
  IN  /\ InChain(w, "destroy-group")
      /\ draft' = [draft EXCEPT ![w].name = n]
      /\ \/ /\ store[n] = NoGroup \/ "del" \in Faults
            /\ Fail(w, "internal") /\ UNCHANGED <<store, gone>>
         \/ /\ store' = [store EXCEPT ![n] = NoGroup]
            /\ gone' = gone \cup {n}
            /\ Advance(w)
      /\ UNCHANGED <<req, todo, largest, walk>>

FinishChain(w) ==
  /\ pc[w] = "hook" /\ at[w] > Len(Chain(w))
  /\ pc' = [pc EXCEPT ![w] = "done"]
  /\ reply' = [reply EXCEPT ![w] = "ok"]
  /\ LocalStep /\ UNCHANGED <<at, draft, todo, largest, walk>>

Return(w) ==
  /\ pc[w] = "done"
  /\ pc' = [pc EXCEPT ![w] = "idle"]
  /\ req' = [req EXCEPT ![w] = NoRequest]
  /\ at' = [at EXCEPT ![w] = 1]
  /\ draft' = [draft EXCEPT ![w] = BlankGroup]
  /\ todo' = [todo EXCEPT ![w] = {}]
  /\ largest' = [largest EXCEPT ![w] = 0]
  /\ reply' = [reply EXCEPT ![w] = "none"]
  /\ UNCHANGED <<store, walk, gone>>

WorkerStep(w) ==
  \/ LoadGroup(w) \/ FailOnExistingGroup(w) \/ SetManagingGroup(w)
  \/ SetGroupNumber(w)
  \/ \E n \in Groups : ScanNumber(w, n)
  \/ AssignNumber(w)
  \/ \E h \in GroupDraftHooks : RunGroupHook(w, h)
  \/ CheckExpansionCycles(w)
  \/ \E t \in Groups : Visit(w, t)
  \/ Ascend(w)
  \/ CheckExpansionTargets(w)
  \/ SaveGroup(w) \/ DestroyGroupHook(w)
  \/ FinishChain(w) \/ Return(w)

Next ==
  \/ \E w \in Workers : WorkerStep(w)
  \/ \E w \in Workers, r \in Requests : Begin(w, r)

Spec == Init /\ [][Next]_vars

(* Go runs every goroutine; clients may stop asking. *)
FairSpec == Spec /\ \A w \in Workers : WF_vars(WorkerStep(w))

-----------------------------------------------------------------------------
(* The groups that g can be reached from, or reach, by one rule or more.   *)
Reach(g) ==
  LET within[n \in 0..Cardinality(Groups)] ==
        IF n = 0 THEN {}
        ELSE UNION {Targets(store[h].rules) : h \in (within[n - 1] \cup {g}) \cap Stored}
  IN  within[Cardinality(Groups)]

(* No group takes in, or leaves out, itself by way of its rules: the walk  *)
(* over rules ends.                                                        *)
RulesAcyclic == \A g \in Stored : g \notin Reach(g)

(* A rule names a group that exists, or that existed and was destroyed:    *)
(* no interleaving of the checks and the save makes a rule about a group   *)
(* that there never was.                                                   *)
RuleTargetsKnown ==
  \A g \in Stored : Targets(store[g].rules) \subseteq Stored \cup gone

(* No two groups have the same number. *)
GroupNumbersUnique ==
  \A g, h \in Stored : store[g].number = store[h].number => g = h

(* Every request is answered: the walk over the rules ends, too. *)
GroupRequestsAnswered == \A w \in Workers : Busy(w) ~> ~Busy(w)

-----------------------------------------------------------------------------
(* A request takes effect when its chain writes; one that writes nothing,  *)
(* when its last hook returns.                                             *)
Answered(w) == pc[w] = "done" \/ (pc[w] = "hook" /\ at[w] > Len(Chain(w)))

Dir == INSTANCE GroupDirectory WITH
  Faulty   <- Faults # {},
  dir      <- store,
  request  <- req,
  phase    <- [w \in Workers |-> IF ~Busy(w) THEN "idle"
                                 ELSE IF Answered(w) THEN "answered" ELSE "called"],
  verdict  <- [w \in Workers |-> IF ~Answered(w) THEN "none"
                                 ELSE IF reply[w] \in GroupErrors THEN "error" ELSE "ok"]

(* Clients that keep conflicting requests apart see the directory that     *)
(* module GroupDirectory promises.                                         *)
ImplementsGroups == Dir!DirSpec

=============================================================================
