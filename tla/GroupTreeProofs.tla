--------------------------- MODULE GroupTreeProofs --------------------------
(***************************************************************************)
(* Proofs about the group tree, for any number of goroutines, groups and   *)
(* requests and any interleaving of their hooks.                           *)
(***************************************************************************)
EXTENDS GroupTree, HookProofs

-----------------------------------------------------------------------------
(* The chains.                                                             *)

(* The hooks of each chain. *)
LEMMA GroupChainCases ==
  /\ GroupChain["CREATE"] =
       <<"fail-on-existing-group", "set-managing-group", "set-group-name",
         "set-group-displayname", "set-group-number", "save-group">>
  /\ GroupChain["DESTROY"] = <<"load-group", "destroy-group">>
  /\ GroupChain["FETCH"] = <<"load-group">>
  /\ GroupChain["MODIFY_EXPANSIONS"] =
       <<"load-group", "check-immediate-expansions", "check-expansion-cycles",
         "check-expansion-targets", "patch-group-expansions", "save-group">>
  /\ \A c \in GroupEditChains :
       GroupChain[c] = <<"load-group", GroupEditHook[c], "save-group">>
BY GroupChainsDistinct DEF GroupChain, GroupChains

(* No edit is called like a hook of another kind. *)
LEMMA GroupEditHooksApart ==
  GroupEditHooks \cap {"fail-on-existing-group", "set-managing-group", "set-group-name",
    "set-group-displayname", "set-group-number", "save-group", "load-group",
    "destroy-group", "check-immediate-expansions", "check-expansion-cycles",
    "check-expansion-targets", "patch-group-expansions"} = {}
BY DEF GroupEditHooks, GroupEditChains, GroupEditHook

(* Where the hooks are that the proofs need to place; only MERGE_METADATA  *)
(* and MODIFY_EXPANSIONS touch the rules.                                  *)
PlaceOf(c, i, h) ==
  /\ h = "set-group-number" => i = 5
  /\ h = "check-expansion-cycles" => i = 3 /\ c = "MODIFY_EXPANSIONS"
  /\ h = "check-expansion-targets" => i = 4 /\ c = "MODIFY_EXPANSIONS"
  /\ c = "MODIFY_EXPANSIONS" /\ i = 4 => h = "check-expansion-targets"
  /\ h = "patch-group-expansions" => i = 5 /\ c = "MODIFY_EXPANSIONS"
  /\ h = "merge-group-meta" => c = "MERGE_METADATA"

(* Every chain has one to six hooks, each of them in its place. *)
LEMMA GroupChainFacts ==
  ASSUME NEW c \in GroupChains
  PROVE  /\ Len(GroupChain[c]) \in 1..6
         /\ DOMAIN GroupChain[c] = 1..Len(GroupChain[c])
         /\ \A i \in DOMAIN GroupChain[c] : PlaceOf(c, i, GroupChain[c][i])
<1>1. CASE c = "CREATE"
  BY <1>1, GroupChainCases DEF PlaceOf
<1>2. CASE c = "DESTROY"
  BY <1>2, GroupChainCases DEF PlaceOf
<1>3. CASE c = "FETCH"
  BY <1>3, GroupChainCases DEF PlaceOf
<1>4. CASE c = "MODIFY_EXPANSIONS"
  BY <1>4, GroupChainCases DEF PlaceOf
<1>5. CASE c \in GroupEditChains
  <2>1. GroupEditHook[c] \in GroupEditHooks /\ c # "MODIFY_EXPANSIONS"
    BY <1>5, GroupChainsDistinct
  <2>2. GroupEditHook[c] = "merge-group-meta" => c = "MERGE_METADATA"
    BY <1>5 DEF GroupEditChains, GroupEditHook
  <2>3. GroupChain[c] = <<"load-group", GroupEditHook[c], "save-group">>
    BY <1>5, GroupChainCases
  <2>4. QED
    BY <2>1, <2>2, <2>3, GroupEditHooksApart DEF PlaceOf
<1>6. QED
  BY <1>1, <1>2, <1>3, <1>4, <1>5 DEF GroupChains

(* A hook that fails does so with an error of the tree. *)
LEMMA GroupHookErrorType ==
  ASSUME NEW h, NEW g, NEW d, GroupHookError(h, g, d) # "none"
  PROVE  GroupHookError(h, g, d) \in GroupErrors
<1>1. \A mode : KVError(mode, g, d) \in {"precondition", "key-exists", "no-key", "none"}
  BY DEF KVError
<1>2. QED
  BY <1>1 DEF GroupHookError, GroupErrors

-----------------------------------------------------------------------------
(***************************************************************************)
(* The inductive invariant.  Where a request is in its chain while it      *)
(* scans or walks (Placed), and that every rule in a draft, or about to be *)
(* put there, is about a group that there is or was (DraftsKnown).         *)
(***************************************************************************)
Ever == Stored \cup gone

Placed ==
  \A w \in Workers :
    /\ IF pc[w] = "idle" THEN at[w] = 1 ELSE req[w] \in Requests
    /\ pc[w] = "number" => at[w] = 5
    /\ pc[w] = "cycle" => /\ at[w] = 3 /\ req[w].chain = "MODIFY_EXPANSIONS"
                          /\ walk[w] # <<>>

(* The checks have found the target of the rule. *)
Checked(w) == req[w].chain = "MODIFY_EXPANSIONS" /\ at[w] >= 5 /\ Proposes(req[w].dg)

DraftsKnown ==
  \A w \in Workers :
    /\ Targets(draft[w].rules) \subseteq Ever
    /\ pc[w] # "idle" /\ Checked(w) => Child(w) \in Ever

TInv == TypeOK /\ Placed
KInv == RuleTargetsKnown /\ DraftsKnown

(* A hook that runs has a request, and the place that its chain gives it.  *)
LEMMA HookPlaced ==
  ASSUME TInv, NEW w \in Workers, NEW h, InChain(w, h)
  PROVE  /\ req[w] \in Requests /\ req[w] \in GroupRequest
         /\ at[w] \in 1..6 /\ at[w] + 1 \in 1..7
         /\ PlaceOf(req[w].chain, at[w], h)
<1>1. req[w] \in Requests /\ req[w] \in GroupRequest
  BY GroupRequestsAssumption DEF TInv, Placed, InChain
<1>2. req[w].chain \in GroupChains
  BY <1>1 DEF GroupRequest
<1>3. at[w] \in DOMAIN GroupChain[req[w].chain] /\ GroupChain[req[w].chain][at[w]] = h
  BY DEF InChain, Chain
<1>4. QED
  BY <1>1, <1>2, <1>3, GroupChainFacts

(* A request names a group, and so does a rule that it proposes. *)
LEMMA RequestNames ==
  ASSUME NEW r \in GroupRequest
  PROVE  /\ r.dg \in DataGroup /\ r.dg.name \in Groups
         /\ Proposes(r.dg) => r.dg.rule.target \in Groups
BY DEF GroupRequest, DataGroup, Proposes, NoRule

-----------------------------------------------------------------------------
(* Types and places.                                                       *)

States == {"idle", "hook", "number", "cycle", "done"}

(* What a step of worker w may do to where requests are. *)
Moves(w) ==
  /\ pc' \in [Workers -> States] /\ at' \in [Workers -> 1..7]
  /\ reply' \in [Workers -> {"none", "ok"} \cup GroupErrors]
  /\ \A v \in Workers \ {w} : pc'[v] = pc[v] /\ at'[v] = at[v]

LEMMA AdvanceMoves ==
  ASSUME TInv, NEW w \in Workers, at[w] \in 1..6, Advance(w)
  PROVE  Moves(w) /\ pc'[w] = "hook" /\ at'[w] = at[w] + 1
BY DEF TInv, TypeOK, Advance, Moves, States

LEMMA FailMoves ==
  ASSUME TInv, NEW w \in Workers, NEW err \in GroupErrors, Fail(w, err)
  PROVE  Moves(w) /\ pc'[w] = "done"
BY DEF TInv, TypeOK, Fail, Moves, States

LEMMA StayMoves ==
  ASSUME TInv, NEW w \in Workers, UNCHANGED <<pc, at, reply>>
  PROVE  Moves(w) /\ pc'[w] = pc[w] /\ at'[w] = at[w]
BY DEF TInv, TypeOK, Moves, States

(* A step inside a chain: the other requests stay where they are. *)
LEMMA MovesKeepPlaced ==
  ASSUME TInv, NEW w \in Workers, Moves(w), pc[w] # "idle", pc'[w] # "idle",
         UNCHANGED req,
         \A v \in Workers \ {w} : walk'[v] = walk[v],
         pc'[w] = "number" => at'[w] = 5,
         pc'[w] = "cycle" => /\ at'[w] = 3 /\ req[w].chain = "MODIFY_EXPANSIONS"
                             /\ walk'[w] # <<>>
  PROVE  Placed'
BY DEF TInv, Placed, Moves

(* The hooks that read storage and edit the draft. *)
LEMMA LocalHookTypes ==
  ASSUME TInv, NEW w \in Workers,
         LoadGroup(w) \/ FailOnExistingGroup(w) \/ SetManagingGroup(w)
           \/ CheckExpansionTargets(w) \/ \E h \in GroupDraftHooks : RunGroupHook(w, h)
  PROVE  TInv'
<1> USE DEF LocalStep
<1>0. PICK h : InChain(w, h)
  BY DEF LoadGroup, FailOnExistingGroup, SetManagingGroup, CheckExpansionTargets, RunGroupHook
<1>1. req[w] \in GroupRequest /\ at[w] \in 1..6 /\ pc[w] = "hook"
  BY <1>0, HookPlaced DEF InChain
<1>2. req[w].dg \in DataGroup /\ Name(w) \in Groups
  BY <1>1, RequestNames DEF Name
<1>3. {"unknown", "duplicate", "existing-expansion"} \subseteq GroupErrors
  BY DEF GroupErrors
<1>4. Moves(w) /\ pc'[w] \in {"hook", "done"}
  <2>1. CASE Advance(w)
    BY <2>1, <1>1, AdvanceMoves
  <2>2. CASE \E err \in GroupErrors : Fail(w, err)
    BY <2>2, FailMoves
  <2>3. ASSUME NEW k \in GroupDraftHooks, RunGroupHook(w, k)
        PROVE  Advance(w) \/ \E err \in GroupErrors : Fail(w, err)
    BY <2>3, GroupHookErrorType DEF RunGroupHook
  <2>4. Advance(w) \/ \E err \in GroupErrors : Fail(w, err)
    BY <2>3, <1>3 DEF LoadGroup, FailOnExistingGroup, SetManagingGroup, CheckExpansionTargets
  <2>5. QED
    BY <2>1, <2>2, <2>4
<1>5. UNCHANGED <<store, req, gone, todo, largest, walk>>
  BY DEF LoadGroup, FailOnExistingGroup, SetManagingGroup, CheckExpansionTargets, RunGroupHook
<1>6. draft' \in [Workers -> Group]
  <2>1. draft \in [Workers -> Group] /\ store \in [Groups -> Group \cup {NoGroup}]
    BY DEF TInv, TypeOK
  <2>2. CASE LoadGroup(w)
    BY <2>1, <2>2, <1>2 DEF LoadGroup
  <2>3. CASE FailOnExistingGroup(w) \/ CheckExpansionTargets(w)
    BY <2>1, <2>3 DEF FailOnExistingGroup, CheckExpansionTargets
  <2>4. CASE SetManagingGroup(w)
    <3>1. req[w].dg.managedBy \in Groups \cup {Unmanaged, Absent}
      BY <1>2 DEF DataGroup
    <3>2. QED
      BY <2>1, <2>4, <3>1 DEF SetManagingGroup, Group
  <2>5. ASSUME NEW k \in GroupDraftHooks, RunGroupHook(w, k)
        PROVE  draft' \in [Workers -> Group]
    <3>1. GroupHookResult(k, draft[w], req[w].dg) \in Group
      BY <2>1, <1>2, GroupHookResultType
    <3>2. QED
      BY <2>1, <2>5, <3>1 DEF RunGroupHook
  <2>6. QED
    BY <2>2, <2>3, <2>4, <2>5
<1>7. Placed'
  BY <1>1, <1>4, <1>5, MovesKeepPlaced
<1>8. TypeOK'
  BY <1>4, <1>5, <1>6 DEF TInv, TypeOK, Moves, States
<1>9. QED
  BY <1>7, <1>8 DEF TInv

(* A draft that is given a number is still a group. *)
LEMMA NumberedDraft ==
  ASSUME draft \in [Workers -> Group], NEW w \in Workers, NEW n \in Numbers
  PROVE  [draft EXCEPT ![w].number = n] \in [Workers -> Group]
<1>1. draft[w] \in Group
  OBVIOUS
<1>2. [draft[w] EXCEPT !.number = n] \in Group
  BY <1>1 DEF Group
<1>3. QED
  BY <1>2

(* The number of a new group. *)
LEMMA NumberHookTypes ==
  ASSUME TInv, NEW w \in Workers,
         SetGroupNumber(w) \/ (\E n \in Groups : ScanNumber(w, n)) \/ AssignNumber(w)
  PROVE  TInv'
<1> USE DEF LocalStep
<1>0. /\ draft \in [Workers -> Group] /\ store \in [Groups -> Group \cup {NoGroup}]
      /\ todo \in [Workers -> SUBSET Groups] /\ largest \in [Workers -> 0..MaxInt32]
      /\ MaxInt32 \in Nat \ {0}
  BY MaxInt32Assumption DEF TInv, TypeOK
<1>1. CASE SetGroupNumber(w)
  <2>1. req[w].dg \in DataGroup /\ at[w] = 5 /\ pc[w] = "hook"
    BY <1>1, HookPlaced, RequestNames DEF SetGroupNumber, PlaceOf, InChain
  <2>2. CASE req[w].dg.number = AutoNumber
    <3>1. Moves(w) /\ pc'[w] = "number" /\ at'[w] = 5
      BY <1>1, <2>1, <2>2 DEF SetGroupNumber, Moves, States, TInv, TypeOK
    <3>2. todo' \in [Workers -> SUBSET Groups]
      BY <1>0, <1>1, <2>2 DEF SetGroupNumber, Stored
    <3>3. UNCHANGED <<store, req, gone, draft, largest, walk>>
      BY <1>1, <2>2 DEF SetGroupNumber
    <3>4. Placed'
      BY <2>1, <3>1, <3>3, MovesKeepPlaced
    <3>5. QED
      BY <3>1, <3>2, <3>3, <3>4 DEF TInv, TypeOK, Moves, States
  <2>3. CASE req[w].dg.number # AutoNumber
    <3>1. Moves(w) /\ pc'[w] = "hook"
      BY <1>1, <2>1, <2>3, AdvanceMoves DEF SetGroupNumber
    <3>2. draft' \in [Workers -> Group]
      <4>1. draft' = [draft EXCEPT ![w].number = req[w].dg.number]
        BY <1>1, <2>3 DEF SetGroupNumber
      <4>2. req[w].dg.number \in Numbers
        BY <2>1, <2>3 DEF DataGroup
      <4>3. QED
        BY <1>0, <4>1, <4>2, NumberedDraft
    <3>3. UNCHANGED <<store, req, gone, todo, largest, walk>>
      BY <1>1, <2>3 DEF SetGroupNumber
    <3>4. Placed'
      BY <2>1, <3>1, <3>3, MovesKeepPlaced
    <3>5. QED
      BY <3>1, <3>2, <3>3, <3>4 DEF TInv, TypeOK, Moves, States
  <2>4. QED
    BY <2>2, <2>3
<1>2. ASSUME NEW n \in Groups, ScanNumber(w, n)
      PROVE  TInv'
  <2>1. pc[w] = "number" /\ at[w] = 5 /\ UNCHANGED <<store, req, gone, draft, walk>>
    BY <1>2 DEF ScanNumber, TInv, Placed
  <2>2. Moves(w) /\ pc'[w] \in {"number", "done"} /\ (pc'[w] = "number" => at'[w] = 5)
    <3>1. Fail(w, "unknown") \/ UNCHANGED <<pc, at, reply>>
      BY <1>2 DEF ScanNumber
    <3>2. QED
      BY <2>1, <3>1, FailMoves, StayMoves DEF GroupErrors
  <2>3. todo' \in [Workers -> SUBSET Groups] /\ largest' \in [Workers -> 0..MaxInt32]
    <3>1. CASE store[n] = NoGroup
      BY <1>0, <1>2, <3>1 DEF ScanNumber
    <3>2. CASE store[n] # NoGroup
      <4>1. store[n].number \in Numbers
        BY <1>0, <3>2 DEF Group
      <4>2. largest[w] \in 0..MaxInt32
        BY <1>0
      <4>3. (IF store[n].number > largest[w] THEN store[n].number ELSE largest[w])
              \in 0..MaxInt32
        BY <1>0, <4>1, <4>2 DEF Numbers
      <4>4. QED
        BY <1>0, <1>2, <3>2, <4>3 DEF ScanNumber
    <3>3. QED
      BY <3>1, <3>2
  <2>4. Placed'
    BY <2>1, <2>2, MovesKeepPlaced
  <2>5. QED
    BY <2>1, <2>2, <2>3, <2>4 DEF TInv, TypeOK, Moves, States
<1>3. CASE AssignNumber(w)
  <2>1. pc[w] = "number" /\ at[w] = 5 /\ UNCHANGED <<store, req, gone, todo, largest, walk>>
    BY <1>3 DEF AssignNumber, TInv, Placed
  <2>2. Moves(w) /\ pc'[w] = "hook"
    BY <1>3, <2>1, AdvanceMoves DEF AssignNumber
  <2>3. draft' \in [Workers -> Group]
    <3>1. largest[w] \in 0..MaxInt32
      BY <1>0
    <3>2. Increment(largest[w]) \in Numbers
      BY <1>0, <3>1 DEF Increment, Numbers
    <3>3. draft' = [draft EXCEPT ![w].number = Increment(largest[w])]
      BY <1>3 DEF AssignNumber
    <3>4. QED
      BY <1>0, <3>2, <3>3, NumberedDraft
  <2>4. Placed'
    BY <2>1, <2>2, MovesKeepPlaced
  <2>5. QED
    BY <2>1, <2>2, <2>3, <2>4 DEF TInv, TypeOK, Moves, States
<1>4. QED
  BY <1>1, <1>2, <1>3

(* The check for cycles. *)
LEMMA CycleHookTypes ==
  ASSUME TInv, NEW w \in Workers,
         CheckExpansionCycles(w) \/ (\E t \in Groups : Visit(w, t)) \/ Ascend(w)
  PROVE  TInv'
<1> USE DEF LocalStep
<1>0. /\ store \in [Groups -> Group \cup {NoGroup}]
      /\ walk \in [Workers -> Seq(SUBSET Groups)]
      /\ {"unknown", "existing-expansion"} \subseteq GroupErrors
  BY DEF TInv, TypeOK, GroupErrors
<1>1. \A n \in Groups : store[n] # NoGroup => Targets(store[n].rules) \in SUBSET Groups
  BY <1>0 DEF Group, Rules, Targets
<1>2. UNCHANGED <<store, req, gone, draft, todo, largest>>
  BY DEF CheckExpansionCycles, Visit, Ascend
<1>3. SUFFICES /\ walk' \in [Workers -> Seq(SUBSET Groups)]
               /\ \A v \in Workers \ {w} : walk'[v] = walk[v]
               /\ Moves(w) /\ pc[w] # "idle" /\ pc'[w] \notin {"idle", "number"}
               /\ pc'[w] = "cycle" => /\ at'[w] = 3
                                      /\ req[w].chain = "MODIFY_EXPANSIONS"
                                      /\ walk'[w] # <<>>
  <2>1. Placed'
    BY <1>2, <1>3, MovesKeepPlaced
  <2>2. QED
    BY <1>2, <1>3, <2>1 DEF TInv, TypeOK, Moves, States
<1>4. CASE CheckExpansionCycles(w)
  <2>1. /\ req[w].chain = "MODIFY_EXPANSIONS" /\ at[w] = 3 /\ pc[w] = "hook"
        /\ req[w] \in GroupRequest
    BY <1>4, HookPlaced DEF CheckExpansionCycles, PlaceOf, InChain
  <2>2. CASE Advance(w) /\ UNCHANGED walk
    BY <1>0, <2>1, <2>2, AdvanceMoves
  <2>3. CASE Fail(w, "unknown") /\ UNCHANGED walk
    BY <1>0, <2>1, <2>3, FailMoves
  <2>4. CASE /\ Proposes(req[w].dg) /\ store[Child(w)] # NoGroup
             /\ pc' = [pc EXCEPT ![w] = "cycle"]
             /\ walk' = [walk EXCEPT ![w] = <<Targets(store[Child(w)].rules)>>]
             /\ UNCHANGED <<at, reply>>
    <3>1. Moves(w) /\ pc'[w] = "cycle" /\ at'[w] = 3
      BY <2>1, <2>4 DEF TInv, TypeOK, Moves, States
    <3>2. Child(w) \in Groups
      BY <2>1, <2>4, RequestNames DEF Child
    <3>3. Targets(store[Child(w)].rules) \in SUBSET Groups
      BY <1>1, <2>4, <3>2
    <3>4. <<Targets(store[Child(w)].rules)>> \in Seq(SUBSET Groups)
      BY <3>3
    <3>5. QED
      BY <1>0, <2>1, <2>4, <3>1, <3>4
  <2>5. QED
    BY <1>4, <2>2, <2>3, <2>4 DEF CheckExpansionCycles
<1>5. ASSUME pc[w] = "cycle"
      PROVE  /\ at[w] = 3 /\ req[w].chain = "MODIFY_EXPANSIONS"
             /\ walk[w] \in Seq(SUBSET Groups) /\ walk[w] # <<>>
             /\ Head(walk[w]) \in SUBSET Groups /\ Tail(walk[w]) \in Seq(SUBSET Groups)
  <2>1. /\ at[w] = 3 /\ req[w].chain = "MODIFY_EXPANSIONS"
        /\ walk[w] \in Seq(SUBSET Groups) /\ walk[w] # <<>>
    BY <1>0, <1>5 DEF TInv, Placed
  <2>2. QED
    BY <2>1
<1>6. ASSUME NEW t \in Groups, Visit(w, t)
      PROVE  /\ walk' \in [Workers -> Seq(SUBSET Groups)]
             /\ \A v \in Workers \ {w} : walk'[v] = walk[v]
             /\ Moves(w) /\ pc[w] # "idle" /\ pc'[w] \notin {"idle", "number"}
             /\ pc'[w] = "cycle" => /\ at'[w] = 3
                                    /\ req[w].chain = "MODIFY_EXPANSIONS"
                                    /\ walk'[w] # <<>>
  <2>1. pc[w] = "cycle"
    BY <1>6 DEF Visit
  <2>2. CASE t = draft[w].name \/ store[t] = NoGroup
    <3>1. Fail(w, "existing-expansion") /\ walk' = [walk EXCEPT ![w] = <<>>]
      BY <1>6, <2>2 DEF Visit
    <3>2. QED
      BY <1>0, <2>1, <3>1, FailMoves
  <2>3. CASE t # draft[w].name /\ store[t] # NoGroup
    <3> DEFINE new == <<Targets(store[t].rules), Head(walk[w]) \ {t}>> \o Tail(walk[w])
    <3>1. walk' = [walk EXCEPT ![w] = new] /\ UNCHANGED <<pc, at, reply>>
      BY <1>6, <2>3 DEF Visit
    <3>2. Targets(store[t].rules) \in SUBSET Groups /\ Head(walk[w]) \ {t} \in SUBSET Groups
      BY <1>1, <1>5, <2>1, <2>3
    <3>3. <<Targets(store[t].rules), Head(walk[w]) \ {t}>> \in Seq(SUBSET Groups)
      BY <3>2
    <3>4. new \in Seq(SUBSET Groups) /\ Len(new) = 2 + Len(Tail(walk[w]))
      BY <1>5, <2>1, <3>3
    <3>5. new # <<>>
      BY <1>5, <2>1, <3>4
    <3>6. Moves(w) /\ pc'[w] = "cycle" /\ at'[w] = 3
      BY <1>5, <2>1, <3>1, StayMoves
    <3> HIDE DEF new
    <3>7. QED
      BY <1>0, <1>5, <2>1, <3>1, <3>4, <3>5, <3>6
  <2>4. QED
    BY <2>2, <2>3
<1>7. CASE Ascend(w)
  <2>1. pc[w] = "cycle" /\ walk' = [walk EXCEPT ![w] = Tail(walk[w])]
    BY <1>7 DEF Ascend
  <2>2. CASE Tail(walk[w]) = <<>>
    BY <1>0, <1>5, <1>7, <2>1, <2>2, AdvanceMoves DEF Ascend
  <2>3. CASE Tail(walk[w]) # <<>>
    BY <1>0, <1>5, <1>7, <2>1, <2>3, StayMoves DEF Ascend
  <2>4. QED
    BY <2>2, <2>3
<1>8. QED
  BY <1>4, <1>6, <1>7

(* The hooks that write. *)
LEMMA WriteHookTypes ==
  ASSUME TInv, NEW w \in Workers, SaveGroup(w) \/ DestroyGroupHook(w)
  PROVE  TInv'
<1>0. /\ draft \in [Workers -> Group] /\ store \in [Groups -> Group \cup {NoGroup}]
      /\ gone \subseteq Groups /\ "internal" \in GroupErrors
  BY DEF TInv, TypeOK, GroupErrors
<1>1. PICK h : InChain(w, h)
  BY DEF SaveGroup, DestroyGroupHook
<1>2. at[w] \in 1..6 /\ pc[w] = "hook" /\ Name(w) \in Groups
  BY <1>1, HookPlaced, RequestNames DEF InChain, Name
<1>3. UNCHANGED <<req, todo, largest, walk>>
  BY DEF SaveGroup, DestroyGroupHook
<1>4. Moves(w) /\ pc'[w] \in {"hook", "done"}
  <2>1. Advance(w) \/ Fail(w, "internal")
    BY DEF SaveGroup, DestroyGroupHook
  <2>2. QED
    BY <1>0, <1>2, <2>1, AdvanceMoves, FailMoves
<1>5. /\ store' \in [Groups -> Group \cup {NoGroup}] /\ gone' \subseteq Groups
      /\ draft' \in [Workers -> Group]
  <2>1. CASE SaveGroup(w)
    BY <1>0, <2>1 DEF SaveGroup
  <2>2. CASE DestroyGroupHook(w)
    <3> DEFINE n == IF draft[w].name = NoID THEN Name(w) ELSE draft[w].name
    <3>1. n \in Groups
      BY <1>0, <1>2 DEF Group
    <3>2. draft' = [draft EXCEPT ![w].name = n]
      BY <2>2 DEF DestroyGroupHook
    <3>3. draft' \in [Workers -> Group]
      BY <1>0, <3>1, <3>2 DEF Group
    <3>4. \/ UNCHANGED <<store, gone>>
          \/ store' = [store EXCEPT ![n] = NoGroup] /\ gone' = gone \cup {n}
      BY <2>2 DEF DestroyGroupHook
    <3> HIDE DEF n
    <3>5. QED
      BY <1>0, <3>1, <3>3, <3>4
  <2>3. QED
    BY <2>1, <2>2
<1>6. Placed'
  BY <1>2, <1>3, <1>4, MovesKeepPlaced
<1>7. QED
  BY <1>3, <1>4, <1>5, <1>6 DEF TInv, TypeOK, Moves, States

(* A request comes and goes. *)
LEMMA RequestTypes ==
  ASSUME TInv, NEW w \in Workers,
         FinishChain(w) \/ Return(w) \/ \E r \in Requests : Begin(w, r)
  PROVE  TInv'
<1>1. CASE FinishChain(w)
  <2>1. Moves(w) /\ pc[w] = "hook" /\ pc'[w] = "done"
    BY <1>1 DEF FinishChain, TInv, TypeOK, Moves, States
  <2>2. UNCHANGED <<store, req, gone, draft, todo, largest, walk>>
    BY <1>1 DEF FinishChain, LocalStep
  <2>3. Placed'
    BY <2>1, <2>2, MovesKeepPlaced
  <2>4. QED
    BY <2>1, <2>2, <2>3 DEF TInv, TypeOK, Moves, States
<1>2. CASE Return(w)
  <2>1. BlankGroup \in Group
    BY MaxInt32Assumption DEF BlankGroup, Group, NoRules, Rules, Numbers, Unmanaged
  <2>2. TypeOK'
    BY <1>2, <2>1, MaxInt32Assumption DEF Return, TInv, TypeOK
  <2>3. Placed'
    BY <1>2 DEF Return, TInv, TypeOK, Placed
  <2>4. QED
    BY <2>2, <2>3 DEF TInv
<1>3. ASSUME NEW r \in Requests, Begin(w, r)
      PROVE  TInv'
  <2>1. TypeOK'
    BY <1>3 DEF Begin, TInv, TypeOK
  <2>2. Placed'
    BY <1>3 DEF Begin, Busy, TInv, TypeOK, Placed
  <2>3. QED
    BY <2>1, <2>2 DEF TInv
<1>4. QED
  BY <1>1, <1>2, <1>3

(* The first state. *)
LEMMA FirstTypes == Init => TInv
<1>1. BlankGroup \in Group
  BY MaxInt32Assumption DEF BlankGroup, Group, NoRules, Rules, Numbers, Unmanaged
<1>2. Init => TypeOK
  BY <1>1, GroupPopulationsAssumption, MaxInt32Assumption DEF Init, TypeOK
<1>3. Init => Placed
  BY DEF Init, Placed
<1>4. QED
  BY <1>2, <1>3 DEF TInv

(* Every step. *)
LEMMA StepTypes == TInv /\ [Next]_vars => TInv'
<1> SUFFICES ASSUME TInv, [Next]_vars
             PROVE  TInv'
  OBVIOUS
<1>1. CASE UNCHANGED vars
  BY <1>1 DEF vars, workerVars, TInv, TypeOK, Placed
<1>2. ASSUME NEW w \in Workers, WorkerStep(w)
      PROVE  TInv'
  BY <1>2, LocalHookTypes, NumberHookTypes, CycleHookTypes, WriteHookTypes, RequestTypes
  DEF WorkerStep
<1>3. ASSUME NEW w \in Workers, NEW r \in Requests, Begin(w, r)
      PROVE  TInv'
  BY <1>3, RequestTypes
<1>4. QED
  BY <1>1, <1>2, <1>3 DEF Next

(* Whatever goroutines do at the same time, the state of the group tree    *)
(* has its type: each chain works on groups, whether its group is new,     *)
(* loaded or gone in the meantime.                                         *)
THEOREM GroupTypeCorrect == Spec => []TypeOK
<1>1. TInv => TypeOK
  BY DEF TInv
<1>2. QED
  BY FirstTypes, StepTypes, <1>1, PTL DEF Spec

-----------------------------------------------------------------------------
(* Rules and the groups that they are about.                               *)

(* No request smuggles a rule past the checks: merge-group-meta would add  *)
(* one as it is, and no method of the client library sends it one.         *)
RulesProposedOnly ==
  \A r \in Requests : r.chain # "MODIFY_EXPANSIONS" => ~Proposes(r.dg)

(* The groups that there are or were only grow, and a step that leaves the *)
(* drafts of the others alone has only its own draft to answer for.        *)
LEMMA KnownKept ==
  ASSUME KInv, NEW w \in Workers, Ever \subseteq Ever',
         UNCHANGED <<store, req>>,
         \A v \in Workers \ {w} : pc'[v] = pc[v] /\ at'[v] = at[v] /\ draft'[v] = draft[v],
         Targets(draft'[w].rules) \subseteq Ever',
         pc'[w] # "idle" /\ Checked(w)' => Child(w) \in Ever
  PROVE  KInv'
<1>1. Ever' = Stored \cup gone' /\ Stored' = Stored
  BY DEF Ever, Stored
<1>2. RuleTargetsKnown'
  BY <1>1 DEF KInv, RuleTargetsKnown, Ever, Stored
<1>3. \A v \in Workers : Child(v)' = Child(v)
  BY DEF Child
<1>4. \A v \in Workers \ {w} : Checked(v)' = Checked(v)
  BY DEF Checked
<1>5. DraftsKnown'
  BY <1>3, <1>4 DEF KInv, DraftsKnown
<1>6. QED
  BY <1>2, <1>5 DEF KInv

(* A step that changes neither the draft nor the place of its request. *)
LEMMA KnownStays ==
  ASSUME KInv, NEW w \in Workers, UNCHANGED <<store, req, gone, at, draft>>,
         pc[w] # "idle", \A v \in Workers \ {w} : pc'[v] = pc[v]
  PROVE  KInv'
<1>1. Ever' = Ever
  BY DEF Ever, Stored
<1>2. Targets(draft'[w].rules) \subseteq Ever'
  BY <1>1 DEF KInv, DraftsKnown
<1>3. Checked(w)' = Checked(w)
  BY DEF Checked
<1>4. Checked(w) => Child(w) \in Ever
  BY DEF KInv, DraftsKnown
<1>5. QED
  BY <1>1, <1>2, <1>3, <1>4, KnownKept

(* From one hook to the next: only the check for targets lets a rule pass. *)
LEMMA HookKeepsKnown ==
  ASSUME TInv, KInv, NEW w \in Workers, NEW h, InChain(w, h),
         UNCHANGED <<store, req, gone>>,
         \A v \in Workers \ {w} : pc'[v] = pc[v] /\ at'[v] = at[v] /\ draft'[v] = draft[v],
         at'[w] \in {at[w], at[w] + 1},
         Targets(draft'[w].rules) \subseteq Ever,
         h = "check-expansion-targets" /\ at'[w] = at[w] + 1 /\ Proposes(req[w].dg)
           => Child(w) \in Ever
  PROVE  KInv'
<1>1. Ever' = Ever
  BY DEF Ever, Stored
<1>2. at[w] \in 1..6 /\ PlaceOf(req[w].chain, at[w], h) /\ pc[w] = "hook"
  BY HookPlaced DEF InChain
<1>3. Checked(w) => Child(w) \in Ever
  BY <1>2 DEF KInv, DraftsKnown
<1>4. ASSUME Checked(w)'
      PROVE  Child(w) \in Ever
  <2>1. req[w].chain = "MODIFY_EXPANSIONS" /\ at'[w] >= 5 /\ Proposes(req[w].dg)
    BY <1>4 DEF Checked
  <2>2. CASE at[w] >= 5
    BY <1>3, <2>1, <2>2 DEF Checked
  <2>3. CASE at[w] = 4
    BY <1>2, <2>1, <2>3 DEF PlaceOf
  <2>4. QED
    BY <1>2, <2>1, <2>2, <2>3
<1>5. QED
  BY <1>1, <1>4, KnownKept

(* The hooks that edit the draft. *)
LEMMA DraftHookKnown ==
  ASSUME RulesProposedOnly, TInv, KInv, NEW w \in Workers,
         NEW h \in GroupDraftHooks, RunGroupHook(w, h)
  PROVE  KInv'
<1>1. InChain(w, h) /\ UNCHANGED <<store, req, gone>>
  BY DEF RunGroupHook, LocalStep
<1>2. /\ req[w] \in Requests /\ req[w].dg \in DataGroup /\ at[w] \in 1..6
      /\ PlaceOf(req[w].chain, at[w], h) /\ draft[w] \in Group
  BY <1>1, HookPlaced, RequestNames DEF TInv, TypeOK
<1>3. /\ at'[w] \in {at[w], at[w] + 1}
      /\ \A v \in Workers \ {w} : pc'[v] = pc[v] /\ at'[v] = at[v] /\ draft'[v] = draft[v]
  BY DEF RunGroupHook, Advance, Fail, TInv, TypeOK
<1>4. Proposed(h, req[w].dg) \subseteq Ever
  <2>1. ASSUME h \in {"merge-group-meta", "patch-group-expansions"}, Proposes(req[w].dg)
        PROVE  Child(w) \in Ever
    <3>1. req[w].chain = "MODIFY_EXPANSIONS"
      BY <1>2, <2>1 DEF RulesProposedOnly
    <3>2. h = "patch-group-expansions" /\ at[w] = 5
      BY <1>2, <2>1, <3>1 DEF PlaceOf
    <3>3. QED
      BY <1>1, <2>1, <3>1, <3>2 DEF KInv, DraftsKnown, Checked, InChain
  <2>2. QED
    BY <2>1 DEF Proposed, Child
<1>5. Targets(draft'[w].rules) \subseteq Ever
  <2>1. Targets(draft[w].rules) \subseteq Ever
    BY DEF KInv, DraftsKnown
  <2>2. \/ draft' = draft
        \/ draft' = [draft EXCEPT ![w] = GroupHookResult(h, draft[w], req[w].dg)]
    BY DEF RunGroupHook
  <2>3. Targets(GroupHookResult(h, draft[w], req[w].dg).rules) \subseteq Ever
    BY <1>2, <1>4, <2>1, GroupHookResultType
  <2>4. QED
    BY <2>1, <2>2, <2>3 DEF TInv, TypeOK
<1>6. h # "check-expansion-targets"
  BY DEF GroupDraftHooks, GroupEditHooks, GroupEditChains, GroupEditHook
<1>7. QED
  BY <1>1, <1>3, <1>5, <1>6, HookKeepsKnown

(* The hooks that look at storage. *)
LEMMA LookHookKnown ==
  ASSUME TInv, KInv, NEW w \in Workers,
         LoadGroup(w) \/ FailOnExistingGroup(w) \/ SetManagingGroup(w)
           \/ CheckExpansionTargets(w)
  PROVE  KInv'
<1>0. /\ draft \in [Workers -> Group] /\ pc \in [Workers -> States]
      /\ at \in [Workers -> 1..7]
  BY DEF TInv, TypeOK, States
<1>1. UNCHANGED <<store, req, gone>>
  BY DEF LoadGroup, FailOnExistingGroup, SetManagingGroup, CheckExpansionTargets, LocalStep
<1>2. /\ at'[w] \in {at[w], at[w] + 1}
      /\ \A v \in Workers \ {w} : pc'[v] = pc[v] /\ at'[v] = at[v]
  <2>1. Advance(w) \/ \E err \in {"unknown", "duplicate"} : Fail(w, err)
    BY DEF LoadGroup, FailOnExistingGroup, SetManagingGroup, CheckExpansionTargets
  <2>2. QED
    BY <1>0, <2>1 DEF Advance, Fail
<1>3. Targets(draft[w].rules) \subseteq Ever
  BY DEF KInv, DraftsKnown
<1>4. CASE LoadGroup(w)
  <2>1. InChain(w, "load-group")
    BY <1>4 DEF LoadGroup
  <2>2. Name(w) \in Groups
    BY <2>1, HookPlaced, RequestNames DEF Name
  <2>3. \/ draft' = draft
        \/ store[Name(w)] # NoGroup /\ draft' = [draft EXCEPT ![w] = store[Name(w)]]
    BY <1>4 DEF LoadGroup
  <2>4. store[Name(w)] # NoGroup => Targets(store[Name(w)].rules) \subseteq Ever
    BY <2>2 DEF KInv, RuleTargetsKnown, Stored, Ever
  <2>5. /\ Targets(draft'[w].rules) \subseteq Ever
        /\ \A v \in Workers \ {w} : draft'[v] = draft[v]
    BY <1>0, <1>3, <2>3, <2>4
  <2>6. QED
    BY <1>1, <1>2, <2>1, <2>5, HookKeepsKnown
<1>5. CASE FailOnExistingGroup(w)
  BY <1>1, <1>2, <1>3, <1>5, HookKeepsKnown DEF FailOnExistingGroup
<1>6. CASE SetManagingGroup(w)
  <2>1. /\ draft'[w].rules = draft[w].rules
        /\ \A v \in Workers \ {w} : draft'[v] = draft[v]
    BY <1>0, <1>6 DEF SetManagingGroup, Group
  <2>2. QED
    BY <1>1, <1>2, <1>3, <1>6, <2>1, HookKeepsKnown DEF SetManagingGroup
<1>7. CASE CheckExpansionTargets(w)
  <2>1. InChain(w, "check-expansion-targets") /\ draft' = draft
    BY <1>7 DEF CheckExpansionTargets
  <2>2. at[w] \in 1..6 /\ req[w] \in GroupRequest
    BY <2>1, HookPlaced
  <2>3. ASSUME at'[w] = at[w] + 1, Proposes(req[w].dg)
        PROVE  Child(w) \in Ever
    <3>1. ~Fail(w, "unknown")
      BY <2>2, <2>3 DEF Fail
    <3>2. store[Child(w)] # NoGroup
      BY <1>7, <2>3, <3>1 DEF CheckExpansionTargets
    <3>3. Child(w) \in Groups
      BY <2>2, <2>3, RequestNames DEF Child
    <3>4. QED
      BY <3>2, <3>3 DEF Ever, Stored
  <2>4. QED
    BY <1>1, <1>2, <1>3, <2>1, <2>3, HookKeepsKnown
<1>8. QED
  BY <1>4, <1>5, <1>6, <1>7

(* Numbers have nothing to do with rules. *)
LEMMA NumberHookKnown ==
  ASSUME TInv, KInv, NEW w \in Workers,
         SetGroupNumber(w) \/ (\E n \in Groups : ScanNumber(w, n)) \/ AssignNumber(w)
  PROVE  KInv'
<1>0. /\ draft \in [Workers -> Group] /\ pc \in [Workers -> States]
      /\ at \in [Workers -> 1..7] /\ pc[w] # "idle"
  BY DEF TInv, TypeOK, States, SetGroupNumber, ScanNumber, AssignNumber, InChain
<1>1. UNCHANGED <<store, req, gone>>
  BY DEF SetGroupNumber, ScanNumber, AssignNumber, LocalStep
<1>2. at[w] = 5 \/ UNCHANGED <<at, draft>>
  <2>1. CASE SetGroupNumber(w)
    BY <2>1, HookPlaced DEF SetGroupNumber, PlaceOf
  <2>2. ASSUME NEW n \in Groups, ScanNumber(w, n)
        PROVE  UNCHANGED <<at, draft>>
    BY <2>2 DEF ScanNumber, Fail
  <2>3. CASE AssignNumber(w)
    BY <2>3 DEF AssignNumber, TInv, Placed
  <2>4. QED
    BY <2>1, <2>2, <2>3
<1>3. \A v \in Workers \ {w} : pc'[v] = pc[v]
  BY <1>0 DEF SetGroupNumber, ScanNumber, AssignNumber, Advance, Fail
<1>4. /\ \A v \in Workers \ {w} : at'[v] = at[v] /\ draft'[v] = draft[v]
      /\ draft'[w].rules = draft[w].rules
  BY <1>0 DEF SetGroupNumber, ScanNumber, AssignNumber, Advance, Fail, Group
<1>5. CASE at[w] = 5
  <2>1. Ever' = Ever
    BY <1>1 DEF Ever, Stored
  <2>2. Targets(draft'[w].rules) \subseteq Ever'
    BY <1>4, <2>1 DEF KInv, DraftsKnown
  <2>3. Checked(w)' => Checked(w)
    BY <1>1, <1>5 DEF Checked
  <2>4. Checked(w) => Child(w) \in Ever
    BY <1>0 DEF KInv, DraftsKnown
  <2>5. QED
    BY <1>1, <1>3, <1>4, <2>1, <2>2, <2>3, <2>4, KnownKept
<1>6. CASE UNCHANGED <<at, draft>>
  BY <1>0, <1>1, <1>3, <1>6, KnownStays
<1>7. QED
  BY <1>2, <1>5, <1>6

(* The check for cycles comes before the one for targets. *)
LEMMA CycleHookKnown ==
  ASSUME TInv, KInv, NEW w \in Workers,
         CheckExpansionCycles(w) \/ (\E t \in Groups : Visit(w, t)) \/ Ascend(w)
  PROVE  KInv'
<1>0. /\ pc \in [Workers -> States] /\ at \in [Workers -> 1..7]
  BY DEF TInv, TypeOK, States
<1>1. UNCHANGED <<store, req, gone, draft>>
  BY DEF CheckExpansionCycles, Visit, Ascend, LocalStep
<1>2. at[w] = 3
  <2>1. CASE CheckExpansionCycles(w)
    BY <2>1, HookPlaced DEF CheckExpansionCycles, PlaceOf
  <2>2. CASE pc[w] = "cycle"
    BY <2>2 DEF TInv, Placed
  <2>3. QED
    BY <2>1, <2>2 DEF Visit, Ascend
<1>3. /\ \A v \in Workers \ {w} : pc'[v] = pc[v] /\ at'[v] = at[v]
      /\ at'[w] \in {at[w], at[w] + 1}
  BY <1>0 DEF CheckExpansionCycles, Visit, Ascend, Advance, Fail
<1>4. ~Checked(w)'
  BY <1>2, <1>3 DEF Checked
<1>5. Ever' = Ever
  BY <1>1 DEF Ever, Stored
<1>6. Targets(draft'[w].rules) \subseteq Ever'
  BY <1>1, <1>5 DEF KInv, DraftsKnown
<1>7. QED
  BY <1>1, <1>3, <1>4, <1>5, <1>6, KnownKept

(* The hooks that write. *)
LEMMA WriteHookKnown ==
  ASSUME TInv, KInv, NEW w \in Workers, SaveGroup(w) \/ DestroyGroupHook(w)
  PROVE  KInv'
<1>0. /\ draft \in [Workers -> Group] /\ store \in [Groups -> Group \cup {NoGroup}]
      /\ pc \in [Workers -> States] /\ at \in [Workers -> 1..7]
  BY DEF TInv, TypeOK, States
<1>1. PICK h : InChain(w, h) /\ h \in {"save-group", "destroy-group"}
  BY DEF SaveGroup, DestroyGroupHook
<1>2. at[w] \in 1..6 /\ PlaceOf(req[w].chain, at[w], h) /\ pc[w] = "hook"
  BY <1>1, HookPlaced DEF InChain
<1>3. UNCHANGED req /\ at'[w] \in {at[w], at[w] + 1}
  BY <1>0 DEF SaveGroup, DestroyGroupHook, Advance, Fail
<1>4. \A v \in Workers \ {w} : pc'[v] = pc[v] /\ at'[v] = at[v]
  BY <1>0 DEF SaveGroup, DestroyGroupHook, Advance, Fail
<1>5. \A v \in Workers : draft'[v].rules = draft[v].rules
  BY <1>0 DEF SaveGroup, DestroyGroupHook, Group
<1>6. /\ Ever \subseteq Ever'
      /\ \A n \in Groups : store'[n] # NoGroup =>
            store'[n] = store[n] \/ \E v \in Workers : store'[n] = draft[v]
  <2>1. CASE SaveGroup(w)
    <3>1. gone' = gone /\ draft[w] # NoGroup
      BY <1>0, <2>1, GroupZeroValuesAssumption DEF SaveGroup
    <3>2. store' = store \/ store' = [store EXCEPT ![draft[w].name] = draft[w]]
      BY <2>1 DEF SaveGroup
    <3>3. \A n \in Groups : store'[n] = store[n] \/ store'[n] = draft[w]
      BY <1>0, <3>2
    <3>4. QED
      BY <3>1, <3>3 DEF Ever, Stored
  <2>2. CASE DestroyGroupHook(w)
    <3> DEFINE n == IF draft[w].name = NoID THEN Name(w) ELSE draft[w].name
    <3>1. \/ UNCHANGED <<store, gone>>
          \/ store' = [store EXCEPT ![n] = NoGroup] /\ gone' = gone \cup {n}
      BY <2>2 DEF DestroyGroupHook
    <3> HIDE DEF n
    <3>2. QED
      BY <1>0, <3>1 DEF Ever, Stored
  <2>3. QED
    BY <2>1, <2>2
<1>7. RuleTargetsKnown'
  <2>1. \A n \in Groups : store[n] # NoGroup => Targets(store[n].rules) \subseteq Ever
    BY DEF KInv, RuleTargetsKnown, Ever, Stored
  <2>2. \A v \in Workers : Targets(draft[v].rules) \subseteq Ever
    BY DEF KInv, DraftsKnown
  <2>3. \A n \in Groups : store'[n] # NoGroup => Targets(store'[n].rules) \subseteq Ever'
    BY <1>6, <2>1, <2>2
  <2>4. QED
    BY <2>3 DEF RuleTargetsKnown, Ever, Stored
<1>8. DraftsKnown'
  <2>1. \A v \in Workers : Targets(draft'[v].rules) \subseteq Ever'
    BY <1>5, <1>6 DEF KInv, DraftsKnown, Targets
  <2>2. ASSUME NEW v \in Workers, pc'[v] # "idle", Checked(v)'
        PROVE  pc[v] # "idle" /\ Checked(v)
    <3>1. CASE v # w
      BY <1>3, <1>4, <2>2, <3>1 DEF Checked
    <3>2. CASE v = w
      <4>1. at[w] # 4
        BY <1>1, <1>2, <1>3, <2>2, <3>2 DEF PlaceOf, Checked
      <4>2. at[w] >= 5
        BY <1>2, <1>3, <2>2, <3>2, <4>1 DEF Checked
      <4>3. QED
        BY <1>2, <1>3, <2>2, <3>2, <4>2 DEF Checked
    <3>3. QED
      BY <3>1, <3>2
  <2>3. \A v \in Workers : Child(v)' = Child(v)
    BY <1>3 DEF Child
  <2>4. QED
    BY <1>6, <2>1, <2>2, <2>3 DEF KInv, DraftsKnown
<1>9. QED
  BY <1>7, <1>8 DEF KInv

(* A request comes and goes. *)
LEMMA RequestKnown ==
  ASSUME TInv, KInv, NEW w \in Workers,
         FinishChain(w) \/ Return(w) \/ \E r \in Requests : Begin(w, r)
  PROVE  KInv'
<1>0. /\ draft \in [Workers -> Group] /\ pc \in [Workers -> States]
      /\ at \in [Workers -> 1..7] /\ req \in [Workers -> Requests \cup {NoRequest}]
  BY DEF TInv, TypeOK, States
<1>1. CASE FinishChain(w)
  <2>1. /\ pc[w] # "idle" /\ UNCHANGED <<store, req, gone, at, draft>>
        /\ \A v \in Workers \ {w} : pc'[v] = pc[v]
    BY <1>0, <1>1 DEF FinishChain, LocalStep
  <2>2. QED
    BY <2>1, KnownStays
<1>2. ASSUME \/ pc'[w] = "idle" /\ Targets(draft'[w].rules) = {}
             \/ at'[w] = 1 /\ draft'[w] = draft[w],
             UNCHANGED <<store, gone>>,
             \A v \in Workers \ {w} : /\ pc'[v] = pc[v] /\ at'[v] = at[v]
                                      /\ draft'[v] = draft[v] /\ req'[v] = req[v]
      PROVE  KInv'
  <2>1. Ever' = Ever
    BY <1>2 DEF Ever, Stored
  <2>2. RuleTargetsKnown'
    BY <1>2 DEF KInv, RuleTargetsKnown, Stored
  <2>3. \A v \in Workers \ {w} : (Checked(v)' = Checked(v)) /\ (Child(v)' = Child(v))
    BY <1>2 DEF Checked, Child
  <2>4. \A v \in Workers : Targets(draft'[v].rules) \subseteq Ever
    BY <1>2 DEF KInv, DraftsKnown
  <2>5. ~(pc'[w] # "idle" /\ Checked(w)')
    BY <1>0, <1>2, <2>1 DEF Checked
  <2>6. QED
    BY <1>2, <2>1, <2>2, <2>3, <2>4, <2>5 DEF KInv, DraftsKnown
<1>3. CASE Return(w)
  <2>1. pc'[w] = "idle" /\ draft'[w] = BlankGroup
    BY <1>0, <1>3 DEF Return
  <2>2. Targets(BlankGroup.rules) = {}
    BY DEF BlankGroup, NoRules, Targets
  <2>3. QED
    BY <1>0, <1>2, <1>3, <2>1, <2>2 DEF Return
<1>4. ASSUME NEW r \in Requests, Begin(w, r)
      PROVE  KInv'
  <2>1. at[w] = 1
    BY <1>4 DEF Begin, Busy, TInv, Placed
  <2>2. QED
    BY <1>0, <1>2, <1>4, <2>1 DEF Begin
<1>5. QED
  BY <1>1, <1>3, <1>4

(* The first state: the rules in storage are about groups in storage. *)
LEMMA FirstKnown == Init => KInv
<1> SUFFICES ASSUME Init PROVE KInv
  OBVIOUS
<1>1. RuleTargetsKnown
  <2>1. ASSUME NEW n \in Groups, store[n] # NoGroup
        PROVE  Targets(store[n].rules) \subseteq Stored
    <3>1. store[n] \in Group
      BY <2>1, GroupPopulationsAssumption DEF Init
    <3>2. Targets(store[n].rules) \subseteq Groups
      BY <3>1 DEF Group, Rules, Targets
    <3>3. \A t \in Targets(store[n].rules) : store[t] # NoGroup
      BY <2>1, GroupPopulationsAssumption DEF Init
    <3>4. QED
      BY <3>2, <3>3 DEF Stored
  <2>2. QED
    BY <2>1 DEF RuleTargetsKnown, Stored
<1>2. Targets(BlankGroup.rules) = {}
  BY DEF BlankGroup, NoRules, Targets
<1>3. DraftsKnown
  BY <1>2 DEF Init, DraftsKnown
<1>4. QED
  BY <1>1, <1>3 DEF KInv

(* Every step. *)
LEMMA StepKnown ==
  ASSUME RulesProposedOnly
  PROVE  TInv /\ KInv /\ [Next]_vars => KInv'
<1> SUFFICES ASSUME TInv, KInv, [Next]_vars
             PROVE  KInv'
  OBVIOUS
<1>1. CASE UNCHANGED vars
  BY <1>1 DEF vars, workerVars, KInv, RuleTargetsKnown, DraftsKnown, Ever, Stored,
              Checked, Child
<1>2. ASSUME NEW w \in Workers, WorkerStep(w)
      PROVE  KInv'
  BY <1>2, DraftHookKnown, LookHookKnown, NumberHookKnown, CycleHookKnown,
     WriteHookKnown, RequestKnown
  DEF WorkerStep
<1>3. ASSUME NEW w \in Workers, NEW r \in Requests, Begin(w, r)
      PROVE  KInv'
  BY <1>3, RequestKnown
<1>4. QED
  BY <1>1, <1>2, <1>3 DEF Next

(* However checks, saves and destructions interleave, a rule in storage is *)
(* about a group that is stored or was destroyed: the check for targets    *)
(* may be late, but it never lets a name pass that was nobody's.           *)
THEOREM TargetsKnown ==
  ASSUME RulesProposedOnly
  PROVE  Spec => []RuleTargetsKnown
<1>1. TInv /\ KInv /\ [Next]_vars => TInv' /\ KInv'
  BY StepTypes, StepKnown
<1>2. Init => TInv /\ KInv
  BY FirstTypes, FirstKnown
<1>3. KInv => RuleTargetsKnown
  BY DEF KInv
<1>4. QED
  BY <1>1, <1>2, <1>3, PTL DEF Spec

=============================================================================
