------------------------- MODULE GroupExclusiveProofs -----------------------
(***************************************************************************)
(* Proofs about a group tree whose clients keep conflicting requests       *)
(* apart.  Numbers: a scan over storage that nothing locks, next to        *)
(* goroutines that save what they loaded earlier.  Rules: a walk over      *)
(* storage that nothing locks, and a save that comes later.  The           *)
(* directory: a chain of hooks, of which one writes, as a single step.     *)
(***************************************************************************)
EXTENDS GroupTreeProofs, WellFoundedInduction, FiniteSetTheorems

-----------------------------------------------------------------------------
(* Clients keep conflicting requests apart and leave numbers to the tree,  *)
(* no two groups share one to begin with, and none gets past MaxInt32.     *)
NumbersAssigned ==
  /\ Exclusive /\ MaxAutoNumber <= MaxInt32
  /\ \A r \in Requests : r.chain = "CREATE" => r.dg.number = AutoNumber
  /\ \A p \in Populations : \A g, h \in Groups :
       p[g] # NoGroup /\ p[h] # NoGroup /\ p[g].number = p[h].number => g = h

-----------------------------------------------------------------------------
(***************************************************************************)
(* The inductive invariant.  A creation has the numbers to itself: nothing *)
(* that was in storage when it began to look for the largest gets another  *)
(* one (Creating), because what runs next to it saves what it loaded under *)
(* the name and with the number that it has (Editing).                     *)
(***************************************************************************)
Apart ==
  \A v, w \in Workers : v # w /\ Busy(v) /\ Busy(w) => ~Conflict(req[v], req[w])

NamedByKey == \A n \in Stored : store[n].name = n

Low == \A n \in Stored : store[n].number < MaxAutoNumber

(* A scan begins at zero, and only a creation scans. *)
Counting(w) ==
  /\ pc[w] = "idle" => largest[w] = 0
  /\ pc[w] = "number" => req[w].chain = "CREATE"

Creating(w) ==
  pc[w] \in {"hook", "number"} /\ req[w].chain = "CREATE" =>
    /\ at[w] <= 5 => Low
    /\ at[w] <= 5 /\ pc[w] = "hook" => largest[w] = 0
    /\ pc[w] = "number" =>
         /\ largest[w] < MaxInt32
         /\ \A n \in Stored \ todo[w] : store[n].number <= largest[w]
    /\ at[w] \in 4..6 => draft[w].name = Name(w)
    /\ at[w] = 6 => \A n \in Stored : store[n].number < draft[w].number

(* Until its last hook is done, the group of any other request is as it    *)
(* was loaded, as far as name and number go.                               *)
Editing(w) ==
  /\ pc[w] \in {"hook", "cycle"} /\ req[w].chain # "CREATE" /\ at[w] >= 2
  /\ ~(req[w].chain = "DESTROY" /\ at[w] >= 3)
  => /\ store[Name(w)] # NoGroup
     /\ draft[w].name = Name(w) /\ draft[w].number = store[Name(w)].number

Own(w) == Counting(w) /\ Creating(w) /\ Editing(w)

NInv == Apart /\ NamedByKey /\ GroupNumbersUnique /\ \A w \in Workers : Own(w)

-----------------------------------------------------------------------------
(* Where the hooks are that touch names and numbers, and which chains they *)
(* belong to.                                                              *)
NumberPlace(c, i, h) ==
  /\ h = "load-group" <=> c # "CREATE" /\ i = 1
  /\ h = "set-group-name" <=> c = "CREATE" /\ i = 3
  /\ h = "set-group-number" <=> c = "CREATE" /\ i = 5
  /\ c = "CREATE" /\ i = 6 => h = "save-group"
  /\ h = "save-group" => /\ c # "DESTROY" /\ i >= 2
                         /\ c = "CREATE" => i = 6
  /\ h = "destroy-group" <=> c = "DESTROY" /\ i = 2
  /\ c = "DESTROY" => i <= 2

LEMMA NumberPlaces ==
  ASSUME NEW c \in GroupChains, NEW i \in DOMAIN GroupChain[c]
  PROVE  NumberPlace(c, i, GroupChain[c][i])
<1>1. CASE c \in {"CREATE", "DESTROY", "FETCH", "MODIFY_EXPANSIONS"}
  BY <1>1, GroupChainCases DEF NumberPlace
<1>2. CASE c \in GroupEditChains
  <2>1. GroupEditHook[c] \in GroupEditHooks /\ c \notin {"CREATE", "DESTROY"}
    BY <1>2, GroupChainsDistinct
  <2>2. GroupChain[c] = <<"load-group", GroupEditHook[c], "save-group">>
    BY <1>2, GroupChainCases
  <2>3. QED
    BY <2>1, <2>2, GroupEditHooksApart DEF NumberPlace
<1>3. QED
  BY <1>1, <1>2 DEF GroupChains

(* A hook that runs, seen from names and numbers. *)
LEMMA HookNumbered ==
  ASSUME TInv, NEW w \in Workers, NEW h, InChain(w, h)
  PROVE  /\ pc[w] = "hook" /\ at[w] \in 1..6
         /\ req[w] \in Requests /\ req[w].dg \in DataGroup /\ Name(w) \in Groups
         /\ NumberPlace(req[w].chain, at[w], h)
<1>1. /\ req[w] \in Requests /\ req[w] \in GroupRequest /\ at[w] \in 1..6
  BY HookPlaced
<1>2. req[w].chain \in GroupChains /\ at[w] \in DOMAIN GroupChain[req[w].chain]
  BY <1>1 DEF GroupRequest, InChain, Chain
<1>3. QED
  BY <1>1, <1>2, NumberPlaces, RequestNames DEF InChain, Chain, Name

(* The hooks that edit a draft leave its number alone, and its name but    *)
(* for set-group-name.                                                     *)
LEMMA GroupHookKeepsNumber ==
  ASSUME NEW h \in GroupDraftHooks, NEW g \in Group, NEW d \in DataGroup
  PROVE  /\ GroupHookResult(h, g, d).number = g.number
         /\ GroupHookResult(h, g, d).name =
              IF h = "set-group-name" THEN d.name ELSE g.name
<1>1. CASE h = "set-group-name"
  BY <1>1 DEF GroupHookResult, SetGroupName, Group
<1>2. CASE h = "set-group-displayname"
  BY <1>2 DEF GroupHookResult, SetGroupDisplayName, Group
<1>3. CASE h = "merge-group-meta"
  BY <1>3 DEF GroupHookResult, MergeGroupMeta, Group
<1>4. CASE h \in {"set-group-capability", "remove-group-capability"}
  <2>1. \E add \in BOOLEAN : GroupHookResult(h, g, d) = ManageGroupCapabilities(add, g, d)
    BY <1>4 DEF GroupHookResult
  <2>2. QED
    BY <1>4, <2>1 DEF ManageGroupCapabilities, Group
<1>5. CASE h \in {"add-untyped-metadata", "del-untyped-metadata-fuzzy",
                  "del-untyped-metadata-exact"}
  <2>1. \E mode \in {"UPSERT", "CLEARFUZZY", "CLEAREXACT"} :
          GroupHookResult(h, g, d) = ManageGroupUM(mode, g, d)
    BY <1>5 DEF GroupHookResult
  <2>2. QED
    BY <1>5, <2>1 DEF ManageGroupUM, Group
<1>6. CASE h \in {"kv-add", "kv-del", "kv-replace"}
  <2>1. \E mode \in {"add", "del", "replace"} :
          GroupHookResult(h, g, d) = GroupKVChange(mode, g, d)
    BY <1>6 DEF GroupHookResult
  <2>2. QED
    BY <1>6, <2>1 DEF GroupKVChange, Group
<1>7. CASE h = "check-immediate-expansions"
  BY <1>7 DEF GroupHookResult
<1>8. CASE h = "patch-group-expansions"
  BY <1>8 DEF GroupHookResult, PatchGroupExpansions, Group
<1>9. QED
  BY <1>1, <1>2, <1>3, <1>4, <1>5, <1>6, <1>7, <1>8
  DEF GroupDraftHooks, GroupEditHooks, GroupEditChains, GroupEditHook

-----------------------------------------------------------------------------
(* What a step of w leaves alone: the requests of the others, ...          *)
OthersStay(w) ==
  \A v \in Workers \ {w} :
    /\ pc'[v] = pc[v] /\ req'[v] = req[v] /\ at'[v] = at[v] /\ draft'[v] = draft[v]
    /\ todo'[v] = todo[v] /\ largest'[v] = largest[v]

(* ... the groups that w is not about, and the numbers in storage.         *)
GroupsStay(w) == \A n \in Groups : n # Name(w) => store'[n] = store[n]
NoNewNumber   == \A n \in Stored' : n \in Stored /\ store'[n].number = store[n].number

(* The requests of others are none the wiser. *)
LEMMA OthersKeepNumbers ==
  ASSUME TInv, NInv, NEW w \in Workers, Busy(w), OthersStay(w), GroupsStay(w),
         NoNewNumber \/ req[w].chain = "CREATE",
         NEW v \in Workers \ {w}
  PROVE  Own(v)'
<1>0. /\ pc'[v] = pc[v] /\ req'[v] = req[v] /\ at'[v] = at[v] /\ draft'[v] = draft[v]
      /\ todo'[v] = todo[v] /\ largest'[v] = largest[v]
  BY DEF OthersStay
<1>1. Own(v)
  BY DEF NInv
<1>2. Counting(v)'
  BY <1>0, <1>1 DEF Own, Counting
<1>3. ASSUME Busy(v)
      PROVE  /\ Name(v) \in Groups /\ Name(v) # Name(w)
             /\ ~(req[v].chain = "CREATE" /\ req[w].chain = "CREATE")
  <2>1. ~Conflict(req[v], req[w])
    BY <1>3 DEF NInv, Apart
  <2>2. req[v] \in GroupRequest
    BY <1>3, GroupRequestsAssumption DEF TInv, Placed, Busy
  <2>3. QED
    BY <2>1, <2>2, RequestNames DEF Conflict, Structural, Name
<1>4. Creating(v)'
  <2>1. SUFFICES ASSUME pc[v] \in {"hook", "number"}, req[v].chain = "CREATE"
                 PROVE  Creating(v)'
    BY <1>0 DEF Creating
  <2>2. NoNewNumber
    BY <1>3, <2>1 DEF Busy
  <2>3. Low => Low'
    BY <2>2 DEF NoNewNumber, Low
  <2>4. Name(v)' = Name(v)
    BY <1>0 DEF Name
  <2>5. Creating(v)
    BY <1>1 DEF Own
  <2>6. QED
    BY <1>0, <2>1, <2>2, <2>3, <2>4, <2>5 DEF Creating, NoNewNumber
<1>5. Editing(v)'
  <2>1. SUFFICES ASSUME pc[v] \in {"hook", "cycle"}
                 PROVE  Editing(v)'
    BY <1>0 DEF Editing
  <2>2. store'[Name(v)] = store[Name(v)] /\ Name(v)' = Name(v)
    BY <1>0, <1>3, <2>1 DEF Busy, GroupsStay, Name
  <2>3. QED
    BY <1>0, <1>1, <2>2 DEF Own, Editing
<1>6. QED
  BY <1>2, <1>4, <1>5 DEF Own

(* Requests that are under way stay apart. *)
LEMMA ApartKept ==
  ASSUME NInv, NEW w \in Workers, OthersStay(w),
         pc'[w] = "idle" \/ (Busy(w) /\ req'[w] = req[w])
  PROVE  Apart'
BY DEF NInv, Apart, OthersStay, Busy

(* A step that leaves storage alone has its own request to answer for. *)
LEMMA LocalKeepsNumbers ==
  ASSUME TInv, NInv, NEW w \in Workers, Busy(w), OthersStay(w),
         UNCHANGED <<store, req>>, Own(w)'
  PROVE  NInv'
<1>1. Stored' = Stored
  BY DEF Stored
<1>2. NamedByKey' /\ GroupNumbersUnique'
  BY <1>1 DEF NInv, NamedByKey, GroupNumbersUnique
<1>3. GroupsStay(w) /\ NoNewNumber
  BY <1>1 DEF GroupsStay, NoNewNumber
<1>4. \A v \in Workers \ {w} : Own(v)'
  BY <1>3, OthersKeepNumbers
<1>5. Apart'
  BY ApartKept
<1>6. QED
  BY <1>2, <1>4, <1>5 DEF NInv

(* A request that is answered has nothing to keep. *)
LEMMA DoneOwnsNothing ==
  ASSUME NEW w \in Workers, pc'[w] = "done"
  PROVE  Own(w)'
BY DEF Own, Counting, Creating, Editing

(* From one hook to the next: loading brings name and number, the others   *)
(* keep them, but for those that write or number.                          *)
LEMMA AdvanceOwn ==
  ASSUME TInv, NInv, NEW w \in Workers, NEW h, InChain(w, h),
         h \notin {"set-group-number", "save-group", "destroy-group"},
         pc'[w] = "hook", at'[w] = at[w] + 1,
         UNCHANGED <<store, req>>, largest'[w] = largest[w],
         IF h = "load-group"
           THEN store[Name(w)] # NoGroup /\ draft'[w] = store[Name(w)]
           ELSE /\ draft'[w].number = draft[w].number
                /\ draft'[w].name = IF h = "set-group-name" THEN Name(w) ELSE draft[w].name
  PROVE  Own(w)'
<1>1. /\ pc[w] = "hook" /\ at[w] \in 1..6 /\ Name(w) \in Groups
      /\ NumberPlace(req[w].chain, at[w], h)
  BY HookNumbered
<1>2. Creating(w) /\ Editing(w)
  BY DEF NInv, Own
<1>3. Counting(w)'
  BY DEF Counting
<1>4. Name(w)' = Name(w) /\ Stored' = Stored
  BY DEF Name, Stored
<1>5. Creating(w)'
  <2>1. SUFFICES ASSUME req[w].chain = "CREATE"
                 PROVE  Creating(w)'
    BY DEF Creating
  <2>2. at[w] \in 1..4 /\ at'[w] \in 2..5
    BY <1>1, <2>1 DEF NumberPlace
  <2>3. Low' /\ largest'[w] = 0
    BY <1>1, <1>2, <1>4, <2>1, <2>2 DEF Creating, Low
  <2>4. at'[w] \in 4..6 => draft'[w].name = Name(w)
    BY <1>1, <1>2, <2>1, <2>2 DEF Creating, NumberPlace
  <2>5. QED
    BY <1>4, <2>2, <2>3, <2>4 DEF Creating
<1>6. Editing(w)'
  <2>1. SUFFICES ASSUME req[w].chain # "CREATE"
                 PROVE  Editing(w)'
    BY DEF Editing
  <2>2. CASE at[w] = 1
    <3>1. store[Name(w)] # NoGroup /\ draft'[w] = store[Name(w)]
      BY <1>1, <2>1, <2>2 DEF NumberPlace
    <3>2. store[Name(w)].name = Name(w)
      BY <1>1, <3>1 DEF NInv, NamedByKey, Stored
    <3>3. QED
      BY <1>4, <3>1, <3>2 DEF Editing
  <2>3. CASE at[w] # 1
    <3>1. h \notin {"load-group", "set-group-name"} /\ req[w].chain # "DESTROY"
      BY <1>1, <2>1, <2>3 DEF NumberPlace
    <3>2. /\ store[Name(w)] # NoGroup /\ draft[w].name = Name(w)
          /\ draft[w].number = store[Name(w)].number
      BY <1>1, <1>2, <2>1, <2>3, <3>1 DEF Editing
    <3>3. QED
      BY <1>4, <3>1, <3>2 DEF Editing
  <2>4. QED
    BY <2>2, <2>3
<1>7. QED
  BY <1>3, <1>5, <1>6 DEF Own

-----------------------------------------------------------------------------
(* The hooks that read storage and edit the draft. *)
LEMMA LocalHookNumbers ==
  ASSUME TInv, NInv, NEW w \in Workers,
         LoadGroup(w) \/ FailOnExistingGroup(w) \/ SetManagingGroup(w)
           \/ CheckExpansionTargets(w) \/ \E h \in GroupDraftHooks : RunGroupHook(w, h)
  PROVE  NInv'
<1>0. /\ draft \in [Workers -> Group] /\ pc \in [Workers -> States]
      /\ at \in [Workers -> 1..7]
  BY DEF TInv, TypeOK, States
<1>1. /\ Busy(w) /\ UNCHANGED <<store, req, todo, largest>>
  BY DEF LoadGroup, FailOnExistingGroup, SetManagingGroup, CheckExpansionTargets,
         RunGroupHook, LocalStep, InChain, Busy
<1>2. OthersStay(w)
  BY <1>0, <1>1 DEF LoadGroup, FailOnExistingGroup, SetManagingGroup,
         CheckExpansionTargets, RunGroupHook, Advance, Fail, OthersStay
<1>3. SUFFICES Own(w)'
  BY <1>1, <1>2, LocalKeepsNumbers
<1>4. CASE \E err : Fail(w, err)
  BY <1>0, <1>4, DoneOwnsNothing DEF Fail
<1>5. Advance(w) => pc'[w] = "hook" /\ at'[w] = at[w] + 1
  BY <1>0 DEF Advance
<1>6. CASE LoadGroup(w) /\ Advance(w)
  <2>1. InChain(w, "load-group") /\ at[w] \in 1..6
    BY <1>6, HookNumbered DEF LoadGroup
  <2>2. store[Name(w)] # NoGroup /\ draft'[w] = store[Name(w)]
    BY <1>0, <1>5, <1>6, <2>1 DEF LoadGroup, Fail
  <2>3. QED
    BY <1>1, <1>5, <1>6, <2>1, <2>2, AdvanceOwn
<1>7. CASE /\ FailOnExistingGroup(w) \/ CheckExpansionTargets(w)
           /\ Advance(w)
  <2>1. PICK h \in {"fail-on-existing-group", "check-expansion-targets"} : InChain(w, h)
    BY <1>7 DEF FailOnExistingGroup, CheckExpansionTargets
  <2>2. draft' = draft
    BY <1>7 DEF FailOnExistingGroup, CheckExpansionTargets
  <2>3. QED
    BY <1>1, <1>5, <1>7, <2>1, <2>2, AdvanceOwn
<1>8. CASE SetManagingGroup(w) /\ Advance(w)
  <2>1. InChain(w, "set-managing-group")
    BY <1>8 DEF SetManagingGroup
  <2>2. draft'[w].number = draft[w].number /\ draft'[w].name = draft[w].name
    BY <1>0, <1>8 DEF SetManagingGroup, Group
  <2>3. QED
    BY <1>1, <1>5, <1>8, <2>1, <2>2, AdvanceOwn
<1>9. ASSUME NEW h \in GroupDraftHooks, RunGroupHook(w, h), Advance(w)
      PROVE  Own(w)'
  <2>1. InChain(w, h) /\ at[w] \in 1..6 /\ req[w].dg \in DataGroup
    BY <1>9, HookNumbered DEF RunGroupHook
  <2>2. draft'[w] = GroupHookResult(h, draft[w], req[w].dg)
    BY <1>0, <1>5, <1>9, <2>1 DEF RunGroupHook, Fail
  <2>3. /\ draft'[w].number = draft[w].number
        /\ draft'[w].name = IF h = "set-group-name" THEN Name(w) ELSE draft[w].name
    BY <1>0, <2>1, <2>2, GroupHookKeepsNumber DEF Name
  <2>4. h \notin {"load-group", "set-group-number", "save-group", "destroy-group"}
    BY DEF GroupDraftHooks, GroupEditHooks, GroupEditChains, GroupEditHook
  <2>5. QED
    BY <1>1, <1>5, <1>9, <2>1, <2>3, <2>4, AdvanceOwn
<1>10. Advance(w) \/ \E err : Fail(w, err)
  BY DEF LoadGroup, FailOnExistingGroup, SetManagingGroup, CheckExpansionTargets,
         RunGroupHook
<1>11. QED
  BY <1>4, <1>6, <1>7, <1>8, <1>9, <1>10

(* The number of a new group: larger than all that are in storage. *)
LEMMA NumberHookNumbers ==
  ASSUME NumbersAssigned, TInv, NInv, NEW w \in Workers,
         SetGroupNumber(w) \/ (\E n \in Groups : ScanNumber(w, n)) \/ AssignNumber(w)
  PROVE  NInv'
<1>0. /\ draft \in [Workers -> Group] /\ pc \in [Workers -> States]
      /\ at \in [Workers -> 1..7] /\ todo \in [Workers -> SUBSET Groups]
      /\ largest \in [Workers -> 0..MaxInt32] /\ MaxInt32 \in Nat \ {0}
      /\ store \in [Groups -> Group \cup {NoGroup}]
      /\ MaxAutoNumber \in Nat /\ MaxAutoNumber <= MaxInt32
  BY MaxInt32Assumption, GroupOptionsAssumption DEF TInv, TypeOK, States, NumbersAssigned
<1>1. Busy(w) /\ UNCHANGED <<store, req>>
  BY DEF SetGroupNumber, ScanNumber, AssignNumber, LocalStep, InChain, Busy
<1>2. OthersStay(w)
  BY <1>0, <1>1 DEF SetGroupNumber, ScanNumber, AssignNumber, Advance, Fail, OthersStay
<1>3. SUFFICES Own(w)'
  BY <1>1, <1>2, LocalKeepsNumbers
<1>4. Name(w)' = Name(w) /\ Stored' = Stored /\ (Low => Low')
  BY <1>1 DEF Name, Stored, Low
<1>5. Counting(w) /\ Creating(w)
  BY DEF NInv, Own
<1>6. CASE SetGroupNumber(w)
  <2>1. /\ pc[w] = "hook" /\ at[w] = 5 /\ req[w].chain = "CREATE" /\ req[w] \in Requests
    BY <1>6, HookNumbered DEF SetGroupNumber, NumberPlace
  <2>2. /\ pc'[w] = "number" /\ at'[w] = 5 /\ todo'[w] = Stored
        /\ draft'[w] = draft[w] /\ largest'[w] = largest[w]
    BY <1>0, <1>6, <2>1 DEF SetGroupNumber, NumbersAssigned
  <2>3. Low /\ largest[w] = 0 /\ draft[w].name = Name(w)
    BY <1>5, <2>1 DEF Creating
  <2>4. Creating(w)'
    BY <1>0, <1>1, <1>4, <2>1, <2>2, <2>3 DEF Creating
  <2>5. QED
    BY <1>1, <2>1, <2>2, <2>4 DEF Own, Counting, Editing
<1>7. ASSUME NEW n \in Groups, ScanNumber(w, n)
      PROVE  Own(w)'
  <2>1. /\ pc[w] = "number" /\ at[w] = 5 /\ req[w].chain = "CREATE"
    BY <1>5, <1>7 DEF ScanNumber, TInv, Placed, Counting
  <2>2. CASE store[n] = NoGroup
    BY <1>0, <1>7, <2>2, DoneOwnsNothing DEF ScanNumber, Fail
  <2>3. CASE store[n] # NoGroup
    <3> DEFINE m == IF store[n].number > largest[w] THEN store[n].number ELSE largest[w]
    <3>1. /\ pc'[w] = "number" /\ at'[w] = 5 /\ todo'[w] = todo[w] \ {n}
          /\ draft'[w] = draft[w] /\ largest'[w] = m
      BY <1>0, <1>7, <2>1, <2>3 DEF ScanNumber
    <3>2. /\ Low /\ draft[w].name = Name(w) /\ largest[w] < MaxInt32
          /\ \A k \in Stored \ todo[w] : store[k].number <= largest[w]
      BY <1>5, <2>1 DEF Creating
    <3>3. \A k \in Stored : store[k].number \in Int /\ store[k].number < MaxAutoNumber
      BY <1>0, <3>2 DEF Low, Stored, Group, Numbers
    <3>4. largest[w] \in Int /\ n \in Stored
      BY <1>0, <2>3 DEF Stored
    <3>5. m < MaxInt32 /\ \A k \in Stored \ (todo[w] \ {n}) : store[k].number <= m
      BY <1>0, <3>2, <3>3, <3>4
    <3> HIDE DEF m
    <3>6. Creating(w)'
      BY <1>1, <1>4, <2>1, <3>1, <3>2, <3>5 DEF Creating
    <3>7. QED
      BY <1>1, <2>1, <3>1, <3>6 DEF Own, Counting, Editing
  <2>4. QED
    BY <2>2, <2>3
<1>8. CASE AssignNumber(w)
  <2>1. pc[w] = "number" /\ at[w] = 5 /\ req[w].chain = "CREATE" /\ todo[w] = {}
    BY <1>5, <1>8 DEF AssignNumber, TInv, Placed, Counting
  <2>2. /\ draft[w].name = Name(w) /\ largest[w] < MaxInt32
        /\ \A k \in Stored : store[k].number <= largest[w]
    BY <1>5, <2>1 DEF Creating
  <2>3. Increment(largest[w]) = largest[w] + 1 /\ largest[w] \in Int
    BY <1>0, <2>2 DEF Increment
  <2>4. /\ pc'[w] = "hook" /\ at'[w] = 6
        /\ draft'[w].name = Name(w) /\ draft'[w].number = largest[w] + 1
    BY <1>0, <1>8, <2>1, <2>2, <2>3 DEF AssignNumber, Advance, Group
  <2>5. \A k \in Stored : store[k].number < draft'[w].number
    <3>1. \A k \in Stored : store[k].number \in Int
      BY <1>0 DEF Stored, Group, Numbers
    <3>2. QED
      BY <2>2, <2>3, <2>4, <3>1
  <2>6. Creating(w)'
    BY <1>1, <1>4, <2>1, <2>4, <2>5 DEF Creating
  <2>7. QED
    BY <1>1, <2>1, <2>4, <2>6 DEF Own, Counting, Editing
<1>9. QED
  BY <1>6, <1>7, <1>8

(* The check for cycles. *)
LEMMA CycleHookNumbers ==
  ASSUME TInv, NInv, NEW w \in Workers,
         CheckExpansionCycles(w) \/ (\E t \in Groups : Visit(w, t)) \/ Ascend(w)
  PROVE  NInv'
<1>0. pc \in [Workers -> States] /\ at \in [Workers -> 1..7]
  BY DEF TInv, TypeOK, States
<1>1. Busy(w) /\ UNCHANGED <<store, req, draft, todo, largest>>
  BY DEF CheckExpansionCycles, Visit, Ascend, LocalStep, InChain, Busy
<1>2. OthersStay(w)
  BY <1>0, <1>1 DEF CheckExpansionCycles, Visit, Ascend, Advance, Fail, OthersStay
<1>3. SUFFICES Own(w)'
  BY <1>1, <1>2, LocalKeepsNumbers
<1>4. pc[w] \in {"hook", "cycle"} /\ at[w] = 3 /\ req[w].chain = "MODIFY_EXPANSIONS"
  <2>1. CASE CheckExpansionCycles(w)
    BY <2>1, HookPlaced DEF CheckExpansionCycles, PlaceOf, InChain
  <2>2. CASE pc[w] = "cycle"
    BY <2>2 DEF TInv, Placed
  <2>3. QED
    BY <2>1, <2>2 DEF Visit, Ascend
<1>5. pc'[w] \in {"hook", "cycle", "done"} /\ at'[w] \in {3, 4}
  <2>1. \/ Advance(w)
        \/ \E err : Fail(w, err)
        \/ pc' = [pc EXCEPT ![w] = "cycle"] /\ at' = at
        \/ pc' = pc /\ at' = at
    BY DEF CheckExpansionCycles, Visit, Ascend
  <2>2. QED
    BY <1>0, <1>4, <2>1 DEF Advance, Fail
<1>6. /\ store[Name(w)] # NoGroup /\ draft[w].name = Name(w)
      /\ draft[w].number = store[Name(w)].number
  BY <1>4 DEF NInv, Own, Editing
<1>7. Name(w)' = Name(w)
  BY <1>1 DEF Name
<1>8. QED
  BY <1>1, <1>4, <1>5, <1>6, <1>7 DEF Own, Counting, Creating, Editing

(* A new group is stored with its number, any other with the one it had. *)
LEMMA SaveGroupNumbers ==
  ASSUME TInv, NInv, NEW w \in Workers, SaveGroup(w)
  PROVE  NInv'
<1>0. /\ draft \in [Workers -> Group] /\ pc \in [Workers -> States]
      /\ at \in [Workers -> 1..7] /\ store \in [Groups -> Group \cup {NoGroup}]
  BY DEF TInv, TypeOK, States
<1>1. /\ pc[w] = "hook" /\ at[w] \in 1..6 /\ Name(w) \in Groups
      /\ NumberPlace(req[w].chain, at[w], "save-group")
  BY HookNumbered DEF SaveGroup
<1>2. Busy(w) /\ UNCHANGED <<req, draft, todo, largest>>
  BY <1>1 DEF SaveGroup, Busy
<1>3. OthersStay(w)
  BY <1>0, <1>2 DEF SaveGroup, Advance, Fail, OthersStay
<1>4. CASE Fail(w, "internal") /\ UNCHANGED store
  <2>1. Own(w)'
    BY <1>0, <1>4, DoneOwnsNothing DEF Fail
  <2>2. QED
    BY <1>2, <1>3, <1>4, <2>1, LocalKeepsNumbers
<1>5. CASE store' = [store EXCEPT ![draft[w].name] = draft[w]] /\ Advance(w)
  <2>1. pc'[w] = "hook" /\ at'[w] = at[w] + 1
    BY <1>0, <1>5 DEF Advance
  <2>2. draft[w].name = Name(w)
    BY <1>1 DEF NInv, Own, Creating, Editing, NumberPlace
  <2>3. /\ draft[w] \in Group /\ draft[w] # NoGroup
        /\ store'[Name(w)] = draft[w] /\ GroupsStay(w)
    BY <1>0, <1>1, <1>5, <2>2, GroupZeroValuesAssumption DEF GroupsStay
  <2>4. Stored' = Stored \cup {Name(w)}
    BY <1>0, <1>1, <2>3 DEF Stored, GroupsStay
  <2>5. Apart'
    BY <1>2, <1>3, ApartKept
  <2>6. NamedByKey'
    BY <2>2, <2>3, <2>4 DEF NInv, NamedByKey, GroupsStay, Stored
  <2>7. Name(w)' = Name(w)
    BY <1>2 DEF Name
  <2>8. CASE req[w].chain = "CREATE"
    <3>1. at[w] = 6 /\ \A n \in Stored : store[n].number < draft[w].number
      BY <1>1, <2>8 DEF NInv, Own, Creating, NumberPlace
    <3>2. \A n \in Stored : store[n].number \in Int
      BY <1>0 DEF Stored, Group, Numbers
    <3>3. \A n \in Stored : store[n].number # draft[w].number
      BY <2>3, <3>1, <3>2 DEF Group, Numbers
    <3>4. GroupNumbersUnique'
      <4>1. SUFFICES ASSUME NEW g \in Stored', NEW h \in Stored',
                            store'[g].number = store'[h].number
                     PROVE  g = h
        BY DEF GroupNumbersUnique
      <4>2. \A n \in Stored' : n # Name(w) => n \in Stored /\ store'[n] = store[n]
        BY <2>3, <2>4 DEF GroupsStay, Stored
      <4>3. QED
        BY <2>3, <3>3, <4>1, <4>2 DEF NInv, GroupNumbersUnique
    <3>5. \A v \in Workers \ {w} : Own(v)'
      BY <1>2, <1>3, <2>3, <2>8, OthersKeepNumbers
    <3>6. Own(w)'
      BY <1>2, <2>1, <2>8, <3>1 DEF Own, Counting, Creating, Editing
    <3>7. QED
      BY <2>5, <2>6, <3>4, <3>5, <3>6 DEF NInv
  <2>9. CASE req[w].chain # "CREATE"
    <3>1. store[Name(w)] # NoGroup /\ draft[w].number = store[Name(w)].number
      BY <1>1, <2>9 DEF NInv, Own, Editing, NumberPlace
    <3>2. Stored' = Stored /\ \A n \in Stored : store'[n].number = store[n].number
      BY <1>1, <2>3, <2>4, <3>1 DEF GroupsStay, Stored
    <3>3. GroupNumbersUnique'
      BY <3>2 DEF NInv, GroupNumbersUnique
    <3>4. \A v \in Workers \ {w} : Own(v)'
      BY <1>2, <1>3, <2>3, <3>2, OthersKeepNumbers DEF NoNewNumber
    <3>5. Own(w)'
      BY <1>2, <2>1, <2>2, <2>3, <2>7, <2>9 DEF Own, Counting, Creating, Editing
    <3>6. QED
      BY <2>5, <2>6, <3>3, <3>4, <3>5 DEF NInv
  <2>10. QED
    BY <2>8, <2>9
<1>6. QED
  BY <1>4, <1>5 DEF SaveGroup

(* A group that goes takes its number with it. *)
LEMMA DestroyNumbers ==
  ASSUME TInv, NInv, NEW w \in Workers, DestroyGroupHook(w)
  PROVE  NInv'
<1>0. /\ draft \in [Workers -> Group] /\ pc \in [Workers -> States]
      /\ at \in [Workers -> 1..7] /\ store \in [Groups -> Group \cup {NoGroup}]
  BY DEF TInv, TypeOK, States
<1>1. /\ pc[w] = "hook" /\ at[w] = 2 /\ Name(w) \in Groups /\ req[w].chain = "DESTROY"
  BY HookNumbered DEF DestroyGroupHook, NumberPlace
<1>2. Busy(w) /\ UNCHANGED <<req, todo, largest>>
  BY <1>1 DEF DestroyGroupHook, Busy
<1>3. OthersStay(w)
  BY <1>0, <1>2 DEF DestroyGroupHook, Advance, Fail, OthersStay
<1>4. draft[w].name = Name(w)
  BY <1>1 DEF NInv, Own, Editing
<1>5. CASE Fail(w, "internal") /\ UNCHANGED store
  <2>1. Own(w)'
    BY <1>0, <1>5, DoneOwnsNothing DEF Fail
  <2>2. QED
    BY <1>2, <1>3, <1>5, <2>1, LocalKeepsNumbers
<1>6. CASE store' = [store EXCEPT ![Name(w)] = NoGroup] /\ Advance(w)
  <2>1. pc'[w] = "hook" /\ at'[w] = 3
    BY <1>0, <1>1, <1>6 DEF Advance
  <2>2. GroupsStay(w) /\ Stored' = Stored \ {Name(w)}
    BY <1>0, <1>1, <1>6 DEF GroupsStay, Stored
  <2>3. NoNewNumber
    BY <2>2 DEF GroupsStay, NoNewNumber, Stored
  <2>4. NamedByKey' /\ GroupNumbersUnique'
    BY <2>2 DEF NInv, NamedByKey, GroupNumbersUnique, GroupsStay, Stored
  <2>5. \A v \in Workers \ {w} : Own(v)'
    BY <1>2, <1>3, <2>2, <2>3, OthersKeepNumbers
  <2>6. Own(w)'
    BY <1>1, <1>2, <2>1 DEF Own, Counting, Creating, Editing
  <2>7. Apart'
    BY <1>2, <1>3, ApartKept
  <2>8. QED
    BY <2>4, <2>5, <2>6, <2>7 DEF NInv
<1>7. QED
  BY <1>4, <1>5, <1>6 DEF DestroyGroupHook

(* A request comes and goes. *)
LEMMA RequestNumbers ==
  ASSUME NumbersAssigned, TInv, NInv, NEW w \in Workers,
         FinishChain(w) \/ Return(w) \/ \E r \in Requests : Begin(w, r)
  PROVE  NInv'
<1>0. /\ draft \in [Workers -> Group] /\ pc \in [Workers -> States]
      /\ at \in [Workers -> 1..7] /\ req \in [Workers -> Requests \cup {NoRequest}]
      /\ todo \in [Workers -> SUBSET Groups] /\ largest \in [Workers -> 0..MaxInt32]
  BY DEF TInv, TypeOK, States
<1>1. CASE FinishChain(w)
  <2>1. Busy(w) /\ UNCHANGED <<store, req>> /\ OthersStay(w) /\ pc'[w] = "done"
    BY <1>0, <1>1 DEF FinishChain, LocalStep, Busy, OthersStay
  <2>2. QED
    BY <2>1, DoneOwnsNothing, LocalKeepsNumbers
<1>2. ASSUME OthersStay(w), UNCHANGED store, Own(w)', Apart'
      PROVE  NInv'
  <2>1. Stored' = Stored
    BY <1>2 DEF Stored
  <2>2. NamedByKey' /\ GroupNumbersUnique' /\ (Low => Low')
    BY <1>2, <2>1 DEF NInv, NamedByKey, GroupNumbersUnique, Low
  <2>3. ASSUME NEW v \in Workers \ {w}
        PROVE  Own(v)'
    <3>1. /\ pc'[v] = pc[v] /\ req'[v] = req[v] /\ at'[v] = at[v] /\ draft'[v] = draft[v]
          /\ todo'[v] = todo[v] /\ largest'[v] = largest[v] /\ Name(v)' = Name(v)
      BY <1>2 DEF OthersStay, Name
    <3>2. Counting(v) /\ Creating(v) /\ Editing(v)
      BY DEF NInv, Own
    <3>3. Counting(v)' /\ Editing(v)'
      BY <1>2, <3>1, <3>2 DEF Counting, Editing
    <3>4. Creating(v)'
      BY <1>2, <2>1, <2>2, <3>1, <3>2 DEF Creating
    <3>5. QED
      BY <3>3, <3>4 DEF Own
  <2>4. QED
    BY <1>2, <2>2, <2>3 DEF NInv
<1>3. CASE Return(w)
  <2>1. /\ pc'[w] = "idle" /\ largest'[w] = 0 /\ OthersStay(w) /\ UNCHANGED store
    BY <1>0, <1>3 DEF Return, OthersStay
  <2>2. Own(w)'
    BY <2>1 DEF Own, Counting, Creating, Editing
  <2>3. Apart'
    BY <2>1 DEF NInv, Apart, OthersStay, Busy
  <2>4. QED
    BY <1>2, <2>1, <2>2, <2>3
<1>4. ASSUME NEW r \in Requests, Begin(w, r)
      PROVE  NInv'
  <2>1. /\ ~Busy(w) /\ Admissible(r) /\ InBounds(r) /\ at[w] = 1 /\ largest[w] = 0
    BY <1>4 DEF Begin, Busy, TInv, Placed, NInv, Own, Counting
  <2>2. /\ pc'[w] = "hook" /\ req'[w] = r /\ at'[w] = 1 /\ largest'[w] = 0
        /\ OthersStay(w) /\ UNCHANGED store
    BY <1>0, <1>4, <2>1 DEF Begin, OthersStay
  <2>3. r.chain = "CREATE" => Low'
    BY <2>1, <2>2 DEF InBounds, NumbersAssigned, Low, Stored
  <2>4. Own(w)'
    BY <2>2, <2>3 DEF Own, Counting, Creating, Editing
  <2>5. \A v \in Workers \ {w} : Busy(v) => ~Conflict(req[v], r) /\ ~Conflict(r, req[v])
    BY <2>1 DEF Admissible, NumbersAssigned, Conflict
  <2>6. \A v \in Workers \ {w} : (Busy(v)' = Busy(v)) /\ req'[v] = req[v]
    BY <2>2 DEF OthersStay, Busy
  <2>7. Apart'
    BY <2>2, <2>5, <2>6 DEF NInv, Apart
  <2>8. QED
    BY <1>2, <2>2, <2>4, <2>7
<1>5. QED
  BY <1>1, <1>3, <1>4

-----------------------------------------------------------------------------
(* The first state. *)
LEMMA FirstNumbers == NumbersAssigned /\ Init => NInv
<1> SUFFICES ASSUME NumbersAssigned, Init PROVE NInv
  OBVIOUS
<1>1. store \in Populations /\ \A w \in Workers : pc[w] = "idle" /\ largest[w] = 0
  BY DEF Init
<1>2. NamedByKey
  BY <1>1, GroupPopulationsAssumption DEF NamedByKey, Stored
<1>3. GroupNumbersUnique
  BY <1>1 DEF NumbersAssigned, GroupNumbersUnique, Stored
<1>4. QED
  BY <1>1, <1>2, <1>3 DEF NInv, Apart, Busy, Own, Counting, Creating, Editing

(* Every step. *)
LEMMA StepNumbers == NumbersAssigned /\ TInv /\ NInv /\ [Next]_vars => NInv'
<1> SUFFICES ASSUME NumbersAssigned, TInv, NInv, [Next]_vars
             PROVE  NInv'
  OBVIOUS
<1>1. CASE UNCHANGED vars
  <2>1. UNCHANGED <<store, pc, req, at, draft, todo, largest>>
    BY <1>1 DEF vars, workerVars
  <2>2. Stored' = Stored /\ \A w \in Workers : Name(w)' = Name(w)
    BY <2>1 DEF Stored, Name
  <2>3. \A w \in Workers : Own(w)'
    BY <2>1, <2>2 DEF NInv, Own, Counting, Creating, Editing, Low
  <2>4. QED
    BY <2>1, <2>2, <2>3 DEF NInv, Apart, NamedByKey, GroupNumbersUnique, Busy
<1>2. ASSUME NEW w \in Workers, WorkerStep(w)
      PROVE  NInv'
  BY <1>2, LocalHookNumbers, NumberHookNumbers, CycleHookNumbers, SaveGroupNumbers,
     DestroyNumbers, RequestNumbers
  DEF WorkerStep
<1>3. ASSUME NEW w \in Workers, NEW r \in Requests, Begin(w, r)
      PROVE  NInv'
  BY <1>3, RequestNumbers
<1>4. QED
  BY <1>1, <1>2, <1>3 DEF Next

(* No two groups ever have the same number, although NextGroupNumber reads *)
(* them one by one without a lock while other groups are edited, as long   *)
(* as creations, removals and changes of rules are kept apart, nobody      *)
(* picks a number, and numbers do not run out.                             *)
THEOREM NumbersStayUnique ==
  ASSUME NumbersAssigned
  PROVE  Spec => []GroupNumbersUnique
<1>1. TInv /\ NInv /\ [Next]_vars => (TInv /\ NInv)'
  BY StepTypes, StepNumbers
<1>2. Init => TInv /\ NInv
  BY FirstTypes, FirstNumbers
<1>3. NInv => GroupNumbersUnique
  BY DEF NInv
<1>4. QED
  BY <1>1, <1>2, <1>3, PTL DEF Spec

-----------------------------------------------------------------------------
(***************************************************************************)
(* Rules.  A set of groups is closed if no rule of a member leads out of   *)
(* it.  Rules are free of cycles if for each group there is a closed set   *)
(* that holds the targets of its rules but not the group itself; and a     *)
(* rule about t can be added to n if there is one that holds t but not n.  *)
(***************************************************************************)
Closed(s) == \A h \in s \cap Stored : Targets(store[h].rules) \subseteq s

Clean(n, t) == \E s \in SUBSET Groups : Closed(s) /\ t \in s /\ n \notin s

NoWayBack ==
  \A g \in Stored : \E s \in SUBSET Groups :
    Closed(s) /\ Targets(store[g].rules) \subseteq s /\ g \notin s

(* Clients keep conflicting requests apart, no request names the group     *)
(* itself as the target, or smuggles a rule past the checks, and the rules *)
(* lead down to begin with.                                                *)
RulesChecked ==
  /\ Exclusive /\ RulesProposedOnly
  /\ \A r \in Requests : Proposes(r.dg) => r.dg.rule.target # r.dg.name
  /\ \A p \in Populations : \E depth \in [Groups -> Nat] :
       \A n \in Groups : p[n] # NoGroup =>
         \A t \in Targets(p[n].rules) : depth[t] < depth[n]

-----------------------------------------------------------------------------
(***************************************************************************)
(* The inductive invariant.  A change of rules has the rules to itself:    *)
(* what its walk has found to be clean stays clean until it saves, as the  *)
(* edits that run next to it save the rules that they loaded.              *)
(***************************************************************************)
Modifies(w) == req[w].chain = "MODIFY_EXPANSIONS" /\ Proposes(req[w].dg)

(* A new group has no rules. *)
NewRules(w) ==
  /\ pc[w] = "number" => req[w].chain = "CREATE"
  /\ pc[w] = "idle" \/ req[w].chain = "CREATE" => draft[w].rules = NoRules
  /\ pc[w] \in {"hook", "number"} /\ req[w].chain = "CREATE" /\ at[w] \in 4..6 =>
       draft[w].name = Name(w)

(* Any other group has the rules that were loaded, until they are patched. *)
OldRules(w) ==
  /\ pc[w] \in {"hook", "cycle"} /\ req[w].chain # "CREATE" /\ at[w] >= 2
  /\ ~(req[w].chain = "DESTROY" /\ at[w] >= 3)
  => /\ store[Name(w)] # NoGroup /\ draft[w].name = Name(w)
     /\ IF req[w].chain = "MODIFY_EXPANSIONS" /\ at[w] >= 6
          THEN Targets(draft[w].rules) \subseteq Targets(store[Name(w)].rules)
                 \cup (IF Proposes(req[w].dg) THEN {Child(w)} ELSE {})
          ELSE draft[w].rules = store[Name(w)].rules

(* If all that the walk has still to visit is clean, so is what is below   *)
(* the target of the rule; ...                                             *)
Walks(w) ==
  pc[w] = "cycle" =>
    /\ Proposes(req[w].dg) /\ store[Child(w)] # NoGroup
    /\ (\A i \in 1..Len(walk[w]) : \A t \in walk[w][i] : Clean(Name(w), t))
         => \A t \in Targets(store[Child(w)].rules) : Clean(Name(w), t)

(* ... so that after the walk the target is.                               *)
Walked(w) ==
  pc[w] = "hook" /\ Modifies(w) /\ at[w] \in 4..6 => Clean(Name(w), Child(w))

Ruling(w) == NewRules(w) /\ OldRules(w) /\ Walks(w) /\ Walked(w)

AInv == Apart /\ NamedByKey /\ NoWayBack /\ \A w \in Workers : Ruling(w)

-----------------------------------------------------------------------------
(* Induction over the natural numbers, by a set. *)
LEMMA SetInduction ==
  ASSUME NEW S \in SUBSET Nat, 0 \in S, \A n \in S : n + 1 \in S
  PROVE  S = Nat
<1> DEFINE R == OpToRel(<, Nat)
<1>1. IsWellFoundedOn(R, Nat)
  BY NatLessThanWellFounded
<1>2. \A x, y \in Nat : x < y => <<x, y>> \in R
  BY DEF OpToRel
<1> HIDE DEF R
<1>3. ASSUME Nat \ S # {} PROVE FALSE
  <2> DEFINE T == Nat \ S
  <2>0. T \subseteq Nat /\ T # {}
    BY <1>3
  <2> HIDE DEF T
  <2>1. PICK x \in T : \A y \in T : ~ (<<y, x>> \in R)
    BY <1>1, <2>0, WFMin
  <2>2. x \in Nat /\ x \notin S
    BY DEF T
  <2>3. x # 0 /\ x - 1 \in Nat /\ x - 1 < x /\ (x - 1) + 1 = x
    BY <2>2
  <2>4. x - 1 \in T
    BY <2>2, <2>3 DEF T
  <2>5. <<x - 1, x>> \in R
    BY <2>2, <2>3, <1>2
  <2> QED
    BY <2>1, <2>4, <2>5
<1> QED
  BY <1>3

(* What Reach(g) collects, level by level. *)
Below(g, s) == UNION {Targets(store[h].rules) : h \in (s \cup {g}) \cap Stored}

Levels(g, f, k) == f = [n \in 0..k |-> IF n = 0 THEN {} ELSE Below(g, f[n - 1])]

(* There are as many levels as one cares for. *)
LEMMA LevelsExist ==
  ASSUME NEW g, NEW k \in Nat
  PROVE  \E f : Levels(g, f, k)
<1> DEFINE S == {n \in Nat : \E f : Levels(g, f, n)}
<1>1. 0 \in S
  <2>1. Levels(g, [n \in 0..0 |-> {}], 0)
    BY DEF Levels
  <2> QED
    BY <2>1
<1>2. ASSUME NEW n \in S PROVE n + 1 \in S
  <2>1. PICK f : Levels(g, f, n)
    OBVIOUS
  <2> DEFINE h == [i \in 0..(n + 1) |-> IF i = 0 THEN {} ELSE Below(g, f[i - 1])]
  <2>2. n \in Nat /\ n + 1 \in Nat
    OBVIOUS
  <2>3. \A i \in 0..n : h[i] = f[i]
    <3>1. \A i \in 0..n : f[i] = IF i = 0 THEN {} ELSE Below(g, f[i - 1])
      BY <2>1 DEF Levels
    <3>2. \A i \in 0..(n + 1) : h[i] = IF i = 0 THEN {} ELSE Below(g, f[i - 1])
      OBVIOUS
    <3>3. 0..n \subseteq 0..(n + 1)
      BY <2>2
    <3> HIDE DEF h
    <3> QED
      BY <3>1, <3>2, <3>3
  <2>4. \A i \in 0..(n + 1) : i # 0 => i - 1 \in 0..n
    BY <2>2
  <2>5. \A i \in 0..(n + 1) : h[i] = IF i = 0 THEN {} ELSE Below(g, h[i - 1])
    BY <2>3, <2>4
  <2>6. h = [i \in 0..(n + 1) |-> h[i]]
    OBVIOUS
  <2> HIDE DEF h
  <2>7. Levels(g, h, n + 1)
    BY <2>5, <2>6 DEF Levels
  <2> QED
    BY <2>2, <2>7
<1>3. S \in SUBSET Nat
  OBVIOUS
<1> HIDE DEF S
<1>4. S = Nat
  BY <1>1, <1>2, <1>3, SetInduction
<1> QED
  BY <1>4 DEF S

(* Reach(g) is the last level. *)
LEMMA ReachLevels ==
  ASSUME NEW g
  PROVE  \E f : Levels(g, f, Cardinality(Groups)) /\ Reach(g) = f[Cardinality(Groups)]
<1> DEFINE f == CHOOSE h : Levels(g, h, Cardinality(Groups))
<1>1. Cardinality(Groups) \in Nat
  BY FS_CardinalityType, GroupNamesAssumption
<1>2. Levels(g, f, Cardinality(Groups))
  BY <1>1, LevelsExist
<1>3. Reach(g) = f[Cardinality(Groups)]
  BY DEF Reach, Levels, Below
<1> QED
  BY <1>2, <1>3


(* Whatever is closed under rules and holds the targets of g holds all     *)
(* that g can reach.                                                       *)
LEMMA ReachInClosed ==
  ASSUME NEW g \in Stored, NEW s, Closed(s), Targets(store[g].rules) \subseteq s
  PROVE  Reach(g) \subseteq s
<1> DEFINE N == Cardinality(Groups)
<1>0. N \in Nat
  BY FS_CardinalityType, GroupNamesAssumption
<1>1. PICK f : Levels(g, f, N) /\ Reach(g) = f[N]
  BY ReachLevels
<1> HIDE DEF N
<1> DEFINE S == {n \in Nat : n \in 0..N => f[n] \subseteq s}
<1>2. 0 \in S
  BY <1>0, <1>1 DEF Levels
<1>3. ASSUME NEW n \in S PROVE n + 1 \in S
  <2>1. SUFFICES ASSUME n + 1 \in 0..N PROVE f[n + 1] \subseteq s
    OBVIOUS
  <2>2. n \in 0..N /\ (n + 1) - 1 = n /\ n + 1 # 0
    BY <1>0, <2>1
  <2>3. f[n] \subseteq s
    BY <2>2
  <2>4. f[n + 1] = Below(g, f[n])
    BY <1>1, <2>1, <2>2 DEF Levels
  <2> QED
    BY <2>3, <2>4 DEF Below, Closed
<1>4. S \in SUBSET Nat
  OBVIOUS
<1>5. S = Nat
  <2> HIDE DEF S
  <2> QED
    BY <1>2, <1>3, <1>4, SetInduction
<1>6. N \in 0..N
  BY <1>0
<1> QED
  BY <1>0, <1>1, <1>5, <1>6
-----------------------------------------------------------------------------
(* Storage holds the same rules under the same names. *)
RulesStay == Stored' = Stored /\ \A n \in Stored : store'[n].rules = store[n].rules

(* Then what is closed and clean stays so. *)
LEMMA CleanStays ==
  ASSUME RulesStay
  PROVE  /\ \A s : Closed(s)' <=> Closed(s)
         /\ \A n, t : Clean(n, t)' <=> Clean(n, t)
         /\ NoWayBack => NoWayBack'
<1>1. ASSUME NEW s PROVE Closed(s)' <=> Closed(s)
  BY DEF RulesStay, Closed
<1>2. ASSUME NEW n, NEW t PROVE Clean(n, t)' <=> Clean(n, t)
  BY <1>1 DEF Clean
<1>3. ASSUME NoWayBack PROVE NoWayBack'
  BY <1>1, <1>3 DEF NoWayBack, RulesStay
<1>4. QED
  BY <1>1, <1>2, <1>3

(* One step of the walk, backwards: a group other than n is clean if all   *)
(* that its rules are about is.                                            *)
LEMMA CleanAbove ==
  ASSUME NEW n, NEW t \in Groups, t # n,
         t \in Stored => \A c \in Targets(store[t].rules) : Clean(n, c)
  PROVE  Clean(n, t)
<1> DEFINE all == {c \in Groups : Clean(n, c)}
           s == all \cup {t}
<1>1. all \in SUBSET Groups /\ s \in SUBSET Groups /\ t \in s
  OBVIOUS
<1>2. \A k \in SUBSET Groups : Closed(k) /\ n \notin k => k \subseteq all
  BY DEF Clean
<1>3. n \notin s
  BY DEF Clean
<1>4. Closed(s)
  <2>1. SUFFICES ASSUME NEW h \in s \cap Stored, NEW c \in Targets(store[h].rules)
                 PROVE  c \in s
    BY DEF Closed
  <2>2. CASE h # t
    <3>1. PICK k \in SUBSET Groups : Closed(k) /\ h \in k /\ n \notin k
      BY <2>1, <2>2 DEF Clean
    <3>2. c \in k
      BY <2>1, <3>1 DEF Closed
    <3>3. QED
      BY <1>2, <3>1, <3>2
  <2>3. CASE h = t
    <3>1. Clean(n, c)
      BY <2>1, <2>3
    <3>2. c \in Groups
      BY <3>1 DEF Clean
    <3>3. QED
      BY <3>1, <3>2
  <2>4. QED
    BY <2>2, <2>3
<1> HIDE DEF s
<1>5. QED
  BY <1>1, <1>3, <1>4 DEF Clean

(* Rules that lead into a closed set without the group itself close no     *)
(* cycle.                                                                  *)
LEMMA CleanRuleKeepsNoWayBack ==
  ASSUME NoWayBack, NEW p \in Groups, NEW k \in SUBSET Groups, Closed(k), p \notin k,
         Stored' = Stored, p \in Stored,
         \A n \in Stored \ {p} : store'[n].rules = store[n].rules,
         Targets(store'[p].rules) \subseteq Targets(store[p].rules) \cup k
  PROVE  NoWayBack'
<1>1. SUFFICES ASSUME NEW g \in Stored
               PROVE  \E s \in SUBSET Groups :
                        Closed(s)' /\ Targets(store'[g].rules) \subseteq s /\ g \notin s
  BY DEF NoWayBack
<1>2. PICK b \in SUBSET Groups : Closed(b) /\ Targets(store[g].rules) \subseteq b /\ g \notin b
  BY DEF NoWayBack
<1>3. CASE g = p
  <2>1. b \cup k \in SUBSET Groups /\ g \notin b \cup k
    BY <1>2, <1>3
  <2>2. Closed(b \cup k)'
    BY <1>2, <1>3 DEF Closed
  <2>3. Targets(store'[g].rules) \subseteq b \cup k
    BY <1>2, <1>3
  <2>4. QED
    BY <2>1, <2>2, <2>3
<1>4. CASE g # p /\ p \notin b
  <2>1. Closed(b)' /\ Targets(store'[g].rules) \subseteq b
    BY <1>2, <1>4 DEF Closed
  <2>2. QED
    BY <1>2, <2>1
<1>5. CASE g # p /\ p \in b /\ g \in k
  <2>1. b \cap k \in SUBSET Groups /\ g \notin b \cap k
    BY <1>2
  <2>2. Closed(b \cap k)'
    BY <1>2 DEF Closed
  <2>3. Targets(store'[g].rules) \subseteq b \cap k
    BY <1>2, <1>5 DEF Closed
  <2>4. QED
    BY <2>1, <2>2, <2>3
<1>6. CASE g # p /\ p \in b /\ g \notin k
  <2>1. b \cup k \in SUBSET Groups /\ g \notin b \cup k
    BY <1>2, <1>6
  <2>2. Targets(store'[p].rules) \subseteq b \cup k
    BY <1>2, <1>6 DEF Closed
  <2>3. Closed(b \cup k)'
    BY <1>2, <2>2 DEF Closed
  <2>4. Targets(store'[g].rules) \subseteq b \cup k
    BY <1>2, <1>6
  <2>5. QED
    BY <2>1, <2>3, <2>4
<1>7. QED
  BY <1>3, <1>4, <1>5, <1>6

(* Nor does a group that gets, or is left with, no rules of its own.       *)
LEMMA FewerRulesKeepNoWayBack ==
  ASSUME NoWayBack, NEW p \in Groups,
         Stored' \subseteq Stored \cup {p},
         \A n \in Stored' \ {p} : store'[n].rules = store[n].rules,
         p \in Stored' => Targets(store'[p].rules) = {}
  PROVE  NoWayBack'
<1>1. \A s : Closed(s) => Closed(s)'
  BY DEF Closed
<1>2. ASSUME NEW g \in Stored'
      PROVE  \E s \in SUBSET Groups :
               Closed(s)' /\ Targets(store'[g].rules) \subseteq s /\ g \notin s
  <2>1. CASE g = p
    <3>1. Closed({})'
      BY DEF Closed
    <3>2. QED
      BY <1>2, <2>1, <3>1
  <2>2. CASE g # p
    BY <1>1, <1>2, <2>2 DEF NoWayBack
  <2>3. QED
    BY <2>1, <2>2
<1>3. QED
  BY <1>2 DEF NoWayBack

-----------------------------------------------------------------------------
(* The hooks that edit a draft leave its rules alone, but for the one that *)
(* patches them.                                                           *)
LEMMA GroupHookKeepsRules ==
  ASSUME NEW h \in GroupDraftHooks, NEW g \in Group, NEW d \in DataGroup,
         h # "patch-group-expansions", h = "merge-group-meta" => ~Proposes(d)
  PROVE  GroupHookResult(h, g, d).rules = g.rules
<1>1. CASE h = "set-group-name"
  BY <1>1 DEF GroupHookResult, SetGroupName, Group
<1>2. CASE h = "set-group-displayname"
  BY <1>2 DEF GroupHookResult, SetGroupDisplayName, Group
<1>3. CASE h = "merge-group-meta"
  <2>1. Expanded(g.rules, d.rule) = g.rules
    BY <1>3 DEF Expanded, Proposes
  <2>2. QED
    BY <1>3, <2>1 DEF GroupHookResult, MergeGroupMeta, Group
<1>4. CASE h \in {"set-group-capability", "remove-group-capability"}
  <2>1. \E add \in BOOLEAN : GroupHookResult(h, g, d) = ManageGroupCapabilities(add, g, d)
    BY <1>4 DEF GroupHookResult
  <2>2. QED
    BY <1>4, <2>1 DEF ManageGroupCapabilities, Group
<1>5. CASE h \in {"add-untyped-metadata", "del-untyped-metadata-fuzzy",
                  "del-untyped-metadata-exact"}
  <2>1. \E mode \in {"UPSERT", "CLEARFUZZY", "CLEAREXACT"} :
          GroupHookResult(h, g, d) = ManageGroupUM(mode, g, d)
    BY <1>5 DEF GroupHookResult
  <2>2. QED
    BY <1>5, <2>1 DEF ManageGroupUM, Group
<1>6. CASE h \in {"kv-add", "kv-del", "kv-replace"}
  <2>1. \E mode \in {"add", "del", "replace"} :
          GroupHookResult(h, g, d) = GroupKVChange(mode, g, d)
    BY <1>6 DEF GroupHookResult
  <2>2. QED
    BY <1>6, <2>1 DEF GroupKVChange, Group
<1>7. CASE h = "check-immediate-expansions"
  BY <1>7 DEF GroupHookResult
<1>8. QED
  BY <1>1, <1>2, <1>3, <1>4, <1>5, <1>6, <1>7
  DEF GroupDraftHooks, GroupEditHooks, GroupEditChains, GroupEditHook

-----------------------------------------------------------------------------
WalksStay(w) == \A v \in Workers \ {w} : walk'[v] = walk[v]

(* The requests of others keep what they have loaded and found. *)
LEMMA OthersKeepRules ==
  ASSUME TInv, AInv, NEW w \in Workers, Busy(w), OthersStay(w), WalksStay(w),
         GroupsStay(w), RulesStay \/ req[w].chain \in Structural,
         NEW v \in Workers \ {w}
  PROVE  Ruling(v)'
<1>0. /\ pc'[v] = pc[v] /\ req'[v] = req[v] /\ at'[v] = at[v] /\ draft'[v] = draft[v]
      /\ walk'[v] = walk[v]
  BY DEF OthersStay, WalksStay
<1>1. /\ Name(v)' = Name(v) /\ Child(v)' = Child(v)
      /\ Modifies(v)' = Modifies(v) /\ Proposes(req[v].dg)' = Proposes(req[v].dg)
  BY <1>0 DEF Name, Child, Modifies, Proposes
<1>2. NewRules(v) /\ OldRules(v) /\ Walks(v) /\ Walked(v)
  BY DEF AInv, Ruling
<1>3. NewRules(v)'
  BY <1>0, <1>1, <1>2 DEF NewRules
<1>4. ASSUME Busy(v)
      PROVE  /\ Name(v) \in Groups /\ Name(v) # Name(w) /\ req[v] \in GroupRequest
             /\ req[v].chain = "MODIFY_EXPANSIONS" => RulesStay
  <2>1. ~Conflict(req[v], req[w])
    BY <1>4 DEF AInv, Apart
  <2>2. req[v] \in GroupRequest
    BY <1>4, GroupRequestsAssumption DEF TInv, Placed, Busy
  <2>3. QED
    BY <2>1, <2>2, RequestNames DEF Conflict, Structural, Name
<1>5. OldRules(v)'
  <2>1. SUFFICES ASSUME Busy(v) PROVE OldRules(v)'
    BY <1>0 DEF OldRules, Busy
  <2>2. store'[Name(v)] = store[Name(v)]
    BY <1>4, <2>1 DEF GroupsStay
  <2>3. QED
    BY <1>0, <1>1, <1>2, <2>2 DEF OldRules
<1>6. Walks(v)'
  <2>1. SUFFICES ASSUME pc[v] = "cycle" PROVE Walks(v)'
    BY <1>0 DEF Walks
  <2>2. RulesStay /\ Child(v) \in Groups
    BY <1>2, <1>4, <2>1, RequestNames DEF TInv, Placed, Busy, Walks, Child
  <2>3. /\ store[Child(v)] # NoGroup
        /\ Child(v) \in Stored /\ Child(v) \in Stored'
        /\ store'[Child(v)].rules = store[Child(v)].rules
    BY <1>2, <2>1, <2>2 DEF Walks, RulesStay, Stored
  <2>4. store'[Child(v)] # NoGroup
    BY <2>3 DEF Stored
  <2>5. \A t : Clean(Name(v), t)' <=> Clean(Name(v), t)
    BY <1>1, <2>2, CleanStays DEF Clean
  <2>6. QED
    BY <1>0, <1>1, <1>2, <2>1, <2>3, <2>4, <2>5 DEF Walks
<1>7. Walked(v)'
  <2>1. SUFFICES ASSUME pc[v] = "hook", Modifies(v) PROVE Walked(v)'
    BY <1>0, <1>1 DEF Walked
  <2>2. RulesStay
    BY <1>4, <2>1 DEF Busy, Modifies
  <2>3. Clean(Name(v), Child(v))' <=> Clean(Name(v), Child(v))
    BY <1>1, <2>2, CleanStays DEF Clean
  <2>4. QED
    BY <1>0, <1>1, <1>2, <2>3 DEF Walked
<1>8. QED
  BY <1>3, <1>5, <1>6, <1>7 DEF Ruling

(* A step that leaves storage alone has its own request to answer for. *)
LEMMA LocalKeepsRules ==
  ASSUME TInv, AInv, NEW w \in Workers, Busy(w), OthersStay(w), WalksStay(w),
         UNCHANGED <<store, req>>, Ruling(w)'
  PROVE  AInv'
<1>1. Stored' = Stored
  BY DEF Stored
<1>2. NamedByKey' /\ RulesStay /\ GroupsStay(w)
  BY <1>1 DEF AInv, NamedByKey, RulesStay, GroupsStay
<1>3. NoWayBack'
  BY <1>2, CleanStays DEF AInv
<1>4. \A v \in Workers \ {w} : Ruling(v)'
  BY <1>2, OthersKeepRules
<1>5. Apart'
  BY DEF AInv, Apart, OthersStay, Busy
<1>6. QED
  BY <1>2, <1>3, <1>4, <1>5 DEF AInv

(* A request that is answered has nothing to keep. *)
LEMMA DoneRules ==
  ASSUME AInv, NEW w \in Workers, pc'[w] = "done", UNCHANGED req,
         draft'[w].rules = draft[w].rules, Busy(w)
  PROVE  Ruling(w)'
BY DEF AInv, Ruling, NewRules, OldRules, Walks, Walked, Busy

(* Where the hooks are that rules depend on. *)
RulePlace(c, i, h) ==
  /\ h = "check-expansion-cycles" <=> c = "MODIFY_EXPANSIONS" /\ i = 3
  /\ h = "patch-group-expansions" <=> c = "MODIFY_EXPANSIONS" /\ i = 5
  /\ h = "merge-group-meta" => c = "MERGE_METADATA"
  /\ c = "MODIFY_EXPANSIONS" => (h = "save-group" <=> i = 6)

(* They are there in every chain, ... *)
LEMMA RulePlaces ==
  ASSUME NEW c \in GroupChains, NEW i \in DOMAIN GroupChain[c]
  PROVE  RulePlace(c, i, GroupChain[c][i])
<1>1. CASE c \in {"CREATE", "DESTROY", "FETCH", "MODIFY_EXPANSIONS"}
  BY <1>1, GroupChainCases DEF RulePlace
<1>2. CASE c \in GroupEditChains
  <2>1. GroupEditHook[c] \in GroupEditHooks /\ c # "MODIFY_EXPANSIONS"
    BY <1>2, GroupChainsDistinct
  <2>2. GroupChain[c] = <<"load-group", GroupEditHook[c], "save-group">>
    BY <1>2, GroupChainCases
  <2>3. GroupEditHook[c] = "merge-group-meta" => c = "MERGE_METADATA"
    BY <1>2 DEF GroupEditChains, GroupEditHook
  <2>4. QED
    BY <2>1, <2>2, <2>3, GroupEditHooksApart DEF RulePlace
<1>3. QED
  BY <1>1, <1>2 DEF GroupChains

(* ... and so is a hook that runs. *)
LEMMA HookRuled ==
  ASSUME TInv, NEW w \in Workers, NEW h, InChain(w, h)
  PROVE  RulePlace(req[w].chain, at[w], h)
<1>1. req[w] \in GroupRequest
  BY HookPlaced
<1>2. req[w].chain \in GroupChains /\ at[w] \in DOMAIN GroupChain[req[w].chain]
  BY <1>1 DEF GroupRequest, InChain, Chain
<1>3. QED
  BY <1>2, RulePlaces DEF InChain, Chain

(* What a hook makes of the rules of its draft. *)
DraftRules(w, h) ==
  CASE h = "load-group" -> store[Name(w)] # NoGroup /\ draft'[w] = store[Name(w)]
    [] h = "patch-group-expansions" ->
         /\ draft'[w].name = draft[w].name
         /\ Targets(draft'[w].rules) \subseteq Targets(draft[w].rules)
              \cup (IF Proposes(req[w].dg) THEN {Child(w)} ELSE {})
    [] OTHER ->
         /\ draft'[w].rules = draft[w].rules
         /\ draft'[w].name = IF h = "set-group-name" THEN Name(w) ELSE draft[w].name

(* From one hook to the next, but for those that write and the walk. *)
LEMMA AdvanceRules ==
  ASSUME TInv, AInv, NEW w \in Workers, NEW h, InChain(w, h),
         h \notin {"save-group", "destroy-group", "check-expansion-cycles"},
         pc'[w] = "hook", at'[w] = at[w] + 1,
         UNCHANGED <<store, req>>, DraftRules(w, h)
  PROVE  Ruling(w)'
<1>1. /\ pc[w] = "hook" /\ at[w] \in 1..6 /\ Name(w) \in Groups
      /\ NumberPlace(req[w].chain, at[w], h) /\ RulePlace(req[w].chain, at[w], h)
  BY HookNumbered, HookRuled
<1>2. NewRules(w) /\ OldRules(w) /\ Walked(w)
  BY DEF AInv, Ruling
<1>3. /\ Name(w)' = Name(w) /\ Child(w)' = Child(w) /\ Stored' = Stored
      /\ Modifies(w)' = Modifies(w) /\ Proposes(req[w].dg)' = Proposes(req[w].dg)
  BY DEF Name, Child, Stored, Modifies, Proposes
<1>4. NewRules(w)'
  <2>1. SUFFICES ASSUME req[w].chain = "CREATE" PROVE NewRules(w)'
    BY DEF NewRules
  <2>2. h \notin {"load-group", "patch-group-expansions"} /\ at[w] \in 1..5
    BY <1>1, <2>1 DEF NumberPlace, RulePlace
  <2>3. /\ draft'[w].rules = draft[w].rules
        /\ draft'[w].name = IF h = "set-group-name" THEN Name(w) ELSE draft[w].name
    BY <2>2, Zenon DEF DraftRules
  <2>4. at'[w] \in 4..6 => h = "set-group-name" \/ at[w] \in 4..6
    BY <1>1, <2>1, <2>2 DEF NumberPlace
  <2>5. QED
    BY <1>1, <1>2, <1>3, <2>1, <2>3, <2>4 DEF NewRules
<1>5. OldRules(w)'
  <2>1. SUFFICES ASSUME req[w].chain \notin {"CREATE", "DESTROY"}
                 PROVE  OldRules(w)'
    <3>1. req[w].chain = "DESTROY" => at[w] = 1 /\ h = "load-group"
      BY <1>1 DEF NumberPlace
    <3>2. h = "load-group" => store[Name(w)] # NoGroup /\ draft'[w] = store[Name(w)]
      BY Zenon DEF DraftRules
    <3>3. store[Name(w)] # NoGroup => store[Name(w)].name = Name(w)
      BY <1>1 DEF AInv, NamedByKey, Stored
    <3>4. req[w].chain = "DESTROY" => OldRules(w)'
      BY <1>3, <3>1, <3>2, <3>3 DEF OldRules
    <3>5. QED
      BY <2>1, <3>4 DEF OldRules
  <2>2. CASE h = "load-group"
    <3>1. at[w] = 1 /\ store[Name(w)] # NoGroup /\ draft'[w] = store[Name(w)]
      BY <1>1, <2>1, <2>2, Zenon DEF NumberPlace, DraftRules
    <3>2. store[Name(w)].name = Name(w)
      BY <1>1, <3>1 DEF AInv, NamedByKey, Stored
    <3>3. QED
      BY <1>3, <3>1, <3>2 DEF OldRules
  <2>3. CASE h = "patch-group-expansions"
    <3>1. at[w] = 5 /\ req[w].chain = "MODIFY_EXPANSIONS"
      BY <1>1, <2>3 DEF RulePlace
    <3>2. /\ draft'[w].name = draft[w].name
          /\ Targets(draft'[w].rules) \subseteq Targets(draft[w].rules)
               \cup (IF Proposes(req[w].dg) THEN {Child(w)} ELSE {})
      BY <2>3, Zenon DEF DraftRules
    <3>3. /\ store[Name(w)] # NoGroup /\ draft[w].name = Name(w)
          /\ draft[w].rules = store[Name(w)].rules
      BY <1>1, <1>2, <3>1 DEF OldRules
    <3>4. QED
      BY <1>3, <3>1, <3>2, <3>3 DEF OldRules
  <2>4. CASE h \notin {"load-group", "patch-group-expansions"}
    <3>1. /\ draft'[w].rules = draft[w].rules
          /\ draft'[w].name = IF h = "set-group-name" THEN Name(w) ELSE draft[w].name
      BY <2>4, Zenon DEF DraftRules
    <3>2. /\ at[w] >= 2 /\ h # "set-group-name"
          /\ req[w].chain = "MODIFY_EXPANSIONS" => at[w] \notin {3, 5, 6}
      BY <1>1, <2>1, <2>4 DEF NumberPlace, RulePlace
    <3>3. /\ store[Name(w)] # NoGroup /\ draft[w].name = Name(w)
          /\ draft[w].rules = store[Name(w)].rules
      BY <1>1, <1>2, <2>1, <3>2 DEF OldRules
    <3>4. req[w].chain = "MODIFY_EXPANSIONS" => at'[w] < 6
      BY <1>1, <3>2
    <3>5. QED
      BY <1>3, <3>1, <3>2, <3>3, <3>4 DEF OldRules
  <2>5. QED
    BY <2>2, <2>3, <2>4
<1>6. Walks(w)'
  BY DEF Walks
<1>7. Walked(w)'
  <2>1. SUFFICES ASSUME Modifies(w), at'[w] \in 4..6 PROVE Walked(w)'
    BY <1>3 DEF Walked
  <2>2. at[w] \in 4..6
    BY <1>1, <2>1 DEF RulePlace, Modifies
  <2>3. Clean(Name(w), Child(w))
    BY <1>1, <1>2, <2>1, <2>2 DEF Walked
  <2>4. RulesStay
    BY <1>3 DEF RulesStay
  <2>5. Clean(Name(w), Child(w))'
    BY <1>3, <2>3, <2>4, CleanStays DEF Clean
  <2>6. QED
    BY <2>5 DEF Walked
<1>8. QED
  BY <1>4, <1>5, <1>6, <1>7 DEF Ruling

-----------------------------------------------------------------------------
(* The hooks that read storage and edit the draft. *)
LEMMA LocalHookRules ==
  ASSUME RulesProposedOnly, TInv, AInv, NEW w \in Workers,
         LoadGroup(w) \/ FailOnExistingGroup(w) \/ SetManagingGroup(w)
           \/ CheckExpansionTargets(w) \/ \E h \in GroupDraftHooks : RunGroupHook(w, h)
  PROVE  AInv'
<1>0. /\ draft \in [Workers -> Group] /\ pc \in [Workers -> States]
      /\ at \in [Workers -> 1..7]
  BY DEF TInv, TypeOK, States
<1>1. /\ Busy(w) /\ UNCHANGED <<store, req, todo, largest, walk>>
  BY DEF LoadGroup, FailOnExistingGroup, SetManagingGroup, CheckExpansionTargets,
         RunGroupHook, LocalStep, InChain, Busy
<1>2. OthersStay(w) /\ WalksStay(w)
  BY <1>0, <1>1 DEF LoadGroup, FailOnExistingGroup, SetManagingGroup,
         CheckExpansionTargets, RunGroupHook, Advance, Fail, OthersStay, WalksStay
<1>3. SUFFICES Ruling(w)'
  BY <1>1, <1>2, LocalKeepsRules
<1>4. CASE \E err : Fail(w, err)
  <2>1. pc'[w] = "done" /\ ~Advance(w)
    BY <1>0, <1>4 DEF Fail, Advance
  <2>2. draft'[w].rules = draft[w].rules
    BY <1>0, <2>1 DEF LoadGroup, FailOnExistingGroup, SetManagingGroup,
       CheckExpansionTargets, RunGroupHook
  <2>3. QED
    BY <1>1, <2>1, <2>2, DoneRules
<1>5. Advance(w) => pc'[w] = "hook" /\ at'[w] = at[w] + 1
  BY <1>0 DEF Advance
<1>6. CASE LoadGroup(w) /\ Advance(w)
  <2>1. InChain(w, "load-group")
    BY <1>6 DEF LoadGroup
  <2>2. store[Name(w)] # NoGroup /\ draft'[w] = store[Name(w)]
    BY <1>0, <1>5, <1>6 DEF LoadGroup, Fail
  <2>3. DraftRules(w, "load-group")
    BY <2>2, Zenon DEF DraftRules
  <2>4. QED
    BY <1>1, <1>5, <1>6, <2>1, <2>3, AdvanceRules
<1>7. CASE /\ FailOnExistingGroup(w) \/ CheckExpansionTargets(w)
           /\ Advance(w)
  <2>1. PICK h \in {"fail-on-existing-group", "check-expansion-targets"} : InChain(w, h)
    BY <1>7 DEF FailOnExistingGroup, CheckExpansionTargets
  <2>2. draft' = draft
    BY <1>7 DEF FailOnExistingGroup, CheckExpansionTargets
  <2>3. h \notin {"load-group", "patch-group-expansions", "set-group-name",
                  "save-group", "destroy-group", "check-expansion-cycles"}
    OBVIOUS
  <2>4. DraftRules(w, h)
    BY <2>2, <2>3, Zenon DEF DraftRules
  <2>5. QED
    BY <1>1, <1>5, <1>7, <2>1, <2>3, <2>4, AdvanceRules
<1>8. CASE SetManagingGroup(w) /\ Advance(w)
  <2>1. InChain(w, "set-managing-group")
    BY <1>8 DEF SetManagingGroup
  <2>2. draft'[w].rules = draft[w].rules /\ draft'[w].name = draft[w].name
    BY <1>0, <1>8 DEF SetManagingGroup, Group
  <2>3. DraftRules(w, "set-managing-group")
    BY <2>2, Zenon DEF DraftRules
  <2>4. QED
    BY <1>1, <1>5, <1>8, <2>1, <2>3, AdvanceRules
<1>9. ASSUME NEW h \in GroupDraftHooks, RunGroupHook(w, h), Advance(w)
      PROVE  Ruling(w)'
  <2>1. /\ InChain(w, h) /\ req[w].dg \in DataGroup /\ req[w] \in Requests
        /\ RulePlace(req[w].chain, at[w], h)
    BY <1>9, HookNumbered, HookRuled DEF RunGroupHook
  <2>2. draft'[w] = GroupHookResult(h, draft[w], req[w].dg)
    BY <1>0, <1>5, <1>9 DEF RunGroupHook, Fail
  <2>3. draft'[w].name = IF h = "set-group-name" THEN Name(w) ELSE draft[w].name
    BY <1>0, <2>1, <2>2, GroupHookKeepsNumber DEF Name
  <2>4. h \notin {"load-group", "save-group", "destroy-group", "check-expansion-cycles"}
    BY DEF GroupDraftHooks, GroupEditHooks, GroupEditChains, GroupEditHook
  <2>5. CASE h = "patch-group-expansions"
    <3>1. Targets(draft'[w].rules) \subseteq Targets(draft[w].rules)
            \cup (IF Proposes(req[w].dg) THEN {Child(w)} ELSE {})
      BY <1>0, <2>1, <2>2, <2>5, GroupHookResultType DEF Proposed, Child
    <3>2. QED
      BY <1>1, <1>5, <1>9, <2>1, <2>3, <2>4, <2>5, <3>1, AdvanceRules, Zenon DEF DraftRules
  <2>6. CASE h # "patch-group-expansions"
    <3>1. h = "merge-group-meta" => ~Proposes(req[w].dg)
      BY <2>1 DEF RulePlace, RulesProposedOnly
    <3>2. draft'[w].rules = draft[w].rules
      BY <1>0, <2>1, <2>2, <2>6, <3>1, GroupHookKeepsRules
    <3>3. DraftRules(w, h)
      BY <2>3, <2>4, <2>6, <3>2, Zenon DEF DraftRules
    <3>4. QED
      BY <1>1, <1>5, <1>9, <2>1, <2>4, <3>3, AdvanceRules
  <2>7. QED
    BY <2>5, <2>6
<1>10. Advance(w) \/ \E err : Fail(w, err)
  BY DEF LoadGroup, FailOnExistingGroup, SetManagingGroup, CheckExpansionTargets,
         RunGroupHook
<1>11. QED
  BY <1>4, <1>6, <1>7, <1>8, <1>9, <1>10

(* The number of a new group. *)
LEMMA NumberHookRules ==
  ASSUME TInv, AInv, NEW w \in Workers,
         SetGroupNumber(w) \/ (\E n \in Groups : ScanNumber(w, n)) \/ AssignNumber(w)
  PROVE  AInv'
<1>0. /\ draft \in [Workers -> Group] /\ pc \in [Workers -> States]
      /\ at \in [Workers -> 1..7]
      /\ todo \in [Workers -> SUBSET Groups] /\ largest \in [Workers -> 0..MaxInt32]
  BY DEF TInv, TypeOK, States
<1>1. Busy(w) /\ UNCHANGED <<store, req, walk>>
  BY DEF SetGroupNumber, ScanNumber, AssignNumber, LocalStep, InChain, Busy
<1>2. OthersStay(w) /\ WalksStay(w)
  BY <1>0, <1>1 DEF SetGroupNumber, ScanNumber, AssignNumber, Advance, Fail, OthersStay,
         WalksStay
<1>3. SUFFICES Ruling(w)'
  BY <1>1, <1>2, LocalKeepsRules
<1>4. /\ draft'[w].rules = draft[w].rules /\ draft'[w].name = draft[w].name
  BY <1>0 DEF SetGroupNumber, ScanNumber, AssignNumber, Group
<1>5. /\ pc[w] \in {"hook", "number"} /\ at[w] = 5 /\ req[w].chain = "CREATE"
  <2>1. CASE SetGroupNumber(w)
    BY <2>1, HookNumbered DEF SetGroupNumber, NumberPlace
  <2>2. CASE pc[w] = "number"
    BY <2>2 DEF AInv, Ruling, NewRules, TInv, Placed
  <2>3. QED
    BY <2>1, <2>2 DEF ScanNumber, AssignNumber
<1>6. pc'[w] \in {"hook", "number", "done"}
  <2>1. \/ Advance(w) \/ (\E err : Fail(w, err)) \/ pc' = [pc EXCEPT ![w] = "number"]
        \/ pc' = pc
    BY DEF SetGroupNumber, ScanNumber, AssignNumber
  <2>2. QED
    BY <1>0, <1>5, <2>1 DEF Advance, Fail
<1>7. NewRules(w)
  BY DEF AInv, Ruling
<1>8. Name(w)' = Name(w)
  BY <1>1 DEF Name
<1>9. QED
  BY <1>1, <1>4, <1>5, <1>6, <1>7, <1>8
  DEF Ruling, NewRules, OldRules, Walks, Walked, Modifies

(* The walk starts below the target of the rule, goes on below each group  *)
(* that it visits, and ends when nothing is left.                          *)
LEMMA CycleHookRules ==
  ASSUME RulesChecked, TInv, AInv, NEW w \in Workers,
         CheckExpansionCycles(w) \/ (\E t \in Groups : Visit(w, t)) \/ Ascend(w)
  PROVE  AInv'
<1>0. /\ pc \in [Workers -> States] /\ at \in [Workers -> 1..7]
      /\ walk \in [Workers -> Seq(SUBSET Groups)] /\ walk[w] \in Seq(SUBSET Groups)
      /\ store \in [Groups -> Group \cup {NoGroup}]
  BY DEF TInv, TypeOK, States
<1>1. Busy(w) /\ UNCHANGED <<store, req, draft, todo, largest>>
  BY DEF CheckExpansionCycles, Visit, Ascend, LocalStep, InChain, Busy
<1>2. OthersStay(w) /\ WalksStay(w)
  BY <1>0, <1>1 DEF CheckExpansionCycles, Visit, Ascend, Advance, Fail, OthersStay, WalksStay
<1>3. SUFFICES Ruling(w)'
  BY <1>1, <1>2, LocalKeepsRules
<1>4. pc[w] \in {"hook", "cycle"} /\ at[w] = 3 /\ req[w].chain = "MODIFY_EXPANSIONS"
  <2>1. CASE CheckExpansionCycles(w)
    BY <2>1, HookPlaced DEF CheckExpansionCycles, PlaceOf, InChain
  <2>2. CASE pc[w] = "cycle"
    BY <2>2 DEF TInv, Placed
  <2>3. QED
    BY <2>1, <2>2 DEF Visit, Ascend
<1>5. req[w] \in Requests /\ req[w] \in GroupRequest /\ Name(w) \in Groups
  BY <1>4, GroupRequestsAssumption, RequestNames DEF TInv, Placed, Name
<1>6. /\ store[Name(w)] # NoGroup /\ draft[w].name = Name(w)
      /\ draft[w].rules = store[Name(w)].rules
  BY <1>4 DEF AInv, Ruling, OldRules
<1>7. /\ Name(w)' = Name(w) /\ Child(w)' = Child(w) /\ Stored' = Stored
      /\ Modifies(w)' = Modifies(w) /\ Proposes(req[w].dg)' = Proposes(req[w].dg)
  BY <1>1 DEF Name, Child, Stored, Modifies, Proposes
<1>8. \A t : Clean(Name(w), t)' <=> Clean(Name(w), t)
  <2>1. RulesStay
    BY <1>1, <1>7 DEF RulesStay
  <2>2. QED
    BY <1>7, <2>1, CleanStays DEF Clean
<1>9. ASSUME pc'[w] \in {"hook", "cycle", "done"}, at'[w] \in {3, 4}, Walks(w)', Walked(w)'
      PROVE  Ruling(w)'
  BY <1>1, <1>4, <1>6, <1>7, <1>9 DEF Ruling, NewRules, OldRules
<1>10. CASE \E err : Fail(w, err)
  BY <1>0, <1>1, <1>10, DoneRules DEF Fail
<1>11. ASSUME pc'[w] = "hook", at'[w] = 4, Modifies(w) => Clean(Name(w), Child(w))
       PROVE  Ruling(w)'
  <2>1. Clean(Name(w), Child(w))' <=> Clean(Name(w), Child(w))
    BY <1>1, <1>7, <1>8 DEF Clean
  <2>2. Walked(w)'
    BY <1>7, <1>11, <2>1 DEF Walked
  <2>3. Walks(w)'
    BY <1>11 DEF Walks
  <2>4. QED
    BY <1>9, <1>11, <2>2, <2>3
<1>12. ASSUME pc'[w] = "cycle", at'[w] = 3, Proposes(req[w].dg), store[Child(w)] # NoGroup,
              (\A i \in 1..Len(walk'[w]) : \A t \in walk'[w][i] : Clean(Name(w), t))
                => \A t \in Targets(store[Child(w)].rules) : Clean(Name(w), t)
       PROVE  Ruling(w)'
  <2>1. Walks(w)'
    BY <1>1, <1>7, <1>8, <1>12 DEF Walks
  <2>2. Walked(w)'
    BY <1>12 DEF Walked
  <2>3. QED
    BY <1>9, <1>12, <2>1, <2>2
<1>13. CASE CheckExpansionCycles(w)
  <2>1. CASE ~Proposes(req[w].dg)
    <3>1. pc'[w] = "hook" /\ at'[w] = 4
      BY <1>0, <1>4, <1>13, <2>1 DEF CheckExpansionCycles, Advance
    <3>2. QED
      BY <1>11, <2>1, <3>1 DEF Modifies
  <2>2. CASE Proposes(req[w].dg) /\ store[Child(w)] # NoGroup
    <3>1. /\ pc'[w] = "cycle" /\ at'[w] = 3
          /\ walk'[w] = <<Targets(store[Child(w)].rules)>>
      BY <1>0, <1>4, <1>13, <2>2 DEF CheckExpansionCycles
    <3>2. 1 \in 1..Len(walk'[w]) /\ walk'[w][1] = Targets(store[Child(w)].rules)
      BY <3>1
    <3>3. QED
      BY <1>12, <2>2, <3>1, <3>2
  <2>3. QED
    BY <1>10, <1>13, <2>1, <2>2 DEF CheckExpansionCycles
<1>14. ASSUME pc[w] = "cycle"
       PROVE  /\ Proposes(req[w].dg) /\ store[Child(w)] # NoGroup
              /\ (\A i \in 1..Len(walk[w]) : \A t \in walk[w][i] : Clean(Name(w), t))
                   => \A t \in Targets(store[Child(w)].rules) : Clean(Name(w), t)
              /\ walk[w] # <<>> /\ Child(w) \in Groups /\ Child(w) # Name(w)
  <2>1. Proposes(req[w].dg)
    BY <1>14 DEF AInv, Ruling, Walks
  <2>2. Child(w) \in Groups /\ Child(w) # Name(w)
    BY <1>5, <2>1, RequestNames DEF RulesChecked, Child, Name
  <2>3. QED
    BY <1>14, <2>2 DEF AInv, Ruling, Walks, TInv, Placed
<1>15. ASSUME NEW t \in Groups, Visit(w, t)
       PROVE  Ruling(w)'
  <2>1. pc[w] = "cycle" /\ t \in Head(walk[w])
    BY <1>15 DEF Visit
  <2>2. CASE t # Name(w) /\ store[t] # NoGroup
    <3> DEFINE below == Targets(store[t].rules)
               left == Head(walk[w]) \ {t}
    <3>1. /\ pc'[w] = "cycle" /\ at'[w] = 3
          /\ walk'[w] = <<below, left>> \o Tail(walk[w])
      BY <1>0, <1>4, <1>6, <1>15, <2>1, <2>2 DEF Visit
    <3>2. ASSUME \A i \in 1..Len(walk'[w]) : \A c \in walk'[w][i] : Clean(Name(w), c)
          PROVE  \A c \in Targets(store[Child(w)].rules) : Clean(Name(w), c)
      <4>1. /\ walk[w] # <<>> /\ walk[w] \in Seq(SUBSET Groups)
        BY <1>0, <1>14, <2>1
      <4>2. below \in SUBSET Groups /\ left \in SUBSET Groups
        <5>1. store[t].rules \in Rules
          BY <1>0, <2>2 DEF Group
        <5>2. Head(walk[w]) \in SUBSET Groups
          BY <4>1
        <5>3. QED
          BY <5>1, <5>2 DEF Rules, Targets
      <4> HIDE DEF below, left
      <4>3. /\ Len(walk'[w]) = Len(walk[w]) + 1
            /\ walk'[w][1] = below /\ walk'[w][2] = left
            /\ \A i \in 2..Len(walk[w]) : walk'[w][i + 1] = walk[w][i]
            /\ Len(walk[w]) \in Nat \ {0} /\ Head(walk[w]) = walk[w][1]
        BY <3>1, <4>1, <4>2
      <4>4. \A c \in below : Clean(Name(w), c)
        BY <3>2, <4>3
      <4>5. Clean(Name(w), t)
        BY <2>2, <4>4, CleanAbove DEF below
      <4>6. \A c \in left : Clean(Name(w), c)
        BY <3>2, <4>3
      <4>7. \A c \in walk[w][1] : Clean(Name(w), c)
        BY <4>3, <4>5, <4>6 DEF left
      <4>8. ASSUME NEW i \in 1..Len(walk[w]), NEW c \in walk[w][i]
            PROVE  Clean(Name(w), c)
        <5>1. CASE i = 1
          BY <4>7, <4>8, <5>1
        <5>2. CASE i # 1
          <6>1. i \in 2..Len(walk[w]) /\ i + 1 \in 1..Len(walk'[w])
            BY <4>3, <5>2
          <6>2. c \in walk'[w][i + 1]
            BY <4>3, <4>8, <6>1
          <6>3. QED
            BY <3>2, <6>1, <6>2
        <5>3. QED
          BY <5>1, <5>2
      <4>9. QED
        BY <1>14, <2>1, <4>8
    <3>3. QED
      BY <1>12, <1>14, <2>1, <3>1, <3>2
  <2>3. QED
    BY <1>6, <1>10, <1>15, <2>2 DEF Visit
<1>16. CASE Ascend(w)
  <2>1. /\ pc[w] = "cycle" /\ Head(walk[w]) = {} /\ walk'[w] = Tail(walk[w])
        /\ walk[w] # <<>> /\ walk[w] \in Seq(SUBSET Groups)
    BY <1>0, <1>14, <1>16 DEF Ascend
  <2>2. /\ Len(walk'[w]) = Len(walk[w]) - 1 /\ Len(walk[w]) \in Nat \ {0}
        /\ walk[w][1] = {}
        /\ \A i \in 1..Len(walk'[w]) : walk'[w][i] = walk[w][i + 1]
    BY <2>1
  <2>3. ASSUME \A i \in 1..Len(walk'[w]) : \A t \in walk'[w][i] : Clean(Name(w), t)
        PROVE  \A t \in Targets(store[Child(w)].rules) : Clean(Name(w), t)
    <3>1. ASSUME NEW i \in 1..Len(walk[w]), NEW t \in walk[w][i]
          PROVE  Clean(Name(w), t)
      <4>1. i # 1 /\ i - 1 \in 1..Len(walk'[w]) /\ (i - 1) + 1 = i
        BY <2>2, <3>1
      <4>2. t \in walk'[w][i - 1]
        BY <2>2, <3>1, <4>1
      <4>3. QED
        BY <2>3, <4>1, <4>2
    <3>2. QED
      BY <1>14, <2>1, <3>1
  <2>4. CASE Tail(walk[w]) = <<>>
    <3>1. pc'[w] = "hook" /\ at'[w] = 4
      BY <1>0, <1>4, <1>16, <2>4 DEF Ascend, Advance
    <3>2. walk'[w] = <<>> /\ Len(<<>>) = 0
      BY <2>1, <2>4
    <3>3. \A t \in Targets(store[Child(w)].rules) : Clean(Name(w), t)
      BY <2>3, <3>2
    <3>4. Clean(Name(w), Child(w))
      BY <1>14, <2>1, <3>3, CleanAbove
    <3>5. QED
      BY <1>11, <3>1, <3>4
  <2>5. CASE Tail(walk[w]) # <<>>
    <3>1. pc'[w] = "cycle" /\ at'[w] = 3
      BY <1>0, <1>4, <1>16, <2>1, <2>5 DEF Ascend
    <3>2. QED
      BY <1>12, <1>14, <2>1, <2>3, <3>1
  <2>6. QED
    BY <2>4, <2>5
<1>17. QED
  BY <1>13, <1>15, <1>16

(* A new group is stored without rules, an edited one with those that it   *)
(* had, and one whose rules were changed with a target that was clean.     *)
LEMMA SaveGroupRules ==
  ASSUME TInv, AInv, NEW w \in Workers, SaveGroup(w)
  PROVE  AInv'
<1>0. /\ draft \in [Workers -> Group] /\ pc \in [Workers -> States]
      /\ at \in [Workers -> 1..7] /\ store \in [Groups -> Group \cup {NoGroup}]
  BY DEF TInv, TypeOK, States
<1>1. /\ pc[w] = "hook" /\ at[w] \in 1..6 /\ Name(w) \in Groups
      /\ NumberPlace(req[w].chain, at[w], "save-group")
      /\ RulePlace(req[w].chain, at[w], "save-group")
  BY HookNumbered, HookRuled DEF SaveGroup
<1>2. Busy(w) /\ UNCHANGED <<req, draft, todo, largest, walk>>
  BY <1>1 DEF SaveGroup, Busy
<1>3. OthersStay(w) /\ WalksStay(w)
  BY <1>0, <1>2 DEF SaveGroup, Advance, Fail, OthersStay, WalksStay
<1>4. CASE Fail(w, "internal") /\ UNCHANGED store
  <2>1. Ruling(w)'
    BY <1>0, <1>2, <1>4, DoneRules DEF Fail
  <2>2. QED
    BY <1>2, <1>3, <1>4, <2>1, LocalKeepsRules
<1>5. CASE store' = [store EXCEPT ![draft[w].name] = draft[w]] /\ Advance(w)
  <2>1. pc'[w] = "hook" /\ at'[w] = at[w] + 1
    BY <1>0, <1>5 DEF Advance
  <2>2. /\ draft[w].name = Name(w)
        /\ req[w].chain = "CREATE" => at[w] = 6 /\ draft[w].rules = NoRules
        /\ req[w].chain # "CREATE" => store[Name(w)] # NoGroup
        /\ req[w].chain \notin {"CREATE", "MODIFY_EXPANSIONS"} =>
             draft[w].rules = store[Name(w)].rules
        /\ req[w].chain = "MODIFY_EXPANSIONS" =>
             /\ at[w] = 6
             /\ Targets(draft[w].rules) \subseteq Targets(store[Name(w)].rules)
                  \cup (IF Proposes(req[w].dg) THEN {Child(w)} ELSE {})
    BY <1>1 DEF AInv, Ruling, NewRules, OldRules, NumberPlace, RulePlace
  <2>3. /\ draft[w] \in Group /\ draft[w] # NoGroup
        /\ store'[Name(w)] = draft[w] /\ GroupsStay(w)
    BY <1>0, <1>1, <1>5, <2>2, GroupZeroValuesAssumption DEF GroupsStay
  <2>4. Stored' = Stored \cup {Name(w)}
    BY <1>0, <1>1, <2>3 DEF Stored, GroupsStay
  <2>5. Apart'
    BY <1>2, <1>3 DEF AInv, Apart, OthersStay, Busy
  <2>6. NamedByKey'
    BY <2>2, <2>3, <2>4 DEF AInv, NamedByKey, GroupsStay, Stored
  <2>7. Name(w)' = Name(w) /\ Child(w)' = Child(w)
    BY <1>2 DEF Name, Child
  <2>8. Ruling(w)'
    BY <1>1, <1>2, <2>1, <2>2, <2>3, <2>7
    DEF Ruling, NewRules, OldRules, Walks, Walked, Modifies
  <2>9. RulesStay \/ req[w].chain \in Structural
    <3>1. CASE req[w].chain \notin {"CREATE", "MODIFY_EXPANSIONS"}
      <4>1. Name(w) \in Stored /\ Stored' = Stored
        BY <1>1, <2>2, <2>4, <3>1 DEF Stored
      <4>2. \A n \in Stored : store'[n].rules = store[n].rules
        BY <2>2, <2>3, <3>1 DEF GroupsStay, Stored
      <4>3. QED
        BY <4>1, <4>2 DEF RulesStay
    <3>2. QED
      BY <3>1 DEF Structural
  <2>10. \A v \in Workers \ {w} : Ruling(v)'
    BY <1>2, <1>3, <2>3, <2>9, OthersKeepRules
  <2>11. NoWayBack'
    <3>1. \A n \in Stored' \ {Name(w)} : n \in Stored /\ store'[n].rules = store[n].rules
      BY <2>3, <2>4 DEF GroupsStay, Stored
    <3>2. NoWayBack
      BY DEF AInv
    <3>3. CASE RulesStay
      BY <3>2, <3>3, CleanStays
    <3>4. CASE req[w].chain = "CREATE"
      <4>1. Targets(store'[Name(w)].rules) = {}
        BY <2>2, <2>3, <3>4 DEF Targets, NoRules
      <4>2. QED
        BY <1>1, <2>4, <3>1, <3>2, <4>1, FewerRulesKeepNoWayBack
    <3>5. CASE req[w].chain = "MODIFY_EXPANSIONS"
      <4>1. Name(w) \in Stored /\ Stored' = Stored
        BY <1>1, <2>2, <2>4, <3>5 DEF Stored
      <4>2. Targets(store'[Name(w)].rules) \subseteq Targets(store[Name(w)].rules)
              \cup (IF Proposes(req[w].dg) THEN {Child(w)} ELSE {})
        BY <2>2, <2>3, <3>5
      <4>3. \E k \in SUBSET Groups :
              /\ Closed(k) /\ Name(w) \notin k
              /\ (IF Proposes(req[w].dg) THEN {Child(w)} ELSE {}) \subseteq k
        <5>1. CASE Proposes(req[w].dg)
          <6>1. Clean(Name(w), Child(w))
            BY <1>1, <2>2, <3>5, <5>1 DEF AInv, Ruling, Walked, Modifies
          <6>2. QED
            BY <5>1, <6>1 DEF Clean
        <5>2. CASE ~Proposes(req[w].dg)
          <6>1. Closed({})
            BY DEF Closed
          <6>2. QED
            BY <5>2, <6>1
        <5>3. QED
          BY <5>1, <5>2
      <4>4. QED
        BY <1>1, <3>1, <3>2, <4>1, <4>2, <4>3, CleanRuleKeepsNoWayBack
    <3>6. QED
      BY <1>1, <2>9, <3>3, <3>4, <3>5 DEF Structural, NumberPlace
  <2>12. QED
    BY <2>5, <2>6, <2>8, <2>10, <2>11 DEF AInv
<1>6. QED
  BY <1>4, <1>5 DEF SaveGroup

(* A group that goes takes its rules with it. *)
LEMMA DestroyRules ==
  ASSUME TInv, AInv, NEW w \in Workers, DestroyGroupHook(w)
  PROVE  AInv'
<1>0. /\ draft \in [Workers -> Group] /\ pc \in [Workers -> States]
      /\ at \in [Workers -> 1..7] /\ store \in [Groups -> Group \cup {NoGroup}]
  BY DEF TInv, TypeOK, States
<1>1. /\ pc[w] = "hook" /\ at[w] = 2 /\ Name(w) \in Groups /\ req[w].chain = "DESTROY"
  BY HookNumbered DEF DestroyGroupHook, NumberPlace
<1>2. Busy(w) /\ UNCHANGED <<req, todo, largest, walk>>
  BY <1>1 DEF DestroyGroupHook, Busy
<1>3. OthersStay(w) /\ WalksStay(w)
  BY <1>0, <1>2 DEF DestroyGroupHook, Advance, Fail, OthersStay, WalksStay
<1>4. draft[w].name = Name(w)
  BY <1>1 DEF AInv, Ruling, OldRules
<1>5. draft'[w].rules = draft[w].rules
  BY <1>0 DEF DestroyGroupHook, Group
<1>6. CASE Fail(w, "internal") /\ UNCHANGED store
  <2>1. Ruling(w)'
    BY <1>0, <1>2, <1>5, <1>6, DoneRules DEF Fail
  <2>2. QED
    BY <1>2, <1>3, <1>6, <2>1, LocalKeepsRules
<1>7. CASE store' = [store EXCEPT ![Name(w)] = NoGroup] /\ Advance(w)
  <2>1. pc'[w] = "hook" /\ at'[w] = 3
    BY <1>0, <1>1, <1>7 DEF Advance
  <2>2. GroupsStay(w) /\ Stored' = Stored \ {Name(w)}
    BY <1>0, <1>1, <1>7 DEF GroupsStay, Stored
  <2>3. NamedByKey'
    BY <2>2 DEF AInv, NamedByKey, GroupsStay, Stored
  <2>4. NoWayBack'
    <3>1. \A n \in Stored' \ {Name(w)} : store'[n].rules = store[n].rules
      BY <2>2 DEF GroupsStay, Stored
    <3>2. NoWayBack
      BY DEF AInv
    <3>3. QED
      BY <1>1, <2>2, <3>1, <3>2, FewerRulesKeepNoWayBack
  <2>5. \A v \in Workers \ {w} : Ruling(v)'
    BY <1>1, <1>2, <1>3, <2>2, OthersKeepRules DEF Structural
  <2>6. Ruling(w)'
    BY <1>1, <1>2, <2>1 DEF Ruling, NewRules, OldRules, Walks, Walked, Modifies
  <2>7. Apart'
    BY <1>2, <1>3 DEF AInv, Apart, OthersStay, Busy
  <2>8. QED
    BY <2>3, <2>4, <2>5, <2>6, <2>7 DEF AInv
<1>8. QED
  BY <1>4, <1>6, <1>7 DEF DestroyGroupHook

(* A request comes and goes. *)
LEMMA RequestRules ==
  ASSUME RulesChecked, TInv, AInv, NEW w \in Workers,
         FinishChain(w) \/ Return(w) \/ \E r \in Requests : Begin(w, r)
  PROVE  AInv'
<1>0. /\ draft \in [Workers -> Group] /\ pc \in [Workers -> States]
      /\ at \in [Workers -> 1..7] /\ req \in [Workers -> Requests \cup {NoRequest}]
      /\ todo \in [Workers -> SUBSET Groups] /\ largest \in [Workers -> 0..MaxInt32]
  BY DEF TInv, TypeOK, States
<1>1. CASE FinishChain(w)
  <2>1. /\ Busy(w) /\ UNCHANGED <<store, req, draft>> /\ pc'[w] = "done"
        /\ OthersStay(w) /\ WalksStay(w)
    BY <1>0, <1>1 DEF FinishChain, LocalStep, Busy, OthersStay, WalksStay
  <2>2. QED
    BY <2>1, DoneRules, LocalKeepsRules
<1>2. ASSUME OthersStay(w), WalksStay(w), UNCHANGED store, Ruling(w)', Apart'
      PROVE  AInv'
  <2>1. Stored' = Stored
    BY <1>2 DEF Stored
  <2>2. NamedByKey' /\ RulesStay
    BY <1>2, <2>1 DEF AInv, NamedByKey, RulesStay
  <2>3. NoWayBack'
    BY <2>2, CleanStays DEF AInv
  <2>4. ASSUME NEW v \in Workers \ {w}
        PROVE  Ruling(v)'
    <3>1. /\ pc'[v] = pc[v] /\ req'[v] = req[v] /\ at'[v] = at[v] /\ draft'[v] = draft[v]
          /\ walk'[v] = walk[v]
      BY <1>2 DEF OthersStay, WalksStay
    <3>2. /\ Name(v)' = Name(v) /\ Child(v)' = Child(v)
          /\ Modifies(v)' = Modifies(v) /\ Proposes(req[v].dg)' = Proposes(req[v].dg)
      BY <3>1 DEF Name, Child, Modifies, Proposes
    <3>3. NewRules(v) /\ OldRules(v) /\ Walks(v) /\ Walked(v)
      BY DEF AInv, Ruling
    <3>4. /\ \A t : Clean(Name(v), t)' <=> Clean(Name(v), t)
          /\ Clean(Name(v), Child(v))' <=> Clean(Name(v), Child(v))
      BY <2>2, <3>2, CleanStays DEF Clean
    <3>5. NewRules(v)' /\ OldRules(v)'
      BY <1>2, <3>1, <3>2, <3>3 DEF NewRules, OldRules
    <3>6. Walks(v)'
      BY <1>2, <3>1, <3>2, <3>3, <3>4 DEF Walks
    <3>7. Walked(v)'
      BY <3>1, <3>2, <3>3, <3>4 DEF Walked
    <3>8. QED
      BY <3>5, <3>6, <3>7 DEF Ruling
  <2>5. QED
    BY <1>2, <2>2, <2>3, <2>4 DEF AInv
<1>3. CASE Return(w)
  <2>1. /\ pc'[w] = "idle" /\ draft'[w] = BlankGroup /\ OthersStay(w) /\ WalksStay(w)
        /\ UNCHANGED store
    BY <1>0, <1>3 DEF Return, OthersStay, WalksStay
  <2>2. Ruling(w)'
    BY <2>1 DEF Ruling, NewRules, OldRules, Walks, Walked, BlankGroup
  <2>3. Apart'
    BY <2>1 DEF AInv, Apart, OthersStay, Busy
  <2>4. QED
    BY <1>2, <2>1, <2>2, <2>3
<1>4. ASSUME NEW r \in Requests, Begin(w, r)
      PROVE  AInv'
  <2>1. /\ ~Busy(w) /\ Admissible(r) /\ at[w] = 1 /\ draft[w].rules = NoRules
    BY <1>4 DEF Begin, Busy, TInv, Placed, AInv, Ruling, NewRules
  <2>2. /\ pc'[w] = "hook" /\ req'[w] = r /\ at'[w] = 1 /\ draft'[w] = draft[w]
        /\ OthersStay(w) /\ WalksStay(w) /\ UNCHANGED store
    BY <1>0, <1>4, <2>1 DEF Begin, OthersStay, WalksStay
  <2>3. Ruling(w)'
    BY <2>1, <2>2 DEF Ruling, NewRules, OldRules, Walks, Walked
  <2>4. \A v \in Workers \ {w} : Busy(v) => ~Conflict(req[v], r) /\ ~Conflict(r, req[v])
    BY <2>1 DEF Admissible, RulesChecked, Conflict
  <2>5. \A v \in Workers \ {w} : (Busy(v)' = Busy(v)) /\ req'[v] = req[v]
    BY <2>2 DEF OthersStay, Busy
  <2>6. Apart'
    BY <2>2, <2>4, <2>5 DEF AInv, Apart
  <2>7. QED
    BY <1>2, <2>2, <2>3, <2>6
<1>5. QED
  BY <1>1, <1>3, <1>4

-----------------------------------------------------------------------------
(* The first state: the groups deeper down are a closed set. *)
LEMMA FirstRules == RulesChecked /\ Init => AInv
<1> SUFFICES ASSUME RulesChecked, Init PROVE AInv
  OBVIOUS
<1>1. store \in Populations /\ \A w \in Workers : pc[w] = "idle" /\ draft[w] = BlankGroup
  BY DEF Init
<1>2. /\ store \in [Groups -> Group \cup {NoGroup}]
      /\ \A n \in Groups : store[n] # NoGroup => store[n].name = n
  BY <1>1, GroupPopulationsAssumption
<1>3. NamedByKey
  BY <1>2 DEF NamedByKey, Stored
<1>4. NoWayBack
  <2>1. PICK depth \in [Groups -> Nat] : \A n \in Groups : store[n] # NoGroup =>
          \A t \in Targets(store[n].rules) : depth[t] < depth[n]
    BY <1>1 DEF RulesChecked
  <2>2. ASSUME NEW g \in Stored
        PROVE  \E s \in SUBSET Groups :
                 Closed(s) /\ Targets(store[g].rules) \subseteq s /\ g \notin s
    <3> DEFINE s == {h \in Groups : depth[h] < depth[g]}
    <3>1. \A n \in Stored : Targets(store[n].rules) \subseteq Groups
      BY <1>2 DEF Stored, Group, Rules, Targets
    <3>2. \A n \in Stored : n \in Groups /\ depth[n] \in Int
      BY <2>1 DEF Stored
    <3>3. \A n \in Stored : \A t \in Targets(store[n].rules) :
            t \in Groups /\ depth[t] \in Int /\ depth[t] < depth[n]
      BY <2>1, <3>1 DEF Stored
    <3>4. s \in SUBSET Groups /\ g \notin s /\ Targets(store[g].rules) \subseteq s
      BY <3>2, <3>3
    <3>5. ASSUME NEW h \in s \cap Stored, NEW t \in Targets(store[h].rules)
          PROVE  t \in s
      <4>1. depth[h] < depth[g] /\ depth[t] < depth[h] /\ t \in Groups
            /\ depth[t] \in Int /\ depth[h] \in Int /\ depth[g] \in Int
        BY <3>2, <3>3, <3>5
      <4>2. depth[t] < depth[g]
        BY <4>1
      <4>3. QED
        BY <4>1, <4>2
    <3> HIDE DEF s
    <3>6. Closed(s)
      BY <3>5 DEF Closed
    <3>7. QED
      BY <3>4, <3>6
  <2>3. QED
    BY <2>2 DEF NoWayBack
<1>5. \A w \in Workers : Ruling(w)
  BY <1>1 DEF Ruling, NewRules, OldRules, Walks, Walked, BlankGroup
<1>6. Apart
  BY <1>1 DEF Apart, Busy
<1>7. QED
  BY <1>3, <1>4, <1>5, <1>6 DEF AInv

(* Every step. *)
LEMMA StepRules == RulesChecked /\ TInv /\ AInv /\ [Next]_vars => AInv'
<1> SUFFICES ASSUME RulesChecked, TInv, AInv, [Next]_vars
             PROVE  AInv'
  OBVIOUS
<1>1. CASE UNCHANGED vars
  <2>1. UNCHANGED <<store, pc, req, at, draft, walk>>
    BY <1>1 DEF vars, workerVars
  <2>2. Stored' = Stored
    BY <2>1 DEF Stored
  <2>3. NamedByKey' /\ RulesStay
    BY <2>1, <2>2 DEF AInv, NamedByKey, RulesStay
  <2>4. NoWayBack'
    BY <2>3, CleanStays DEF AInv
  <2>5. Apart'
    BY <2>1 DEF AInv, Apart, Busy
  <2>6. ASSUME NEW v \in Workers
        PROVE  Ruling(v)'
    <3>1. /\ Name(v)' = Name(v) /\ Child(v)' = Child(v) /\ Modifies(v)' = Modifies(v)
      BY <2>1 DEF Name, Child, Modifies
    <3>2. /\ \A t : Clean(Name(v), t)' <=> Clean(Name(v), t)
          /\ Clean(Name(v), Child(v))' <=> Clean(Name(v), Child(v))
      BY <2>3, <3>1, CleanStays DEF Clean
    <3>3. NewRules(v) /\ OldRules(v) /\ Walks(v) /\ Walked(v)
      BY DEF AInv, Ruling
    <3>4. NewRules(v)' /\ OldRules(v)'
      BY <2>1, <3>1, <3>3 DEF NewRules, OldRules
    <3>5. Walks(v)' /\ Walked(v)'
      BY <2>1, <3>1, <3>2, <3>3 DEF Walks, Walked
    <3>6. QED
      BY <3>4, <3>5 DEF Ruling
  <2>7. QED
    BY <2>3, <2>4, <2>5, <2>6 DEF AInv
<1>2. RulesProposedOnly
  BY DEF RulesChecked
<1>3. ASSUME NEW w \in Workers, WorkerStep(w)
      PROVE  AInv'
  BY <1>2, <1>3, LocalHookRules, NumberHookRules, CycleHookRules, SaveGroupRules,
     DestroyRules, RequestRules
  DEF WorkerStep
<1>4. ASSUME NEW w \in Workers, NEW r \in Requests, Begin(w, r)
      PROVE  AInv'
  BY <1>4, RequestRules
<1>5. QED
  BY <1>1, <1>3, <1>4 DEF Next

(* Without a way back no group can be reached from itself. *)
LEMMA NoWayBackIsAcyclic == NoWayBack => RulesAcyclic
<1> SUFFICES ASSUME NoWayBack, NEW g \in Stored PROVE g \notin Reach(g)
  BY DEF RulesAcyclic
<1>1. PICK s \in SUBSET Groups : Closed(s) /\ Targets(store[g].rules) \subseteq s /\ g \notin s
  BY DEF NoWayBack
<1>2. Reach(g) \subseteq s
  BY <1>1, ReachInClosed
<1>3. QED
  BY <1>1, <1>2

(* The rules of the groups never lead round in a circle, although the walk *)
(* that looks for one loads a group at a time without a lock and the save  *)
(* comes later, as long as creations, removals and changes of rules are    *)
(* kept apart from each other and from requests for the same group.        *)
THEOREM RulesStayAcyclic ==
  ASSUME RulesChecked
  PROVE  Spec => []RulesAcyclic
<1>1. TInv /\ AInv /\ [Next]_vars => (TInv /\ AInv)'
  BY StepTypes, StepRules
<1>2. Init => TInv /\ AInv
  BY FirstTypes, FirstRules
<1>3. AInv => RulesAcyclic
  BY NoWayBackIsAcyclic DEF AInv
<1>4. QED
  BY <1>1, <1>2, <1>3, PTL DEF Spec
-----------------------------------------------------------------------------
(***************************************************************************)
(* The walk for cycles.  A rule about t may be added to n if t, and all    *)
(* that its rules lead to, is stored, and n is not among it.               *)
(***************************************************************************)
Sound(n, t) ==
  \E s \in SUBSET Groups : Closed(s) /\ s \subseteq Stored /\ t \in s /\ n \notin s

(* f[n] is what n steps make of a. *)
Iterates(f, a, step, k) == f[0] = a /\ \A n \in 0..k : n > 0 => f[n] = step[f[n - 1]]

(* A step can be repeated any number of times. *)
LEMMA IterationExists ==
  ASSUME NEW S, NEW step \in [S -> S], NEW a \in S, NEW k \in Nat
  PROVE  \E f \in [0..k -> S] : Iterates(f, a, step, k)
<1> USE DEF Iterates
<1> DEFINE M == {m \in Nat : \E f \in [0..m -> S] : Iterates(f, a, step, m)}
<1>1. 0 \in M
  <2>1. Iterates([n \in 0..0 |-> a], a, step, 0)
    OBVIOUS
  <2> QED
    BY <2>1
<1>2. ASSUME NEW m \in M PROVE m + 1 \in M
  <2>1. PICK f \in [0..m -> S] : Iterates(f, a, step, m)
    OBVIOUS
  <2> DEFINE h == [n \in 0..(m + 1) |-> IF n = m + 1 THEN step[f[m]] ELSE f[n]]
  <2>2. m \in Nat /\ m + 1 \in Nat /\ m \in 0..m /\ m + 1 \in 0..(m + 1)
    OBVIOUS
  <2>3. \A n \in 0..(m + 1) : n # m + 1 => n \in 0..m
    BY <2>2
  <2>4. h \in [0..(m + 1) -> S]
    BY <2>2, <2>3
  <2>5. h[0] = a /\ h[m + 1] = step[f[m]] /\ \A n \in 0..m : h[n] = f[n]
    BY <2>1, <2>2
  <2> HIDE DEF h
  <2>6. ASSUME NEW n \in 0..(m + 1), n > 0 PROVE h[n] = step[h[n - 1]]
    <3>1. CASE n = m + 1
      <4>1. n - 1 = m
        BY <2>2, <3>1
      <4> QED
        BY <2>2, <2>5, <3>1, <4>1
    <3>2. CASE n # m + 1
      <4>1. n \in 0..m /\ n - 1 \in 0..m
        BY <2>2, <2>6, <3>2
      <4> QED
        BY <2>1, <2>5, <2>6, <4>1
    <3> QED
      BY <3>1, <3>2
  <2> QED
    BY <2>2, <2>4, <2>5, <2>6
<1>3. M \in SUBSET Nat
  OBVIOUS
<1> HIDE DEF M
<1>4. M = Nat
  BY <1>1, <1>2, <1>3, SetInduction
<1> QED
  BY <1>4 DEF M

(* The groups below which checkGroupCycles finds p, or a group that is not *)
(* stored, when deeper are those below which it does one level down.       *)
Bad(p, deeper) ==
  {g \in Stored : \E t \in Targets(store[g].rules) : t = p \/ t \notin Stored \/ t \in deeper}

(* f[n] is what the walk finds n levels down. *)
Finding(p, f, k) == f = [n \in 0..k |-> Bad(p, IF n = 0 THEN {} ELSE f[n - 1])]

(* There are such sets for every depth. *)
LEMMA FindingExists ==
  ASSUME NEW p, NEW k \in Nat
  PROVE  \E f : Finding(p, f, k)
<1> DEFINE step == [s \in SUBSET Stored |-> Bad(p, s)]
<1>1. step \in [SUBSET Stored -> SUBSET Stored] /\ Bad(p, {}) \in SUBSET Stored
  BY DEF Bad
<1>2. PICK f \in [0..k -> SUBSET Stored] : Iterates(f, Bad(p, {}), step, k)
  <2> DEFINE S == SUBSET Stored
             a == Bad(p, {})
  <2>1. step \in [S -> S] /\ a \in S
    BY <1>1
  <2> HIDE DEF step, S, a
  <2>2. \E f \in [0..k -> S] : Iterates(f, a, step, k)
    BY <2>1, IterationExists
  <2> QED
    BY <2>2 DEF S, a
<1>3. ASSUME NEW n \in 0..k PROVE f[n] = Bad(p, IF n = 0 THEN {} ELSE f[n - 1])
  <2>1. CASE n = 0
    BY <1>2, <2>1 DEF Iterates
  <2>2. CASE n > 0
    <3>1. n - 1 \in 0..k
      BY <2>2
    <3>2. f[n - 1] \in SUBSET Stored
      BY <1>2, <3>1
    <3> QED
      BY <1>2, <2>2, <3>2 DEF Iterates
  <2> QED
    BY <2>1, <2>2
<1> QED
  BY <1>2, <1>3 DEF Finding

(* CycleFrom is what it says at the outermost level. *)
LEMMA CycleFromIs ==
  ASSUME NEW p, NEW c, store \in [Groups -> Group \cup {NoGroup}]
  PROVE  \E f : /\ Finding(p, f, Cardinality(Groups))
                /\ CycleFrom(RulesOf(store), c, p) <=> c \in f[Cardinality(Groups)]
<1> DEFINE N == Cardinality(Groups)
           r == RulesOf(store)
           K == Known(r)
           B(s) == {g \in K : \E t \in Targets(r[g]) : t = p \/ t \notin K \/ t \in s}
           f == CHOOSE h : Finding(p, h, N)
           q == CHOOSE h : h = [n \in 0..N |-> B(IF n = 0 THEN {} ELSE h[n - 1])]
<1>1. N \in Nat
  BY FS_CardinalityType, GroupNamesAssumption
<1>2. Finding(p, f, N)
  BY <1>1, FindingExists
<1>3. CycleFrom(r, c, p) <=> c \in q[N]
  BY DEF CycleFrom
<1>4. \A g \in Stored : store[g].rules \in Rules /\ store[g].rules # NoGroup
  BY GroupZeroValuesAssumption DEF Stored, Group
<1>5. K = Stored /\ \A g \in Stored : r[g] = store[g].rules
  BY <1>4 DEF Known, RulesOf, Stored
<1> HIDE DEF N, r, K
<1>6. \A s : Bad(p, s) = B(s)
  BY <1>5 DEF Bad
<1> HIDE DEF B
<1>7. f = q
  BY <1>6 DEF Finding
<1> HIDE DEF f, q
<1> QED
  BY <1>2, <1>3, <1>7 DEF N, r

(* One step of the walk. *)
LEMMA SoundStep ==
  ASSUME NEW p, NEW t \in Groups
  PROVE  Sound(p, t) <=> /\ t # p /\ t \in Stored
                         /\ \A c \in Targets(store[t].rules) : Sound(p, c)
<1> DEFINE all == {c \in Groups : Sound(p, c)}
           s == all \cup {t}
<1>1. ASSUME Sound(p, t), NEW c \in Targets(store[t].rules) PROVE Sound(p, c)
  BY <1>1 DEF Sound, Closed
<1>2. ASSUME Sound(p, t) PROVE t # p /\ t \in Stored
  BY <1>2 DEF Sound
<1>3. ASSUME t # p, t \in Stored, \A c \in Targets(store[t].rules) : Sound(p, c)
      PROVE  Sound(p, t)
  <2>1. \A k \in SUBSET Groups : Closed(k) /\ k \subseteq Stored /\ p \notin k => k \subseteq all
    BY DEF Sound
  <2>2. s \in SUBSET Groups /\ s \subseteq Stored /\ t \in s /\ p \notin s
    BY <1>3 DEF Sound
  <2>3. Closed(s)
    <3>1. SUFFICES ASSUME NEW h \in s \cap Stored, NEW c \in Targets(store[h].rules)
                   PROVE  c \in all
      BY DEF Closed
    <3>2. CASE h # t
      <4>1. PICK k \in SUBSET Groups : Closed(k) /\ k \subseteq Stored /\ h \in k /\ p \notin k
        BY <3>1, <3>2 DEF Sound
      <4> QED
        BY <2>1, <3>1, <4>1 DEF Closed
    <3>3. CASE h = t
      <4>1. Sound(p, c)
        BY <1>3, <3>1, <3>3
      <4> QED
        BY <4>1 DEF Sound
    <3> QED
      BY <3>2, <3>3
  <2> HIDE DEF s
  <2> QED
    BY <2>2, <2>3 DEF Sound
<1> QED
  BY <1>1, <1>2, <1>3

(* If the recursion says yes, some group below is not sound, ... *)
LEMMA FoundNotSound ==
  ASSUME NEW p, NEW k \in Nat, NEW f, Finding(p, f, k), NEW n \in 0..k, NEW c \in f[n],
         store \in [Groups -> Group \cup {NoGroup}]
  PROVE  c \in Stored /\ \E t \in Targets(store[c].rules) : ~Sound(p, t)
<1> DEFINE M == {m \in Nat : m \in 0..k => \A g \in f[m] :
                   g \in Stored /\ \E t \in Targets(store[g].rules) : ~Sound(p, t)}
<1>0. ASSUME NEW g \in Stored, NEW t \in Targets(store[g].rules) PROVE t \in Groups
  BY <1>0 DEF Stored, Group, Rules, Targets
<1>1. 0 \in M
  <2>1. f[0] = Bad(p, {})
    BY DEF Finding
  <2>2. \A g \in Bad(p, {}) : g \in Stored /\ \E t \in Targets(store[g].rules) : ~Sound(p, t)
    BY DEF Bad, Sound
  <2> QED
    BY <2>1, <2>2
<1>2. ASSUME NEW m \in M PROVE m + 1 \in M
  <2>1. SUFFICES ASSUME m + 1 \in 0..k, NEW g \in f[m + 1]
                 PROVE  g \in Stored /\ \E t \in Targets(store[g].rules) : ~Sound(p, t)
    OBVIOUS
  <2>2. m \in 0..k /\ m + 1 # 0 /\ (m + 1) - 1 = m
    BY <2>1
  <2>3. f[m + 1] = Bad(p, f[m])
    BY <2>1, <2>2 DEF Finding
  <2>4. PICK t \in Targets(store[g].rules) : t = p \/ t \notin Stored \/ t \in f[m]
    BY <2>1, <2>3 DEF Bad
  <2>5. g \in Stored
    BY <2>1, <2>3 DEF Bad
  <2>6. CASE t = p \/ t \notin Stored
    BY <2>4, <2>5, <2>6 DEF Sound
  <2>7. CASE t \in f[m] /\ t # p /\ t \in Stored
    <3>1. \E c2 \in Targets(store[t].rules) : ~Sound(p, c2)
      BY <2>2, <2>7
    <3>2. t \in Groups
      BY <2>4, <2>5, <1>0
    <3>3. ~Sound(p, t)
      BY <3>1, <3>2, SoundStep
    <3> QED
      BY <2>4, <2>5, <3>3
  <2> QED
    BY <2>4, <2>6, <2>7
<1>3. M \in SUBSET Nat
  OBVIOUS
<1>4. M = Nat
  <2> HIDE DEF M
  <2> QED
    BY <1>1, <1>2, <1>3, SetInduction
<1>5. n \in M
  BY <1>4
<1> QED
  BY <1>5

(* ... and if it says no, there is none.  At every level it says yes of    *)
(* more groups or of the same ones: at the outermost level of the same.    *)
LEMMA NotFoundSound ==
  ASSUME NEW p, NEW f, Finding(p, f, Cardinality(Groups)),
         NEW c \in Stored, c \notin f[Cardinality(Groups)],
         store \in [Groups -> Group \cup {NoGroup}]
  PROVE  \A t \in Targets(store[c].rules) : Sound(p, t)
<1> DEFINE N == Cardinality(Groups)
           Grows(s, n) == /\ s \subseteq Bad(p, s)
                          /\ s = Bad(p, s) \/ Cardinality(s) >= n
           M == {n \in Nat : n \in 0..N => Grows(f[n], n)}
<1>0. N \in Nat
  BY FS_CardinalityType, GroupNamesAssumption
<1>1. /\ f[0] = Bad(p, {})
      /\ \A n \in 0..N : n # 0 => f[n] = Bad(p, f[n - 1])
  BY <1>0 DEF Finding
<1> HIDE DEF N
<1>2. ASSUME NEW s, NEW r, s \subseteq r PROVE Bad(p, s) \subseteq Bad(p, r)
  BY <1>2 DEF Bad
<1>3. \A s : /\ Bad(p, s) \subseteq Groups /\ IsFiniteSet(Bad(p, s))
             /\ Cardinality(Bad(p, s)) \in Nat
  <2>1. \A s : Bad(p, s) \in SUBSET Groups
    BY DEF Bad, Stored
  <2> QED
    BY <2>1, FS_Subset, FS_CardinalityType, GroupNamesAssumption
<1>4. 0 \in M
  <2>1. Bad(p, {}) \subseteq Bad(p, Bad(p, {}))
    BY <1>2
  <2>2. Cardinality(f[0]) >= 0
    BY <1>1, <1>3
  <2> QED
    BY <1>1, <2>1, <2>2
<1>5. ASSUME NEW n \in M PROVE n + 1 \in M
  <2>1. SUFFICES ASSUME n + 1 \in 0..N PROVE Grows(f[n + 1], n + 1)
    OBVIOUS
  <2> DEFINE s == f[n]
             r == f[n + 1]
  <2>2. n \in Nat /\ n \in 0..N /\ n + 1 # 0 /\ (n + 1) - 1 = n
    BY <1>0, <2>1
  <2>3. r = Bad(p, s) /\ Grows(s, n)
    BY <1>1, <2>1, <2>2
  <2>4. \E x : s = Bad(p, x)
    BY <1>1, <2>2
  <2>8. SUFFICES Grows(r, n + 1)
    OBVIOUS
  <2> HIDE DEF s, r
  <2>5. r \subseteq Bad(p, r)
    BY <1>2, <2>3
  <2>6. CASE s = r
    BY <2>3, <2>5, <2>6
  <2>7. CASE s # r
    <3>1. Cardinality(s) >= n /\ s \subseteq r
      BY <2>3, <2>7
    <3>2. IsFiniteSet(r) /\ Cardinality(r) \in Nat /\ Cardinality(s) \in Nat
      BY <1>3, <2>3, <2>4
    <3>3. Cardinality(s) <= Cardinality(r) /\ Cardinality(s) # Cardinality(r)
      BY <2>7, <3>1, <3>2, FS_Subset
    <3> QED
      BY <2>2, <2>5, <3>1, <3>2, <3>3
  <2> QED
    BY <2>6, <2>7
<1>6. M \in SUBSET Nat
  OBVIOUS
<1>7. M = Nat
  <2> HIDE DEF M
  <2> QED
    BY <1>4, <1>5, <1>6, SetInduction
<1> DEFINE b == f[N]
<1>8. Grows(b, N) /\ \E x : b = Bad(p, x)
  <2>1. N \in M /\ N \in 0..N
    BY <1>0, <1>7
  <2> QED
    BY <1>1, <2>1
<1>9. c \notin b /\ c \in Groups
  BY DEF N, Stored
<1> HIDE DEF b, M
<1>10. b = Bad(p, b)
  <2>1. SUFFICES ASSUME Cardinality(b) >= N PROVE FALSE
    BY <1>8
  <2>2. b \in SUBSET Groups /\ Cardinality(b) \in Nat
    BY <1>3, <1>8
  <2>3. Cardinality(b) <= N /\ (N = Cardinality(b) => Groups = b)
    BY <2>2, FS_Subset, GroupNamesAssumption DEF N
  <2> QED
    BY <1>0, <1>9, <2>1, <2>2, <2>3
<1> DEFINE s == {g \in Stored \ b : g # p}
<1>11. ASSUME NEW g \in Stored \ b, NEW t \in Targets(store[g].rules) PROVE t \in s
  BY <1>10, <1>11 DEF Bad
<1>12. s \in SUBSET Groups /\ s \subseteq Stored /\ p \notin s
  BY DEF Stored
<1>13. Closed(s)
  BY <1>11 DEF Closed
<1>14. \A t \in Targets(store[c].rules) : t \in s
  BY <1>9, <1>11
<1> HIDE DEF s
<1> QED
  BY <1>12, <1>13, <1>14 DEF Sound

(* The check for cycles refuses the target of a rule unless all that the   *)
(* target's rules lead to is stored, and the group itself is not among it. *)
LEMMA CycleFromSound ==
  ASSUME NEW p, NEW c \in Stored, store \in [Groups -> Group \cup {NoGroup}]
  PROVE  CycleFrom(RulesOf(store), c, p) <=> ~\A t \in Targets(store[c].rules) : Sound(p, t)
<1> DEFINE N == Cardinality(Groups)
<1>0. N \in Nat /\ N \in 0..N
  BY FS_CardinalityType, GroupNamesAssumption
<1>1. PICK f : Finding(p, f, N) /\ (CycleFrom(RulesOf(store), c, p) <=> c \in f[N])
  BY CycleFromIs
<1>2. c \in f[N] => ~\A t \in Targets(store[c].rules) : Sound(p, t)
  <2> HIDE DEF N
  <2> QED
    BY <1>0, <1>1, FoundNotSound
<1>3. c \notin f[N] => \A t \in Targets(store[c].rules) : Sound(p, t)
  BY <1>1, NotFoundSound
<1> QED
  BY <1>1, <1>2, <1>3
-----------------------------------------------------------------------------
(***************************************************************************)
(* The directory.  The inductive invariant says of each request what its   *)
(* hooks have found, and that this is so still, as nothing that conflicts  *)
(* with the request runs next to it: the draft is what the hooks so far    *)
(* make of what is stored now.                                             *)
(***************************************************************************)

(* Clients keep conflicting requests apart, and no number gets past the    *)
(* largest.                                                                *)
ChangesApart == Exclusive /\ RulesProposedOnly /\ MaxAutoNumber <= MaxInt32

(* The position of the last hook of a chain. *)
LastHook(c) ==
  IF c \in {"CREATE", "MODIFY_EXPANSIONS"} THEN 6
  ELSE IF c = "DESTROY" THEN 2 ELSE IF c = "FETCH" THEN 1 ELSE 3

(* Where the answer and the variables of the number are at rest. *)
Serves(w) ==
  /\ pc[w] # "done" => reply[w] = "none"
  /\ pc[w] = "idle" => draft[w] = BlankGroup /\ largest[w] = 0
  /\ pc[w] = "number" => req[w].chain = "CREATE" /\ req[w].dg.number = AutoNumber

(* A new group is built from the request alone, under a name that is free. *)
Builds(w) ==
  LET d == req[w].dg
  IN  pc[w] \in {"hook", "number"} /\ req[w].chain = "CREATE" /\ at[w] <= 6 =>
        /\ at[w] >= 2 => store[Name(w)] = NoGroup
        /\ at[w] >= 3 => ManagerKnown(d, store)
        /\ draft[w].name = IF at[w] >= 4 THEN Name(w) ELSE NoID
        /\ draft[w].managedBy = IF at[w] <= 2 \/ d.managedBy = Absent THEN Unmanaged
                                                                      ELSE d.managedBy
        /\ draft[w].text = IF at[w] >= 5 THEN d.text ELSE NoText
        /\ draft[w].rules = NoRules /\ draft[w].caps = {} /\ draft[w].um = {}
        /\ draft[w].kv = {}
        /\ at[w] = 6 /\ d.number # AutoNumber => draft[w].number = d.number

(* A number that the tree chooses is larger than all that are stored.      *)
Counts(w) ==
  pc[w] \in {"hook", "number"} /\ req[w].chain = "CREATE" /\ req[w].dg.number = AutoNumber =>
    /\ at[w] <= 5 => Low
    /\ at[w] <= 5 /\ pc[w] = "hook" => largest[w] = 0
    /\ pc[w] = "number" =>
         /\ largest[w] < MaxInt32
         /\ todo[w] \subseteq Stored
         /\ \A n \in Stored \ todo[w] : store[n].number <= largest[w]
    /\ at[w] = 6 => /\ 0 < draft[w].number
                    /\ \A n \in Stored : store[n].number < draft[w].number

(* Any other request works on the group that is stored. *)
Revises(w) ==
  LET c == req[w].chain
      g == store[Name(w)]
  IN  pc[w] \in {"hook", "cycle"} /\ c # "CREATE" /\ at[w] \in 2..LastHook(c) =>
        /\ g # NoGroup
        /\ draft[w] = IF c # "DESTROY" /\ at[w] = LastHook(c) THEN EditedGroup(req[w], g) ELSE g
        /\ c \in GroupEditChains /\ at[w] = 3 =>
             GroupHookError(GroupEditHook[c], g, req[w].dg) = "none"

(* All that the target of the rule leads to, as far as the check for       *)
(* cycles is concerned, ...                                                *)
SoundBelow(w) == \A t \in Targets(store[Child(w)].rules) : Sound(Name(w), t)

(* ... and what is left of the walk: the latter is sound if and only if    *)
(* the former is.                                                          *)
AllSound(p, s) == \A i \in 1..Len(s) : \A c \in s[i] : Sound(p, c)
SoundLeft(w) == AllSound(Name(w), walk[w])

(* What the first checks of a rule found is so still, and the walk on its  *)
(* way tells whether the target is sound.                                  *)
Inspects(w) ==
  /\ pc[w] \in {"hook", "cycle"} /\ Modifies(w) =>
       /\ at[w] \in 3..6 => ~ImmediateConflict(store[Name(w)].rules, Child(w))
       /\ at[w] \in 4..6 => store[Child(w)] # NoGroup /\ SoundBelow(w)
  /\ pc[w] = "cycle" =>
       Modifies(w) /\ store[Child(w)] # NoGroup /\ (SoundLeft(w) <=> SoundBelow(w))

(* All of it, for one request, ... *)
Performs(w) == Serves(w) /\ Builds(w) /\ Counts(w) /\ Revises(w) /\ Inspects(w)

(* ... and the inductive invariant. *)
DInv == Apart /\ NamedByKey /\ \A w \in Workers : Performs(w)

-----------------------------------------------------------------------------
(* Where the hooks are that the directory depends on. *)
WorkPlace(c, i, h) ==
  /\ h = "fail-on-existing-group" <=> c = "CREATE" /\ i = 1
  /\ h = "set-managing-group" <=> c = "CREATE" /\ i = 2
  /\ h = "set-group-displayname" <=> c = "CREATE" /\ i = 4
  /\ h = "check-immediate-expansions" <=> c = "MODIFY_EXPANSIONS" /\ i = 2
  /\ h = "check-expansion-targets" <=> c = "MODIFY_EXPANSIONS" /\ i = 4
  /\ h = "save-group" => c \notin {"DESTROY", "FETCH"} /\ i = LastHook(c)
  /\ h \in GroupEditHooks => c \in GroupEditChains /\ i = 2 /\ h = GroupEditHook[c]
  /\ c = "FETCH" => h = "load-group"
  /\ c \in GroupEditChains => (i = 2 => h = GroupEditHook[c]) /\ (i = 3 => h = "save-group")
  /\ i \in 1..LastHook(c)

(* These are the places of the hooks in all chains. *)
LEMMA WorkPlaces ==
  ASSUME NEW c \in GroupChains, NEW i \in DOMAIN GroupChain[c]
  PROVE  WorkPlace(c, i, GroupChain[c][i]) /\ Len(GroupChain[c]) = LastHook(c)
<1>1. CASE c \in {"CREATE", "DESTROY", "FETCH", "MODIFY_EXPANSIONS"}
  <2>1. GroupChain[c][i] \notin GroupEditHooks
    BY <1>1, GroupChainCases, GroupEditHooksApart
  <2>2. CASE c = "CREATE"
    BY <2>1, <2>2, GroupChainCases DEF WorkPlace, LastHook
  <2>3. CASE c = "DESTROY"
    BY <2>1, <2>3, GroupChainCases DEF WorkPlace, LastHook
  <2>4. CASE c = "FETCH"
    BY <2>1, <2>4, GroupChainCases DEF WorkPlace, LastHook
  <2>5. CASE c = "MODIFY_EXPANSIONS"
    BY <2>1, <2>5, GroupChainCases DEF WorkPlace, LastHook
  <2> QED
    BY <1>1, <2>2, <2>3, <2>4, <2>5
<1>2. CASE c \in GroupEditChains
  <2>1. /\ GroupEditHook[c] \in GroupEditHooks
        /\ c \notin {"CREATE", "DESTROY", "FETCH", "MODIFY_EXPANSIONS"}
    BY <1>2, GroupChainsDistinct
  <2>2. GroupChain[c] = <<"load-group", GroupEditHook[c], "save-group">>
    BY <1>2, GroupChainCases
  <2>3. "load-group" \notin GroupEditHooks /\ "save-group" \notin GroupEditHooks
    BY GroupEditHooksApart
  <2> QED
    BY <1>2, <2>1, <2>2, <2>3, GroupEditHooksApart DEF WorkPlace, LastHook
<1> QED
  BY <1>1, <1>2 DEF GroupChains

(* A hook that runs, seen from the directory. *)
LEMMA HookWorks ==
  ASSUME TInv, NEW w \in Workers, NEW h, InChain(w, h)
  PROVE  /\ Busy(w) /\ pc[w] = "hook"
         /\ req[w] \in Requests /\ req[w] \in GroupRequest /\ req[w].chain \in GroupChains
         /\ req[w].dg \in DataGroup /\ Name(w) \in Groups
         /\ Proposes(req[w].dg) => Child(w) \in Groups
         /\ NumberPlace(req[w].chain, at[w], h) /\ RulePlace(req[w].chain, at[w], h)
         /\ WorkPlace(req[w].chain, at[w], h)
         /\ Len(Chain(w)) = LastHook(req[w].chain) /\ at[w] \in 1..LastHook(req[w].chain)
<1>1. /\ req[w] \in Requests /\ req[w] \in GroupRequest /\ at[w] \in 1..6
  BY HookPlaced
<1>2. req[w].chain \in GroupChains /\ at[w] \in DOMAIN GroupChain[req[w].chain]
  BY <1>1 DEF GroupRequest, InChain, Chain
<1>3. /\ WorkPlace(req[w].chain, at[w], h)
      /\ Len(Chain(w)) = LastHook(req[w].chain)
  BY <1>2, WorkPlaces DEF InChain, Chain
<1> QED
  BY <1>1, <1>2, <1>3, HookNumbered, HookRuled, RequestNames
  DEF InChain, Busy, Name, Child, WorkPlace

(* Where storage holds the same rules, the same is sound. *)
LEMMA SoundStays ==
  ASSUME RulesStay
  PROVE  \A n, t : Sound(n, t)' <=> Sound(n, t)
<1>1. \A s : Closed(s)' <=> Closed(s)
  BY CleanStays
<1> QED
  BY <1>1 DEF Sound, RulesStay

(* Every group that is stored keeps its number. *)
NumbersStay == \A n \in Stored : store'[n].number = store[n].number

(* The requests of others keep what they have loaded and found. *)
LEMMA OthersKeepWork ==
  ASSUME TInv, DInv, NEW w \in Workers, Busy(w), OthersStay(w), WalksStay(w), GroupsStay(w),
         (RulesStay /\ NumbersStay) \/ req[w].chain \in Structural,
         NEW v \in Workers \ {w}, reply'[v] = reply[v]
  PROVE  Performs(v)'
<1>0. /\ pc'[v] = pc[v] /\ req'[v] = req[v] /\ at'[v] = at[v] /\ draft'[v] = draft[v]
      /\ todo'[v] = todo[v] /\ largest'[v] = largest[v] /\ walk'[v] = walk[v]
  BY DEF OthersStay, WalksStay
<1>1. /\ Name(v)' = Name(v) /\ Child(v)' = Child(v)
      /\ Modifies(v)' = Modifies(v)
  BY <1>0 DEF Name, Child, Modifies, Proposes
<1>2. Serves(v) /\ Builds(v) /\ Counts(v) /\ Revises(v) /\ Inspects(v)
  BY DEF DInv, Performs
<1>3. Serves(v)'
  BY <1>0, <1>2 DEF Serves
<1>4. ASSUME Busy(v)
      PROVE  /\ Name(v) \in Groups /\ req[v] \in GroupRequest /\ store'[Name(v)] = store[Name(v)]
             /\ req[v].chain \in Structural => RulesStay /\ NumbersStay
  <2>1. ~Conflict(req[v], req[w])
    BY <1>4 DEF DInv, Apart
  <2>2. req[v] \in GroupRequest
    BY <1>4, GroupRequestsAssumption DEF TInv, Placed, Busy
  <2>3. Name(v) \in Groups /\ Name(v) # Name(w)
    BY <2>1, <2>2, RequestNames DEF Conflict, Name
  <2> QED
    BY <2>1, <2>2, <2>3 DEF Conflict, GroupsStay
<1>5. ASSUME Busy(v), req[v].chain = "CREATE"
      PROVE  Builds(v)' /\ Counts(v)'
  <2>1. Stored' = Stored /\ NumbersStay
    BY <1>4, <1>5 DEF Structural, RulesStay
  <2>2. ManagerKnown(req[v].dg, store) <=> ManagerKnown(req[v].dg, store')
    <3>1. req[v].dg \in DataGroup
      BY <1>4, <1>5, RequestNames
    <3>2. req[v].dg.managedBy \notin {Unmanaged, Absent} => req[v].dg.managedBy \in Groups
      BY <3>1 DEF DataGroup
    <3>3. \A n \in Groups : store[n] # NoGroup <=> store'[n] # NoGroup
      BY <2>1 DEF Stored
    <3> QED
      BY <3>2, <3>3 DEF ManagerKnown
  <2>3. Builds(v)'
    BY <1>0, <1>1, <1>2, <1>4, <1>5, <2>2 DEF Builds
  <2>4. Low <=> Low'
    BY <2>1 DEF NumbersStay, Low
  <2>5. Counts(v)'
    BY <1>0, <1>2, <2>1, <2>4 DEF Counts, NumbersStay
  <2> QED
    BY <2>3, <2>5
<1>6. Builds(v)' /\ Counts(v)'
  <2>1. pc[v] \in {"hook", "number"} => Busy(v)
    BY DEF Busy
  <2> QED
    BY <1>0, <1>5, <2>1 DEF Builds, Counts
<1>7. Revises(v)'
  <2>1. pc[v] \in {"hook", "cycle"} => store'[Name(v)] = store[Name(v)]
    BY <1>4 DEF Busy
  <2> QED
    BY <1>0, <1>1, <1>2, <2>1 DEF Revises
<1>8. Inspects(v)'
  <2>1. SUFFICES ASSUME pc[v] \in {"hook", "cycle"}, Modifies(v)
                 PROVE  Inspects(v)'
    BY <1>0, <1>1, <1>2 DEF Inspects
  <2>2. RulesStay /\ store'[Name(v)] = store[Name(v)] /\ Child(v) \in Groups
    BY <1>4, <2>1, RequestNames DEF Busy, Modifies, Structural, Child
  <2>3. \A t : Sound(Name(v), t)' <=> Sound(Name(v), t)
    BY <1>1, <2>2, SoundStays DEF Sound
  <2>4. store[Child(v)] # NoGroup =>
          /\ store'[Child(v)] # NoGroup
          /\ store'[Child(v)].rules = store[Child(v)].rules
    <3>1. SUFFICES ASSUME Child(v) \in Stored
                   PROVE  Child(v) \in Stored' /\ store'[Child(v)].rules = store[Child(v)].rules
      BY <2>2 DEF Stored
    <3> QED
      BY <2>2, <3>1 DEF RulesStay
  <2>5. store[Child(v)] # NoGroup => (SoundBelow(v)' <=> SoundBelow(v))
    BY <1>1, <2>3, <2>4 DEF SoundBelow
  <2>6. SoundLeft(v)' <=> SoundLeft(v)
    BY <1>0, <2>3 DEF SoundLeft, AllSound
  <2> QED
    BY <1>0, <1>1, <1>2, <2>2, <2>4, <2>5, <2>6 DEF Inspects
<1> QED
  BY <1>3, <1>6, <1>7, <1>8 DEF Performs

(* No other request is answered. *)
RepliesStay(w) == \A v \in Workers \ {w} : reply'[v] = reply[v]

(* A step that leaves storage alone has its own request to answer for. *)
LEMMA LocalKeepsWork ==
  ASSUME TInv, DInv, NEW w \in Workers, Busy(w), OthersStay(w), WalksStay(w), RepliesStay(w),
         UNCHANGED <<store, req>>, Performs(w)'
  PROVE  DInv'
<1>1. Stored' = Stored
  BY DEF Stored
<1>2. NamedByKey' /\ RulesStay /\ NumbersStay /\ GroupsStay(w)
  BY <1>1 DEF DInv, NamedByKey, RulesStay, NumbersStay, GroupsStay
<1>3. \A v \in Workers \ {w} : Performs(v)'
  BY <1>2, OthersKeepWork DEF RepliesStay
<1>4. Apart'
  BY DEF DInv, Apart, OthersStay, Busy
<1> QED
  BY <1>2, <1>3, <1>4 DEF DInv

(* A request that is answered has nothing to keep. *)
LEMMA DoneWork ==
  ASSUME NEW w \in Workers, pc'[w] = "done"
  PROVE  Performs(w)'
BY DEF Performs, Serves, Builds, Counts, Revises, Inspects

-----------------------------------------------------------------------------
(* A step of w leaves the requests of the others alone. *)
LEMMA StepFrame ==
  ASSUME TInv, NEW w \in Workers, WorkerStep(w)
  PROVE  Busy(w) /\ OthersStay(w) /\ WalksStay(w) /\ RepliesStay(w)
<1>0. /\ store \in [Groups -> Group \cup {NoGroup}]
      /\ pc \in [Workers -> States] /\ at \in [Workers -> 1..7]
      /\ draft \in [Workers -> Group] /\ todo \in [Workers -> SUBSET Groups]
      /\ largest \in [Workers -> 0..MaxInt32] /\ walk \in [Workers -> Seq(SUBSET Groups)]
      /\ reply \in [Workers -> {"none", "ok"} \cup GroupErrors]
      /\ req \in [Workers -> Requests \cup {NoRequest}]
  BY DEF TInv, TypeOK, States
<1> DEFINE Frame == Busy(w) /\ OthersStay(w) /\ WalksStay(w) /\ RepliesStay(w)
<1> USE DEF OthersStay, WalksStay, RepliesStay, Busy, InChain, LocalStep, Advance, Fail
<1>1. LoadGroup(w) \/ FailOnExistingGroup(w) \/ CheckExpansionTargets(w) => Frame
  BY <1>0 DEF LoadGroup, FailOnExistingGroup, CheckExpansionTargets
<1>2. SetManagingGroup(w) => Frame
  BY <1>0 DEF SetManagingGroup
<1>3. SetGroupNumber(w) => Frame
  BY <1>0 DEF SetGroupNumber
<1>4. (\E n \in Groups : ScanNumber(w, n)) => Frame
  BY <1>0 DEF ScanNumber
<1>5. AssignNumber(w) => Frame
  BY <1>0 DEF AssignNumber
<1>6. (\E h \in GroupDraftHooks : RunGroupHook(w, h)) => Frame
  BY <1>0 DEF RunGroupHook
<1>7. CheckExpansionCycles(w) => Frame
  BY <1>0 DEF CheckExpansionCycles
<1>8. (\E t \in Groups : Visit(w, t)) => Frame
  BY <1>0 DEF Visit
<1>9. Ascend(w) => Frame
  BY <1>0 DEF Ascend
<1>10. SaveGroup(w) => Frame
  BY <1>0 DEF SaveGroup
<1>11. DestroyGroupHook(w) => Frame
  BY <1>0 DEF DestroyGroupHook
<1>12. FinishChain(w) \/ Return(w) => Frame
  BY <1>0 DEF FinishChain, Return
<1> QED
  BY <1>1, <1>2, <1>3, <1>4, <1>5, <1>6, <1>7, <1>8, <1>9, <1>10, <1>11, <1>12
  DEF WorkerStep

(* One hook of a creation is done: what it adds to the draft. *)
LEMMA CreationAdvances ==
  ASSUME TInv, DInv, NEW w \in Workers, NEW h, InChain(w, h), req[w].chain = "CREATE",
         h \notin {"set-group-number", "save-group"},
         pc'[w] = "hook", at'[w] = at[w] + 1, reply'[w] = reply[w],
         UNCHANGED <<store, req>>, largest'[w] = largest[w],
         h = "fail-on-existing-group" => store[Name(w)] = NoGroup,
         h = "set-managing-group" => ManagerKnown(req[w].dg, store),
         draft'[w].name = IF h = "set-group-name" THEN Name(w) ELSE draft[w].name,
         draft'[w].managedBy = IF h # "set-managing-group"
                                  \/ req[w].dg.managedBy \in {Unmanaged, Absent}
                                 THEN draft[w].managedBy ELSE req[w].dg.managedBy,
         draft'[w].text = IF h = "set-group-displayname" THEN req[w].dg.text ELSE draft[w].text,
         UNCHANGED <<draft[w].rules, draft[w].caps, draft[w].um, draft[w].kv>>
  PROVE  Performs(w)'
<1>1. /\ pc[w] = "hook" /\ at[w] \in 1..4
      /\ NumberPlace("CREATE", at[w], h) /\ WorkPlace("CREATE", at[w], h)
  <2>1. at[w] \in 1..6 /\ NumberPlace("CREATE", at[w], h) /\ WorkPlace("CREATE", at[w], h)
    BY HookWorks DEF LastHook
  <2> QED
    BY <2>1, GroupChainCases DEF NumberPlace, InChain, Chain
<1>2. Serves(w) /\ Builds(w) /\ Counts(w)
  BY DEF DInv, Performs
<1>3. Name(w)' = Name(w) /\ Stored' = Stored /\ (Low => Low')
  BY DEF Name, Stored, Low
<1>4. at'[w] \in 2..5
  BY <1>1
<1>5. Serves(w)'
  BY <1>1, <1>2 DEF Serves
<1>6. Counts(w)'
  BY <1>1, <1>2, <1>3, <1>4 DEF Counts
<1>7. Builds(w)'
  BY <1>1, <1>2, <1>3, <1>4 DEF Builds, NumberPlace, WorkPlace
<1>8. Revises(w)' /\ Inspects(w)'
  BY DEF Revises, Inspects, Modifies
<1> QED
  BY <1>5, <1>6, <1>7, <1>8 DEF Performs

(* The fifth hook of a creation, and its scan. *)
LEMMA NumberHookWorks ==
  ASSUME ChangesApart, TInv, DInv, NEW w \in Workers,
         SetGroupNumber(w) \/ (\E n \in Groups : ScanNumber(w, n)) \/ AssignNumber(w)
  PROVE  DInv'
<1>0. /\ draft \in [Workers -> Group] /\ pc \in [Workers -> States]
      /\ at \in [Workers -> 1..7] /\ todo \in [Workers -> SUBSET Groups]
      /\ largest \in [Workers -> 0..MaxInt32] /\ MaxInt32 \in Nat \ {0}
      /\ store \in [Groups -> Group \cup {NoGroup}]
      /\ reply \in [Workers -> {"none", "ok"} \cup GroupErrors]
      /\ MaxAutoNumber \in Nat /\ MaxAutoNumber <= MaxInt32
  BY MaxInt32Assumption, GroupOptionsAssumption DEF TInv, TypeOK, States, ChangesApart
<1>1. UNCHANGED <<store, req>>
  BY DEF SetGroupNumber, ScanNumber, AssignNumber, LocalStep
<1>2. SUFFICES Performs(w)'
  <2>1. WorkerStep(w)
    BY DEF WorkerStep
  <2> QED
    BY <1>1, <2>1, StepFrame, LocalKeepsWork
<1>3. Name(w)' = Name(w) /\ Stored' = Stored /\ (Low => Low')
  BY <1>1 DEF Name, Stored, Low
<1>4. Serves(w) /\ Builds(w) /\ Counts(w)
  BY DEF DInv, Performs
<1>5. pc[w] \in {"hook", "number"} /\ at[w] = 5 /\ req[w].chain = "CREATE"
  <2>1. CASE SetGroupNumber(w)
    BY <2>1, HookWorks DEF SetGroupNumber, NumberPlace
  <2>2. CASE pc[w] = "number"
    BY <1>4, <2>2 DEF TInv, Placed, Serves
  <2> QED
    BY <2>1, <2>2 DEF ScanNumber, AssignNumber
<1>6. ASSUME pc'[w] \in {"hook", "number"}, at'[w] \in {5, 6}, reply'[w] = reply[w],
             pc'[w] = "number" => req[w].dg.number = AutoNumber,
             draft'[w] = [draft[w] EXCEPT !.number = draft'[w].number],
             at'[w] = 6 /\ req[w].dg.number # AutoNumber => draft'[w].number = req[w].dg.number,
             Counts(w)'
      PROVE  Performs(w)'
  <2>1. Serves(w)'
    BY <1>1, <1>4, <1>5, <1>6 DEF Serves
  <2>2. /\ draft'[w].name = draft[w].name /\ draft'[w].managedBy = draft[w].managedBy
        /\ draft'[w].text = draft[w].text /\ draft'[w].rules = draft[w].rules
        /\ draft'[w].caps = draft[w].caps /\ draft'[w].um = draft[w].um
        /\ draft'[w].kv = draft[w].kv
    <3>1. PICK x : x = draft'[w].number
      OBVIOUS
    <3>2. draft'[w] = [draft[w] EXCEPT !.number = x] /\ draft[w] \in Group
      BY <1>0, <1>6, <3>1
    <3> QED
      BY <3>2 DEF Group
  <2>3. Builds(w)'
    BY <1>1, <1>3, <1>4, <1>5, <1>6, <2>2 DEF Builds
  <2>4. Revises(w)' /\ Inspects(w)'
    BY <1>1, <1>5, <1>6 DEF Revises, Inspects, Modifies
  <2> QED
    BY <1>6, <2>1, <2>3, <2>4 DEF Performs
<1>7. draft[w] = [draft[w] EXCEPT !.number = draft[w].number]
  BY <1>0 DEF Group
<1>8. CASE SetGroupNumber(w)
  <2>1. pc[w] = "hook"
    BY <1>8 DEF SetGroupNumber, InChain
  <2>2. CASE req[w].dg.number = AutoNumber
    <3>1. /\ pc'[w] = "number" /\ at'[w] = 5 /\ todo'[w] = Stored
          /\ draft'[w] = draft[w] /\ largest'[w] = largest[w] /\ reply'[w] = reply[w]
      BY <1>0, <1>5, <1>8, <2>2 DEF SetGroupNumber
    <3>2. Low /\ largest[w] = 0
      BY <1>4, <1>5, <2>1, <2>2 DEF Counts
    <3>3. Counts(w)'
      BY <1>0, <1>1, <1>3, <3>1, <3>2 DEF Counts
    <3> QED
      BY <1>6, <1>7, <2>2, <3>1, <3>3
  <2>3. CASE req[w].dg.number # AutoNumber
    <3>1. /\ pc'[w] = "hook" /\ at'[w] = 6 /\ reply'[w] = reply[w]
          /\ draft'[w] = [draft[w] EXCEPT !.number = req[w].dg.number]
      BY <1>0, <1>5, <1>8, <2>3 DEF SetGroupNumber, Advance
    <3>2. draft'[w].number = req[w].dg.number
      BY <1>0, <3>1 DEF Group
    <3>3. Counts(w)'
      BY <1>1, <2>3 DEF Counts
    <3> QED
      BY <1>6, <3>1, <3>2, <3>3
  <2> QED
    BY <2>2, <2>3
<1>9. ASSUME NEW n \in Groups, ScanNumber(w, n)
      PROVE  Performs(w)'
  <2>1. pc[w] = "number" /\ n \in todo[w] /\ req[w].dg.number = AutoNumber
    BY <1>4, <1>9 DEF ScanNumber, Serves
  <2>2. /\ Low /\ largest[w] < MaxInt32 /\ todo[w] \subseteq Stored
        /\ \A k \in Stored \ todo[w] : store[k].number <= largest[w]
    BY <1>4, <1>5, <2>1 DEF Counts
  <2>3. store[n] # NoGroup
    BY <2>1, <2>2 DEF Stored
  <2> DEFINE m == IF store[n].number > largest[w] THEN store[n].number ELSE largest[w]
  <2>4. /\ pc'[w] = "number" /\ at'[w] = 5 /\ todo'[w] = todo[w] \ {n}
        /\ draft'[w] = draft[w] /\ largest'[w] = m /\ reply'[w] = reply[w]
    BY <1>0, <1>5, <1>9, <2>1, <2>3 DEF ScanNumber
  <2>5. \A k \in Stored : store[k].number \in Int /\ store[k].number < MaxAutoNumber
    BY <1>0, <2>2 DEF Low, Stored, Group, Numbers
  <2>6. largest[w] \in Int /\ n \in Stored
    BY <1>0, <2>3 DEF Stored
  <2>7. m < MaxInt32 /\ \A k \in Stored \ (todo[w] \ {n}) : store[k].number <= m
    BY <1>0, <2>2, <2>5, <2>6
  <2> HIDE DEF m
  <2>8. Counts(w)'
    BY <1>1, <1>3, <2>2, <2>4, <2>7 DEF Counts
  <2> QED
    BY <1>6, <1>7, <2>1, <2>4, <2>8
<1>10. CASE AssignNumber(w)
  <2>1. pc[w] = "number" /\ todo[w] = {} /\ req[w].dg.number = AutoNumber
    BY <1>4, <1>10 DEF AssignNumber, Serves
  <2>2. largest[w] < MaxInt32 /\ \A k \in Stored : store[k].number <= largest[w]
    BY <1>4, <1>5, <2>1 DEF Counts
  <2>3. Increment(largest[w]) = largest[w] + 1 /\ largest[w] \in Nat
    BY <1>0, <2>2 DEF Increment
  <2>4. /\ pc'[w] = "hook" /\ at'[w] = 6 /\ reply'[w] = reply[w]
        /\ draft'[w] = [draft[w] EXCEPT !.number = largest[w] + 1]
    BY <1>0, <1>5, <1>10, <2>1, <2>3 DEF AssignNumber, Advance
  <2>5. draft'[w].number = largest[w] + 1
    BY <1>0, <2>4 DEF Group
  <2>6. \A k \in Stored : store[k].number < draft'[w].number
    <3>1. \A k \in Stored : store[k].number \in Int
      BY <1>0 DEF Stored, Group, Numbers
    <3> QED
      BY <2>2, <2>3, <2>5, <3>1
  <2>7. Counts(w)'
    BY <1>1, <1>3, <2>3, <2>4, <2>5, <2>6 DEF Counts
  <2> QED
    BY <1>6, <2>1, <2>4, <2>5, <2>7
<1> QED
  BY <1>8, <1>9, <1>10

(* What becomes of a group that is edited. *)
LEMMA EditedGroupIs ==
  ASSUME NEW r, NEW g
  PROVE  /\ r.chain = "FETCH" => EditedGroup(r, g) = g
         /\ r.chain = "MODIFY_EXPANSIONS" =>
              EditedGroup(r, g) = GroupHookResult("patch-group-expansions", g, r.dg)
         /\ r.chain \in GroupEditChains =>
              EditedGroup(r, g) = GroupHookResult(GroupEditHook[r.chain], g, r.dg)
<1>1. r.chain \in GroupEditChains => r.chain \notin {"FETCH", "MODIFY_EXPANSIONS"}
  BY GroupChainsDistinct
<1>2. GroupHookResult("patch-group-expansions", g, r.dg) = PatchGroupExpansions(g, r.dg)
  BY DEF GroupHookResult
<1> QED
  BY <1>1, <1>2, Zenon DEF EditedGroup

(* One hook of any other chain is done, but for the walk and the write. *)
LEMMA RevisionAdvances ==
  ASSUME TInv, DInv, NEW w \in Workers, NEW h, InChain(w, h), req[w].chain # "CREATE",
         h \notin {"save-group", "destroy-group", "check-expansion-cycles"},
         pc'[w] = "hook", at'[w] = at[w] + 1, reply'[w] = reply[w], UNCHANGED <<store, req>>,
         h = "load-group" => store[Name(w)] # NoGroup /\ draft'[w] = store[Name(w)],
         h \in GroupDraftHooks => /\ GroupHookError(h, draft[w], req[w].dg) = "none"
                                  /\ draft'[w] = GroupHookResult(h, draft[w], req[w].dg),
         h = "check-expansion-targets" => draft'[w] = draft[w]
  PROVE  Performs(w)'
<1> DEFINE c == req[w].chain
           g == store[Name(w)]
<1>1. /\ pc[w] = "hook" /\ c \in GroupChains /\ NumberPlace(c, at[w], h)
      /\ RulePlace(c, at[w], h) /\ WorkPlace(c, at[w], h) /\ at[w] \in 1..LastHook(c)
  BY HookWorks
<1>2. Serves(w) /\ Revises(w) /\ Inspects(w)
  BY DEF DInv, Performs
<1>3. /\ Name(w)' = Name(w) /\ Child(w)' = Child(w) /\ Stored' = Stored
      /\ Modifies(w)' = Modifies(w)
  BY DEF Name, Child, Stored, Modifies, Proposes
<1>4. Serves(w)' /\ Builds(w)' /\ Counts(w)'
  BY <1>1, <1>2 DEF Serves, Builds, Counts
<1>5. \/ at[w] = 1 /\ h = "load-group"
      \/ c \in GroupEditChains /\ at[w] = 2 /\ h = GroupEditHook[c]
      \/ c = "MODIFY_EXPANSIONS" /\ at[w] = 2 /\ h = "check-immediate-expansions"
      \/ c = "MODIFY_EXPANSIONS" /\ at[w] = 4 /\ h = "check-expansion-targets"
      \/ c = "MODIFY_EXPANSIONS" /\ at[w] = 5 /\ h = "patch-group-expansions"
  <2>1. CASE at[w] = 1
    BY <1>1, <2>1 DEF NumberPlace
  <2>2. CASE at[w] # 1 /\ c \in {"DESTROY", "FETCH"}
    BY <1>1, <2>2 DEF NumberPlace, LastHook
  <2>3. CASE at[w] # 1 /\ c = "MODIFY_EXPANSIONS"
    <3>1. at[w] \in 2..6
      BY <1>1, <2>3 DEF LastHook
    <3> QED
      BY <1>1, <2>3, <3>1 DEF RulePlace, WorkPlace
  <2>4. CASE at[w] # 1 /\ c \in GroupEditChains
    <3>1. at[w] \in 2..3
      BY <1>1, <2>4, GroupChainsDistinct DEF LastHook
    <3> QED
      BY <1>1, <2>4, <3>1 DEF WorkPlace
  <2> QED
    BY <1>1, <2>1, <2>2, <2>3, <2>4 DEF GroupChains
<1>6. LastHook(c) # 2 \/ c = "DESTROY"
  BY DEF LastHook
<1>7. ASSUME at[w] # 1
      PROVE  g # NoGroup /\ draft[w] = g
  <2>1. at[w] \in 2..LastHook(c) /\ at[w] # LastHook(c) /\ c # "DESTROY"
    BY <1>1, <1>5, <1>7, GroupChainsDistinct DEF LastHook
  <2> QED
    BY <1>1, <1>2, <2>1 DEF Revises
<1>8. CASE at[w] = 1
  <2>1. at'[w] = 2 /\ g # NoGroup /\ draft'[w] = g
    BY <1>1, <1>5, <1>8
  <2>2. Revises(w)'
    BY <1>3, <1>6, <2>1 DEF Revises
  <2>3. Inspects(w)'
    BY <2>1 DEF Inspects
  <2> QED
    BY <1>4, <2>2, <2>3 DEF Performs
<1>9. CASE c \in GroupEditChains /\ at[w] = 2
  <2>1. h = GroupEditHook[c] /\ h \in GroupDraftHooks
    BY <1>5, <1>9, GroupChainsDistinct DEF GroupDraftHooks
  <2>2. /\ at'[w] = 3 /\ g # NoGroup /\ draft'[w] = EditedGroup(req[w], g)
        /\ GroupHookError(GroupEditHook[c], g, req[w].dg) = "none"
    BY <1>7, <1>9, <2>1, EditedGroupIs
  <2>3. c # "DESTROY" /\ LastHook(c) = 3 /\ c # "MODIFY_EXPANSIONS"
    BY <1>9, GroupChainsDistinct DEF LastHook
  <2>4. Revises(w)'
    BY <1>3, <2>2, <2>3 DEF Revises
  <2>5. Inspects(w)'
    BY <1>3, <2>3 DEF Inspects, Modifies
  <2> QED
    BY <1>4, <2>4, <2>5 DEF Performs
<1>10. ASSUME c = "MODIFY_EXPANSIONS", at[w] # 1, at[w] # 5, draft'[w] = draft[w],
              Modifies(w) => \/ at[w] # 3 /\ at'[w] \in 4..6
                             \/ at'[w] = 3 /\ ~ImmediateConflict(g.rules, Child(w))
       PROVE  Performs(w)'
  <2>1. LastHook(c) = 6 /\ at'[w] \in 2..6 /\ at'[w] # 6 /\ c \notin GroupEditChains
    BY <1>1, <1>5, <1>10, GroupChainsDistinct DEF LastHook
  <2>2. Revises(w)'
    BY <1>3, <1>7, <1>10, <2>1 DEF Revises
  <2>3. SoundBelow(w)' <=> SoundBelow(w)
    <3>1. RulesStay
      BY <1>3 DEF RulesStay
    <3>2. \A t : Sound(Name(w), t)' <=> Sound(Name(w), t)
      BY <1>3, <3>1, SoundStays DEF Sound
    <3> QED
      BY <1>3, <3>2 DEF SoundBelow
  <2>4. Inspects(w)'
    BY <1>1, <1>2, <1>3, <1>5, <1>10, <2>3 DEF Inspects
  <2> QED
    BY <1>4, <2>2, <2>4 DEF Performs
<1>11. CASE h = "check-immediate-expansions"
  <2>1. c = "MODIFY_EXPANSIONS" /\ at[w] = 2 /\ at'[w] = 3 /\ h \in GroupDraftHooks
    BY <1>1, <1>11 DEF WorkPlace, GroupDraftHooks
  <2>2. draft'[w] = draft[w] /\ GroupHookError("check-immediate-expansions", g, req[w].dg) = "none"
    BY <1>7, <1>11, <2>1 DEF GroupHookResult
  <2>3. Modifies(w) => ~ImmediateConflict(g.rules, Child(w))
    <3>1. GroupHookError("check-immediate-expansions", g, req[w].dg)
            = IF Proposes(req[w].dg) /\ ImmediateConflict(g.rules, req[w].dg.rule.target)
                THEN "existing-expansion" ELSE "none"
      BY Zenon DEF GroupHookError
    <3> QED
      BY <2>2, <3>1 DEF Modifies, Child
  <2> QED
    BY <1>10, <2>1, <2>2, <2>3
<1>12. CASE h = "check-expansion-targets"
  BY <1>1, <1>10, <1>12 DEF WorkPlace
<1>13. CASE h = "patch-group-expansions"
  <2>1. c = "MODIFY_EXPANSIONS" /\ at[w] = 5 /\ at'[w] = 6 /\ h \in GroupDraftHooks
    BY <1>1, <1>13 DEF RulePlace, GroupDraftHooks
  <2>2. g # NoGroup /\ draft'[w] = EditedGroup(req[w], g)
    BY <1>7, <1>13, <2>1, EditedGroupIs
  <2>3. LastHook(c) = 6 /\ c \notin GroupEditChains
    BY <2>1, GroupChainsDistinct DEF LastHook
  <2>4. Revises(w)'
    BY <1>3, <2>1, <2>2, <2>3 DEF Revises
  <2>5. SoundBelow(w)' <=> SoundBelow(w)
    <3>1. RulesStay
      BY <1>3 DEF RulesStay
    <3>2. \A t : Sound(Name(w), t)' <=> Sound(Name(w), t)
      BY <1>3, <3>1, SoundStays DEF Sound
    <3> QED
      BY <1>3, <3>2 DEF SoundBelow
  <2>6. Inspects(w)'
    BY <1>1, <1>2, <1>3, <2>1, <2>5 DEF Inspects
  <2> QED
    BY <1>4, <2>4, <2>6 DEF Performs
<1> QED
  BY <1>5, <1>8, <1>9, <1>11, <1>12, <1>13

(* The hooks that read storage and edit the draft. *)
LEMMA LocalHookWorks ==
  ASSUME TInv, DInv, NEW w \in Workers,
         LoadGroup(w) \/ FailOnExistingGroup(w) \/ SetManagingGroup(w)
           \/ CheckExpansionTargets(w) \/ \E h \in GroupDraftHooks : RunGroupHook(w, h)
  PROVE  DInv'
<1>0. /\ draft \in [Workers -> Group] /\ pc \in [Workers -> States]
      /\ at \in [Workers -> 1..7] /\ req \in [Workers -> Requests \cup {NoRequest}]
      /\ reply \in [Workers -> {"none", "ok"} \cup GroupErrors]
  BY DEF TInv, TypeOK, States
<1>1. UNCHANGED <<store, req, largest>>
  BY DEF LoadGroup, FailOnExistingGroup, SetManagingGroup, CheckExpansionTargets,
         RunGroupHook, LocalStep
<1>2. SUFFICES Performs(w)'
  <2>1. WorkerStep(w)
    BY DEF WorkerStep
  <2> QED
    BY <1>1, <2>1, StepFrame, LocalKeepsWork
<1>3. CASE \E err : Fail(w, err)
  BY <1>0, <1>3, DoneWork DEF Fail
<1>4. Advance(w) => pc'[w] = "hook" /\ at'[w] = at[w] + 1 /\ reply'[w] = reply[w]
                    /\ ~\E err : Fail(w, err)
  BY <1>0 DEF Advance, Fail
<1>5. CASE LoadGroup(w) /\ Advance(w)
  <2>1. InChain(w, "load-group") /\ store[Name(w)] # NoGroup /\ draft'[w] = store[Name(w)]
    BY <1>0, <1>4, <1>5 DEF LoadGroup
  <2>2. req[w].chain # "CREATE"
    BY <2>1, HookWorks DEF NumberPlace
  <2>3. "load-group" \notin GroupDraftHooks
    BY GroupEditHooksApart DEF GroupDraftHooks
  <2> QED
    BY <1>1, <1>4, <1>5, <2>1, <2>2, <2>3, RevisionAdvances
<1>6. CASE FailOnExistingGroup(w) /\ Advance(w)
  <2>1. InChain(w, "fail-on-existing-group") /\ store[Name(w)] = NoGroup /\ draft' = draft
    BY <1>4, <1>6 DEF FailOnExistingGroup
  <2>2. req[w].chain = "CREATE"
    BY <2>1, HookWorks DEF WorkPlace
  <2> QED
    BY <1>1, <1>4, <1>6, <2>1, <2>2, CreationAdvances
<1>7. CASE SetManagingGroup(w) /\ Advance(w)
  <2> DEFINE by == IF req[w].dg.managedBy \in {Unmanaged, Absent} THEN draft[w].managedBy
                                                                  ELSE req[w].dg.managedBy
  <2>1. /\ InChain(w, "set-managing-group") /\ ManagerKnown(req[w].dg, store)
        /\ draft' = [draft EXCEPT ![w].managedBy = by]
    BY <1>4, <1>7 DEF SetManagingGroup
  <2>2. req[w].chain = "CREATE"
    BY <2>1, HookWorks DEF WorkPlace
  <2>3. /\ draft'[w].name = draft[w].name /\ draft'[w].managedBy = by
        /\ draft'[w].text = draft[w].text /\ draft'[w].rules = draft[w].rules
        /\ draft'[w].caps = draft[w].caps /\ draft'[w].um = draft[w].um
        /\ draft'[w].kv = draft[w].kv
    <3> HIDE DEF by
    <3> QED
      BY <1>0, <2>1 DEF Group
  <2> QED
    BY <1>1, <1>4, <1>7, <2>1, <2>2, <2>3, CreationAdvances
<1>8. CASE CheckExpansionTargets(w) /\ Advance(w)
  <2>1. InChain(w, "check-expansion-targets") /\ draft' = draft
    BY <1>8 DEF CheckExpansionTargets
  <2>2. req[w].chain # "CREATE"
    BY <2>1, HookWorks DEF WorkPlace
  <2>3. "check-expansion-targets" \notin GroupDraftHooks
    BY GroupEditHooksApart DEF GroupDraftHooks
  <2> QED
    BY <1>1, <1>4, <1>8, <2>1, <2>2, <2>3, RevisionAdvances
<1>9. ASSUME NEW h \in GroupDraftHooks, RunGroupHook(w, h), Advance(w)
      PROVE  Performs(w)'
  <2>1. /\ InChain(w, h) /\ GroupHookError(h, draft[w], req[w].dg) = "none"
        /\ draft'[w] = GroupHookResult(h, draft[w], req[w].dg)
    BY <1>0, <1>4, <1>9 DEF RunGroupHook
  <2>2. h \notin {"load-group", "set-group-number", "save-group", "destroy-group",
                  "fail-on-existing-group", "set-managing-group", "check-expansion-cycles",
                  "check-expansion-targets"}
    BY GroupEditHooksApart DEF GroupDraftHooks
  <2>3. CASE req[w].chain # "CREATE"
    BY <1>1, <1>4, <1>9, <2>1, <2>2, <2>3, RevisionAdvances
  <2>4. CASE req[w].chain = "CREATE"
    <3>1. h \in {"set-group-name", "set-group-displayname"}
      <4>1. WorkPlace("CREATE", at[w], h) /\ RulePlace("CREATE", at[w], h)
        BY <2>1, <2>4, HookWorks
      <4>2. "CREATE" \notin GroupEditChains
        BY GroupChainsDistinct
      <4> QED
        BY <4>1, <4>2 DEF WorkPlace, RulePlace, GroupDraftHooks
    <3>2. /\ draft'[w].name = IF h = "set-group-name" THEN Name(w) ELSE draft[w].name
          /\ draft'[w].text = IF h = "set-group-displayname" THEN req[w].dg.text
                                                             ELSE draft[w].text
          /\ draft'[w].managedBy = draft[w].managedBy /\ draft'[w].rules = draft[w].rules
          /\ draft'[w].caps = draft[w].caps /\ draft'[w].um = draft[w].um
          /\ draft'[w].kv = draft[w].kv
      <4>1. draft[w] \in Group
        BY <1>0
      <4> QED
        BY <2>1, <3>1, <4>1
        DEF GroupHookResult, SetGroupName, SetGroupDisplayName, Group, Name
    <3> QED
      BY <1>1, <1>4, <1>9, <2>1, <2>2, <2>4, <3>1, <3>2, CreationAdvances
  <2> QED
    BY <2>3, <2>4
<1>10. Advance(w) \/ \E err : Fail(w, err)
  BY DEF LoadGroup, FailOnExistingGroup, SetManagingGroup, CheckExpansionTargets,
         RunGroupHook
<1> QED
  BY <1>3, <1>5, <1>6, <1>7, <1>8, <1>9, <1>10

(* The check for cycles goes on as it began, ... *)
LEMMA WalkWorks ==
  ASSUME TInv, DInv, NEW w \in Workers,
         pc[w] \in {"hook", "cycle"}, at[w] = 3, req[w].chain = "MODIFY_EXPANSIONS",
         UNCHANGED <<store, req, draft, reply>>,
         \/ /\ pc'[w] = "hook" /\ at'[w] = 4
            /\ Modifies(w) => store[Child(w)] # NoGroup /\ SoundBelow(w)
         \/ /\ pc'[w] = "cycle" /\ at'[w] = 3 /\ Modifies(w) /\ store[Child(w)] # NoGroup
            /\ SoundBelow(w)
                 <=> AllSound(Name(w), walk'[w])
  PROVE  Performs(w)'
<1>1. /\ Name(w)' = Name(w) /\ Child(w)' = Child(w) /\ Stored' = Stored
      /\ Modifies(w)' = Modifies(w)
  BY DEF Name, Child, Stored, Modifies, Proposes
<1>2. Serves(w) /\ Revises(w) /\ Inspects(w)
  BY DEF DInv, Performs
<1>3. Serves(w)' /\ Builds(w)' /\ Counts(w)'
  BY <1>2 DEF Serves, Builds, Counts
<1>4. LastHook("MODIFY_EXPANSIONS") = 6 /\ "MODIFY_EXPANSIONS" \notin GroupEditChains
  BY GroupChainsDistinct DEF LastHook
<1>5. Revises(w)'
  BY <1>1, <1>2, <1>4 DEF Revises
<1>6. \A t : Sound(Name(w), t)' <=> Sound(Name(w), t)
  <2>1. RulesStay
    BY <1>1 DEF RulesStay
  <2> QED
    BY <1>1, <2>1, SoundStays DEF Sound
<1>7. SoundBelow(w)' <=> SoundBelow(w)
  BY <1>1, <1>6 DEF SoundBelow
<1>8. SoundLeft(w)' <=> AllSound(Name(w), walk'[w])
  BY <1>1, <1>6 DEF SoundLeft, AllSound
<1>9. Modifies(w) => ~ImmediateConflict(store[Name(w)].rules, Child(w))
  BY <1>2 DEF Inspects
<1>10. Inspects(w)'
  BY <1>1, <1>7, <1>8, <1>9 DEF Inspects
<1> QED
  BY <1>3, <1>5, <1>10 DEF Performs

(* The walk s, gone down to the groups below t. *)
Down(s, t, below) == <<below, Head(s) \ {t}>> \o Tail(s)

(* What is left of the walk when it goes down below t, ... *)
LEMMA WalkDown ==
  ASSUME NEW p, NEW t \in Groups, NEW below \in SUBSET Groups, NEW s \in Seq(SUBSET Groups),
         s # <<>>, t \in Head(s),
         (\A c \in below : Sound(p, c)) <=> Sound(p, t)
  PROVE  AllSound(p, Down(s, t, below)) <=> AllSound(p, s)
<1> DEFINE left == Head(s) \ {t}
           r == Down(s, t, below)
<1>1. left \in SUBSET Groups /\ r = <<below, left>> \o Tail(s)
  BY DEF Down
<1> HIDE DEF left, r
<1>2. /\ Len(r) = Len(s) + 1 /\ r[1] = below /\ r[2] = left
      /\ \A i \in 2..Len(s) : r[i + 1] = s[i]
      /\ Len(s) \in Nat \ {0} /\ Head(s) = s[1]
  BY <1>1 DEF left
<1>3. ASSUME \A i \in 1..Len(r) : \A c \in r[i] : Sound(p, c),
             NEW i \in 1..Len(s), NEW c \in s[i]
      PROVE  Sound(p, c)
  <2>1. \A b \in below \cup left : Sound(p, b)
    BY <1>2, <1>3
  <2>2. CASE i = 1
    BY <1>2, <1>3, <2>1, <2>2 DEF left
  <2>3. CASE i # 1
    <3>1. i \in 2..Len(s) /\ i + 1 \in 1..Len(r)
      BY <1>2, <2>3
    <3> QED
      BY <1>2, <1>3, <3>1
  <2> QED
    BY <2>2, <2>3
<1>4. ASSUME \A i \in 1..Len(s) : \A c \in s[i] : Sound(p, c),
             NEW i \in 1..Len(r), NEW c \in r[i]
      PROVE  Sound(p, c)
  <2>1. \A b \in s[1] : Sound(p, b)
    BY <1>2, <1>4
  <2>2. \A b \in below \cup left : Sound(p, b)
    BY <1>2, <2>1 DEF left
  <2>3. CASE i \in {1, 2}
    BY <1>2, <1>4, <2>2, <2>3
  <2>4. CASE i \notin {1, 2}
    <3>1. i - 1 \in 2..Len(s) /\ (i - 1) + 1 = i
      BY <1>2, <2>4
    <3>2. r[i] = s[i - 1]
      BY <1>2, <3>1
    <3> QED
      BY <1>4, <3>1, <3>2
  <2> QED
    BY <2>3, <2>4
<1> QED
  BY <1>3, <1>4 DEF AllSound, r

(* ... and when it comes up from a level with nothing left. *)
LEMMA WalkUp ==
  ASSUME NEW p, NEW s \in Seq(SUBSET Groups), s # <<>>, Head(s) = {}
  PROVE  AllSound(p, Tail(s)) <=> AllSound(p, s)
<1> DEFINE r == Tail(s)
<1>1. /\ Len(r) = Len(s) - 1 /\ Len(s) \in Nat \ {0} /\ s[1] = {}
      /\ \A i \in 1..Len(r) : r[i] = s[i + 1]
  OBVIOUS
<1> HIDE DEF r
<1>2. ASSUME \A i \in 1..Len(r) : \A c \in r[i] : Sound(p, c),
             NEW i \in 1..Len(s), NEW c \in s[i]
      PROVE  Sound(p, c)
  <2>1. i # 1 /\ i - 1 \in 1..Len(r) /\ (i - 1) + 1 = i
    BY <1>1, <1>2
  <2>2. c \in r[i - 1]
    BY <1>1, <1>2, <2>1
  <2> QED
    BY <1>2, <2>1, <2>2
<1>3. ASSUME \A i \in 1..Len(s) : \A c \in s[i] : Sound(p, c),
             NEW i \in 1..Len(r), NEW c \in r[i]
      PROVE  Sound(p, c)
  BY <1>1, <1>3
<1> QED
  BY <1>2, <1>3 DEF r, AllSound

(* ... until nothing is left, or a group is found that should not be there. *)
LEMMA CycleHookWorks ==
  ASSUME TInv, DInv, NEW w \in Workers,
         CheckExpansionCycles(w) \/ (\E t \in Groups : Visit(w, t)) \/ Ascend(w)
  PROVE  DInv'
<1>0. /\ pc \in [Workers -> States] /\ at \in [Workers -> 1..7]
      /\ walk \in [Workers -> Seq(SUBSET Groups)] /\ walk[w] \in Seq(SUBSET Groups)
      /\ store \in [Groups -> Group \cup {NoGroup}]
  BY DEF TInv, TypeOK, States
<1>1. UNCHANGED <<store, req, draft>>
  BY DEF CheckExpansionCycles, Visit, Ascend, LocalStep
<1>2. SUFFICES Performs(w)'
  <2>1. WorkerStep(w)
    BY DEF WorkerStep
  <2> QED
    BY <1>1, <2>1, StepFrame, LocalKeepsWork
<1>3. CASE \E err : Fail(w, err)
  BY <1>0, <1>3, DoneWork DEF Fail
<1>4. pc[w] \in {"hook", "cycle"} /\ at[w] = 3 /\ req[w].chain = "MODIFY_EXPANSIONS"
  <2>1. CASE CheckExpansionCycles(w)
    BY <2>1, HookPlaced DEF CheckExpansionCycles, PlaceOf, InChain
  <2>2. CASE pc[w] = "cycle"
    BY <2>2 DEF TInv, Placed
  <2> QED
    BY <2>1, <2>2 DEF Visit, Ascend
<1>5. draft[w].name = Name(w) /\ Name(w) \in Groups
  <2>1. Name(w) \in Groups
    BY <1>4, GroupRequestsAssumption, RequestNames DEF TInv, Placed, Name
  <2>2. 3 \in 2..LastHook("MODIFY_EXPANSIONS") /\ 3 # LastHook("MODIFY_EXPANSIONS")
    BY DEF LastHook
  <2>3. store[Name(w)] # NoGroup /\ draft[w] = store[Name(w)]
    BY <1>4, <2>2 DEF DInv, Performs, Revises
  <2> QED
    BY <2>1, <2>3 DEF DInv, NamedByKey, Stored
<1>6. CASE CheckExpansionCycles(w)
  <2>1. CASE ~Proposes(req[w].dg)
    <3>1. pc'[w] = "hook" /\ at'[w] = 4 /\ UNCHANGED reply
      BY <1>0, <1>4, <1>6, <2>1 DEF CheckExpansionCycles, Advance
    <3> QED
      BY <1>1, <1>4, <2>1, <3>1, WalkWorks DEF Modifies
  <2>2. CASE Proposes(req[w].dg) /\ store[Child(w)] # NoGroup
    <3>1. /\ pc'[w] = "cycle" /\ at'[w] = 3 /\ UNCHANGED reply
          /\ walk'[w] = <<Targets(store[Child(w)].rules)>>
      BY <1>0, <1>4, <1>6, <2>2 DEF CheckExpansionCycles
    <3>2. AllSound(Name(w), walk'[w]) <=> SoundBelow(w)
      BY <3>1 DEF SoundBelow, AllSound
    <3>3. Modifies(w)
      BY <1>4, <2>2 DEF Modifies
    <3> QED
      BY <1>1, <1>4, <2>2, <3>1, <3>2, <3>3, WalkWorks
  <2> QED
    BY <1>3, <1>6, <2>1, <2>2 DEF CheckExpansionCycles
<1>7. ASSUME pc[w] = "cycle"
      PROVE  /\ Modifies(w) /\ store[Child(w)] # NoGroup /\ walk[w] # <<>>
             /\ AllSound(Name(w), walk[w]) <=> SoundBelow(w)
  BY <1>7 DEF DInv, Performs, Inspects, SoundLeft, AllSound, TInv, Placed
<1>8. ASSUME NEW t \in Groups, Visit(w, t), t # Name(w), store[t] # NoGroup
      PROVE  Performs(w)'
  <2> DEFINE below == Targets(store[t].rules)
  <2>1. /\ pc[w] = "cycle" /\ t \in Head(walk[w])
        /\ pc'[w] = "cycle" /\ at'[w] = 3 /\ UNCHANGED reply
        /\ walk'[w] = <<below, Head(walk[w]) \ {t}>> \o Tail(walk[w])
    BY <1>0, <1>4, <1>5, <1>8 DEF Visit
  <2>2. below \in SUBSET Groups /\ (Sound(Name(w), t) <=> \A c \in below : Sound(Name(w), c))
    <3>1. store[t].rules \in Rules
      BY <1>0, <1>8 DEF Group
    <3>2. Sound(Name(w), t) <=> /\ t # Name(w) /\ t \in Stored
                                /\ \A c \in Targets(store[t].rules) : Sound(Name(w), c)
      BY SoundStep
    <3> QED
      BY <1>8, <3>1, <3>2 DEF Rules, Targets, Stored
  <2> HIDE DEF below
  <2>3. AllSound(Name(w), walk'[w]) <=> AllSound(Name(w), walk[w])
    <3>1. walk[w] # <<>> /\ walk'[w] = Down(walk[w], t, below)
      BY <1>7, <2>1 DEF Down
    <3>2. (\A c \in below : Sound(Name(w), c)) <=> Sound(Name(w), t)
      BY <2>2
    <3>3. AllSound(Name(w), Down(walk[w], t, below)) <=> AllSound(Name(w), walk[w])
      BY <1>0, <2>1, <2>2, <3>1, <3>2, WalkDown
    <3> QED
      BY <3>1, <3>3
  <2> QED
    BY <1>1, <1>4, <1>7, <2>1, <2>3, WalkWorks
<1>9. CASE Ascend(w)
  <2>1. /\ pc[w] = "cycle" /\ Head(walk[w]) = {} /\ walk'[w] = Tail(walk[w])
        /\ UNCHANGED reply
    BY <1>0, <1>9 DEF Ascend, Advance
  <2>2. AllSound(Name(w), walk'[w]) <=> SoundBelow(w)
    <3>1. AllSound(Name(w), Tail(walk[w])) <=> AllSound(Name(w), walk[w])
      BY <1>0, <1>7, <2>1, WalkUp
    <3> QED
      BY <1>7, <2>1, <3>1
  <2>3. CASE Tail(walk[w]) = <<>>
    <3>1. pc'[w] = "hook" /\ at'[w] = 4
      BY <1>0, <1>4, <1>9, <2>3 DEF Ascend, Advance
    <3>2. walk'[w] = <<>> /\ Len(<<>>) = 0
      BY <2>1, <2>3
    <3>3. SoundBelow(w)
      BY <2>2, <3>2 DEF AllSound
    <3> QED
      BY <1>1, <1>4, <1>7, <2>1, <3>1, <3>3, WalkWorks
  <2>4. CASE Tail(walk[w]) # <<>>
    <3>1. pc'[w] = "cycle" /\ at'[w] = 3
      BY <1>0, <1>4, <1>9, <2>1, <2>4 DEF Ascend
    <3> QED
      BY <1>1, <1>4, <1>7, <2>1, <2>2, <3>1, WalkWorks
  <2> QED
    BY <2>3, <2>4
<1>10. ASSUME NEW t \in Groups, Visit(w, t), t = Name(w) \/ store[t] = NoGroup
       PROVE  Performs(w)'
  BY <1>3, <1>5, <1>10 DEF Visit
<1> QED
  BY <1>6, <1>8, <1>9, <1>10

(* An edit keeps the name of the group, and but for a change of rules its  *)
(* number and rules.                                                       *)
LEMMA EditKeeps ==
  ASSUME RulesProposedOnly, NEW r \in Requests, r \in GroupRequest, NEW g \in Group,
         r.chain \notin {"CREATE", "DESTROY", "FETCH"}
  PROVE  /\ EditedGroup(r, g).name = g.name
         /\ r.chain \notin Structural => /\ EditedGroup(r, g).number = g.number
                                         /\ EditedGroup(r, g).rules = g.rules
<1>1. r.chain \in GroupChains /\ r.dg \in DataGroup
  BY DEF GroupRequest
<1>2. CASE r.chain = "MODIFY_EXPANSIONS"
  <2>1. "patch-group-expansions" \in GroupDraftHooks
    BY DEF GroupDraftHooks
  <2> QED
    BY <1>1, <1>2, <2>1, EditedGroupIs, GroupHookKeepsNumber DEF Structural
<1>3. CASE r.chain \in GroupEditChains
  <2>1. /\ GroupEditHook[r.chain] \in GroupEditHooks
        /\ GroupEditHook[r.chain] \notin {"set-group-name", "patch-group-expansions"}
    BY <1>3, GroupChainsDistinct, GroupEditHooksApart
  <2>2. GroupEditHook[r.chain] \in GroupDraftHooks
    BY <2>1 DEF GroupDraftHooks
  <2>3. r.chain # "MODIFY_EXPANSIONS" /\ ~Proposes(r.dg)
    BY <1>3, GroupChainsDistinct DEF RulesProposedOnly
  <2> QED
    BY <1>1, <1>3, <2>1, <2>2, <2>3, EditedGroupIs, GroupHookKeepsNumber, GroupHookKeepsRules
<1> QED
  BY <1>1, <1>2, <1>3 DEF GroupChains

(* What a request writes. *)
LEMMA SavesWork ==
  ASSUME ChangesApart, TInv, DInv, NEW w \in Workers, InChain(w, "save-group")
  PROVE  /\ at[w] = LastHook(req[w].chain) /\ req[w].chain \notin {"DESTROY", "FETCH"}
         /\ draft[w].name = Name(w) /\ Name(w) \in Groups
         /\ req[w].chain = "CREATE" => store[Name(w)] = NoGroup
         /\ req[w].chain # "CREATE" =>
              /\ store[Name(w)] # NoGroup
              /\ draft[w] = EditedGroup(req[w], store[Name(w)])
         /\ req[w].chain \notin Structural =>
              /\ draft[w].number = store[Name(w)].number
              /\ draft[w].rules = store[Name(w)].rules
<1> DEFINE c == req[w].chain
           g == store[Name(w)]
<1>1. /\ pc[w] = "hook" /\ c \in GroupChains /\ Name(w) \in Groups
      /\ req[w] \in Requests /\ req[w] \in GroupRequest
      /\ WorkPlace(c, at[w], "save-group")
  BY HookWorks
<1>2. at[w] = LastHook(c) /\ c \notin {"DESTROY", "FETCH"} /\ at[w] \in 2..LastHook(c)
  BY <1>1 DEF WorkPlace, LastHook
<1>3. CASE c = "CREATE"
  <2>1. at[w] = 6
    BY <1>2, <1>3 DEF LastHook
  <2>2. Builds(w)
    BY DEF DInv, Performs
  <2>3. draft[w].name = Name(w) /\ g = NoGroup
    BY <1>1, <1>3, <2>1, <2>2 DEF Builds
  <2> QED
    BY <1>1, <1>2, <1>3, <2>3 DEF Structural
<1>4. CASE c # "CREATE"
  <2>1. g # NoGroup /\ draft[w] = EditedGroup(req[w], g)
    BY <1>1, <1>2, <1>4 DEF DInv, Performs, Revises
  <2>2. g \in Group /\ g.name = Name(w)
    BY <1>1, <2>1 DEF TInv, TypeOK, DInv, NamedByKey, Stored
  <2>3. /\ EditedGroup(req[w], g).name = g.name
        /\ c \notin Structural => /\ EditedGroup(req[w], g).number = g.number
                                  /\ EditedGroup(req[w], g).rules = g.rules
    BY <1>1, <1>2, <1>4, <2>2, EditKeeps DEF ChangesApart
  <2> QED
    BY <1>1, <1>2, <1>4, <2>1, <2>2, <2>3
<1> QED
  BY <1>3, <1>4

(* A write ... *)
LEMMA SaveWorks ==
  ASSUME ChangesApart, TInv, DInv, NEW w \in Workers, SaveGroup(w)
  PROVE  DInv'
<1>0. /\ draft \in [Workers -> Group] /\ pc \in [Workers -> States]
      /\ at \in [Workers -> 1..7] /\ store \in [Groups -> Group \cup {NoGroup}]
  BY DEF TInv, TypeOK, States
<1>1. InChain(w, "save-group") /\ pc[w] = "hook" /\ UNCHANGED <<req, draft>>
  BY DEF SaveGroup, InChain
<1>2. Busy(w) /\ OthersStay(w) /\ WalksStay(w) /\ RepliesStay(w)
  <2>1. WorkerStep(w)
    BY DEF WorkerStep
  <2> QED
    BY <2>1, StepFrame
<1>3. CASE Fail(w, "internal") /\ UNCHANGED store
  BY <1>0, <1>1, <1>2, <1>3, DoneWork, LocalKeepsWork DEF Fail
<1>4. CASE store' = [store EXCEPT ![draft[w].name] = draft[w]] /\ Advance(w)
  <2>1. /\ at[w] = LastHook(req[w].chain) /\ draft[w].name = Name(w) /\ Name(w) \in Groups
        /\ req[w].chain # "CREATE" => store[Name(w)] # NoGroup
        /\ req[w].chain \notin Structural =>
             /\ draft[w].number = store[Name(w)].number
             /\ draft[w].rules = store[Name(w)].rules
    BY <1>1, SavesWork
  <2>2. pc'[w] = "hook" /\ at'[w] = LastHook(req[w].chain) + 1 /\ reply'[w] = reply[w]
    BY <1>0, <1>4, <2>1 DEF Advance
  <2>3. /\ draft[w] \in Group /\ draft[w] # NoGroup
        /\ store'[Name(w)] = draft[w] /\ GroupsStay(w)
    BY <1>0, <1>4, <2>1, GroupZeroValuesAssumption DEF GroupsStay
  <2>4. Stored' = Stored \cup {Name(w)}
    BY <1>0, <2>1, <2>3 DEF Stored, GroupsStay
  <2>5. Apart'
    BY <1>1, <1>2 DEF DInv, Apart, OthersStay, Busy
  <2>6. NamedByKey'
    BY <2>1, <2>3, <2>4 DEF DInv, NamedByKey, GroupsStay, Stored
  <2>7. (RulesStay /\ NumbersStay) \/ req[w].chain \in Structural
    <3>1. SUFFICES ASSUME req[w].chain \notin Structural
                   PROVE  RulesStay /\ NumbersStay
      OBVIOUS
    <3>2. Name(w) \in Stored /\ Stored' = Stored
      BY <2>1, <2>4, <3>1 DEF Stored, Structural
    <3>3. \A n \in Stored : /\ store'[n].rules = store[n].rules
                            /\ store'[n].number = store[n].number
      BY <2>1, <2>3, <3>1 DEF GroupsStay, Stored
    <3> QED
      BY <3>2, <3>3 DEF RulesStay, NumbersStay
  <2>8. \A v \in Workers \ {w} : Performs(v)'
    BY <1>2, <2>3, <2>7, OthersKeepWork DEF RepliesStay
  <2>9. Performs(w)'
    <3>1. Serves(w)'
      BY <1>1, <2>2 DEF DInv, Performs, Serves
    <3>2. Builds(w)' /\ Counts(w)'
      BY <1>1, <2>2 DEF Builds, Counts, LastHook
    <3>3. Revises(w)'
      BY <1>1, <2>2 DEF Revises, LastHook
    <3>4. Inspects(w)'
      BY <1>1, <2>2 DEF Inspects, Modifies, LastHook
    <3> QED
      BY <3>1, <3>2, <3>3, <3>4 DEF Performs
  <2> QED
    BY <2>5, <2>6, <2>8, <2>9 DEF DInv
<1> QED
  BY <1>3, <1>4 DEF SaveGroup

(* ... and a removal. *)
LEMMA DestroyWorks ==
  ASSUME TInv, DInv, NEW w \in Workers, DestroyGroupHook(w)
  PROVE  /\ DInv'
         /\ at[w] = 2 /\ req[w].chain = "DESTROY" /\ store[Name(w)] # NoGroup
         /\ draft[w].name = Name(w) /\ Name(w) \in Groups
<1>0. /\ draft \in [Workers -> Group] /\ pc \in [Workers -> States]
      /\ at \in [Workers -> 1..7] /\ store \in [Groups -> Group \cup {NoGroup}]
  BY DEF TInv, TypeOK, States
<1>1. /\ pc[w] = "hook" /\ at[w] = 2 /\ Name(w) \in Groups /\ req[w].chain = "DESTROY"
      /\ UNCHANGED req
  BY HookNumbered DEF DestroyGroupHook, NumberPlace
<1>2. Busy(w) /\ OthersStay(w) /\ WalksStay(w) /\ RepliesStay(w)
  <2>1. WorkerStep(w)
    BY DEF WorkerStep
  <2> QED
    BY <2>1, StepFrame
<1>3. store[Name(w)] # NoGroup /\ draft[w].name = Name(w)
  <2>1. 2 \in 2..LastHook("DESTROY")
    BY DEF LastHook
  <2>2. store[Name(w)] # NoGroup /\ draft[w] = store[Name(w)]
    BY <1>1, <2>1 DEF DInv, Performs, Revises
  <2> QED
    BY <1>1, <2>2 DEF DInv, NamedByKey, Stored
<1>4. CASE Fail(w, "internal") /\ UNCHANGED store
  <2>1. DInv'
    BY <1>0, <1>1, <1>2, <1>4, DoneWork, LocalKeepsWork DEF Fail
  <2> QED
    BY <1>1, <1>3, <2>1
<1>5. CASE store' = [store EXCEPT ![Name(w)] = NoGroup] /\ Advance(w)
  <2>1. pc'[w] = "hook" /\ at'[w] = 3 /\ reply'[w] = reply[w]
    BY <1>0, <1>1, <1>5 DEF Advance
  <2>2. GroupsStay(w) /\ Stored' = Stored \ {Name(w)}
    BY <1>0, <1>1, <1>5 DEF GroupsStay, Stored
  <2>3. NamedByKey'
    BY <2>2 DEF DInv, NamedByKey, GroupsStay, Stored
  <2>4. Apart'
    BY <1>1, <1>2 DEF DInv, Apart, OthersStay, Busy
  <2>5. \A v \in Workers \ {w} : Performs(v)'
    BY <1>1, <1>2, <2>2, OthersKeepWork DEF Structural, RepliesStay
  <2>6. Performs(w)'
    <3>1. Serves(w)'
      BY <1>1, <2>1 DEF DInv, Performs, Serves
    <3> QED
      BY <1>1, <2>1, <3>1 DEF Performs, Builds, Counts, Revises, Inspects, Modifies, LastHook
  <2> QED
    BY <1>1, <1>3, <2>3, <2>4, <2>5, <2>6 DEF DInv
<1> QED
  BY <1>3, <1>4, <1>5 DEF DestroyGroupHook

(* Where storage stays as it is, so does what the requests have found. *)
LEMMA StillWorks ==
  ASSUME DInv, UNCHANGED store, NEW v \in Workers,
         pc'[v] = pc[v], req'[v] = req[v], at'[v] = at[v], draft'[v] = draft[v],
         todo'[v] = todo[v], largest'[v] = largest[v], walk'[v] = walk[v], reply'[v] = reply[v]
  PROVE  Performs(v)'
<1>1. /\ Stored' = Stored /\ Name(v)' = Name(v) /\ Child(v)' = Child(v)
      /\ Modifies(v)' = Modifies(v)
  BY DEF Stored, Name, Child, Modifies, Proposes
<1>2. Low' <=> Low
  BY <1>1 DEF Low
<1>3. \A t : Sound(Name(v), t)' <=> Sound(Name(v), t)
  <2>1. RulesStay
    BY <1>1 DEF RulesStay
  <2> QED
    BY <1>1, <2>1, SoundStays DEF Sound
<1>4. Serves(v) /\ Builds(v) /\ Counts(v) /\ Revises(v) /\ Inspects(v)
  BY DEF DInv, Performs
<1>5. Serves(v)' /\ Builds(v)'
  BY <1>1, <1>4 DEF Serves, Builds, ManagerKnown
<1>6. Counts(v)' /\ Revises(v)'
  BY <1>1, <1>2, <1>4 DEF Counts, Revises
<1>7. (SoundBelow(v)' <=> SoundBelow(v)) /\ (SoundLeft(v)' <=> SoundLeft(v))
  BY <1>1, <1>3 DEF SoundBelow, SoundLeft, AllSound
<1>8. Inspects(v)'
  BY <1>1, <1>4, <1>7 DEF Inspects
<1> QED
  BY <1>5, <1>6, <1>8 DEF Performs

(* A request comes and goes. *)
LEMMA RequestWorks ==
  ASSUME ChangesApart, TInv, DInv, NEW w \in Workers,
         FinishChain(w) \/ Return(w) \/ \E r \in Requests : Begin(w, r)
  PROVE  DInv'
<1>0. /\ draft \in [Workers -> Group] /\ pc \in [Workers -> States]
      /\ at \in [Workers -> 1..7] /\ req \in [Workers -> Requests \cup {NoRequest}]
      /\ todo \in [Workers -> SUBSET Groups] /\ largest \in [Workers -> 0..MaxInt32]
      /\ reply \in [Workers -> {"none", "ok"} \cup GroupErrors]
  BY DEF TInv, TypeOK, States
<1>1. /\ OthersStay(w) /\ WalksStay(w) /\ RepliesStay(w) /\ UNCHANGED store
  BY <1>0 DEF FinishChain, Return, Begin, LocalStep, OthersStay, WalksStay, RepliesStay
<1>2. \A v \in Workers \ {w} : Performs(v)'
  BY <1>1, StillWorks DEF OthersStay, WalksStay, RepliesStay
<1>3. NamedByKey'
  <2>1. Stored' = Stored
    BY <1>1 DEF Stored
  <2> QED
    BY <1>1, <2>1 DEF DInv, NamedByKey
<1>4. CASE FinishChain(w)
  <2>1. pc'[w] = "done" /\ Busy(w) /\ UNCHANGED req
    BY <1>0, <1>4 DEF FinishChain, LocalStep, Busy
  <2>2. Performs(w)' /\ Apart'
    BY <1>1, <2>1, DoneWork DEF DInv, Apart, OthersStay, Busy
  <2> QED
    BY <1>2, <1>3, <2>2 DEF DInv
<1>5. CASE Return(w)
  <2>1. /\ pc'[w] = "idle" /\ draft'[w] = BlankGroup /\ largest'[w] = 0 /\ reply'[w] = "none"
    BY <1>0, <1>5 DEF Return
  <2>2. Performs(w)'
    BY <2>1 DEF Performs, Serves, Builds, Counts, Revises, Inspects
  <2>3. Apart'
    BY <1>1, <2>1 DEF DInv, Apart, OthersStay, Busy
  <2> QED
    BY <1>2, <1>3, <2>2, <2>3 DEF DInv
<1>6. ASSUME NEW r \in Requests, Begin(w, r)
      PROVE  DInv'
  <2>1. /\ ~Busy(w) /\ Admissible(r) /\ InBounds(r) /\ pc[w] = "idle" /\ at[w] = 1
        /\ draft[w] = BlankGroup /\ largest[w] = 0 /\ reply[w] = "none"
    BY <1>6 DEF Begin, Busy, TInv, Placed, DInv, Performs, Serves
  <2>2. /\ pc'[w] = "hook" /\ req'[w] = r /\ at'[w] = 1 /\ draft'[w] = BlankGroup
        /\ largest'[w] = 0 /\ reply'[w] = "none"
    BY <1>0, <1>6, <2>1 DEF Begin
  <2>3. Performs(w)'
    <3>1. Serves(w)'
      BY <2>2 DEF Serves
    <3>2. Builds(w)'
      BY <2>2 DEF Builds, BlankGroup
    <3>3. r.chain = "CREATE" /\ r.dg.number = AutoNumber => Low'
      BY <1>1, <2>1 DEF InBounds, Low, Stored
    <3>4. Counts(w)'
      BY <2>2, <3>3 DEF Counts
    <3>5. Revises(w)' /\ Inspects(w)'
      BY <2>2 DEF Revises, Inspects
    <3> QED
      BY <3>1, <3>2, <3>4, <3>5 DEF Performs
  <2>4. \A v \in Workers \ {w} : Busy(v) => ~Conflict(req[v], r) /\ ~Conflict(r, req[v])
    BY <2>1 DEF Admissible, ChangesApart, Conflict
  <2>5. \A v \in Workers \ {w} : (Busy(v)' = Busy(v)) /\ req'[v] = req[v]
    BY <1>1 DEF OthersStay, Busy
  <2>6. Apart'
    BY <2>2, <2>4, <2>5 DEF DInv, Apart
  <2> QED
    BY <1>2, <1>3, <2>3, <2>6 DEF DInv
<1> QED
  BY <1>4, <1>5, <1>6

(* The first state. *)
LEMMA FirstWork == Init => DInv
<1> SUFFICES ASSUME Init PROVE DInv
  OBVIOUS
<1>1. /\ store \in Populations
      /\ \A w \in Workers : /\ pc[w] = "idle" /\ draft[w] = BlankGroup
                            /\ largest[w] = 0 /\ reply[w] = "none"
  BY DEF Init
<1>2. NamedByKey
  BY <1>1, GroupPopulationsAssumption DEF NamedByKey, Stored
<1>3. \A w \in Workers : Performs(w)
  BY <1>1 DEF Performs, Serves, Builds, Counts, Revises, Inspects
<1>4. Apart
  BY <1>1 DEF Apart, Busy
<1> QED
  BY <1>2, <1>3, <1>4 DEF DInv

(* Every step. *)
LEMMA StepWork == ChangesApart /\ TInv /\ DInv /\ [Next]_vars => DInv'
<1> SUFFICES ASSUME ChangesApart, TInv, DInv, [Next]_vars
             PROVE  DInv'
  OBVIOUS
<1>1. CASE UNCHANGED vars
  <2>1. UNCHANGED <<store, pc, req, at, draft, todo, largest, walk, reply>>
    BY <1>1 DEF vars, workerVars
  <2>2. NamedByKey' /\ Apart'
    BY <2>1 DEF DInv, NamedByKey, Stored, Apart, Busy
  <2>3. \A v \in Workers : Performs(v)'
    BY <2>1, StillWorks
  <2> QED
    BY <2>2, <2>3 DEF DInv
<1>2. ASSUME NEW w \in Workers, WorkerStep(w)
      PROVE  DInv'
  BY <1>2, LocalHookWorks, NumberHookWorks, CycleHookWorks, SaveWorks,
     DestroyWorks, RequestWorks
  DEF WorkerStep
<1>3. ASSUME NEW w \in Workers, NEW r \in Requests, Begin(w, r)
      PROVE  DInv'
  BY <1>3, RequestWorks
<1> QED
  BY <1>1, <1>2, <1>3 DEF Next

-----------------------------------------------------------------------------
(***************************************************************************)
(* Every step of the tree is one of the directory, or none.                *)
(***************************************************************************)
(* What module GroupDirectory says of values is what the tree's modules    *)
(* say: of constants, ...                                                  *)
LEMMA DirectoryConstants ==
  /\ Dir!Numbers = Numbers /\ Dir!AutoNumber = AutoNumber /\ Dir!NoRequest = NoRequest
  /\ Dir!GroupChains = GroupChains /\ Dir!GroupEditChains = GroupEditChains
  /\ Dir!GroupEditHook = GroupEditHook
BY DEF Dir!Numbers, Numbers, Dir!AutoNumber, AutoNumber, Dir!NoRequest, NoRequest,
  Dir!GroupChains, GroupChains, Dir!GroupEditChains, GroupEditChains,
  Dir!GroupEditHook, GroupEditHook

(* ... of the hooks that edit a draft, ... *)
LEMMA DirectoryHooks ==
  ASSUME NEW h, NEW g, NEW d
  PROVE  /\ Dir!GroupHookResult(h, g, d) = GroupHookResult(h, g, d)
         /\ Dir!GroupHookError(h, g, d) = GroupHookError(h, g, d)
<1>1. Dir!GroupHookResult(h, g, d) = GroupHookResult(h, g, d)
  BY Zenon DEF GroupHookResult, SetGroupName, SetGroupDisplayName, MergeGroupMeta, Expanded,
    Include, Exclude, Drop, ManageGroupCapabilities, ManageGroupUM, GroupKVChange,
    PatchGroupExpansions, Upsert, ClearFuzzy, ClearExact, Without, KeysOf, Absent,
    Dir!GroupHookResult, Dir!SetGroupName, Dir!SetGroupDisplayName, Dir!MergeGroupMeta,
    Dir!Expanded, Dir!Include, Dir!Exclude, Dir!Drop, Dir!ManageGroupCapabilities,
    Dir!ManageGroupUM, Dir!GroupKVChange, Dir!PatchGroupExpansions, Dir!Upsert,
    Dir!ClearFuzzy, Dir!ClearExact, Dir!Without, Dir!KeysOf, Dir!Absent
<1>2. Dir!GroupHookError(h, g, d) = GroupHookError(h, g, d)
  BY Zenon DEF GroupHookError, Proposes, ImmediateConflict, Targets, KVError, KeysOf, Cardinality,
    Dir!GroupHookError, Dir!Proposes, Dir!ImmediateConflict, Dir!Targets, Dir!KVError,
    Dir!KeysOf, Dir!Cardinality
<1> QED
  BY <1>1, <1>2

(* ... and of whole requests. *)
LEMMA DirectoryRequests ==
  ASSUME NEW r, NEW g, NEW gs, NEW n, NEW d
  PROVE  /\ Dir!GroupVerdict(r, gs) = GroupVerdict(r, gs)
         /\ Dir!EditedGroup(r, g) = EditedGroup(r, g)
         /\ Dir!CreatedGroup(d, n) = CreatedGroup(d, n)
<1>1. Dir!CreatedGroup(d, n) = CreatedGroup(d, n)
  BY DEF Dir!CreatedGroup, CreatedGroup, Dir!BlankGroup, BlankGroup, Dir!Unmanaged, Unmanaged,
    Dir!Absent, Absent, Dir!NoRules, NoRules
<1>2. Dir!EditedGroup(r, g) = EditedGroup(r, g)
  <2>1. Dir!PatchGroupExpansions(g, r.dg) = PatchGroupExpansions(g, r.dg)
    BY Zenon DEF Dir!PatchGroupExpansions, PatchGroupExpansions, Dir!Drop, Drop, Dir!Expanded,
      Expanded, Dir!Include, Include, Dir!Exclude, Exclude
  <2> QED
    BY <2>1, DirectoryConstants, DirectoryHooks, Zenon DEF Dir!EditedGroup, EditedGroup
<1>3. Dir!CycleFrom(RulesOf(gs), r.dg.rule.target, r.dg.name)
        = CycleFrom(RulesOf(gs), r.dg.rule.target, r.dg.name)
  BY Zenon DEF Dir!CycleFrom, CycleFrom, Dir!Known, Known, Dir!Targets, Targets,
    Dir!Cardinality, Cardinality
<1>4. /\ Dir!RulesOf(gs) = RulesOf(gs)
      /\ \A x : Dir!ManagerKnown(x, gs) <=> ManagerKnown(x, gs)
      /\ \A x : Dir!Proposes(x) <=> Proposes(x)
      /\ \A x, t : Dir!ImmediateConflict(x, t) <=> ImmediateConflict(x, t)
  BY Zenon DEF Dir!RulesOf, RulesOf, Dir!ManagerKnown, ManagerKnown, Dir!Unmanaged, Unmanaged,
    Dir!Absent, Absent, Dir!Proposes, Proposes, Dir!ImmediateConflict, ImmediateConflict,
    Dir!Targets, Targets
<1>5. Dir!RuleVerdict(r.dg, gs) = RuleVerdict(r.dg, gs)
  BY <1>3, <1>4, Zenon DEF Dir!RuleVerdict, RuleVerdict
<1>6. Dir!GroupVerdict(r, gs) = GroupVerdict(r, gs)
  BY <1>4, <1>5, DirectoryConstants, DirectoryHooks, Zenon DEF Dir!GroupVerdict, GroupVerdict
<1> QED
  BY <1>1, <1>2, <1>6

(***************************************************************************)
(* What a request is worth where the tree has looked at the same groups.   *)
(***************************************************************************)
LEMMA Verdict ==
  ASSUME NEW r, NEW gs
  PROVE  /\ r.chain = "CREATE" =>
              (GroupVerdict(r, gs) = "ok" <=> gs[r.dg.name] = NoGroup /\ ManagerKnown(r.dg, gs))
         /\ r.chain # "CREATE" /\ gs[r.dg.name] = NoGroup => GroupVerdict(r, gs) # "ok"
         /\ r.chain \in {"DESTROY", "FETCH"} /\ gs[r.dg.name] # NoGroup =>
              GroupVerdict(r, gs) = "ok"
         /\ r.chain = "MODIFY_EXPANSIONS" /\ gs[r.dg.name] # NoGroup =>
              GroupVerdict(r, gs) = RuleVerdict(r.dg, gs)
         /\ r.chain \in GroupEditChains /\ gs[r.dg.name] # NoGroup =>
              (GroupVerdict(r, gs) = "ok"
                 <=> GroupHookError(GroupEditHook[r.chain], gs[r.dg.name], r.dg) = "none")
<1> DEFINE err == GroupHookError(GroupEditHook[r.chain], gs[r.dg.name], r.dg)
           known == gs[r.dg.name] # NoGroup
           v == GroupVerdict(r, gs)
<1>1. CASE r.chain = "CREATE"
  <2>1. r.chain \notin GroupEditChains
    BY <1>1, GroupChainsDistinct
  <2>2. v = IF known THEN "duplicate" ELSE IF ManagerKnown(r.dg, gs) THEN "ok" ELSE "unknown"
    BY <1>1, <2>1, Zenon DEF GroupVerdict
  <2> QED
    BY <1>1, <2>1, <2>2
<1>2. CASE r.chain # "CREATE" /\ ~known
  <2>1. v = "unknown"
    BY <1>2, Zenon DEF GroupVerdict
  <2> QED
    BY <1>2, <2>1
<1>3. CASE r.chain = "MODIFY_EXPANSIONS" /\ known
  <2>1. v = RuleVerdict(r.dg, gs)
    BY <1>3, GroupChainsDistinct, Zenon DEF GroupVerdict
  <2>2. "MODIFY_EXPANSIONS" \notin GroupEditChains
    BY GroupChainsDistinct
  <2> QED
    BY <1>3, <2>1, <2>2
<1>4. CASE r.chain \in GroupEditChains /\ known
  <2>1. r.chain \notin {"CREATE", "DESTROY", "FETCH", "MODIFY_EXPANSIONS"}
    BY <1>4, GroupChainsDistinct
  <2>2. v = IF err = "none" THEN "ok" ELSE err
    BY <1>4, <2>1, Zenon DEF GroupVerdict
  <2>3. err # "none" => err \in GroupErrors
    BY GroupHookErrorType
  <2> HIDE DEF v, err
  <2>4. v = "ok" <=> err = "none"
    BY <2>2, <2>3 DEF GroupErrors
  <2> QED
    BY <1>4, <2>1, <2>4 DEF v, err
<1>5. CASE r.chain \notin {"CREATE", "MODIFY_EXPANSIONS"} /\ r.chain \notin GroupEditChains /\ known
  <2>1. v = "ok"
    BY <1>5, Zenon DEF GroupVerdict
  <2> QED
    BY <1>5, <2>1
<1> QED
  BY <1>1, <1>2, <1>3, <1>4, <1>5

(* The checks of a change of rules. *)
LEMMA RuleVerdictIs ==
  ASSUME store \in [Groups -> Group \cup {NoGroup}], NEW d,
         Proposes(d) => d.rule.target \in Groups
  PROVE  RuleVerdict(d, store) = "ok"
           <=> (Proposes(d) =>
                  /\ ~ImmediateConflict(store[d.name].rules, d.rule.target)
                  /\ store[d.rule.target] # NoGroup
                  /\ \A t \in Targets(store[d.rule.target].rules) : Sound(d.name, t))
<1> DEFINE c == d.rule.target
           clash == ImmediateConflict(store[d.name].rules, c)
           cycle == CycleFrom(RulesOf(store), c, d.name)
<1>1. CASE ~Proposes(d)
  <2>1. RuleVerdict(d, store) = "ok"
    BY <1>1, Zenon DEF RuleVerdict
  <2> QED
    BY <1>1, <2>1
<1>2. CASE Proposes(d) /\ clash
  <2>1. RuleVerdict(d, store) = "existing-expansion"
    BY <1>2, Zenon DEF RuleVerdict
  <2> QED
    BY <1>2, <2>1
<1>3. CASE Proposes(d) /\ ~clash
  <2>1. RuleVerdict(d, store) = IF store[c] = NoGroup THEN "unknown"
                                ELSE IF cycle THEN "existing-expansion" ELSE "ok"
    BY <1>3, Zenon DEF RuleVerdict
  <2>2. RuleVerdict(d, store) = "ok" <=> store[c] # NoGroup /\ ~cycle
    <3> HIDE DEF c, cycle
    <3> QED
      BY <2>1
  <2>3. ASSUME store[c] # NoGroup
        PROVE  cycle <=> ~\A t \in Targets(store[c].rules) : Sound(d.name, t)
    <3>1. c \in Stored
      BY <1>3, <2>3 DEF Stored
    <3> QED
      BY <3>1, CycleFromSound
  <2> HIDE DEF cycle
  <2> QED
    BY <1>3, <2>2, <2>3
<1> QED
  BY <1>1, <1>2, <1>3

(* The refinement mapping: what clients see of a request. *)
PhaseOf(w) ==
  IF ~Busy(w) THEN "idle" ELSE IF Answered(w) THEN "answered" ELSE "called"

VerdictOf(w) ==
  IF ~Answered(w) THEN "none" ELSE IF reply[w] \in GroupErrors THEN "error" ELSE "ok"

Phases   == [w \in Workers |-> PhaseOf(w)]
Verdicts == [w \in Workers |-> VerdictOf(w)]

(* Only the worker that makes a step has its request seen to move. *)
LEMMA OthersMap ==
  ASSUME NEW w \in Workers, OthersStay(w), RepliesStay(w)
  PROVE  /\ Phases' = [Phases EXCEPT ![w] = PhaseOf(w)']
         /\ Verdicts' = [Verdicts EXCEPT ![w] = VerdictOf(w)']
<1>1. \A v \in Workers \ {w} : PhaseOf(v)' = PhaseOf(v) /\ VerdictOf(v)' = VerdictOf(v)
  BY DEF OthersStay, RepliesStay, PhaseOf, VerdictOf, Answered, Busy, Chain
<1> QED
  BY <1>1 DEF Phases, Verdicts

(* A step that clients do not see. *)
LEMMA QuietMaps ==
  ASSUME NEW w \in Workers, OthersStay(w), RepliesStay(w), UNCHANGED <<store, req>>,
         PhaseOf(w)' = PhaseOf(w), VerdictOf(w)' = VerdictOf(w)
  PROVE  UNCHANGED Dir!dirVars
<1>1. Phases' = Phases /\ Verdicts' = Verdicts
  BY OthersMap DEF Phases, Verdicts
<1> QED
  BY <1>1 DEF Dir!dirVars, Phases, Verdicts, PhaseOf, VerdictOf

(* A step that answers. *)
LEMMA AnswerMaps ==
  ASSUME NEW w \in Workers, OthersStay(w), RepliesStay(w), req' = req, NEW v,
         PhaseOf(w) = "called", PhaseOf(w)' = "answered", VerdictOf(w)' = v
  PROVE  Dir!Answer(w, v)
<1>1. /\ Phases' = [Phases EXCEPT ![w] = "answered"] /\ Phases[w] = "called"
      /\ Verdicts' = [Verdicts EXCEPT ![w] = v]
  BY OthersMap DEF Phases
<1> QED
  BY <1>1 DEF Dir!Answer, Phases, Verdicts, PhaseOf, VerdictOf

(* A request is open until its last hook is done. *)
Open(w) ==
  \/ pc[w] \in {"number", "cycle"}
  \/ pc[w] = "hook" /\ at[w] <= LastHook(req[w].chain)

(* What is open is not answered, and what is at its end is. *)
LEMMA OpenIs ==
  ASSUME TInv, NEW w \in Workers, Busy(w)
  PROVE  /\ req[w] \in Requests /\ req[w] \in GroupRequest /\ req[w].chain \in GroupChains
         /\ Name(w) \in Groups
         /\ Len(Chain(w)) = LastHook(req[w].chain) /\ LastHook(req[w].chain) \in 1..6
         /\ at[w] \in 1..7
         /\ Answered(w) <=> ~Open(w)
<1>1. req[w] \in Requests /\ req[w] \in GroupRequest /\ at[w] \in 1..7
  BY GroupRequestsAssumption DEF TInv, TypeOK, Placed, Busy
<1>2. req[w].chain \in GroupChains /\ Name(w) \in Groups
  BY <1>1, RequestNames DEF GroupRequest, Name
<1>3. Len(Chain(w)) = LastHook(req[w].chain) /\ LastHook(req[w].chain) \in 1..6
  <2>1. 1 \in DOMAIN GroupChain[req[w].chain]
    BY <1>2, GroupChainFacts
  <2> QED
    BY <1>2, <2>1, WorkPlaces DEF Chain, LastHook
<1>4. Answered(w) <=> ~Open(w)
  <2>1. PICK n : n = Len(Chain(w)) /\ n = LastHook(req[w].chain) /\ n \in 1..6
    BY <1>3
  <2>2. pc[w] \in States /\ pc[w] # "idle"
    BY DEF TInv, TypeOK, States, Busy
  <2> QED
    BY <1>1, <2>1, <2>2 DEF Answered, Open, States
<1> QED
  BY <1>1, <1>2, <1>3, <1>4

(* Going on is not seen, ... *)
LEMMA OnwardMaps ==
  ASSUME TInv, NEW w \in Workers, WorkerStep(w), UNCHANGED <<store, req>>, Open(w),
         \/ pc'[w] \in {"number", "cycle"}
         \/ pc'[w] = "hook" /\ at'[w] \in Int /\ at'[w] <= LastHook(req[w].chain)
  PROVE  UNCHANGED Dir!dirVars
<1>1. Busy(w) /\ OthersStay(w) /\ RepliesStay(w)
  BY StepFrame
<1>2. ~Answered(w) /\ Busy(w)
  BY <1>1, OpenIs
<1>3. ~Answered(w)' /\ Busy(w)'
  <2>1. Len(Chain(w))' = LastHook(req[w].chain) /\ LastHook(req[w].chain) \in 1..6
    BY <1>1, OpenIs DEF Chain
  <2>2. PICK n : n = Len(Chain(w))' /\ n = LastHook(req[w].chain) /\ n \in 1..6
    BY <2>1
  <2> QED
    BY <2>2 DEF Answered, Busy
<1>4. PhaseOf(w)' = PhaseOf(w) /\ VerdictOf(w)' = VerdictOf(w)
  BY <1>2, <1>3 DEF PhaseOf, VerdictOf
<1> QED
  BY <1>1, <1>4, QuietMaps

(* ... giving up refuses, ... *)
LEMMA RefusalMaps ==
  ASSUME TInv, NEW w \in Workers, WorkerStep(w), UNCHANGED <<store, req>>, Open(w),
         NEW err \in GroupErrors, Fail(w, err),
         GroupVerdict(req[w], store) # "ok" \/ (Faults # {} /\ req[w].chain # "FETCH")
  PROVE  Dir!Refuse(w)
<1>1. Busy(w) /\ OthersStay(w) /\ RepliesStay(w)
  BY StepFrame
<1>2. ~Answered(w) /\ req[w].chain \in GroupChains
  BY <1>1, OpenIs
<1>3. pc'[w] = "done" /\ reply'[w] = err
  BY DEF Fail, TInv, TypeOK
<1>4. PhaseOf(w) = "called" /\ PhaseOf(w)' = "answered" /\ VerdictOf(w)' = "error"
  BY <1>1, <1>2, <1>3 DEF PhaseOf, VerdictOf, Answered, Busy
<1>5. Dir!Answer(w, "error")
  BY <1>1, <1>4, AnswerMaps
<1> QED
  BY <1>2, <1>5, DirectoryConstants, DirectoryRequests DEF Dir!Refuse, Dir!Acceptable

(* ... and the last hook accepts. *)
LEMMA AcceptanceMaps ==
  ASSUME TInv, DInv, NEW w \in Workers, WorkerStep(w), req' = req, Open(w),
         pc'[w] = "hook", at'[w] = LastHook(req[w].chain) + 1, reply'[w] = reply[w]
  PROVE  Dir!Answer(w, "ok")
<1>1. Busy(w) /\ OthersStay(w) /\ RepliesStay(w)
  BY StepFrame
<1>2. ~Answered(w)
  BY <1>1, OpenIs
<1>3. Answered(w)' /\ Busy(w)'
  <2>1. Len(Chain(w))' = LastHook(req[w].chain) /\ LastHook(req[w].chain) \in 1..6
    BY <1>1, OpenIs DEF Chain
  <2>2. PICK n : n = Len(Chain(w))' /\ n = LastHook(req[w].chain) /\ n \in 1..6
    BY <2>1
  <2> QED
    BY <2>2 DEF Answered, Busy
<1>4. reply'[w] = "none"
  BY DEF DInv, Performs, Serves, Open
<1>5. PhaseOf(w) = "called" /\ PhaseOf(w)' = "answered" /\ VerdictOf(w)' = "ok"
  BY <1>1, <1>2, <1>3, <1>4 DEF PhaseOf, VerdictOf, GroupErrors
<1> QED
  BY <1>1, <1>5, AnswerMaps

-----------------------------------------------------------------------------
(* A group is its fields. *)
LEMMA GroupFields ==
  ASSUME NEW x \in Group, NEW y \in Group,
         x.name = y.name, x.number = y.number, x.managedBy = y.managedBy, x.rules = y.rules,
         x.caps = y.caps, x.um = y.um, x.kv = y.kv, x.text = y.text
  PROVE  x = y
BY DEF Group

(* Those of a new one. *)
LEMMA CreatedFields ==
  ASSUME NEW d \in DataGroup, NEW n \in Numbers, NEW x, x = CreatedGroup(d, n)
  PROVE  /\ x \in Group
         /\ x.name = d.name /\ x.number = n /\ x.text = d.text
         /\ x.managedBy = IF d.managedBy = Absent THEN Unmanaged ELSE d.managedBy
         /\ x.rules = NoRules /\ x.caps = {} /\ x.um = {} /\ x.kv = {}
<1> DEFINE by == IF d.managedBy = Absent THEN Unmanaged ELSE d.managedBy
<1>1. by \in Groups \cup {Unmanaged} /\ d.name \in Groups /\ d.text \in Values \cup {NoText}
  BY DEF DataGroup
<1>2. NoRules \in Rules
  BY DEF NoRules, Rules
<1> HIDE DEF by
<1>3. x = [name |-> d.name, number |-> n, managedBy |-> by, rules |-> NoRules,
           caps |-> {}, um |-> {}, kv |-> {}, text |-> d.text]
  BY DEF CreatedGroup, BlankGroup, by
<1> QED
  BY <1>1, <1>2, <1>3 DEF Group, by

(* A creation writes what the directory makes of it, ... *)
LEMMA CreateMaps ==
  ASSUME ChangesApart, TInv, DInv, NEW w \in Workers, SaveGroup(w), Advance(w),
         store' = [store EXCEPT ![draft[w].name] = draft[w]], req[w].chain = "CREATE"
  PROVE  Dir!Create(w)
<1> DEFINE d == req[w].dg
           n == draft[w].number
<1>0. /\ draft[w] \in Group /\ pc \in [Workers -> States] /\ at \in [Workers -> 1..7]
      /\ store \in [Groups -> Group \cup {NoGroup}]
  BY DEF TInv, TypeOK, States
<1>1. /\ InChain(w, "save-group") /\ pc[w] = "hook" /\ at[w] = 6 /\ Name(w) \in Groups
      /\ req[w].dg \in DataGroup /\ draft[w].name = Name(w)
  BY HookWorks, SavesWork DEF SaveGroup, InChain, LastHook
<1>2. Dir!Answer(w, "ok")
  <2>1. /\ pc'[w] = "hook" /\ at'[w] = LastHook(req[w].chain) + 1 /\ reply'[w] = reply[w]
        /\ req' = req /\ Open(w) /\ WorkerStep(w)
    BY <1>0, <1>1 DEF Advance, SaveGroup, LastHook, Open, WorkerStep
  <2> QED
    BY <2>1, AcceptanceMaps
<1>3. /\ store[Name(w)] = NoGroup /\ ManagerKnown(d, store)
      /\ draft[w].managedBy = IF d.managedBy = Absent THEN Unmanaged ELSE d.managedBy
      /\ draft[w].text = d.text /\ draft[w].rules = NoRules /\ draft[w].caps = {}
      /\ draft[w].um = {} /\ draft[w].kv = {}
      /\ d.number # AutoNumber => n = d.number
  BY <1>1 DEF DInv, Performs, Builds
<1>4. d.number = AutoNumber => 0 < n /\ \A g \in Stored : store[g].number < n
  BY <1>1 DEF DInv, Performs, Counts
<1>5. n \in Numbers
  BY <1>0 DEF Group
<1>6. draft[w] = CreatedGroup(d, n)
  <2>1. PICK x : x = CreatedGroup(d, n)
    OBVIOUS
  <2>2. Name(w) = d.name
    BY DEF Name
  <2> HIDE DEF d
  <2>3. /\ x \in Group
        /\ x.name = d.name /\ x.number = n /\ x.text = d.text
        /\ x.managedBy = IF d.managedBy = Absent THEN Unmanaged ELSE d.managedBy
        /\ x.rules = NoRules /\ x.caps = {} /\ x.um = {} /\ x.kv = {}
    BY <1>1, <1>5, <2>1, CreatedFields DEF d
  <2>4. PICK y : y = draft[w]
    OBVIOUS
  <2>5. y \in Group /\ y.name = x.name /\ y.number = x.number
    BY <1>0, <1>1, <2>2, <2>3, <2>4
  <2>6. y.managedBy = x.managedBy /\ y.text = x.text
    BY <1>3, <2>3, <2>4
  <2>7. y.rules = x.rules /\ y.caps = x.caps /\ y.um = x.um /\ y.kv = x.kv
    BY <1>3, <2>3, <2>4
  <2>8. y = x
    BY <2>3, <2>5, <2>6, <2>7, GroupFields
  <2> QED
    BY <2>1, <2>4, <2>8
<1>7. Dir!Acceptable(req[w])
  <2>1. GroupVerdict(req[w], store) = "ok"
    BY <1>3, Verdict DEF Name
  <2> QED
    BY <2>1, DirectoryRequests DEF Dir!Acceptable
<1>8. d.number = AutoNumber => n > 0 /\ Dir!Unused(n)
  <2>1. SUFFICES ASSUME d.number = AutoNumber, NEW g \in Groups, store[g] # NoGroup
                 PROVE  store[g].number # n
    BY <1>4, <1>5 DEF Dir!Unused, Numbers
  <2>2. store[g].number < n
    BY <1>4, <2>1 DEF Stored
  <2>3. store[g].number \in Int /\ n \in Int
    BY <1>0, <1>5, <2>1 DEF Group, Numbers
  <2> QED
    BY <2>2, <2>3
<1>9. store' = [store EXCEPT ![d.name] = Dir!CreatedGroup(d, n)]
  BY <1>1, <1>6, DirectoryRequests DEF Name
<1> HIDE DEF n
<1> QED
  BY <1>2, <1>3, <1>5, <1>7, <1>8, <1>9, DirectoryConstants DEF Dir!Create

(* ... and so does a change of what is stored, however long ago that was   *)
(* loaded.                                                                 *)
LEMMA EditMaps ==
  ASSUME ChangesApart, TInv, DInv, NEW w \in Workers, SaveGroup(w), Advance(w),
         store' = [store EXCEPT ![draft[w].name] = draft[w]], req[w].chain # "CREATE"
  PROVE  Dir!Edit(w)
<1> DEFINE c == req[w].chain
           d == req[w].dg
           g == store[Name(w)]
<1>0. /\ pc \in [Workers -> States] /\ at \in [Workers -> 1..7]
      /\ store \in [Groups -> Group \cup {NoGroup}]
  BY DEF TInv, TypeOK, States
<1>1. /\ InChain(w, "save-group") /\ pc[w] = "hook" /\ at[w] = LastHook(c)
      /\ Name(w) \in Groups /\ draft[w].name = Name(w) /\ c \notin {"DESTROY", "FETCH"}
      /\ g # NoGroup /\ draft[w] = EditedGroup(req[w], g)
  BY SavesWork DEF SaveGroup, InChain
<1>2. c \in GroupChains /\ (Proposes(d) => Child(w) \in Groups)
  BY <1>1, HookWorks
<1>3. Dir!Answer(w, "ok")
  <2>1. /\ pc'[w] = "hook" /\ at'[w] = LastHook(c) + 1 /\ reply'[w] = reply[w]
        /\ req' = req /\ Open(w) /\ WorkerStep(w)
    BY <1>0, <1>1 DEF Advance, SaveGroup, LastHook, Open, WorkerStep
  <2> QED
    BY <2>1, AcceptanceMaps
<1>4. GroupVerdict(req[w], store) = "ok"
  <2>1. CASE c = "MODIFY_EXPANSIONS"
    <3>1. at[w] = 6
      BY <1>1, <2>1 DEF LastHook
    <3>2. Proposes(d) => /\ ~ImmediateConflict(g.rules, Child(w))
                         /\ store[Child(w)] # NoGroup
                         /\ \A t \in Targets(store[Child(w)].rules) : Sound(Name(w), t)
      BY <1>1, <2>1, <3>1 DEF DInv, Performs, Inspects, Modifies, SoundBelow
    <3>3. RuleVerdict(d, store) = "ok"
      BY <1>0, <1>2, <3>2, RuleVerdictIs DEF Name, Child
    <3> QED
      BY <1>1, <2>1, <3>3, Verdict DEF Name
  <2>2. CASE c \in GroupEditChains
    <3>1. at[w] = 3 /\ LastHook(c) = 3
      BY <1>1, <2>2, GroupChainsDistinct DEF LastHook
    <3>2. GroupHookError(GroupEditHook[c], g, d) = "none"
      BY <1>1, <2>2, <3>1 DEF DInv, Performs, Revises
    <3> QED
      BY <1>1, <2>2, <3>2, Verdict DEF Name
  <2> QED
    BY <1>1, <1>2, <2>1, <2>2 DEF GroupChains
<1>5. Dir!Acceptable(req[w])
  BY <1>4, DirectoryRequests DEF Dir!Acceptable
<1>6. store' = [store EXCEPT ![req[w].dg.name] = Dir!EditedGroup(req[w], @)]
  BY <1>0, <1>1, DirectoryRequests DEF Name
<1> QED
  BY <1>1, <1>2, <1>3, <1>5, <1>6, DirectoryConstants DEF Dir!Edit

(* A write that fails is refused, too. *)
LEMMA SaveMaps ==
  ASSUME ChangesApart, TInv, DInv, NEW w \in Workers, SaveGroup(w)
  PROVE  Dir!DirNext
<1>1. InChain(w, "save-group") /\ pc[w] = "hook" /\ WorkerStep(w) /\ UNCHANGED req
  BY DEF SaveGroup, InChain, WorkerStep
<1>2. CASE "put" \in Faults /\ Fail(w, "internal") /\ UNCHANGED store
  <2>1. at[w] = LastHook(req[w].chain) /\ req[w].chain # "FETCH"
    BY <1>1, SavesWork
  <2>2. Open(w)
    <3>1. at[w] \in 1..7
      BY DEF TInv, TypeOK
    <3> QED
      BY <1>1, <2>1, <3>1 DEF Open
  <2>3. Dir!Refuse(w)
    BY <1>1, <1>2, <2>1, <2>2, RefusalMaps DEF GroupErrors
  <2> QED
    BY <2>3 DEF Dir!DirNext
<1>3. CASE store' = [store EXCEPT ![draft[w].name] = draft[w]] /\ Advance(w)
  <2>1. Dir!Create(w) \/ Dir!Edit(w)
    BY <1>3, CreateMaps, EditMaps
  <2> QED
    BY <2>1 DEF Dir!DirNext
<1> QED
  BY <1>2, <1>3 DEF SaveGroup

(* A removal. *)
LEMMA DestroyMaps ==
  ASSUME TInv, DInv, NEW w \in Workers, DestroyGroupHook(w)
  PROVE  Dir!DirNext
<1>0. pc \in [Workers -> States] /\ at \in [Workers -> 1..7]
  BY DEF TInv, TypeOK, States
<1>1. /\ at[w] = 2 /\ req[w].chain = "DESTROY" /\ store[Name(w)] # NoGroup
      /\ draft[w].name = Name(w) /\ Name(w) \in Groups
  BY DestroyWorks
<1>2. pc[w] = "hook" /\ WorkerStep(w) /\ UNCHANGED req /\ Open(w)
  BY <1>1 DEF DestroyGroupHook, InChain, WorkerStep, Open, LastHook
<1>3. Name(w) # NoID
  BY <1>1, GroupZeroValuesAssumption
<1>4. CASE "del" \in Faults /\ Fail(w, "internal") /\ UNCHANGED store
  <2>1. Dir!Refuse(w)
    BY <1>1, <1>2, <1>4, RefusalMaps DEF GroupErrors
  <2> QED
    BY <2>1 DEF Dir!DirNext
<1>5. CASE store' = [store EXCEPT ![Name(w)] = NoGroup] /\ Advance(w)
  <2>1. pc'[w] = "hook" /\ at'[w] = LastHook(req[w].chain) + 1 /\ reply'[w] = reply[w]
    BY <1>0, <1>1, <1>5 DEF Advance, LastHook
  <2>2. Dir!Answer(w, "ok")
    BY <1>2, <2>1, AcceptanceMaps
  <2>3. GroupVerdict(req[w], store) = "ok"
    BY <1>1, Verdict DEF Name
  <2>4. Dir!Destroy(w)
    BY <1>1, <1>5, <2>2, <2>3, DirectoryRequests DEF Dir!Destroy, Dir!Acceptable, Name
  <2> QED
    BY <2>4 DEF Dir!DirNext
<1> QED
  BY <1>1, <1>3, <1>4, <1>5 DEF DestroyGroupHook

(* Loading a group answers a request that only wants to read it. *)
LEMMA LoadMaps ==
  ASSUME TInv, DInv, NEW w \in Workers, LoadGroup(w)
  PROVE  Dir!DirNext \/ UNCHANGED Dir!dirVars
<1> DEFINE c == req[w].chain
           g == store[Name(w)]
<1>0. /\ pc \in [Workers -> States] /\ at \in [Workers -> 1..7]
      /\ store \in [Groups -> Group \cup {NoGroup}]
  BY DEF TInv, TypeOK, States
<1>1. /\ InChain(w, "load-group") /\ pc[w] = "hook" /\ c # "CREATE" /\ at[w] = 1
      /\ c \in GroupChains /\ Name(w) \in Groups /\ WorkerStep(w) /\ UNCHANGED <<store, req>>
  BY HookWorks DEF LoadGroup, InChain, NumberPlace, LocalStep, WorkerStep
<1>2. Open(w)
  BY <1>1 DEF Open, LastHook
<1>3. CASE g = NoGroup /\ Fail(w, "unknown")
  <2>1. GroupVerdict(req[w], store) # "ok"
    BY <1>1, <1>3, Verdict DEF Name
  <2>2. Dir!Refuse(w)
    BY <1>1, <1>2, <1>3, <2>1, RefusalMaps DEF GroupErrors
  <2> QED
    BY <2>2 DEF Dir!DirNext
<1>4. CASE g # NoGroup /\ Advance(w)
  <2>1. pc'[w] = "hook" /\ at'[w] = 2 /\ reply'[w] = reply[w]
    BY <1>0, <1>1, <1>4 DEF Advance
  <2>2. CASE c # "FETCH"
    <3>1. at'[w] <= LastHook(c)
      BY <2>1, <2>2 DEF LastHook
    <3> QED
      BY <1>1, <1>2, <2>1, <3>1, OnwardMaps
  <2>3. CASE c = "FETCH"
    <3>1. at'[w] = LastHook(c) + 1
      BY <2>1, <2>3 DEF LastHook
    <3>2. Dir!Answer(w, "ok")
      BY <1>1, <1>2, <2>1, <3>1, AcceptanceMaps
    <3>3. GroupVerdict(req[w], store) = "ok"
      BY <1>4, <2>3, Verdict DEF Name
    <3>4. Dir!Acceptable(req[w]) /\ Dir!EditedGroup(req[w], g) = g
      BY <2>3, <3>3, EditedGroupIs, DirectoryRequests DEF Dir!Acceptable
    <3>5. store' = [store EXCEPT ![req[w].dg.name] = Dir!EditedGroup(req[w], @)]
      BY <1>0, <1>1, <3>4 DEF Name
    <3>6. Dir!Edit(w)
      BY <1>1, <2>3, <3>2, <3>4, <3>5, DirectoryConstants DEF Dir!Edit
    <3> QED
      BY <3>6 DEF Dir!DirNext
  <2> QED
    BY <2>2, <2>3
<1> QED
  BY <1>3, <1>4 DEF LoadGroup

(* The hooks of a creation but for the last. *)
LEMMA CreationMaps ==
  ASSUME TInv, DInv, NEW w \in Workers,
         \/ FailOnExistingGroup(w) \/ SetManagingGroup(w) \/ SetGroupNumber(w)
         \/ (\E n \in Groups : ScanNumber(w, n)) \/ AssignNumber(w)
  PROVE  Dir!DirNext \/ UNCHANGED Dir!dirVars
<1>0. pc \in [Workers -> States] /\ at \in [Workers -> 1..7]
  BY DEF TInv, TypeOK, States
<1>1. WorkerStep(w) /\ UNCHANGED <<store, req>>
  BY DEF WorkerStep, FailOnExistingGroup, SetManagingGroup, SetGroupNumber, ScanNumber,
         AssignNumber, LocalStep
<1>2. /\ req[w].chain = "CREATE" /\ at[w] \in 1..5
      /\ pc[w] \in {"hook", "number"} /\ Open(w) /\ LastHook("CREATE") = 6
  <2>1. CASE FailOnExistingGroup(w)
    BY <2>1, HookWorks DEF FailOnExistingGroup, WorkPlace, Open, LastHook
  <2>2. CASE SetManagingGroup(w)
    BY <2>2, HookWorks DEF SetManagingGroup, WorkPlace, Open, LastHook
  <2>3. CASE SetGroupNumber(w)
    BY <2>3, HookWorks DEF SetGroupNumber, NumberPlace, Open, LastHook
  <2>4. CASE pc[w] = "number"
    <3>1. req[w].chain = "CREATE" /\ at[w] = 5
      BY <2>4 DEF DInv, Performs, Serves, TInv, Placed
    <3> QED
      BY <2>4, <3>1 DEF Open, LastHook
  <2> QED
    BY <2>1, <2>2, <2>3, <2>4 DEF ScanNumber, AssignNumber
<1>3. ASSUME NEW err \in GroupErrors, Fail(w, err), GroupVerdict(req[w], store) # "ok"
      PROVE  Dir!DirNext
  <2>1. Dir!Refuse(w)
    BY <1>1, <1>2, <1>3, RefusalMaps
  <2> QED
    BY <2>1 DEF Dir!DirNext
<1>4. CASE Advance(w)
  <2>1. pc'[w] = "hook" /\ at'[w] \in Int /\ at'[w] <= LastHook(req[w].chain)
    BY <1>0, <1>2, <1>4 DEF Advance
  <2> QED
    BY <1>1, <1>2, <2>1, OnwardMaps
<1>5. CASE pc'[w] = "number"
  BY <1>1, <1>2, <1>5, OnwardMaps
<1>6. CASE FailOnExistingGroup(w)
  <2>1. CASE store[Name(w)] # NoGroup /\ Fail(w, "duplicate")
    <3>1. GroupVerdict(req[w], store) # "ok"
      BY <1>2, <2>1, Verdict DEF Name
    <3> QED
      BY <1>3, <2>1, <3>1 DEF GroupErrors
  <2> QED
    BY <1>4, <1>6, <2>1 DEF FailOnExistingGroup
<1>7. CASE SetManagingGroup(w)
  <2>1. CASE ~ManagerKnown(req[w].dg, store) /\ Fail(w, "unknown")
    <3>1. GroupVerdict(req[w], store) # "ok"
      BY <1>2, <2>1, Verdict
    <3> QED
      BY <1>3, <2>1, <3>1 DEF GroupErrors
  <2> QED
    BY <1>4, <1>7, <2>1 DEF SetManagingGroup
<1>8. CASE SetGroupNumber(w)
  BY <1>0, <1>4, <1>5, <1>8 DEF SetGroupNumber
<1>9. ASSUME NEW n \in Groups, ScanNumber(w, n)
      PROVE  pc'[w] = "number"
  <2>1. pc[w] = "number" /\ n \in todo[w]
    BY <1>9 DEF ScanNumber
  <2>2. todo[w] \subseteq Stored
    BY <1>2, <2>1 DEF DInv, Performs, Serves, Counts
  <2> QED
    BY <1>9, <2>1, <2>2 DEF ScanNumber, Stored
<1>10. CASE AssignNumber(w)
  BY <1>4, <1>10 DEF AssignNumber
<1> QED
  BY <1>5, <1>6, <1>7, <1>8, <1>9, <1>10

(* The hooks that edit a draft. *)
LEMMA DraftHookMaps ==
  ASSUME TInv, DInv, NEW w \in Workers, NEW h \in GroupDraftHooks, RunGroupHook(w, h)
  PROVE  Dir!DirNext \/ UNCHANGED Dir!dirVars
<1> DEFINE c == req[w].chain
           err == GroupHookError(h, draft[w], req[w].dg)
           g == store[Name(w)]
<1>0. /\ pc \in [Workers -> States] /\ at \in [Workers -> 1..7]
      /\ store \in [Groups -> Group \cup {NoGroup}]
  BY DEF TInv, TypeOK, States
<1>1. /\ InChain(w, h) /\ pc[w] = "hook" /\ c \in GroupChains /\ Name(w) \in Groups
      /\ Proposes(req[w].dg) => Child(w) \in Groups
      /\ NumberPlace(c, at[w], h) /\ RulePlace(c, at[w], h) /\ WorkPlace(c, at[w], h)
      /\ WorkerStep(w) /\ UNCHANGED <<store, req>>
  BY HookWorks DEF RunGroupHook, InChain, LocalStep, WorkerStep
<1>2. \/ c = "CREATE" /\ at[w] \in {3, 4} /\ h \in {"set-group-name", "set-group-displayname"}
      \/ c = "MODIFY_EXPANSIONS" /\ at[w] = 2 /\ h = "check-immediate-expansions"
      \/ c = "MODIFY_EXPANSIONS" /\ at[w] = 5 /\ h = "patch-group-expansions"
      \/ c \in GroupEditChains /\ at[w] = 2 /\ h = GroupEditHook[c]
  BY <1>1 DEF GroupDraftHooks, NumberPlace, RulePlace, WorkPlace
<1>3. at[w] + 1 <= LastHook(c) /\ at[w] \in 2..5
  BY <1>2, GroupChainsDistinct DEF LastHook
<1>4. Open(w)
  <2>1. LastHook(c) \in Int
    BY DEF LastHook
  <2> QED
    BY <1>1, <1>3, <2>1 DEF Open
<1>5. CASE Advance(w)
  <2>1. pc'[w] = "hook" /\ at'[w] \in Int /\ at'[w] <= LastHook(c)
    BY <1>0, <1>3, <1>5 DEF Advance
  <2> QED
    BY <1>1, <1>4, <2>1, OnwardMaps
<1>6. CASE err # "none" /\ Fail(w, err)
  <2>1. err \in GroupErrors
    BY <1>6, GroupHookErrorType
  <2>2. h \notin {"set-group-name", "set-group-displayname", "patch-group-expansions"}
    BY <1>6, Zenon DEF GroupHookError
  <2>3. c # "CREATE" /\ at[w] = 2 /\ LastHook(c) # 2
    BY <1>2, <2>2, GroupChainsDistinct DEF LastHook
  <2>4. g # NoGroup /\ draft[w] = g
    BY <1>1, <1>3, <2>3 DEF DInv, Performs, Revises, LastHook
  <2>5. GroupVerdict(req[w], store) # "ok"
    <3>1. CASE h = "check-immediate-expansions"
      <4>1. Proposes(req[w].dg) /\ ImmediateConflict(g.rules, Child(w))
        <5>1. err = IF Proposes(req[w].dg)
                       /\ ImmediateConflict(draft[w].rules, req[w].dg.rule.target)
                      THEN "existing-expansion" ELSE "none"
          BY <3>1, Zenon DEF GroupHookError
        <5> HIDE DEF err
        <5> QED
          BY <1>6, <2>4, <5>1 DEF Child
      <4>2. RuleVerdict(req[w].dg, store) # "ok"
        BY <1>0, <1>1, <4>1, RuleVerdictIs DEF Name, Child
      <4>3. c = "MODIFY_EXPANSIONS"
        BY <1>1, <3>1 DEF WorkPlace
      <4> QED
        BY <2>4, <4>2, <4>3, Verdict DEF Name
    <3>2. CASE h # "check-immediate-expansions"
      <4>1. c \in GroupEditChains /\ h = GroupEditHook[c]
        BY <1>2, <2>2, <3>2
      <4>2. GroupHookError(GroupEditHook[c], g, req[w].dg) # "none"
        BY <1>6, <2>4, <4>1
      <4> QED
        BY <2>4, <4>1, <4>2, Verdict DEF Name
    <3> QED
      BY <3>1, <3>2
  <2> HIDE DEF err
  <2>6. Dir!Refuse(w)
    BY <1>1, <1>4, <1>6, <2>1, <2>5, RefusalMaps
  <2> QED
    BY <2>6 DEF Dir!DirNext
<1> QED
  BY <1>5, <1>6 DEF RunGroupHook

(* The checks of a change of rules that look at storage. *)
LEMMA RuleCheckMaps ==
  ASSUME TInv, DInv, NEW w \in Workers,
         \/ CheckExpansionCycles(w) \/ (\E t \in Groups : Visit(w, t)) \/ Ascend(w)
         \/ CheckExpansionTargets(w)
  PROVE  Dir!DirNext \/ UNCHANGED Dir!dirVars
<1> DEFINE g == store[Name(w)]
<1>0. /\ pc \in [Workers -> States] /\ at \in [Workers -> 1..7]
      /\ store \in [Groups -> Group \cup {NoGroup}] /\ walk[w] \in Seq(SUBSET Groups)
  BY DEF TInv, TypeOK, States
<1>1. WorkerStep(w) /\ UNCHANGED <<store, req>>
  BY DEF WorkerStep, CheckExpansionCycles, Visit, Ascend, CheckExpansionTargets, LocalStep
<1>2. /\ req[w].chain = "MODIFY_EXPANSIONS" /\ at[w] \in {3, 4}
      /\ pc[w] \in {"hook", "cycle"} /\ LastHook("MODIFY_EXPANSIONS") = 6 /\ Open(w)
  <2>1. CASE CheckExpansionCycles(w)
    BY <2>1, HookWorks DEF CheckExpansionCycles, RulePlace, Open, LastHook
  <2>2. CASE CheckExpansionTargets(w)
    BY <2>2, HookWorks DEF CheckExpansionTargets, WorkPlace, Open, LastHook
  <2>3. CASE pc[w] = "cycle"
    BY <2>3 DEF TInv, Placed, Open, LastHook
  <2> QED
    BY <2>1, <2>2, <2>3 DEF Visit, Ascend
<1>3. /\ g # NoGroup /\ draft[w] = g /\ Name(w) \in Groups /\ draft[w].name = Name(w)
      /\ Proposes(req[w].dg) => Child(w) \in Groups
  <2>1. Busy(w)
    BY <1>2 DEF Busy
  <2>2. Name(w) \in Groups /\ (Proposes(req[w].dg) => Child(w) \in Groups)
    BY <2>1, OpenIs, RequestNames DEF Child
  <2>3. g # NoGroup /\ draft[w] = g
    BY <1>2 DEF DInv, Performs, Revises
  <2> QED
    BY <2>2, <2>3 DEF DInv, NamedByKey, Stored
<1>4. CASE Advance(w) \/ pc'[w] = "cycle"
  <2>1. \/ pc'[w] = "cycle"
        \/ pc'[w] = "hook" /\ at'[w] \in Int /\ at'[w] <= LastHook(req[w].chain)
    BY <1>0, <1>2, <1>4 DEF Advance
  <2> QED
    BY <1>1, <1>2, <2>1, OnwardMaps
<1>5. ASSUME NEW err \in GroupErrors, Fail(w, err), Proposes(req[w].dg),
             \/ store[Child(w)] = NoGroup
             \/ ~\A t \in Targets(store[Child(w)].rules) : Sound(Name(w), t)
      PROVE  Dir!DirNext
  <2>1. RuleVerdict(req[w].dg, store) # "ok"
    BY <1>0, <1>3, <1>5, RuleVerdictIs DEF Name, Child
  <2>2. GroupVerdict(req[w], store) # "ok"
    BY <1>2, <1>3, <2>1, Verdict DEF Name
  <2>3. Dir!Refuse(w)
    BY <1>1, <1>2, <1>5, <2>2, RefusalMaps
  <2> QED
    BY <2>3 DEF Dir!DirNext
<1>6. CASE CheckExpansionCycles(w)
  BY <1>0, <1>4, <1>5, <1>6 DEF CheckExpansionCycles, GroupErrors
<1>7. ASSUME NEW t \in Groups, Visit(w, t)
      PROVE  Dir!DirNext \/ UNCHANGED Dir!dirVars
  <2>1. pc[w] = "cycle" /\ t \in Head(walk[w])
    BY <1>7 DEF Visit
  <2>2. CASE t = Name(w) \/ store[t] = NoGroup
    <3>1. Fail(w, "existing-expansion")
      BY <1>3, <1>7, <2>2 DEF Visit
    <3>2. ~Sound(Name(w), t)
      BY <2>2 DEF Sound, Stored
    <3>3. walk[w] # <<>> /\ Modifies(w) /\ (SoundLeft(w) <=> SoundBelow(w))
      BY <2>1 DEF TInv, Placed, DInv, Performs, Inspects
    <3>4. 1 \in 1..Len(walk[w]) /\ t \in walk[w][1]
      BY <1>0, <2>1, <3>3
    <3>5. ~SoundBelow(w)
      BY <3>2, <3>3, <3>4 DEF SoundLeft, AllSound
    <3> QED
      BY <1>5, <3>1, <3>3, <3>5 DEF Modifies, SoundBelow, GroupErrors
  <2>3. CASE t # Name(w) /\ store[t] # NoGroup
    BY <1>0, <1>3, <1>4, <1>7, <2>1, <2>3 DEF Visit
  <2> QED
    BY <2>2, <2>3
<1>8. CASE Ascend(w)
  BY <1>0, <1>4, <1>8 DEF Ascend
<1>9. CASE CheckExpansionTargets(w)
  <2>1. at[w] = 4 /\ pc[w] = "hook"
    BY <1>9, HookWorks DEF CheckExpansionTargets, WorkPlace
  <2>2. Proposes(req[w].dg) => store[Child(w)] # NoGroup
    BY <1>2, <2>1 DEF DInv, Performs, Inspects, Modifies
  <2> QED
    BY <1>4, <1>9, <2>2 DEF CheckExpansionTargets
<1> QED
  BY <1>6, <1>7, <1>8, <1>9

(* A request comes and goes. *)
LEMMA RequestMaps ==
  ASSUME TInv, DInv, NEW w \in Workers,
         FinishChain(w) \/ Return(w) \/ \E r \in Requests : Begin(w, r)
  PROVE  Dir!DirNext \/ UNCHANGED Dir!dirVars
<1>0. /\ pc \in [Workers -> States] /\ at \in [Workers -> 1..7]
      /\ req \in [Workers -> Requests \cup {NoRequest}]
      /\ reply \in [Workers -> {"none", "ok"} \cup GroupErrors]
  BY DEF TInv, TypeOK, States
<1>1. CASE FinishChain(w)
  <2>1. /\ UNCHANGED <<store, req>> /\ pc[w] = "hook" /\ at[w] > Len(Chain(w))
        /\ pc'[w] = "done" /\ reply'[w] = "ok"
    BY <1>0, <1>1 DEF FinishChain, LocalStep
  <2>2. OthersStay(w) /\ RepliesStay(w)
    BY <1>1, StepFrame DEF WorkerStep
  <2>3. reply[w] = "none"
    BY <2>1 DEF DInv, Performs, Serves
  <2>4. Answered(w) /\ Answered(w)' /\ Busy(w) /\ Busy(w)'
    BY <2>1 DEF Answered, Busy
  <2>5. PhaseOf(w)' = PhaseOf(w) /\ VerdictOf(w)' = VerdictOf(w)
    BY <2>1, <2>3, <2>4 DEF PhaseOf, VerdictOf, GroupErrors
  <2> QED
    BY <2>1, <2>2, <2>5, QuietMaps
<1>2. CASE Return(w)
  <2>1. /\ store' = store /\ pc[w] = "done" /\ pc'[w] = "idle"
        /\ req' = [req EXCEPT ![w] = NoRequest]
    BY <1>0, <1>2 DEF Return
  <2>2. OthersStay(w) /\ RepliesStay(w)
    BY <1>2, StepFrame DEF WorkerStep
  <2>3. /\ PhaseOf(w) = "answered" /\ PhaseOf(w)' = "idle" /\ VerdictOf(w)' = "none"
    BY <2>1 DEF PhaseOf, VerdictOf, Answered, Busy
  <2>4. /\ Phases' = [Phases EXCEPT ![w] = "idle"] /\ Phases[w] = "answered"
        /\ Verdicts' = [Verdicts EXCEPT ![w] = "none"]
    BY <2>2, <2>3, OthersMap DEF Phases
  <2>5. Dir!Forget(w)
    BY <2>1, <2>4, DirectoryConstants DEF Dir!Forget, Phases, Verdicts, PhaseOf, VerdictOf
  <2> QED
    BY <2>5 DEF Dir!DirNext
<1>3. ASSUME NEW r \in Requests, Begin(w, r)
      PROVE  Dir!DirNext
  <2>1. /\ pc[w] = "idle" /\ at[w] = 1 /\ UNCHANGED <<store, at, reply>>
        /\ req' = [req EXCEPT ![w] = r] /\ req'[w] = r /\ pc'[w] = "hook"
        /\ \A v \in Workers \ {w} : pc'[v] = pc[v] /\ req'[v] = req[v]
    BY <1>0, <1>3 DEF Begin, Busy, TInv, Placed
  <2>2. ~Answered(w)'
    <3>1. r.chain \in GroupChains
      BY GroupRequestsAssumption DEF GroupRequest
    <3>2. PICK n : n = Len(Chain(w))' /\ n \in 1..6
      BY <2>1, <3>1, GroupChainFacts DEF Chain
    <3> QED
      BY <2>1, <3>2 DEF Answered
  <2>3. \A v \in Workers \ {w} : PhaseOf(v)' = PhaseOf(v) /\ VerdictOf(v)' = VerdictOf(v)
    BY <2>1 DEF PhaseOf, VerdictOf, Answered, Busy, Chain
  <2>4. /\ PhaseOf(w) = "idle" /\ PhaseOf(w)' = "called" /\ VerdictOf(w)' = VerdictOf(w)
    BY <2>1, <2>2 DEF PhaseOf, VerdictOf, Answered, Busy
  <2>5. /\ Phases' = [Phases EXCEPT ![w] = "called"] /\ Phases[w] = "idle"
        /\ Verdicts' = Verdicts
    BY <2>3, <2>4 DEF Phases, Verdicts
  <2>6. Dir!Call(w, r)
    BY <2>1, <2>5 DEF Dir!Call, Phases, Verdicts, PhaseOf, VerdictOf
  <2> QED
    BY <2>6 DEF Dir!DirNext
<1> QED
  BY <1>1, <1>2, <1>3

(* Any step. *)
LEMMA StepMaps ==
  ChangesApart /\ TInv /\ DInv /\ [Next]_vars => [Dir!DirNext]_(Dir!dirVars)
<1> SUFFICES ASSUME ChangesApart, TInv, DInv, [Next]_vars
             PROVE  [Dir!DirNext]_(Dir!dirVars)
  OBVIOUS
<1>1. ASSUME NEW w \in Workers, WorkerStep(w)
      PROVE  Dir!DirNext \/ UNCHANGED Dir!dirVars
  BY <1>1, LoadMaps, CreationMaps, DraftHookMaps, RuleCheckMaps, SaveMaps, DestroyMaps,
     RequestMaps
  DEF WorkerStep
<1>2. ASSUME NEW w \in Workers, NEW r \in Requests, Begin(w, r)
      PROVE  Dir!DirNext \/ UNCHANGED Dir!dirVars
  BY <1>2, RequestMaps
<1>3. CASE UNCHANGED vars
  <2>1. UNCHANGED <<store, pc, req, at, reply>>
    BY <1>3 DEF vars, workerVars
  <2> QED
    BY <2>1 DEF Dir!dirVars, Busy, Answered, Chain
<1> QED
  BY <1>1, <1>2, <1>3 DEF Next

(* Clients that keep conflicting requests apart see the directory that     *)
(* module GroupDirectory promises: each request takes effect at a single   *)
(* instant, the write of its chain, or is refused, for a reason that holds *)
(* at that instant, and leaves no trace, whatever requests run next to it  *)
(* between its hooks.                                                      *)
THEOREM GroupDirectoryImplemented ==
  ASSUME ChangesApart
  PROVE  Spec => ImplementsGroups
<1>1. Init => Dir!DirInit
  BY DEF Init, Dir!DirInit, Dir!NoRequest, NoRequest, Answered, Busy
<1>2. TInv /\ DInv /\ [Next]_vars => (TInv /\ DInv)'
  BY StepTypes, StepWork
<1>3. Init => TInv /\ DInv
  BY FirstTypes, FirstWork
<1>4. TInv /\ DInv /\ [Next]_vars => [Dir!DirNext]_(Dir!dirVars)
  BY StepMaps
<1> QED
  BY <1>1, <1>2, <1>3, <1>4, PTL DEF Spec, ImplementsGroups, Dir!DirSpec
=============================================================================
