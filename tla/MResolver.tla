------------------------------ MODULE MResolver -----------------------------
(***************************************************************************)
(* The membership resolver (internal/mresolver).  It is called by          *)
(* concurrent threads and takes its mutex for single look-ups and updates  *)
(* only, so that a step here is one critical section.  Each thread has a   *)
(* call stack of SyncGroup, resolveChanges and Resolve frames.             *)
(***************************************************************************)
EXTENDS GroupRules, Sequences

CONSTANTS
  Threads,
  Unresolved   \* a group without a resolved expression

ASSUME UnresolvedAssumption == \A x \in Expressions : x # Unresolved

VARIABLES
  gc,     \* the rules of each group as last synced, or NoGroup
  gt,     \* the resolved expression of each group, or Unresolved; the maps
          \* gr and gs hold the same, and are written with it
  ga,     \* the groups to resolve again when a group changes
  stack,  \* each thread's calls, innermost first
  failed  \* whether the last call of Resolve that returned had an error

mrVars == <<gc, gt, ga, stack, failed>>

-----------------------------------------------------------------------------
(* A call: what it has still to do, and what it has built so far.          *)
Frame(fn, g, next) == [fn |-> fn, group |-> g, next |-> next, rules |-> NoRules,
                       expr |-> {}, operand |-> g, cascade |-> {}, visited |-> {}]

SyncFrame(g, r)   == [Frame("SyncGroup", g, "store") EXCEPT !.rules = r]
ChangesFrame(g)   == Frame("resolveChanges", g, "resolve")
ResolveFrame(g)   == Frame("Resolve", g, "lookup")

Frames == [fn : {"SyncGroup", "resolveChanges", "Resolve"},
           group : Groups,
           next : {"store", "link", "resolve", "affected", "cascade",
                   "lookup", "operand", "fetch"},
           rules : Rules, expr : Expressions, operand : Groups,
           cascade : SUBSET Groups, visited : SUBSET Groups]

MRTypeOK ==
  /\ gc \in RuleMap
  /\ gt \in [Groups -> Expressions \cup {Unresolved}]
  /\ ga \in [Groups -> SUBSET Groups]
  /\ stack \in [Threads -> Seq(Frames)]
  /\ failed \in [Threads -> BOOLEAN]

MRInit ==
  /\ gc = [g \in Groups |-> NoGroup]
  /\ gt = [g \in Groups |-> Unresolved]
  /\ ga = [g \in Groups |-> {}]
  /\ stack = [t \in Threads |-> <<>>]
  /\ failed = [t \in Threads |-> FALSE]

Idle(t) == stack[t] = <<>>

(* Thread t is about to take step "next" of a call of fn. *)
In(t, fn, next) ==
  ~Idle(t) /\ Head(stack[t]).fn = fn /\ Head(stack[t]).next = next

Top(t) == Head(stack[t])

(* The innermost call goes on as f; it also calls g; it returns. *)
Continue(t, f) == stack' = [stack EXCEPT ![t] = <<f>> \o Tail(@)]
Invoke(t, f, g) == stack' = [stack EXCEPT ![t] = <<g, f>> \o Tail(@)]
Return(t) == stack' = [stack EXCEPT ![t] = Tail(@)]

-----------------------------------------------------------------------------
(* SyncGroup(g, include, exclude) is called. *)
CallSyncGroup(t, g, r) ==
  /\ Idle(t)
  /\ stack' = [stack EXCEPT ![t] = <<SyncFrame(g, r)>>]
  /\ UNCHANGED <<gc, gt, ga, failed>>

(* It stores the rules and resolves the group, ... *)
SyncStore(t) ==
  /\ In(t, "SyncGroup", "store")
  /\ gc' = [gc EXCEPT ![Top(t).group] = Top(t).rules]
  /\ Invoke(t, [Top(t) EXCEPT !.next = "link"], ResolveFrame(Top(t).group))
  /\ UNCHANGED <<gt, ga, failed>>

(* Variant: excludes are forgotten. *)
SyncLinkIncludes(t) ==
  /\ In(t, "SyncGroup", "link")
  /\ ga' = [x \in Groups |->
              IF x \in Top(t).rules.inc THEN ga[x] \cup {Top(t).group} ELSE ga[x]]
  /\ Continue(t, ChangesFrame(Top(t).group))
  /\ UNCHANGED <<gc, gt, failed>>

(* Variant: the group itself is taken for one of its targets. *)
SyncLinkSelf(t) ==
  /\ In(t, "SyncGroup", "link")
  /\ ga' = [x \in Groups |->
              IF x \in Targets(Top(t).rules) \cup {Top(t).group}
                THEN ga[x] \cup {Top(t).group} ELSE ga[x]]
  /\ Continue(t, ChangesFrame(Top(t).group))
  /\ UNCHANGED <<gc, gt, failed>>

(* ... notes that the targets of the rules affect it, whether it resolved  *)
(* or not, and propagates the change.                                      *)
SyncLink(t) ==
  /\ In(t, "SyncGroup", "link")
  /\ ga' = [x \in Groups |->
              IF x \in Targets(Top(t).rules) THEN ga[x] \cup {Top(t).group} ELSE ga[x]]
  /\ Continue(t, ChangesFrame(Top(t).group))
  /\ UNCHANGED <<gc, gt, failed>>

(* resolveChanges resolves the group, ... *)
ChangesResolve(t) ==
  /\ In(t, "resolveChanges", "resolve")
  /\ Invoke(t, [Top(t) EXCEPT !.next = "affected"], ResolveFrame(Top(t).group))
  /\ UNCHANGED <<gc, gt, ga, failed>>

(* ... takes the map of the groups it affects, ... *)
ChangesAffected(t) ==
  /\ In(t, "resolveChanges", "affected")
  /\ Continue(t, [Top(t) EXCEPT !.cascade = ga[Top(t).group], !.next = "cascade"])
  /\ UNCHANGED <<gc, gt, ga, failed>>

(* Variant: a visited group is visited again. *)
CascadeAgain(t, g) ==
  /\ In(t, "resolveChanges", "cascade")
  /\ g \in Top(t).cascade \cup ga[Top(t).group]
  /\ Invoke(t, Top(t), ChangesFrame(g))
  /\ UNCHANGED <<gc, gt, ga, failed>>

(* ... and calls itself for each of them.  The map is shared and is walked *)
(* without the lock: a group that another thread adds or removes meanwhile *)
(* may or may not be visited.                                              *)
ChangesCascade(t, g) ==
  /\ In(t, "resolveChanges", "cascade")
  /\ g \in (Top(t).cascade \cup ga[Top(t).group]) \ Top(t).visited
  /\ Invoke(t, [Top(t) EXCEPT !.visited = @ \cup {g}], ChangesFrame(g))
  /\ UNCHANGED <<gc, gt, ga, failed>>

(* Variant: the cascade stops at any group. *)
ChangesReturnEarly(t) ==
  /\ In(t, "resolveChanges", "cascade")
  /\ Return(t)
  /\ UNCHANGED <<gc, gt, ga, failed>>

ChangesReturn(t) ==
  /\ In(t, "resolveChanges", "cascade")
  /\ Top(t).cascade \cap ga[Top(t).group] \subseteq Top(t).visited
  /\ Return(t)
  /\ UNCHANGED <<gc, gt, ga, failed>>

-----------------------------------------------------------------------------
(* Resolve looks up the group's rules; without them it fails.              *)
ResolveLookup(t) ==
  /\ In(t, "Resolve", "lookup")
  /\ LET g == Top(t).group
     IN  IF gc[g] = NoGroup
           THEN Return(t) /\ failed' = [failed EXCEPT ![t] = TRUE]
           ELSE /\ Continue(t, [Top(t) EXCEPT !.rules = gc[g], !.expr = Self(g),
                                              !.next = "operand"])
                /\ UNCHANGED failed
  /\ UNCHANGED <<gc, gt, ga>>

(* The includes come first, and then the excludes. *)
NextOperands(f) == IF f.rules.inc # {} THEN f.rules.inc ELSE f.rules.exc

(* The call after the expression x of operand g is added to what it built. *)
Combined(f, g, x) ==
  IF g \in f.rules.inc
    THEN [f EXCEPT !.expr = @ \cup x, !.rules.inc = @ \ {g}, !.next = "operand"]
    ELSE [f EXCEPT !.expr = @ \ x, !.rules.exc = @ \ {g}, !.next = "operand"]

(* The expression of an operand is taken from the cache; one that is not   *)
(* there is resolved first ...                                             *)
ResolveOperand(t, g) ==
  /\ In(t, "Resolve", "operand")
  /\ g \in NextOperands(Top(t))
  /\ IF gt[g] # Unresolved
       THEN Continue(t, Combined(Top(t), g, gt[g]))
       ELSE Invoke(t, [Top(t) EXCEPT !.operand = g, !.next = "fetch"], ResolveFrame(g))
  /\ UNCHANGED <<gc, gt, ga, failed>>

(* ... and fetched then, unless that failed, and this call with it.  A     *)
(* group removed since contributes nothing.                                *)
ResolveFetch(t) ==
  /\ In(t, "Resolve", "fetch")
  /\ IF failed[t]
       THEN Return(t)
       ELSE LET g == Top(t).operand
            IN  Continue(t, Combined(Top(t), g, IF gt[g] = Unresolved THEN {} ELSE gt[g]))
  /\ UNCHANGED <<gc, gt, ga, failed>>

(* The finished expression is written to the three maps at once. *)
ResolveWrite(t) ==
  /\ In(t, "Resolve", "operand")
  /\ Targets(Top(t).rules) = {}
  /\ gt' = [gt EXCEPT ![Top(t).group] = Top(t).expr]
  /\ failed' = [failed EXCEPT ![t] = FALSE]
  /\ Return(t)
  /\ UNCHANGED <<gc, ga>>

-----------------------------------------------------------------------------
(* RemoveGroup is one critical section. *)
RemoveGroup(g) ==
  /\ gc' = [gc EXCEPT ![g] = NoGroup]
  /\ gt' = [gt EXCEPT ![g] = Unresolved]
  /\ ga' = [x \in Groups |-> IF x = g THEN {} ELSE ga[x] \ {g}]
  /\ UNCHANGED <<stack, failed>>

MRStep(t) ==
  \/ SyncStore(t) \/ SyncLink(t)
  \/ ChangesResolve(t) \/ ChangesAffected(t)
  \/ \E g \in Groups : ChangesCascade(t, g)
  \/ ChangesReturn(t)
  \/ ResolveLookup(t)
  \/ \E g \in Groups : ResolveOperand(t, g)
  \/ ResolveFetch(t) \/ ResolveWrite(t)

-----------------------------------------------------------------------------
(* A change of x reaches g, once the call that synced g has got that far.  *)
Linked(g, x) ==
  \/ g \in ga[x]
  \/ \E t \in Threads : \E i \in DOMAIN stack[t] :
       LET f == stack[t][i]
       IN  f.fn = "SyncGroup" /\ f.group = g /\ x \in Targets(f.rules)

(* Calls i and j of thread t are of one function for one group. *)
Alike(t, i, j) ==
  /\ stack[t][i].fn = stack[t][j].fn
  /\ stack[t][i].group = stack[t][j].group

(* No call of Resolve or resolveChanges waits for one for its own group:   *)
(* the recursion is not deeper than the number of groups.                  *)
NoReentry ==
  \A t \in Threads : \A i, j \in DOMAIN stack[t] : Alike(t, i, j) => i = j

(* The resolution of a group never calls for the group itself, however the *)
(* rules were dropped, turned round and stated again before.               *)
ResolvesOnce ==
  \A t \in Threads : \A i, j \in DOMAIN stack[t] :
    Alike(t, i, j) /\ stack[t][i].fn = "Resolve" => i = j

=============================================================================
