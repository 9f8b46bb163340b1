----------------------------- MODULE Membership -----------------------------
(***************************************************************************)
(* Group rules in storage and the resolver that follows them: each change  *)
(* of a group fires the group-resolver callback, which loads the group     *)
(* again and syncs the resolver with it.  A crash empties the resolver; a  *)
(* restart syncs every stored group, one after the other in any order,     *)
(* before the server serves.                                               *)
(*                                                                         *)
(* A change of the rules is one step here: its checks and its save do not  *)
(* interleave with those of another change.                                *)
(***************************************************************************)
EXTENDS MResolver

CONSTANTS
  Edges,       \* <<parent, child>> : the rules that clients may ask for
  Removable,   \* the groups that clients destroy
  MaxCrashes   \* bound on the number of crashes

ASSUME MembershipAssumption ==
  /\ Groups # {}
  /\ Edges \subseteq Groups \X Groups
  /\ Removable \subseteq Groups
  /\ MaxCrashes \in Nat

VARIABLES
  rules,    \* the expansions of each group in storage, or NoGroup
  pc,       \* what each thread is doing
  target,   \* the group of the event that each thread handles
  boot,     \* "loading" until EventUpdateAll has returned, then "serving"
  bootTodo, \* the groups that EventUpdateAll has still to announce
  crashes

vars == <<mrVars, rules, pc, target, boot, bootTodo, crashes>>

TypeOK ==
  /\ MRTypeOK
  /\ rules \in RuleMap
  /\ pc \in [Threads -> {"idle", "load", "remove", "resolve"}]
  /\ target \in [Threads -> Groups]
  /\ boot \in {"loading", "serving"}
  /\ bootTodo \subseteq Groups
  /\ crashes \in 0..MaxCrashes

Init ==
  /\ MRInit
  /\ rules = [g \in Groups |-> NoGroup]
  /\ pc = [t \in Threads |-> "idle"]
  /\ target \in [Threads -> {CHOOSE g \in Groups : TRUE}]
  /\ boot = "serving" /\ bootTodo = {} /\ crashes = 0

(* Thread t writes r as the rules of g, and will handle the event. *)
WriteGroup(t, g, r) ==
  /\ boot = "serving" /\ pc[t] = "idle"
  /\ rules' = [rules EXCEPT ![g] = r]
  /\ pc' = [pc EXCEPT ![t] = IF r = NoGroup THEN "remove" ELSE "load"]
  /\ target' = [target EXCEPT ![t] = g]
  /\ UNCHANGED <<mrVars, boot, bootTodo, crashes>>

CreateGroup(t, g) == rules[g] = NoGroup /\ WriteGroup(t, g, NoRules)

DestroyGroup(t, g) ==
  g \in Removable /\ rules[g] # NoGroup /\ WriteGroup(t, g, NoGroup)

AddRule(t, parent, child) ==
  /\ <<parent, child>> \in Edges
  /\ MayExpand(rules, parent, child)
  /\ \/ WriteGroup(t, parent, Include(rules[parent], child))
     \/ WriteGroup(t, parent, Exclude(rules[parent], child))

DropRule(t, parent, child) ==
  /\ <<parent, child>> \in Edges /\ rules[parent] # NoGroup
  /\ WriteGroup(t, parent, Drop(rules[parent], child))

(* Variant: the error of the load is dropped. *)
LoadGroupUnchecked(t) ==
  /\ pc[t] = "load"
  /\ CallSyncGroup(t, target[t], rules[target[t]])
  /\ pc' = [pc EXCEPT ![t] = "resolve"]
  /\ UNCHANGED <<rules, target, boot, bootTodo, crashes>>

(* groupResolverCallback for an update: a group that cannot be loaded any  *)
(* more is left as it is.                                                  *)
LoadGroup(t) ==
  /\ pc[t] = "load"
  /\ \/ /\ rules[target[t]] = NoGroup
        /\ pc' = [pc EXCEPT ![t] = "idle"]
        /\ UNCHANGED mrVars
     \/ /\ rules[target[t]] # NoGroup
        /\ CallSyncGroup(t, target[t], rules[target[t]])
        /\ pc' = [pc EXCEPT ![t] = "resolve"]
  /\ UNCHANGED <<rules, target, boot, bootTodo, crashes>>

(* groupResolverCallback for a removal. *)
CallRemoveGroup(t) ==
  /\ pc[t] = "remove"
  /\ RemoveGroup(target[t])
  /\ pc' = [pc EXCEPT ![t] = "idle"]
  /\ UNCHANGED <<rules, target, boot, bootTodo, crashes>>

ResolverStep(t) ==
  /\ pc[t] = "resolve"
  /\ MRStep(t)
  /\ UNCHANGED <<rules, pc, target, boot, bootTodo, crashes>>

CallbackReturns(t) ==
  /\ pc[t] = "resolve" /\ Idle(t)
  /\ pc' = [pc EXCEPT ![t] = "idle"]
  /\ UNCHANGED <<mrVars, rules, target, boot, bootTodo, crashes>>

Crash ==
  /\ crashes < MaxCrashes
  /\ crashes' = crashes + 1
  /\ gc' = [g \in Groups |-> NoGroup]
  /\ gt' = [g \in Groups |-> Unresolved]
  /\ ga' = [g \in Groups |-> {}]
  /\ stack' = [t \in Threads |-> <<>>]
  /\ failed' = [t \in Threads |-> FALSE]
  /\ pc' = [t \in Threads |-> "idle"]
  /\ boot' = "loading"
  /\ bootTodo' = Known(rules)
  /\ UNCHANGED <<rules, target>>

(* EventUpdateAll announces the groups one after the other. *)
Quiet == \A t \in Threads : pc[t] = "idle"

(* Variant: the walk over the groups starts anew with each of them. *)
AnnounceAgain(t, g) ==
  /\ boot = "loading" /\ Quiet /\ g \in bootTodo
  /\ pc' = [pc EXCEPT ![t] = "load"]
  /\ target' = [target EXCEPT ![t] = g]
  /\ UNCHANGED <<mrVars, rules, boot, bootTodo, crashes>>

Announce(t, g) ==
  /\ boot = "loading" /\ Quiet /\ g \in bootTodo
  /\ bootTodo' = bootTodo \ {g}
  /\ pc' = [pc EXCEPT ![t] = "load"]
  /\ target' = [target EXCEPT ![t] = g]
  /\ UNCHANGED <<mrVars, rules, boot, crashes>>

Serve ==
  /\ boot = "loading" /\ Quiet /\ bootTodo = {}
  /\ boot' = "serving"
  /\ UNCHANGED <<mrVars, rules, pc, target, bootTodo, crashes>>

Client(t) ==
  \/ \E g \in Groups : CreateGroup(t, g) \/ DestroyGroup(t, g)
  \/ \E p, c \in Groups : AddRule(t, p, c) \/ DropRule(t, p, c)

Handle(t) ==
  LoadGroup(t) \/ CallRemoveGroup(t) \/ ResolverStep(t) \/ CallbackReturns(t)

Boot == Serve \/ \E t \in Threads, g \in Groups : Announce(t, g)

Next ==
  \/ \E t \in Threads : Client(t) \/ Handle(t)
  \/ Boot
  \/ Crash

Spec == Init /\ [][Next]_vars

FairSpec == Spec /\ WF_vars(Boot) /\ \A t \in Threads : WF_vars(Handle(t))

-----------------------------------------------------------------------------
(* When no callback is under way, every stored group is resolved to what   *)
(* the stored rules mean, and nothing else is: whatever order the groups   *)
(* came in, and however deep their rules nest.                             *)
Resolved ==
  boot = "serving" /\ Quiet =>
    \A g \in Groups :
      gt[g] = IF rules[g] = NoGroup THEN Unresolved ELSE Meaning(rules)[g]

(* The links of a rule that the resolver knows get lost by the removal of  *)
(* the rule's target and by nothing else, however threads that sync,       *)
(* resolve and remove groups overlap.                                      *)
Lost(g, x) == g \in Known(gc) /\ x \in Targets(gc[g]) /\ ~Linked(g, x)

LinksLostByRemovalOnly ==
  [][\A g, x \in Groups :
       ~Lost(g, x) /\ Lost(g, x)' =>
         \E t \in Threads : pc[t] = "remove" /\ pc'[t] = "idle" /\ target[t] = x]_vars

(* Every callback ends: neither the cascade nor the resolution runs for    *)
(* ever.                                                                   *)
CallbacksEnd == \A t \in Threads : pc[t] # "idle" ~> pc[t] = "idle"

(* A server that starts gets through all its groups and serves: one that   *)
(* hangs on the first pass over its rules can never be started again.      *)
ServesAgain == boot = "loading" ~> boot = "serving"

=============================================================================
