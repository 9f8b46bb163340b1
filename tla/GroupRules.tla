----------------------------- MODULE GroupRules -----------------------------
(***************************************************************************)
(* The rules by which one group includes or excludes the members of        *)
(* others, the checks that internal/tree/hooks makes before it changes     *)
(* them, and what the rules mean.                                          *)
(***************************************************************************)
EXTENDS Integers, FiniteSets

CONSTANTS
  Groups,    \* group names
  NameIn,    \* <<g, p>> : the name of g contains the name of p
  NoGroup    \* what the data store returns for an unknown group

ASSUME GroupsAssumption == IsFiniteSet(Groups) /\ NoGroup \notin [inc : SUBSET Groups, exc : SUBSET Groups]

ASSUME NameInAssumption ==
  /\ NameIn \subseteq Groups \X Groups
  /\ \A g \in Groups : <<g, g>> \in NameIn

(* The expansions of one group. *)
Rules   == [inc : SUBSET Groups, exc : SUBSET Groups]
NoRules == [inc |-> {}, exc |-> {}]

Targets(r) == r.inc \cup r.exc

(* The rules of every known group. *)
RuleMap == [Groups -> Rules \cup {NoGroup}]
Known(rules) == {g \in Groups : rules[g] # NoGroup}

-----------------------------------------------------------------------------
(* MODIFY-EXPANSIONS: a proposed expansion is refused if the name of its   *)
(* target occurs in an expansion of the group already, ...                 *)
ImmediateConflict(r, child) == \E t \in Targets(r) : <<t, child>> \in NameIn

(* ... if the group can be reached from the target's own expansions, or an *)
(* unknown group can (checkGroupCycles, to any depth of a tree without     *)
(* repetition), ...                                                        *)
CycleFrom(rules, child, parent) ==
  LET finds[n \in 0..Cardinality(Groups)] ==
        LET deeper == IF n = 0 THEN {} ELSE finds[n - 1]
        IN  {g \in Known(rules) : \E t \in Targets(rules[g]) :
               t = parent \/ t \notin Known(rules) \/ t \in deeper}
  IN  child \in finds[Cardinality(Groups)]

(* Variant: the walk starts from the group instead of from the target.     *)
MayExpandSwapped(rules, parent, child) ==
  /\ rules[parent] # NoGroup /\ rules[child] # NoGroup
  /\ ~ImmediateConflict(rules[parent], child)
  /\ ~CycleFrom(rules, parent, child)

(* ... or if the target is unknown.                                        *)
MayExpand(rules, parent, child) ==
  /\ rules[parent] # NoGroup /\ rules[child] # NoGroup
  /\ ~ImmediateConflict(rules[parent], child)
  /\ ~CycleFrom(rules, child, parent)

Include(r, child) == [r EXCEPT !.inc = @ \cup {child}]
Exclude(r, child) == [r EXCEPT !.exc = @ \cup {child}]

(* DROP patches out every expansion whose target's name contains the name. *)
Drop(r, child) ==
  [inc |-> {t \in r.inc : <<t, child>> \notin NameIn},
   exc |-> {t \in r.exc : <<t, child>> \notin NameIn}]

-----------------------------------------------------------------------------
(***************************************************************************)
(* A membership expression is the set of those sets of direct groups that  *)
(* satisfy it.  Self(g) is the expression "g".                             *)
(***************************************************************************)
Expressions == SUBSET (SUBSET Groups)
Self(g) == {s \in SUBSET Groups : g \in s}

(* What the rules mean: the direct members of g and the members of the     *)
(* groups that it includes, without those of the groups that it excludes.  *)
(* Defined for rules without cycles, whose paths are shorter than the      *)
(* number of groups.                                                       *)
Meaning(rules) ==
  LET means[n \in 0..Cardinality(Groups)] ==
        [g \in Groups |->
           IF n = 0 \/ rules[g] = NoGroup THEN {}
           ELSE (Self(g) \cup UNION {means[n - 1][i] : i \in rules[g].inc})
                  \ UNION {means[n - 1][x] : x \in rules[g].exc}]
  IN  means[Cardinality(Groups)]

=============================================================================
