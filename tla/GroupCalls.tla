----------------------------- MODULE GroupCalls -----------------------------
(***************************************************************************)
(* What a call of the group tree amounts to when nothing else goes on.     *)
(***************************************************************************)
EXTENDS GroupHooks

(* The rules of the groups that gs holds. *)
RulesOf(gs) == [n \in Groups |-> IF gs[n] = NoGroup THEN NoGroup ELSE gs[n].rules]

ManagerKnown(d, gs) ==
  \/ d.managedBy \in {Unmanaged, Absent, d.name}
  \/ gs[d.managedBy] # NoGroup

(* The checks of MODIFY-EXPANSIONS, in their order. *)
RuleVerdict(d, gs) ==
  LET t == d.rule.target
  IN  CASE ~Proposes(d)                                -> "ok"
        [] Proposes(d) /\ ImmediateConflict(gs[d.name].rules, t) -> "existing-expansion"
        [] OTHER -> IF gs[t] = NoGroup THEN "unknown"
                    ELSE IF CycleFrom(RulesOf(gs), t, d.name)
                           THEN "existing-expansion" ELSE "ok"

(* gs is what storage holds for every name. *)
GroupVerdict(r, gs) ==
  LET d == r.dg
      known == gs[d.name] # NoGroup
      err == GroupHookError(GroupEditHook[r.chain], gs[d.name], d)
  IN  CASE r.chain = "CREATE" ->
             IF known THEN "duplicate"
             ELSE IF ManagerKnown(d, gs) THEN "ok" ELSE "unknown"
        [] r.chain # "CREATE" /\ ~known -> "unknown"
        [] r.chain = "MODIFY_EXPANSIONS" /\ known -> RuleVerdict(d, gs)
        [] r.chain \in GroupEditChains /\ known -> IF err = "none" THEN "ok" ELSE err
        [] OTHER -> "ok"

CreatedGroup(d, n) ==
  [BlankGroup EXCEPT !.name = d.name, !.number = n, !.text = d.text,
                     !.managedBy = IF d.managedBy = Absent THEN Unmanaged ELSE d.managedBy]

(* What an accepted request other than CREATE and DESTROY makes of g. *)
EditedGroup(r, g) ==
  CASE r.chain = "FETCH"             -> g
    [] r.chain = "MODIFY_EXPANSIONS" -> PatchGroupExpansions(g, r.dg)
    [] OTHER -> GroupHookResult(GroupEditHook[r.chain], g, r.dg)

=============================================================================
