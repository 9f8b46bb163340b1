--------------------------- MODULE MembershipProofs -------------------------
(***************************************************************************)
(* Proofs about the resolver of memberships and the callback that calls    *)
(* it, for any groups, rules, threads and crashes: about any number of     *)
(* threads in it at once, and about what it makes of the rules when there  *)
(* is one.                                                                 *)
(***************************************************************************)
EXTENDS Membership, WellFoundedInduction, FiniteSetTheorems, TLAPS

-----------------------------------------------------------------------------
(***************************************************************************)
(* What holds of any number of threads.  Whatever rules are stored, known  *)
(* to the resolver, linked or being worked on are among those that clients *)
(* may ask for.                                                            *)
(***************************************************************************)
Permitted(m) == \A g \in Known(m) : \A x \in Targets(m[g]) : <<g, x>> \in Edges

(* The steps that each call takes. *)
CallSteps ==
  {<<"SyncGroup", "store">>, <<"SyncGroup", "link">>, <<"resolveChanges", "resolve">>,
   <<"resolveChanges", "affected">>, <<"resolveChanges", "cascade">>,
   <<"Resolve", "lookup">>, <<"Resolve", "operand">>, <<"Resolve", "fetch">>}

GoodFrames ==
  {f \in Frames : /\ <<f.fn, f.next>> \in CallSteps
                  /\ \A x \in Targets(f.rules) : <<f.group, x>> \in Edges
                  /\ \A g \in f.cascade : <<g, f.group>> \in Edges}

GInv ==
  /\ TypeOK /\ Permitted(rules) /\ Permitted(gc)
  /\ \A x \in Groups : \A g \in ga[x] : <<g, x>> \in Edges
  /\ stack \in [Threads -> Seq(GoodFrames)]

(* What becomes of a stack s whose innermost call returns, goes on as f, or *)
(* goes on as f and calls g.                                                *)
Returned(r, s) == Len(r) = Len(s) - 1 /\ \A i \in 1..(Len(s) - 1) : r[i] = s[i + 1]

Continued(c, f, s) == Len(c) = Len(s) /\ c[1] = f /\ \A i \in 2..Len(s) : c[i] = s[i]

Invoked(d, f, g, s) ==
  /\ Len(d) = Len(s) + 1 /\ d[1] = g /\ d[2] = f
  /\ \A i \in 3..(Len(s) + 1) : d[i] = s[i - 1]

(* What becomes of a stack when its innermost call returns, goes on, or    *)
(* calls another.                                                          *)
LEMMA Shapes ==
  ASSUME NEW S, NEW s \in Seq(S), s # <<>>, NEW f \in S, NEW g \in S
  PROVE  /\ Head(s) = s[1] /\ s[1] \in S /\ Len(s) \in Nat \ {0}
         /\ Tail(s) \in Seq(S) /\ Returned(Tail(s), s)
         /\ <<f>> \o Tail(s) \in Seq(S) /\ Continued(<<f>> \o Tail(s), f, s)
         /\ <<g, f>> \o Tail(s) \in Seq(S) /\ Invoked(<<g, f>> \o Tail(s), f, g, s)
<1>1. Head(s) = s[1] /\ s[1] \in S /\ Len(s) \in Nat \ {0}
  OBVIOUS
<1>2. Tail(s) \in Seq(S) /\ Len(Tail(s)) = Len(s) - 1
  OBVIOUS
<1>3. \A i \in 1..(Len(s) - 1) : Tail(s)[i] = s[i + 1]
  OBVIOUS
<1> DEFINE r == Tail(s)
<1>4. r \in Seq(S) /\ Len(r) = Len(s) - 1 /\ \A i \in 1..(Len(s) - 1) : r[i] = s[i + 1]
  BY <1>2, <1>3
<1> HIDE DEF r
<1>5. /\ <<f>> \o r \in Seq(S) /\ Len(<<f>> \o r) = Len(s)
      /\ (<<f>> \o r)[1] = f
  BY <1>1, <1>4
<1>6. \A i \in 2..Len(s) : (<<f>> \o r)[i] = s[i]
  <2> TAKE i \in 2..Len(s)
  <2>1. (<<f>> \o r)[i] = r[i - 1]
    BY <1>1, <1>4
  <2>2. i - 1 \in 1..(Len(s) - 1) /\ (i - 1) + 1 = i
    BY <1>1
  <2> QED
    BY <1>4, <2>1, <2>2
<1>7. /\ <<g, f>> \o r \in Seq(S) /\ Len(<<g, f>> \o r) = Len(s) + 1
      /\ (<<g, f>> \o r)[1] = g /\ (<<g, f>> \o r)[2] = f
  BY <1>1, <1>4
<1>8. \A i \in 3..(Len(s) + 1) : (<<g, f>> \o r)[i] = s[i - 1]
  <2> TAKE i \in 3..(Len(s) + 1)
  <2>1. (<<g, f>> \o r)[i] = r[i - 2]
    BY <1>1, <1>4
  <2>2. i - 2 \in 1..(Len(s) - 1) /\ (i - 2) + 1 = i - 1
    BY <1>1
  <2> QED
    BY <1>4, <2>1, <2>2
<1> QED
  BY <1>1, <1>2, <1>3, <1>5, <1>6, <1>7, <1>8 DEF r, Returned, Continued, Invoked

(* A step of a thread leaves good calls if it adds good ones. *)
LEMMA StacksStayGood ==
  ASSUME GInv, NEW t \in Threads, ~Idle(t)
  PROVE  /\ Top(t) \in GoodFrames
         /\ Return(t) => stack' \in [Threads -> Seq(GoodFrames)]
         /\ \A f \in GoodFrames : Continue(t, f) => stack' \in [Threads -> Seq(GoodFrames)]
         /\ \A f, g \in GoodFrames : Invoke(t, f, g) => stack' \in [Threads -> Seq(GoodFrames)]
<1>1. stack[t] \in Seq(GoodFrames) /\ stack[t] # <<>>
  BY DEF GInv, Idle
<1>2. Top(t) \in GoodFrames /\ Tail(stack[t]) \in Seq(GoodFrames)
  BY <1>1, Shapes DEF Top
<1>3. ASSUME NEW f \in GoodFrames, NEW g \in GoodFrames
      PROVE  /\ <<f>> \o Tail(stack[t]) \in Seq(GoodFrames)
             /\ <<g, f>> \o Tail(stack[t]) \in Seq(GoodFrames)
  BY <1>1, Shapes
<1> QED
  BY <1>2, <1>3 DEF Return, Continue, Invoke, GInv

(* Calls as they begin, and as they go on, are good. *)
LEMMA FramesGood ==
  ASSUME NEW g \in Groups
  PROVE  /\ ChangesFrame(g) \in GoodFrames /\ ResolveFrame(g) \in GoodFrames
         /\ \A r \in Rules : (\A x \in Targets(r) : <<g, x>> \in Edges) =>
              SyncFrame(g, r) \in GoodFrames
<1>1. NoRules \in Rules /\ Targets(NoRules) = {} /\ {} \in Expressions
  BY DEF NoRules, Rules, Targets, Expressions
<1>2. /\ ChangesFrame(g) \in Frames /\ ResolveFrame(g) \in Frames
      /\ \A r \in Rules : SyncFrame(g, r) \in Frames
  BY <1>1 DEF ChangesFrame, ResolveFrame, SyncFrame, Frame, Frames
<1> QED
  BY <1>1, <1>2 DEF ChangesFrame, ResolveFrame, SyncFrame, Frame, GoodFrames, CallSteps

(* What a call f of Resolve becomes, with the expression x of operand g.   *)
IsCombined(c, f, g, x) ==
  /\ c \in Frames
  /\ c.fn = f.fn /\ c.group = f.group /\ c.next = "operand"
  /\ c.cascade = f.cascade /\ c.visited = f.visited
  /\ c.expr = IF g \in f.rules.inc THEN f.expr \cup x ELSE f.expr \ x
  /\ c.rules = IF g \in f.rules.inc THEN [inc |-> f.rules.inc \ {g}, exc |-> f.rules.exc]
                                     ELSE [inc |-> f.rules.inc, exc |-> f.rules.exc \ {g}]

(* A call that takes in an operand: it has one rule less to follow.        *)
LEMMA CombinedIs ==
  ASSUME NEW f \in Frames, NEW g \in Groups, NEW x \in Expressions
  PROVE  IsCombined(Combined(f, g, x), f, g, x)
<1>1. /\ f.rules \in Rules /\ f.rules.inc \in SUBSET Groups /\ f.rules.exc \in SUBSET Groups
      /\ f.expr \in Expressions
      /\ f.rules = [inc |-> f.rules.inc, exc |-> f.rules.exc]
  BY DEF Frames, Rules
<1> DEFINE i == [inc |-> f.rules.inc \ {g}, exc |-> f.rules.exc]
           e == [inc |-> f.rules.inc, exc |-> f.rules.exc \ {g}]
<1>2. [f.rules EXCEPT !.inc = f.rules.inc \ {g}] = i /\ i \in Rules
  BY <1>1 DEF Rules
<1>3. [f.rules EXCEPT !.exc = f.rules.exc \ {g}] = e /\ e \in Rules
  BY <1>1 DEF Rules
<1>4. f.expr \cup x \in Expressions /\ f.expr \ x \in Expressions
  BY <1>1 DEF Expressions
<1> HIDE DEF i, e
<1> DEFINE New(y, r) == [f EXCEPT !.expr = y, !.rules = r, !.next = "operand"]
<1>5. Combined(f, g, x) = IF g \in f.rules.inc THEN New(f.expr \cup x, i) ELSE New(f.expr \ x, e)
  BY <1>2, <1>3, Zenon DEF Combined
<1>6. ASSUME NEW y \in Expressions, NEW r \in Rules
      PROVE  /\ New(y, r) \in Frames
             /\ New(y, r).expr = y /\ New(y, r).rules = r /\ New(y, r).next = "operand"
             /\ New(y, r).fn = f.fn /\ New(y, r).group = f.group
             /\ New(y, r).cascade = f.cascade /\ New(y, r).visited = f.visited
  BY <1>6 DEF Frames
<1> HIDE DEF New
<1>7. IsCombined(Combined(f, g, x), f, g, x)
  <2>1. CASE g \in f.rules.inc
    <3>1. PICK y : y = f.expr \cup x
      OBVIOUS
    <3>2. y \in Expressions /\ i \in Rules
      BY <1>2, <1>4, <3>1
    <3>3. Combined(f, g, x) = New(y, i)
      BY <1>5, <2>1, <3>1
    <3>4. /\ New(y, i) \in Frames
          /\ New(y, i).expr = y /\ New(y, i).rules = i /\ New(y, i).next = "operand"
          /\ New(y, i).fn = f.fn /\ New(y, i).group = f.group
          /\ New(y, i).cascade = f.cascade /\ New(y, i).visited = f.visited
      BY <1>6, <3>2
    <3> QED
      BY <2>1, <3>1, <3>3, <3>4 DEF i, IsCombined
  <2>2. CASE g \notin f.rules.inc
    <3>1. PICK y : y = f.expr \ x
      OBVIOUS
    <3>2. y \in Expressions /\ e \in Rules
      BY <1>3, <1>4, <3>1
    <3>3. Combined(f, g, x) = New(y, e)
      BY <1>5, <2>2, <3>1
    <3>4. /\ New(y, e) \in Frames
          /\ New(y, e).expr = y /\ New(y, e).rules = e /\ New(y, e).next = "operand"
          /\ New(y, e).fn = f.fn /\ New(y, e).group = f.group
          /\ New(y, e).cascade = f.cascade /\ New(y, e).visited = f.visited
      BY <1>6, <3>2
    <3> QED
      BY <2>2, <3>1, <3>3, <3>4 DEF e, IsCombined
  <2> QED
    BY <2>1, <2>2
<1> QED
  BY <1>7

(* A step of one of the resolver's own calls. *)
LEMMA ResolverStepGood ==
  ASSUME GInv, NEW t \in Threads, MRStep(t)
  PROVE  /\ MRTypeOK' /\ Permitted(gc)'
         /\ (\A x \in Groups : \A g \in ga[x] : <<g, x>> \in Edges)'
         /\ stack' \in [Threads -> Seq(GoodFrames)]
<1> DEFINE f == Top(t)
<1>0. ~Idle(t)
  BY DEF MRStep, SyncStore, SyncLink, ChangesResolve, ChangesAffected, ChangesCascade,
         ChangesReturn, ResolveLookup, ResolveOperand, ResolveFetch, ResolveWrite, In
<1>1. /\ f \in GoodFrames /\ f \in Frames /\ f.group \in Groups /\ f.rules \in Rules
      /\ f.expr \in Expressions /\ f.operand \in Groups
      /\ f.cascade \in SUBSET Groups /\ f.visited \in SUBSET Groups
  BY <1>0, StacksStayGood DEF GoodFrames, Frames
<1>2. /\ gc \in RuleMap /\ gt \in [Groups -> Expressions \cup {Unresolved}]
      /\ ga \in [Groups -> SUBSET Groups] /\ failed \in [Threads -> BOOLEAN]
  BY DEF GInv, TypeOK, MRTypeOK
<1>3. \A s : s \in [Threads -> Seq(GoodFrames)] => s \in [Threads -> Seq(Frames)]
  <2>1. GoodFrames \subseteq Frames
    BY DEF GoodFrames
  <2> QED
    BY <2>1
<1>4. /\ ChangesFrame(f.group) \in GoodFrames /\ ResolveFrame(f.group) \in GoodFrames
      /\ \A g \in Groups : ChangesFrame(g) \in GoodFrames /\ ResolveFrame(g) \in GoodFrames
  BY <1>1, FramesGood
<1>5. \A x \in Targets(f.rules) : <<f.group, x>> \in Edges
  BY <1>1 DEF GoodFrames
<1> HIDE DEF f
<1>6. CASE SyncStore(t)
  <2>1. f.fn = "SyncGroup" /\ gc' = [gc EXCEPT ![f.group] = f.rules]
    BY <1>6 DEF SyncStore, In, f, Top
  <2>2. [f EXCEPT !.next = "link"] \in GoodFrames
    BY <1>1, <2>1 DEF GoodFrames, Frames, CallSteps
  <2>3. stack' \in [Threads -> Seq(GoodFrames)]
    BY <1>0, <1>4, <1>6, <2>2, StacksStayGood DEF SyncStore, f
  <2>4. gc' \in RuleMap
    BY <1>1, <1>2, <2>1 DEF RuleMap
  <2>5. Permitted(gc)'
    BY <1>1, <1>2, <1>5, <2>1 DEF Permitted, Known, RuleMap, GInv
  <2> QED
    BY <1>2, <1>3, <1>6, <2>3, <2>4, <2>5 DEF SyncStore, MRTypeOK, GInv
<1>7. CASE SyncLink(t)
  <2>1. stack' \in [Threads -> Seq(GoodFrames)]
    BY <1>0, <1>4, <1>7, StacksStayGood DEF SyncLink, f
  <2>2. ga' = [x \in Groups |-> IF x \in Targets(f.rules) THEN ga[x] \cup {f.group} ELSE ga[x]]
    BY <1>7 DEF SyncLink, f
  <2>3. ga' \in [Groups -> SUBSET Groups]
    BY <1>1, <1>2, <2>2
  <2>4. (\A x \in Groups : \A g \in ga[x] : <<g, x>> \in Edges)'
    BY <1>5, <2>2 DEF GInv
  <2> QED
    BY <1>2, <1>3, <1>7, <2>1, <2>3, <2>4 DEF SyncLink, MRTypeOK, GInv
<1>8. CASE ChangesResolve(t) \/ ChangesAffected(t) \/ \E g \in Groups : ChangesCascade(t, g)
  <2>1. f.fn = "resolveChanges"
    BY <1>8 DEF ChangesResolve, ChangesAffected, ChangesCascade, In, f, Top
  <2>2. /\ [f EXCEPT !.next = "affected"] \in GoodFrames
        /\ [f EXCEPT !.cascade = ga[f.group], !.next = "cascade"] \in GoodFrames
        /\ \A g \in Groups : [f EXCEPT !.visited = @ \cup {g}] \in GoodFrames
    BY <1>1, <1>2, <2>1 DEF GoodFrames, Frames, CallSteps, GInv
  <2>3. stack' \in [Threads -> Seq(GoodFrames)]
    BY <1>0, <1>4, <1>8, <2>2, StacksStayGood
    DEF ChangesResolve, ChangesAffected, ChangesCascade, f
  <2> QED
    BY <1>2, <1>3, <1>8, <2>3
    DEF ChangesResolve, ChangesAffected, ChangesCascade, MRTypeOK, GInv
<1>9. CASE ChangesReturn(t)
  BY <1>0, <1>2, <1>3, <1>9, StacksStayGood DEF ChangesReturn, MRTypeOK, GInv
<1>10. CASE ResolveLookup(t)
  <2>1. f.fn = "Resolve"
    BY <1>10 DEF ResolveLookup, In, f, Top
  <2>2. gc[f.group] # NoGroup => /\ gc[f.group] \in Rules
                                 /\ \A x \in Targets(gc[f.group]) : <<f.group, x>> \in Edges
    BY <1>1, <1>2 DEF RuleMap, Known, Permitted, GInv
  <2>3. Self(f.group) \in Expressions
    BY DEF Self, Expressions
  <2>4. gc[f.group] # NoGroup =>
          [f EXCEPT !.rules = gc[f.group], !.expr = Self(f.group), !.next = "operand"]
            \in GoodFrames
    BY <1>1, <2>1, <2>2, <2>3 DEF GoodFrames, Frames, CallSteps
  <2>5. stack' \in [Threads -> Seq(GoodFrames)]
    BY <1>0, <1>10, <2>4, StacksStayGood DEF ResolveLookup, f
  <2>6. failed' \in [Threads -> BOOLEAN]
    BY <1>2, <1>10 DEF ResolveLookup
  <2> QED
    BY <1>2, <1>3, <1>10, <2>5, <2>6 DEF ResolveLookup, MRTypeOK, GInv
<1>11. f.fn = "Resolve" =>
         \A g \in Groups, x \in Expressions : Combined(f, g, x) \in GoodFrames
  <2> SUFFICES ASSUME f.fn = "Resolve", NEW g \in Groups, NEW x \in Expressions
               PROVE  Combined(f, g, x) \in GoodFrames
    OBVIOUS
  <2> DEFINE c == Combined(f, g, x)
  <2>1. IsCombined(c, f, g, x)
    BY <1>1, CombinedIs
  <2> HIDE DEF c
  <2>2. Targets(c.rules) \subseteq Targets(f.rules)
    BY <2>1 DEF Targets, IsCombined
  <2> QED
    BY <1>1, <2>1, <2>2 DEF GoodFrames, CallSteps, IsCombined, c
<1>12. ASSUME NEW g \in Groups, ResolveOperand(t, g)
       PROVE  stack' \in [Threads -> Seq(GoodFrames)]
  <2>1. f.fn = "Resolve"
    BY <1>12 DEF ResolveOperand, In, f, Top
  <2>2. [f EXCEPT !.operand = g, !.next = "fetch"] \in GoodFrames
    BY <1>1, <2>1 DEF GoodFrames, Frames, CallSteps
  <2>3. gt[g] # Unresolved => Combined(f, g, gt[g]) \in GoodFrames
    BY <1>2, <1>11, <2>1
  <2> QED
    BY <1>0, <1>4, <1>12, <2>2, <2>3, StacksStayGood DEF ResolveOperand, f
<1>13. CASE \E g \in Groups : ResolveOperand(t, g)
  BY <1>2, <1>3, <1>12, <1>13 DEF ResolveOperand, MRTypeOK, GInv
<1>14. CASE ResolveFetch(t)
  <2>1. f.fn = "Resolve"
    BY <1>14 DEF ResolveFetch, In, f, Top
  <2>2. (IF gt[f.operand] = Unresolved THEN {} ELSE gt[f.operand]) \in Expressions
    BY <1>1, <1>2 DEF Expressions
  <2>3. Combined(f, f.operand, IF gt[f.operand] = Unresolved THEN {} ELSE gt[f.operand])
          \in GoodFrames
    BY <1>1, <1>11, <2>1, <2>2
  <2>4. stack' \in [Threads -> Seq(GoodFrames)]
    BY <1>0, <1>14, <2>3, StacksStayGood DEF ResolveFetch, f
  <2> QED
    BY <1>2, <1>3, <1>14, <2>4 DEF ResolveFetch, MRTypeOK, GInv
<1>15. CASE ResolveWrite(t)
  <2>1. gt' = [gt EXCEPT ![f.group] = f.expr] /\ failed' = [failed EXCEPT ![t] = FALSE]
    BY <1>15 DEF ResolveWrite, f
  <2>2. gt' \in [Groups -> Expressions \cup {Unresolved}] /\ failed' \in [Threads -> BOOLEAN]
    BY <1>1, <1>2, <2>1
  <2> QED
    BY <1>0, <1>2, <1>3, <1>15, <2>2, StacksStayGood DEF ResolveWrite, MRTypeOK, GInv
<1> QED
  BY <1>6, <1>7, <1>8, <1>9, <1>10, <1>13, <1>14, <1>15 DEF MRStep

(* The group that any step of a thread's callback is about is known. *)
LEMMA CallbackGood ==
  ASSUME GInv, NEW t \in Threads, Handle(t)
  PROVE  GInv'
<1>1. target[t] \in Groups /\ rules \in RuleMap /\ pc \in [Threads -> {"idle", "load", "remove", "resolve"}]
  BY DEF GInv, TypeOK
<1>2. CASE LoadGroup(t)
  <2>1. CASE rules[target[t]] # NoGroup /\ CallSyncGroup(t, target[t], rules[target[t]])
    <3>1. SyncFrame(target[t], rules[target[t]]) \in GoodFrames
      BY <1>1, <2>1, FramesGood DEF RuleMap, GInv, Permitted, Known
    <3>2. stack' \in [Threads -> Seq(GoodFrames)]
      BY <2>1, <3>1 DEF CallSyncGroup, GInv
    <3>3. \A s : s \in [Threads -> Seq(GoodFrames)] => s \in [Threads -> Seq(Frames)]
      <4>1. GoodFrames \subseteq Frames
        BY DEF GoodFrames
      <4> QED
        BY <4>1
    <3> QED
      BY <1>1, <1>2, <2>1, <3>2, <3>3 DEF LoadGroup, CallSyncGroup, GInv, TypeOK, MRTypeOK
  <2>2. CASE UNCHANGED mrVars
    BY <1>1, <1>2, <2>2 DEF LoadGroup, mrVars, GInv, TypeOK, MRTypeOK
  <2> QED
    BY <1>2, <2>1, <2>2 DEF LoadGroup
<1>3. CASE CallRemoveGroup(t)
  <2>1. /\ gc' = [gc EXCEPT ![target[t]] = NoGroup] /\ gt' = [gt EXCEPT ![target[t]] = Unresolved]
        /\ ga' = [x \in Groups |-> IF x = target[t] THEN {} ELSE ga[x] \ {target[t]}]
        /\ UNCHANGED <<stack, failed>>
    BY <1>3 DEF CallRemoveGroup, RemoveGroup
  <2>2. gc' \in RuleMap /\ Permitted(gc)'
    BY <1>1, <2>1 DEF GInv, TypeOK, MRTypeOK, RuleMap, Permitted, Known
  <2>3. /\ gt' \in [Groups -> Expressions \cup {Unresolved}] /\ ga' \in [Groups -> SUBSET Groups]
        /\ (\A x \in Groups : \A g \in ga[x] : <<g, x>> \in Edges)'
    BY <1>1, <2>1 DEF GInv, TypeOK, MRTypeOK
  <2> QED
    BY <1>1, <1>3, <2>1, <2>2, <2>3 DEF CallRemoveGroup, GInv, TypeOK, MRTypeOK
<1>4. CASE ResolverStep(t)
  <2>1. MRTypeOK' /\ Permitted(gc)' /\ (\A x \in Groups : \A g \in ga[x] : <<g, x>> \in Edges)'
        /\ stack' \in [Threads -> Seq(GoodFrames)]
    BY <1>4, ResolverStepGood DEF ResolverStep
  <2> QED
    BY <1>4, <2>1 DEF ResolverStep, GInv, TypeOK
<1>5. CASE CallbackReturns(t)
  BY <1>1, <1>5 DEF CallbackReturns, mrVars, GInv, TypeOK, MRTypeOK
<1> QED
  BY <1>2, <1>3, <1>4, <1>5 DEF Handle

(* Clients ask for no other rules. *)
LEMMA WriteGood ==
  ASSUME GInv, NEW t \in Threads, Client(t)
  PROVE  /\ GInv'
         /\ \E g \in Groups, r \in Rules \cup {NoGroup} :
              /\ WriteGroup(t, g, r)
              /\ r # NoGroup => \A x \in Targets(r) : <<g, x>> \in Edges
              /\ r # NoGroup => \A x \in Targets(r) : rules[g] # NoGroup /\
                                   (x \in Targets(rules[g]) \/ rules[x] # NoGroup)
              /\ r = NoGroup => g \in Removable
<1>1. rules \in RuleMap /\ \A g \in Groups : rules[g] # NoGroup => rules[g] \in Rules
  BY DEF GInv, TypeOK, RuleMap
<1>2. NoGroup \notin Rules /\ NoRules \in Rules /\ Targets(NoRules) = {}
  BY GroupsAssumption DEF Rules, NoRules, Targets
<1>3. PICK g \in Groups, r \in Rules \cup {NoGroup} :
        /\ WriteGroup(t, g, r)
        /\ r # NoGroup => \A x \in Targets(r) : <<g, x>> \in Edges
        /\ r # NoGroup => \A x \in Targets(r) : rules[g] # NoGroup /\
                             (x \in Targets(rules[g]) \/ rules[x] # NoGroup)
        /\ r = NoGroup => g \in Removable
  <2>1. ASSUME NEW g \in Groups, CreateGroup(t, g) PROVE WriteGroup(t, g, NoRules)
    BY <2>1 DEF CreateGroup
  <2>2. ASSUME NEW g \in Groups, DestroyGroup(t, g)
        PROVE  WriteGroup(t, g, NoGroup) /\ g \in Removable
    BY <2>2 DEF DestroyGroup
  <2>3. ASSUME NEW p \in Groups, NEW c \in Groups, AddRule(t, p, c)
        PROVE  \E r \in Rules :
                 /\ WriteGroup(t, p, r) /\ rules[p] # NoGroup
                 /\ \A x \in Targets(r) : <<p, x>> \in Edges /\
                                          (x \in Targets(rules[p]) \/ rules[x] # NoGroup)
    <3>1. <<p, c>> \in Edges /\ rules[p] \in Rules /\ rules[p] # NoGroup /\ rules[c] # NoGroup
      BY <1>1, <2>3 DEF AddRule, MayExpand
    <3>2. \A x \in Targets(rules[p]) : <<p, x>> \in Edges
      BY <3>1 DEF GInv, Permitted, Known
    <3>3. /\ Include(rules[p], c) \in Rules /\ Exclude(rules[p], c) \in Rules
          /\ Targets(Include(rules[p], c)) = Targets(rules[p]) \cup {c}
          /\ Targets(Exclude(rules[p], c)) = Targets(rules[p]) \cup {c}
      BY <3>1 DEF Include, Exclude, Rules, Targets
    <3>4. WriteGroup(t, p, Include(rules[p], c)) \/ WriteGroup(t, p, Exclude(rules[p], c))
      BY <2>3 DEF AddRule
    <3> QED
      BY <3>1, <3>2, <3>3, <3>4
  <2>4. ASSUME NEW p \in Groups, NEW c \in Groups, DropRule(t, p, c)
        PROVE  \E r \in Rules :
                 /\ WriteGroup(t, p, r) /\ rules[p] # NoGroup
                 /\ \A x \in Targets(r) : <<p, x>> \in Edges /\ x \in Targets(rules[p])
    <3>1. rules[p] \in Rules /\ rules[p] # NoGroup /\ WriteGroup(t, p, Drop(rules[p], c))
      BY <1>1, <2>4 DEF DropRule
    <3>2. \A x \in Targets(rules[p]) : <<p, x>> \in Edges
      BY <3>1 DEF GInv, Permitted, Known
    <3>3. Drop(rules[p], c) \in Rules /\ Targets(Drop(rules[p], c)) \subseteq Targets(rules[p])
      BY <3>1 DEF Drop, Rules, Targets
    <3> QED
      BY <3>1, <3>2, <3>3
  <2>5. CASE \E g \in Groups : CreateGroup(t, g)
    BY <1>2, <2>1, <2>5
  <2>6. CASE \E g \in Groups : DestroyGroup(t, g)
    BY <2>2, <2>6
  <2>7. CASE \E p, c \in Groups : AddRule(t, p, c)
    <3>1. PICK p \in Groups, c \in Groups : AddRule(t, p, c)
      BY <2>7
    <3>2. PICK r \in Rules :
            /\ WriteGroup(t, p, r) /\ rules[p] # NoGroup
            /\ \A x \in Targets(r) : <<p, x>> \in Edges /\
                                     (x \in Targets(rules[p]) \/ rules[x] # NoGroup)
      BY <2>3, <3>1
    <3> QED
      BY <1>2, <3>2
  <2>8. CASE \E p, c \in Groups : DropRule(t, p, c)
    <3>1. PICK p \in Groups, c \in Groups : DropRule(t, p, c)
      BY <2>8
    <3>2. PICK r \in Rules :
            /\ WriteGroup(t, p, r) /\ rules[p] # NoGroup
            /\ \A x \in Targets(r) : <<p, x>> \in Edges /\ x \in Targets(rules[p])
      BY <2>4, <3>1
    <3> QED
      BY <1>2, <3>2
  <2> QED
    BY <2>5, <2>6, <2>7, <2>8 DEF Client
<1>4. /\ rules' = [rules EXCEPT ![g] = r]
      /\ pc' = [pc EXCEPT ![t] = IF r = NoGroup THEN "remove" ELSE "load"]
      /\ target' = [target EXCEPT ![t] = g]
      /\ UNCHANGED <<gc, gt, ga, stack, failed, boot, bootTodo, crashes>>
  BY <1>3 DEF WriteGroup, mrVars
<1>5. rules' \in RuleMap /\ Permitted(rules)'
  BY <1>1, <1>3, <1>4 DEF RuleMap, Permitted, Known, GInv
<1>6. /\ pc' \in [Threads -> {"idle", "load", "remove", "resolve"}]
      /\ target' \in [Threads -> Groups]
  BY <1>4 DEF GInv, TypeOK
<1>7. GInv'
  BY <1>4, <1>5, <1>6 DEF GInv, TypeOK, MRTypeOK, Permitted
<1> QED
  BY <1>3, <1>7

(* Any step. *)
LEMMA StepGood ==
  GInv /\ [Next]_vars => GInv'
<1> SUFFICES ASSUME GInv, [Next]_vars
             PROVE  GInv'
  OBVIOUS
<1>0. \A s : s \in [Threads -> Seq(GoodFrames)] => s \in [Threads -> Seq(Frames)]
  <2>1. GoodFrames \subseteq Frames
    BY DEF GoodFrames
  <2> QED
    BY <2>1
<1>1. CASE \E t \in Threads : Client(t) \/ Handle(t)
  BY <1>1, WriteGood, CallbackGood
<1>2. CASE Serve
  BY <1>2 DEF Serve, mrVars, GInv, TypeOK, MRTypeOK
<1>3. CASE \E t \in Threads, g \in Groups : Announce(t, g)
  <2>1. PICK t \in Threads, g \in Groups : Announce(t, g)
    BY <1>3
  <2>2. /\ pc' \in [Threads -> {"idle", "load", "remove", "resolve"}]
        /\ target' \in [Threads -> Groups] /\ bootTodo' \subseteq Groups
    BY <2>1 DEF Announce, GInv, TypeOK
  <2> QED
    BY <2>1, <2>2 DEF Announce, mrVars, GInv, TypeOK, MRTypeOK
<1>4. CASE Crash
  <2>1. crashes' \in 0..MaxCrashes
    BY <1>4, MembershipAssumption DEF Crash, GInv, TypeOK
  <2>2. /\ pc' \in [Threads -> {"idle", "load", "remove", "resolve"}]
        /\ bootTodo' \subseteq Groups /\ boot' \in {"loading", "serving"}
        /\ UNCHANGED <<rules, target>>
    BY <1>4 DEF Crash, Known
  <2>3. /\ gc' \in RuleMap /\ Permitted(gc)'
        /\ gt' \in [Groups -> Expressions \cup {Unresolved}]
        /\ ga' \in [Groups -> SUBSET Groups]
        /\ (\A x \in Groups : \A g \in ga[x] : <<g, x>> \in Edges)'
        /\ failed' \in [Threads -> BOOLEAN]
    BY <1>4 DEF Crash, RuleMap, Permitted, Known
  <2>4. stack' \in [Threads -> Seq(GoodFrames)]
    BY <1>4 DEF Crash
  <2> QED
    BY <1>0, <2>1, <2>2, <2>3, <2>4 DEF GInv, TypeOK, MRTypeOK
<1>5. CASE UNCHANGED vars
  BY <1>5 DEF vars, mrVars, GInv, TypeOK, MRTypeOK
<1> QED
  BY <1>1, <1>2, <1>3, <1>4, <1>5 DEF Next, Boot

(* The first state. *)
LEMMA FirstGood == Init => GInv
<1> SUFFICES ASSUME Init PROVE GInv
  OBVIOUS
<1>1. target \in [Threads -> Groups]
  <2>1. (CHOOSE g \in Groups : TRUE) \in Groups
    BY MembershipAssumption
  <2> QED
    BY <2>1 DEF Init
<1>2. rules \in RuleMap /\ gc \in RuleMap /\ Permitted(rules) /\ Permitted(gc)
  BY DEF Init, MRInit, RuleMap, Permitted, Known
<1>3. stack \in [Threads -> Seq(GoodFrames)] /\ stack \in [Threads -> Seq(Frames)]
  BY DEF Init, MRInit
<1>4. crashes \in 0..MaxCrashes
  BY MembershipAssumption DEF Init
<1> QED
  BY <1>1, <1>2, <1>3, <1>4 DEF Init, MRInit, GInv, TypeOK, MRTypeOK

(* Whatever clients write, however threads interleave in the resolver, and *)
(* whenever the server dies, storage, callbacks and the resolver's maps    *)
(* and calls keep their types.                                             *)
THEOREM MembershipTypeCorrect == Spec => []TypeOK
<1>1. GInv => TypeOK
  BY DEF GInv
<1> QED
  BY <1>1, FirstGood, StepGood, PTL DEF Spec

-----------------------------------------------------------------------------
(***************************************************************************)
(* Recursion.  If the rules that clients may ask for lead down, a call of  *)
(* Resolve makes others for lower groups only, and one of resolveChanges   *)
(* for higher ones.                                                        *)
(***************************************************************************)
LeadsDown(rank) == rank \in [Groups -> Nat] /\ \A e \in Edges : rank[e[2]] < rank[e[1]]

RulesLeadDown == \E rank : LeadsDown(rank)

(* Call f may come out of call g, directly or not. *)
Within(rank, f, g) ==
  /\ f.fn # "SyncGroup"
  /\ f.fn = "resolveChanges" => g.fn = "resolveChanges" /\ rank[g.group] < rank[f.group]
  /\ f.fn = "Resolve" /\ g.fn = "Resolve" => rank[f.group] < rank[g.group]

Nested(rank, s) == \A i, j \in 1..Len(s) : i < j => Within(rank, s[i], s[j])

(* A call that goes on is still of the same function for the same group. *)
Same(f, g) == f.fn = g.fn /\ f.group = g.group

(* R orders calls of S: each comes out of those after it, directly or not. *)
Ordered(R, s) == \A i, j \in 1..Len(s) : i < j => <<s[i], s[j]>> \in R

OrdersCalls(R, S) ==
  /\ \A f, g, h \in S : <<f, g>> \in R /\ <<g, h>> \in R => <<f, h>> \in R
  /\ \A f, c, g \in S : Same(c, f) =>
       (<<f, g>> \in R => <<c, g>> \in R) /\ (<<g, f>> \in R => <<g, c>> \in R)
  /\ \A f, g \in S : <<f, g>> \in R => f.fn # "SyncGroup"

(* Calls stay in order when the innermost one returns, goes on, or makes a  *)
(* call that may come out of it.                                           *)
LEMMA OrderKept ==
  ASSUME NEW S, NEW R, OrdersCalls(R, S), NEW s \in Seq(S), s # <<>>, Ordered(R, s),
         NEW f \in S, NEW g \in S
  PROVE  /\ Ordered(R, Tail(s))
         /\ Same(f, s[1]) \/ s[1].fn = "SyncGroup" => Ordered(R, <<f>> \o Tail(s))
         /\ Same(f, s[1]) /\ <<g, f>> \in R => Ordered(R, <<g, f>> \o Tail(s))
<1> DEFINE r == Tail(s)
           c == <<f>> \o Tail(s)
           d == <<g, f>> \o Tail(s)
<1>0. /\ Len(s) \in Nat \ {0} /\ \A i \in 1..Len(s) : s[i] \in S
      /\ Len(r) = Len(s) - 1 /\ \A i \in 1..(Len(s) - 1) : r[i] = s[i + 1]
      /\ Len(c) = Len(s) /\ c[1] = f /\ \A i \in 2..Len(s) : c[i] = s[i]
      /\ Len(d) = Len(s) + 1 /\ d[1] = g /\ d[2] = f
      /\ \A i \in 3..(Len(s) + 1) : d[i] = s[i - 1]
  <2>1. /\ Len(s) \in Nat \ {0} /\ Returned(r, s) /\ Continued(c, f, s) /\ Invoked(d, f, g, s)
    BY Shapes
  <2>2. \A i \in 1..Len(s) : s[i] \in S
    OBVIOUS
  <2> HIDE DEF r, c, d
  <2> QED
    BY <2>1, <2>2 DEF Returned, Continued, Invoked
<1> HIDE DEF r, c, d
<1>1. \A i, j \in 1..Len(s) : i < j => <<s[i], s[j]>> \in R
  BY DEF Ordered
<1>2. Ordered(R, r)
  <2> SUFFICES ASSUME NEW i \in 1..(Len(s) - 1), NEW j \in 1..(Len(s) - 1), i < j
               PROVE  <<r[i], r[j]>> \in R
    BY <1>0 DEF Ordered
  <2>1. i + 1 \in 1..Len(s) /\ j + 1 \in 1..Len(s) /\ i + 1 < j + 1
    BY <1>0
  <2> QED
    BY <1>0, <1>1, <2>1
<1>3. ASSUME Same(f, s[1]) \/ s[1].fn = "SyncGroup"
      PROVE  Ordered(R, c)
  <2> SUFFICES ASSUME NEW i \in 1..Len(s), NEW j \in 1..Len(s), i < j
               PROVE  <<c[i], c[j]>> \in R
    BY <1>0 DEF Ordered
  <2>1. <<s[i], s[j]>> \in R /\ c[j] = s[j] /\ s[i] \in S /\ s[j] \in S
    BY <1>0, <1>1
  <2>2. CASE i = 1
    <3>1. <<s[1], s[j]>> \in R /\ s[1] \in S /\ s[j] \in S /\ c[1] = f
      BY <1>0, <2>1, <2>2
    <3>2. Same(f, s[1])
      BY <1>3, <3>1 DEF OrdersCalls
    <3>3. <<f, s[j]>> \in R
      BY <3>1, <3>2 DEF OrdersCalls
    <3> QED
      BY <2>1, <2>2, <3>1, <3>3
  <2>3. CASE i # 1
    <3>1. i \in 2..Len(s)
      BY <1>0, <2>3
    <3> QED
      BY <1>0, <2>1, <3>1
  <2> QED
    BY <2>2, <2>3
<1>4. ASSUME Same(f, s[1]), <<g, f>> \in R
      PROVE  Ordered(R, d)
  <2> SUFFICES ASSUME NEW i \in 1..(Len(s) + 1), NEW j \in 1..(Len(s) + 1), i < j
               PROVE  <<d[i], d[j]>> \in R
    BY <1>0 DEF Ordered
  <2>1. CASE j = 2
    BY <1>0, <1>4, <2>1
  <2>2. CASE j # 2
    <3>1. /\ d[j] = s[j - 1] /\ j - 1 \in 2..Len(s) /\ j - 1 \in 1..Len(s) /\ 1 \in 1..Len(s)
          /\ s[j - 1] \in S /\ s[1] \in S
      BY <1>0, <2>2
    <3>2. <<f, s[j - 1]>> \in R
      <4>1. <<s[1], s[j - 1]>> \in R
        <5>1. 1 < j - 1
          BY <3>1
        <5> QED
          BY <1>1, <3>1, <5>1
      <4> QED
        BY <1>4, <3>1, <4>1 DEF OrdersCalls
    <3>3. CASE i = 1
      <4>1. <<g, s[j - 1]>> \in R
        BY <1>4, <3>1, <3>2 DEF OrdersCalls
      <4> QED
        BY <1>0, <3>1, <3>3, <4>1
    <3>4. CASE i = 2
      BY <1>0, <3>1, <3>2, <3>4
    <3>5. CASE i > 2
      <4>1. d[i] = s[i - 1] /\ i - 1 \in 1..Len(s) /\ i - 1 < j - 1
        BY <1>0, <3>5
      <4> QED
        BY <1>1, <3>1, <4>1
    <3> QED
      BY <3>3, <3>4, <3>5
  <2> QED
    BY <2>1, <2>2
<1> QED
  BY <1>2, <1>3, <1>4 DEF r, c, d

(* Calls stay nested. *)
LEMMA NestingKept ==
  ASSUME NEW rank \in [Groups -> Nat], NEW s \in Seq(GoodFrames), s # <<>>, Nested(rank, s),
         NEW f \in GoodFrames, NEW g \in GoodFrames
  PROVE  /\ Nested(rank, Tail(s))
         /\ Same(f, s[1]) \/ s[1].fn = "SyncGroup" => Nested(rank, <<f>> \o Tail(s))
         /\ Same(f, s[1]) /\ Within(rank, g, f) => Nested(rank, <<g, f>> \o Tail(s))
<1> DEFINE R == {p \in GoodFrames \X GoodFrames : Within(rank, p[1], p[2])}
<1>1. \A a, b \in GoodFrames : <<a, b>> \in R <=> Within(rank, a, b)
  OBVIOUS
<1>2. \A a \in GoodFrames : a.fn \in {"SyncGroup", "resolveChanges", "Resolve"} /\ a.group \in Groups
  BY DEF GoodFrames, Frames
<1> HIDE DEF R
<1>3. OrdersCalls(R, GoodFrames)
  <2>1. ASSUME NEW a \in GoodFrames, NEW b \in GoodFrames, NEW c \in GoodFrames,
               Within(rank, a, b), Within(rank, b, c)
        PROVE  Within(rank, a, c)
    <3>1. rank[a.group] \in Nat /\ rank[b.group] \in Nat /\ rank[c.group] \in Nat
      BY <1>2
    <3> QED
      BY <1>2, <2>1, <3>1 DEF Within
  <2>2. ASSUME NEW a \in GoodFrames, NEW b \in GoodFrames, NEW c \in GoodFrames, Same(b, a)
        PROVE  /\ Within(rank, a, c) => Within(rank, b, c)
               /\ Within(rank, c, a) => Within(rank, c, b)
    BY <2>2 DEF Same, Within
  <2>3. \A a, b \in GoodFrames : Within(rank, a, b) => a.fn # "SyncGroup"
    BY DEF Within
  <2> QED
    BY <1>1, <2>1, <2>2, <2>3 DEF OrdersCalls
<1>4. \A q \in Seq(GoodFrames) : Nested(rank, q) <=> Ordered(R, q)
  <2> SUFFICES ASSUME NEW q \in Seq(GoodFrames) PROVE Nested(rank, q) <=> Ordered(R, q)
    OBVIOUS
  <2>1. \A i \in 1..Len(q) : q[i] \in GoodFrames
    OBVIOUS
  <2> QED
    BY <1>1, <2>1 DEF Nested, Ordered
<1>5. /\ Tail(s) \in Seq(GoodFrames) /\ <<f>> \o Tail(s) \in Seq(GoodFrames)
      /\ <<g, f>> \o Tail(s) \in Seq(GoodFrames)
  BY Shapes
<1> QED
  BY <1>1, <1>3, <1>4, <1>5, OrderKept

(* What a call is replaced by is good if the stack still is. *)
LEMMA PrefixIn ==
  ASSUME NEW S, NEW r \in Seq(S), NEW x, NEW y
  PROVE  /\ <<x>> \o r \in Seq(S) => x \in S
         /\ <<y, x>> \o r \in Seq(S) => x \in S /\ y \in S
<1>1. ASSUME <<x>> \o r \in Seq(S) PROVE x \in S
  <2> DEFINE c == <<x>> \o r
  <2>1. c[1] = x /\ Len(c) = Len(r) + 1 /\ Len(r) \in Nat
    OBVIOUS
  <2>2. c \in Seq(S)
    BY <1>1
  <2> HIDE DEF c
  <2> QED
    BY <2>1, <2>2
<1>2. ASSUME <<y, x>> \o r \in Seq(S) PROVE x \in S /\ y \in S
  <2> DEFINE c == <<y, x>> \o r
  <2>1. c[1] = y /\ c[2] = x /\ Len(c) = Len(r) + 2 /\ Len(r) \in Nat
    OBVIOUS
  <2>2. c \in Seq(S)
    BY <1>2
  <2> HIDE DEF c
  <2> QED
    BY <2>1, <2>2
<1> QED
  BY <1>1, <1>2

AllNested(rank) == \A t \in Threads : Nested(rank, stack[t])

(* A step of one of the resolver's calls. *)
LEMMA ResolverStepNests ==
  ASSUME GInv, NEW rank, LeadsDown(rank), AllNested(rank), NEW t \in Threads, MRStep(t)
  PROVE  AllNested(rank)'
<1> DEFINE s == stack[t]
<1>0. /\ ~Idle(t) /\ s # <<>> /\ s \in Seq(GoodFrames) /\ Nested(rank, s)
      /\ rank \in [Groups -> Nat]
  BY DEF MRStep, SyncStore, SyncLink, ChangesResolve, ChangesAffected, ChangesCascade,
         ChangesReturn, ResolveLookup, ResolveOperand, ResolveFetch, ResolveWrite, In, Idle,
         GInv, AllNested, LeadsDown
<1>1. /\ Top(t) = s[1] /\ s[1] \in GoodFrames /\ s[1] \in Frames /\ s[1].group \in Groups
      /\ s[1].operand \in Groups
  BY <1>0, Shapes DEF Top, GoodFrames, Frames
<1>2. /\ ga \in [Groups -> SUBSET Groups] /\ \A x \in Groups : \A g \in ga[x] : <<g, x>> \in Edges
      /\ \A e \in Edges : rank[e[2]] < rank[e[1]]
      /\ stack \in [Threads -> Seq(GoodFrames)]
  BY DEF GInv, TypeOK, MRTypeOK, LeadsDown
<1>3. MRTypeOK' /\ stack' \in [Threads -> Seq(GoodFrames)]
  BY ResolverStepGood
<1> HIDE DEF s
<1>4. ASSUME NEW f, NEW g,
             \/ Return(t)
             \/ Continue(t, f) /\ (Same(f, s[1]) \/ s[1].fn = "SyncGroup")
             \/ Invoke(t, f, g) /\ Same(f, s[1]) /\ Within(rank, g, f)
      PROVE  AllNested(rank)'
  <2>1. /\ stack'[t] \in Seq(GoodFrames)
        /\ \A u \in Threads \ {t} : stack'[u] = stack[u]
        /\ Return(t) => stack'[t] = Tail(s)
        /\ Continue(t, f) => stack'[t] = <<f>> \o Tail(s)
        /\ Invoke(t, f, g) => stack'[t] = <<g, f>> \o Tail(s)
    BY <1>2, <1>3, <1>4 DEF Return, Continue, Invoke, s
  <2>2. Tail(s) \in Seq(GoodFrames)
    BY <1>0, Shapes
  <2>3. Nested(rank, stack'[t])
    <3>1. CASE Return(t)
      BY <1>0, <1>1, <2>1, <3>1, NestingKept
    <3>2. CASE Continue(t, f) /\ (Same(f, s[1]) \/ s[1].fn = "SyncGroup")
      <4>1. f \in GoodFrames
        BY <2>1, <2>2, <3>2, PrefixIn
      <4> QED
        BY <1>0, <2>1, <3>2, <4>1, NestingKept
    <3>3. CASE Invoke(t, f, g) /\ Same(f, s[1]) /\ Within(rank, g, f)
      <4>1. f \in GoodFrames /\ g \in GoodFrames
        BY <2>1, <2>2, <3>3, PrefixIn
      <4> QED
        BY <1>0, <2>1, <3>3, <4>1, NestingKept
    <3> QED
      BY <1>4, <3>1, <3>2, <3>3
  <2> QED
    BY <2>1, <2>3 DEF AllNested
<1>5. \A g : /\ ChangesFrame(g).fn = "resolveChanges" /\ ChangesFrame(g).group = g
             /\ ResolveFrame(g).fn = "Resolve" /\ ResolveFrame(g).group = g
  BY DEF ChangesFrame, ResolveFrame, Frame
<1> DEFINE f == s[1]
<1>6. f \in Frames /\ f.group \in Groups /\ f.rules \in Rules
  BY <1>1 DEF Frames
<1> HIDE DEF f
<1>7. /\ Same([f EXCEPT !.next = "link"], f) /\ Same([f EXCEPT !.next = "affected"], f)
      /\ Same([f EXCEPT !.cascade = ga[f.group], !.next = "cascade"], f)
      /\ \A r, x : Same([f EXCEPT !.rules = r, !.expr = x, !.next = "operand"], f)
      /\ \A g : Same([f EXCEPT !.visited = @ \cup {g}], f)
      /\ \A g : Same([f EXCEPT !.operand = g, !.next = "fetch"], f)
  BY <1>6 DEF Same, Frames
<1>8. \A g \in Groups, x \in Expressions : Same(Combined(f, g, x), f)
  <2> TAKE g \in Groups, x \in Expressions
  <2>1. IsCombined(Combined(f, g, x), f, g, x)
    BY <1>6, CombinedIs
  <2> QED
    BY <2>1 DEF IsCombined, Same
<1>9. Top(t) = f
  BY <1>1 DEF f
<1>10. CASE SyncStore(t)
  <2>1. f.fn = "SyncGroup" /\ Invoke(t, [f EXCEPT !.next = "link"], ResolveFrame(f.group))
    BY <1>9, <1>10 DEF SyncStore, In, Top
  <2>2. Within(rank, ResolveFrame(f.group), [f EXCEPT !.next = "link"])
    BY <1>5, <1>7, <2>1 DEF Within, Same
  <2> QED
    BY <1>4, <1>7, <2>1, <2>2 DEF f
<1>11. CASE SyncLink(t)
  <2>1. f.fn = "SyncGroup" /\ Continue(t, ChangesFrame(f.group))
    BY <1>9, <1>11 DEF SyncLink, In, Top
  <2> QED
    BY <1>4, <2>1 DEF f
<1>12. CASE ChangesResolve(t)
  <2>1. f.fn = "resolveChanges" /\ Invoke(t, [f EXCEPT !.next = "affected"], ResolveFrame(f.group))
    BY <1>9, <1>12 DEF ChangesResolve, In, Top
  <2>2. Within(rank, ResolveFrame(f.group), [f EXCEPT !.next = "affected"])
    BY <1>5, <1>7, <2>1 DEF Within, Same
  <2> QED
    BY <1>4, <1>7, <2>1, <2>2 DEF f
<1>13. CASE ChangesAffected(t)
  <2>1. Continue(t, [f EXCEPT !.cascade = ga[f.group], !.next = "cascade"])
    BY <1>9, <1>13 DEF ChangesAffected
  <2> QED
    BY <1>4, <1>7, <2>1 DEF f
<1>14. ASSUME NEW g \in Groups, ChangesCascade(t, g)
       PROVE  AllNested(rank)'
  <2>1. /\ f.fn = "resolveChanges" /\ g \in f.cascade \cup ga[f.group]
        /\ Invoke(t, [f EXCEPT !.visited = @ \cup {g}], ChangesFrame(g))
    BY <1>9, <1>14 DEF ChangesCascade, In, Top
  <2>2. <<g, f.group>> \in Edges
    BY <1>1, <1>2, <1>6, <2>1 DEF GoodFrames, f
  <2>3. rank[f.group] < rank[g]
    BY <1>2, <2>2
  <2>4. Within(rank, ChangesFrame(g), [f EXCEPT !.visited = @ \cup {g}])
    BY <1>5, <1>7, <2>1, <2>3 DEF Within, Same
  <2> QED
    BY <1>4, <1>7, <2>1, <2>4 DEF f
<1>15. CASE ResolveLookup(t)
  <2>1. \/ Return(t)
        \/ Continue(t, [f EXCEPT !.rules = gc[f.group], !.expr = Self(f.group), !.next = "operand"])
    BY <1>9, <1>15 DEF ResolveLookup
  <2> QED
    BY <1>4, <1>7, <2>1 DEF f
<1>16. ASSUME NEW g \in Groups, ResolveOperand(t, g)
       PROVE  AllNested(rank)'
  <2>1. /\ f.fn = "Resolve" /\ g \in NextOperands(f)
        /\ \/ gt[g] # Unresolved /\ Continue(t, Combined(f, g, gt[g]))
           \/ Invoke(t, [f EXCEPT !.operand = g, !.next = "fetch"], ResolveFrame(g))
    BY <1>9, <1>16 DEF ResolveOperand, In, Top
  <2>2. CASE gt[g] # Unresolved /\ Continue(t, Combined(f, g, gt[g]))
    <3>1. gt[g] \in Expressions
      BY <2>2 DEF GInv, TypeOK, MRTypeOK
    <3> QED
      BY <1>4, <1>8, <2>2, <3>1 DEF f
  <2>3. CASE Invoke(t, [f EXCEPT !.operand = g, !.next = "fetch"], ResolveFrame(g))
    <3>1. <<f.group, g>> \in Edges
      BY <1>1, <2>1 DEF GoodFrames, f, NextOperands, Targets
    <3>2. rank[g] < rank[f.group]
      BY <1>2, <3>1
    <3>3. Within(rank, ResolveFrame(g), [f EXCEPT !.operand = g, !.next = "fetch"])
      BY <1>5, <1>7, <2>1, <3>2 DEF Within, Same
    <3> QED
      BY <1>4, <1>7, <2>3, <3>3 DEF f
  <2> QED
    BY <2>1, <2>2, <2>3
<1>17. CASE ResolveFetch(t)
  <2> DEFINE x == IF gt[f.operand] = Unresolved THEN {} ELSE gt[f.operand]
  <2>1. x \in Expressions /\ f.operand \in Groups
    BY <1>6 DEF Expressions, GInv, TypeOK, MRTypeOK, Frames
  <2>2. Return(t) \/ Continue(t, Combined(f, f.operand, x))
    BY <1>9, <1>17 DEF ResolveFetch
  <2> HIDE DEF x
  <2> QED
    BY <1>4, <1>8, <2>1, <2>2 DEF f
<1>18. CASE ChangesReturn(t) \/ ResolveWrite(t)
  BY <1>4, <1>18 DEF ChangesReturn, ResolveWrite
<1> QED
  BY <1>10, <1>11, <1>12, <1>13, <1>14, <1>15, <1>16, <1>17, <1>18 DEF MRStep

(* All steps: only the resolver's own calls make others. *)
LEMMA StepNests ==
  ASSUME NEW rank, LeadsDown(rank)
  PROVE  GInv /\ AllNested(rank) /\ [Next]_vars => AllNested(rank)'
<1> SUFFICES ASSUME GInv, AllNested(rank), [Next]_vars
             PROVE  AllNested(rank)'
  OBVIOUS
<1>1. ASSUME NEW t \in Threads, ResolverStep(t)
      PROVE  AllNested(rank)'
  BY <1>1, ResolverStepNests DEF ResolverStep
<1>2. ASSUME NEW t \in Threads, LoadGroup(t)
      PROVE  AllNested(rank)'
  <2>1. CASE CallSyncGroup(t, target[t], rules[target[t]])
    <3>1. \A u \in Threads : stack'[u] = stack[u] \/ Len(stack'[u]) = 1
      BY <2>1 DEF CallSyncGroup, GInv
    <3> QED
      BY <3>1 DEF AllNested, Nested
  <2>2. CASE UNCHANGED mrVars
    BY <2>2 DEF mrVars, AllNested, Nested
  <2> QED
    BY <1>2, <2>1, <2>2 DEF LoadGroup
<1>3. CASE UNCHANGED stack
  BY <1>3 DEF AllNested, Nested
<1>4. CASE Crash
  <2>1. \A u \in Threads : Len(stack'[u]) = 0
    BY <1>4 DEF Crash
  <2> QED
    BY <2>1 DEF AllNested, Nested
<1>5. ASSUME NEW t \in Threads, Client(t) \/ CallRemoveGroup(t) \/ CallbackReturns(t)
      PROVE  UNCHANGED stack
  <2>1. CASE Client(t)
    BY <2>1, WriteGood DEF WriteGroup, mrVars
  <2> QED
    BY <1>5, <2>1 DEF CallRemoveGroup, RemoveGroup, CallbackReturns, mrVars
<1>6. ASSUME Boot \/ UNCHANGED vars
      PROVE  UNCHANGED stack
  BY <1>6 DEF Boot, Serve, Announce, vars, mrVars
<1> QED
  BY <1>1, <1>2, <1>3, <1>4, <1>5, <1>6 DEF Next, Handle

-----------------------------------------------------------------------------
(***************************************************************************)
(* Links.  A thread that stores the rules of a group links it to their     *)
(* targets later, whatever others store or link in between.                *)
(***************************************************************************)

(* Groups that are destroyed are no targets of rules. *)
TargetsStay == \A e \in Edges : e[2] \notin Removable

Linking(g, x, s) ==
  \E i \in 1..Len(s) : s[i].fn = "SyncGroup" /\ s[i].group = g /\ x \in Targets(s[i].rules)

(* A rule that says that g depends on x, if the resolver knows it, is      *)
(* linked, or about to be.                                                 *)
Bound(g, x) ==
  g \in Known(gc) /\ x \in Targets(gc[g]) =>
    g \in ga[x] \/ \E t \in Threads : Linking(g, x, stack[t])

LInv ==
  /\ \A g, x \in Groups : Bound(g, x)
  /\ \A t \in Threads : pc[t] = "remove" => target[t] \in Removable

(* What a step of one of the resolver's calls does to the stacks. *)
Replaces(t, f, g) ==
  /\ Return(t) => Returned(stack'[t], stack[t])
  /\ Continue(t, f) => f \in GoodFrames /\ Continued(stack'[t], f, stack[t])
  /\ Invoke(t, f, g) => f \in GoodFrames /\ g \in GoodFrames /\ Invoked(stack'[t], f, g, stack[t])
  /\ Return(t) \/ Continue(t, f) \/ Invoke(t, f, g) =>
       \A u \in Threads \ {t} : stack'[u] = stack[u]

(* A step of the resolver leaves the calls below the innermost one, and    *)
(* those of the other threads, as they are.                                *)
LEMMA StepReplaces ==
  ASSUME GInv, NEW t \in Threads, MRStep(t)
  PROVE  /\ ~Idle(t) /\ stack[t] \in Seq(GoodFrames) /\ Len(stack[t]) \in Nat \ {0}
         /\ stack' \in [Threads -> Seq(GoodFrames)]
         /\ Top(t) = stack[t][1] /\ Top(t) \in GoodFrames
         /\ \A f, g : Replaces(t, f, g)
<1> DEFINE s == stack[t]
<1>1. /\ ~Idle(t) /\ s # <<>> /\ s \in Seq(GoodFrames) /\ stack \in [Threads -> Seq(GoodFrames)]
  BY DEF MRStep, SyncStore, SyncLink, ChangesResolve, ChangesAffected, ChangesCascade,
         ChangesReturn, ResolveLookup, ResolveOperand, ResolveFetch, ResolveWrite, In, Idle,
         GInv
<1>2. Top(t) = s[1] /\ s[1] \in GoodFrames /\ Len(s) \in Nat \ {0} /\ Tail(s) \in Seq(GoodFrames)
  BY <1>1, Shapes DEF Top
<1>3. stack' \in [Threads -> Seq(GoodFrames)]
  BY ResolverStepGood
<1>4. ASSUME NEW f, NEW g PROVE Replaces(t, f, g)
  <2>1. /\ stack'[t] \in Seq(GoodFrames)
        /\ Return(t) => stack'[t] = Tail(s)
        /\ Continue(t, f) => stack'[t] = <<f>> \o Tail(s)
        /\ Invoke(t, f, g) => stack'[t] = <<g, f>> \o Tail(s)
    BY <1>1, <1>3 DEF Return, Continue, Invoke
  <2>2. Return(t) \/ Continue(t, f) \/ Invoke(t, f, g) =>
          \A u \in Threads \ {t} : stack'[u] = stack[u]
    BY <1>1 DEF Return, Continue, Invoke
  <2> HIDE DEF s
  <2>3. Return(t) => Returned(stack'[t], s)
    BY <1>1, <1>2, <2>1, Shapes
  <2>4. ASSUME Continue(t, f) PROVE f \in GoodFrames /\ Continued(stack'[t], f, s)
    <3>1. f \in GoodFrames
      BY <1>2, <2>1, <2>4, PrefixIn
    <3>2. Continued(<<f>> \o Tail(s), f, s)
      BY <1>1, <3>1, Shapes
    <3> QED
      BY <2>1, <2>4, <3>1, <3>2
  <2>5. ASSUME Invoke(t, f, g)
        PROVE  f \in GoodFrames /\ g \in GoodFrames /\ Invoked(stack'[t], f, g, s)
    <3>1. f \in GoodFrames /\ g \in GoodFrames
      BY <1>2, <2>1, <2>5, PrefixIn
    <3>2. Invoked(<<g, f>> \o Tail(s), f, g, s)
      BY <1>1, <3>1, Shapes
    <3> QED
      BY <2>1, <2>5, <3>1, <3>2
  <2> QED
    BY <2>2, <2>3, <2>4, <2>5 DEF Replaces, s
<1> QED
  BY <1>1, <1>2, <1>3, <1>4

(* What is being linked is so still after a step that does not end it. *)
LEMMA LinkingKept ==
  ASSUME GInv, NEW t \in Threads, MRStep(t), NEW f, NEW g,
         Return(t) \/ Continue(t, f) \/ Invoke(t, f, g),
         \/ Top(t).fn # "SyncGroup"
         \/ /\ Invoke(t, f, g)
            /\ f.fn = Top(t).fn /\ f.group = Top(t).group /\ f.rules = Top(t).rules,
         NEW h, NEW x
  PROVE  \A u \in Threads : Linking(h, x, stack[u]) => Linking(h, x, stack'[u])
<1>1. /\ Len(stack[t]) \in Nat \ {0} /\ Top(t) = stack[t][1] /\ Replaces(t, f, g)
  BY StepReplaces
<1>2. \A u \in Threads \ {t} : stack'[u] = stack[u]
  BY <1>1 DEF Replaces
<1>3. ASSUME Linking(h, x, stack[t]) PROVE Linking(h, x, stack'[t])
  <2>1. PICK i \in 1..Len(stack[t]) :
          /\ stack[t][i].fn = "SyncGroup" /\ stack[t][i].group = h
          /\ x \in Targets(stack[t][i].rules)
    BY <1>3 DEF Linking
  <2>2. CASE i = 1
    <3>1. Invoked(stack'[t], f, g, stack[t]) /\ f.fn = "SyncGroup" /\ f.group = h
          /\ x \in Targets(f.rules)
      BY <1>1, <2>1, <2>2 DEF Replaces
    <3>2. 2 \in 1..Len(stack'[t]) /\ stack'[t][2] = f
      BY <1>1, <3>1 DEF Invoked
    <3> QED
      BY <3>1, <3>2 DEF Linking
  <2>3. CASE i # 1
    <3>1. \E j \in 1..Len(stack'[t]) : stack'[t][j] = stack[t][i]
      <4>1. CASE Return(t)
        <5>1. i - 1 \in 1..(Len(stack[t]) - 1) /\ (i - 1) + 1 = i
          BY <1>1, <2>3
        <5> QED
          BY <1>1, <4>1, <5>1 DEF Replaces, Returned
      <4>2. CASE Continue(t, f)
        <5>1. i \in 2..Len(stack[t])
          BY <1>1, <2>3
        <5> QED
          BY <1>1, <4>2, <5>1 DEF Replaces, Continued
      <4>3. CASE Invoke(t, f, g)
        <5>1. i + 1 \in 3..(Len(stack[t]) + 1) /\ (i + 1) - 1 = i
          BY <1>1, <2>3
        <5> QED
          BY <1>1, <4>3, <5>1 DEF Replaces, Invoked
      <4> QED
        BY <4>1, <4>2, <4>3
    <3> QED
      BY <2>1, <3>1 DEF Linking
  <2> QED
    BY <2>2, <2>3
<1> QED
  BY <1>2, <1>3

(* A step of one of the resolver's calls. *)
LEMMA ResolverStepLinks ==
  ASSUME GInv, NEW g \in Groups, NEW x \in Groups, Bound(g, x),
         NEW t \in Threads, ResolverStep(t)
  PROVE  Bound(g, x)'
<1> DEFINE f == Top(t)
<1>0. MRStep(t) /\ UNCHANGED <<pc, target>>
  BY DEF ResolverStep
<1>1. /\ Len(stack[t]) \in Nat \ {0} /\ f = stack[t][1] /\ f \in GoodFrames
      /\ f \in Frames /\ f.group \in Groups /\ f.rules \in Rules
  <2>1. Len(stack[t]) \in Nat \ {0} /\ f = stack[t][1] /\ f \in GoodFrames
    BY <1>0, StepReplaces
  <2> QED
    BY <2>1 DEF GoodFrames, Frames
<1>2. gc \in RuleMap /\ ga \in [Groups -> SUBSET Groups]
  BY DEF GInv, TypeOK, MRTypeOK
<1> HIDE DEF f
<1>3. CASE SyncStore(t)
  <2> DEFINE k == [f EXCEPT !.next = "link"]
             r == ResolveFrame(f.group)
  <2>1. /\ f.fn = "SyncGroup" /\ gc' = [gc EXCEPT ![f.group] = f.rules] /\ ga' = ga
        /\ Invoke(t, k, r)
    BY <1>3 DEF SyncStore, In, f, Top
  <2>2. k.fn = f.fn /\ k.group = f.group /\ k.rules = f.rules
    BY <1>1 DEF Frames
  <2> HIDE DEF k, r
  <2>3. \A u \in Threads : Linking(g, x, stack[u]) => Linking(g, x, stack'[u])
    BY <1>0, <2>1, <2>2, LinkingKept DEF f
  <2>4. x \in Targets(f.rules) => Linking(f.group, x, stack'[t])
    <3>1. Invoked(stack'[t], k, r, stack[t])
      BY <1>0, <2>1, StepReplaces DEF Replaces
    <3>2. 2 \in 1..Len(stack'[t]) /\ stack'[t][2] = k
      BY <1>1, <3>1 DEF Invoked
    <3> QED
      BY <2>1, <2>2, <3>2 DEF Linking
  <2>5. CASE g = f.group
    BY <1>1, <1>2, <2>1, <2>4, <2>5 DEF RuleMap, Bound
  <2>6. CASE g # f.group
    BY <1>2, <2>1, <2>3, <2>6 DEF RuleMap, Known, Bound
  <2> QED
    BY <2>5, <2>6
<1>4. CASE SyncLink(t)
  <2> DEFINE k == ChangesFrame(f.group)
  <2>1. /\ f.fn = "SyncGroup" /\ gc' = gc /\ Continue(t, k)
        /\ ga' = [y \in Groups |-> IF y \in Targets(f.rules) THEN ga[y] \cup {f.group} ELSE ga[y]]
    BY <1>4 DEF SyncLink, In, f, Top
  <2> HIDE DEF k
  <2>2. Continued(stack'[t], k, stack[t]) /\ \A u \in Threads \ {t} : stack'[u] = stack[u]
    BY <1>0, <2>1, StepReplaces DEF Replaces
  <2>3. g \in ga[x] => g \in ga'[x]
    BY <2>1
  <2>4. ASSUME NEW u \in Threads \ {t}, Linking(g, x, stack[u])
        PROVE  Linking(g, x, stack'[u])
    BY <2>2, <2>4
  <2>5. ASSUME Linking(g, x, stack[t])
        PROVE  g \in ga'[x] \/ Linking(g, x, stack'[t])
    <3>1. PICK i \in 1..Len(stack[t]) :
            /\ stack[t][i].fn = "SyncGroup" /\ stack[t][i].group = g
            /\ x \in Targets(stack[t][i].rules)
      BY <2>5 DEF Linking
    <3>2. CASE i = 1
      BY <1>1, <2>1, <3>1, <3>2
    <3>3. CASE i # 1
      <4>1. i \in 2..Len(stack[t])
        BY <1>1, <3>3
      <4> QED
        BY <1>1, <2>2, <3>1, <4>1 DEF Continued, Linking
    <3> QED
      BY <3>2, <3>3
  <2> QED
    BY <2>1, <2>3, <2>4, <2>5 DEF Bound
<1>5. ASSUME f.fn # "SyncGroup", UNCHANGED <<gc, ga>>, NEW a, NEW b,
             Return(t) \/ Continue(t, a) \/ Invoke(t, a, b)
      PROVE  Bound(g, x)'
  <2>1. \A u \in Threads : Linking(g, x, stack[u]) => Linking(g, x, stack'[u])
    BY <1>0, <1>5, LinkingKept DEF f
  <2> QED
    BY <1>5, <2>1 DEF Bound
<1>6. CASE \/ ChangesResolve(t) \/ ChangesAffected(t) \/ ChangesReturn(t)
           \/ \E h \in Groups : ChangesCascade(t, h)
  <2>1. f.fn = "resolveChanges" /\ UNCHANGED <<gc, ga>>
    BY <1>6
    DEF ChangesResolve, ChangesAffected, ChangesReturn, ChangesCascade, In, f, Top
  <2>2. \E a, b : Return(t) \/ Continue(t, a) \/ Invoke(t, a, b)
    BY <1>6 DEF ChangesResolve, ChangesAffected, ChangesReturn, ChangesCascade
  <2> QED
    BY <1>5, <2>1, <2>2
<1>7. CASE \/ ResolveLookup(t) \/ ResolveFetch(t) \/ ResolveWrite(t)
           \/ \E h \in Groups : ResolveOperand(t, h)
  <2>1. f.fn = "Resolve" /\ UNCHANGED <<gc, ga>>
    BY <1>7 DEF ResolveLookup, ResolveFetch, ResolveWrite, ResolveOperand, In, f, Top
  <2>2. \E a, b : Return(t) \/ Continue(t, a) \/ Invoke(t, a, b)
    BY <1>7 DEF ResolveLookup, ResolveFetch, ResolveWrite, ResolveOperand
  <2> QED
    BY <1>5, <2>1, <2>2
<1> QED
  BY <1>0, <1>3, <1>4, <1>6, <1>7 DEF MRStep

(* All steps but the removal of the target. *)
LEMMA StepBinds ==
  ASSUME GInv, NEW g \in Groups, NEW x \in Groups, Bound(g, x), [Next]_vars,
         \A t \in Threads : CallRemoveGroup(t) => target[t] # x
  PROVE  Bound(g, x)'
<1>0. /\ target \in [Threads -> Groups] /\ gc \in RuleMap /\ ga \in [Groups -> SUBSET Groups]
      /\ stack \in [Threads -> Seq(GoodFrames)]
  BY DEF GInv, TypeOK, MRTypeOK
<1>1. ASSUME NEW t \in Threads, Client(t)
      PROVE  Bound(g, x)'
  <2>1. UNCHANGED <<gc, ga, stack>>
    BY <1>1, WriteGood DEF WriteGroup, mrVars
  <2> QED
    BY <2>1 DEF Bound
<1>2. ASSUME NEW t \in Threads, LoadGroup(t)
      PROVE  Bound(g, x)'
  <2>1. /\ UNCHANGED <<gc, ga>>
        /\ \A u \in Threads : stack'[u] = stack[u] \/ stack[u] = <<>>
    BY <1>0, <1>2 DEF LoadGroup, CallSyncGroup, Idle, mrVars
  <2>2. ~Linking(g, x, <<>>)
    BY DEF Linking
  <2> QED
    BY <2>1, <2>2 DEF Bound
<1>3. ASSUME NEW t \in Threads, CallRemoveGroup(t)
      PROVE  Bound(g, x)'
  <2> DEFINE d == target[t]
  <2>1. /\ gc' = [gc EXCEPT ![d] = NoGroup] /\ UNCHANGED stack
        /\ ga' = [y \in Groups |-> IF y = d THEN {} ELSE ga[y] \ {d}]
        /\ d \in Groups /\ d # x
    BY <1>0, <1>3 DEF CallRemoveGroup, RemoveGroup
  <2> HIDE DEF d
  <2>2. CASE g = d
    BY <1>0, <2>1, <2>2 DEF RuleMap, Known, Bound
  <2>3. CASE g # d
    BY <1>0, <2>1, <2>3 DEF RuleMap, Known, Bound
  <2> QED
    BY <2>2, <2>3
<1>4. CASE Boot \/ UNCHANGED vars \/ \E t \in Threads : CallbackReturns(t)
  <2>1. UNCHANGED <<gc, ga, stack>>
    BY <1>4 DEF Boot, Serve, Announce, CallbackReturns, vars, mrVars
  <2> QED
    BY <2>1 DEF Bound
<1>5. CASE Crash
  BY <1>5 DEF Crash, Bound, Known
<1> QED
  BY <1>1, <1>2, <1>3, <1>4, <1>5, ResolverStepLinks DEF Next, Handle

(* The threads that remove groups, if no target is ever destroyed. *)
LEMMA StepLinks ==
  ASSUME TargetsStay
  PROVE  GInv /\ LInv /\ [Next]_vars => LInv'
<1> SUFFICES ASSUME GInv, LInv, [Next]_vars
             PROVE  LInv'
  OBVIOUS
<1>0. /\ pc \in [Threads -> {"idle", "load", "remove", "resolve"}]
      /\ target \in [Threads -> Groups] /\ gc \in RuleMap
  BY DEF GInv, TypeOK, MRTypeOK
<1>1. ASSUME NEW g \in Groups, NEW x \in Groups
      PROVE  Bound(g, x)'
  <2>1. CASE \A t \in Threads : CallRemoveGroup(t) => target[t] # x
    BY <2>1, StepBinds DEF LInv
  <2>2. ASSUME NEW t \in Threads, CallRemoveGroup(t), target[t] = x
        PROVE  Bound(g, x)'
    <3>1. /\ gc' = [gc EXCEPT ![x] = NoGroup] /\ x \in Removable
      BY <2>2 DEF CallRemoveGroup, RemoveGroup, LInv
    <3>2. ~(g \in Known(gc) /\ x \in Targets(gc[g]))
      BY <3>1 DEF GInv, Permitted, TargetsStay
    <3> QED
      BY <1>0, <3>1, <3>2 DEF RuleMap, Known, Bound
  <2> QED
    BY <2>1, <2>2
<1>2. ASSUME NEW u \in Threads, pc'[u] = "remove"
      PROVE  target'[u] \in Removable
  <2>1. CASE \E t \in Threads : Client(t)
    <3>1. PICK t \in Threads, g \in Groups, r \in Rules \cup {NoGroup} :
            WriteGroup(t, g, r) /\ (r = NoGroup => g \in Removable)
      BY <2>1, WriteGood
    <3>2. /\ pc' = [pc EXCEPT ![t] = IF r = NoGroup THEN "remove" ELSE "load"]
          /\ target' = [target EXCEPT ![t] = g]
      BY <3>1 DEF WriteGroup
    <3> QED
      BY <1>0, <1>2, <3>1, <3>2 DEF LInv
  <2>2. CASE \/ \E t \in Threads : Handle(t)
             \/ Serve \/ UNCHANGED vars
    <3>1. UNCHANGED target /\ pc[u] = "remove"
      BY <1>0, <1>2, <2>2
      DEF Handle, LoadGroup, CallRemoveGroup, ResolverStep, CallbackReturns, Serve, vars
    <3> QED
      BY <3>1 DEF LInv
  <2>3. CASE \E t \in Threads, g \in Groups : Announce(t, g)
    BY <1>0, <1>2, <2>3 DEF Announce, Quiet
  <2>4. CASE Crash
    BY <1>2, <2>4 DEF Crash
  <2> QED
    BY <2>1, <2>2, <2>3, <2>4 DEF Next, Boot
<1> QED
  BY <1>1, <1>2 DEF LInv

(* However threads that sync, resolve and remove the same groups overlap,  *)
(* and wherever the server crashes, the links of a rule that the resolver  *)
(* knows get lost by the removal of the rule's target and by nothing else. *)
THEOREM LinksLostOnlyByRemoval == Spec => LinksLostByRemovalOnly
<1>1. GInv /\ GInv' /\ [Next]_vars =>
        [\A g, x \in Groups :
           ~Lost(g, x) /\ Lost(g, x)' =>
             \E t \in Threads : pc[t] = "remove" /\ pc'[t] = "idle" /\ target[t] = x]_vars
  <2> SUFFICES ASSUME GInv, GInv', [Next]_vars, NEW g \in Groups, NEW x \in Groups,
                      ~Lost(g, x), Lost(g, x)'
               PROVE  \E t \in Threads : pc[t] = "remove" /\ pc'[t] = "idle" /\ target[t] = x
    OBVIOUS
  <2>1. /\ \A t \in Threads : DOMAIN stack[t] = 1..Len(stack[t])
        /\ \A t \in Threads : DOMAIN stack'[t] = 1..Len(stack'[t])
    BY DEF GInv
  <2>2. Bound(g, x)
    BY <2>1 DEF Lost, Linked, Linking, Bound
  <2>3. ~Bound(g, x)'
    BY <2>1 DEF Lost, Linked, Linking, Bound
  <2>4. PICK t \in Threads : CallRemoveGroup(t) /\ target[t] = x
    BY <2>2, <2>3, StepBinds
  <2>5. pc'[t] = "idle"
    BY <2>4 DEF CallRemoveGroup, GInv, TypeOK
  <2> QED
    BY <2>4, <2>5 DEF CallRemoveGroup
<1> QED
  BY <1>1, FirstGood, StepGood, PTL DEF Spec, LinksLostByRemovalOnly

-----------------------------------------------------------------------------
(***************************************************************************)
(* One change at a time.  The resolver ends with what the rules mean.  On  *)
(* the way there, what it holds about a group may be behind as long as one *)
(* of the calls under way is going to come to the group, or to one below   *)
(* it: from there its links lead to it.                                    *)
(***************************************************************************)
OneThread == \E t : Threads = {t}

(* The expression of a group, from those of its targets. *)
Built(g, inc, exc) == (Self(g) \cup UNION {gt[x] : x \in inc}) \ UNION {gt[x] : x \in exc}

Settled(g) ==
  g \in Known(gc) /\ (\A x \in Targets(gc[g]) : gt[x] # Unresolved) =>
    gt[g] = Built(g, gc[g].inc, gc[g].exc)

(* U has all the groups above those that it has. *)
Upward(U) == \A g \in Known(gc) : \A x \in Targets(gc[g]) : x \in U => g \in U

(* U has all the groups that the calls of s are about to resolve. *)
Covered(U, f, i) ==
  /\ f.fn = "SyncGroup" => f.group \in U
  /\ f.fn = "resolveChanges" =>
       /\ f.next = "resolve" => f.group \in U
       /\ f.next # "resolve" => ga[f.group] \ f.visited \subseteq U
       /\ f.next = "affected" /\ i > 1 => f.group \in U

Covers(U, s) == \A i \in 1..Len(s) : Covered(U, s[i], i)

AllSettled(s) ==
  \A U \in SUBSET Groups : Upward(U) /\ Covers(U, s) => \A g \in Groups \ U : Settled(g)

(* What is resolved has its targets resolved. *)
Grounded ==
  \A g \in Groups : gt[g] # Unresolved =>
    g \in Known(gc) /\ \A x \in Targets(gc[g]) : gt[x] # Unresolved

(* Call f was made by call c. *)
Called(f, c) ==
  \/ /\ f.fn = "Resolve" /\ c.fn = "Resolve" /\ c.next = "fetch"
     /\ c.operand = f.group /\ gt[f.group] = Unresolved
  \/ f.fn = "Resolve" /\ c.fn = "SyncGroup" /\ c.next = "link" /\ c.group = f.group
  \/ f.fn = "Resolve" /\ c.fn = "resolveChanges" /\ c.next = "affected" /\ c.group = f.group
  \/ f.fn = "resolveChanges" /\ c.fn = "resolveChanges" /\ c.next = "cascade"

(* What call f has done so far. *)
Resolving(f) ==
  LET r == gc[f.group]
  IN  /\ f.group \in Known(gc)
      /\ f.rules.inc \subseteq r.inc /\ f.rules.exc \subseteq r.exc
      /\ f.rules.inc # {} => f.rules.exc = r.exc
      /\ \A x \in (r.inc \ f.rules.inc) \cup (r.exc \ f.rules.exc) : gt[x] # Unresolved
      /\ f.expr = Built(f.group, r.inc \ f.rules.inc, r.exc \ f.rules.exc)

Working(f) ==
  /\ f.fn = "Resolve" /\ f.next # "lookup" => Resolving(f)
  /\ f.fn = "Resolve" /\ f.next = "fetch" => f.operand \in NextOperands(f)
  /\ f.fn = "resolveChanges" =>
       IF f.next = "cascade" THEN f.cascade = ga[f.group] ELSE f.visited = {}

Works(s, fail) ==
  /\ \A i \in 1..Len(s) : Working(s[i])
  /\ \A i \in 1..Len(s) : IF i = Len(s) THEN s[i].fn # "Resolve" ELSE Called(s[i], s[i + 1])
  /\ s # <<>> /\ s[1].fn = "Resolve" /\ s[1].next = "fetch" =>
       (fail <=> gt[s[1].operand] = Unresolved)

(* The call of SyncGroup that has not stored the rules yet, or is to come. *)
Storing(t) == pc[t] \in {"load", "remove"} \/ In(t, "SyncGroup", "store")

Behind == bootTodo \cup {target[t] : t \in {u \in Threads : Storing(u)}}

(* How far the resolver's rules are those in storage. *)
Follows ==
  /\ \A g \in Groups \ Behind : gc[g] = rules[g]
  /\ boot = "loading" => \A g \in Behind : gc[g] = NoGroup /\ rules[g] # NoGroup
  /\ boot = "serving" =>
       /\ bootTodo = {}
       /\ \A g \in Known(rules) :
            gt[g] # Unresolved \/ \E t \in Threads : pc[t] # "idle" /\ g = target[t]
  /\ \A g \in Known(rules) : Targets(rules[g]) \subseteq Known(rules)

Serves(t) ==
  /\ pc[t] # "resolve" => stack[t] = <<>>
  /\ pc[t] = "remove" => boot = "serving" /\ rules[target[t]] = NoGroup
  /\ pc[t] \in {"load", "resolve"} => rules[target[t]] # NoGroup
  /\ pc[t] # "idle" => target[t] \notin bootTodo
  /\ \A i \in 1..Len(stack[t]) : stack[t][i].fn = "SyncGroup" =>
       stack[t][i].group = target[t] /\ stack[t][i].rules = rules[target[t]]

SInv ==
  /\ Grounded /\ Follows
  /\ \A t \in Threads : Works(stack[t], failed[t]) /\ AllSettled(stack[t]) /\ Serves(t)

(* Calls keep to their place when the innermost of them returns, goes on,  *)
(* or makes another.                                                       *)
LEMMA WorksShape ==
  ASSUME NEW s \in Seq(GoodFrames), s # <<>>, NEW a, Works(s, a), NEW b,
         NEW f, NEW g, NEW r \in Seq(GoodFrames)
  PROVE  /\ Returned(r, s)
            /\ (Len(s) > 1 /\ s[2].fn = "Resolve" => (b <=> gt[s[2].operand] = Unresolved))
              => Works(r, b)
         /\ Continued(r, f, s) /\ Working(f) /\ ~(f.fn = "Resolve" /\ f.next = "fetch")
            /\ (IF Len(s) = 1 THEN f.fn # "Resolve" ELSE Called(f, s[2]))
              => Works(r, b)
         /\ Invoked(r, f, g, s) /\ Working(f) /\ Working(g) /\ g.next # "fetch" /\ Called(g, f)
            /\ (IF Len(s) = 1 THEN f.fn # "Resolve" ELSE Called(f, s[2]))
              => Works(r, b)
<1>0. Len(s) \in Nat \ {0} /\ Len(r) \in Nat /\ (r # <<>> <=> Len(r) > 0)
  BY Shapes
<1>1. /\ \A i \in 1..Len(s) : Working(s[i])
      /\ \A i \in 1..Len(s) : IF i = Len(s) THEN s[i].fn # "Resolve" ELSE Called(s[i], s[i + 1])
  BY DEF Works
<1>2. ASSUME Returned(r, s),
             Len(s) > 1 /\ s[2].fn = "Resolve" => (b <=> gt[s[2].operand] = Unresolved)
      PROVE  Works(r, b)
  <2>1. \A i \in 1..Len(r) : i + 1 \in 1..Len(s) /\ r[i] = s[i + 1]
    BY <1>0, <1>2 DEF Returned
  <2>2. \A i \in 1..Len(r) : Working(r[i])
    BY <1>1, <2>1
  <2>3. ASSUME NEW i \in 1..Len(r)
        PROVE  IF i = Len(r) THEN r[i].fn # "Resolve" ELSE Called(r[i], r[i + 1])
    <3>1. CASE i = Len(r)
      BY <1>0, <1>1, <1>2, <2>1, <3>1 DEF Returned
    <3>2. CASE i # Len(r)
      <4>1. i + 1 \in 1..Len(r) /\ i + 1 # Len(s)
        BY <1>0, <1>2, <3>2 DEF Returned
      <4>2. r[i] = s[i + 1] /\ r[i + 1] = s[(i + 1) + 1] /\ i + 1 \in 1..Len(s)
        BY <2>1, <4>1
      <4> QED
        BY <1>1, <3>2, <4>1, <4>2
    <3> QED
      BY <3>1, <3>2
  <2>4. r # <<>> => Len(s) > 1 /\ r[1] = s[2]
    BY <1>0, <1>2, <2>1 DEF Returned
  <2> QED
    BY <1>2, <2>2, <2>3, <2>4 DEF Works
<1>3. ASSUME Continued(r, f, s), Working(f), ~(f.fn = "Resolve" /\ f.next = "fetch"),
             IF Len(s) = 1 THEN f.fn # "Resolve" ELSE Called(f, s[2])
      PROVE  Works(r, b)
  <2>1. Len(r) = Len(s) /\ r[1] = f /\ \A i \in 2..Len(s) : r[i] = s[i]
    BY <1>3 DEF Continued
  <2>2. ASSUME NEW i \in 1..Len(r)
        PROVE  /\ Working(r[i])
               /\ IF i = Len(r) THEN r[i].fn # "Resolve" ELSE Called(r[i], r[i + 1])
    <3>1. CASE i = 1
      <4>1. Len(s) # 1 => r[2] = s[2]
        BY <1>0, <2>1
      <4> QED
        BY <1>3, <2>1, <3>1, <4>1
    <3>2. CASE i # 1
      <4>1. i \in 2..Len(s) /\ i \in 1..Len(s) /\ (i # Len(s) => i + 1 \in 2..Len(s))
        BY <1>0, <2>1, <3>2
      <4> QED
        BY <1>1, <2>1, <4>1
    <3> QED
      BY <3>1, <3>2
  <2> QED
    BY <1>3, <2>1, <2>2 DEF Works
<1>4. ASSUME Invoked(r, f, g, s), Working(f), Working(g), g.next # "fetch", Called(g, f),
             IF Len(s) = 1 THEN f.fn # "Resolve" ELSE Called(f, s[2])
      PROVE  Works(r, b)
  <2>1. /\ Len(r) = Len(s) + 1 /\ r[1] = g /\ r[2] = f
        /\ \A i \in 3..(Len(s) + 1) : r[i] = s[i - 1]
    BY <1>4 DEF Invoked
  <2>0. IF 2 = Len(r) THEN f.fn # "Resolve" ELSE Called(f, r[2 + 1])
    <3>1. CASE Len(s) = 1
      BY <1>4, <2>1, <3>1
    <3>2. CASE Len(s) # 1
      <4>1. 3 \in 3..(Len(s) + 1) /\ Len(s) + 1 # 2
        <5>1. \A n \in Nat : n # 0 /\ n # 1 => 3 \in 3..(n + 1) /\ n + 1 # 2
          OBVIOUS
        <5> QED
          BY <1>0, <3>2, <5>1
      <4>2. r[3] = s[2]
        BY <2>1, <4>1
      <4> QED
        BY <1>4, <2>1, <3>2, <4>1, <4>2
    <3> QED
      BY <3>1, <3>2
  <2>2. ASSUME NEW i \in 1..Len(r)
        PROVE  /\ Working(r[i])
               /\ IF i = Len(r) THEN r[i].fn # "Resolve" ELSE Called(r[i], r[i + 1])
    <3>1. CASE i = 1
      BY <1>0, <1>4, <2>1, <3>1
    <3>2. CASE i = 2
      BY <1>4, <2>1, <2>0, <3>2
    <3>3. CASE i > 2
      <4>1. /\ i \in 3..(Len(s) + 1) /\ i - 1 \in 1..Len(s)
            /\ i = Len(r) <=> i - 1 = Len(s)
        BY <1>0, <2>1, <3>3
      <4>2. r[i] = s[i - 1]
        BY <2>1, <4>1
      <4>3. ASSUME i # Len(r) PROVE r[i + 1] = s[(i - 1) + 1]
        <5>1. i + 1 \in 3..(Len(s) + 1) /\ (i + 1) - 1 = (i - 1) + 1
          BY <1>0, <2>1, <3>3, <4>3
        <5> QED
          BY <2>1, <5>1
      <4>4. /\ Working(s[i - 1])
            /\ IF i - 1 = Len(s) THEN s[i - 1].fn # "Resolve"
                                 ELSE Called(s[i - 1], s[(i - 1) + 1])
        BY <1>1, <4>1
      <4> QED
        BY <4>1, <4>2, <4>3, <4>4
    <3> QED
      BY <3>1, <3>2, <3>3
  <2> QED
    BY <1>4, <2>1, <2>2 DEF Works
<1> QED
  BY <1>2, <1>3, <1>4

(* What the calls after the step are about to resolve covers what those    *)
(* before it were.                                                         *)
LEMMA CoversShape ==
  ASSUME NEW s \in Seq(GoodFrames), s # <<>>, NEW U,
         NEW f, NEW g, NEW r \in Seq(GoodFrames), Covers(U, r)
  PROVE  /\ Returned(r, s) /\ Covered(U, s[1], 1)
            /\ (Len(s) > 1 /\ s[2].fn = "resolveChanges" /\ s[2].next = "affected" => s[2].group \in U)
              => Covers(U, s)
         /\ Continued(r, f, s) /\ (Covered(U, f, 1) => Covered(U, s[1], 1)) => Covers(U, s)
         /\ Invoked(r, f, g, s) /\ (Covered(U, g, 1) /\ Covered(U, f, 2) => Covered(U, s[1], 1))
              => Covers(U, s)
<1>0. Len(s) \in Nat \ {0} /\ Len(r) \in Nat
  BY Shapes
<1>1. \A i \in 1..Len(r) : Covered(U, r[i], i)
  BY DEF Covers
<1>2. \A c, i, j : Covered(U, c, i) /\ (i > 1 \/ ~(j > 1)) => Covered(U, c, j)
  BY DEF Covered
<1>3. ASSUME Returned(r, s), Covered(U, s[1], 1),
             Len(s) > 1 /\ s[2].fn = "resolveChanges" /\ s[2].next = "affected" => s[2].group \in U
      PROVE  Covers(U, s)
  <2> SUFFICES ASSUME NEW i \in 1..Len(s)
               PROVE  Covered(U, s[i], i)
    BY DEF Covers
  <2>1. CASE i = 1
    BY <1>3, <2>1
  <2>2. CASE i = 2
    <3>1. 1 \in 1..Len(r) /\ r[1] = s[2] /\ Len(s) > 1
      BY <1>0, <1>3, <2>2 DEF Returned
    <3>2. Covered(U, s[2], 1)
      BY <1>1, <3>1
    <3> QED
      BY <1>3, <2>2, <3>1, <3>2 DEF Covered
  <2>3. CASE i > 2
    <3>1. i - 1 \in 1..Len(r) /\ r[i - 1] = s[i] /\ i - 1 > 1
      <4>1. i - 1 \in 1..(Len(s) - 1) /\ (i - 1) + 1 = i /\ i - 1 > 1
        BY <1>0, <2>3
      <4> QED
        BY <1>3, <4>1 DEF Returned
    <3>2. Covered(U, s[i], i - 1)
      BY <1>1, <3>1
    <3> QED
      BY <1>2, <3>1, <3>2
  <2> QED
    BY <2>1, <2>2, <2>3
<1>4. ASSUME Continued(r, f, s), Covered(U, f, 1) => Covered(U, s[1], 1)
      PROVE  Covers(U, s)
  <2> SUFFICES ASSUME NEW i \in 1..Len(s)
               PROVE  Covered(U, s[i], i)
    BY DEF Covers
  <2>1. CASE i = 1
    BY <1>0, <1>1, <1>4, <2>1 DEF Continued
  <2>2. CASE i # 1
    <3>1. i \in 2..Len(s) /\ i \in 1..Len(r)
      BY <1>0, <1>4, <2>2 DEF Continued
    <3> QED
      BY <1>1, <1>4, <3>1 DEF Continued
  <2> QED
    BY <2>1, <2>2
<1>5. ASSUME Invoked(r, f, g, s), Covered(U, g, 1) /\ Covered(U, f, 2) => Covered(U, s[1], 1)
      PROVE  Covers(U, s)
  <2> SUFFICES ASSUME NEW i \in 1..Len(s)
               PROVE  Covered(U, s[i], i)
    BY DEF Covers
  <2>1. CASE i = 1
    <3>1. 1 \in 1..Len(r) /\ 2 \in 1..Len(r) /\ r[1] = g /\ r[2] = f
      BY <1>0, <1>5 DEF Invoked
    <3> QED
      BY <1>1, <1>5, <2>1, <3>1
  <2>2. CASE i # 1
    <3>1. i + 1 \in 1..Len(r) /\ r[i + 1] = s[i]
      <4>1. i + 1 \in 3..(Len(s) + 1) /\ (i + 1) - 1 = i
        BY <1>0, <2>2
      <4> QED
        BY <1>5, <4>1 DEF Invoked
    <3>2. Covered(U, s[i], i + 1)
      BY <1>1, <3>1
    <3> QED
      BY <1>0, <1>2, <2>2, <3>2
  <2> QED
    BY <2>1, <2>2
<1> QED
  BY <1>3, <1>4, <1>5

(* The innermost call, and the one that made it. *)
LEMMA Innermost ==
  ASSUME NEW s \in Seq(GoodFrames), s # <<>>, NEW b, Works(s, b)
  PROVE  /\ Len(s) \in Nat \ {0} /\ s[1] \in GoodFrames /\ Working(s[1])
         /\ IF Len(s) = 1 THEN s[1].fn # "Resolve" ELSE Called(s[1], s[2])
         /\ Len(s) # 1 => s[2] \in GoodFrames /\ Working(s[2]) /\ s[1].fn # "SyncGroup"
<1>1. Len(s) \in Nat \ {0} /\ s[1] \in GoodFrames
  BY Shapes
<1>0. \A n \in Nat \ {0} : 1 \in 1..n /\ (n # 1 => 2 \in 1..n)
  OBVIOUS
<1>4. 1 + 1 = 2
  OBVIOUS
<1>5. /\ \A i \in 1..Len(s) : Working(s[i])
      /\ \A i \in 1..Len(s) : IF i = Len(s) THEN s[i].fn # "Resolve" ELSE Called(s[i], s[i + 1])
  BY DEF Works
<1>2. Working(s[1]) /\ IF Len(s) = 1 THEN s[1].fn # "Resolve" ELSE Called(s[1], s[2])
  <2>1. 1 \in 1..Len(s)
    BY <1>0, <1>1
  <2>2. IF 1 = Len(s) THEN s[1].fn # "Resolve" ELSE Called(s[1], s[1 + 1])
    BY <1>5, <2>1
  <2> QED
    BY <1>4, <1>5, <2>1, <2>2
<1>3. ASSUME Len(s) # 1
      PROVE  s[2] \in GoodFrames /\ Working(s[2]) /\ s[1].fn # "SyncGroup"
  <2>1. 2 \in 1..Len(s)
    BY <1>0, <1>1, <1>3
  <2> QED
    BY <1>2, <1>3, <1>5, <2>1 DEF Called
<1> QED
  BY <1>1, <1>2, <1>3

(* A step that changes none of the resolver's maps. *)
LEMMA MapsUnread ==
  ASSUME UNCHANGED <<gc, gt, ga>>, NEW t \in Threads, Grounded,
         Works(stack'[t], failed'[t]), AllSettled(stack'[t])
  PROVE  Grounded' /\ Works(stack[t], failed[t])' /\ AllSettled(stack[t])'
<1>1. Grounded'
  BY DEF Grounded, Known
<1>2. \A f : Working(f)' <=> Working(f)
  BY DEF Working, Resolving, Built, Known
<1>3. \A f, c : Called(f, c)' <=> Called(f, c)
  BY DEF Called
<1>4. Works(stack[t], failed[t])'
  BY <1>2, <1>3 DEF Works
<1>5. AllSettled(stack[t])'
  <2>1. \A U : Upward(U)' <=> Upward(U)
    BY DEF Upward, Known
  <2>2. \A U, f, i : Covered(U, f, i)' <=> Covered(U, f, i)
    BY DEF Covered
  <2>3. \A g : Settled(g)' <=> Settled(g)
    BY DEF Settled, Built, Known
  <2> QED
    BY <2>1, <2>2, <2>3 DEF AllSettled, Covers
<1> QED
  BY <1>1, <1>4, <1>5

(* A step that goes on with no other call of SyncGroup, and takes nothing  *)
(* away, leaves the resolver's rules as far behind those in storage.       *)
LEMMA StillServes ==
  ASSUME GInv, NEW t \in Threads, Threads = {t}, SInv, ResolverStep(t),
         ~In(t, "SyncGroup", "store"), NEW f, NEW g,
         \/ Return(t)
         \/ Continue(t, f) /\ f.fn # "SyncGroup"
         \/ Invoke(t, f, g) /\ f.fn # "SyncGroup" /\ g.fn # "SyncGroup",
         gc' = gc, \A h \in Groups : gt[h] # Unresolved => gt'[h] # Unresolved
  PROVE  Follows' /\ Serves(t)'
<1> DEFINE s == stack[t]
           r == stack'[t]
<1>0. /\ pc[t] = "resolve" /\ UNCHANGED <<rules, pc, target, boot, bootTodo>> /\ MRStep(t)
      /\ Follows /\ Serves(t) /\ Works(s, failed[t])
  BY DEF ResolverStep, SInv
<1>1. /\ s \in Seq(GoodFrames) /\ s # <<>> /\ Len(s) \in Nat \ {0}
      /\ r \in Seq(GoodFrames) /\ Replaces(t, f, g)
  BY <1>0, StepReplaces DEF Idle
<1> HIDE DEF s, r
<1>2. \A i \in 1..Len(r) : r[i].fn = "SyncGroup" => \E j \in 1..Len(s) : r[i] = s[j]
  <2> TAKE i \in 1..Len(r)
  <2> HAVE r[i].fn = "SyncGroup"
  <2>1. CASE Return(t)
    <3>1. Returned(r, s)
      BY <1>1, <2>1 DEF Replaces, r, s
    <3>2. i + 1 \in 1..Len(s) /\ r[i] = s[i + 1]
      BY <1>1, <3>1 DEF Returned
    <3> QED
      BY <3>2
  <2>2. CASE Continue(t, f) /\ f.fn # "SyncGroup"
    <3>1. Continued(r, f, s)
      BY <1>1, <2>2 DEF Replaces, r, s
    <3>2. i \in 1..Len(s) /\ r[i] = s[i]
      BY <1>1, <2>2, <3>1 DEF Continued
    <3> QED
      BY <3>2
  <2>3. CASE Invoke(t, f, g) /\ f.fn # "SyncGroup" /\ g.fn # "SyncGroup"
    <3>1. Invoked(r, f, g, s)
      BY <1>1, <2>3 DEF Replaces, r, s
    <3>2. i # 1 /\ i # 2
      BY <2>3, <3>1 DEF Invoked
    <3>3. i - 1 \in 1..Len(s) /\ r[i] = s[i - 1]
      BY <1>1, <3>1, <3>2 DEF Invoked
    <3> QED
      BY <3>3
  <2> QED
    BY <2>1, <2>2, <2>3
<1>3. \A i \in 1..Len(r) : r[i].fn = "SyncGroup" =>
        r[i].group = target[t] /\ r[i].rules = rules[target[t]]
  BY <1>0, <1>2 DEF Serves, s
<1>4. ASSUME r # <<>>
      PROVE  ~(Head(r).fn = "SyncGroup" /\ Head(r).next = "store")
  <2>0. Head(r) = r[1] /\ Len(r) \in Nat \ {0}
    BY <1>1, <1>4, Shapes
  <2>1. CASE Return(t)
    <3>1. Returned(r, s)
      BY <1>1, <2>1 DEF Replaces, r, s
    <3>2. r[1] = s[2] /\ Len(s) # 1
      <4>1. 1 \in 1..(Len(s) - 1) /\ 1 + 1 = 2
        BY <1>1, <2>0, <3>1 DEF Returned
      <4> QED
        BY <3>1, <4>1 DEF Returned
    <3>3. Called(s[1], s[2])
      BY <1>0, <1>1, <3>2, Innermost
    <3> QED
      BY <2>0, <3>2, <3>3 DEF Called
  <2>2. CASE Continue(t, f) /\ f.fn # "SyncGroup"
    BY <1>1, <2>0, <2>2 DEF Replaces, Continued, r, s
  <2>3. CASE Invoke(t, f, g) /\ f.fn # "SyncGroup" /\ g.fn # "SyncGroup"
    BY <1>1, <2>0, <2>3 DEF Replaces, Invoked, r, s
  <2> QED
    BY <2>1, <2>2, <2>3
<1>5. ~Storing(t) /\ ~Storing(t)'
  BY <1>0, <1>4 DEF Storing, In, Idle, r
<1>6. Behind' = Behind
  BY <1>0, <1>5 DEF Behind
<1>7. Follows'
  BY <1>0, <1>6 DEF Follows, Known
<1>8. Serves(t)'
  BY <1>0, <1>3 DEF Serves, r
<1> QED
  BY <1>7, <1>8

(* What is known where a thread takes a step of one of the calls. *)
LEMMA AtStep ==
  ASSUME GInv, SInv, NEW t \in Threads, ResolverStep(t)
  PROVE  /\ stack[t] \in Seq(GoodFrames) /\ stack[t] # <<>> /\ stack'[t] \in Seq(GoodFrames)
         /\ Len(stack[t]) \in Nat \ {0}
         /\ Top(t) = stack[t][1] /\ Top(t) \in GoodFrames /\ Top(t) \in Frames
         /\ Top(t).group \in Groups /\ Working(Top(t))
         /\ Works(stack[t], failed[t]) /\ AllSettled(stack[t]) /\ Serves(t) /\ MRStep(t)
         /\ IF Len(stack[t]) = 1 THEN Top(t).fn # "Resolve" ELSE Called(Top(t), stack[t][2])
         /\ \A f, g : Replaces(t, f, g)
<1>1. MRStep(t) /\ Works(stack[t], failed[t]) /\ AllSettled(stack[t]) /\ Serves(t)
  BY DEF ResolverStep, SInv
<1>2. /\ stack[t] \in Seq(GoodFrames) /\ stack[t] # <<>> /\ stack'[t] \in Seq(GoodFrames)
      /\ Top(t) = stack[t][1] /\ Top(t) \in GoodFrames
      /\ \A f, g : Replaces(t, f, g)
  BY <1>1, StepReplaces DEF Idle
<1>3. Top(t) \in Frames /\ Top(t).group \in Groups
  BY <1>2 DEF GoodFrames, Frames
<1> QED
  BY <1>1, <1>2, <1>3, Innermost

(* The invariant from its parts, for the only thread. *)
LEMMA OneThreadKeeps ==
  ASSUME NEW t \in Threads, Threads = {t}, Grounded', Follows', Serves(t)',
         Works(stack[t], failed[t])', AllSettled(stack[t])'
  PROVE  SInv'
BY DEF SInv

(* The steps of resolveChanges. *)
LEMMA ChangesKeep ==
  ASSUME GInv, SInv, NEW t \in Threads, Threads = {t}, ResolverStep(t),
         \/ ChangesResolve(t) \/ ChangesAffected(t) \/ ChangesReturn(t)
         \/ \E g \in Groups : ChangesCascade(t, g)
  PROVE  SInv'
<1> DEFINE s == stack[t]
           r == stack'[t]
           c == Top(t)
<1>0. /\ s \in Seq(GoodFrames) /\ s # <<>> /\ r \in Seq(GoodFrames) /\ Len(s) \in Nat \ {0}
      /\ c = s[1] /\ c \in Frames /\ c.group \in Groups /\ Working(c)
      /\ Works(s, failed[t]) /\ AllSettled(s)
      /\ IF Len(s) = 1 THEN c.fn # "Resolve" ELSE Called(c, s[2])
      /\ \A f, g : Replaces(t, f, g)
  BY AtStep
<1>1. /\ UNCHANGED <<gc, gt, ga, failed>> /\ c.fn = "resolveChanges"
      /\ ~In(t, "SyncGroup", "store")
  BY DEF ChangesResolve, ChangesAffected, ChangesCascade, ChangesReturn, In, Top
<1>2. Len(s) # 1 => s[2].fn = "resolveChanges" /\ s[2].next = "cascade"
  BY <1>0, <1>1 DEF Called
<1> HIDE DEF s, r, c
<1>3. SUFFICES /\ Works(r, failed[t]) /\ \A U : Covers(U, r) => Covers(U, s)
               /\ \E f, g : \/ Return(t)
                            \/ Continue(t, f) /\ f.fn # "SyncGroup"
                            \/ Invoke(t, f, g) /\ f.fn # "SyncGroup" /\ g.fn # "SyncGroup"
  <2>1. AllSettled(r)
    BY <1>0, <1>3 DEF AllSettled
  <2>2. Grounded /\ Works(stack'[t], failed'[t]) /\ AllSettled(stack'[t])
    BY <1>1, <1>3, <2>1 DEF SInv, r
  <2>3. Grounded' /\ Works(stack[t], failed[t])' /\ AllSettled(stack[t])'
    BY <1>1, <2>2, MapsUnread
  <2>4. Follows' /\ Serves(t)'
    BY <1>1, <1>3, StillServes
  <2> QED
    BY <2>3, <2>4, OneThreadKeeps
<1>4. CASE ChangesResolve(t)
  <2> DEFINE f == [c EXCEPT !.next = "affected"]
             g == ResolveFrame(c.group)
  <2>1. Invoke(t, f, g) /\ c.next = "resolve"
    BY <1>4 DEF ChangesResolve, c, In, Top
  <2>2. /\ f.fn = "resolveChanges" /\ f.next = "affected" /\ f.group = c.group
        /\ f.visited = c.visited /\ c.visited = {}
    BY <1>0, <1>1, <2>1 DEF Frames, Working
  <2>3. g.fn = "Resolve" /\ g.next = "lookup" /\ g.group = c.group
    BY DEF ResolveFrame, Frame
  <2> HIDE DEF f, g
  <2>4. Invoked(r, f, g, s)
    BY <1>0, <2>1 DEF Replaces, r, s
  <2>5. Working(f) /\ Working(g) /\ Called(g, f) /\ (Len(s) # 1 => Called(f, s[2]))
    BY <1>2, <2>2, <2>3 DEF Working, Called
  <2>6. Works(r, failed[t])
    BY <1>0, <2>2, <2>3, <2>4, <2>5, WorksShape
  <2>7. ASSUME NEW U, Covers(U, r) PROVE Covers(U, s)
    <3>1. Covered(U, f, 2) => Covered(U, c, 1)
      BY <1>1, <2>1, <2>2 DEF Covered
    <3> QED
      BY <1>0, <2>4, <2>7, <3>1, CoversShape
  <2> QED
    BY <2>1, <2>2, <2>3, <2>6, <2>7
<1>5. CASE ChangesAffected(t)
  <2> DEFINE f == [c EXCEPT !.cascade = ga[c.group], !.next = "cascade"]
  <2>1. Continue(t, f) /\ c.next = "affected"
    BY <1>5 DEF ChangesAffected, c, In, Top
  <2>2. /\ f.fn = "resolveChanges" /\ f.next = "cascade" /\ f.group = c.group
        /\ f.visited = c.visited /\ f.cascade = ga[c.group]
    BY <1>0, <1>1 DEF Frames
  <2> HIDE DEF f
  <2>4. Continued(r, f, s)
    BY <1>0, <2>1 DEF Replaces, r, s
  <2>5. Working(f) /\ (Len(s) # 1 => Called(f, s[2]))
    BY <1>2, <2>2 DEF Working, Called
  <2>6. Works(r, failed[t])
    BY <1>0, <2>2, <2>4, <2>5, WorksShape
  <2>7. ASSUME NEW U, Covers(U, r) PROVE Covers(U, s)
    <3>1. Covered(U, f, 1) => Covered(U, c, 1)
      BY <1>1, <2>1, <2>2 DEF Covered
    <3> QED
      BY <1>0, <2>4, <2>7, <3>1, CoversShape
  <2> QED
    BY <2>1, <2>2, <2>6, <2>7
<1>6. ASSUME NEW h \in Groups, ChangesCascade(t, h)
      PROVE  /\ Works(r, failed[t]) /\ \A U : Covers(U, r) => Covers(U, s)
             /\ \E f, g : Invoke(t, f, g) /\ f.fn # "SyncGroup" /\ g.fn # "SyncGroup"
  <2> DEFINE f == [c EXCEPT !.visited = @ \cup {h}]
             g == ChangesFrame(h)
  <2>1. Invoke(t, f, g) /\ c.next = "cascade"
    BY <1>6 DEF ChangesCascade, c, In, Top
  <2>2. /\ f.fn = "resolveChanges" /\ f.next = "cascade" /\ f.group = c.group
        /\ f.visited = c.visited \cup {h} /\ f.cascade = ga[c.group]
    BY <1>0, <1>1, <2>1 DEF Frames, Working
  <2>3. g.fn = "resolveChanges" /\ g.next = "resolve" /\ g.group = h /\ g.visited = {}
    BY DEF ChangesFrame, Frame
  <2> HIDE DEF f, g
  <2>4. Invoked(r, f, g, s)
    BY <1>0, <2>1 DEF Replaces, r, s
  <2>5. Working(f) /\ Working(g) /\ Called(g, f) /\ (Len(s) # 1 => Called(f, s[2]))
    BY <1>2, <2>2, <2>3 DEF Working, Called
  <2>6. Works(r, failed[t])
    BY <1>0, <2>2, <2>3, <2>4, <2>5, WorksShape
  <2>7. ASSUME NEW U, Covers(U, r) PROVE Covers(U, s)
    <3>1. Covered(U, g, 1) /\ Covered(U, f, 2) => Covered(U, c, 1)
      BY <1>1, <2>1, <2>2, <2>3 DEF Covered
    <3> QED
      BY <1>0, <2>4, <2>7, <3>1, CoversShape
  <2> QED
    BY <2>1, <2>2, <2>3, <2>6, <2>7
<1>7. CASE ChangesReturn(t)
  <2>1. Return(t) /\ c.next = "cascade" /\ c.cascade \cap ga[c.group] \subseteq c.visited
    BY <1>7 DEF ChangesReturn, c, In, Top
  <2>2. Returned(r, s)
    BY <1>0, <2>1 DEF Replaces, r, s
  <2>3. ga[c.group] \ c.visited = {}
    BY <1>0, <1>1, <2>1 DEF Working
  <2>4. Works(r, failed[t])
    <3>1. ~(Len(s) > 1 /\ s[2].fn = "Resolve")
      BY <1>0, <1>2
    <3> QED
      BY <1>0, <2>2, <3>1, WorksShape, Zenon
  <2>5. ASSUME NEW U, Covers(U, r) PROVE Covers(U, s)
    <3>1. Covered(U, c, 1)
      BY <1>1, <2>1, <2>3 DEF Covered
    <3> QED
      BY <1>0, <1>2, <2>2, <2>5, <3>1, CoversShape
  <2> QED
    BY <2>1, <2>4, <2>5
<1> QED
  BY <1>4, <1>5, <1>6, <1>7

(* One more target in what is built. *)
LEMMA BuiltGrows ==
  \A g, a, b, x : /\ Built(g, a \cup {x}, {}) = Built(g, a, {}) \cup gt[x]
                  /\ Built(g, a, b \cup {x}) = Built(g, a, b) \ gt[x]
<1> TAKE g, a, b, x
<1>1. \A c : UNION {gt[y] : y \in c \cup {x}} = (UNION {gt[y] : y \in c}) \cup gt[x]
  OBVIOUS
<1>2. UNION {gt[y] : y \in {}} = {}
  OBVIOUS
<1> QED
  BY <1>1, <1>2 DEF Built

(* The call that has combined one more operand with what it built. *)
LEMMA CombinedWorks ==
  ASSUME GInv, NEW c \in GoodFrames, c.fn = "Resolve", Resolving(c),
         NEW x \in Groups, x \in NextOperands(c), gt[x] # Unresolved, NEW d, d = Combined(c, x, gt[x])
  PROVE  Working(d) /\ d.fn = "Resolve" /\ d.group = c.group /\ d.next = "operand"
<1> DEFINE r == gc[c.group]
<1>1. /\ c \in Frames /\ c.group \in Groups /\ c.rules \in Rules /\ gt[x] \in Expressions
      /\ r \in Rules
  BY GroupsAssumption DEF GInv, TypeOK, MRTypeOK, GoodFrames, Frames, RuleMap, Resolving, Known
<1>2. IsCombined(d, c, x, gt[x])
  BY <1>1, CombinedIs
<1>3. d.fn = "Resolve" /\ d.group = c.group /\ d.next = "operand" /\ d.expr \in Expressions
  BY <1>2 DEF IsCombined, Frames
<1>4. /\ c.group \in Known(gc)
      /\ c.rules.inc \subseteq r.inc /\ c.rules.exc \subseteq r.exc
      /\ c.rules.inc # {} => c.rules.exc = r.exc
      /\ \A y \in (r.inc \ c.rules.inc) \cup (r.exc \ c.rules.exc) : gt[y] # Unresolved
      /\ c.expr = Built(c.group, r.inc \ c.rules.inc, r.exc \ c.rules.exc)
  BY DEF Resolving
<1> HIDE DEF r
<1>6. \A a : Built(c.group, a \cup {x}, {}) = Built(c.group, a, {}) \cup gt[x]
  BY BuiltGrows
<1>7. \A a, b : Built(c.group, a, b \cup {x}) = Built(c.group, a, b) \ gt[x]
  BY BuiltGrows
<1>5. Resolving(d)
  <2>1. CASE c.rules.inc # {}
    <3>1. /\ x \in c.rules.inc /\ x \in r.inc
          /\ d.rules = [inc |-> c.rules.inc \ {x}, exc |-> c.rules.exc]
          /\ d.expr = c.expr \cup gt[x]
      BY <1>2, <1>4, <2>1 DEF NextOperands, IsCombined
    <3>2. d.rules.inc = c.rules.inc \ {x} /\ d.rules.exc = c.rules.exc
      BY <3>1
    <3>3. /\ r.inc \ d.rules.inc = (r.inc \ c.rules.inc) \cup {x}
          /\ r.exc \ d.rules.exc = {} /\ r.exc \ c.rules.exc = {}
      BY <1>4, <2>1, <3>1, <3>2
    <3>4. d.expr = Built(d.group, r.inc \ d.rules.inc, r.exc \ d.rules.exc)
      <4>1. Built(c.group, (r.inc \ c.rules.inc) \cup {x}, {})
              = Built(c.group, r.inc \ c.rules.inc, {}) \cup gt[x]
        BY <1>6, <1>7, Zenon
      <4>2. c.expr = Built(c.group, r.inc \ c.rules.inc, {})
        BY <1>4, <3>3, Zenon
      <4> QED
        BY <1>3, <3>1, <3>3, <4>1, <4>2, Zenon
    <3> QED
      BY <1>3, <1>4, <2>1, <3>1, <3>2, <3>3, <3>4 DEF Resolving, r
  <2>2. CASE c.rules.inc = {}
    <3>1. /\ x \in c.rules.exc /\ x \in r.exc
          /\ d.rules = [inc |-> c.rules.inc, exc |-> c.rules.exc \ {x}]
          /\ d.expr = c.expr \ gt[x]
      BY <1>2, <1>4, <2>2 DEF NextOperands, IsCombined
    <3>2. d.rules.inc = {} /\ d.rules.exc = c.rules.exc \ {x}
      BY <2>2, <3>1
    <3>3. /\ r.exc \ d.rules.exc = (r.exc \ c.rules.exc) \cup {x}
          /\ r.inc \ d.rules.inc = r.inc \ c.rules.inc
      BY <1>4, <2>2, <3>1, <3>2
    <3>4. d.expr = Built(d.group, r.inc \ d.rules.inc, r.exc \ d.rules.exc)
      <4>1. Built(c.group, r.inc \ c.rules.inc, (r.exc \ c.rules.exc) \cup {x})
              = Built(c.group, r.inc \ c.rules.inc, r.exc \ c.rules.exc) \ gt[x]
        BY <1>6, <1>7, Zenon
      <4> QED
        BY <1>3, <1>4, <3>1, <3>3, <4>1, Zenon
    <3> QED
      BY <1>3, <1>4, <2>2, <3>1, <3>2, <3>3, <3>4 DEF Resolving, r
  <2> QED
    BY <2>1, <2>2
<1> QED
  BY <1>3, <1>5 DEF Working

(* Resolve goes on with its next operand. *)
LEMMA ResolveGoesOn ==
  ASSUME GInv, SInv, NEW t \in Threads, Threads = {t}, ResolverStep(t), Top(t).fn = "Resolve",
         UNCHANGED <<gc, gt, ga, failed>>, NEW f, Continue(t, f), Working(f),
         f.fn = "Resolve", f.group = Top(t).group, f.next = "operand"
  PROVE  SInv'
<1> DEFINE s == stack[t]
           r == stack'[t]
           c == Top(t)
<1>0. /\ s \in Seq(GoodFrames) /\ s # <<>> /\ r \in Seq(GoodFrames) /\ Len(s) \in Nat \ {0}
      /\ c = s[1] /\ Works(s, failed[t]) /\ AllSettled(s)
      /\ IF Len(s) = 1 THEN c.fn # "Resolve" ELSE Called(c, s[2])
      /\ Replaces(t, f, f)
  BY AtStep
<1>1. ~In(t, "SyncGroup", "store")
  BY DEF In, Top
<1>2. Continued(r, f, s)
  BY <1>0 DEF Replaces
<1>3. Len(s) # 1 /\ Called(f, s[2])
  BY <1>0 DEF Called
<1>4. Works(r, failed[t])
  <2> HIDE DEF s, r, c
  <2> QED
    BY <1>0, <1>2, <1>3, WorksShape
<1>5. ASSUME NEW U, Covers(U, r) PROVE Covers(U, s)
  <2>1. Covered(U, s[1], 1)
    BY <1>0 DEF Covered
  <2> HIDE DEF s, r, c
  <2> QED
    BY <1>0, <1>2, <1>5, <2>1, CoversShape
<1>6. AllSettled(r)
  BY <1>0, <1>5 DEF AllSettled
<1>7. Grounded' /\ Works(stack[t], failed[t])' /\ AllSettled(stack[t])'
  BY <1>4, <1>6, MapsUnread DEF SInv
<1>8. Follows' /\ Serves(t)'
  BY <1>1, StillServes
<1> QED
  BY <1>7, <1>8, OneThreadKeeps

(* It makes another call for an operand that is not resolved. *)
LEMMA ResolveCalls ==
  ASSUME GInv, SInv, NEW t \in Threads, Threads = {t}, ResolverStep(t), Top(t).fn = "Resolve",
         UNCHANGED <<gc, gt, ga, failed>>, NEW x \in NextOperands(Top(t)), gt[x] = Unresolved,
         Top(t).next = "operand",
         Invoke(t, [Top(t) EXCEPT !.operand = x, !.next = "fetch"], ResolveFrame(x))
  PROVE  SInv'
<1> DEFINE s == stack[t]
           r == stack'[t]
           c == Top(t)
           f == [c EXCEPT !.operand = x, !.next = "fetch"]
           g == ResolveFrame(x)
<1>0. /\ s \in Seq(GoodFrames) /\ s # <<>> /\ r \in Seq(GoodFrames) /\ Len(s) \in Nat \ {0}
      /\ c = s[1] /\ c \in Frames /\ Working(c) /\ Works(s, failed[t]) /\ AllSettled(s)
      /\ IF Len(s) = 1 THEN c.fn # "Resolve" ELSE Called(c, s[2])
      /\ Replaces(t, f, g)
  BY AtStep
<1>1. ~In(t, "SyncGroup", "store")
  BY DEF In, Top
<1>2. Invoked(r, f, g, s)
  BY <1>0 DEF Replaces
<1>3. /\ f.fn = "Resolve" /\ f.next = "fetch" /\ f.group = c.group /\ f.operand = x
      /\ f.rules = c.rules /\ f.expr = c.expr
  BY <1>0 DEF Frames
<1>4. g.fn = "Resolve" /\ g.next = "lookup" /\ g.group = x
  BY DEF ResolveFrame, Frame
<1> HIDE DEF f, g
<1>5. Len(s) # 1 /\ Called(f, s[2]) /\ Called(g, f)
  BY <1>0, <1>3, <1>4 DEF Called
<1>6. Working(f) /\ Working(g)
  <2>1. Resolving(c) /\ x \in NextOperands(c)
    BY <1>0 DEF Working
  <2> QED
    BY <1>3, <1>4, <2>1 DEF Working, Resolving, NextOperands
<1>7. Works(r, failed[t])
  <2> HIDE DEF s, r, c
  <2> QED
    BY <1>0, <1>2, <1>4, <1>5, <1>6, WorksShape
<1>8. ASSUME NEW U, Covers(U, r) PROVE Covers(U, s)
  <2>1. Covered(U, s[1], 1)
    BY <1>0 DEF Covered
  <2> HIDE DEF s, r, c
  <2> QED
    BY <1>0, <1>2, <1>8, <2>1, CoversShape
<1>9. AllSettled(r)
  BY <1>0, <1>8 DEF AllSettled
<1>10. Grounded' /\ Works(stack[t], failed[t])' /\ AllSettled(stack[t])'
  BY <1>7, <1>9, MapsUnread DEF SInv
<1>11. Follows' /\ Serves(t)'
  BY <1>1, <1>3, <1>4, StillServes DEF f, g
<1> QED
  BY <1>10, <1>11, OneThreadKeeps

(* A call of Resolve that returns to one of SyncGroup or resolveChanges    *)
(* may have been the only one to resolve its group; but those above the    *)
(* group are going to be resolved still.                                   *)
LEMMA ReturnCovers ==
  ASSUME GInv, LInv, SInv, NEW rank, LeadsDown(rank), AllNested(rank),
         NEW t \in Threads, Threads = {t}, ResolverStep(t), Top(t).fn = "Resolve", Return(t),
         NEW U \in SUBSET Groups, Upward(U), Covers(U, stack'[t])
  PROVE  \E V \in SUBSET Groups :
           /\ Upward(V) /\ Covers(V, stack[t]) /\ V \subseteq U \cup {Top(t).group}
           /\ Top(t).group \in V \/ gt[Top(t).group] = Unresolved
<1> DEFINE s == stack[t]
           r == stack'[t]
           g == Top(t).group
<1>0. /\ s \in Seq(GoodFrames) /\ s # <<>> /\ r \in Seq(GoodFrames) /\ Len(s) \in Nat \ {0}
      /\ Top(t) = s[1] /\ s[1].fn = "Resolve" /\ g \in Groups /\ Works(s, failed[t])
      /\ Len(s) # 1 /\ Called(Top(t), s[2]) /\ Replaces(t, s, s)
  BY AtStep
<1>1. Returned(r, s) /\ Working(s[2]) /\ s[2] \in GoodFrames
  BY <1>0, Innermost DEF Replaces
<1>3. \A V : Covered(V, s[1], 1)
  BY <1>0 DEF Covered
<1> HIDE DEF s, r
<1>2. Covered(U, s[2], 1)
  <2> DEFINE n == Len(s)
  <2>0. n \in Nat /\ n # 0 /\ n # 1
    BY <1>0
  <2> HIDE DEF n
  <2>4. 1 \in 1..(n - 1)
    BY <2>0
  <2>1. 1 \in 1..(Len(s) - 1)
    BY <2>4 DEF n
  <2>2. 1 + 1 = 2
    OBVIOUS
  <2>3. 1 \in 1..Len(r) /\ r[1] = s[1 + 1]
    BY <1>1, <2>1 DEF Returned
  <2> QED
    BY <2>2, <2>3 DEF Covers, r
<1>4. CASE ~(s[2].fn = "resolveChanges" /\ s[2].next = "affected")
  <2>1. Covers(U, s)
    BY <1>0, <1>1, <1>3, <1>4, CoversShape DEF r
  <2>2. g \in U \/ gt[g] = Unresolved
    BY <1>0, <1>2, <1>4 DEF Called, Covered
  <2> QED
    BY <2>1, <2>2 DEF s
<1>5. CASE s[2].fn = "resolveChanges" /\ s[2].next = "affected"
  <2> DEFINE V == U \cup {g}
  <2>1. s[2].group = g /\ s[2].visited = {} /\ ga[g] \subseteq U
    BY <1>0, <1>1, <1>2, <1>5 DEF Called, Covered, Working
  <2>2. \A i \in 1..Len(s) : s[i].fn # "SyncGroup"
    <3> TAKE i \in 1..Len(s)
    <3>1. CASE i = 1 \/ i = 2
      BY <1>0, <1>5, <3>1
    <3>2. CASE i # 1 /\ i # 2
      <4>1. 2 \in 1..Len(s) /\ 2 < i
        BY <1>0, <3>2
      <4>2. Within(rank, s[2], s[i])
        BY <4>1 DEF AllNested, Nested, s
      <4> QED
        BY <1>5, <4>2 DEF Within
    <3> QED
      BY <3>1, <3>2
  <2>3. \A h, x : ~Linking(h, x, s)
    BY <2>2 DEF Linking
  <2>4. Upward(V)
    <3> SUFFICES ASSUME NEW h \in Known(gc), NEW x \in Targets(gc[h]), x \in V
                 PROVE  h \in V
      BY DEF Upward
    <3>1. CASE x \in U
      BY <3>1 DEF Upward
    <3>2. CASE x = g
      <4>1. h \in ga[g]
        BY <1>0, <2>3, <3>2 DEF LInv, Bound, Known, s
      <4> QED
        BY <2>1, <4>1
    <3> QED
      BY <3>1, <3>2
  <2>5. Covers(V, r)
    <3>1. \A f, i : Covered(U, f, i) => Covered(V, f, i)
      BY DEF Covered
    <3> QED
      BY <3>1 DEF Covers, r
  <2>6. Covers(V, s)
    <3>1. s[2].group \in V
      BY <2>1
    <3> HIDE DEF V
    <3> QED
      BY <1>0, <1>1, <1>3, <2>5, <3>1, CoversShape
  <2>7. V \in SUBSET Groups
    BY <1>0
  <2> QED
    BY <2>4, <2>6, <2>7 DEF s
<1> QED
  BY <1>4, <1>5

(* A call of Resolve that fails has nothing to write. *)
LEMMA ResolveFails ==
  ASSUME GInv, LInv, SInv, NEW rank, LeadsDown(rank), AllNested(rank),
         NEW t \in Threads, Threads = {t}, ResolverStep(t), Top(t).fn = "Resolve", Return(t),
         UNCHANGED <<gc, gt, ga>>, failed'[t], Settled(Top(t).group)
  PROVE  SInv'
<1> DEFINE s == stack[t]
           r == stack'[t]
           g == Top(t).group
<1>0. /\ s \in Seq(GoodFrames) /\ s # <<>> /\ r \in Seq(GoodFrames) /\ Len(s) \in Nat \ {0}
      /\ Top(t) = s[1] /\ s[1].fn = "Resolve" /\ Works(s, failed[t])
      /\ Called(Top(t), s[2]) /\ Replaces(t, s, s) /\ AllSettled(s)
  BY AtStep
<1>1. ~In(t, "SyncGroup", "store")
  BY DEF In, Top
<1>2. Returned(r, s)
  BY <1>0 DEF Replaces
<1>3. Works(r, failed'[t])
  <2>1. s[2].fn = "Resolve" => gt[s[2].operand] = Unresolved
    BY <1>0 DEF Called
  <2>2. Len(s) > 1 /\ s[2].fn = "Resolve" => (failed'[t] <=> gt[s[2].operand] = Unresolved)
    BY <2>1
  <2> HIDE DEF s, r
  <2> QED
    BY <1>0, <1>2, <2>2, WorksShape
<1>4. AllSettled(r)
  <2> SUFFICES ASSUME NEW U \in SUBSET Groups, Upward(U), Covers(U, r), NEW h \in Groups \ U
               PROVE  Settled(h)
    BY DEF AllSettled
  <2>1. PICK V \in SUBSET Groups : Upward(V) /\ Covers(V, s) /\ V \subseteq U \cup {g}
    BY ReturnCovers
  <2>2. CASE h = g
    BY <2>2
  <2>3. CASE h # g
    BY <1>0, <2>1, <2>3 DEF AllSettled
  <2> QED
    BY <2>2, <2>3
<1>5. Grounded' /\ Works(stack[t], failed[t])' /\ AllSettled(stack[t])'
  BY <1>3, <1>4, MapsUnread DEF SInv
<1>6. Follows' /\ Serves(t)'
  BY <1>1, StillServes
<1> QED
  BY <1>5, <1>6, OneThreadKeeps

(* The steps of Resolve that read. *)
LEMMA ResolveReads ==
  ASSUME GInv, LInv, SInv, NEW rank, LeadsDown(rank), AllNested(rank),
         NEW t \in Threads, Threads = {t}, ResolverStep(t),
         ResolveLookup(t) \/ (\E x \in Groups : ResolveOperand(t, x)) \/ ResolveFetch(t)
  PROVE  SInv'
<1> DEFINE c == Top(t)
           g == c.group
<1>0. /\ c \in GoodFrames /\ c \in Frames /\ g \in Groups /\ Working(c)
      /\ UNCHANGED <<gc, gt, ga>> /\ c.fn = "Resolve"
  BY AtStep DEF ResolveLookup, ResolveOperand, ResolveFetch, In, Top
<1>1. CASE ResolveLookup(t)
  <2>1. CASE gc[g] = NoGroup
    <3>1. Return(t) /\ failed'[t]
      BY <1>1, <2>1 DEF ResolveLookup, GInv, TypeOK, MRTypeOK
    <3>2. Settled(g)
      BY <2>1 DEF Settled, Known
    <3> QED
      BY <1>0, <3>1, <3>2, ResolveFails
  <2>2. CASE gc[g] # NoGroup
    <3> DEFINE f == [c EXCEPT !.rules = gc[g], !.expr = Self(g), !.next = "operand"]
    <3>1. Continue(t, f) /\ UNCHANGED failed
      BY <1>1, <2>2 DEF ResolveLookup
    <3>2. /\ f.fn = "Resolve" /\ f.next = "operand" /\ f.group = g
          /\ f.rules = gc[g] /\ f.expr = Self(g)
      BY <1>0 DEF Frames
    <3> HIDE DEF f
    <3>3. Resolving(f)
      <4>1. Built(g, {}, {}) = Self(g)
        <5>1. UNION {gt[x] : x \in {}} = {}
          OBVIOUS
        <5> QED
          BY <5>1 DEF Built
      <4>2. \A a : a \ a = {}
        OBVIOUS
      <4> QED
        BY <1>0, <2>2, <3>2, <4>1, <4>2 DEF Resolving, Known
    <3>4. Working(f)
      BY <3>2, <3>3 DEF Working
    <3> QED
      BY <1>0, <3>1, <3>2, <3>4, ResolveGoesOn
  <2> QED
    BY <2>1, <2>2
<1>2. ASSUME NEW x \in Groups, ResolveOperand(t, x)
      PROVE  SInv'
  <2>1. UNCHANGED failed /\ x \in NextOperands(c) /\ c.next = "operand"
    BY <1>2 DEF ResolveOperand, In, Top
  <2>2. Resolving(c)
    BY <1>0, <2>1 DEF Working
  <2>3. CASE gt[x] # Unresolved
    <3> DEFINE d == Combined(c, x, gt[x])
    <3>1. Continue(t, d)
      BY <1>2, <2>3 DEF ResolveOperand
    <3>2. Working(d) /\ d.fn = "Resolve" /\ d.group = g /\ d.next = "operand"
      BY <1>0, <2>1, <2>2, <2>3, CombinedWorks
    <3> HIDE DEF d
    <3> QED
      BY <1>0, <2>1, <3>1, <3>2, ResolveGoesOn
  <2>4. CASE gt[x] = Unresolved
    <3>1. Invoke(t, [c EXCEPT !.operand = x, !.next = "fetch"], ResolveFrame(x))
      BY <1>2, <2>4 DEF ResolveOperand
    <3> QED
      BY <1>0, <2>1, <2>4, <3>1, ResolveCalls
  <2> QED
    BY <2>3, <2>4
<1>3. CASE ResolveFetch(t)
  <2> DEFINE x == c.operand
  <2>1. UNCHANGED failed /\ c.next = "fetch"
    BY <1>3 DEF ResolveFetch, In, Top
  <2>2. Resolving(c) /\ x \in NextOperands(c) /\ x \in Groups
    BY <1>0, <2>1 DEF Working, Frames
  <2>3. failed[t] <=> gt[x] = Unresolved
    <3>1. Works(stack[t], failed[t]) /\ stack[t] # <<>> /\ c = stack[t][1]
      BY AtStep
    <3> QED
      BY <1>0, <2>1, <3>1 DEF Works
  <2>4. CASE failed[t]
    <3>1. Return(t)
      BY <1>3, <2>4 DEF ResolveFetch
    <3>2. x \in Targets(gc[g]) /\ gt[x] = Unresolved
      BY <2>2, <2>3, <2>4 DEF NextOperands, Resolving, Targets
    <3>3. Settled(g)
      BY <3>2 DEF Settled
    <3> QED
      BY <1>0, <2>1, <2>4, <3>1, <3>3, ResolveFails
  <2>5. CASE ~failed[t]
    <3> DEFINE d == Combined(c, x, gt[x])
    <3>1. Continue(t, d)
      BY <1>3, <2>3, <2>5 DEF ResolveFetch
    <3>2. Working(d) /\ d.fn = "Resolve" /\ d.group = g /\ d.next = "operand"
      BY <1>0, <2>2, <2>3, <2>5, CombinedWorks
    <3> HIDE DEF d
    <3> QED
      BY <1>0, <2>1, <3>1, <3>2, ResolveGoesOn
  <2> QED
    BY <2>4, <2>5
<1> QED
  BY <1>1, <1>2, <1>3

(* What is built from expressions is one. *)
LEMMA BuiltType ==
  ASSUME GInv, NEW g \in Groups, NEW a \in SUBSET Groups, NEW b,
         \A x \in a : gt[x] # Unresolved
  PROVE  Built(g, a, b) \in Expressions /\ Built(g, a, b) # Unresolved
<1>1. \A x \in a : gt[x] \in SUBSET (SUBSET Groups)
  BY DEF GInv, TypeOK, MRTypeOK, Expressions
<1>2. UNION {gt[x] : x \in a} \subseteq SUBSET Groups
  BY <1>1
<1>3. Self(g) \subseteq SUBSET Groups
  BY DEF Self
<1>4. Built(g, a, b) \in Expressions
  BY <1>2, <1>3 DEF Built, Expressions
<1> QED
  BY <1>4, UnresolvedAssumption

(* What is built does not depend on a group that is not among the targets. *)
LEMMA BuiltElsewhere ==
  ASSUME NEW k, \A x \in Groups : x # k => gt'[x] = gt[x],
         NEW g, NEW a \in SUBSET Groups, NEW b \in SUBSET Groups, k \notin a, k \notin b
  PROVE  Built(g, a, b)' = Built(g, a, b)
<1>1. {gt'[x] : x \in a} = {gt[x] : x \in a} /\ {gt'[x] : x \in b} = {gt[x] : x \in b}
  OBVIOUS
<1> QED
  BY <1>1 DEF Built

(* If rules lead down, no group is its own target. *)
LEMMA NotOwnTarget ==
  ASSUME GInv, NEW rank, LeadsDown(rank), NEW m, m = gc \/ m = rules,
         NEW h \in Known(m)
  PROVE  h \notin Targets(m[h])
<1>1. \A x \in Targets(m[h]) : <<h, x>> \in Edges
  BY DEF GInv, Permitted
<1>2. h \in Groups /\ rank[h] \in Nat
  BY DEF Known, LeadsDown
<1>3. ASSUME <<h, h>> \in Edges PROVE FALSE
  <2>1. <<h, h>>[1] = h /\ <<h, h>>[2] = h
    OBVIOUS
  <2>2. rank[h] < rank[h]
    BY <1>3, <2>1 DEF LeadsDown
  <2> QED
    BY <1>2, <2>2
<1> QED
  BY <1>1, <1>3

(* The expression of a group that is not a target is of no account. *)
LEMMA SettledElsewhere ==
  ASSUME GInv, NEW k, \A x \in Groups : x # k => gt'[x] = gt[x],
         NEW h \in Groups, h # k, gc'[h] = gc[h], h \in Known(gc) => k \notin Targets(gc[h]), Settled(h)
  PROVE  Settled(h)'
<1> SUFFICES ASSUME h \in Known(gc), \A x \in Targets(gc[h]) : gt'[x] # Unresolved
             PROVE  gt'[h] = Built(h, gc[h].inc, gc[h].exc)'
  BY DEF Settled, Known
<1>1. gc[h].inc \in SUBSET Groups /\ gc[h].exc \in SUBSET Groups
  BY DEF GInv, TypeOK, MRTypeOK, RuleMap, Known, Rules
<1>2. k \notin gc[h].inc /\ k \notin gc[h].exc
  BY DEF Targets
<1>3. Built(h, gc[h].inc, gc[h].exc)' = Built(h, gc[h].inc, gc[h].exc)
  BY <1>1, <1>2, BuiltElsewhere
<1>4. \A x \in Targets(gc[h]) : gt[x] # Unresolved
  BY <1>1, <1>2 DEF Targets
<1> QED
  BY <1>3, <1>4 DEF Settled

(* What a call has built so far does not depend on it either. *)
LEMMA ResolvingKept ==
  ASSUME GInv, UNCHANGED gc, NEW k, gt[k] = Unresolved,
         \A x \in Groups : x # k => gt'[x] = gt[x],
         \A x \in Groups : gt[x] # Unresolved => gt'[x] # Unresolved,
         NEW q, Resolving(q)
  PROVE  Resolving(q)'
<1> SUFFICES ASSUME NEW m, m = gc[q.group], NEW a, a = m.inc \ q.rules.inc,
                    NEW b, b = m.exc \ q.rules.exc
             PROVE  Resolving(q)'
  OBVIOUS
<1>1. q.group \in Known(gc) /\ m.inc \in SUBSET Groups /\ m.exc \in SUBSET Groups
  BY DEF Resolving, GInv, TypeOK, MRTypeOK, RuleMap, Known, Rules
<1>2. (\A x \in a \cup b : gt[x] # Unresolved) /\ q.expr = Built(q.group, a, b)
  BY DEF Resolving
<1>3. a \in SUBSET Groups /\ b \in SUBSET Groups /\ k \notin a /\ k \notin b
  BY <1>1, <1>2
<1>4. Built(q.group, a, b)' = Built(q.group, a, b)
  BY <1>3, BuiltElsewhere
<1>5. \A x \in a \cup b : gt'[x] # Unresolved
  BY <1>2, <1>3
<1> QED
  BY <1>1, <1>2, <1>4, <1>5 DEF Resolving, Known

(* The last step of Resolve: the group has its expression, and the calls   *)
(* below build on it, or on what they built on before.                     *)
LEMMA ResolveWrites ==
  ASSUME GInv, LInv, SInv, NEW rank, LeadsDown(rank), AllNested(rank),
         NEW t \in Threads, Threads = {t}, ResolverStep(t), ResolveWrite(t)
  PROVE  SInv'
<1> SUFFICES ASSUME NEW s, s = stack[t], NEW r, r = stack'[t],
                    NEW g, g = Top(t).group, NEW e, e = Top(t).expr
             PROVE  SInv'
  OBVIOUS
<1>0. /\ s \in Seq(GoodFrames) /\ s # <<>> /\ r \in Seq(GoodFrames) /\ Len(s) \in Nat \ {0}
      /\ Top(t) = s[1] /\ Top(t) \in Frames /\ g \in Groups /\ Works(s, failed[t]) /\ AllSettled(s)
      /\ Working(Top(t)) /\ Replaces(t, s, s)
      /\ IF Len(s) = 1 THEN Top(t).fn # "Resolve" ELSE Called(Top(t), s[2])
  BY AtStep
<1>1. /\ Top(t).fn = "Resolve" /\ Top(t).next = "operand" /\ Targets(Top(t).rules) = {}
      /\ gt' = [gt EXCEPT ![g] = e] /\ failed' = [failed EXCEPT ![t] = FALSE]
      /\ Return(t) /\ UNCHANGED <<gc, ga>> /\ ~In(t, "SyncGroup", "store")
  BY DEF ResolveWrite, In, Top
<1>2. ~failed'[t] /\ Len(s) # 1 /\ Called(s[1], s[2]) /\ Returned(r, s)
  BY <1>0, <1>1 DEF GInv, TypeOK, MRTypeOK, Replaces
<1>3. /\ g \in Known(gc) /\ \A x \in Targets(gc[g]) : gt[x] # Unresolved
      /\ e = Built(g, gc[g].inc, gc[g].exc)
  <2>1. Resolving(Top(t)) /\ Top(t).rules.inc = {} /\ Top(t).rules.exc = {}
    BY <1>0, <1>1 DEF Working, Targets
  <2>2. \A a : a \ {} = a
    OBVIOUS
  <2> QED
    BY <2>1, <2>2 DEF Resolving, Targets
<1>4. gc[g] \in Rules /\ gc[g].inc \in SUBSET Groups /\ gc[g].exc \in SUBSET Groups
  BY <1>3 DEF GInv, TypeOK, MRTypeOK, RuleMap, Known, Rules
<1>5. e # Unresolved
  BY <1>0, <1>3, <1>4, BuiltType DEF Targets
<1>6. gt'[g] = e /\ \A x \in Groups : x # g => gt'[x] = gt[x]
  BY <1>0, <1>1 DEF GInv, TypeOK, MRTypeOK
<1>7. \A x \in Groups : gt[x] # Unresolved => gt'[x] # Unresolved
  BY <1>5, <1>6
<1>8. g \notin Targets(gc[g])
  BY <1>3, NotOwnTarget
<1>9. Grounded'
  <2> SUFFICES ASSUME NEW h \in Groups, gt'[h] # Unresolved
               PROVE  h \in Known(gc) /\ \A x \in Targets(gc[h]) : gt'[x] # Unresolved
    BY <1>1 DEF Grounded, Known
  <2>1. h \in Known(gc) /\ \A x \in Targets(gc[h]) : gt[x] # Unresolved
    BY <1>3, <1>6 DEF Grounded, SInv
  <2>2. Targets(gc[h]) \subseteq Groups
    BY <2>1 DEF GInv, TypeOK, MRTypeOK, RuleMap, Known, Rules, Targets
  <2> QED
    BY <1>7, <2>1, <2>2
<1>10. Works(stack[t], failed[t])'
  <2>1. \A i \in 1..Len(r) : /\ r[i] = s[i + 1] /\ i + 1 \in 1..Len(s) /\ i + 1 > 1 /\ 1 \in 1..Len(s)
                             /\ i # 1 => i + 1 > 2 /\ 2 \in 1..Len(s)
    BY <1>0, <1>2 DEF Returned
  <2>2. Works(r, gt[s[2].operand] = Unresolved)
    BY <1>0, <1>2, WorksShape
  <2>3. ASSUME NEW i \in 1..Len(r), r[i].fn = "Resolve"
        PROVE  gt[g] = Unresolved /\ r[i].group # g
    <3>1. gt[g] = Unresolved
      <4>1. s[2].fn = "Resolve"
        <5>1. CASE i = 1
          <6>1. 1 + 1 = 2
            OBVIOUS
          <6> QED
            BY <2>1, <2>3, <5>1, <6>1
        <5>2. CASE i # 1
          <6>1. Within(rank, s[2], s[i + 1])
            BY <2>1, <5>2 DEF AllNested, Nested
          <6> QED
            BY <1>2, <2>1, <2>3, <6>1 DEF Within, Called
        <5> QED
          BY <5>1, <5>2
      <4> QED
        BY <1>0, <1>2, <4>1 DEF Called
    <3>2. Within(rank, s[1], s[i + 1])
      BY <2>1 DEF AllNested, Nested
    <3>3. rank[g] < rank[r[i].group] /\ rank[g] \in Nat
      BY <1>0, <1>1, <2>1, <2>3, <3>2 DEF Within, LeadsDown
    <3> QED
      BY <3>1, <3>3
  <2>4. ASSUME NEW i \in 1..Len(r), NEW q, q = r[i] PROVE Working(q)'
    <3>1. Working(q)
      BY <2>2, <2>4 DEF Works
    <3>2. ASSUME q.fn = "Resolve", Resolving(q) PROVE Resolving(q)'
      BY <1>1, <1>6, <1>7, <2>3, <2>4, <3>2, ResolvingKept
    <3> QED
      BY <1>1, <3>1, <3>2 DEF Working
  <2>5. ASSUME NEW i \in 1..Len(r), i # Len(r), NEW q, q = r[i], NEW c, c = r[i + 1]
        PROVE  Called(q, c)'
    <3>1. Called(q, c)
      BY <2>2, <2>5 DEF Works
    <3>2. q.fn = "Resolve" => gt'[q.group] = gt[q.group]
      <4>1. q.group \in Groups
        <5>1. q \in GoodFrames
          BY <1>0, <2>5
        <5> QED
          BY <5>1 DEF GoodFrames, Frames
      <4> QED
        BY <1>6, <2>3, <2>5, <4>1
    <3> QED
      BY <3>1, <3>2 DEF Called
  <2>7. ASSUME NEW i \in 1..Len(r), i = Len(r) PROVE r[i].fn # "Resolve"
    BY <2>2, <2>7 DEF Works
  <2>6. ASSUME r # <<>>, r[1].fn = "Resolve", r[1].next = "fetch"
        PROVE  gt'[r[1].operand] # Unresolved
    <3>1. 1 \in 1..Len(r) /\ 1 + 1 = 2
      BY <1>0, <2>6, Shapes
    <3>2. r[1] = s[2]
      BY <2>1, <3>1
    <3>3. r[1].operand = g
      BY <1>0, <1>2, <2>6, <3>2 DEF Called
    <3> QED
      BY <1>5, <1>6, <3>3
  <2> QED
    BY <1>2, <2>4, <2>5, <2>6, <2>7 DEF Works
<1>11. AllSettled(stack[t])'
  <2> SUFFICES ASSUME NEW U \in SUBSET Groups, Upward(U)', Covers(U, r)', NEW h \in Groups \ U
               PROVE  Settled(h)'
    BY DEF AllSettled
  <2>1. Upward(U) /\ Covers(U, r)
    BY <1>1 DEF Upward, Known, Covers, Covered
  <2>2. PICK V \in SUBSET Groups :
          /\ Upward(V) /\ Covers(V, s) /\ V \subseteq U \cup {g}
          /\ g \in V \/ gt[g] = Unresolved
    BY <1>1, <2>1, ReturnCovers
  <2>3. g \in V
    <3>1. ASSUME g \notin V PROVE FALSE
      <4>1. Settled(g)
        BY <1>0, <2>2, <3>1 DEF AllSettled
      <4> QED
        BY <1>3, <1>5, <2>2, <3>1, <4>1 DEF Settled
    <3> QED
      BY <3>1
  <2>4. CASE h = g
    <3>1. Built(g, gc[g].inc, gc[g].exc)' = Built(g, gc[g].inc, gc[g].exc)
      <4>1. g \notin gc[g].inc /\ g \notin gc[g].exc
        BY <1>8 DEF Targets
      <4> QED
        BY <1>1, <1>4, <1>6, <4>1 DEF Built
    <3> QED
      BY <1>1, <1>3, <1>6, <2>4, <3>1 DEF Settled
  <2>5. CASE h # g
    <3>1. Settled(h) /\ h \notin V
      BY <1>0, <2>2, <2>5 DEF AllSettled
    <3>2. h \in Known(gc) => g \notin Targets(gc[h])
      BY <2>2, <2>3, <3>1 DEF Upward
    <3> QED
      BY <1>1, <1>6, <2>5, <3>1, <3>2, SettledElsewhere
  <2> QED
    BY <2>4, <2>5
<1>12. Follows' /\ Serves(t)'
  BY <1>1, <1>7, StillServes
<1> QED
  BY <1>9, <1>10, <1>11, <1>12, OneThreadKeeps

(* SyncGroup stores the rules: from here on everything above its group is  *)
(* going to be resolved again.                                             *)
LEMMA SyncStores ==
  ASSUME GInv, SInv, NEW rank, LeadsDown(rank),
         NEW t \in Threads, Threads = {t}, ResolverStep(t), SyncStore(t)
  PROVE  SInv'
<1> SUFFICES ASSUME NEW s, s = stack[t], NEW r, r = stack'[t], NEW f, f = Top(t),
                    NEW g, g = f.group,
                    NEW c, c = [f EXCEPT !.next = "link"], NEW d, d = ResolveFrame(g)
             PROVE  SInv'
  OBVIOUS
<1>0. /\ s \in Seq(GoodFrames) /\ s # <<>> /\ r \in Seq(GoodFrames) /\ Len(s) \in Nat \ {0}
      /\ f = s[1] /\ f \in Frames /\ g \in Groups /\ Works(s, failed[t]) /\ AllSettled(s)
      /\ Serves(t) /\ Replaces(t, c, d) /\ Grounded /\ Follows
  BY AtStep DEF SInv
<1>1. /\ f.fn = "SyncGroup" /\ f.next = "store" /\ Invoke(t, c, d) /\ In(t, "SyncGroup", "store")
      /\ gc' = [gc EXCEPT ![g] = f.rules] /\ UNCHANGED <<gt, ga, failed>>
      /\ pc[t] = "resolve" /\ UNCHANGED <<rules, pc, target, boot, bootTodo>>
  BY DEF SyncStore, In, Top, ResolverStep
<1>2. Len(s) = 1
  BY <1>0, <1>1, Innermost
<1>3. /\ g = target[t] /\ f.rules = rules[g] /\ rules[g] # NoGroup /\ g \notin bootTodo
      /\ gc'[g] = rules[g] /\ \A h \in Groups : h # g => gc'[h] = gc[h]
  <2>1. 1 \in 1..Len(s)
    BY <1>2
  <2> QED
    BY <1>0, <1>1, <2>1 DEF Serves, GInv, TypeOK, MRTypeOK, RuleMap
<1>4. /\ c.fn = "SyncGroup" /\ c.next = "link" /\ c.group = g /\ c.rules = rules[g]
      /\ d.fn = "Resolve" /\ d.next = "lookup" /\ d.group = g
  BY <1>0, <1>1, <1>3 DEF Frames, ResolveFrame, Frame
<1>5. /\ Len(r) = 2 /\ r[1] = d /\ r[2] = c /\ r # <<>> /\ Head(r) = d
      /\ \A i \in 1..Len(r) : i = 1 \/ i = 2
  <2>1. Invoked(r, c, d, s)
    BY <1>0, <1>1 DEF Replaces
  <2>2. Len(r) = 2 /\ r[1] = d /\ r[2] = c
    BY <1>2, <2>1 DEF Invoked
  <2>3. \A i \in 1..2 : i = 1 \/ i = 2
    OBVIOUS
  <2>4. r # <<>>
    BY <2>2
  <2>5. Head(r) = r[1]
    BY <1>0, <2>4, Shapes
  <2> QED
    BY <2>2, <2>3, <2>4, <2>5
<1>6. Works(stack[t], failed[t])'
  <2>1. Working(c)' /\ Working(d)' /\ Called(d, c)'
    BY <1>4 DEF Working, Called
  <2>2. ASSUME NEW i \in 1..Len(r), NEW q, q = r[i] PROVE Working(q)'
    BY <1>5, <2>1, <2>2
  <2>3. ASSUME NEW i \in 1..Len(r), i # Len(r), NEW q, q = r[i], NEW p, p = r[i + 1]
        PROVE  Called(q, p)'
    <3>1. i = 1 /\ 1 + 1 = 2
      BY <1>5, <2>3
    <3> QED
      BY <1>5, <2>1, <2>3, <3>1
  <2>4. r[Len(r)].fn # "Resolve"
    BY <1>4, <1>5
  <2> QED
    BY <1>4, <1>5, <2>2, <2>3, <2>4 DEF Works
<1>7. /\ Storing(t) /\ ~Storing(t)' /\ Behind = bootTodo \cup {g} /\ Behind' = bootTodo
  <2>1. Storing(t)
    BY <1>1 DEF Storing
  <2>2. ~Storing(t)'
    BY <1>1, <1>4, <1>5 DEF Storing, In
  <2>3. {target[u] : u \in {v \in Threads : Storing(v)}} = {g}
    BY <1>3, <2>1
  <2>4. {target[u] : u \in {v \in Threads : Storing(v)}}' = {}
    BY <2>2
  <2> QED
    BY <1>1, <2>1, <2>2, <2>3, <2>4 DEF Behind
<1>8. Follows'
  <2>1. \A h \in Groups \ bootTodo : gc'[h] = rules[h]
    BY <1>0, <1>3, <1>7 DEF Follows
  <2>2. bootTodo \subseteq Groups
    BY DEF GInv, TypeOK
  <2>3. boot = "loading" => \A h \in bootTodo : gc'[h] = NoGroup /\ rules[h] # NoGroup
    BY <1>0, <1>3, <1>7, <2>2 DEF Follows
  <2> QED
    BY <1>0, <1>1, <1>7, <2>1, <2>3 DEF Follows, Known
<1>9. Grounded'
  <2> SUFFICES ASSUME NEW h \in Groups, gt[h] # Unresolved
               PROVE  gc'[h] # NoGroup /\ \A x \in Targets(gc'[h]) : gt[x] # Unresolved
    BY <1>1 DEF Grounded, Known
  <2>1. gc[h] # NoGroup /\ \A x \in Targets(gc[h]) : gt[x] # Unresolved
    BY <1>0 DEF Grounded, Known
  <2>2. CASE h # g
    BY <1>3, <2>1, <2>2
  <2>3. CASE h = g
    <3>1. boot = "serving"
      BY <1>0, <1>7, <2>1, <2>3 DEF Follows, GInv, TypeOK
    <3>2. \A x \in Targets(rules[g]) : x \in Known(rules) /\ x # g
      BY <1>0, <1>3, NotOwnTarget DEF Follows, Known
    <3>3. \A x \in Targets(rules[g]) : gt[x] # Unresolved
      BY <1>0, <1>3, <3>1, <3>2 DEF Follows
    <3> QED
      BY <1>3, <2>3, <3>3
  <2> QED
    BY <2>2, <2>3
<1>10. AllSettled(stack[t])'
  <2> SUFFICES ASSUME NEW U \in SUBSET Groups, Upward(U)', Covers(U, r)', NEW h \in Groups \ U
               PROVE  Settled(h)'
    BY DEF AllSettled
  <2>1. g \in U
    <3>1. 2 \in 1..Len(r)
      BY <1>5
    <3>2. Covered(U, c, 2)'
      BY <1>5, <3>1 DEF Covers
    <3> QED
      BY <1>4, <3>2 DEF Covered
  <2>2. Upward(U)
    BY <1>3, <2>1 DEF Upward, Known
  <2>3. Covers(U, s)
    <3>1. \A i \in 1..Len(s) : i = 1
      BY <1>2
    <3> QED
      BY <1>0, <1>1, <2>1, <3>1 DEF Covers, Covered
  <2>4. Settled(h) /\ gc'[h] = gc[h]
    BY <1>0, <1>3, <2>1, <2>2, <2>3 DEF AllSettled
  <2> QED
    BY <1>1, <2>4 DEF Settled, Known, Built
<1>11. Serves(t)'
  BY <1>0, <1>1, <1>3, <1>4, <1>5 DEF Serves
<1> QED
  BY <1>6, <1>8, <1>9, <1>10, <1>11, OneThreadKeeps

(* It links the group to the targets, and leaves the rest to               *)
(* resolveChanges.                                                         *)
LEMMA SyncLinks ==
  ASSUME GInv, SInv, NEW t \in Threads, Threads = {t}, ResolverStep(t), SyncLink(t)
  PROVE  SInv'
<1> SUFFICES ASSUME NEW s, s = stack[t], NEW r, r = stack'[t], NEW f, f = Top(t),
                    NEW g, g = f.group, NEW c, c = ChangesFrame(g)
             PROVE  SInv'
  OBVIOUS
<1>0. /\ s \in Seq(GoodFrames) /\ s # <<>> /\ r \in Seq(GoodFrames) /\ Len(s) \in Nat \ {0}
      /\ f = s[1] /\ g \in Groups /\ Works(s, failed[t]) /\ AllSettled(s)
      /\ Replaces(t, c, c) /\ Grounded
  BY AtStep DEF SInv
<1>1. /\ f.fn = "SyncGroup" /\ f.next = "link" /\ Continue(t, c) /\ ~In(t, "SyncGroup", "store")
      /\ UNCHANGED <<gc, gt, failed>>
  BY DEF SyncLink, In, Top
<1>2. Len(s) = 1
  BY <1>0, <1>1, Innermost
<1>3. c.fn = "resolveChanges" /\ c.next = "resolve" /\ c.group = g /\ c.visited = {}
  BY DEF ChangesFrame, Frame
<1>4. Len(r) = 1 /\ r[1] = c /\ \A i \in 1..Len(r) : i = 1
  <2>1. Continued(r, c, s)
    BY <1>0, <1>1 DEF Replaces
  <2> QED
    BY <1>2, <2>1 DEF Continued
<1>5. Works(stack[t], failed[t])'
  <2>1. Working(c)'
    BY <1>3 DEF Working
  <2>2. ASSUME NEW i \in 1..Len(r), NEW q, q = r[i] PROVE Working(q)'
    BY <1>4, <2>1, <2>2
  <2> QED
    BY <1>3, <1>4, <2>2 DEF Works
<1>6. AllSettled(stack[t])'
  <2> SUFFICES ASSUME NEW U \in SUBSET Groups, Upward(U)', Covers(U, r)', NEW h \in Groups \ U
               PROVE  Settled(h)'
    BY DEF AllSettled
  <2>1. g \in U
    <3>1. 1 \in 1..Len(r)
      BY <1>4
    <3> QED
      BY <1>3, <1>4, <3>1 DEF Covers, Covered
  <2>2. Upward(U)
    BY <1>1 DEF Upward, Known
  <2>3. Covers(U, s)
    <3>1. \A i \in 1..Len(s) : i = 1
      BY <1>2
    <3> QED
      BY <1>0, <1>1, <2>1, <3>1 DEF Covers, Covered
  <2>4. Settled(h)
    BY <1>0, <2>2, <2>3 DEF AllSettled
  <2> QED
    BY <1>1, <2>4 DEF Settled, Known, Built
<1>7. Grounded'
  BY <1>0, <1>1 DEF Grounded, Known
<1>8. Follows' /\ Serves(t)'
  <2>1. c.fn # "SyncGroup"
    BY <1>3
  <2> QED
    BY <1>1, <2>1, StillServes
<1> QED
  BY <1>5, <1>6, <1>7, <1>8, OneThreadKeeps

(* Outside the resolver every group is settled. *)
LEMMA QuietSettled ==
  AllSettled(<<>>) => \A g \in Groups : Settled(g)
<1>1. {} \in SUBSET Groups /\ Upward({}) /\ Covers({}, <<>>)
  BY DEF Upward, Covers
<1> QED
  BY <1>1 DEF AllSettled

(* A step outside the resolver. *)
LEMMA ResolverIdle ==
  ASSUME SInv, UNCHANGED mrVars, NEW t \in Threads
  PROVE  Grounded' /\ Works(stack[t], failed[t])' /\ AllSettled(stack[t])'
<1>1. Works(stack'[t], failed'[t]) /\ AllSettled(stack'[t]) /\ Grounded
  BY DEF SInv, mrVars
<1> QED
  BY <1>1, MapsUnread DEF mrVars

(* A client writes. *)
LEMMA ClientKeeps ==
  ASSUME GInv, SInv, TargetsStay, NEW t \in Threads, Threads = {t}, Client(t)
  PROVE  SInv'
<1>1. PICK g \in Groups, r \in Rules \cup {NoGroup} :
        /\ WriteGroup(t, g, r)
        /\ r # NoGroup => \A x \in Targets(r) : <<g, x>> \in Edges
        /\ r # NoGroup => \A x \in Targets(r) : rules[g] # NoGroup /\
                             (x \in Targets(rules[g]) \/ rules[x] # NoGroup)
        /\ r = NoGroup => g \in Removable
  BY WriteGood
<1>2. /\ boot = "serving" /\ pc[t] = "idle" /\ rules' = [rules EXCEPT ![g] = r]
      /\ pc' = [pc EXCEPT ![t] = IF r = NoGroup THEN "remove" ELSE "load"]
      /\ target' = [target EXCEPT ![t] = g]
      /\ UNCHANGED mrVars /\ UNCHANGED <<gc, gt, ga, stack, failed, boot, bootTodo>>
  BY <1>1 DEF WriteGroup, mrVars
<1>3. /\ rules'[g] = r /\ \A h \in Groups : h # g => rules'[h] = rules[h]
      /\ pc'[t] = (IF r = NoGroup THEN "remove" ELSE "load") /\ target'[t] = g
  BY <1>1, <1>2 DEF GInv, TypeOK, RuleMap
<1>4. Grounded' /\ Works(stack[t], failed[t])' /\ AllSettled(stack[t])'
  BY <1>2, ResolverIdle
<1>5. stack[t] = <<>> /\ Follows /\ bootTodo = {}
  BY <1>2 DEF SInv, Serves, Follows
<1>6. Serves(t)'
  BY <1>2, <1>3, <1>5 DEF Serves
<1>7. Follows'
  <2>1. Behind = {} /\ Behind' = {g}
    <3>1. ~Storing(t) /\ Storing(t)'
      BY <1>2, <1>3, <1>5 DEF Storing, In, Idle
    <3> QED
      BY <1>2, <1>3, <1>5, <3>1 DEF Behind
  <2>2. \A h \in Groups \ {g} : gc[h] = rules'[h]
    BY <1>3, <1>5, <2>1 DEF Follows
  <2>3. ASSUME NEW h \in Known(rules')
        PROVE  gt[h] # Unresolved \/ \E u \in Threads : pc'[u] # "idle" /\ h = target'[u]
    <3>1. CASE h = g
      BY <1>3, <3>1
    <3>2. CASE h # g
      BY <1>2, <1>3, <1>5, <3>2 DEF Follows, Known
    <3> QED
      BY <3>1, <3>2
  <2>4. ASSUME NEW h \in Known(rules') PROVE Targets(rules'[h]) \subseteq Known(rules')
    <3> SUFFICES ASSUME NEW x \in Targets(rules'[h]) PROVE x \in Known(rules')
      OBVIOUS
    <3>1. h \in Groups /\ rules'[h] # NoGroup /\ rules' \in RuleMap
      BY StepGood DEF Known, Next, GInv, TypeOK
    <3>2. x \in Groups
      BY <3>1 DEF RuleMap, Rules, Targets
    <3>3. CASE h = g
      <4>1. rules[x] # NoGroup /\ r # NoGroup
        BY <1>1, <1>3, <1>5, <3>1, <3>2, <3>3 DEF Follows, Known
      <4> QED
        BY <1>3, <3>2, <4>1 DEF Known
    <3>4. CASE h # g
      <4>1. h \in Known(rules) /\ x \in Targets(rules[h]) /\ x \in Known(rules)
        BY <1>3, <1>5, <3>1, <3>4 DEF Known, Follows
      <4>2. x # g \/ r # NoGroup
        BY <1>1, <4>1 DEF TargetsStay, GInv, Permitted
      <4> QED
        BY <1>3, <3>2, <4>1, <4>2 DEF Known
    <3> QED
      BY <3>3, <3>4
  <2> QED
    BY <1>2, <1>5, <2>1, <2>2, <2>3, <2>4 DEF Follows
<1> QED
  BY <1>4, <1>6, <1>7, OneThreadKeeps

(* The callback calls SyncGroup. *)
LEMMA LoadKeeps ==
  ASSUME GInv, SInv, NEW t \in Threads, Threads = {t}, LoadGroup(t)
  PROVE  SInv'
<1> SUFFICES ASSUME NEW g, g = target[t], NEW f, f = SyncFrame(g, rules[g])
             PROVE  SInv'
  OBVIOUS
<1>1. /\ pc[t] = "load" /\ rules[g] # NoGroup /\ stack[t] = <<>> /\ g \in Groups
      /\ g \notin bootTodo
  BY DEF LoadGroup, SInv, Serves, GInv, TypeOK
<1>2. /\ stack'[t] = <<f>> /\ pc'[t] = "resolve"
      /\ UNCHANGED <<gc, gt, ga, failed, rules, target, boot, bootTodo>>
  BY <1>1 DEF LoadGroup, CallSyncGroup, GInv, TypeOK, MRTypeOK
<1>3. f.fn = "SyncGroup" /\ f.next = "store" /\ f.group = g /\ f.rules = rules[g]
  BY DEF SyncFrame, Frame
<1>4. <<f>> # <<>> /\ Len(<<f>>) = 1 /\ <<f>>[1] = f /\ Head(<<f>>) = f
      /\ \A i \in 1..Len(<<f>>) : i = 1
  OBVIOUS
<1>5. Works(<<f>>, failed[t])
  BY <1>3, <1>4 DEF Works, Working
<1>6. AllSettled(<<f>>)
  BY <1>1, QuietSettled DEF SInv, AllSettled
<1>7. Grounded' /\ Works(stack[t], failed[t])' /\ AllSettled(stack[t])'
  <2>1. Works(stack'[t], failed'[t]) /\ AllSettled(stack'[t])
    BY <1>2, <1>5, <1>6
  <2> QED
    BY <1>2, <2>1, MapsUnread DEF SInv
<1>8. Storing(t) /\ Storing(t)'
  BY <1>1, <1>2, <1>3, <1>4 DEF Storing, In, Idle
<1>9. Behind' = Behind
  BY <1>2, <1>8 DEF Behind
<1>10. Follows'
  <2>1. \E u \in Threads : pc'[u] # "idle" /\ g = target'[u]
    BY <1>2
  <2> QED
    BY <1>2, <1>9, <2>1 DEF SInv, Follows, Known
<1>11. Serves(t)'
  BY <1>1, <1>2, <1>3, <1>4 DEF Serves
<1> QED
  BY <1>7, <1>10, <1>11, OneThreadKeeps

(* The callback has called RemoveGroup: nothing is above a group that is   *)
(* removed.                                                                *)
LEMMA RemoveKeeps ==
  ASSUME GInv, LInv, SInv, TargetsStay, NEW t \in Threads, Threads = {t}, CallRemoveGroup(t)
  PROVE  SInv'
<1> SUFFICES ASSUME NEW d, d = target[t] PROVE SInv'
  OBVIOUS
<1>1. /\ pc[t] = "remove" /\ d \in Removable /\ d \in Groups /\ stack[t] = <<>>
      /\ boot = "serving" /\ rules[d] = NoGroup /\ Follows /\ Grounded /\ AllSettled(<<>>)
  BY DEF CallRemoveGroup, LInv, SInv, Serves, GInv, TypeOK
<1>2. /\ UNCHANGED <<stack, failed, rules, target, boot, bootTodo>> /\ pc'[t] = "idle"
      /\ gc'[d] = NoGroup /\ \A h \in Groups : h # d => gc'[h] = gc[h]
      /\ gt'[d] = Unresolved /\ \A h \in Groups : h # d => gt'[h] = gt[h]
  BY <1>1 DEF CallRemoveGroup, RemoveGroup, GInv, TypeOK, MRTypeOK, RuleMap
<1>3. \A h \in Known(gc) : d \notin Targets(gc[h]) /\ Targets(gc[h]) \subseteq Groups
  BY <1>1 DEF TargetsStay, GInv, Permitted, TypeOK, MRTypeOK, RuleMap, Known, Rules, Targets
<1>4. Grounded'
  <2> SUFFICES ASSUME NEW h \in Groups, gt'[h] # Unresolved
               PROVE  gc'[h] # NoGroup /\ \A x \in Targets(gc'[h]) : gt'[x] # Unresolved
    BY DEF Grounded, Known
  <2>1. h # d /\ h \in Known(gc) /\ \A x \in Targets(gc[h]) : gt[x] # Unresolved
    BY <1>1, <1>2 DEF Grounded
  <2>2. \A x \in Targets(gc[h]) : gt'[x] # Unresolved
    BY <1>2, <1>3, <2>1
  <2> QED
    BY <1>2, <2>1, <2>2 DEF Known
<1>5. Works(stack[t], failed[t])'
  BY <1>1, <1>2 DEF Works
<1>6. AllSettled(stack[t])'
  <2>1. ASSUME NEW h \in Groups PROVE Settled(h)'
    <3>1. CASE h = d
      BY <1>2, <3>1 DEF Settled, Known
    <3>2. CASE h # d
      BY <1>1, <1>2, <1>3, <3>2, QuietSettled, SettledElsewhere
    <3> QED
      BY <3>1, <3>2
  <2> QED
    BY <2>1 DEF AllSettled
<1>7. Follows'
  <2>1. Behind = {d} /\ Behind' = {}
    <3>1. Storing(t) /\ ~Storing(t)' /\ bootTodo = {}
      BY <1>1, <1>2 DEF Storing, In, Idle, Follows
    <3> QED
      BY <1>2, <3>1 DEF Behind
  <2>2. \A h \in Groups : gc'[h] = rules[h]
    BY <1>1, <1>2, <2>1 DEF Follows
  <2>3. \A h \in Known(rules) : gt'[h] # Unresolved
    BY <1>1, <1>2 DEF Follows, Known
  <2> QED
    BY <1>1, <1>2, <2>1, <2>2, <2>3 DEF Follows, Known
<1>8. Serves(t)'
  BY <1>1, <1>2 DEF Serves
<1> QED
  BY <1>4, <1>5, <1>6, <1>7, <1>8, OneThreadKeeps

(* The call of SyncGroup has returned: its group is settled, and so        *)
(* resolved.                                                               *)
LEMMA ReturnKeeps ==
  ASSUME GInv, SInv, NEW rank, LeadsDown(rank), NEW t \in Threads, Threads = {t},
         CallbackReturns(t)
  PROVE  SInv'
<1> SUFFICES ASSUME NEW g, g = target[t] PROVE SInv'
  OBVIOUS
<1>1. /\ pc[t] = "resolve" /\ stack[t] = <<>> /\ g \in Groups /\ pc'[t] = "idle"
      /\ UNCHANGED mrVars /\ UNCHANGED <<gc, gt, ga, stack, failed, rules, target, boot, bootTodo>>
      /\ Follows /\ AllSettled(<<>>) /\ rules[g] # NoGroup
  BY DEF CallbackReturns, Idle, GInv, TypeOK, SInv, Serves, mrVars
<1>2. Grounded' /\ Works(stack[t], failed[t])' /\ AllSettled(stack[t])'
  BY <1>1, ResolverIdle
<1>3. Serves(t)'
  BY <1>1 DEF Serves
<1>4. ~Storing(t) /\ ~Storing(t)' /\ Behind' = bootTodo /\ Behind = bootTodo
  <2>1. ~Storing(t) /\ ~Storing(t)'
    BY <1>1 DEF Storing, In, Idle
  <2> QED
    BY <1>1, <2>1 DEF Behind
<1>5. ASSUME boot = "serving" PROVE gt[g] # Unresolved
  <2>1. gc[g] = rules[g] /\ g \in Known(gc)
    BY <1>1, <1>4, <1>5 DEF Follows, Known
  <2>2. \A x \in Targets(gc[g]) : x # g /\ x \in Known(rules)
    BY <1>1, <2>1, NotOwnTarget DEF Follows, Known
  <2>3. \A x \in Targets(gc[g]) : gt[x] # Unresolved
    BY <1>1, <1>5, <2>2 DEF Follows
  <2>4. gt[g] = Built(g, gc[g].inc, gc[g].exc)
    BY <1>1, <2>1, <2>3, QuietSettled DEF Settled
  <2>5. gc[g].inc \in SUBSET Groups /\ \A x \in gc[g].inc : gt[x] # Unresolved
    BY <2>1, <2>3 DEF GInv, TypeOK, MRTypeOK, RuleMap, Known, Rules, Targets
  <2> QED
    BY <1>1, <2>4, <2>5, BuiltType
<1>6. Follows'
  BY <1>1, <1>4, <1>5 DEF Follows, Known
<1> QED
  BY <1>2, <1>3, <1>6, OneThreadKeeps

(* Of some groups, one has the least rank. *)
LEMMA LeastRank ==
  ASSUME NEW rank \in [Groups -> Nat], NEW B \in SUBSET Groups, B # {}
  PROVE  \E g \in B : \A h \in B : ~(rank[h] < rank[g])
<1> DEFINE R == OpToRel(<, Nat)
           N == {rank[g] : g \in B}
<1>1. IsWellFoundedOn(R, Nat)
  BY NatLessThanWellFounded
<1>2. \A x, y \in Nat : x < y => <<x, y>> \in R
  BY DEF OpToRel
<1>3. N \subseteq Nat /\ N # {}
  OBVIOUS
<1> HIDE DEF R
<1>4. PICK x \in N : \A y \in N : ~ (<<y, x>> \in R)
  <2> HIDE DEF N
  <2> QED
    BY <1>1, <1>3, WFMin
<1>5. PICK g \in B : x = rank[g]
  BY <1>4
<1>6. \A h \in B : ~(rank[h] < rank[g])
  BY <1>2, <1>4, <1>5
<1> QED
  BY <1>6

(* Once all is settled, all groups are resolved, from below. *)
LEMMA AllResolved ==
  ASSUME GInv, NEW rank, LeadsDown(rank), AllSettled(<<>>),
         \A g \in Known(gc) : Targets(gc[g]) \subseteq Known(gc)
  PROVE  \A g \in Known(gc) : gt[g] # Unresolved
<1> DEFINE B == {g \in Known(gc) : gt[g] = Unresolved}
<1>1. ASSUME B # {} PROVE FALSE
  <2>0. B \in SUBSET Groups /\ rank \in [Groups -> Nat]
    BY DEF Known, LeadsDown
  <2>1. PICK g \in B : \A h \in B : ~(rank[h] < rank[g])
    BY <1>1, <2>0, LeastRank
  <2>2. g \in Known(gc) /\ g \in Groups /\ gt[g] = Unresolved
    BY DEF Known
  <2>3. ASSUME NEW x \in Targets(gc[g]) PROVE gt[x] # Unresolved
    <3>1. x \in Known(gc) /\ <<g, x>> \in Edges
      BY <2>2 DEF GInv, Permitted
    <3>2. rank[x] < rank[g]
      <4>1. <<g, x>>[1] = g /\ <<g, x>>[2] = x
        OBVIOUS
      <4> QED
        BY <3>1, <4>1 DEF LeadsDown
    <3> QED
      BY <2>1, <3>1, <3>2
  <2>4. gt[g] = Built(g, gc[g].inc, gc[g].exc)
    BY <2>2, <2>3, QuietSettled DEF Settled
  <2>5. gc[g].inc \in SUBSET Groups /\ \A x \in gc[g].inc : gt[x] # Unresolved
    BY <2>2, <2>3 DEF GInv, TypeOK, MRTypeOK, RuleMap, Known, Rules, Targets
  <2> QED
    BY <2>2, <2>4, <2>5, BuiltType
<1> QED
  BY <1>1

(* The start of the server. *)
LEMMA BootKeeps ==
  ASSUME GInv, SInv, NEW rank, LeadsDown(rank), NEW t \in Threads, Threads = {t}, Boot
  PROVE  SInv'
<1>1. /\ boot = "loading" /\ pc[t] = "idle" /\ stack[t] = <<>> /\ Follows
      /\ UNCHANGED mrVars /\ UNCHANGED <<gc, gt, ga, stack, failed, rules>>
  BY DEF Boot, Serve, Announce, Quiet, SInv, Serves, mrVars
<1>2. Grounded' /\ Works(stack[t], failed[t])' /\ AllSettled(stack[t])'
  BY <1>1, ResolverIdle
<1>3. ~Storing(t) /\ Behind = bootTodo
  <2>1. ~Storing(t)
    BY <1>1 DEF Storing, In, Idle
  <2> QED
    BY <2>1 DEF Behind
<1>4. ASSUME NEW g \in Groups, Announce(t, g) PROVE Follows' /\ Serves(t)'
  <2>1. /\ g \in bootTodo /\ bootTodo' = bootTodo \ {g} /\ pc'[t] = "load" /\ target'[t] = g
        /\ UNCHANGED boot
    BY <1>4 DEF Announce, GInv, TypeOK
  <2>2. Storing(t)'
    BY <2>1 DEF Storing
  <2>3. Behind' = Behind
    BY <1>3, <2>1, <2>2 DEF Behind
  <2>4. rules[g] # NoGroup
    BY <1>1, <1>3, <2>1 DEF Follows
  <2>5. Follows'
    BY <1>1, <2>1, <2>3 DEF Follows, Known
  <2> QED
    BY <1>1, <2>1, <2>4, <2>5 DEF Serves
<1>5. ASSUME Serve PROVE Follows' /\ Serves(t)'
  <2>1. bootTodo = {} /\ boot' = "serving" /\ UNCHANGED <<pc, target, bootTodo>>
    BY <1>5 DEF Serve
  <2>2. ~Storing(t)' /\ Behind' = {} /\ Behind = {}
    <3>1. ~Storing(t)'
      BY <1>1, <2>1 DEF Storing, In, Idle
    <3> QED
      BY <1>3, <2>1, <3>1 DEF Behind
  <2>3. \A g \in Groups : gc[g] = rules[g]
    BY <1>1, <2>2 DEF Follows
  <2>4. \A g \in Known(rules) : gt[g] # Unresolved
    <3>1. \A g \in Known(gc) : Targets(gc[g]) \subseteq Known(gc)
      BY <1>1, <2>3 DEF Follows, Known
    <3>2. AllSettled(<<>>)
      BY <1>1 DEF SInv
    <3> QED
      BY <2>3, <3>1, <3>2, AllResolved DEF Known
  <2>5. Follows'
    BY <1>1, <2>1, <2>2, <2>3, <2>4 DEF Follows, Known
  <2> QED
    BY <1>1, <2>1, <2>5 DEF Serves
<1>6. Follows' /\ Serves(t)'
  <2>1. ASSUME NEW u \in Threads, NEW g \in Groups, Announce(u, g) PROVE Follows' /\ Serves(t)'
    <3>1. u = t
      BY <2>1
    <3> QED
      BY <1>4, <2>1, <3>1
  <2> QED
    BY <1>5, <2>1 DEF Boot
<1> QED
  BY <1>2, <1>6, OneThreadKeeps

(* A crash. *)
LEMMA CrashKeeps ==
  ASSUME GInv, SInv, NEW t \in Threads, Threads = {t}, Crash
  PROVE  SInv'
<1>1. /\ \A g \in Groups : gc'[g] = NoGroup /\ gt'[g] = Unresolved
      /\ stack'[t] = <<>> /\ pc'[t] = "idle" /\ boot' = "loading" /\ bootTodo' = Known(rules)
      /\ UNCHANGED <<rules, target>>
  BY DEF Crash
<1>2. Grounded' /\ Works(stack[t], failed[t])' /\ AllSettled(stack[t])'
  BY <1>1 DEF Grounded, Works, AllSettled, Settled, Known
<1>3. Behind' = Known(rules)
  <2>1. ~Storing(t)'
    BY <1>1 DEF Storing, In, Idle
  <2> QED
    BY <1>1, <2>1 DEF Behind
<1>4. Follows'
  BY <1>1, <1>3 DEF SInv, Follows, Known
<1>5. Serves(t)'
  BY <1>1 DEF Serves
<1> QED
  BY <1>2, <1>4, <1>5, OneThreadKeeps

(* All steps. *)
LEMMA StepSettles ==
  ASSUME NEW rank, LeadsDown(rank), TargetsStay, OneThread
  PROVE  GInv /\ LInv /\ AllNested(rank) /\ SInv /\ [Next]_vars => SInv'
<1> SUFFICES ASSUME GInv, LInv, AllNested(rank), SInv, [Next]_vars
             PROVE  SInv'
  OBVIOUS
<1>1. PICK t : Threads = {t}
  BY DEF OneThread
<1>2. t \in Threads
  BY <1>1
<1>3. CASE Client(t)
  BY <1>1, <1>2, <1>3, ClientKeeps
<1>4. CASE LoadGroup(t)
  BY <1>1, <1>2, <1>4, LoadKeeps
<1>5. CASE CallRemoveGroup(t)
  BY <1>1, <1>2, <1>5, RemoveKeeps
<1>6. CASE CallbackReturns(t)
  BY <1>1, <1>2, <1>6, ReturnKeeps
<1>7. CASE ResolverStep(t)
  <2>1. MRStep(t)
    BY <1>7 DEF ResolverStep
  <2>2. CASE SyncStore(t)
    BY <1>1, <1>2, <1>7, <2>2, SyncStores
  <2>3. CASE SyncLink(t)
    BY <1>1, <1>2, <1>7, <2>3, SyncLinks
  <2>4. CASE \/ ChangesResolve(t) \/ ChangesAffected(t) \/ ChangesReturn(t)
             \/ \E g \in Groups : ChangesCascade(t, g)
    BY <1>1, <1>2, <1>7, <2>4, ChangesKeep
  <2>5. CASE ResolveLookup(t) \/ (\E g \in Groups : ResolveOperand(t, g)) \/ ResolveFetch(t)
    BY <1>1, <1>2, <1>7, <2>5, ResolveReads
  <2>6. CASE ResolveWrite(t)
    BY <1>1, <1>2, <1>7, <2>6, ResolveWrites
  <2> QED
    BY <2>1, <2>2, <2>3, <2>4, <2>5, <2>6 DEF MRStep
<1>8. CASE Boot
  BY <1>1, <1>2, <1>8, BootKeeps
<1>9. CASE Crash
  BY <1>1, <1>2, <1>9, CrashKeeps
<1>10. CASE UNCHANGED vars
  <2>1. UNCHANGED mrVars /\ UNCHANGED <<gc, gt, ga, stack, failed, rules, pc, target, boot, bootTodo>>
    BY <1>10 DEF vars, mrVars
  <2>2. Grounded' /\ Works(stack[t], failed[t])' /\ AllSettled(stack[t])'
    BY <1>2, <2>1, ResolverIdle
  <2>3. Behind' = Behind
    BY <2>1 DEF Behind, Storing, In, Idle
  <2>4. Follows' /\ Serves(t)'
    BY <1>2, <2>1, <2>3 DEF SInv, Follows, Serves, Known
  <2> QED
    BY <1>1, <1>2, <2>2, <2>4, OneThreadKeeps
<1> QED
  BY <1>1, <1>3, <1>4, <1>5, <1>6, <1>7, <1>8, <1>9, <1>10 DEF Next, Handle

(* The first state. *)
LEMMA FirstSettled == Init => SInv
<1> SUFFICES ASSUME Init PROVE SInv
  OBVIOUS
<1>1. Grounded
  BY DEF Init, MRInit, Grounded
<1>2. \A t \in Threads : Works(stack[t], failed[t]) /\ AllSettled(stack[t]) /\ Serves(t)
  BY DEF Init, MRInit, Works, AllSettled, Settled, Known, Serves
<1>3. Behind = {}
  BY DEF Init, MRInit, Behind, Storing, In, Idle
<1>4. Follows
  BY <1>3 DEF Init, MRInit, Follows, Known
<1> QED
  BY <1>1, <1>2, <1>4 DEF SInv

-----------------------------------------------------------------------------
(***************************************************************************)
(* What rules mean.                                                        *)
(***************************************************************************)
(* Induction over the natural numbers, by a set. *)
LEMMA SetInduction ==
  ASSUME NEW S \in SUBSET Nat, 0 \in S, \A n \in S : n + 1 \in S
  PROVE  S = Nat
<1> DEFINE R == OpToRel(<, Nat)
<1>1. IsWellFoundedOn(R, Nat)
  BY NatLessThanWellFounded
<1>2. \A x, y \in Nat : x < y => <<x, y>> \in R
  BY DEF OpToRel
<1> HIDE DEF R
<1>3. ASSUME Nat \ S # {} PROVE FALSE
  <2> DEFINE T == Nat \ S
  <2>0. T \subseteq Nat /\ T # {}
    BY <1>3
  <2> HIDE DEF T
  <2>1. PICK x \in T : \A y \in T : ~ (<<y, x>> \in R)
    BY <1>1, <2>0, WFMin
  <2>2. x \in Nat /\ x \notin S
    BY DEF T
  <2>3. x # 0 /\ x - 1 \in Nat /\ x - 1 < x /\ (x - 1) + 1 = x
    BY <2>2
  <2>4. x - 1 \in T
    BY <2>2, <2>3 DEF T
  <2>5. <<x - 1, x>> \in R
    BY <2>2, <2>3, <1>2
  <2> QED
    BY <2>1, <2>4, <2>5
<1> QED
  BY <1>3

(* f[n] is what n steps make of a. *)
Iterates(f, a, step, k) == f[0] = a /\ \A n \in 0..k : n > 0 => f[n] = step[f[n - 1]]

(* A step can be repeated any number of times. *)
LEMMA IterationExists ==
  ASSUME NEW S, NEW step \in [S -> S], NEW a \in S, NEW k \in Nat
  PROVE  \E f \in [0..k -> S] : Iterates(f, a, step, k)
<1> USE DEF Iterates
<1> DEFINE M == {m \in Nat : \E f \in [0..m -> S] : Iterates(f, a, step, m)}
<1>1. 0 \in M
  <2>1. Iterates([n \in 0..0 |-> a], a, step, 0)
    OBVIOUS
  <2> QED
    BY <2>1
<1>2. ASSUME NEW m \in M PROVE m + 1 \in M
  <2>1. PICK f \in [0..m -> S] : Iterates(f, a, step, m)
    OBVIOUS
  <2> DEFINE h == [n \in 0..(m + 1) |-> IF n = m + 1 THEN step[f[m]] ELSE f[n]]
  <2>2. m \in Nat /\ m + 1 \in Nat /\ m \in 0..m /\ m + 1 \in 0..(m + 1)
    OBVIOUS
  <2>3. \A n \in 0..(m + 1) : n # m + 1 => n \in 0..m
    BY <2>2
  <2>4. h \in [0..(m + 1) -> S]
    BY <2>2, <2>3
  <2>5. h[0] = a /\ h[m + 1] = step[f[m]] /\ \A n \in 0..m : h[n] = f[n]
    BY <2>1, <2>2
  <2> HIDE DEF h
  <2>6. ASSUME NEW n \in 0..(m + 1), n > 0 PROVE h[n] = step[h[n - 1]]
    <3>1. CASE n = m + 1
      <4>1. n - 1 = m
        BY <2>2, <3>1
      <4> QED
        BY <2>2, <2>5, <3>1, <4>1
    <3>2. CASE n # m + 1
      <4>1. n \in 0..m /\ n - 1 \in 0..m
        BY <2>2, <2>6, <3>2
      <4> QED
        BY <2>1, <2>5, <2>6, <4>1
    <3> QED
      BY <3>1, <3>2
  <2> QED
    BY <2>2, <2>4, <2>5, <2>6
<1>3. M \in SUBSET Nat
  OBVIOUS
<1> HIDE DEF M
<1>4. M = Nat
  BY <1>1, <1>2, <1>3, SetInduction
<1> QED
  BY <1>4 DEF M

(* What rules r mean to groups whose targets mean m. *)
Above(r, m) ==
  [g \in Groups |->
     IF r[g] = NoGroup THEN {}
     ELSE (Self(g) \cup UNION {m[i] : i \in r[g].inc}) \ UNION {m[x] : x \in r[g].exc}]

Meanings == [Groups -> Expressions]

(* The meaning of rules is reached from nothing, level by level. *)
LEMMA MeaningIs ==
  ASSUME NEW r \in RuleMap
  PROVE  \E f \in [0..Cardinality(Groups) -> Meanings] :
           /\ \A n \in 1..Cardinality(Groups) : f[n] = Above(r, f[n - 1])
           /\ Meaning(r) = f[Cardinality(Groups)]
<1> DEFINE N == Cardinality(Groups)
           nothing == [g \in Groups |-> {}]
           step == [m \in Meanings |-> Above(r, m)]
           F(h) == [n \in 0..N |->
                      [g \in Groups |->
                         IF n = 0 \/ r[g] = NoGroup THEN {}
                         ELSE (Self(g) \cup UNION {h[n - 1][i] : i \in r[g].inc})
                                \ UNION {h[n - 1][x] : x \in r[g].exc}]]
           q == CHOOSE h : h = F(h)
<1>1. N \in Nat
  BY FS_CardinalityType, GroupsAssumption
<1>2. Meaning(r) = q[N]
  BY DEF Meaning
<1>3. nothing \in Meanings /\ step \in [Meanings -> Meanings]
  <2>1. ASSUME NEW m \in Meanings PROVE Above(r, m) \in Meanings
    BY <2>1 DEF Above, Meanings, Expressions, Self, RuleMap, Rules
  <2> QED
    BY <2>1 DEF Meanings, Expressions
<1>4. PICK f \in [0..N -> Meanings] : Iterates(f, nothing, step, N)
  <2> HIDE DEF N, nothing, step
  <2> QED
    BY <1>1, <1>3, IterationExists
<1>5. \A n \in 1..N : f[n] = Above(r, f[n - 1])
  <2> SUFFICES ASSUME NEW n \in 1..N PROVE f[n] = Above(r, f[n - 1])
    OBVIOUS
  <2>1. n \in 0..N /\ n - 1 \in 0..N /\ n > 0
    BY <1>1
  <2>2. f[n - 1] \in Meanings /\ f[n] = step[f[n - 1]]
    BY <1>4, <2>1 DEF Iterates
  <2> QED
    BY <2>2
<1>6. \E h : h = F(h)
  <2>1. ASSUME NEW n \in 0..N PROVE f[n] = F(f)[n]
    <3>1. CASE n = 0
      BY <1>4, <3>1 DEF Iterates
    <3>2. CASE n # 0
      <4>1. n \in 1..N
        BY <1>1, <3>2
      <4> QED
        BY <1>5, <3>2, <4>1 DEF Above
    <3> QED
      BY <3>1, <3>2
  <2>2. f = F(f)
    BY <2>1
  <2> HIDE DEF F
  <2> QED
    BY <2>2
<1>7. q = F(q)
  <2> HIDE DEF F
  <2> QED
    BY <1>6
<1> HIDE DEF q
<1>8. q[0] = nothing /\ \A n \in 1..N : q[n] = Above(r, q[n - 1])
  <2>1. q[0] = nothing
    BY <1>1, <1>7
  <2>2. ASSUME NEW n \in 1..N PROVE q[n] = Above(r, q[n - 1])
    <3>1. n \in 0..N /\ n # 0
      BY <1>1
    <3> QED
      BY <1>7, <3>1 DEF Above
  <2> QED
    BY <2>1, <2>2
<1>9. \A n \in 0..N : q[n] \in Meanings
  <2> DEFINE M == {n \in Nat : n <= N => q[n] \in Meanings}
  <2>1. 0 \in M
    BY <1>3, <1>8
  <2>2. ASSUME NEW n \in M PROVE n + 1 \in M
    <3>1. CASE n + 1 <= N
      <4>1. n + 1 \in 1..N /\ (n + 1) - 1 = n /\ q[n] \in Meanings
        BY <1>1, <3>1
      <4>2. q[n + 1] = Above(r, q[n])
        BY <1>8, <4>1
      <4>3. q[n + 1] = step[q[n]]
        BY <4>1, <4>2
      <4> QED
        BY <1>3, <4>1, <4>3
    <3>2. CASE ~(n + 1 <= N)
      BY <3>2
    <3> QED
      BY <3>1, <3>2
  <2> HIDE DEF M
  <2>3. M \in SUBSET Nat
    BY DEF M
  <2>4. M = Nat
    BY <2>1, <2>2, <2>3, SetInduction
  <2> QED
    BY <1>1, <2>4 DEF M
<1>10. q \in [0..N -> Meanings]
  <2>1. q = [n \in 0..N |-> q[n]]
    BY <1>7
  <2> QED
    BY <1>9, <2>1
<1> HIDE DEF N
<1>11. \E h \in [0..N -> Meanings] :
          (\A n \in 1..N : h[n] = Above(r, h[n - 1])) /\ Meaning(r) = h[N]
  BY <1>2, <1>8, <1>10
<1> QED
  BY <1>11 DEF N

(* Rules that lead down mean what groups hold that are settled: the levels  *)
(* of the meaning agree with it for one more group each.                    *)
LEMMA SettledMeans ==
  ASSUME GInv, NEW rank, LeadsDown(rank),
         \A g \in Groups : Settled(g),
         \A g \in Known(gc) : gt[g] # Unresolved,
         \A g \in Known(gc) : Targets(gc[g]) \subseteq Known(gc)
  PROVE  \A g \in Known(gc) : gt[g] = Meaning(gc)[g]
<1> DEFINE N == Cardinality(Groups)
           K == Known(gc)
<1>1. gc \in RuleMap /\ K \in SUBSET Groups /\ rank \in [Groups -> Nat]
  BY DEF GInv, TypeOK, MRTypeOK, Known, LeadsDown
<1>2. N \in Nat
  BY FS_CardinalityType, GroupsAssumption
<1>3. PICK f \in [0..N -> Meanings] :
        /\ \A n \in 1..N : f[n] = Above(gc, f[n - 1])
        /\ Meaning(gc) = f[N]
  BY <1>1, MeaningIs
<1> DEFINE Agreed(n) == {g \in K : \A m \in n..N : f[m][g] = gt[g]}
           M == {n \in Nat : n <= N => K \subseteq Agreed(n) \/ Cardinality(Agreed(n)) >= n}
<1>4. \A n \in Nat : Agreed(n) \in SUBSET Groups /\ IsFiniteSet(Agreed(n))
                     /\ Cardinality(Agreed(n)) \in Nat /\ Cardinality(Agreed(n)) <= N
  <2> SUFFICES ASSUME NEW n \in Nat
               PROVE  Agreed(n) \in SUBSET Groups /\ IsFiniteSet(Agreed(n))
                      /\ Cardinality(Agreed(n)) \in Nat /\ Cardinality(Agreed(n)) <= N
    OBVIOUS
  <2>1. Agreed(n) \in SUBSET Groups
    BY <1>1
  <2> HIDE DEF Agreed
  <2> QED
    BY <2>1, FS_Subset, FS_CardinalityType, GroupsAssumption
<1>5. 0 \in M
  <2> HIDE DEF Agreed
  <2> QED
    BY <1>4
<1>6. ASSUME NEW n \in M PROVE n + 1 \in M
  <2> SUFFICES ASSUME n + 1 <= N
               PROVE  K \subseteq Agreed(n + 1) \/ Cardinality(Agreed(n + 1)) >= n + 1
    OBVIOUS
  <2>1. n \in Nat /\ n <= N /\ n + 1 \in Nat
    BY <1>2
  <2>2. Agreed(n) \subseteq Agreed(n + 1)
    <3>1. \A m \in (n + 1)..N : m \in n..N
      BY <1>2, <2>1
    <3> QED
      BY <3>1
  <2>3. CASE K \subseteq Agreed(n)
    <3> HIDE DEF Agreed
    <3> QED
      BY <2>2, <2>3
  <2>4. CASE K \ Agreed(n) # {}
    <3>1. PICK g \in K \ Agreed(n) : \A h \in K \ Agreed(n) : ~(rank[h] < rank[g])
      <4>1. K \ Agreed(n) \in SUBSET Groups
        BY <1>1
      <4> HIDE DEF Agreed, K
      <4> QED
        BY <1>1, <2>4, <4>1, LeastRank
    <3>2. g \in K /\ g \in Groups /\ g \notin Agreed(n)
      <4> HIDE DEF Agreed
      <4> QED
        BY <1>1, <3>1
    <3>3. ASSUME NEW x \in Targets(gc[g]) PROVE x \in Agreed(n)
      <4>1. x \in K /\ <<g, x>> \in Edges
        BY <3>2 DEF GInv, Permitted
      <4>2. rank[x] < rank[g]
        <5>1. <<g, x>>[1] = g /\ <<g, x>>[2] = x
          OBVIOUS
        <5> QED
          BY <4>1, <5>1 DEF LeadsDown
      <4> HIDE DEF Agreed
      <4> QED
        BY <3>1, <4>1, <4>2
    <3>4. ASSUME NEW m \in (n + 1)..N PROVE f[m][g] = gt[g]
      <4>1. m \in 1..N /\ m - 1 \in n..N
        BY <1>2, <2>1
      <4>2. \A x \in Targets(gc[g]) : f[m - 1][x] = gt[x]
        BY <3>3, <4>1
      <4>3. gc[g] # NoGroup
        BY <3>2 DEF Known
      <4>4. f[m][g] = (Self(g) \cup UNION {f[m - 1][i] : i \in gc[g].inc})
                        \ UNION {f[m - 1][x] : x \in gc[g].exc}
        <5>1. f[m] = Above(gc, f[m - 1])
          BY <1>3, <4>1
        <5> QED
          BY <3>2, <4>3, <5>1 DEF Above
      <4>5. /\ {f[m - 1][i] : i \in gc[g].inc} = {gt[i] : i \in gc[g].inc}
            /\ {f[m - 1][x] : x \in gc[g].exc} = {gt[x] : x \in gc[g].exc}
        BY <4>2 DEF Targets
      <4>6. gt[g] = Built(g, gc[g].inc, gc[g].exc)
        <5>1. \A x \in Targets(gc[g]) : gt[x] # Unresolved
          BY <3>2
        <5> QED
          BY <3>2, <5>1 DEF Settled
      <4> QED
        BY <4>4, <4>5, <4>6 DEF Built
    <3>5. Agreed(n) \cup {g} \subseteq Agreed(n + 1)
      BY <2>2, <3>2, <3>4
    <3> HIDE DEF Agreed, N
    <3>6. Cardinality(Agreed(n) \cup {g}) = Cardinality(Agreed(n)) + 1
      BY <1>4, <2>1, <3>2, FS_AddElement
    <3>7. Cardinality(Agreed(n) \cup {g}) <= Cardinality(Agreed(n + 1))
      BY <1>4, <2>1, <3>5, FS_Subset
    <3>8. Cardinality(Agreed(n)) >= n
      BY <2>1, <2>4
    <3> QED
      BY <1>4, <2>1, <3>6, <3>7, <3>8
  <2> HIDE DEF Agreed
  <2> QED
    BY <2>3, <2>4
<1>7. N \in M
  <2>1. M \in SUBSET Nat
    OBVIOUS
  <2> HIDE DEF M
  <2>2. M = Nat
    BY <1>5, <1>6, <2>1, SetInduction
  <2> QED
    BY <1>2, <2>2
<1>8. K \subseteq Agreed(N)
  <2>1. CASE Cardinality(Agreed(N)) >= N
    <3> HIDE DEF Agreed
    <3>1. Cardinality(Groups) = Cardinality(Agreed(N))
      BY <1>2, <1>4, <2>1
    <3>2. Agreed(N) = Groups
      BY <1>2, <1>4, <3>1, FS_Subset, GroupsAssumption
    <3> QED
      BY <1>1, <3>2
  <2> HIDE DEF Agreed
  <2> QED
    BY <1>2, <1>7, <2>1
<1>9. N \in N..N
  BY <1>2
<1> QED
  BY <1>3, <1>8, <1>9

(* What the server serves when nothing is under way. *)
LEMMA QuietResolved ==
  ASSUME GInv, SInv, RulesLeadDown, OneThread
  PROVE  Resolved
<1> SUFFICES ASSUME boot = "serving", Quiet
             PROVE  \A g \in Groups :
                      gt[g] = IF rules[g] = NoGroup THEN Unresolved ELSE Meaning(rules)[g]
  BY DEF Resolved
<1>0. PICK rank : LeadsDown(rank)
  BY DEF RulesLeadDown
<1>1. PICK t : Threads = {t}
  BY DEF OneThread
<1>2. \A u \in Threads : pc[u] = "idle" /\ stack[u] = <<>> /\ ~Storing(u)
  BY DEF Quiet, SInv, Serves, Storing, In, Idle
<1>3. Behind = {}
  BY <1>2 DEF SInv, Follows, Behind
<1>4. gc = rules
  <2>1. \A g \in Groups : gc[g] = rules[g]
    BY <1>3 DEF SInv, Follows
  <2> QED
    BY <2>1 DEF GInv, TypeOK, MRTypeOK, RuleMap
<1>5. /\ \A g \in Known(gc) : gt[g] # Unresolved
      /\ \A g \in Known(gc) : Targets(gc[g]) \subseteq Known(gc)
  BY <1>2, <1>4 DEF SInv, Follows
<1>6. \A g \in Groups : Settled(g)
  BY <1>1, <1>2, QuietSettled DEF SInv
<1>7. \A g \in Known(gc) : gt[g] = Meaning(gc)[g]
  BY <1>0, <1>5, <1>6, SettledMeans
<1>8. \A g \in Groups : g \notin Known(gc) => gt[g] = Unresolved
  BY DEF SInv, Grounded
<1> QED
  BY <1>4, <1>7, <1>8 DEF Known

(* The resolver follows the rules: when no callback is under way, it holds  *)
(* what the stored rules mean and nothing else, whatever order the groups   *)
(* came in, however deep their rules nest and wherever the server crashed,  *)
(* as long as rules lead down, groups that are targets of rules are not     *)
(* destroyed, and one change is handled at a time.                          *)
THEOREM ResolverFollowsRules ==
  ASSUME RulesLeadDown, TargetsStay, OneThread
  PROVE  Spec => []Resolved
<1>0. PICK rank : LeadsDown(rank)
  BY DEF RulesLeadDown
<1> DEFINE I == GInv /\ LInv /\ AllNested(rank) /\ SInv
<1>1. Init => I
  <2>1. Init => LInv
    BY DEF Init, MRInit, LInv, Bound, Known
  <2>2. Init => AllNested(rank)
    BY DEF Init, MRInit, AllNested, Nested
  <2> QED
    BY <2>1, <2>2, FirstGood, FirstSettled
<1>2. I /\ [Next]_vars => I'
  BY <1>0, StepGood, StepLinks, StepNests, StepSettles
<1>3. I => Resolved
  BY QuietResolved
<1> QED
  BY <1>1, <1>2, <1>3, PTL DEF Spec
-----------------------------------------------------------------------------
(***************************************************************************)
(* Recursion, whatever rules clients ask for and in whatever order.  The   *)
(* check for cycles walks the rules that the target has already, and       *)
(* refuses the rule if the walk finds the group.                           *)
(***************************************************************************)
(* The groups that the walk finds, if X are those that it found before.    *)
Walk(m, p, X) ==
  {g \in Known(m) : \E x \in Targets(m[g]) : x = p \/ x \notin Known(m) \/ x \in X}

(* The walk of the code, step by step. *)
LEMMA WalkIs ==
  ASSUME NEW m \in RuleMap, NEW p \in Groups, NEW c \in Groups
  PROVE  \E f \in [0..Cardinality(Groups) -> SUBSET Groups] :
           /\ f[0] = Walk(m, p, {})
           /\ \A n \in 1..Cardinality(Groups) : f[n] = Walk(m, p, f[n - 1])
           /\ CycleFrom(m, c, p) <=> c \in f[Cardinality(Groups)]
<1> DEFINE N == Cardinality(Groups)
           first == Walk(m, p, {})
           step == [X \in SUBSET Groups |-> Walk(m, p, X)]
           F(h) == [n \in 0..N |->
                      LET deeper == IF n = 0 THEN {} ELSE h[n - 1]
                      IN  {g \in Known(m) : \E x \in Targets(m[g]) :
                             x = p \/ x \notin Known(m) \/ x \in deeper}]
           q == CHOOSE h : h = F(h)
<1>1. N \in Nat
  BY FS_CardinalityType, GroupsAssumption
<1>2. CycleFrom(m, c, p) <=> c \in q[N]
  BY DEF CycleFrom
<1>3. first \in SUBSET Groups /\ step \in [SUBSET Groups -> SUBSET Groups]
  BY DEF Walk, Known
<1>4. PICK f \in [0..N -> SUBSET Groups] : Iterates(f, first, step, N)
  <2> HIDE DEF N, first, step
  <2> QED
    BY <1>1, <1>3, IterationExists
<1>5. \A n \in 1..N : f[n] = Walk(m, p, f[n - 1])
  <2> SUFFICES ASSUME NEW n \in 1..N PROVE f[n] = Walk(m, p, f[n - 1])
    OBVIOUS
  <2>1. n \in 0..N /\ n - 1 \in 0..N /\ n > 0
    BY <1>1
  <2>2. f[n - 1] \in SUBSET Groups /\ f[n] = step[f[n - 1]]
    BY <1>4, <2>1 DEF Iterates
  <2> QED
    BY <2>2
<1>6. \E h : h = F(h)
  <2>1. ASSUME NEW n \in 0..N PROVE f[n] = F(f)[n]
    <3>1. CASE n = 0
      BY <1>4, <3>1 DEF Iterates, Walk
    <3>2. CASE n # 0
      <4>1. n \in 1..N
        BY <1>1, <3>2
      <4> QED
        BY <1>5, <3>2, <4>1 DEF Walk
    <3> QED
      BY <3>1, <3>2
  <2>2. f = F(f)
    BY <2>1
  <2> HIDE DEF F
  <2> QED
    BY <2>2
<1>7. q = F(q)
  <2> HIDE DEF F
  <2> QED
    BY <1>6
<1> HIDE DEF q
<1>8. q[0] = first /\ \A n \in 1..N : q[n] = Walk(m, p, q[n - 1])
  <2>1. q[0] = first
    BY <1>1, <1>7 DEF Walk
  <2>2. ASSUME NEW n \in 1..N PROVE q[n] = Walk(m, p, q[n - 1])
    <3>1. n \in 0..N /\ n # 0
      BY <1>1
    <3>2. q[n] = F(q)[n]
      <4> HIDE DEF F
      <4> QED
        BY <1>7
    <3>3. F(q)[n] = {g \in Known(m) : \E x \in Targets(m[g]) :
                       x = p \/ x \notin Known(m) \/ x \in q[n - 1]}
      BY <3>1
    <3> QED
      BY <3>2, <3>3 DEF Walk
  <2> QED
    BY <2>1, <2>2
<1>9. q \in [0..N -> SUBSET Groups]
  <2>1. q = [n \in 0..N |-> q[n]]
    BY <1>7
  <2>2. ASSUME NEW n \in 0..N PROVE q[n] \in SUBSET Groups
    <3>1. n = 0 \/ n \in 1..N
      BY <1>1
    <3> QED
      BY <1>8, <3>1 DEF Walk, Known
  <2> QED
    BY <2>1, <2>2
<1> HIDE DEF N, first
<1>10. \E h \in [0..N -> SUBSET Groups] :
         /\ h[0] = first /\ \A n \in 1..N : h[n] = Walk(m, p, h[n - 1])
         /\ CycleFrom(m, c, p) <=> c \in h[N]
  BY <1>2, <1>8, <1>9
<1> QED
  BY <1>10 DEF N, first

(* A walk that does not find c by the number of groups never would: it     *)
(* finds nothing new somewhere on the way.                                 *)
LEMMA WalkCloses ==
  ASSUME NEW m \in RuleMap, NEW p \in Groups, NEW c \in Groups, ~CycleFrom(m, c, p)
  PROVE  \E X \in SUBSET Groups : c \notin X /\ Walk(m, p, X) \subseteq X
<1> DEFINE N == Cardinality(Groups)
<1>1. N \in Nat /\ IsFiniteSet(Groups)
  BY FS_CardinalityType, GroupsAssumption
<1>2. PICK f \in [0..N -> SUBSET Groups] :
        /\ f[0] = Walk(m, p, {})
        /\ \A n \in 1..N : f[n] = Walk(m, p, f[n - 1])
        /\ c \notin f[N]
  BY WalkIs
<1>3. \A X, Y : X \subseteq Y => Walk(m, p, X) \subseteq Walk(m, p, Y)
  BY DEF Walk
<1>4. \A T \in SUBSET Groups :
        Cardinality(T) \in Nat /\ Cardinality(T) <= N /\ (Cardinality(T) = N => T = Groups)
  BY <1>1, FS_Subset, FS_CardinalityType
<1>5. \A S, T \in SUBSET Groups : S \subseteq T /\ S # T => Cardinality(S) < Cardinality(T)
  <2> SUFFICES ASSUME NEW S \in SUBSET Groups, NEW T \in SUBSET Groups, S \subseteq T, S # T
               PROVE  Cardinality(S) < Cardinality(T)
    OBVIOUS
  <2>1. IsFiniteSet(T) /\ S \in SUBSET T
    BY <1>1, FS_Subset
  <2>2. Cardinality(S) <= Cardinality(T) /\ Cardinality(S) # Cardinality(T)
    BY <2>1, FS_Subset
  <2> QED
    BY <1>4, <2>2
<1> HIDE DEF N
<1> DEFINE Grows == {j \in Nat : j <= N => \A n \in 0..j : f[n] \subseteq f[j]}
<1>6. Grows = Nat
  <2>1. 0 \in Grows
    OBVIOUS
  <2>2. ASSUME NEW j \in Grows PROVE j + 1 \in Grows
    <3> SUFFICES ASSUME j + 1 <= N, NEW n \in 0..(j + 1)
                 PROVE  f[n] \subseteq f[j + 1]
      OBVIOUS
    <3>1. /\ j \in Nat /\ j + 1 \in 1..N /\ (j + 1) - 1 = j
          /\ \A k \in 0..j : f[k] \subseteq f[j]
      BY <1>1
    <3>2. f[j + 1] = Walk(m, p, f[j])
      BY <1>2, <3>1
    <3>3. f[j] \subseteq f[j + 1]
      <4>1. CASE j = 0
        BY <1>2, <1>3, <3>2, <4>1
      <4>2. CASE j # 0
        <5>1. j \in 1..N /\ j - 1 \in 0..j
          BY <1>1, <3>1, <4>2
        <5>2. f[j] = Walk(m, p, f[j - 1]) /\ f[j - 1] \subseteq f[j]
          BY <1>2, <3>1, <5>1
        <5> QED
          BY <1>3, <3>2, <5>2
      <4> QED
        BY <4>1, <4>2
    <3>4. CASE n = j + 1
      BY <3>4
    <3>5. CASE n # j + 1
      <4>1. n \in 0..j
        BY <3>1, <3>5
      <4> QED
        BY <3>1, <3>3, <4>1
    <3> QED
      BY <3>4, <3>5
  <2>3. Grows \in SUBSET Nat
    OBVIOUS
  <2> HIDE DEF Grows
  <2> QED
    BY <2>1, <2>2, <2>3, SetInduction
<1>7. \A j \in 0..N : \A n \in 0..j : f[n] \subseteq f[j]
  BY <1>1, <1>6
<1> HIDE DEF Grows
<1>8. ASSUME \A n \in 1..N : f[n] # f[n - 1]
      PROVE  FALSE
  <2> DEFINE Many == {j \in Nat : j <= N => Cardinality(f[j]) >= j}
  <2>1. 0 \in Many
    <3>1. 0 \in 0..N
      BY <1>1
    <3> QED
      BY <1>4, <3>1
  <2>2. ASSUME NEW j \in Many PROVE j + 1 \in Many
    <3> SUFFICES ASSUME j + 1 <= N PROVE Cardinality(f[j + 1]) >= j + 1
      OBVIOUS
    <3>1. /\ j \in Nat /\ j + 1 \in 1..N /\ (j + 1) - 1 = j /\ j \in 0..N /\ j + 1 \in 0..N
          /\ j \in 0..(j + 1) /\ Cardinality(f[j]) >= j
      BY <1>1
    <3>2. f[j] \subseteq f[j + 1] /\ f[j] # f[j + 1]
      BY <1>7, <1>8, <3>1
    <3>3. f[j] \in SUBSET Groups /\ f[j + 1] \in SUBSET Groups
      BY <3>1
    <3>4. Cardinality(f[j]) < Cardinality(f[j + 1])
      BY <1>5, <3>2, <3>3
    <3>5. Cardinality(f[j]) \in Nat /\ Cardinality(f[j + 1]) \in Nat
      BY <1>4, <3>3
    <3> QED
      BY <3>1, <3>4, <3>5
  <2>3. Many \in SUBSET Nat
    OBVIOUS
  <2> HIDE DEF Many
  <2>4. Many = Nat
    BY <2>1, <2>2, <2>3, SetInduction
  <2>5. Cardinality(f[N]) >= N /\ f[N] \in SUBSET Groups
    BY <1>1, <2>4 DEF Many
  <2>6. Cardinality(f[N]) \in Nat /\ Cardinality(f[N]) <= N
    BY <1>4, <2>5
  <2>7. Cardinality(f[N]) = N
    BY <1>1, <2>5, <2>6
  <2>8. f[N] = Groups
    BY <1>4, <2>5, <2>7
  <2> QED
    BY <1>2, <2>8
<1>9. PICK n \in 1..N : f[n] = f[n - 1]
  BY <1>8
<1>10. n \in 0..N /\ n - 1 \in 0..N /\ n \in 0..N /\ N \in 0..N
  BY <1>1
<1>11. f[n] \in SUBSET Groups /\ f[n] \subseteq f[N] /\ Walk(m, p, f[n]) = f[n]
  BY <1>2, <1>7, <1>9, <1>10
<1> QED
  BY <1>2, <1>11

(* Rules lead down if there is a rank of the groups that they lower. *)
Lowers(rank, m) ==
  /\ rank \in [Groups -> Nat]
  /\ \A g \in Known(m) : \A x \in Targets(m[g]) : rank[x] < rank[g]

(* A rule that is accepted leaves the rules leading down.  The groups that *)
(* the walk does not find stay below all others.                           *)
LEMMA AcceptedLowers ==
  ASSUME NEW m \in RuleMap, NEW rank, Lowers(rank, m), NEW p \in Groups, NEW c \in Groups,
         p # c, MayExpand(m, p, c), NEW r \in Rules, Targets(r) = Targets(m[p]) \cup {c},
         NEW k \in RuleMap, k[p] = r, \A g \in Groups : g # p => k[g] = m[g]
  PROVE  \E higher : Lowers(higher, k)
<1>1. PICK X \in SUBSET Groups : c \notin X /\ Walk(m, p, X) \subseteq X
  BY WalkCloses DEF MayExpand
<1> DEFINE D == Groups \ (X \cup {p})
           higher == [g \in Groups |-> IF g \in D THEN rank[g] ELSE rank[g] + rank[c] + 1]
<1>2. c \in D /\ p \notin D /\ p \in Known(m) /\ \A g \in Groups : rank[g] \in Nat
  BY <1>1 DEF MayExpand, Known, Lowers
<1>3. \A g \in Known(m) : Targets(m[g]) \subseteq Groups
  BY DEF RuleMap, Known, Rules, Targets
<1>4. \A g \in Known(m) : g \in D => Targets(m[g]) \subseteq D
  BY <1>1, <1>3 DEF Walk
<1>5. higher \in [Groups -> Nat]
  BY <1>2
<1>6. ASSUME NEW g \in Known(k), NEW x \in Targets(k[g])
      PROVE  higher[x] < higher[g]
  <2>1. g \in Groups /\ (g # p => g \in Known(m) /\ k[g] = m[g])
    BY DEF Known
  <2>2. CASE g = p /\ x = c
    <3>1. higher[x] = rank[c] /\ higher[g] = rank[p] + rank[c] + 1
      BY <1>2, <2>2
    <3> QED
      BY <1>2, <3>1
  <2>3. CASE g \in Known(m) /\ x \in Targets(m[g])
    <3>1. x \in Groups /\ rank[x] < rank[g] /\ (g \in D => x \in D)
      BY <1>3, <1>4, <2>3 DEF Lowers
    <3>2. /\ higher[x] = IF x \in D THEN rank[x] ELSE rank[x] + rank[c] + 1
          /\ higher[g] = IF g \in D THEN rank[g] ELSE rank[g] + rank[c] + 1
      BY <2>1, <3>1
    <3>3. rank[x] \in Nat /\ rank[g] \in Nat /\ rank[c] \in Nat
      BY <1>2, <2>1, <3>1
    <3> HIDE DEF D, higher
    <3> QED
      BY <3>1, <3>2, <3>3
  <2> QED
    BY <1>2, <2>1, <2>2, <2>3
<1> QED
  BY <1>5, <1>6 DEF Lowers

(***************************************************************************)
(* While the resolver follows a change, storage does not change.  Resolve  *)
(* goes down a rank of the stored rules.                                   *)
(***************************************************************************)
LowFrames(rank) ==
  {f \in GoodFrames : f.fn = "Resolve" => \A x \in Targets(f.rules) : rank[x] < rank[f.group]}

(* Call f may come out of call g, whichever groups affected which before.  *)
Under(rank, f, g) ==
  /\ f.fn # "SyncGroup"
  /\ f.fn = "resolveChanges" => g.fn # "Resolve"
  /\ f.fn = "Resolve" /\ g.fn = "Resolve" => rank[f.group] < rank[g.group]

Beneath(rank) == {p \in LowFrames(rank) \X LowFrames(rank) : Under(rank, p[1], p[2])}

Descends(rank, s) == s \in Seq(LowFrames(rank)) /\ Ordered(Beneath(rank), s)

(* Calls stay in that order. *)
LEMMA DescentKept ==
  ASSUME NEW rank \in [Groups -> Nat], NEW s, Descends(rank, s), s # <<>>,
         NEW f \in LowFrames(rank), NEW g \in LowFrames(rank)
  PROVE  /\ Descends(rank, Tail(s))
         /\ Same(f, s[1]) \/ s[1].fn = "SyncGroup" => Descends(rank, <<f>> \o Tail(s))
         /\ Same(f, s[1]) /\ Under(rank, g, f) => Descends(rank, <<g, f>> \o Tail(s))
<1> DEFINE S == LowFrames(rank)
           R == Beneath(rank)
<1>1. \A a, b \in S : <<a, b>> \in R <=> Under(rank, a, b)
  BY DEF Beneath
<1>2. \A a \in S : a.fn \in {"SyncGroup", "resolveChanges", "Resolve"} /\ a.group \in Groups
  BY DEF LowFrames, GoodFrames, Frames
<1>3. s \in Seq(S) /\ Ordered(R, s)
  BY DEF Descends
<1> HIDE DEF S, R
<1>4. OrdersCalls(R, S)
  <2>1. ASSUME NEW a \in S, NEW b \in S, NEW c \in S, Under(rank, a, b), Under(rank, b, c)
        PROVE  Under(rank, a, c)
    <3>1. rank[a.group] \in Nat /\ rank[b.group] \in Nat /\ rank[c.group] \in Nat
      BY <1>2
    <3> QED
      BY <1>2, <2>1, <3>1 DEF Under
  <2>2. ASSUME NEW a \in S, NEW b \in S, NEW c \in S, Same(b, a)
        PROVE  /\ Under(rank, a, c) => Under(rank, b, c)
               /\ Under(rank, c, a) => Under(rank, c, b)
    BY <2>2 DEF Same, Under
  <2>3. \A a, b \in S : Under(rank, a, b) => a.fn # "SyncGroup"
    BY DEF Under
  <2> QED
    BY <1>1, <2>1, <2>2, <2>3 DEF OrdersCalls
<1>5. f \in S /\ g \in S
  BY DEF S
<1>6. Tail(s) \in Seq(S) /\ <<f>> \o Tail(s) \in Seq(S) /\ <<g, f>> \o Tail(s) \in Seq(S)
  BY <1>3, <1>5, Shapes
<1>7. /\ Ordered(R, Tail(s))
      /\ Same(f, s[1]) \/ s[1].fn = "SyncGroup" => Ordered(R, <<f>> \o Tail(s))
      /\ Same(f, s[1]) /\ <<g, f>> \in R => Ordered(R, <<g, f>> \o Tail(s))
  BY <1>3, <1>4, <1>5, OrderKept
<1> QED
  BY <1>1, <1>5, <1>6, <1>7 DEF Descends, S, R

(* The rules that the resolver knows, if it is not about to store others.  *)
Agrees ==
  \A g \in Groups : \/ gc[g] \in {NoGroup, rules[g]}
                    \/ \E t \in Threads : Storing(t) /\ g = target[t]

(* A step of one of the resolver's calls. *)
LEMMA ResolverStepDescends ==
  ASSUME GInv, Agrees, NEW t \in Threads, Threads = {t}, ResolverStep(t),
         NEW rank, Lowers(rank, rules), Descends(rank, stack[t])
  PROVE  Descends(rank, stack'[t])
<1> DEFINE s == stack[t]
<1>0. /\ MRStep(t) /\ pc[t] = "resolve" /\ rank \in [Groups -> Nat] /\ gc \in RuleMap
      /\ gt \in [Groups -> Expressions \cup {Unresolved}] /\ ga \in [Groups -> SUBSET Groups]
      /\ \A x \in Groups : \A g \in ga[x] : <<g, x>> \in Edges
  BY DEF ResolverStep, Lowers, GInv, TypeOK, MRTypeOK
<1>1. ~Idle(t) /\ s # <<>> /\ s \in Seq(LowFrames(rank))
  BY <1>0, StepReplaces DEF Descends, Idle
<1>2. /\ Top(t) = s[1] /\ s[1] \in LowFrames(rank) /\ Tail(s) \in Seq(LowFrames(rank))
  BY <1>1, Shapes DEF Top
<1>3. \A f, g : Replaces(t, f, g)
  BY <1>0, StepReplaces
<1>4. /\ Return(t) => stack'[t] = Tail(s)
      /\ \A f : Continue(t, f) => stack'[t] = <<f>> \o Tail(s)
      /\ \A f, g : Invoke(t, f, g) => stack'[t] = <<g, f>> \o Tail(s)
  BY DEF Return, Continue, Invoke, GInv
<1> DEFINE f == s[1]
<1>5. /\ f \in GoodFrames /\ f \in Frames /\ f.group \in Groups /\ f.rules \in Rules
      /\ f.operand \in Groups /\ f.cascade \in SUBSET Groups
      /\ f.fn = "Resolve" => \A x \in Targets(f.rules) : rank[x] < rank[f.group]
  <2>1. f \in GoodFrames /\ f \in Frames
    BY <1>2 DEF LowFrames, GoodFrames
  <2> QED
    BY <1>2, <2>1 DEF LowFrames, Frames
<1>6. Top(t) = f
  BY <1>2
<1> HIDE DEF s, f
<1>7. ASSUME NEW c, NEW g,
             c.fn = "Resolve" => \A x \in Targets(c.rules) : rank[x] < rank[c.group],
             g.fn = "Resolve" => \A x \in Targets(g.rules) : rank[x] < rank[g.group],
             \/ Return(t)
             \/ Continue(t, c) /\ (Same(c, f) \/ f.fn = "SyncGroup")
             \/ Invoke(t, c, g) /\ Same(c, f) /\ Under(rank, g, c)
      PROVE  Descends(rank, stack'[t])
  <2>1. CASE Return(t)
    BY <1>0, <1>1, <1>2, <1>4, <2>1, DescentKept DEF s
  <2>2. CASE Continue(t, c) /\ (Same(c, f) \/ f.fn = "SyncGroup")
    <3>1. c \in LowFrames(rank)
      BY <1>3, <1>7, <2>2 DEF Replaces, LowFrames
    <3> QED
      BY <1>0, <1>1, <1>4, <2>2, <3>1, DescentKept DEF s, f
  <2>3. CASE Invoke(t, c, g) /\ Same(c, f) /\ Under(rank, g, c)
    <3>1. c \in LowFrames(rank) /\ g \in LowFrames(rank)
      BY <1>3, <1>7, <2>3 DEF Replaces, LowFrames
    <3> QED
      BY <1>0, <1>1, <1>4, <2>3, <3>1, DescentKept DEF s, f
  <2> QED
    BY <1>7, <2>1, <2>2, <2>3
<1>8. \A g : /\ ChangesFrame(g).fn = "resolveChanges" /\ ChangesFrame(g).group = g
             /\ ResolveFrame(g).fn = "Resolve" /\ ResolveFrame(g).group = g
             /\ Targets(ResolveFrame(g).rules) = {}
  BY DEF ChangesFrame, ResolveFrame, Frame, NoRules, Targets
<1>9. /\ \A n : LET c == [f EXCEPT !.next = n] IN Same(c, f) /\ c.rules = f.rules
      /\ \A v, n : LET c == [f EXCEPT !.cascade = v, !.next = n] IN Same(c, f) /\ c.rules = f.rules
      /\ \A g : LET c == [f EXCEPT !.visited = @ \cup {g}] IN Same(c, f) /\ c.rules = f.rules
      /\ \A o, n : LET c == [f EXCEPT !.operand = o, !.next = n] IN Same(c, f) /\ c.rules = f.rules
  BY <1>5 DEF Same, Frames
<1>10. ASSUME NEW g \in Groups, NEW x \in Expressions
       PROVE  /\ Same(Combined(f, g, x), f)
              /\ Targets(Combined(f, g, x).rules) \subseteq Targets(f.rules)
  <2>1. IsCombined(Combined(f, g, x), f, g, x)
    BY <1>5, CombinedIs
  <2> QED
    BY <1>5, <2>1 DEF IsCombined, Same, Rules, Targets
<1>11. CASE SyncStore(t)
  <2> DEFINE c == [f EXCEPT !.next = "link"]
  <2>1. f.fn = "SyncGroup" /\ Invoke(t, c, ResolveFrame(f.group))
    BY <1>6, <1>11 DEF SyncStore, In, Top
  <2>2. Same(c, f) /\ c.fn = "SyncGroup"
    BY <1>9, <2>1 DEF Same
  <2> HIDE DEF c
  <2>3. Under(rank, ResolveFrame(f.group), c)
    BY <1>8, <2>2 DEF Under
  <2> QED
    BY <1>7, <1>8, <2>1, <2>2, <2>3
<1>12. CASE SyncLink(t)
  <2>1. f.fn = "SyncGroup" /\ Continue(t, ChangesFrame(f.group))
    BY <1>6, <1>12 DEF SyncLink, In, Top
  <2> QED
    BY <1>7, <1>8, <2>1
<1>13. CASE ChangesResolve(t)
  <2> DEFINE c == [f EXCEPT !.next = "affected"]
  <2>1. f.fn = "resolveChanges" /\ Invoke(t, c, ResolveFrame(f.group))
    BY <1>6, <1>13 DEF ChangesResolve, In, Top
  <2>2. Same(c, f) /\ c.fn = "resolveChanges"
    BY <1>9, <2>1 DEF Same
  <2> HIDE DEF c
  <2>3. Under(rank, ResolveFrame(f.group), c)
    BY <1>8, <2>2 DEF Under
  <2> QED
    BY <1>7, <1>8, <2>1, <2>2, <2>3
<1>14. CASE ChangesAffected(t)
  <2> DEFINE c == [f EXCEPT !.cascade = ga[f.group], !.next = "cascade"]
  <2>1. f.fn = "resolveChanges" /\ Continue(t, c)
    BY <1>6, <1>14 DEF ChangesAffected, In, Top
  <2>2. Same(c, f) /\ c.fn = "resolveChanges"
    BY <1>9, <2>1 DEF Same
  <2> HIDE DEF c
  <2> QED
    BY <1>7, <1>8, <2>1, <2>2
<1>15. ASSUME NEW g \in Groups, ChangesCascade(t, g)
       PROVE  Descends(rank, stack'[t])
  <2> DEFINE c == [f EXCEPT !.visited = @ \cup {g}]
  <2>1. f.fn = "resolveChanges" /\ Invoke(t, c, ChangesFrame(g))
    BY <1>6, <1>15 DEF ChangesCascade, In, Top
  <2>2. Same(c, f) /\ c.fn = "resolveChanges"
    BY <1>9, <2>1 DEF Same
  <2> HIDE DEF c
  <2>3. Under(rank, ChangesFrame(g), c)
    BY <1>8, <2>2 DEF Under
  <2> QED
    BY <1>7, <1>8, <2>1, <2>2, <2>3
<1>16. CASE ChangesReturn(t) \/ ResolveWrite(t)
  <2>1. Return(t)
    BY <1>16 DEF ChangesReturn, ResolveWrite
  <2> QED
    BY <1>5, <1>7, <2>1
<1>17. CASE ResolveLookup(t)
  <2>1. CASE Return(t)
    BY <1>5, <1>7, <2>1
  <2>2. CASE gc[f.group] # NoGroup /\ ~Return(t)
    <3> DEFINE c == [f EXCEPT !.rules = gc[f.group], !.expr = Self(f.group), !.next = "operand"]
    <3>1. f.fn = "Resolve" /\ Continue(t, c)
      BY <1>6, <1>17, <2>2 DEF ResolveLookup, In, Top
    <3>2. Same(c, f) /\ c.rules = gc[f.group]
      BY <1>5 DEF Same, Frames
    <3> HIDE DEF c
    <3>3. ~Storing(t)
      BY <1>0, <1>6, <3>1 DEF Storing, In, Top
    <3>4. gc[f.group] = rules[f.group] /\ f.group \in Known(rules)
      BY <1>5, <2>2, <3>3 DEF Agrees, Known
    <3>5. \A x \in Targets(c.rules) : rank[x] < rank[c.group]
      BY <3>2, <3>4 DEF Lowers, Same
    <3> QED
      BY <1>5, <1>7, <3>1, <3>2, <3>5
  <2> QED
    BY <1>6, <1>17, <2>1, <2>2 DEF ResolveLookup
<1>18. ASSUME NEW g \in Groups, ResolveOperand(t, g)
       PROVE  Descends(rank, stack'[t])
  <2>1. /\ f.fn = "Resolve" /\ g \in Targets(f.rules)
        /\ \/ gt[g] # Unresolved /\ Continue(t, Combined(f, g, gt[g]))
           \/ Invoke(t, [f EXCEPT !.operand = g, !.next = "fetch"], ResolveFrame(g))
    BY <1>6, <1>18 DEF ResolveOperand, In, Top, NextOperands, Targets
  <2>2. CASE gt[g] # Unresolved /\ Continue(t, Combined(f, g, gt[g]))
    <3> DEFINE c == Combined(f, g, gt[g])
    <3>1. Same(c, f) /\ Targets(c.rules) \subseteq Targets(f.rules)
      BY <1>0, <1>10, <2>2
    <3> HIDE DEF c
    <3>2. c.fn = "Resolve" => \A x \in Targets(c.rules) : rank[x] < rank[c.group]
      BY <1>5, <3>1 DEF Same
    <3> QED
      BY <1>7, <2>2, <3>1, <3>2 DEF c
  <2>3. CASE Invoke(t, [f EXCEPT !.operand = g, !.next = "fetch"], ResolveFrame(g))
    <3> DEFINE c == [f EXCEPT !.operand = g, !.next = "fetch"]
    <3>1. Same(c, f) /\ c.rules = f.rules
      BY <1>9
    <3>2. Invoke(t, c, ResolveFrame(g))
      BY <2>3
    <3> HIDE DEF c
    <3>3. Under(rank, ResolveFrame(g), c)
      BY <1>5, <1>8, <2>1, <3>1 DEF Under, Same
    <3>4. c.fn = "Resolve" => \A x \in Targets(c.rules) : rank[x] < rank[c.group]
      BY <1>5, <3>1 DEF Same
    <3> QED
      BY <1>7, <1>8, <3>1, <3>2, <3>3, <3>4
  <2> QED
    BY <2>1, <2>2, <2>3
<1>19. CASE ResolveFetch(t)
  <2> DEFINE x == IF gt[f.operand] = Unresolved THEN {} ELSE gt[f.operand]
             c == Combined(f, f.operand, x)
  <2>1. x \in Expressions
    BY <1>0, <1>5 DEF Expressions
  <2>2. Return(t) \/ Continue(t, c)
    BY <1>6, <1>19 DEF ResolveFetch
  <2> HIDE DEF x
  <2>3. Same(c, f) /\ Targets(c.rules) \subseteq Targets(f.rules)
    BY <1>5, <1>10, <2>1
  <2> HIDE DEF c
  <2>4. c.fn = "Resolve" => \A y \in Targets(c.rules) : rank[y] < rank[c.group]
    BY <1>5, <2>3 DEF Same
  <2> QED
    BY <1>5, <1>7, <2>2, <2>3, <2>4
<1> QED
  BY <1>0, <1>11, <1>12, <1>13, <1>14, <1>15, <1>16, <1>17, <1>18, <1>19 DEF MRStep

(* What a thread is doing, if it is the only one. *)
Attends(t) ==
  /\ pc[t] # "resolve" => stack[t] = <<>>
  /\ pc[t] \in {"load", "resolve"} => rules[target[t]] # NoGroup
  /\ \A i \in 1..Len(stack[t]) : stack[t][i].fn = "SyncGroup" =>
       stack[t][i].group = target[t] /\ stack[t][i].rules = rules[target[t]]

DInv ==
  /\ Agrees /\ bootTodo \subseteq Known(rules) /\ (boot = "serving" => bootTodo = {})
  /\ \A t \in Threads : Attends(t)
  /\ \E rank : Lowers(rank, rules) /\ \A t \in Threads : Descends(rank, stack[t])

NoRuleOnItself == \A e \in Edges : e[1] # e[2]

LEMMA EmptyDescends == \A rank : Descends(rank, <<>>)
  BY DEF Descends, Ordered

(* A client writes: the rules that result still lead down. *)
LEMMA ClientDescends ==
  ASSUME GInv, DInv, NoRuleOnItself, NEW t \in Threads, Threads = {t}, Client(t)
  PROVE  DInv'
<1>1. PICK rank : Lowers(rank, rules)
  BY DEF DInv
<1>2. PICK g \in Groups, r \in Rules \cup {NoGroup} : WriteGroup(t, g, r)
  BY WriteGood
<1>3. /\ boot = "serving" /\ pc[t] = "idle" /\ rules' = [rules EXCEPT ![g] = r]
      /\ pc' = [pc EXCEPT ![t] = IF r = NoGroup THEN "remove" ELSE "load"]
      /\ target' = [target EXCEPT ![t] = g] /\ UNCHANGED <<gc, stack, boot, bootTodo>>
  BY <1>2 DEF WriteGroup, mrVars
<1>4. /\ rules \in RuleMap /\ rules' \in RuleMap /\ pc'[t] \in {"load", "remove"} /\ target'[t] = g
      /\ pc'[t] = "load" => rules'[g] # NoGroup
      /\ stack[t] = <<>> /\ bootTodo = {} /\ ~Storing(t) /\ Storing(t)'
      /\ \A h \in Groups : h # g => rules'[h] = rules[h]
  <2>1. stack[t] = <<>> /\ bootTodo = {}
    BY <1>3 DEF DInv, Attends
  <2> QED
    BY <1>2, <1>3, <2>1 DEF GInv, TypeOK, RuleMap, Storing, In, Idle
<1>5. \E higher : Lowers(higher, rules')
  <2>1. ASSUME NEW p \in Groups, NEW c \in Groups, NEW k \in Rules,
               WriteGroup(t, p, k), AddRule(t, p, c), Targets(k) = Targets(rules[p]) \cup {c}
        PROVE  \E higher : Lowers(higher, rules')
    <3>1. rules'[p] = k /\ \A h \in Groups : h # p => rules'[h] = rules[h]
      BY <1>4, <2>1 DEF WriteGroup, RuleMap
    <3>2. p # c /\ MayExpand(rules, p, c)
      BY <2>1 DEF AddRule, NoRuleOnItself
    <3> QED
      BY <1>1, <1>4, <2>1, <3>1, <3>2, AcceptedLowers
  <2>2. ASSUME NEW p \in Groups, NEW k \in Rules \cup {NoGroup}, WriteGroup(t, p, k),
               \/ k = NoGroup \/ k = NoRules
               \/ rules[p] # NoGroup /\ Targets(k) \subseteq Targets(rules[p])
        PROVE  Lowers(rank, rules')
    <3>1. rules'[p] = k /\ \A h \in Groups : h # p => rules'[h] = rules[h]
      BY <1>4, <2>2 DEF WriteGroup, RuleMap
    <3>2. Targets(NoRules) = {}
      BY DEF NoRules, Targets
    <3> QED
      BY <1>1, <2>2, <3>1, <3>2 DEF Lowers, Known
  <2>3. NoRules \in Rules
    BY DEF NoRules, Rules
  <2>4. CASE \E p \in Groups : CreateGroup(t, p) \/ DestroyGroup(t, p)
    BY <2>2, <2>3, <2>4 DEF CreateGroup, DestroyGroup
  <2>5. ASSUME NEW p \in Groups, NEW c \in Groups, AddRule(t, p, c)
        PROVE  \E higher : Lowers(higher, rules')
    <3>1. rules[p] \in Rules
      BY <1>4, <2>5 DEF AddRule, MayExpand, RuleMap
    <3>2. /\ Include(rules[p], c) \in Rules /\ Exclude(rules[p], c) \in Rules
          /\ Targets(Include(rules[p], c)) = Targets(rules[p]) \cup {c}
          /\ Targets(Exclude(rules[p], c)) = Targets(rules[p]) \cup {c}
      BY <3>1 DEF Include, Exclude, Rules, Targets
    <3>3. WriteGroup(t, p, Include(rules[p], c)) \/ WriteGroup(t, p, Exclude(rules[p], c))
      BY <2>5 DEF AddRule
    <3> QED
      BY <2>1, <2>5, <3>2, <3>3
  <2>6. ASSUME NEW p \in Groups, NEW c \in Groups, DropRule(t, p, c)
        PROVE  Lowers(rank, rules')
    <3>1. rules[p] \in Rules /\ rules[p] # NoGroup /\ WriteGroup(t, p, Drop(rules[p], c))
      BY <1>4, <2>6 DEF DropRule, RuleMap
    <3>2. Drop(rules[p], c) \in Rules /\ Targets(Drop(rules[p], c)) \subseteq Targets(rules[p])
      BY <3>1 DEF Drop, Rules, Targets
    <3> QED
      BY <2>2, <3>1, <3>2
  <2> QED
    BY <2>4, <2>5, <2>6 DEF Client
<1>6. Agrees'
  <2>1. ASSUME NEW h \in Groups, h # g PROVE gc'[h] \in {NoGroup, rules'[h]}
    BY <1>3, <1>4, <2>1 DEF DInv, Agrees
  <2> QED
    BY <1>4, <2>1 DEF Agrees
<1>7. Attends(t)'
  BY <1>3, <1>4 DEF Attends
<1>8. \A u \in Threads : stack'[u] = <<>>
  BY <1>3, <1>4
<1> QED
  BY <1>3, <1>4, <1>5, <1>6, <1>7, <1>8, EmptyDescends DEF DInv

(* A step of the resolver, which stores the rules first of all. *)
LEMMA ResolverDescends ==
  ASSUME GInv, DInv, NEW t \in Threads, Threads = {t}, ResolverStep(t)
  PROVE  DInv'
<1>1. PICK rank : Lowers(rank, rules) /\ Descends(rank, stack[t])
  BY DEF DInv
<1>2. /\ MRStep(t) /\ pc[t] = "resolve" /\ gc \in RuleMap /\ Agrees /\ Attends(t)
      /\ UNCHANGED <<rules, pc, target, boot, bootTodo>>
  BY DEF ResolverStep, GInv, TypeOK, MRTypeOK, DInv
<1>3. Descends(rank, stack'[t])
  BY <1>1, <1>2, ResolverStepDescends
<1>4. /\ ~Idle(t) /\ stack[t] \in Seq(GoodFrames) /\ Len(stack[t]) \in Nat \ {0}
      /\ Top(t) = stack[t][1] /\ Top(t) \in Frames /\ \A c, g : Replaces(t, c, g)
  BY <1>2, StepReplaces DEF GoodFrames
<1>5. CASE SyncStore(t)
  <2>1. /\ In(t, "SyncGroup", "store") /\ gc' = [gc EXCEPT ![Top(t).group] = Top(t).rules]
        /\ Invoke(t, [Top(t) EXCEPT !.next = "link"], ResolveFrame(Top(t).group))
    BY <1>5 DEF SyncStore
  <2>2. Top(t).fn = "SyncGroup" /\ Top(t).group = target[t] /\ Top(t).rules = rules[target[t]]
    <3>1. 1 \in 1..Len(stack[t])
      BY <1>4
    <3> QED
      BY <1>2, <1>4, <2>1, <3>1 DEF Attends, In, Top
  <2>3. target[t] \in Groups /\ gc'[target[t]] = rules[target[t]]
    BY <1>2, <2>1, <2>2 DEF GInv, TypeOK, RuleMap
  <2>4. \A g \in Groups : g # target[t] => gc'[g] = gc[g]
    BY <1>2, <2>1, <2>2 DEF RuleMap
  <2>5. Agrees'
    BY <1>2, <2>3, <2>4 DEF Agrees
  <2> DEFINE c == [Top(t) EXCEPT !.next = "link"]
             g == ResolveFrame(Top(t).group)
  <2>6. Same(c, Top(t)) /\ c.rules = Top(t).rules /\ g.fn = "Resolve"
    BY <1>4 DEF Same, Frames, ResolveFrame, Frame
  <2>7. Invoked(stack'[t], c, g, stack[t])
    BY <1>4, <2>1 DEF Replaces
  <2> HIDE DEF c, g
  <2>8. Attends(t)'
    <3> SUFFICES ASSUME NEW i \in 1..Len(stack'[t]), stack'[t][i].fn = "SyncGroup"
                 PROVE  stack'[t][i].group = target[t] /\ stack'[t][i].rules = rules[target[t]]
      BY <1>2 DEF Attends
    <3>1. i \in Nat /\ i # 1 /\ i <= Len(stack[t]) + 1
      BY <1>4, <2>6, <2>7 DEF Invoked
    <3>2. CASE i = 2
      BY <2>2, <2>6, <2>7, <3>2 DEF Invoked, Same
    <3>3. CASE i # 2
      <4>1. i \in 3..(Len(stack[t]) + 1) /\ i - 1 \in 1..Len(stack[t])
        BY <1>4, <3>1, <3>3
      <4> QED
        BY <1>2, <2>7, <4>1 DEF Invoked, Attends
    <3> QED
      BY <3>2, <3>3
  <2> QED
    BY <1>1, <1>2, <1>3, <2>5, <2>8 DEF DInv
<1>6. ASSUME UNCHANGED gc, ~In(t, "SyncGroup", "store"), NEW c, NEW g,
             c.fn # "SyncGroup", g.fn # "SyncGroup",
             Return(t) \/ Continue(t, c) \/ Invoke(t, c, g)
      PROVE  DInv'
  <2>1. ~Storing(t)
    BY <1>2, <1>6 DEF Storing
  <2>2. Agrees'
    BY <1>2, <1>6, <2>1 DEF Agrees
  <2>3. Attends(t)'
    <3> SUFFICES ASSUME NEW i \in 1..Len(stack'[t]), stack'[t][i].fn = "SyncGroup"
                 PROVE  \E j \in 1..Len(stack[t]) : stack'[t][i] = stack[t][j]
      BY <1>2 DEF Attends
    <3>1. CASE Return(t)
      <4>1. i \in 1..(Len(stack[t]) - 1) /\ i + 1 \in 1..Len(stack[t])
        BY <1>4, <3>1 DEF Replaces, Returned
      <4> QED
        BY <1>4, <3>1, <4>1 DEF Replaces, Returned
    <3>2. CASE Continue(t, c)
      <4>1. Continued(stack'[t], c, stack[t])
        BY <1>4, <3>2 DEF Replaces
      <4>2. i \in 2..Len(stack[t]) /\ i \in 1..Len(stack[t])
        BY <1>4, <1>6, <4>1 DEF Continued
      <4> QED
        BY <4>1, <4>2 DEF Continued
    <3>3. CASE Invoke(t, c, g)
      <4>1. Invoked(stack'[t], c, g, stack[t])
        BY <1>4, <3>3 DEF Replaces
      <4>2. i \in 3..(Len(stack[t]) + 1) /\ i - 1 \in 1..Len(stack[t])
        BY <1>4, <1>6, <4>1 DEF Invoked
      <4> QED
        BY <4>1, <4>2 DEF Invoked
    <3> QED
      BY <1>6, <3>1, <3>2, <3>3
  <2> QED
    BY <1>1, <1>2, <1>3, <2>2, <2>3 DEF DInv
<1> DEFINE f == Top(t)
<1>7. /\ \A g : ChangesFrame(g).fn = "resolveChanges" /\ ResolveFrame(g).fn = "Resolve"
      /\ f.group \in Groups /\ f.operand \in Groups
  BY <1>4 DEF ChangesFrame, ResolveFrame, Frame, Frames
<1>8. ASSUME NEW g \in Groups, NEW x \in Expressions PROVE Combined(f, g, x).fn = f.fn
  <2>1. IsCombined(Combined(f, g, x), f, g, x)
    BY <1>4, CombinedIs
  <2> QED
    BY <2>1 DEF IsCombined
<1>9. ASSUME NEW n, NEW v, NEW g
      PROVE  /\ [f EXCEPT !.next = n].fn = f.fn
             /\ [f EXCEPT !.cascade = v, !.next = n].fn = f.fn
             /\ [f EXCEPT !.visited = @ \cup {g}].fn = f.fn
             /\ [f EXCEPT !.operand = g, !.next = n].fn = f.fn
  BY <1>4 DEF Frames
<1>10. gt \in [Groups -> Expressions \cup {Unresolved}] /\ {} \in Expressions
  BY DEF GInv, TypeOK, MRTypeOK, Expressions
<1>11. CASE SyncLink(t)
  <2>1. UNCHANGED gc /\ ~In(t, "SyncGroup", "store") /\ Continue(t, ChangesFrame(f.group))
    BY <1>11 DEF SyncLink, In
  <2> QED
    BY <1>6, <1>7, <2>1
<1>12. CASE ChangesResolve(t) \/ ChangesAffected(t) \/ \E g \in Groups : ChangesCascade(t, g)
  <2>1. UNCHANGED gc /\ f.fn = "resolveChanges" /\ ~In(t, "SyncGroup", "store")
    BY <1>12 DEF ChangesResolve, ChangesAffected, ChangesCascade, In, Top
  <2>2. CASE ChangesResolve(t)
    <3>1. Invoke(t, [f EXCEPT !.next = "affected"], ResolveFrame(f.group))
      BY <2>2 DEF ChangesResolve
    <3> QED
      BY <1>6, <1>7, <1>9, <2>1, <3>1
  <2>3. CASE ChangesAffected(t)
    <3>1. Continue(t, [f EXCEPT !.cascade = ga[f.group], !.next = "cascade"])
      BY <2>3 DEF ChangesAffected
    <3> QED
      BY <1>6, <1>9, <2>1, <3>1
  <2>4. ASSUME NEW g \in Groups, ChangesCascade(t, g) PROVE DInv'
    <3>1. Invoke(t, [f EXCEPT !.visited = @ \cup {g}], ChangesFrame(g))
      BY <2>4 DEF ChangesCascade
    <3> QED
      BY <1>6, <1>7, <1>9, <2>1, <3>1
  <2> QED
    BY <1>12, <2>2, <2>3, <2>4
<1>13. CASE \/ ResolveLookup(t) \/ ResolveFetch(t) \/ ResolveWrite(t) \/ ChangesReturn(t)
            \/ \E g \in Groups : ResolveOperand(t, g)
  <2>1. /\ UNCHANGED gc /\ f.fn \in {"Resolve", "resolveChanges"} /\ f.fn # "SyncGroup"
        /\ ~In(t, "SyncGroup", "store")
    BY <1>13 DEF ResolveLookup, ResolveFetch, ResolveWrite, ChangesReturn, ResolveOperand, In, Top
  <2>2. CASE Return(t)
    BY <1>6, <2>1, <2>2
  <2>3. CASE ResolveLookup(t) /\ ~Return(t)
    <3> DEFINE c == [f EXCEPT !.rules = gc[f.group], !.expr = Self(f.group), !.next = "operand"]
    <3>1. Continue(t, c)
      BY <2>3 DEF ResolveLookup
    <3>2. c.fn = f.fn
      BY <1>4 DEF Frames
    <3> HIDE DEF c
    <3> QED
      BY <1>6, <2>1, <3>1, <3>2
  <2>4. ASSUME NEW g \in Groups, ResolveOperand(t, g) PROVE DInv'
    <3>1. CASE gt[g] # Unresolved
      <4>1. gt[g] \in Expressions
        BY <1>10, <3>1
      <4>2. Combined(f, g, gt[g]).fn # "SyncGroup"
        BY <1>8, <2>1, <4>1
      <4>3. Continue(t, Combined(f, g, gt[g]))
        BY <2>4, <3>1 DEF ResolveOperand
      <4> QED
        BY <1>6, <2>1, <4>2, <4>3
    <3>2. CASE gt[g] = Unresolved
      <4>1. Invoke(t, [f EXCEPT !.operand = g, !.next = "fetch"], ResolveFrame(g))
        BY <2>4, <3>2 DEF ResolveOperand
      <4> QED
        BY <1>6, <1>7, <1>9, <2>1, <4>1
    <3> QED
      BY <3>1, <3>2
  <2>5. CASE ResolveFetch(t) /\ ~Return(t)
    <3> DEFINE x == IF gt[f.operand] = Unresolved THEN {} ELSE gt[f.operand]
    <3>1. x \in Expressions
      BY <1>7, <1>10
    <3>2. Continue(t, Combined(f, f.operand, x))
      BY <2>5 DEF ResolveFetch
    <3> HIDE DEF x
    <3>3. Combined(f, f.operand, x).fn # "SyncGroup"
      BY <1>7, <1>8, <2>1, <3>1
    <3> QED
      BY <1>6, <2>1, <3>2, <3>3
  <2>6. ResolveWrite(t) \/ ChangesReturn(t) => Return(t)
    BY DEF ResolveWrite, ChangesReturn
  <2> QED
    BY <1>13, <2>2, <2>3, <2>4, <2>5, <2>6
<1> QED
  BY <1>2, <1>5, <1>11, <1>12, <1>13 DEF MRStep

(* All steps. *)
LEMMA StepDescends ==
  ASSUME OneThread, NoRuleOnItself
  PROVE  GInv /\ DInv /\ [Next]_vars => DInv'
<1> SUFFICES ASSUME GInv, DInv, [Next]_vars
             PROVE  DInv'
  OBVIOUS
<1>0. PICK t : Threads = {t}
  BY DEF OneThread
<1>1. /\ t \in Threads /\ \A u \in Threads : u = t
      /\ pc \in [Threads -> {"idle", "load", "remove", "resolve"}]
      /\ target \in [Threads -> Groups] /\ gc \in RuleMap /\ rules \in RuleMap
      /\ stack \in [Threads -> Seq(GoodFrames)]
      /\ Agrees /\ Attends(t) /\ bootTodo \subseteq Known(rules)
      /\ boot = "serving" => bootTodo = {}
  BY <1>0 DEF GInv, TypeOK, MRTypeOK, DInv
<1>2. PICK rank : Lowers(rank, rules) /\ Descends(rank, stack[t])
  BY <1>1 DEF DInv
<1>3. CASE Client(t)
  BY <1>0, <1>1, <1>3, ClientDescends
<1>4. CASE ResolverStep(t)
  BY <1>0, <1>1, <1>4, ResolverDescends
<1>5. CASE LoadGroup(t)
  <2> DEFINE f == SyncFrame(target[t], rules[target[t]])
  <2>1. /\ stack'[t] = <<f>> /\ pc'[t] = "resolve" /\ pc[t] = "load"
        /\ UNCHANGED <<gc, rules, target, boot, bootTodo>>
    BY <1>1, <1>5 DEF LoadGroup, CallSyncGroup, Attends
  <2>2. f.fn = "SyncGroup" /\ f.next = "store" /\ f.group = target[t] /\ f.rules = rules[target[t]]
    BY DEF SyncFrame, Frame
  <2>3. f \in LowFrames(rank)
    <3>1. f \in GoodFrames
      BY <1>1, <1>5, FramesGood DEF GInv, Permitted, Known, RuleMap, Attends, LoadGroup
    <3> QED
      BY <2>2, <3>1 DEF LowFrames
  <2> HIDE DEF f
  <2>4. Len(<<f>>) = 1 /\ <<f>>[1] = f /\ Head(<<f>>) = f /\ <<f>> # <<>>
        /\ \A i \in 1..Len(<<f>>) : i = 1
    OBVIOUS
  <2>5. Descends(rank, <<f>>)
    BY <2>3, <2>4 DEF Descends, Ordered
  <2>6. Storing(t)'
    BY <2>1, <2>2, <2>4 DEF Storing, In, Idle
  <2>7. Agrees' /\ Attends(t)'
    BY <1>1, <2>1, <2>2, <2>4, <2>6 DEF Agrees, Attends
  <2> QED
    BY <1>1, <1>2, <2>1, <2>5, <2>7 DEF DInv
<1>6. CASE CallRemoveGroup(t)
  <2>1. /\ gc'[target[t]] = NoGroup /\ \A h \in Groups : h # target[t] => gc'[h] = gc[h]
        /\ pc'[t] = "idle" /\ pc[t] = "remove" /\ stack[t] = <<>>
        /\ UNCHANGED <<stack, rules, target, boot, bootTodo>>
    BY <1>1, <1>6 DEF CallRemoveGroup, RemoveGroup, RuleMap, Attends
  <2>2. Agrees' /\ Attends(t)'
    BY <1>1, <2>1 DEF Agrees, Attends
  <2> QED
    BY <1>1, <1>2, <2>1, <2>2 DEF DInv
<1>7. CASE CallbackReturns(t)
  <2>1. /\ pc[t] = "resolve" /\ pc'[t] = "idle" /\ stack[t] = <<>>
        /\ UNCHANGED <<gc, stack, rules, target, boot, bootTodo>>
    BY <1>1, <1>7 DEF CallbackReturns, Idle, mrVars
  <2>2. ~Storing(t)
    BY <2>1 DEF Storing, In, Idle
  <2>3. Agrees' /\ Attends(t)'
    BY <1>1, <2>1, <2>2 DEF Agrees, Attends
  <2> QED
    BY <1>1, <1>2, <2>1, <2>3 DEF DInv
<1>8. CASE Boot
  <2>1. /\ pc[t] = "idle" /\ stack[t] = <<>> /\ UNCHANGED <<gc, stack, rules>>
    BY <1>1, <1>8 DEF Boot, Serve, Announce, Quiet, Attends, mrVars
  <2>2. ~Storing(t)
    BY <2>1 DEF Storing, In, Idle
  <2>3. Agrees'
    BY <1>1, <2>1, <2>2 DEF Agrees
  <2>4. ASSUME NEW u \in Threads, NEW g \in Groups, Announce(u, g) PROVE DInv'
    <3>1. /\ u = t /\ pc'[t] = "load" /\ target'[t] = g /\ bootTodo' = bootTodo \ {g}
          /\ g \in bootTodo /\ UNCHANGED boot
      BY <1>1, <2>4 DEF Announce
    <3>2. Attends(t)'
      BY <1>1, <2>1, <3>1 DEF Attends, Known
    <3> QED
      BY <1>1, <1>2, <2>1, <2>3, <3>1, <3>2 DEF DInv
  <2>5. CASE Serve
    <3>1. bootTodo = {} /\ UNCHANGED <<pc, target, bootTodo>>
      BY <2>5 DEF Serve
    <3>2. Attends(t)'
      BY <1>1, <2>1, <3>1 DEF Attends
    <3> QED
      BY <1>1, <1>2, <2>1, <2>3, <3>1, <3>2 DEF DInv
  <2> QED
    BY <1>8, <2>4, <2>5 DEF Boot
<1>9. CASE Crash
  <2>1. /\ \A g \in Groups : gc'[g] = NoGroup
        /\ stack'[t] = <<>> /\ pc'[t] = "idle" /\ boot' = "loading" /\ bootTodo' = Known(rules)
        /\ UNCHANGED <<rules, target>>
    BY <1>1, <1>9 DEF Crash
  <2>2. Agrees' /\ Attends(t)'
    BY <2>1 DEF Agrees, Attends
  <2> QED
    BY <1>1, <1>2, <2>1, <2>2, EmptyDescends DEF DInv
<1>10. CASE UNCHANGED vars
  <2>1. UNCHANGED <<gc, stack, rules, pc, target, boot, bootTodo>>
    BY <1>10 DEF vars, mrVars
  <2>2. Agrees' /\ Attends(t)'
    BY <1>1, <2>1 DEF Agrees, Attends, Storing, In, Idle, Top
  <2> QED
    BY <1>1, <1>2, <2>1, <2>2 DEF DInv
<1> QED
  BY <1>1, <1>3, <1>4, <1>5, <1>6, <1>7, <1>8, <1>9, <1>10 DEF Next, Handle

(* The resolution of a group never calls for the group itself, whichever   *)
(* rules clients state, drop, turn round and state again, whichever groups *)
(* they destroy and wherever the server crashes, as long as one change is  *)
(* handled at a time and no group is made to include or exclude itself:    *)
(* what the check for cycles accepts leads down.                           *)
THEOREM ResolutionsNeverReenter ==
  ASSUME OneThread, NoRuleOnItself
  PROVE  Spec => []ResolvesOnce
<1>1. Init => DInv
  <2> SUFFICES ASSUME Init PROVE DInv
    OBVIOUS
  <2>1. /\ \A g \in Groups : gc[g] = NoGroup /\ rules[g] = NoGroup
        /\ \A t \in Threads : stack[t] = <<>> /\ pc[t] = "idle"
        /\ bootTodo = {}
    BY DEF Init, MRInit
  <2>2. Lowers([g \in Groups |-> 0], rules)
    BY <2>1 DEF Lowers, Known
  <2> QED
    BY <2>1, <2>2, EmptyDescends DEF DInv, Agrees, Attends
<1>2. GInv /\ DInv => ResolvesOnce
  <2> SUFFICES ASSUME GInv, DInv, NEW t \in Threads,
                      NEW i \in DOMAIN stack[t], NEW j \in DOMAIN stack[t],
                      Alike(t, i, j), stack[t][i].fn = "Resolve", i # j
               PROVE  FALSE
    BY DEF ResolvesOnce
  <2>1. PICK rank : Lowers(rank, rules) /\ Descends(rank, stack[t])
    BY DEF DInv
  <2>2. /\ stack[t] \in Seq(GoodFrames) /\ i \in 1..Len(stack[t]) /\ j \in 1..Len(stack[t])
        /\ stack[t][i] \in GoodFrames /\ rank \in [Groups -> Nat]
    BY <2>1 DEF GInv, Lowers
  <2>3. rank[stack[t][i].group] \in Nat
    BY <2>2 DEF GoodFrames, Frames
  <2>4. /\ i < j => Under(rank, stack[t][i], stack[t][j])
        /\ j < i => Under(rank, stack[t][j], stack[t][i])
    BY <2>1, <2>2 DEF Descends, Ordered, Beneath
  <2> QED
    BY <2>2, <2>3, <2>4 DEF Alike, Under
<1> QED
  BY <1>1, <1>2, FirstGood, StepGood, StepDescends, PTL DEF Spec

=============================================================================
