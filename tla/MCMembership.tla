---------------------------- MODULE MCMembership ----------------------------
EXTENDS Membership, TLC

CONSTANTS A, B, C

MCNameIn == {<<g, g>> : g \in Groups}

(* A group over two others, which may be over one another, one way and     *)
(* then the other.                                                         *)
Turning == {<<A, B>>, <<A, C>>, <<B, C>>, <<C, B>>}
EitherWay == {<<A, B>>, <<B, A>>}

(* Rules that can only point one way, so that no group ever affected one   *)
(* that now affects it.                                                    *)
DownwardAB == {<<A, B>>}

(* Bound: calls that nest deeper are not followed.  Three groups can be    *)
(* cascaded to, and then resolved, one out of the other in one SyncGroup.  *)
NestedAtMost == \A t \in Threads : Len(stack[t]) <= 7

=============================================================================
