----------------------------- MODULE MCPlanSync -----------------------------
(* An instance of PlanSync for TLC.                                        *)
EXTENDS PlanSync, TLC

CONSTANTS i1, i2, p1, f1, f2, v1, v2, b1, b2

AnItem == {[id |-> i, project |-> p1, parent |-> NoItem] : i \in ItemIds}

\* v1 lists one task; v2 is prose.
Tasks == v1 :> 1 @@ v2 :> 0

\* Proposals to replace an item, and to put one item before the other.
Lists ==
  {<<[op |-> "remove", item |-> i1], [op |-> "add", parent |-> NoItem]>>,
   <<[op |-> "reorder", parent |-> NoItem, order |-> i1 :> 1 @@ i2 :> 0]>>}

Same == Permutations(BatchIds) \cup Permutations(Paths)
=============================================================================
