----------------------------- MODULE MCPlanning -----------------------------
(* An instance of Planning for TLC.                                        *)
EXTENDS Planning, TLC

CONSTANTS i1, i2, i3, d1, d2, p1, p2

In(i, p, parent) == [id |-> i, project |-> p, parent |-> parent]

\* Items of one project on top or below one another, and one of another
\* project, which may be named as a parent from either side.
AnyItems ==
  {In(i, p1, parent) : i \in ItemIds, parent \in ItemIds \cup {NoItem}} \cup
  {In(i, p2, NoItem) : i \in ItemIds}

SomeTodos ==
  {[id |-> d, project |-> p1, item |-> item, status |-> "Open"] :
     d \in TodoIds, item \in ItemIds \cup {NoItem}} \cup
  {[id |-> d, project |-> p1, item |-> NoItem, status |-> "Done"] : d \in TodoIds}

Ids == Permutations(ItemIds) \cup Permutations(TodoIds)
=============================================================================
