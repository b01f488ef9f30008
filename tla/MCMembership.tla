---------------------------- MODULE MCMembership ----------------------------
(* Instances of LogSync for TLC: two folders, the second nested in the      *)
(* first, so that one file is a log of both.                                *)
EXTENDS LogSync, TLC

CONSTANTS p1, p2, r1, r2, n1, n2, f1, f2, d1, d2, a, b

TheTasks == {p1, p2} \X {n1, n2}
OwnerOfTask == [t \in TheTasks |-> t[1]]
Ids == {p1, p2} \X {f1, f2} \X {d1, d2}
IdOfRoot == r1 :> p1 @@ r2 :> p2

\* f1 is the log n1 at r1 and the log n2 at r2; f2 stands for the rest.
Paths == [x \in {r1, r2} \X {n1, n2} |-> IF x \in {<<r1, n1>>, <<r2, n2>>} THEN f1 ELSE f2]
=============================================================================
