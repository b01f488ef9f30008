------------------------------ MODULE MCReader ------------------------------
(* Instances of Reviews for TLC: a task that is disputed and settled, and an *)
(* event of another project.                                                 *)
EXTENDS Reviews, TLC

CONSTANTS e1, e2, e3, t1, t2, p1, p2, s1, s2, r1, r2, n1

OwnerOfTask == t1 :> p1 @@ t2 :> p2

Ev(i, t, ty, p, n, c, ev) ==
  [id |-> i, task |-> t, type |-> ty, previous_state |-> p, new_state |-> n,
   corrects |-> c, evidence |-> ev]

\* A first statement, a disputing one, a correction of the latter that no
\* evidence backs, and an event of the other project.
ReaderInputs ==
  { Ev(e1, t1, "claim", NoState, s1, NoEvent, "available"),
    Ev(e2, t1, "claim", s2, s2, NoEvent, "available"),
    Ev(e3, t1, "correction", s2, s1, e2, "unavailable"),
    Ev(e3, t2, "claim", NoState, s1, NoEvent, "available") }

TheReaders == Permutations(Readers)
=============================================================================
