------------------------------ MODULE MCWriter ------------------------------
(* Instances of Writer for TLC: two producers and one project.             *)
EXTENDS Writer, TLC

CONSTANTS e1, e2, e3, e4, t1, p1, s1, s2, a, b

OwnerOfTask == t1 :> p1

Ev(i, ty, p, n, c, ev) ==
  [id |-> i, task |-> t1, type |-> ty, previous_state |-> p, new_state |-> n,
   corrects |-> c, evidence |-> ev]

\* A first statement, another that reuses its id, a rival continuation, a
\* correction that settles the dispute and a claim that goes on from it.
RivalInputs ==
  { Ev(e1, "claim", NoState, s1, NoEvent, "available"),
    Ev(e1, "claim", NoState, s2, NoEvent, "available"),
    Ev(e2, "claim", s2, s2, NoEvent, "available"),
    Ev(e3, "evidence_correction", s1, NoState, e2, "available") }
=============================================================================
