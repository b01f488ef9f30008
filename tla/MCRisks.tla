------------------------------ MODULE MCRisks ------------------------------
(* Instances of Pages for TLC: a task that becomes disputed and is settled   *)
(* by a correction observed before or after, and two risks of its project.   *)
EXTENDS Pages, TLC

CONSTANTS e1, e2, e3, t1, p1, s1, s2, r1, r2, u1, u2, w1, f1, f2

OwnerOfTask == t1 :> p1
ProjectOfRisk == r1 :> p1 @@ r2 :> p1

Ev(i, ty, p, n, c) ==
  [id |-> i, task |-> t1, type |-> ty, previous_state |-> p, new_state |-> n,
   corrects |-> c, evidence |-> "available"]

\* e2 disputes e1; e3 settles the dispute and ends the task.
RiskInputs == { Ev(e1, "claim", NoState, s1, NoEvent),
                Ev(e2, "claim", s2, s1, NoEvent),
                Ev(e3, "correction", s1, s2, e2) }

Rc(r, st, f, o, t) ==
  [risk |-> r, status |-> st, fingerprint |-> f, origin |-> o, created |-> t]

\* Risks opened as New and as accepted, one of them said to exist from a later
\* time on; evidence that changes with the event and below the same event.
RiskCalls == { Rc(r1, "New", f1, e1, 0), Rc(r1, "New", f2, e1, 0),
               Rc(r1, "Accepted", f1, e2, 0), Rc(r2, "New", f1, e1, 3) }

\* The correction was observed when the clock stood at 3, before it arrives.
ObservedAt == e1 :> 0 @@ e2 :> 1 @@ e3 :> 3

TheCallers == Permutations(Callers)
=============================================================================
