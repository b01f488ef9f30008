------------------------------ MODULE MCLedger ------------------------------
(* An instance of Ledger for TLC.                                            *)
EXTENDS Ledger, TLC

CONSTANTS e1, e2, e3, e4, \* event ids
          t1, t2,             \* a keyed task and a keyless one
          p1, p2, s1, s2

OwnerOfTasks == t1 :> p1 @@ t2 :> p2

Ev(i, t, ty, p, n, c) ==
  [id |-> i, task |-> t, type |-> ty, previous_state |-> p, new_state |-> n,
   corrects |-> c, evidence |-> "available"]

\* Inputs for histories of four events: several conflicts recorded explicitly
\* and settled one by one, corrections of any event, also of one that is not the
\* latest, not stored or the event itself, and a keyless task beside.
DeepInputs ==
  UNION { {Ev(i, t1, "claim", m[1], m[2], NoEvent) : m \in {<<s1, s1>>, <<s1, s2>>}} \cup
          {Ev(i, t1, "correction", NoState, s1, c) : c \in EventIds} \cup
          {Ev(i, t1, "evidence_correction", s1, NoState, c) : c \in EventIds} \cup
          {Ev(i, t2, "claim", s2, s1, NoEvent)} : i \in EventIds }

Ids == Permutations(EventIds)
=============================================================================
