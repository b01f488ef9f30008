----------------------------- MODULE ReadModel -----------------------------
(***************************************************************************)
(* What the read model (src/research_dashboard/state.py) answers about a   *)
(* task when all of its queries see one and the same ledger.               *)
(***************************************************************************)
EXTENDS Ledger

CONSTANT StateConflict  \* the current_state of a disputed task

ASSUME ReadModelAssumption == StateConflict \notin States \cup {NoState}

\* The stating events of a task that available evidence backs.
Confirmed(t) == {i \in StateOn(t) : events[i].evidence = "available"}

\* What the rows of events and evidence alone say.
ConfirmedState(t) ==
  IF Confirmed(t) = {} THEN NoState
  ELSE events[CHOOSE i \in Latest(Confirmed(t)) : TRUE].new_state

\* The current state of a task: disputed, or the latest confirmed one.
TaskState(t) == IF Open(t) # {} THEN StateConflict ELSE ConfirmedState(t)
=============================================================================
