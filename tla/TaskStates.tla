----------------------------- MODULE TaskStates -----------------------------
(***************************************************************************)
(* What the ledger promises about a task, without the ledger: a task has a *)
(* latest stated state and is disputed or not.  While it is not disputed,  *)
(* a statement that does not start from the state on record is a           *)
(* correction or makes the task disputed; only a correction ends a         *)
(* dispute.                                                                *)
(***************************************************************************)
CONSTANTS Tasks, States, NoState, Inputs, CorrectionTypes,
          Explicit,  \* TRUE \in Explicit: callers may dispute a task at will
          Nothing    \* the value of last before the first event

VARIABLES state,     \* the latest stated state of each task
          disputed,  \* whether a conflict about the task is open
          last       \* the event recorded last

taskVars == <<state, disputed, last>>

Init == /\ state = [t \in Tasks |-> NoState]
        /\ disputed = [t \in Tasks |-> FALSE]
        /\ last = Nothing

\* e's claim about the state before it agrees with the record.
Continues(e) == state[e.task] = NoState \/ e.previous_state = state[e.task]

\* Event e is recorded: the state it states, if any, is the latest.
Record(e) ==
  /\ last' = e
  /\ state' = [state EXCEPT ![e.task] = IF e.new_state = NoState THEN @ ELSE e.new_state]

\* An agreeing event or a correction on a settled task, anything on a disputed one.
Advance(e) ==
  /\ Record(e)
  /\ disputed[e.task] \/ Continues(e) \/ e.type = "correction"
  /\ UNCHANGED disputed

Dispute(e) ==
  /\ Record(e)
  /\ ~ disputed[e.task]
  /\ ~ Continues(e) \/ TRUE \in Explicit
  /\ disputed' = [disputed EXCEPT ![e.task] = TRUE]

Settle(e) ==
  /\ Record(e)
  /\ disputed[e.task]
  /\ e.type \in CorrectionTypes
  /\ disputed' = [disputed EXCEPT ![e.task] = FALSE]

Next == \E e \in Inputs : Advance(e) \/ Dispute(e) \/ Settle(e)

Spec == Init /\ [][Next]_taskVars
=============================================================================
