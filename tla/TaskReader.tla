----------------------------- MODULE TaskReader -----------------------------
(***************************************************************************)
(* current_task_state (src/research_dashboard/state.py) while others write *)
(* to the ledger.  It reads the task's events first and its open conflict  *)
(* second, in two SELECTs that no transaction holds together, so events    *)
(* may be committed in between.                                            *)
(***************************************************************************)
EXTENDS ReadModel

CONSTANTS Readers, NoTask

ASSUME ReaderAssumption == NoTask \notin Tasks

VARIABLES
  asked,    \* the task each reader's call is about, NoTask between calls
  rows,     \* the confirmed state its first query found
  answer,   \* what its last call returned
  truth,    \* history: every state of the asked task during the last call
  settled   \* history: whether a conflict on the task was settled during it

readerVars == <<events, conflicts, asked, rows, answer, truth, settled>>

Answers == States \cup {NoState, StateConflict}

ReaderInit ==
  /\ Init
  /\ asked  = [r \in Readers |-> NoTask]
  /\ rows   = [r \in Readers |-> NoState]
  /\ answer = [r \in Readers |-> NoState]
  /\ truth  = [r \in Readers |-> {NoState}]
  /\ settled = [r \in Readers |-> FALSE]

\* The first query.  A task without events has no answer, a keyless one cannot
\* be asked about.
ReadEvents(r, t) ==
  /\ asked[r] = NoTask
  /\ t \notin Keyless /\ On(t) # {}
  /\ asked'   = [asked EXCEPT ![r] = t]
  /\ rows'    = [rows EXCEPT ![r] = ConfirmedState(t)]
  /\ truth'   = [truth EXCEPT ![r] = {TaskState(t)}]
  /\ settled' = [settled EXCEPT ![r] = FALSE]
  /\ UNCHANGED <<events, conflicts, answer>>

\* Mutant of Answer: the open conflict is not looked up.
AnswerOfRows(t, state) == state

Answer(t, state) == IF Open(t) # {} THEN StateConflict ELSE state

\* The second query, and the answer from what the two found.
ReadConflict(r) ==
  /\ asked[r] # NoTask
  /\ answer' = [answer EXCEPT ![r] = Answer(asked[r], rows[r])]
  /\ asked'  = [asked EXCEPT ![r] = NoTask]
  /\ UNCHANGED <<events, conflicts, rows, truth, settled>>

\* Somebody ingests an event; the histories of the calls under way follow.
Write(v, explicit) ==
  /\ AppendEvent(v, explicit)
  /\ truth' = [r \in Readers |-> IF asked[r] = v.task
                                 THEN truth[r] \cup {TaskState(v.task)'}
                                 ELSE truth[r]]
  /\ settled' = [r \in Readers |-> settled[r] \/ (asked[r] = v.task /\ Settled(v) # {})]
  /\ UNCHANGED <<asked, rows, answer>>

ReaderNext ==
  \/ \E r \in Readers : ReadConflict(r) \/ \E t \in Tasks : ReadEvents(r, t)
  \/ \E v \in Inputs, explicit \in Explicit : Write(v, explicit)

ReaderSpec == ReaderInit /\ [][ReaderNext]_readerVars
-----------------------------------------------------------------------------
(* Properties.                                                             *)

\* The types of the readers' state.
ReaderTypeOK ==
  /\ TypeOK
  /\ asked \in [Readers -> Tasks \cup {NoTask}]
  /\ rows \in [Readers -> States \cup {NoState}]
  /\ answer \in [Readers -> Answers]
  /\ truth \in [Readers -> SUBSET Answers]
  /\ settled \in [Readers -> BOOLEAN]

Answered(r) == asked[r] = NoTask

\* An answer is a state the task really had during the call, whatever was
\* written between the two queries, or else a dispute was settled during the
\* call (state.py:1471-1486: events before the conflict, never after it).
HiddenOnlyBySettlement ==
  \A r \in Readers : Answered(r) => answer[r] \in truth[r] \/ settled[r]
=============================================================================
