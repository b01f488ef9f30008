------------------------------- MODULE Ledger -------------------------------
(***************************************************************************)
(* The append-only semantic event ledger: the tables events,               *)
(* event_evidence and state_conflicts, and ingest_event, the only code     *)
(* that writes them (src/research_dashboard/events.py).                    *)
(*                                                                         *)
(* ingest_event does everything after its lookup of the project inside one *)
(* SQLite transaction, so one call is one step here; module SqliteTx shows *)
(* why that is sound for the transactions of db.py.                        *)
(*                                                                         *)
(* A "task" stands for a triple (project_id, workstream, task_key): every  *)
(* query of ingest_event selects rows by the whole triple.  Owner gives    *)
(* the task's project, Keyless the triples whose task_key is null or blank.*)
(* Every other column (context, importance, ...) only matters to the       *)
(* comparison of a replayed event with the stored one, so a record stands  *)
(* for its own payload.                                                    *)
(***************************************************************************)
EXTENDS Integers, Sequences, FiniteSets

CONSTANTS
  EventIds,    \* the UUIDs producers choose
  Tasks,       \* (project_id, workstream, task_key) triples
  Keyless,     \* the tasks whose task_key is null or blank
  Projects,
  Registered,  \* the projects the registry knows (none is ever deleted)
  Owner,       \* the project of each task
  States,      \* values of previous_state and new_state
  NoState,     \* a null previous_state or new_state
  NoEvent,     \* a null corrects_event_id or resolved_by_event_id
  Inputs,      \* the validated events that callers submit
  Explicit,    \* the values of record_conflict that callers pass
  MaxEvents    \* bound on the length of the ledger

CorrectionTypes == {"correction", "evidence_correction"}

\* "claim" stands for every event_type that is not a correction.
EventTypes == {"claim"} \cup CorrectionTypes

\* What the evidence rows of an event add up to (state._evidence_availability).
Availability == {"available", "unavailable", "unknown"}

Event == [ id             : EventIds,
           task           : Tasks,
           type           : EventTypes,
           previous_state : States \cup {NoState},
           new_state      : States \cup {NoState},
           corrects       : EventIds \cup {NoEvent},
           evidence       : Availability ]

\* created stands for created_at: the conflict is inserted in the transaction
\* of its right event, so the sequence number of that event orders conflicts
\* as their timestamps do.
Conflict == [ task : Tasks, left : EventIds, right : EventIds,
              resolved_by : EventIds \cup {NoEvent}, created : Nat ]

ASSUME LedgerAssumption ==
  /\ Keyless \subseteq Tasks
  /\ Registered \subseteq Projects
  /\ Owner \in [Tasks -> Projects]
  /\ NoState \notin States
  /\ NoEvent \notin EventIds
  /\ Inputs \subseteq Event
  /\ Explicit \subseteq BOOLEAN
  /\ MaxEvents \in Nat

VARIABLES events,    \* the rows of events in sequence order, with their evidence
          conflicts  \* the rows of state_conflicts

ledgerVars == <<events, conflicts>>

Init == events = <<>> /\ conflicts = {}
-----------------------------------------------------------------------------
(* The queries of ingest_event, as sets of sequence numbers.               *)

Stored(id) == {i \in DOMAIN events : events[i].id = id}
On(t)      == {i \in DOMAIN events : events[i].task = t}
StateOn(t) == {i \in On(t) : events[i].new_state # NoState}

\* ORDER BY sequence DESC LIMIT 1: empty or one number.
Latest(S) == {i \in S : \A j \in S : j <= i}

Open(t) == {c \in conflicts : c.task = t /\ c.resolved_by = NoEvent}

\* Mutants of OldestOpen: the newest conflict first; resolved ones too.
NewestOpen(t) == {c \in Open(t) : \A d \in Open(t) : d.created <= c.created}
OldestOfAll(t) ==
  LET all == {c \in conflicts : c.task = t}
  IN {c \in all : \A d \in all : c.created <= d.created}

\* ORDER BY created_at LIMIT 1 over the unresolved conflicts of the task.
OldestOpen(t) == {c \in Open(t) : \A d \in Open(t) : c.created <= d.created}

\* The state the latest stating event of the task states.
StateOf(t) == IF StateOn(t) = {} THEN NoState
              ELSE events[CHOOSE i \in Latest(StateOn(t)) : TRUE].new_state

\* The conflict an event opened: its row has the event as right endpoint.
OpenedBy(id) == {c \in conflicts : c.right = id}
-----------------------------------------------------------------------------
(* The decisions of ingest_event on a validated event v.                   *)

\* A corrected event must belong to the project, and by the foreign key it
\* must be stored once v is: an event that names itself passes both.
CorrectionAllowed(v) ==
  \/ v.corrects \in {NoEvent, v.id}
  \/ \E i \in Stored(v.corrects) : Owner[events[i].task] = Owner[v.task]

\* Mutants of ChainBroken: a correction of any earlier event excuses a gap; an
\* evidence_correction excuses one too.
ChainBrokenUnlessCorrection(v) ==
  /\ StateOn(v.task) # {}
  /\ Open(v.task) = {}
  /\ \A i \in Latest(StateOn(v.task)) : v.previous_state # events[i].new_state
  /\ ~ (v.type = "correction" /\ \E i \in On(v.task) : v.corrects = events[i].id)
ChainBrokenUnlessAnyCorrection(v) ==
  /\ StateOn(v.task) # {}
  /\ Open(v.task) = {}
  /\ \A i \in Latest(StateOn(v.task)) : v.previous_state # events[i].new_state
  /\ ~ /\ v.type \in CorrectionTypes
       /\ \E i \in Latest(On(v.task)) : v.corrects = events[i].id

\* v does not continue the task's latest state, no dispute about the task is
\* open yet, and v is no correction of the task's latest event.
ChainBroken(v) ==
  /\ StateOn(v.task) # {}
  /\ Open(v.task) = {}
  /\ \A i \in Latest(StateOn(v.task)) : v.previous_state # events[i].new_state
  /\ ~ /\ v.type = "correction"
       /\ \E i \in Latest(On(v.task)) : v.corrects = events[i].id

\* Mutant of Settled: any correction settles the task's conflict.
SettledByAny(v) == {c \in OldestOpen(v.task) : v.type \in CorrectionTypes}

\* The conflict v settles: the oldest open one, when v corrects an endpoint.
Settled(v) ==
  {c \in OldestOpen(v.task) : /\ v.type \in CorrectionTypes
                              /\ v.corrects \in {c.left, c.right}}

\* UPDATE state_conflicts SET resolved_by_event_id.
Resolve(c, id) == [c EXCEPT !.resolved_by = id]

\* Mutant of Opened: the left endpoint is the event v says it corrects.
OpenedWithCorrected(v, explicit) ==
  IF explicit \/ ChainBroken(v)
  THEN {[task |-> v.task, left |-> v.corrects, right |-> v.id,
         resolved_by |-> NoEvent, created |-> Len(events) + 1]}
  ELSE {}

\* The conflict v opens with the latest event of its task.
Opened(v, explicit) ==
  IF explicit \/ ChainBroken(v)
  THEN {[task |-> v.task, left |-> events[i].id, right |-> v.id,
         resolved_by |-> NoEvent, created |-> Len(events) + 1] :
          i \in Latest(On(v.task))}
  ELSE {}

CanAppend(v, explicit) ==
  /\ Owner[v.task] \in Registered
  /\ Stored(v.id) = {}
  /\ CorrectionAllowed(v)
  /\ explicit => v.task \notin Keyless /\ On(v.task) # {}
  /\ ChainBroken(v) => v.task \notin Keyless

\* The stored event must equal v in every field and all its evidence; an
\* explicit conflict is replayed only over the conflict it opened, whose
\* counterpart is an event of the same task.
CanReplay(v, explicit) ==
  /\ Owner[v.task] \in Registered
  /\ \E i \in Stored(v.id) : events[i] = v
  /\ explicit => /\ v.task \notin Keyless
                 /\ \E c \in OpenedBy(v.id) :
                      c.left # c.right /\ Stored(c.left) \cap On(v.task) # {}

AppendEvent(v, explicit) ==
  /\ Len(events) < MaxEvents
  /\ CanAppend(v, explicit)
  /\ events' = Append(events, v)
  /\ conflicts' = (conflicts \ Settled(v))
                    \cup {Resolve(c, v.id) : c \in Settled(v)}
                    \cup Opened(v, explicit)

Replay(v, explicit) ==
  CanReplay(v, explicit) /\ UNCHANGED ledgerVars

\* ValueError or IntegrityError: the transaction is rolled back.
Refuse(v, explicit) ==
  /\ ~ CanAppend(v, explicit)
  /\ ~ CanReplay(v, explicit)
  /\ UNCHANGED ledgerVars

Next == \E v \in Inputs, explicit \in Explicit :
          \/ AppendEvent(v, explicit)
          \/ Replay(v, explicit)
          \/ Refuse(v, explicit)

Spec == Init /\ [][Next]_ledgerVars
-----------------------------------------------------------------------------
(* Properties.                                                             *)

\* The types of the two tables.
TypeOK ==
  /\ events \in Seq(Event)
  /\ conflicts \in SUBSET Conflict

\* The position of the latest earlier event of event i's task, among all of
\* them and among those that state something.
Before(i)      == Latest({k \in On(events[i].task) : k < i})
StateBefore(i) == Latest({k \in StateOn(events[i].task) : k < i})

\* A conflict about the task was open when event i arrived.
DisputedBefore(i) ==
  \E c \in conflicts :
    /\ c.task = events[i].task
    /\ c.created < i
    /\ \/ c.resolved_by = NoEvent
       \/ \E r \in Stored(c.resolved_by) : r >= i

\* Event i agrees with the state j stated, or says why not, or is disputed.
Accounted(i, j) ==
  \/ events[i].previous_state = events[j].new_state
  \/ /\ events[i].type = "correction"
     /\ \E k \in Before(i) : events[i].corrects = events[k].id
  \/ OpenedBy(events[i].id) # {}
  \/ DisputedBefore(i)

\* No change of a task's state goes by unnoticed: every event that follows a
\* stated state continues that state, or is a correction of the event right
\* before it, or has a conflict on record, or came while the task was already
\* disputed (events.py:445-482; architecture.md: "without rewriting history").
ChainAccounted ==
  \A i \in DOMAIN events : \A j \in StateBefore(i) : Accounted(i, j)

\* A conflict joins two consecutive events of one task that has a key, and is
\* resolved, if at all, by a later correction on that task that names one of
\* the two (events.py:100-123, 303-342 and the CHECKs of schema.sql:88-103).
ConflictsWellFormed ==
  \A c \in conflicts :
    /\ c.task \notin Keyless
    /\ c.created \in Stored(c.right) \cap On(c.task)
    /\ Stored(c.left) \cap Before(c.created) # {}
    /\ c.resolved_by # NoEvent =>
         \E r \in Stored(c.resolved_by) \cap On(c.task) :
           /\ r > c.created
           /\ events[r].type \in CorrectionTypes
           /\ events[r].corrects \in {c.left, c.right}

\* A task has at most one open conflict unless a caller records conflicts
\* explicitly: ingest_event never opens one by itself over an open one, which
\* is what lets the queries for "the" open conflict take the first row
\* (events.py:446, state.py:1457).
OneOpenConflict ==
  TRUE \notin Explicit =>
    \A t \in Tasks : \A c, d \in Open(t) : c = d

\* Conflicts of a task are settled oldest first, also when several were
\* recorded explicitly: a resolution can never leave an older dispute behind
\* a newer, settled one (events.py:94, ORDER BY created_at LIMIT 1).
OldestSettledFirst ==
  \A c, d \in conflicts :
    c.task = d.task /\ c.created < d.created /\ d.resolved_by # NoEvent
      => c.resolved_by # NoEvent

\* An event never appears twice and no row is rewritten: a step keeps every
\* event at its sequence number and every conflict with its endpoints, and
\* turns an open conflict into a resolved one at most once (events.py:364-368,
\* "Existing event rows are never updated or deleted", and 113-123).
HistoryKept ==
  [][/\ \A i \in DOMAIN events : i \in DOMAIN events' /\ events'[i] = events[i]
     /\ \A i, j \in DOMAIN events' : events'[i].id = events'[j].id => i = j
     /\ \A c \in conflicts : \E d \in conflicts' :
          \/ d = c
          \/ c.resolved_by = NoEvent /\ d = Resolve(c, d.resolved_by)
    ]_ledgerVars

\* The ledger implements TaskStates: seen as states and disputes of tasks, every
\* step of it is one TaskStates allows (events.py:445-482).
Promised == INSTANCE TaskStates WITH
              state    <- [t \in Tasks |-> StateOf(t)],
              disputed <- [t \in Tasks |-> Open(t) # {}],
              last     <- IF events = <<>> THEN NoEvent ELSE events[Len(events)],
              Nothing  <- NoEvent
TaskStatesKept == Promised!Spec
=============================================================================
