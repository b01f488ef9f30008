----------------------------- MODULE Executions -----------------------------
(***************************************************************************)
(* The execution store (src/research_dashboard/executions.py) and the      *)
(* Slurm adapter that polls a scheduler for it (adapters/slurm.py).  A     *)
(* poll asks squeue, then sacct if squeue does not know the job, and only  *)
(* then opens the transaction that records what it saw: polls of one       *)
(* execution overlap, the job moves on between their steps, and any poll   *)
(* may fail before it records.                                             *)
(*                                                                         *)
(* The scheduler is external: job j goes through the positions of          *)
(* Timeline[j], and at each of them squeue and sacct answer with one       *)
(* record or none.  A record is a normalized state and the raw record it   *)
(* came from.                                                              *)
(***************************************************************************)
EXTENDS Integers, Sequences, FiniteSets

CONSTANTS
  ExecutionIds, Jobs,
  Timeline,   \* the scheduler's answers about each job, in time order
  Raws,       \* the raw records, whitespace and key order normalized
  NoRecord,   \* squeue or sacct prints nothing about the job
  Pollers, NoExecution,
  MaxPolls    \* bound on the polls started

TerminalStates  == {"COMPLETED", "FAILED", "CANCELLED"}
ExecutionStates == {"SUBMITTED", "QUEUED", "RUNNING", "UNKNOWN"} \cup TerminalStates

Record == [state : ExecutionStates, raw : Raws]

ASSUME ExecutionsAssumption ==
  /\ NoRecord \notin Record
  /\ NoExecution \notin ExecutionIds
  /\ Timeline \in [Jobs -> Seq([queue : Record \cup {NoRecord},
                                accounting : Record \cup {NoRecord}])]
  /\ \A j \in Jobs : Timeline[j] # <<>>
  /\ MaxPolls \in Nat

VARIABLES
  executions,   \* rows of executions, a function on the registered ids
  observations, \* rows of execution_observations of each execution, as inserted
  now,          \* external: each job's position in its timeline
  polled,       \* the execution each poller is polling
  step,         \* "squeue", "sacct" or "record": what its poll does next
  found,        \* the record it is about to store
  polls,
  foundAt,      \* history: the position of the job when found was read
  ingested,     \* history: the last position recorded for each execution
  best,         \* history: the furthest such position
  overlap       \* history: the executions with two polls at a time

pollVars == <<polled, step, found, foundAt>>
vars == <<executions, observations, now, pollVars, polls, ingested, best, overlap>>

Registered == DOMAIN executions

\* Mutant of IsActive: an unknown state counts as ended.
IsKnownActive(state) == state \in {"SUBMITTED", "QUEUED", "RUNNING"}

IsActive(state) == state \notin TerminalStates

Row(job, state) == [job |-> job, current_state |-> state, active |-> IsActive(state)]

Init ==
  /\ executions = [e \in {} |-> Row(e, "SUBMITTED")]
  /\ observations = [e \in ExecutionIds |-> <<>>]
  /\ now = [j \in Jobs |-> 1]
  /\ polled = [p \in Pollers |-> NoExecution]
  /\ step = [p \in Pollers |-> "squeue"]
  /\ found = [p \in Pollers |-> NoRecord]
  /\ foundAt = [p \in Pollers |-> 0]
  /\ polls = 0
  /\ ingested = [e \in ExecutionIds |-> 0]
  /\ best = [e \in ExecutionIds |-> 0]
  /\ overlap = {}
-----------------------------------------------------------------------------
\* slurm register: the id and the job must both be new.
RegisterExecution(e, j) ==
  /\ e \notin Registered
  /\ \A f \in Registered : executions[f].job # j
  /\ executions' = [f \in Registered \cup {e} |->
                      IF f = e THEN Row(j, "SUBMITTED") ELSE executions[f]]
  /\ UNCHANGED <<observations, now, pollVars, polls, ingested, best, overlap>>

Answer(p) == Timeline[executions[polled[p]].job][now[executions[polled[p]].job]]

StartPoll(p, e) ==
  /\ polled[p] = NoExecution /\ polls < MaxPolls
  /\ e \in Registered
  /\ polled' = [polled EXCEPT ![p] = e]
  /\ step' = [step EXCEPT ![p] = "squeue"]
  /\ polls' = polls + 1
  /\ overlap' = IF \E q \in Pollers : polled[q] = e THEN overlap \cup {e} ELSE overlap
  /\ UNCHANGED <<executions, observations, now, found, foundAt, ingested, best>>

\* One answer was printed: it is what the poll will record.
Take(p, record) ==
  /\ record # NoRecord
  /\ found' = [found EXCEPT ![p] = record]
  /\ foundAt' = [foundAt EXCEPT ![p] = now[executions[polled[p]].job]]
  /\ step' = [step EXCEPT ![p] = "record"]
  /\ UNCHANGED <<executions, observations, now, polled, polls, ingested, best, overlap>>

AskQueue(p) ==
  /\ polled[p] # NoExecution /\ step[p] = "squeue"
  /\ \/ Take(p, Answer(p).queue)
     \/ /\ Answer(p).queue = NoRecord
        /\ step' = [step EXCEPT ![p] = "sacct"]
        /\ UNCHANGED <<executions, observations, now, polled, found, foundAt,
                       polls, ingested, best, overlap>>

AskAccounting(p) ==
  /\ polled[p] # NoExecution /\ step[p] = "sacct"
  /\ Take(p, Answer(p).accounting)

\* Mutant of RecordObservation: a state any execution was in is no news.
RecordNewState(e, record) ==
  IF \E f \in ExecutionIds : \E i \in DOMAIN observations[f] :
       observations[f][i].state = record.state
  THEN UNCHANGED <<executions, observations>>
  ELSE /\ observations' = [observations EXCEPT ![e] = Append(@, record)]
       /\ executions' = [executions EXCEPT ![e] = Row(@.job, record.state)]

\* record_execution_observation, one immediate transaction: a state and raw
\* record stored before are not stored again, and then the summary is not
\* updated either.
RecordObservation(e, record) ==
  IF \E i \in DOMAIN observations[e] : observations[e][i] = record
  THEN UNCHANGED <<executions, observations>>
  ELSE /\ observations' = [observations EXCEPT ![e] = Append(@, record)]
       /\ executions' = [executions EXCEPT ![e] = Row(@.job, record.state)]

EndPoll(p) ==
  /\ polled' = [polled EXCEPT ![p] = NoExecution]
  /\ step' = [step EXCEPT ![p] = "squeue"]
  /\ found' = [found EXCEPT ![p] = NoRecord]
  /\ foundAt' = [foundAt EXCEPT ![p] = 0]

FinishPoll(p) ==
  LET e == polled[p]
  IN /\ e # NoExecution /\ step[p] = "record"
     /\ RecordObservation(e, found[p])
     /\ EndPoll(p)
     /\ ingested' = [ingested EXCEPT ![e] = foundAt[p]]
     /\ best' = [best EXCEPT ![e] = IF @ < foundAt[p] THEN foundAt[p] ELSE @]
     /\ UNCHANGED <<now, polls, overlap>>

\* ssh fails or times out, the answer is none or not one record of the job,
\* or the polling process dies: nothing is recorded.
FailPoll(p) ==
  /\ polled[p] # NoExecution
  /\ EndPoll(p)
  /\ UNCHANGED <<executions, observations, now, polls, ingested, best, overlap>>

\* External: the scheduler moves the job on.
Advance(j) ==
  /\ now[j] < Len(Timeline[j])
  /\ now' = [now EXCEPT ![j] = @ + 1]
  /\ UNCHANGED <<executions, observations, pollVars, polls, ingested, best, overlap>>

Next ==
  \/ \E e \in ExecutionIds, j \in Jobs : RegisterExecution(e, j)
  \/ \E j \in Jobs : Advance(j)
  \/ \E p \in Pollers : \/ \E e \in ExecutionIds : StartPoll(p, e)
                        \/ AskQueue(p) \/ AskAccounting(p)
                        \/ FinishPoll(p) \/ FailPoll(p)

Spec == Init /\ [][Next]_vars
-----------------------------------------------------------------------------
(* Properties.                                                             *)

\* What a poll may be told of a job at a position: sacct is only asked once
\* squeue knew nothing.
Answers(j, k) ==
  LET asked == {i \in 1 .. k : Timeline[j][i].queue = NoRecord}
  IN ({Timeline[j][k].queue} \cup {Timeline[j][k].accounting : i \in asked}) \ {NoRecord}
StatesAt(j, k) == {r.state : r \in Answers(j, k)}

\* No record of the job is printed again once it was in another state.
NoneComesBack(j) ==
  \A k, l, m \in DOMAIN Timeline[j] : k <= l /\ l < m =>
    \A r \in Answers(j, k) \cap Answers(j, m) : StatesAt(j, l) = {r.state}

Summarized(e, k) ==
  IF k = 0 THEN executions[e].current_state = "SUBMITTED"
  ELSE executions[e].current_state \in StatesAt(executions[e].job, k)

\* Unless two polls of an execution overlapped, or a record of its job came back,
\* its summary shows the furthest position any poll of it has recorded: failed
\* polls, jobs that leave the queue between the two queries and repeated answers
\* never take it back (executions.py:112-149, slurm.py:190-222).
OnlyOverlapTakesBack ==
  \A e \in Registered \ overlap :
    NoneComesBack(executions[e].job) => Summarized(e, best[e])

\* Only a job that has ended is ever shown inactive.  One is, if all that was
\* reported of it at the furthest position recorded is that it ended, under the
\* same two conditions.  No two executions track one job
\* (executions.py:36, 73-99, 131-149 and the UNIQUE of schema.sql:179).
InactiveMeansEnded ==
  \A e \in Registered :
    LET job == executions[e].job
    IN /\ ~ executions[e].active =>
            \E k \in 1 .. now[job] : StatesAt(job, k) \cap TerminalStates # {}
       /\ /\ e \notin overlap /\ NoneComesBack(job) /\ best[e] # 0
          /\ StatesAt(job, best[e]) \subseteq TerminalStates
          => ~ executions[e].active
       /\ \A f \in Registered : executions[f].job = job => f = e

\* What executions.py:106 says: "Append an observation and update the execution
\* summary in ingestion order".  The summary shows what was ingested last.
SummaryInIngestionOrder ==
  \A e \in Registered : Summarized(e, ingested[e])
=============================================================================
