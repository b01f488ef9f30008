-------------------------------- MODULE Risks --------------------------------
(***************************************************************************)
(* The risk lifecycle (src/research_dashboard/risks.py) over the ledger,   *)
(* and what state.py makes of it: the events that Watch hides, and what a  *)
(* portfolio query "as of" a past time shows of an event.                  *)
(*                                                                         *)
(* A "risk" stands for a pair (project_id, risk_key) and for its risk_id:  *)
(* a call that names another risk_id is refused, and is left out.          *)
(* open_or_update_risk reads the clock before it waits for the write lock  *)
(* (risks.py:135, 140), so a call is two steps; transition_risk reads it   *)
(* under the lock and is one.  Every reading of the clock is a later time. *)
(* The note and the event that a transition cites are left out: nothing    *)
(* reads them.                                                             *)
(***************************************************************************)
EXTENDS Ledger

CONSTANTS
  Risks, RiskProject,  \* the risks, and the project of each
  Fingerprints,        \* of the evidence that callers report
  Targets,             \* the statuses that callers name, of the seven there are
  Callers,             \* processes that call open_or_update_risk
  Times,               \* the values of created_at that callers give
  Calls,               \* the updates that callers make
  Observed,            \* observed_at of each event, which its producer gives
  NoRisk, NoStatus, NoCall,
  MaxClock             \* bound on the readings of the clock

Statuses == {"New", "Investigating", "Understood", "Action planned", "Resolved",
             "Accepted", "Waiting"}

\* The statuses that neither Watch nor list_needs_attention shows.
Closed == {"Accepted", "Resolved"}

\* _ALLOWED_TRANSITIONS: any status but itself may become New, Investigating or
\* Waiting and be closed; a closed one only goes back to the first two, and the
\* two middle ones are reached in turn.
Allowed(from, to) ==
  /\ from # to
  /\ \/ to \in {"New", "Investigating"}
     \/ from \notin Closed /\ to \in Closed \cup {"Waiting"}
     \/ <<from, to>> \in {<<"Investigating", "Understood">>,
                          <<"Understood", "Action planned">>}

\* A RiskInput; title, severity and the like are abstracted with the fingerprint.
Call == [ risk : Risks, status : Targets, fingerprint : Fingerprints,
          origin : EventIds, created : Times ]

Row == [ status : Statuses, fingerprint : Fingerprints, origin : EventIds,
         created : Times ]

Transition == [ risk : Risks, from : Statuses \cup {NoStatus}, to : Statuses, at : Nat ]

ASSUME RisksAssumption ==
  /\ RiskProject \in [Risks -> Projects]
  /\ Targets \subseteq Statuses
  /\ Times \subseteq Nat
  /\ Calls \subseteq Call
  /\ Observed \in [EventIds -> Nat]
  /\ NoRisk \notin Row /\ NoStatus \notin Statuses /\ NoCall \notin Call
  /\ MaxClock \in Nat

VARIABLES
  risk,         \* the rows of risks
  transitions,  \* the rows of risk_transitions in the order of insertion
  ingested,     \* ingested_at of each event, created_at of the conflict it opened
  clock,        \* the last reading
  call, stamp,  \* the update each caller is about to store and the time it read
  since         \* history: the transitions there were when its evidence was stored

riskVars  == <<risk, transitions, since>>
callVars  == <<call, stamp>>
risksVars == <<events, conflicts, ingested, clock, riskVars, callVars>>

RisksInit ==
  /\ Init
  /\ risk = [r \in Risks |-> NoRisk]
  /\ transitions = <<>>
  /\ ingested = <<>>
  /\ clock = 0
  /\ call = [u \in Callers |-> NoCall]
  /\ stamp = [u \in Callers |-> 0]
  /\ since = [r \in Risks |-> 0]

Known(r) == risk[r] # NoRisk

\* An event of the risk's project (_require_originating_event).
EventOf(r, id) == \E i \in Stored(id) : Owner[events[i].task] = RiskProject[r]

ReadClock == clock < MaxClock /\ clock' = clock + 1
-----------------------------------------------------------------------------
(* Operations.                                                             *)

\* ingest_event; its timestamps are read under the lock.
Ingest(v, explicit) ==
  /\ AppendEvent(v, explicit)
  /\ ReadClock
  /\ ingested' = Append(ingested, clock')
  /\ UNCHANGED <<riskVars, callVars>>

\* open_or_update_risk up to BEGIN IMMEDIATE: the project exists.
BeginUpdate(u, c) ==
  /\ call[u] = NoCall
  /\ RiskProject[c.risk] \in Registered
  /\ ReadClock
  /\ call' = [call EXCEPT ![u] = c]
  /\ stamp' = [stamp EXCEPT ![u] = clock']
  /\ UNCHANGED <<events, conflicts, ingested, riskVars>>

\* Mutant of SetRow: a transition is stored for a status that stays.
SetRowAndLog(r, row, from, at) ==
  /\ risk' = [risk EXCEPT ![r] = row]
  /\ transitions' =
       Append(transitions, [risk |-> r, from |-> from, to |-> row.status, at |-> at])

\* The row of a risk and the transition that leads to its status.
SetRow(r, row, from, at) ==
  /\ risk' = [risk EXCEPT ![r] = row]
  /\ transitions' =
       IF from = row.status THEN transitions
       ELSE Append(transitions, [risk |-> r, from |-> from, to |-> row.status, at |-> at])

\* The caller is done, with or without an exception.
EndUpdate(u) ==
  /\ call' = [call EXCEPT ![u] = NoCall]
  /\ stamp' = [stamp EXCEPT ![u] = 0]
  /\ UNCHANGED <<events, conflicts, ingested, clock>>

\* No row of (project_id, risk_key) yet: the risk starts as its caller says.
OpenRisk(u) ==
  LET c == call[u] IN
  /\ c # NoCall
  /\ EventOf(c.risk, c.origin)
  /\ ~ Known(c.risk)
  /\ SetRow(c.risk, [status |-> c.status, fingerprint |-> c.fingerprint,
                     origin |-> c.origin, created |-> c.created],
            NoStatus, stamp[u])
  /\ since' = [since EXCEPT ![c.risk] = Len(transitions)]
  /\ EndUpdate(u)

\* Mutant of UpdateRisk: the evidence changes and the status stays.
UpdateRiskQuietly(u) ==
  LET c == call[u] IN
  /\ c # NoCall
  /\ EventOf(c.risk, c.origin)
  /\ Known(c.risk) /\ risk[c.risk].fingerprint # c.fingerprint
  /\ risk' = [risk EXCEPT ![c.risk].fingerprint = c.fingerprint,
                          ![c.risk].origin = c.origin]
  /\ EndUpdate(u)
  /\ since' = [since EXCEPT ![c.risk] = Len(transitions)]
  /\ UNCHANGED transitions

\* Changed evidence: the risk is New again, from any status.
UpdateRisk(u) ==
  LET c == call[u] IN
  /\ c # NoCall
  /\ EventOf(c.risk, c.origin)
  /\ Known(c.risk) /\ risk[c.risk].fingerprint # c.fingerprint
  /\ SetRow(c.risk, [risk[c.risk] EXCEPT !.status = "New", !.fingerprint = c.fingerprint,
                                         !.origin = c.origin],
            risk[c.risk].status, stamp[u])
  /\ since' = [since EXCEPT ![c.risk] = Len(transitions')]
  /\ EndUpdate(u)

\* The call stores nothing: an unchanged fingerprint, an origin it refuses, a
\* busy database or a death.
DropUpdate(u) ==
  /\ call[u] # NoCall
  /\ EndUpdate(u)
  /\ UNCHANGED riskVars

\* transition_risk, accept_risk and resolve_risk.
TransitionRisk(r, to) ==
  /\ Known(r)
  /\ Allowed(risk[r].status, to)
  /\ ReadClock
  /\ SetRow(r, [risk[r] EXCEPT !.status = to], risk[r].status, clock')
  /\ UNCHANGED <<events, conflicts, ingested, since, callVars>>

\* ValueError: no such risk, the status it has already, a way not allowed.
RefuseTransition(r, to) ==
  /\ ~ (Known(r) /\ Allowed(risk[r].status, to))
  /\ UNCHANGED risksVars

RisksNext ==
  \/ \E v \in Inputs, explicit \in Explicit : Ingest(v, explicit)
  \/ \E u \in Callers :
       OpenRisk(u) \/ UpdateRisk(u) \/ DropUpdate(u) \/ \E c \in Calls : BeginUpdate(u, c)
  \/ \E r \in Risks, to \in Targets : TransitionRisk(r, to) \/ RefuseTransition(r, to)

RisksSpec == RisksInit /\ [][RisksNext]_risksVars
-----------------------------------------------------------------------------
(* What the read models make of risks and of the ledger's past.            *)

RisksFrom(id) == {r \in Risks : Known(r) /\ risk[r].origin = id}

\* Mutant of Hidden: the closed risks of all the task's events.
HiddenWithTask(i) ==
  \E j \in On(events[i].task) : \E r \in RisksFrom(events[j].id) : risk[r].status \in Closed

\* An event that neither Watch nor a project's blockers show any more.
Hidden(i) == \E r \in RisksFrom(events[i].id) : risk[r].status \in Closed

\* The transitions of a risk that a query as of c sees.
Recorded(r, c) ==
  {k \in DOMAIN transitions : transitions[k].risk = r /\ transitions[k].at <= c}

\* The status after the one with the latest timestamp; empty when there is none.
StatusAt(r, c) ==
  {transitions[k].to :
     k \in {m \in Recorded(r, c) :
              \A j \in Recorded(r, c) : transitions[j].at <= transitions[m].at}}

\* The event's risks that existed, as their callers said, at c.
RisksAt(i, c) == {r \in RisksFrom(events[i].id) : risk[r].created <= c}

\* Mutant of RiskStatuses: the status is the one on record now.
RiskStatusesNow(i, c) == {risk[r].status : r \in RisksAt(i, c)}

\* The statuses of the event's risks (the code keeps one of several).
RiskStatuses(i, c) == UNION {StatusAt(r, c) : r \in RisksAt(i, c)}

\* _conflict_visible_as_of: it was on record, between events observed by then,
\* and not resolved by an event observed by then.
VisibleConflict(d, c) ==
  /\ ingested[d.created] <= c
  /\ Observed[d.left] <= c /\ Observed[d.right] <= c
  /\ d.resolved_by # NoEvent => Observed[d.resolved_by] > c

\* An event observed later is no part of the answer, nor is one whose risks are
\* all of a later time; the next action of a disputed task is redacted.
InAnswer(i, c) ==
  /\ Observed[events[i].id] <= c
  /\ RisksFrom(events[i].id) # {} => RiskStatuses(i, c) # {}

Redacted(i, c) ==
  /\ events[i].task \notin Keyless
  /\ \E d \in conflicts : d.task = events[i].task /\ VisibleConflict(d, c)

\* What a portfolio query as of c says of event i.
AnswerAt(i, c) ==
  [shown |-> InAnswer(i, c), redacted |-> Redacted(i, c), risks |-> RiskStatuses(i, c)]
-----------------------------------------------------------------------------
(* Properties.                                                             *)

\* The types of the risk tables and of the calls.
RisksTypeOK ==
  /\ TypeOK
  /\ since \in [Risks -> Nat]
  /\ risk \in [Risks -> Row \cup {NoRisk}]
  /\ transitions \in Seq(Transition)
  /\ ingested \in Seq(Nat) /\ Len(ingested) = Len(events)
  /\ clock \in Nat
  /\ call \in [Callers -> Call \cup {NoCall}]
  /\ stamp \in [Callers -> Nat]

History(r) == {k \in DOMAIN transitions : transitions[k].risk = r}

\* The history of a risk is a path of the lifecycle: in the order of insertion
\* each transition starts where the one before it ended and is an allowed one,
\* the first starts from nothing, and the last one ends in the status on
\* record, whoever else updated or moved the risk meanwhile (risks.py:140-212,
\* 232-251: the row is read and written under one write lock).
TransitionsChain ==
  /\ \A k \in DOMAIN transitions :
       LET before == {j \in History(transitions[k].risk) : j < k} IN
       /\ before = {} => transitions[k].from = NoStatus
       /\ \A j \in Latest(before) : /\ transitions[k].from = transitions[j].to
                                    /\ Allowed(transitions[j].to, transitions[k].to)
  /\ \A r \in Risks : /\ Known(r) <=> History(r) # {}
                      /\ \A k \in Latest(History(r)) : transitions[k].to = risk[r].status

\* An event is hidden from Watch only by a decision that came after the risk's
\* evidence was stored: other evidence, also when it arrives while somebody is
\* closing the risk, brings the risk back (risks.py:185-212, state.py:944-958).
HiddenWasWeighed ==
  \A i \in DOMAIN events : \A r \in RisksFrom(events[i].id) :
    risk[r].status \in Closed =>
      \E k \in History(r) : k > since[r] /\ transitions[k].to \in Closed

\* The update some caller read the clock for by c ends in this step.
LateUpdate(r, c) ==
  \E u \in Callers : /\ call[u] # NoCall /\ call[u].risk = r /\ stamp[u] <= c
                     /\ call'[u] = NoCall

\* A correction observed by c arrives, later, for the task of event i.
LateCorrection(i, c) ==
  \E k \in DOMAIN events' \ DOMAIN events :
    /\ events'[k].task = events[i].task /\ events'[k].type \in CorrectionTypes
    /\ Observed[events'[k].id] <= c

\* A query as of a past time keeps its answer about an event, but for an update
\* that read its time by then, a correction observed by then, or a step that
\* gives the event a risk or the risk other evidence (state.py:237-249, 402-434,
\* 1077-1099: rows that came later do not count).
PastStable ==
  [][\A i \in DOMAIN events, c \in 0 .. clock :
       \/ AnswerAt(i, c)' = AnswerAt(i, c)
       \/ RisksFrom(events[i].id)' # RisksFrom(events[i].id)
       \/ \E r \in RisksFrom(events[i].id) : LateUpdate(r, c)
       \/ LateCorrection(i, c)]_risksVars
=============================================================================
