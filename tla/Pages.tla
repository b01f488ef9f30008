-------------------------------- MODULE Pages --------------------------------
(***************************************************************************)
(* The page of a project (_project_read_model of state.py) and the part of *)
(* the portfolio that goes by it, while events, risks and disputes change. *)
(* A page is made from three SELECTs that no transaction holds together:   *)
(* the timeline, the open disputes, and the closed risks.                  *)
(*                                                                         *)
(* The ledger is only appended to, so a timeline is known by the number of *)
(* events there were.  What of an event's payload counts here is given by  *)
(* its id.  Left out: what is only counted, formatted or sorted, the plan, *)
(* the planning summary and the executions, which are read besides, and    *)
(* events whose task_key is blank rather than null.                        *)
(***************************************************************************)
EXTENDS Risks

CONSTANTS
  Viewers,     \* processes that make a page
  Alarming,    \* the events whose importance is a blocker or a risk
  Deciding,    \* those whose importance is "Decision needed"
  WithAction,  \* those with a next_action
  Inactive,    \* the states in which a task has no work: _NON_ACTIVE_STATES
  NoPage

Page == [ project : Projects, upto : Nat, disputed : SUBSET Tasks,
          read : {"timeline", "conflicts"} ]

ASSUME PagesAssumption ==
  /\ Alarming \cup Deciding \cup WithAction \subseteq EventIds
  /\ Alarming \cap Deciding = {}
  /\ Inactive \subseteq States
  /\ NoPage \notin Page

VARIABLE page  \* the page each viewer is making

pagesVars == <<risksVars, page>>

PagesInit == RisksInit /\ page = [w \in Viewers |-> NoPage]
-----------------------------------------------------------------------------
(* What a page g says.                                                     *)

TaskRows(g, t) == {i \in 1 .. g.upto : events[i].task = t}

\* _current_events: the latest of each task, and every one without a task.
Current(g) ==
  {i \in 1 .. g.upto :
     /\ Owner[events[i].task] = g.project
     /\ events[i].task \in Keyless \/ i \in Latest(TaskRows(g, events[i].task))}

Supported(i) == events[i].evidence = "available"

ConfirmedRows(g, t) ==
  {i \in TaskRows(g, t) : events[i].new_state # NoState /\ Supported(i)}

\* Mutant of UnderWay: a completed or waiting task counts too.
Stated(g, t) == t \notin g.disputed /\ ConfirmedRows(g, t) # {}

\* _workstream_states: the task is undisputed and in an active state.
UnderWay(g, t) ==
  /\ t \notin g.disputed
  /\ \E i \in Latest(ConfirmedRows(g, t)) : events[i].new_state \notin Inactive

\* _next_work: the events whose next action the page proposes.
NextWork(g) ==
  {i \in Current(g) : /\ events[i].id \in WithAction /\ events[i].task \notin Keyless
                      /\ UnderWay(g, events[i].task) /\ Supported(i)}

Decisions(g) ==
  {i \in Current(g) : /\ events[i].id \in Deciding /\ events[i].task \notin Keyless
                      /\ Supported(i)}

Alarms(g) == {i \in Current(g) : events[i].id \in Alarming /\ Supported(i)}

\* _current_blockers_and_risks, but what the portfolio shows as a decision.
Watch(g) ==
  {i \in Alarms(g) : /\ ~ Hidden(i)
                     /\ \A d \in Decisions(g) : events[d].task # events[i].task}
-----------------------------------------------------------------------------
(* The steps of a viewer.                                                  *)

ReadTimeline(w, p) ==
  /\ page[w] = NoPage
  /\ p \in Registered
  /\ page' = [page EXCEPT ![w] = [project |-> p, upto |-> Len(events), disputed |-> {},
                                  read |-> "timeline"]]
  /\ UNCHANGED risksVars

\* _open_conflicts.
ReadConflicts(w) ==
  /\ page[w] # NoPage /\ page[w].read = "timeline"
  /\ page' = [page EXCEPT ![w].read = "conflicts",
                          ![w].disputed = {t \in Tasks : Owner[t] = page[w].project
                                                         /\ Open(t) # {}}]
  /\ UNCHANGED risksVars

\* _inactive_risk_event_ids; the page is complete.
ReadRisks(w) ==
  /\ page[w] # NoPage /\ page[w].read = "conflicts"
  /\ page' = [page EXCEPT ![w] = NoPage]
  /\ UNCHANGED risksVars

PagesNext ==
  \/ RisksNext /\ UNCHANGED page
  \/ \E w \in Viewers :
       ReadConflicts(w) \/ ReadRisks(w) \/ \E p \in Projects : ReadTimeline(w, p)

PagesSpec == PagesInit /\ [][PagesNext]_pagesVars
-----------------------------------------------------------------------------
(* Properties.                                                             *)

\* The disputes of task t that were open when there were k events.
OpenAfter(t, k) ==
  {c \in conflicts : /\ c.task = t /\ c.created <= k
                     /\ \/ c.resolved_by = NoEvent
                        \/ \E r \in Stored(c.resolved_by) : r > k}

\* Event i was the last word on its task when there were k events, nobody
\* disputed it, and the task's latest confirmed state was an active one.
Due(i, k) ==
  LET t == events[i].task
      confirmed == {j \in StateOn(t) : j <= k /\ Supported(j)}
  IN /\ i \in Latest({j \in On(t) : j <= k})
     /\ OpenAfter(t, k) = {}
     /\ \E j \in Latest(confirmed) : events[j].new_state \notin Inactive

\* A next action that a page proposes was due when its timeline was read,
\* whatever was written before the disputes were: only a dispute that was
\* settled in between can escape it (state.py:1206-1232, 1255-1257).
NextWorkWasDue ==
  \A w \in Viewers : page[w] # NoPage /\ page[w].read = "conflicts" =>
    \A i \in NextWork(page[w]) :
      \/ Due(i, page[w].upto)
      \/ OpenAfter(events[i].task, page[w].upto) \ Open(events[i].task) # {}

\* Every blocker or risk that stands as the latest word on its task is on the
\* portfolio's watch, unless somebody closed a risk from it after its evidence
\* was stored: a decision about the same task never takes its place, nor a risk
\* that was closed about other evidence (state.py:944-980, 1416-1429).
WatchComplete ==
  \A w \in Viewers : page[w] # NoPage /\ page[w].read = "conflicts" =>
    \A i \in Alarms(page[w]) \ Watch(page[w]) :
      \E r \in RisksFrom(events[i].id) : \E k \in History(r) :
        k > since[r] /\ transitions[k].to \in Closed
=============================================================================
