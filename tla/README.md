# Research dashboard: TLA+ models, checks and proofs

The research dashboard is a local Python program. Agents and people submit
*semantic events* about research tasks to it, it keeps them in an append-only
SQLite ledger, and read models derive from the ledger what a person should look
at. Around the ledger there are a project registry, a store for roadmaps and
TODOs with a review workflow for governing plan files, an inbox whose items are
routed into the ledger, and a store for cluster executions with a Slurm adapter.

Nothing in it is a server in the usual sense. The processes (command line calls,
agents, the web server, a scheduled sync) share one database file and are
coordinated by SQLite's locks alone; plan files are edited by people at any
moment; and most calls are several transactions, or read something before the
transaction that acts on it. What a test hardly reaches is therefore: another
process between two steps of a call, a retry, a death between commit and answer,
and long sequences of legal calls.

All source paths below are relative to the repository (`src/` here): `events.py`
means `src/research_dashboard/events.py`, documents are in `docs/`.

## 1. Inventory

| component | code | state | operations |
|---|---|---|---|
| semantic event ledger | `events.py`, `domain.py`, `schema.sql` | tables `events`, `event_evidence`, `state_conflicts` | `ingest_event` (append, replay, refuse; open and settle conflicts) |
| canonical writer | `writer.py` | a connection per call | `submit_event`: writability, lifecycle, ingest, receipt |
| current task state | `state.py` 1463-1510 | none | `current_task_state`: two queries |
| transactions | `db.py` `transaction` | SQLite's locks and journal | outer blocks, savepoints, commit, rollback |
| database set-up, snapshots | `db.py` `init_db`, `create_snapshot` | schema, snapshot files | create, migrate, link a copy |
| project registry | `registry.py` | `projects`, `project_roots`, `governing_plans`, lifecycles | register, add roots, set lifecycle, set plan, look up by path |
| discovery and admission | `discovery.py` | none | scan directories, `sync_projects` |
| risk lifecycle | `risks.py` | `risks`, `risk_transitions` | `open_or_update_risk`, `transition_risk`, `accept_risk`, `resolve_risk` |
| reviews and checkpoints | `reviews.py`, listings in `state.py` | `review_state`, `named_checkpoints` | `mark_reviewed`, `create_named_checkpoint`, changes since one of them |
| activity inbox | `inbox_routing.py`, `registry.create_inbox_item` | `activity_inbox` | create, `route_inbox_items` |
| log sync | `log_sync.py` | deterministic event ids | import log entries |
| planning store | `planning.py` | `roadmap_items`, `todos` | create, update, delete, reorder, attach, set status |
| plan synchronization | `plan_sync.py` | `roadmap_sync_state`, `roadmap_proposal_batches`, the plan files | bootstrap, create batch, review batch, status |
| execution store, Slurm adapter | `executions.py`, `adapters/slurm.py` | `executions`, `execution_observations` | register, poll, observe |
| portfolio and project read models | `state.py` | none | project pages, portfolio, watch, the portfolio as of a past time |
| command line | `cli.py` | none | calls of the above, planning batches in one transaction |
| web views | `web.py`, `presentation.py`, `provenance.py` | none | read only |
| settings | `settings.py` | none | reads an environment variable |

How they interact:

- *Shared tables.* The writer, the inbox and the log sync all write the ledger
  through `ingest_event`. The inbox and the log sync read roots and lifecycles of
  the registry, which discovery adds candidates to; plan synchronization writes
  the planning store and reads the registry's governing plan. Risks originate
  from events, and close what the views show of them; reviews mark how far the
  ledger has been looked at.
- *Calls within a transaction.* `transaction` nests: an inner block is a
  savepoint, so `route_inbox_items` imports and assigns an item in one
  transaction, and the command line runs a batch of planning calls in one.
- *Reads outside a transaction.* The writer reads the lifecycle, a routing run
  its whole view of the world, `current_task_state` its two queries, a page its
  three, a listing its three, a discovery whether a folder is known, a log sync
  the projects, roots and files, a poll the scheduler's answer, an update of a
  risk its clock and a review the plan file, all before or besides the
  transaction that uses them.

What makes each part correct:

- **Ledger.** History is only appended to. A state change that does not continue
  what is on record is a correction or leaves a conflict. Conflicts join
  consecutive events, are settled by corrections only, oldest first.
- **Writer.** A receipt points at the caller's own event, stored once, however
  often the call is repeated; a completed project takes no new calls; no
  submitted event is silently lost.
- **Task state.** The answer is a state the task had during the call.
- **Transactions.** All or nothing, also through nesting; no lost updates; the
  write lock always comes free.
- **Executions.** A summary follows the observations and does not go back;
  "inactive" means that the job ended.
- **Inbox.** An item is assigned exactly when it was imported; only uniquely
  attributable items are; clear ones are in the end.
- **Planning.** The roadmap is a forest of two levels, attachments are local to
  a project, positions are not handed out twice.
- **Plan synchronization.** One batch awaits review per version, what is
  acknowledged was decided on, nothing is imported or applied twice.
- **Risks.** The history of a risk is a path of the lifecycle; only a decision
  about its latest evidence takes its event out of sight.
- **Read models.** A page proposes only work that was due, a watch omits nothing
  but what was decided on, and a query as of a past time keeps its answer.
- **Reviews.** Nothing counts as reviewed that nobody was shown; a listing does
  not propose actions of a disputed task.
- **Registry and discovery.** A root has one owner, a discovered project a root,
  through any races of discovery, admission and registration.
- **Log sync.** An entry is imported once, only for projects that somebody
  admitted, and in the end every one is.
- **Snapshots.** A snapshot is the database as one commit left it.

## 2. Modules

| module | models | built on |
|---|---|---|
| `Ledger` | `ingest_event` and its tables | |
| `TaskStates` | the abstract promise about a task, without a ledger | |
| `ReadModel` | what `current_task_state` derives from the tables | `Ledger` |
| `Writer` | `submit_event`, retries, lifecycles | `ReadModel` |
| `TaskReader` | the two queries of `current_task_state` | `ReadModel` |
| `Reviews` | the review mark, checkpoints, listings of changes | `TaskReader` |
| `Risks` | the risk lifecycle, what it hides, queries as of a past time | `Ledger` |
| `Pages` | project pages and the portfolio's watch | `Risks` (extends, implements) |
| `Registry` | projects, roots, discovery, admission | `Ledger` |
| `LogSync` | `sync_project_logs` and the log files | `Registry`, `Ledger` |
| `Inbox` | `route_inbox_items`, roots, lifecycles | `Ledger` |
| `SqliteTx` | `db.transaction` over SQLite's locks | |
| `Snapshots` | `create_snapshot` beside transactions | `SqliteTx` |
| `Executions` | execution store, Slurm polls, the scheduler | |
| `Planning` | the planning store | |
| `PlanSync` | plan files, import, proposals and reviews | `Planning` (extends, and an instance on a draft) |
| `LedgerProofs` | theorems about `Ledger` | `TaskStates` (refinement) |
| `ClientProofs` | theorems about `Writer`, `TaskReader` and `Reviews` | `LedgerProofs` |
| `ActivityProofs` | theorems about `Risks`, `Pages` and `Inbox` | `LedgerProofs` |
| `MembershipProofs` | theorems about `Registry` and `LogSync` | `LedgerProofs` |
| `ExecutionsProofs` | theorems about `Executions` | |
| `SqliteProofs` | theorems about `SqliteTx` and `Snapshots` | |
| `PlanningProofs` | theorems about `Planning` | |
| `PlanSyncProofs` | theorems about `PlanSync` | `PlanningProofs` (extends, and an instance on the draft) |
| `MC*` | the instances that TLC checks | one of the above each |

A specification that extends another one and interleaves with it (`Reviews` with
`TaskReader`, `Pages` with `Risks`, `LogSync` with `Registry`, `Snapshots` with
`SqliteTx`) is checked once, as the larger of the two.

**One transaction, one step.** SQLite serializes writers, and
`transaction(immediate=True)` or a write at the start of a block keeps others
out. A call that does everything inside one transaction is one action; a call
that reads before its transaction, or has several, has an action per piece.
`SqliteTx` checks what this rests on.

**Ledger.** `events` is the sequence of rows in the order of `sequence`, with
their evidence; `conflicts` is the set of rows of `state_conflicts`. A *task*
stands for a triple (project, workstream, task_key), by which every query
selects; `Keyless` are those without a key, for which the code never opens or
settles a conflict. `AppendEvent` is the whole insertion with its decision about
conflicts, `Replay` an event that is stored already, `Refuse` every early
return. Columns that matter only to the comparison of a replay with the stored
row are part of the input record's identity.

**Writer.** `pc[p]` follows a producer through `submit_event`: check that the
database is writable, read the lifecycle, ingest, put the receipt together.
`Fail` is a busy error or a death at any of these points; the producer submits
the same event again. `SetLifecycle` is the registry's operation with its rule
that terminal lifecycles stay. `RecordConflict` is a caller that ingests
directly with an explicit conflict. `late` remembers calls that began when the
project was terminal, `receipts` every receipt ever handed out.

**TaskReader.** `ReadEvents` and `ReadConflict` are the two SELECTs; any ingest
may be committed in between. `truth` and `settled` are histories for the
properties: the states the task had during the call, and whether a dispute was
settled.

**Reviews.** The same readers also make listings, of three SELECTs: the baseline
(`ReadReviewMark` or `ReadCheckpoint`), `ReadChanges`, `ReadDisputes`. A reader
remembers its last listing, by which it may then move the mark
(`MarkReviewed`); it may also name any other sequence number, or none. `seen`
and `blind` are histories: what any finished listing showed, and the highest mark
that no listing of everything since the last review backs.

**Risks.** A *risk* stands for a (project, key) pair. An update is two steps:
`BeginUpdate` reads the clock, and `OpenRisk`, `UpdateRisk` or `DropUpdate` is
the transaction (risks.py:135, 140). `TransitionRisk` and `Ingest` read it under
the lock. The fingerprint of the evidence stands for a risk's texts. `since`
remembers how many transitions there were when a risk's evidence was stored.
`Hidden`, `VisibleConflict`, `RiskStatuses` and `AnswerAt` are the queries of
`state.py`.

**Pages.** `ReadTimeline`, `ReadConflicts` and `ReadRisks` are the three SELECTs
of a page. As the ledger is only appended to, a timeline is known by its length.
`NextWork`, `Decisions`, `Alarms` and `Watch` are what the page and the portfolio
derive; which events have a next action, or are blockers, risks or decisions, is
given by constants.

**Registry.** `AddProject`, `AddRoot`, `SetLifecycle` and `AdmitProject` are one
transaction each. A synchronization comes to a folder with `Discover`, looks up
its owner and its project in two queries, and then adds the candidate, or is
refused because somebody else did. The walk through directories is abstracted to
the folders it may come to in any order. `discovered` and `admitted` are
histories.

**LogSync.** A run is `BeginRun` (the list of admitted projects), `NextProject`
(its roots), and for each log `ReadLog`, `LookUp` and `Import`. Files change at any
moment; roots may be nested, so that two log names mean one file. `Die` ends a
run anywhere. An entry's event id is the triple it is derived from.

**SqliteTx.** Each connection is outside, in a body, committing or raising, at a
depth of nested blocks, with a lock (none, shared, reserved, pending), a view and
savepoints. SQLite itself is external and modelled by its documented locking in
rollback-journal mode.

**Snapshots.** A connection that takes a snapshot copies the database in two
parts under a shared lock, the two standing for sqlite3's backup of all pages
(external), and then links the copy to its name if nobody has it.

**Executions.** A poll is `StartPoll`, `AskQueue`, `AskAccounting` and
`FinishPoll`, the last one being the recording transaction; `FailPoll` may come
at any point. The scheduler is external: each job runs through a `Timeline` of
answers that squeue and sacct would give, and `Advance` moves it on between any
two steps of a poll. Parsing is abstracted to a normalized state and the raw
record it came from.

**Planning.** `items` and `todos` are functions on the stored ids. Each
operation is one action with its validations; a partial update leaves the
`Unset` arguments alone. `given` remembers that a position was chosen by the
caller, who may choose one that is taken.

**PlanSync.** `file` holds what each path contains and is edited at any moment.
`Bootstrap` and `CreateProposalBatch` read it once and are one step. A review
reads it at its start and again at its end, so it is `StartReview`, one `Apply`
per accepted proposal, in the order of the batch, on a draft of the roadmap (the
transaction's own view; the operations are those of `Planning`, instantiated on
the draft), and `FinishReview`, or `FailReview`, which rolls back. Other transactions that write
are excluded during a review, edits of the file are not. `decided` is a history
of the versions that were imported or reviewed for a project.

**Inbox.** A run is `ReadProjects`, the reading of roots, of assignments and of
pending items (all of them, or the one item just created), and then a step per
item: `RouteItem` takes the oldest one left on the run's `list`, by the order
`Created` stands for. The step is the import and assignment in one
transaction. `belief` is the run's own map of assignments, which it adds to as
it goes. What an item's text says is the constant `Content`; the regular
expressions that find names, paths and references are abstracted. `rerooted`
remembers that a root was registered while a run was under way.

## 3. Runs

Run a configuration with `tlc -config X.cfg M`. Passing runs:

**ledger** (`MCLedger.cfg`). Two projects, a keyed and a keyless task, four
events, two states; corrections of any event, also of one that is not stored, is
not the latest, or is the correction itself; explicit conflicts. `TypeOK`,
`ChainAccounted`, `ConflictsWellFormed`, `OldestSettledFirst`, `HistoryKept`, and
`TaskStatesKept`, the refinement of `TaskStates`. Four events are what the
properties need: two conflicts on one task take three, settling one of them a
fourth. The ids are symmetric. The theorems lift the bounds.

**writer** (`MCWriter.cfg`). Two producers, three calls, one failure, one task,
a first statement, another with the same id, a rival and a settling correction;
three lifecycles. `ReceiptsPointAtEvents`, `NothingAfterTerminal`,
`ReceiptMatchesLedger` and the liveness property `NoEventLost`. Two producers
suffice for every race of a call with another one, three calls for a replay
after somebody else's event.

**reader** (`MCReader.cfg`). Two readers (symmetric), two tasks of two projects,
three events, one checkpoint name, listings of both projects or of one.
`HiddenOnlyBySettlement`: an answer is a state of the task during the call,
unless a dispute was settled during it. `ReviewedWasShown`: a mark passes
nothing that no listing showed, unless it is a blind one. `DisputesRedacted`: a
listing shows no next action beside the event that began a dispute. Three
events are a claim, its rival and a correction; two readers are one who lists
while the other one marks.

**risks** (`MCRisks.cfg`). Two risks, two symmetric callers that update them,
people who close and reopen them, three events of one task, five readings of
the clock, one viewer. `TransitionsChain`, `HiddenWasWeighed`, `PastStable` of
`Risks`, `NextWorkWasDue` and `WatchComplete` of `Pages`. Two risks may have the
same event; five readings are two events, two overlapping updates and a decision.
The statuses that callers name are an open and a closed one; the theorems cover
all seven.

**membership** (`MCMembership.cfg`). Two synchronizations, two nested folders
that are or become roots of two projects, one written log that has two names
through them, one entry, one change of the file or death of a run. `OneOwner`,
`CandidatesRooted` of `Registry`, `ImportedOnce`, `HiddenUntilAdmitted` and the
liveness property `LogsImported` of `LogSync`. Both synchronizations may be at
the same folder or at the same log, which is all that races need; no symmetry,
because of liveness.

**executions** (`MCExecutions.cfg`). Two pollers, two executions and jobs, four
polls; one job runs to completion through a moment that neither queue nor
accounting knows it and one at which the queue still says that it runs, the
other is cancelled after an unknown state.
`OnlyOverlapTakesBack`: only overlapping polls, and a record of the job that comes
back (`NoneComesBack` rules it out), set a summary back; `InactiveMeansEnded`. The jobs stop, so deadlock is not checked. What is sought
takes two polls of one job that overlap a change.

**sqlite** (`MCSqlite.cfg`). Three connections, a block inside a block, two
writes, one name for snapshots. `AllOrNothing`, `NoLostUpdate`,
`SnapshotsConsistent`, and the liveness property `WriteLockComesFree`. Three
connections are a writer, a reader that wants to write and a reader, or a
snapshot, that holds up a commit; two writes are one before and one after the
first part of a copy, or the two that must not overwrite each other.

**planning** (`MCPlanning.cfg`). Three items and two TODOs, two projects (one of
them only as a source of foreign parents), positions to 2. `TwoLevels`,
`AttachmentsLocal`, `OrderKept`. Three items are a chain that would be too deep
or a cycle with a bystander; an operation moves one item. The ids are symmetric.

**plan_sync** (`MCPlanSync.cfg`). One project, two files, two versions (one with
a task, one of prose), two items, two batches, two lists of proposals. Files are
edited and the plan is switched at any moment, also during a review.
`OnePendingPerVersion`, `AcknowledgedDecided`, `NotAppliedTwice`,
`TasksImportedOnce`, and `RoadmapSound`, the planning store's invariants under
import and review. One project is enough, as every row of the synchronization
belongs to one. Batch ids and paths are symmetric.

**inbox** (`MCInbox.cfg`). Two routing runs at once, two items, of which the older
refers to the younger and mentions itself, a file in two nested directories that
may become roots of either project, lifecycles that change, one failure.
`AssignedIffImported`, `OnlyAttributable`, and the liveness property
`ClearItemsRouted`. No symmetry, because of liveness.

Every property of a passing run is known to be violated by at least one plausible
bug of the code: the alternatives are the definitions commented as "mutants" in
the modules, and PROJECT.json pairs each with the property it breaks.

### Disagreements

Two runs are expected to find a violation, each of something a document or a
docstring says:

- **writer_replay**, `ReplayReturnsOriginal`: event-contract.md:28 and
  architecture.md:68 say that replaying an event returns the original receipt.
  The status, state and conflict in it are computed from the task as it is now
  (events.py:415), so they differ once the task has moved on.
- **executions_order**, `SummaryInIngestionOrder`: executions.py:106 promises
  summaries in the order of ingestion. An observation equal to any earlier one
  is dropped (executions.py:118), so a requeued job that prints the line it
  printed before stays RUNNING in its summary.

Others came up that no run is spent on. Where a property would be violated it
says so, and allows for exactly the case:

- The receipt's `current_state` is the event's `new_state` whatever evidence
  there is (events.py:488), while the read model accepts only statements with
  available evidence; event-contract.md:26 calls it the derived state.
- The receipt of a correction that settles one of two open conflicts says the
  task is not disputed (events.py:472), so `ReceiptMatchesLedger` is limited to at
  most one.
- `current_task_state` promises not to hide uncertainty (state.py:1469), but when
  a dispute is settled between its two queries (state.py:1485) the answer is the
  disputed claim's state, undisputed, which the task never had. This is the
  exception in `HiddenOnlyBySettlement`; pages have the same one
  (`NextWorkWasDue`).
- An update of a risk reads its clock before it waits for the write lock
  (risks.py:135), so a transition that is stored later may have an earlier time.
  A query as of a time in between then changes its answer, and the status as of
  later times may be that of the transition before. `PastStable` allows for
  `LateUpdate`.
- An event is hidden when any risk from it is closed (state.py:944), also when
  another risk from it is open.
- An event may correct itself, since the foreign key is satisfied by its own row
  (events.py:259; event-contract.md:64 says otherwise).
- When a root is registered during a routing run, the run may remember another
  owner for an item than the one stored (inbox_routing.py:125), so
  `OnlyAttributable` excepts `rerooted`.

## 4. Fairness

Nothing in the program forces a caller to call, so no specification assumes that
somebody submits, edits, proposes, polls or fails.

- **Writer.** `WF_vars(Call(p))`: a running call is straight-line code whose
  waits are bounded by SQLite's busy timeout, and a producer repeats a call that
  failed. The repetition is the producers' part (external) and is what
  event-contract.md:27 describes idempotent replay for. Failures are bounded.
- **Snapshots** (which includes `SqliteTx`). Weak fairness of `Proceed(c)`: a
  thread in a transaction goes on, since no body in the code waits for another
  thread. Strong fairness of `Leave(c)`: a body that may end again and again ends,
  since no body enters nested blocks for ever. Weak fairness of `CopyPart(c)`: a
  backup that has begun reads on and lets go of the database.
- **LogSync.** Weak fairness of `Proceed(s)`: a run is straight-line code. Strong
  fairness of `BeginRun(s)`: project-sync.md:44-45 has synchronization run again
  and again. `LogsImported` says no more than that logs catch up infinitely often,
  as a file may change once more.
- **Inbox.** Weak fairness of the steps of one process, the scheduled sync, and
  strong fairness of its reading all pending items (rather than a single one) at
  that point of a run. project-sync.md:45 leaves scheduling to the user; without
  any scheduled sync nothing would be routed.

## 5. What is proved

`tlapm` checks eight modules from their definitions and the assumptions the
constants have in the modules that declare them (`LedgerAssumption`,
`ReadModelAssumption`, `ReaderAssumption`, `WriterAssumption`,
`ReviewsAssumption`, `RisksAssumption`, `PagesAssumption`, `InboxAssumption`,
`RegistryAssumption`, `LogSyncAssumption`, `ExecutionsAssumption`,
`SqliteAssumption`, `SnapshotsAssumption`, `PlanningAssumption`,
`PlanSyncAssumption`: null values are not ids, inputs are well-formed records,
derived ids are ids). There are no others; the sets may be of any size, infinite
ones included. Of each component one inductive invariant is proved, step by step,
and from it the invariants and action properties that the runs check. The
theorems are listed in PROJECT.json, but for those that only say that tables are
well typed.

**LedgerProofs.** `ChainAccounted` alone is not inductive: whether a gap is
accounted for depends on the conflict that the event opened, on that row never
changing but by being settled, and on what was open when the event came. The
invariant is

    LedgerInv == TypeOK /\ UniqueIds /\ LatestExists /\ OneConflictPerEvent
                 /\ ConflictsWellFormed /\ ChainAccounted
                 /\ OldestSettledFirst /\ OneOpenConflict

`UniqueIds` lets an id stand for a position, `LatestExists` makes the queries
with `LIMIT 1` return a row, `OneConflictPerEvent` makes `created` tell conflicts
apart, so that "the oldest open one" is one. There is one lemma per conjunct for
`AppendEvent`; the other actions change nothing. From `LedgerInv` follow
`LedgerTypes`, `ChainsAccounted`, `ConflictsSound`, `SettledInOrder`,
`AtMostOneOpen` (if no caller records conflicts explicitly), the action property
`HistorySafe`, and `LedgerKeepsPromise`: under the mapping that reads off a
task's latest stated state and whether a conflict is open, every step of the
ledger is a step of `TaskStates` or a stutter.

Other components append to the ledger too, each in its own way, and some append
events that are not `Inputs`. `WroteKeeps` is the lemma they share: a step that
appends any event, or none (`Wrote`), keeps `LedgerInv` and loses or rewrites
nothing (`Kept`). What is left to prove of a component is that it does nothing
else to the ledger, so `HistoryKept` holds of the writer with its retries
(`WriterKeepsHistory`), of routing runs (`InboxKeepsHistory`) and of log sync runs
(`LogSyncKeepsHistory`). The events of the writer are `Inputs`, so that it
implements `TaskStates` as well (`WriterKeepsPromise`).

**PlanningProofs.** `PlanningInv == TypeOK /\ TwoLevels /\ AttachmentsLocal /\
OrderKept` is inductive as it is: the validation looks at the parent's parent and
at the moved item's children, which is exactly `TwoLevels`, and the position one
past the largest keeps `OrderKept` though rows were deleted.

**PlanSyncProofs.** `SyncInv` has, beside `OnePendingPerVersion` and
`AcknowledgedDecided`, the fact that makes a review safe: `ReviewOfUnacked`, the
batch under review is stored and its version not acknowledged, which holds to
the end because no other call writes during a review. From it, `AppliedOnce`
(`NotAppliedTwice`): a review that completes changes what is acknowledged. On top
of it, `RoadmapInv` says of the roadmap and of the review's draft that both keep
`PlanningInv`, the draft's by the lemmas of `PlanningProofs` instantiated on it,
and that the draft leaves items in their projects. It gives `RoadmapSound` and
`TasksImportedOnce`.

**ClientProofs, the writer.** `WriterInv == LedgerInv /\ WriterTypeOK /\ JobGiven /\
RepliesPoint /\ ReceiptsPointAtEvents /\ LateHeld`. A receipt that is not yet
returned points at its event (`RepliesPoint`), and stays right because an id is
stored once and a sequence number never changes. `LateHeld`: a call that began on
a terminal project stands before the admission check, and its project is terminal
still. `ReceiptMatchesLedger` needs what an event does to a task's state and to
its open conflicts, both lemmas about the ledger.

**ClientProofs, the readers.** A reader's queries are tied to the ledger by `ReadersInv`
(`ConfirmedLatest`: a task with a confirmed state has a latest one;
`CallsFollowed`: during a call the history kept of it has the task's present
state, and what the first query found as well unless a dispute was settled or is
open). `ReviewsInv` adds `ListingsWhole`: a complete listing since the last review
leaves out nothing between the mark and what it shows, so that a mark it backs
passes nothing unseen.

**ActivityProofs, risks and pages.** `RisksInv == LedgerInv /\ RisksTypeOK /\ TransitionsChain /\
SinceInPast /\ ClosedAfterEvidence`: a risk that is closed was closed by the last
of its transitions, which is later than its evidence. `PastStable` follows step by
step from it. A system with pages implements `Risks` (`PagesKeepRisks`), so all
this holds of it; `PagesInv` adds that a page's timeline lies in the past
(`TimelineInPast`) and what its disputes were when they were read
(`DisputesRead`).

**ActivityProofs, the inbox.** `AssignedIffImported` is nearly inductive: it needs
that an item's import has its own id and that the task of an import is its
project's. `OnlyAttributable` is about decisions made from stale readings, and needs
what a run's readings are still worth:

    InboxInv == LedgerInv /\ InboxTypeOK /\ AssignedIffImported /\ ListsStored
                /\ BeliefHolds /\ RootsRead /\ ListedAgree /\ OnlyAttributable

`BeliefHolds`: an item that a run believes assigned is assigned, which no step can
undo. That it is assigned to the project the run believes holds only while no
root was registered during a run: then the roots a run has read are those there
are (`RootsRead`), so two runs that have the same item on their lists take it to
the same project (`ListedAgree`), and the one that comes second, which remembers
the owner it found rather than the one on record, remembers the right one.

**ExecutionsProofs.** `ExecutionsInv` ties a poll to what is recorded. `PollsHonest`:
what a poll carries from its queries to its recording was answered at a position
up to now, and that position is not behind the furthest recorded one (`best`)
unless polls of the execution overlapped; it stays so because such an execution
is polled by one at a time (`PolledAlone`). `ObservedThere` and `Unobserved`: what is
stored was answered at a position up to `best`, so an answer that is dropped as
known was given at two positions. That alone would not keep the summary right,
since the states between them may differ; where no record comes back
(`NoneComesBack`) they do not. `RowsAgree` and `SummarySeen` say what a row's state
means. From these follow `SummariesGoForward` and `InactiveHaveEnded`.

**MembershipProofs.** `MembershipInv` joins `RegistryInv` (`FolderFound`,
`AdmittedOnce`, `OneOwner`, `CandidatesRooted`), `ImportInv` (`LedgerInv`,
`ImportsNamed`: the id of an imported event is the entry it came from, and
`HiddenUntilAdmitted`) and `RunInv` (`LogRead`, `ListedOnce`: a run is only at
logs of projects that were admitted when it listed them).

**SqliteProofs.** `TxInv` says why SQLite's locks make `db.transaction` whole: one
connection at most holds the lock to write (`OneWriter`), what a connection has
read stays true while it only reads (`ViewHeld`), only the holder of PENDING
commits (`CommitLocked`), and a write is known by its number (`WritesNumbered`,
`OwnNotRaised`). `SnapshotsInv` adds that a copy under way holds its shared lock,
so that nobody commits between its parts (`CopyHeld`).

## 6. What is only model-checked

- All liveness (`NoEventLost`, `WriteLockComesFree`, `ClearItemsRouted`,
  `LogsImported`): the prover does not handle ENABLED and fairness.
- The two runs that find a violation.

Every safety invariant and action property of a passing run is stated by a
theorem. No module has RECURSIVE operators, so nothing is out of the provers'
reach for that reason.

## 7. What is left out

- *Not modelled at all:* settings, web views and presentation (read-only
  rendering), argument parsing and output of the command line; of the read
  models, what is only counted, sorted or formatted, summaries and completed
  tasks; the read-only queries of plan synchronization, the planning store and
  the registry.
- *Not modelled:* `init_db`, which is DDL that SQLite runs (two first starts at
  once may both try to add a column, db.py:83; one gets an OperationalError and
  nothing is lost); governing plans of single workstreams, whose only rule is a
  partial unique index (schema.sql:35).
- *Abstracted:* texts, titles, dates, priorities and notes; the parsing of plans
  (a version has a number of tasks), of logs (an entry is its digest), of inbox
  texts and of Slurm output; the walk through directories; the
  validation of records (only valid ones are inputs).
- *Assumed:* clocks do not go back, nor give the same time twice (conflicts are
  ordered by their time of insertion, events.py:338; the model uses the sequence
  number); SQLite keeps its documented locking, and durability through a crash.
- *Bounds in guards:* `MaxEvents`, `MaxCalls`, `MaxFailures`, `MaxPolls`,
  `MaxWrites`, `MaxDepth`, `MaxPosition`, `MaxClock`, `MaxFaults`. Each caps a
  counter or a history; none stands for a limit of the code.

## 8. Plan

The order was: ledger and its abstraction first, because everything else writes
or reads it; then the writer, the reader and the transactions under it; then the
executions; planning, plan synchronization, inbox; then risks, pages and reviews,
which say what a person gets to see; registry, discovery and log sync; snapshots.
What is left:

1. *To model:* governing plans of single workstreams beside those of whole
   projects; completed tasks and the counts of a page, where a property of theirs
   relates two queries; the reading of a clock that goes back, which reorders
   conflicts (events.py:338).
