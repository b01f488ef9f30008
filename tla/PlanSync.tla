------------------------------ MODULE PlanSync ------------------------------
(***************************************************************************)
(* Plan synchronization (src/research_dashboard/plan_sync.py) over the     *)
(* planning store: a project's governing plan is a file that users edit at *)
(* any moment; the dashboard imports it into an empty roadmap, and later   *)
(* versions of it through batches of proposals that an agent stores and a  *)
(* user reviews.                                                           *)
(*                                                                         *)
(* Every call writes in a transaction, so the calls exclude each other but *)
(* not the edits of the file.  A review reads the file twice and is        *)
(* several steps on a copy of the roadmap, the transaction's own view; a   *)
(* call that reads it once is one step, at that read.  A batch of the      *)
(* command line (cli.py:256-363) is a sequence of the other calls in one   *)
(* transaction and adds nothing but their atomicity (see SqliteTx).        *)
(* Sources that callers give to items themselves are left out.             *)
(***************************************************************************)
EXTENDS Planning, Sequences

CONSTANTS
  Paths,          \* the files that may be governing plans
  NoPlan,         \* no active governing plan
  Versions,       \* contents of a plan file, or their hashes
  Gone,           \* a file that cannot be read
  TasksOf,        \* the number of tasks a content lists, 0 if it is ambiguous
  BatchIds,
  ProposalLists,  \* the lists of proposals that agents make
  NoCall          \* no review is under way

Proposal ==
  [op : {"add"}, parent : ItemIds \cup {NoItem}]
    \cup [op : {"remove"}, item : ItemIds]
    \cup [op : {"reorder"}, parent : ItemIds \cup {NoItem},
          order : UNION {Places(S) : S \in SUBSET ItemIds}]

Batch == [project : Projects, path : Paths, version : Versions, proposals : Seq(Proposal),
          status : {"Pending", "Reviewed"}]

ASSUME PlanSyncAssumption ==
  /\ NoPlan \notin Paths /\ Gone \notin Versions
  /\ TasksOf \in [Versions -> Nat]
  /\ ProposalLists \subseteq Seq(Proposal) \ {<<>>}

VARIABLES
  file,      \* what each path holds
  plan,      \* the path of each project's active governing plan
  acked,     \* roadmap_sync_state: the <<path, version>> acknowledged last, if any
  batches,   \* rows of roadmap_proposal_batches, a function on the stored ids
  source,    \* source_plan_path and source_key of items: <<path, ordinal>>
  review,    \* the review under way: its batch and the selected indices yet to apply
  draftItems, draftTodos,  \* its view of the roadmap and of the TODOs
  decided    \* history: the <<project, path, version>> imported or reviewed

draft    == <<review, draftItems, draftTodos>>
syncVars == <<planningVars, file, plan, acked, batches, source, draft, decided>>

Draft == INSTANCE Planning WITH items <- draftItems, todos <- draftTodos

NoRows == [k \in {} |-> NoItem]
Closed == review' = NoCall /\ draftItems' = NoRows /\ draftTodos' = NoRows

SyncInit ==
  /\ Init
  /\ file \in [Paths -> Versions] /\ plan = [p \in Projects |-> NoPlan]
  /\ acked = [p \in Projects |-> <<>>]
  /\ batches = NoRows /\ source = NoRows
  /\ review = NoCall /\ draftItems = NoRows /\ draftTodos = NoRows
  /\ decided = {}
-----------------------------------------------------------------------------
Has(path, version) == path # NoPlan /\ version # Gone /\ file[path] = version

IsAcked(p, path, version) == acked[p] = <<path, version>>

\* Mutant of Acknowledge: ON CONFLICT forgets the path.
AcknowledgeVersion(p, path, version) ==
  acked' = [acked EXCEPT ![p] = <<IF @ = <<>> THEN path ELSE @[1], version>>]

\* _acknowledge_plan.
Acknowledge(p, path, version) == acked' = [acked EXCEPT ![p] = <<path, version>>]

PendingOf(p, path, version) ==
  {b \in DOMAIN batches : /\ batches[b].project = p /\ batches[b].path = path
                          /\ batches[b].version = version /\ batches[b].status = "Pending"}

\* _ensure_batch_source_is_current.
SourceIsCurrent(b) ==
  plan[batches[b].project] = batches[b].path /\ Has(batches[b].path, batches[b].version)

ItemsOf(p) == {i \in DOMAIN items : items[i].project = p}

\* Users and agents edit the roadmap and the TODOs; a deleted item's source goes
\* with its row.
EditRoadmap ==
  /\ review = NoCall
  /\ Next
  /\ source' = Restrict(source, DOMAIN source \cap DOMAIN items')
  /\ UNCHANGED <<file, plan, acked, batches, draft, decided>>

EditFile(path, content) ==
  /\ file' = [file EXCEPT ![path] = content]
  /\ UNCHANGED <<planningVars, plan, acked, batches, source, draft, decided>>

\* set_governing_plan for the whole project.
SetPlan(p, path) ==
  /\ review = NoCall
  /\ plan' = [plan EXCEPT ![p] = path]
  /\ UNCHANGED <<planningVars, file, acked, batches, source, draft, decided>>

\* Mutant of Importable: the roadmap need not be empty.
ImportableAnyway(p) == plan[p] # NoPlan /\ file[plan[p]] # Gone /\ TasksOf[file[plan[p]]] > 0

\* The active plan can be read and lists tasks, and the roadmap is empty.
Importable(p) ==
  /\ plan[p] # NoPlan /\ file[plan[p]] # Gone /\ TasksOf[file[plan[p]]] > 0
  /\ ItemsOf(p) = {}

\* bootstrap_roadmap_from_governing_plan: one item per task, in order, under the
\* fresh ids that ids lists; the next positions of an empty roadmap are 0, 1, ...
Bootstrap(p, ids) ==
  /\ review = NoCall
  /\ Importable(p)
  /\ DOMAIN ids = 1 .. TasksOf[file[plan[p]]] /\ IsInjective(ids)
  /\ \A k \in DOMAIN ids : ids[k] \in ItemIds \ DOMAIN items
  /\ items' = [i \in DOMAIN items \cup Range(ids) |->
       IF i \in DOMAIN items THEN items[i]
       ELSE [project |-> p, parent |-> NoItem, given |-> FALSE,
             position |-> (CHOOSE k \in DOMAIN ids : ids[k] = i) - 1]]
  /\ source' = [i \in DOMAIN source \cup Range(ids) |->
       IF i \in DOMAIN source THEN source[i]
       ELSE <<plan[p], CHOOSE k \in DOMAIN ids : ids[k] = i>>]
  /\ Acknowledge(p, plan[p], file[plan[p]])
  /\ decided' = decided \cup {<<p, plan[p], file[plan[p]]>>}
  /\ UNCHANGED <<todos, file, plan, batches, draft>>

\* Mutant of Proposable: several batches may await review.
ProposableAgain(p, path, version) ==
  plan[p] = path /\ Has(path, version) /\ ~ IsAcked(p, path, version)

Proposable(p, path, version) ==
  /\ plan[p] = path /\ Has(path, version)
  /\ ~ IsAcked(p, path, version)
  /\ PendingOf(p, path, version) = {}

CreateProposalBatch(b, p, path, version, list) ==
  /\ review = NoCall
  /\ b \notin DOMAIN batches
  /\ Proposable(p, path, version)
  /\ batches' = Put(batches, b, [project |-> p, path |-> path, version |-> version,
                                 proposals |-> list, status |-> "Pending"])
  /\ UNCHANGED <<planningVars, file, plan, acked, source, draft, decided>>
-----------------------------------------------------------------------------
(* review_proposal_batch.                                                  *)

\* Mutant of Reviewable: also a version that was acknowledged meanwhile.
ReviewablePending(b) ==
  b \in DOMAIN batches /\ batches[b].status = "Pending" /\ SourceIsCurrent(b)

Reviewable(b) ==
  /\ b \in DOMAIN batches /\ batches[b].status = "Pending"
  /\ SourceIsCurrent(b)
  /\ ~ IsAcked(batches[b].project, batches[b].path, batches[b].version)

\* The transaction begins; accepted are the indices the user selected.
StartReview(b, accepted) ==
  /\ review = NoCall
  /\ Reviewable(b)
  /\ accepted \subseteq DOMAIN batches[b].proposals
  /\ review' = [batch |-> b, left |-> accepted]
  /\ draftItems' = items /\ draftTodos' = todos
  /\ UNCHANGED <<planningVars, file, plan, acked, batches, source, decided>>

\* What a proposal does to the review's view of the roadmap of p, by the
\* operation of the planning store.
Operate(p, proposal) ==
  \/ /\ proposal.op = "add"
     /\ \E i \in ItemIds \ (DOMAIN items \cup DOMAIN draftItems), n \in 0 .. MaxPosition :
          Draft!CreateItem([id |-> i, project |-> p, parent |-> proposal.parent], n, FALSE)
  \/ proposal.op = "remove" /\ Draft!DeleteItem(p, proposal.item)
  \/ proposal.op = "reorder" /\ Draft!ReorderItems(p, proposal.parent, proposal.order)

\* The first of the proposals that are left.
Apply ==
  /\ review # NoCall
  /\ \E k \in review.left :
       /\ \A j \in review.left : k <= j
       /\ Operate(batches[review.batch].project, batches[review.batch].proposals[k])
       /\ review' = [review EXCEPT !.left = @ \ {k}]
  /\ UNCHANGED <<planningVars, file, plan, acked, batches, source, decided>>

\* The source may have changed since the review began.
FinishReview ==
  /\ review # NoCall /\ review.left = {}
  /\ LET b == review.batch
     IN /\ SourceIsCurrent(b)
        /\ batches' = [batches EXCEPT ![b].status = "Reviewed"]
        /\ Acknowledge(batches[b].project, batches[b].path, batches[b].version)
        /\ decided' = decided \cup
             {<<batches[b].project, batches[b].path, batches[b].version>>}
  /\ items' = draftItems /\ todos' = draftTodos
  /\ source' = Restrict(source, DOMAIN source \cap DOMAIN draftItems)
  /\ Closed
  /\ UNCHANGED <<file, plan>>

\* Anything refused or failed rolls everything back.
FailReview ==
  /\ review # NoCall
  /\ Closed
  /\ UNCHANGED <<planningVars, file, plan, acked, batches, source, decided>>
-----------------------------------------------------------------------------
Review ==
  \/ \E b \in BatchIds : /\ b \in DOMAIN batches
                         /\ \E accepted \in SUBSET DOMAIN batches[b].proposals :
                              StartReview(b, accepted)
  \/ Apply \/ FinishReview \/ FailReview

SyncNext ==
  \/ EditRoadmap
  \/ \E path \in Paths, content \in Versions \cup {Gone} : EditFile(path, content)
  \/ \E p \in Projects, path \in Paths : SetPlan(p, path)
  \/ \E p \in Projects : Importable(p)
       /\ \E ids \in [1 .. TasksOf[file[plan[p]]] -> ItemIds \ DOMAIN items] : Bootstrap(p, ids)
  \/ \E b \in BatchIds, p \in Projects, path \in Paths, version \in Versions,
        list \in ProposalLists : CreateProposalBatch(b, p, path, version, list)
  \/ Review

SyncSpec == SyncInit /\ [][SyncNext]_syncVars
-----------------------------------------------------------------------------
(* Properties.                                                             *)

\* The types of the plans, of the batches and of the review under way.
PlansOK ==
  /\ file \in [Paths -> Versions \cup {Gone}]
  /\ plan \in [Projects -> Paths \cup {NoPlan}]
  /\ acked \in [Projects -> {<<>>} \cup Paths \X Versions]
  /\ DOMAIN batches \subseteq BatchIds /\ \A b \in DOMAIN batches : batches[b] \in Batch
  /\ DOMAIN source \subseteq DOMAIN items
  /\ \A i \in DOMAIN source : source[i] \in Paths \X (Nat \ {0})
  /\ review # NoCall => /\ review.batch \in DOMAIN batches
                        /\ review.left \subseteq DOMAIN batches[review.batch].proposals
  /\ decided \subseteq Projects \X Paths \X Versions

SyncTypeOK == TypeOK /\ Draft!TypeOK /\ PlansOK

\* A version of a plan never has two batches awaiting review, whatever is edited,
\* switched, imported and reviewed in between (plan_sync.py:406-412).
OnePendingPerVersion ==
  \A a, b \in DOMAIN batches :
    /\ batches[a].status = "Pending" /\ batches[b].status = "Pending"
    /\ \A f \in {"project", "path", "version"} : batches[a][f] = batches[b][f]
    => a = b

\* What is acknowledged is a version of that very file that was imported or
\* reviewed for the project: no mixture of two plans, and no version that came
\* while the user reviewed another (plan_sync.py:167-181, 313-356, 535-546).
AcknowledgedDecided ==
  \A p \in Projects : acked[p] # <<>> => <<p, acked[p][1], acked[p][2]>> \in decided

\* A review never applies proposals for a version that is acknowledged already,
\* say because it was imported after the batch was made (plan_sync.py:495-501).
NotAppliedTwice ==
  [][\A b \in DOMAIN batches : batches[b] # batches'[b] =>
       acked'[batches[b].project] # acked[batches[b].project]]_syncVars

\* No task of a plan is imported twice into a roadmap: an item is known by the
\* plan and the task it came from (plan_sync.py:296-361; "Initialize only an
\* empty roadmap", 302).
TasksImportedOnce ==
  \A i, j \in DOMAIN source :
    items[i].project = items[j].project /\ source[i] = source[j] => i = j

\* Imports and reviews keep what the planning store keeps, also when a review's
\* proposals were made for a roadmap that has been edited since
\* (plan_sync.py:506-533).
RoadmapSound == TwoLevels /\ AttachmentsLocal /\ OrderKept
=============================================================================
