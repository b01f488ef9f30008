--------------------------- MODULE PlanSyncProofs ---------------------------
(***************************************************************************)
(* Proofs about PlanSync, for any plans, versions, batches and roadmaps.   *)
(* What the planning store keeps is kept by the roadmap and, with the same *)
(* lemmas, by the view of it that a review works on.                       *)
(***************************************************************************)
EXTENDS PlanSync, PlanningProofs

DraftProofs == INSTANCE PlanningProofs WITH items <- draftItems, todos <- draftTodos

\* A review under way is of a stored batch whose version is not acknowledged:
\* nothing else is acknowledged before it ends.
ReviewOfUnacked ==
  review # NoCall =>
    LET v == batches[review.batch]
    IN review.batch \in DOMAIN batches /\ ~ IsAcked(v.project, v.path, v.version)

\* The rows of roadmap_proposal_batches.
Row == [project : Projects, path : Paths, version : Versions, proposals : ProposalLists,
        status : {"Pending", "Reviewed"}]

\* The inductive invariant.
SyncInv ==
  /\ DOMAIN acked = Projects
  /\ \A b \in DOMAIN batches : batches[b] \in Row
  /\ ReviewOfUnacked
  /\ OnePendingPerVersion
  /\ AcknowledgedDecided

\* Init of plan_sync.py's tables satisfies the invariant.
LEMMA SyncInitInv == SyncInit => SyncInv
BY DEF SyncInit, SyncInv, ReviewOfUnacked, OnePendingPerVersion, AcknowledgedDecided, NoRows

\* The tables that the invariant is about are left alone by the roadmap's editors,
\* by edits of the file and by a review until it ends (plan_sync.py:506-533).
LEMMA OthersInv ==
  ASSUME SyncInv, UNCHANGED <<acked, batches, decided>>,
         review' # NoCall => review # NoCall /\ review'.batch = review.batch
  PROVE  SyncInv'
BY DEF SyncInv, ReviewOfUnacked, OnePendingPerVersion, AcknowledgedDecided, IsAcked

\* An import acknowledges what it imported (plan_sync.py:344-356).
LEMMA BootstrapInv ==
  ASSUME SyncInv, NEW p \in Projects, NEW ids, Bootstrap(p, ids)
  PROVE  SyncInv'
<1>1. /\ review = NoCall /\ review' = review /\ batches' = batches
      /\ acked' = [acked EXCEPT ![p] = <<plan[p], file[plan[p]]>>]
      /\ decided' = decided \cup {<<p, plan[p], file[plan[p]]>>}
  BY DEF Bootstrap, Acknowledge, draft
<1>2. AcknowledgedDecided'
  BY <1>1 DEF SyncInv, AcknowledgedDecided
<1> QED BY <1>1, <1>2 DEF SyncInv, ReviewOfUnacked, OnePendingPerVersion

\* A new batch is the only one pending for its version (plan_sync.py:406-412).
LEMMA CreateProposalBatchInv ==
  ASSUME SyncInv, NEW b, NEW p \in Projects, NEW path \in Paths,
         NEW version \in Versions, NEW list \in ProposalLists,
         CreateProposalBatch(b, p, path, version, list)
  PROVE  SyncInv'
<1> DEFINE row == [project |-> p, path |-> path, version |-> version,
                   proposals |-> list, status |-> "Pending"]
<1>1. /\ review = NoCall /\ review' = review /\ acked' = acked /\ decided' = decided
      /\ b \notin DOMAIN batches /\ PendingOf(p, path, version) = {}
      /\ batches' = [k \in DOMAIN batches \cup {b} |-> IF k = b THEN row ELSE batches[k]]
  BY DEF CreateProposalBatch, Proposable, Put, draft
<1>2. /\ DOMAIN batches' = DOMAIN batches \cup {b}
      /\ batches'[b] = row
      /\ \A k \in DOMAIN batches : batches'[k] = batches[k]
  BY <1>1
<1>3. row \in Row /\ row.project = p /\ row.path = path /\ row.version = version
  BY DEF Row
<1>4. ASSUME NEW k \in DOMAIN batches, batches[k].status = "Pending",
             \A f \in {"project", "path", "version"} : batches[k][f] = row[f]
      PROVE  FALSE
  <2>1. batches[k].project = p /\ batches[k].path = path /\ batches[k].version = version
    BY <1>3, <1>4
  <2> QED BY <1>1, <1>4, <2>1 DEF PendingOf
<1> HIDE DEF row
<1>5. OnePendingPerVersion'
  BY <1>2, <1>4 DEF SyncInv, OnePendingPerVersion
<1> QED BY <1>1, <1>2, <1>3, <1>5 DEF SyncInv, ReviewOfUnacked, AcknowledgedDecided

\* A review begins with a pending batch of an unacknowledged version
\* (plan_sync.py:489-501).
LEMMA StartReviewInv ==
  ASSUME SyncInv, NEW b, NEW accepted, StartReview(b, accepted)
  PROVE  SyncInv'
<1>1. /\ review'.batch = b
      /\ acked' = acked /\ batches' = batches /\ decided' = decided
      /\ Reviewable(b)
  BY DEF StartReview
<1>2. ReviewOfUnacked'
  BY <1>1 DEF ReviewOfUnacked, Reviewable, IsAcked
<1> QED BY <1>1, <1>2 DEF SyncInv, OnePendingPerVersion, AcknowledgedDecided

\* A review acknowledges the version of its batch, which was not acknowledged
\* (plan_sync.py:535-546).
LEMMA FinishReviewInv ==
  ASSUME SyncInv, FinishReview
  PROVE  /\ SyncInv'
         /\ \A b \in DOMAIN batches : batches[b] # batches'[b] =>
              acked'[batches[b].project] # acked[batches[b].project]
<1> DEFINE b == review.batch
           v == batches[b]
<1>1. /\ review # NoCall /\ review' = NoCall
      /\ batches' = [batches EXCEPT ![b].status = "Reviewed"]
      /\ acked' = [acked EXCEPT ![v.project] = <<v.path, v.version>>]
      /\ decided' = decided \cup {<<v.project, v.path, v.version>>}
  BY DEF FinishReview, Acknowledge, Closed
<1>2. b \in DOMAIN batches /\ acked[v.project] # <<v.path, v.version>>
  BY <1>1 DEF SyncInv, ReviewOfUnacked, IsAcked
<1>3. v \in Row /\ v.project \in Projects /\ DOMAIN acked = Projects
  BY <1>2 DEF SyncInv, Row
<1>4. /\ DOMAIN batches' = DOMAIN batches
      /\ batches'[b] = [v EXCEPT !.status = "Reviewed"]
      /\ \A k \in DOMAIN batches : k # b => batches'[k] = batches[k]
  BY <1>1, <1>2
<1>5. OnePendingPerVersion'
  <2>1. batches'[b].status = "Reviewed"
    BY <1>3, <1>4 DEF Row
  <2>2. \A k \in DOMAIN batches : batches'[k].status = "Pending" =>
          batches[k].status = "Pending" /\ batches'[k] = batches[k]
    <3> HIDE DEF b, v
    <3> QED BY <1>4, <2>1
  <2> QED BY <1>4, <2>2 DEF SyncInv, OnePendingPerVersion
<1>6. AcknowledgedDecided'
  BY <1>1, <1>3 DEF SyncInv, AcknowledgedDecided
<1>7. \A k \in DOMAIN batches : batches'[k] \in Row
  <2>1. batches'[b] \in Row
    BY <1>3, <1>4 DEF Row
  <2> HIDE DEF b, v
  <2> QED BY <1>4, <2>1 DEF SyncInv
<1>8. SyncInv'
  BY <1>1, <1>3, <1>4, <1>5, <1>6, <1>7 DEF SyncInv, ReviewOfUnacked
<1>9. acked'[v.project] # acked[v.project]
  BY <1>1, <1>2, <1>3
<1> QED BY <1>4, <1>8, <1>9

\* Every step keeps the invariant, and changes a stored batch only with what is
\* acknowledged (plan_sync.py).
LEMMA SyncNextInv ==
  ASSUME SyncInv, [SyncNext]_syncVars
  PROVE  /\ SyncInv'
         /\ \A b \in DOMAIN batches : batches[b] # batches'[b] =>
              acked'[batches[b].project] # acked[batches[b].project]
<1>1. CASE EditRoadmap
  BY <1>1, OthersInv DEF EditRoadmap, draft
<1>2. ASSUME NEW path \in Paths, NEW content, EditFile(path, content)
      PROVE  SyncInv' /\ batches' = batches
  BY <1>2, OthersInv DEF EditFile, draft
<1>3. ASSUME NEW p \in Projects, NEW path \in Paths, SetPlan(p, path)
      PROVE  SyncInv' /\ batches' = batches
  BY <1>3, OthersInv DEF SetPlan, draft
<1>4. ASSUME NEW p \in Projects, NEW ids, Bootstrap(p, ids)
      PROVE  SyncInv' /\ batches' = batches
  BY <1>4, BootstrapInv DEF Bootstrap
<1>5. ASSUME NEW b \in BatchIds, NEW p \in Projects, NEW path \in Paths,
             NEW version \in Versions, NEW list \in ProposalLists,
             CreateProposalBatch(b, p, path, version, list)
      PROVE  SyncInv' /\ \A k \in DOMAIN batches : batches'[k] = batches[k]
  <2>1. \A k \in DOMAIN batches : batches'[k] = batches[k]
    BY <1>5 DEF CreateProposalBatch, Put
  <2> QED BY <1>5, <2>1, CreateProposalBatchInv
<1>6. ASSUME NEW b \in BatchIds, NEW accepted, StartReview(b, accepted)
      PROVE  SyncInv' /\ batches' = batches
  BY <1>6, StartReviewInv DEF StartReview
<1>7. CASE Apply
  BY <1>7, OthersInv DEF Apply
<1>8. CASE FinishReview
  BY <1>8, FinishReviewInv
<1>9. CASE FailReview
  BY <1>9, OthersInv DEF FailReview, Closed
<1>10. CASE UNCHANGED syncVars
  BY <1>10, OthersInv DEF syncVars, draft
<1> QED BY <1>1, <1>2, <1>3, <1>4, <1>5, <1>6, <1>7, <1>8, <1>9, <1>10
        DEF SyncNext, Review

\* The inductive invariant of plan_sync.py's tables holds in every state.
THEOREM PlanSyncCorrect == SyncSpec => []SyncInv
BY SyncInitInv, SyncNextInv, PTL DEF SyncSpec

\* A version of a plan never has two batches awaiting review
\* (plan_sync.py:406-412).
THEOREM OnePending == SyncSpec => []OnePendingPerVersion
BY PlanSyncCorrect, PTL DEF SyncInv

\* What is acknowledged was imported or reviewed (plan_sync.py:167-181).
THEOREM AcknowledgedIsDecided == SyncSpec => []AcknowledgedDecided
BY PlanSyncCorrect, PTL DEF SyncInv

\* A review never applies proposals for an acknowledged version
\* (plan_sync.py:495-501).
THEOREM AppliedOnce == SyncSpec => NotAppliedTwice
<1>1. SyncInv /\ [SyncNext]_syncVars =>
        [\A b \in DOMAIN batches : batches[b] # batches'[b] =>
           acked'[batches[b].project] # acked[batches[b].project]]_syncVars
  BY SyncNextInv
<1> QED BY <1>1, PlanSyncCorrect, PTL DEF SyncSpec, NotAppliedTwice
-----------------------------------------------------------------------------
(* The roadmap, the review's view of it and where items came from.         *)

\* The lemmas on the planning store apply to the view.
LEMMA DraftAssumption == DraftProofs!PlanningAssumption
BY PlanningAssumption
DEF DraftProofs!ItemInput, ItemInput, DraftProofs!TodoInput, TodoInput,
    DraftProofs!Statuses, Statuses

\* The calls on the review's view are the planning store's.
LEMMA DraftCreateItem ==
  ASSUME NEW v, NEW n, NEW given, Draft!CreateItem(v, n, given)
  PROVE  DraftProofs!CreateItem(v, n, given)
BY DEF Draft!CreateItem, DraftProofs!CreateItem, Draft!ParentAllowed,
       DraftProofs!ParentAllowed, Draft!NewPosition, DraftProofs!NewPosition,
       Draft!IsNextPosition, DraftProofs!IsNextPosition, Draft!Put, DraftProofs!Put,
       Draft!Siblings, DraftProofs!Siblings

LEMMA DraftDeleteItem ==
  ASSUME NEW p, NEW i, Draft!DeleteItem(p, i)
  PROVE  DraftProofs!DeleteItem(p, i)
BY DEF Draft!DeleteItem, DraftProofs!DeleteItem, Draft!Children, DraftProofs!Children,
       Draft!Detached, DraftProofs!Detached, Draft!Restrict, DraftProofs!Restrict

LEMMA DraftReorderItems ==
  ASSUME NEW p, NEW parent, NEW order, Draft!ReorderItems(p, parent, order)
  PROVE  DraftProofs!ReorderItems(p, parent, order)
<1>1. Draft!Siblings(p, parent) = DraftProofs!Siblings(p, parent)
  BY DEF Draft!Siblings, DraftProofs!Siblings
<1>2. \A o : Draft!IsInjective(o) <=> DraftProofs!IsInjective(o)
  BY DEF Draft!IsInjective, DraftProofs!IsInjective
<1>3. \A S : \A o \in Draft!Places(S) : o \in DraftProofs!Places(S)
  <2>1. \A S : Draft!Cardinality(S) = DraftProofs!Cardinality(S)
    BY DEF Draft!Cardinality, DraftProofs!Cardinality
  <2>2. QED
    BY <1>2, <2>1 DEF Draft!Places, DraftProofs!Places
<1>4. \A f, o : Draft!Reordered(f, o) = DraftProofs!Reordered(f, o)
  BY DEF Draft!Reordered, DraftProofs!Reordered, Draft!Placed, DraftProofs!Placed
<1>5. QED
  BY <1>1, <1>3, <1>4 DEF Draft!ReorderItems, DraftProofs!ReorderItems

\* A proposal keeps what the planning store keeps.
LEMMA OperateInv ==
  ASSUME DraftProofs!PlanningInv, NEW p \in Projects, NEW proposal \in Proposal,
         Operate(p, proposal)
  PROVE  DraftProofs!PlanningInv'
<1>1. ASSUME proposal.op = "add",
             NEW i \in ItemIds, NEW n \in 0 .. MaxPosition,
             Draft!CreateItem([id |-> i, project |-> p, parent |-> proposal.parent], n, FALSE)
      PROVE  DraftProofs!PlanningInv'
  <2>1. [id |-> i, project |-> p, parent |-> proposal.parent] \in ItemInput
    BY <1>1 DEF Proposal, ItemInput
  <2>2. PICK v \in DraftProofs!ItemInput :
          v = [id |-> i, project |-> p, parent |-> proposal.parent]
    BY <2>1 DEF ItemInput, DraftProofs!ItemInput
  <2>3. DraftProofs!CreateItem(v, n, FALSE) /\ FALSE \in BOOLEAN
    BY <1>1, <2>2, DraftCreateItem
  <2>4. QED
    BY <2>3, DraftAssumption, DraftProofs!CreateItemInv
<1>2. ASSUME proposal.op = "remove", Draft!DeleteItem(p, proposal.item)
      PROVE  DraftProofs!PlanningInv'
  <2>1. PICK i \in ItemIds : i = proposal.item
    BY <1>2 DEF Proposal
  <2>2. DraftProofs!DeleteItem(p, i)
    BY <1>2, <2>1, DraftDeleteItem
  <2>3. QED
    BY <2>2, DraftAssumption, DraftProofs!DeleteItemInv
<1>3. ASSUME proposal.op = "reorder",
             Draft!ReorderItems(p, proposal.parent, proposal.order)
      PROVE  DraftProofs!PlanningInv'
  <2>1. PICK parent \in ItemIds \cup {NoItem} : parent = proposal.parent
    BY <1>3 DEF Proposal
  <2>2. DraftProofs!ReorderItems(p, parent, proposal.order)
    BY <1>3, <2>1, DraftReorderItems
  <2>3. PICK order \in DraftProofs!Places(DraftProofs!Siblings(p, parent)) :
          order = proposal.order
    BY <2>2 DEF DraftProofs!ReorderItems
  <2>4. DraftProofs!ReorderItems(p, parent, order)
    BY <2>2, <2>3
  <2>5. QED
    BY <2>3, <2>4, DraftAssumption, DraftProofs!ReorderItemsInv
<1>4. QED
  BY <1>1, <1>2, <1>3 DEF Operate

\* A proposal leaves the items of the view in their projects, and adds none
\* under an id that the stored roadmap has.
LEMMA OperateKeeps ==
  ASSUME DraftProofs!PlanningInv, NEW p, NEW proposal, Operate(p, proposal)
  PROVE  /\ DraftProofs!SameProject
         /\ DOMAIN draftItems' \cap DOMAIN items \subseteq DOMAIN draftItems
<1>1. DraftProofs!SameProject
  BY DraftAssumption, DraftCreateItem, DraftDeleteItem, DraftReorderItems,
     DraftProofs!ProjectsKept
  DEF Operate
<1>2. CASE \E i \in ItemIds \ (DOMAIN items \cup DOMAIN draftItems), n \in 0 .. MaxPosition :
             Draft!CreateItem([id |-> i, project |-> p, parent |-> proposal.parent], n, FALSE)
  <2>1. PICK i \in ItemIds \ DOMAIN items, n \in 0 .. MaxPosition :
          Draft!CreateItem([id |-> i, project |-> p, parent |-> proposal.parent], n, FALSE)
    BY <1>2
  <2>2. DOMAIN draftItems' = DOMAIN draftItems \cup {i}
    BY <2>1 DEF Draft!CreateItem, Draft!Put
  <2>3. QED
    BY <1>1, <2>2
<1>3. CASE Draft!DeleteItem(p, proposal.item)
  BY <1>1, <1>3 DEF Draft!DeleteItem, Draft!Restrict
<1>4. CASE Draft!ReorderItems(p, proposal.parent, proposal.order)
  BY <1>1, <1>4 DEF Draft!ReorderItems, Draft!Reordered
<1>5. QED
  BY <1>2, <1>3, <1>4 DEF Operate

\* The view has the projects of the items as they are stored.
DraftKept ==
  review # NoCall =>
    \A i \in DOMAIN items \cap DOMAIN draftItems : draftItems[i].project = items[i].project

\* The inductive invariant of the roadmap and the view.
RoadmapInv ==
  /\ SyncInv
  /\ PlanningInv
  /\ DraftProofs!PlanningInv
  /\ PlansOK
  /\ DraftKept
  /\ TasksImportedOnce

\* A step that leaves the view alone.
LEMMA ViewKept ==
  ASSUME DraftProofs!PlanningInv, UNCHANGED <<draftItems, draftTodos>>
  PROVE  DraftProofs!PlanningInv'
BY DraftAssumption, DraftProofs!NextInv DEF DraftProofs!planningVars

\* Without a review the view is empty.
LEMMA EmptyView ==
  ASSUME draftItems' = NoRows, draftTodos' = NoRows
  PROVE  DraftProofs!PlanningInv'
BY DEF NoRows, DraftProofs!PlanningInv, DraftProofs!TypeOK, DraftProofs!TwoLevels,
       DraftProofs!AttachmentsLocal, DraftProofs!OrderKept, DraftProofs!Ordered,
       DraftProofs!Siblings, DraftProofs!TodosOf

\* A step that leaves the roadmap alone.
LEMMA RoadmapKept ==
  ASSUME PlanningInv, UNCHANGED planningVars
  PROVE  PlanningInv'
BY NextInv

\* A step that leaves the roadmap, the view and the sources alone.
LEMMA PlansInv ==
  ASSUME RoadmapInv, SyncInv', PlansOK',
         UNCHANGED <<planningVars, draftItems, draftTodos, source>>,
         review' # NoCall => review # NoCall
  PROVE  RoadmapInv'
<1>1. PlanningInv' /\ DraftProofs!PlanningInv'
  BY RoadmapKept, ViewKept DEF RoadmapInv
<1>2. DraftKept' /\ TasksImportedOnce'
  BY DEF RoadmapInv, DraftKept, TasksImportedOnce, planningVars
<1>3. QED
  BY <1>1, <1>2 DEF RoadmapInv

LEMMA SyncInitRoadmap == SyncInit => RoadmapInv
<1> SUFFICES ASSUME SyncInit PROVE RoadmapInv
  OBVIOUS
<1>1. SyncInv /\ PlanningInv
  BY SyncInitInv, InitInv DEF SyncInit
<1>2. DraftProofs!PlanningInv
  <2>1. DraftProofs!Init
    BY DEF SyncInit, NoRows, DraftProofs!Init
  <2>2. QED
    BY <2>1, DraftAssumption, DraftProofs!InitInv
<1>3. PlansOK /\ DraftKept /\ TasksImportedOnce
  BY DEF SyncInit, Init, NoRows, PlansOK, DraftKept, TasksImportedOnce
<1>4. QED
  BY <1>1, <1>2, <1>3 DEF RoadmapInv

\* An item that is deleted takes its source along (planning.py:373-389).
LEMMA EditRoadmapInv ==
  ASSUME RoadmapInv, SyncInv', EditRoadmap
  PROVE  RoadmapInv'
<1>1. /\ review = NoCall /\ review' = review /\ Next
      /\ source' = Restrict(source, DOMAIN source \cap DOMAIN items')
      /\ UNCHANGED <<file, plan, acked, batches, draftItems, draftTodos, decided>>
  BY DEF EditRoadmap, draft
<1>2. PlanningInv' /\ SameProject
  BY <1>1, NextInv, NextKeepsProjects DEF RoadmapInv
<1>3. /\ DOMAIN source' = DOMAIN source \cap DOMAIN items'
      /\ \A i \in DOMAIN source' : source'[i] = source[i]
  BY <1>1 DEF Restrict
<1>4. PlansOK'
  BY <1>1, <1>3 DEF RoadmapInv, PlansOK
<1>5. TasksImportedOnce'
  BY <1>2, <1>3 DEF RoadmapInv, PlansOK, TasksImportedOnce, SameProject
<1>6. DraftProofs!PlanningInv' /\ DraftKept'
  BY <1>1, ViewKept DEF RoadmapInv, DraftKept
<1>7. QED
  BY <1>2, <1>4, <1>5, <1>6 DEF RoadmapInv

\* A review begins with what is stored.
LEMMA StartReviewRoadmap ==
  ASSUME RoadmapInv, SyncInv', NEW b, NEW accepted, StartReview(b, accepted)
  PROVE  RoadmapInv'
<1>1. /\ b \in DOMAIN batches /\ accepted \subseteq DOMAIN batches[b].proposals
      /\ review' = [batch |-> b, left |-> accepted]
      /\ draftItems' = items /\ draftTodos' = todos
      /\ UNCHANGED <<items, todos, file, plan, acked, batches, source, decided>>
  BY DEF StartReview, Reviewable, planningVars
<1>2. PlanningInv' /\ TasksImportedOnce' /\ PlansOK' /\ DraftKept'
  BY <1>1, RoadmapKept
  DEF RoadmapInv, planningVars, TasksImportedOnce, PlansOK, DraftKept
<1>3. DraftProofs!PlanningInv'
  BY <1>1
  DEF RoadmapInv, PlanningInv, TypeOK, TwoLevels, AttachmentsLocal, OrderKept, Ordered,
      Siblings, TodosOf, Item, Todo, Statuses, DraftProofs!PlanningInv, DraftProofs!TypeOK,
      DraftProofs!TwoLevels, DraftProofs!AttachmentsLocal, DraftProofs!OrderKept,
      DraftProofs!Ordered, DraftProofs!Siblings, DraftProofs!TodosOf, DraftProofs!Item,
      DraftProofs!Todo, DraftProofs!Statuses
<1>4. QED
  BY <1>2, <1>3 DEF RoadmapInv

\* A selected proposal is one of the batch's, for the batch's project.
LEMMA ApplyInv ==
  ASSUME RoadmapInv, SyncInv', Apply
  PROVE  RoadmapInv'
<1>1. PICK k \in review.left :
        /\ Operate(batches[review.batch].project, batches[review.batch].proposals[k])
        /\ review' = [review EXCEPT !.left = @ \ {k}]
  BY DEF Apply
<1>2. /\ review # NoCall
      /\ UNCHANGED <<items, todos, file, plan, acked, batches, source, decided>>
  BY DEF Apply, planningVars
<1>3. /\ review.batch \in DOMAIN batches
      /\ review.left \subseteq DOMAIN batches[review.batch].proposals
      /\ batches[review.batch] \in Batch
  BY <1>2 DEF RoadmapInv, PlansOK
<1>4. /\ batches[review.batch].project \in Projects
      /\ batches[review.batch].proposals[k] \in Proposal
  BY <1>3 DEF Batch
<1>5. DraftProofs!PlanningInv'
  BY <1>1, <1>4, OperateInv DEF RoadmapInv
<1>6. PlansOK'
  BY <1>1, <1>2, <1>3 DEF RoadmapInv, PlansOK
<1>7. DraftKept'
  BY <1>1, <1>2, OperateKeeps DEF RoadmapInv, DraftKept, DraftProofs!SameProject
<1>8. PlanningInv' /\ TasksImportedOnce'
  BY <1>2, RoadmapKept DEF RoadmapInv, planningVars, TasksImportedOnce
<1>9. QED
  BY <1>5, <1>6, <1>7, <1>8 DEF RoadmapInv

\* A review that ends stores its view.
LEMMA FinishReviewRoadmap ==
  ASSUME RoadmapInv, SyncInv', FinishReview
  PROVE  RoadmapInv'
<1> DEFINE b == review.batch
           v == batches[b]
<1>1. /\ review # NoCall /\ review' = NoCall
      /\ batches' = [batches EXCEPT ![b].status = "Reviewed"]
      /\ acked' = [acked EXCEPT ![v.project] = <<v.path, v.version>>]
      /\ decided' = decided \cup {<<v.project, v.path, v.version>>}
      /\ items' = draftItems /\ todos' = draftTodos
      /\ source' = Restrict(source, DOMAIN source \cap DOMAIN draftItems)
      /\ draftItems' = NoRows /\ draftTodos' = NoRows
      /\ UNCHANGED <<file, plan>>
  BY DEF FinishReview, Acknowledge, Closed
<1>2. b \in DOMAIN batches /\ v \in Batch
  BY <1>1 DEF RoadmapInv, PlansOK
<1> HIDE DEF v, b
<1>3. PlanningInv'
  BY <1>1
  DEF RoadmapInv, PlanningInv, TypeOK, TwoLevels, AttachmentsLocal, OrderKept, Ordered,
      Siblings, TodosOf, Item, Todo, Statuses, DraftProofs!PlanningInv, DraftProofs!TypeOK,
      DraftProofs!TwoLevels, DraftProofs!AttachmentsLocal, DraftProofs!OrderKept,
      DraftProofs!Ordered, DraftProofs!Siblings, DraftProofs!TodosOf, DraftProofs!Item,
      DraftProofs!Todo, DraftProofs!Statuses
<1>4. DraftProofs!PlanningInv' /\ DraftKept'
  BY <1>1, EmptyView DEF DraftKept
<1>5. /\ DOMAIN source' = DOMAIN source \cap DOMAIN items'
      /\ \A i \in DOMAIN source' : source'[i] = source[i]
  BY <1>1 DEF Restrict
<1>6. TasksImportedOnce'
  BY <1>1, <1>5 DEF RoadmapInv, PlansOK, DraftKept, TasksImportedOnce
<1>7. PlansOK'
  <2>1. /\ v.project \in Projects /\ v.path \in Paths /\ v.version \in Versions
        /\ [v EXCEPT !.status = "Reviewed"] \in Batch
    BY <1>2 DEF Batch
  <2>2. /\ DOMAIN batches' = DOMAIN batches
        /\ \A k \in DOMAIN batches : batches'[k] \in Batch
    BY <1>1, <1>2, <2>1 DEF v, RoadmapInv, PlansOK
  <2>3. acked' \in [Projects -> {<<>>} \cup Paths \X Versions]
        /\ decided' \subseteq Projects \X Paths \X Versions
    BY <1>1, <2>1 DEF RoadmapInv, PlansOK
  <2>4. QED
    BY <1>1, <1>5, <2>2, <2>3 DEF RoadmapInv, PlansOK
<1>8. QED
  BY <1>3, <1>4, <1>6, <1>7 DEF RoadmapInv

\* Anything that fails drops the view.
LEMMA FailReviewInv ==
  ASSUME RoadmapInv, SyncInv', FailReview
  PROVE  RoadmapInv'
<1>1. /\ review' = NoCall /\ draftItems' = NoRows /\ draftTodos' = NoRows
      /\ UNCHANGED <<items, todos, file, plan, acked, batches, source, decided>>
  BY DEF FailReview, Closed, planningVars
<1>2. DraftProofs!PlanningInv' /\ DraftKept'
  BY <1>1, EmptyView DEF DraftKept
<1>3. PlanningInv' /\ PlansOK' /\ TasksImportedOnce'
  BY <1>1, RoadmapKept DEF RoadmapInv, planningVars, PlansOK, TasksImportedOnce
<1>4. QED
  BY <1>2, <1>3 DEF RoadmapInv

\* An import writes the tasks of the plan in their order, from 0 on, into an
\* empty roadmap (plan_sync.py:325-343).
LEMMA BootstrapRoadmap ==
  ASSUME RoadmapInv, SyncInv', NEW p \in Projects, NEW ids, Bootstrap(p, ids)
  PROVE  RoadmapInv'
<1> DEFINE n == TasksOf[file[plan[p]]]
           K(i) == CHOOSE k \in DOMAIN ids : ids[k] = i
           row(i) == [project |-> p, parent |-> NoItem, given |-> FALSE, position |-> K(i) - 1]
<1>1. /\ DOMAIN ids = 1 .. n /\ IsInjective(ids)
      /\ \A k \in DOMAIN ids : ids[k] \in ItemIds \ DOMAIN items
      /\ ItemsOf(p) = {} /\ plan[p] # NoPlan /\ file[plan[p]] # Gone
      /\ review = NoCall /\ review' = review
      /\ items' = [i \in DOMAIN items \cup Range(ids) |->
                     IF i \in DOMAIN items THEN items[i] ELSE row(i)]
      /\ source' = [i \in DOMAIN source \cup Range(ids) |->
                     IF i \in DOMAIN source THEN source[i] ELSE <<plan[p], K(i)>>]
      /\ acked' = [acked EXCEPT ![p] = <<plan[p], file[plan[p]]>>]
      /\ decided' = decided \cup {<<p, plan[p], file[plan[p]]>>}
      /\ UNCHANGED <<todos, file, plan, batches, draftItems, draftTodos>>
  BY DEF Bootstrap, Importable, Acknowledge, draft
<1>2. /\ plan[p] \in Paths /\ file[plan[p]] \in Versions /\ n \in Nat
  BY <1>1, PlanSyncAssumption DEF RoadmapInv, PlansOK
<1> HIDE DEF n
<1>3. ASSUME NEW i \in Range(ids)
      PROVE  /\ K(i) \in DOMAIN ids /\ ids[K(i)] = i
             /\ i \in ItemIds \ DOMAIN items
             /\ K(i) \in Nat \ {0} /\ K(i) - 1 \in Nat
  <2>1. PICK k \in DOMAIN ids : ids[k] = i
    BY <1>3 DEF Range
  <2>2. K(i) \in DOMAIN ids /\ ids[K(i)] = i
    BY <2>1
  <2> HIDE DEF K
  <2>3. QED
    BY <1>1, <1>2, <2>2
<1>4. /\ DOMAIN items' = DOMAIN items \cup Range(ids)
      /\ \A i \in DOMAIN items : items'[i] = items[i]
      /\ \A i \in Range(ids) : items'[i] = row(i)
  <2> HIDE DEF row
  <2>1. QED
    BY <1>1, <1>3
<1>5. /\ DOMAIN source' = DOMAIN source \cup Range(ids)
      /\ \A i \in DOMAIN source : source'[i] = source[i]
      /\ \A i \in Range(ids) : source'[i] = <<plan[p], K(i)>>
  <2> HIDE DEF K
  <2>1. \A i \in Range(ids) : i \notin DOMAIN source
    BY <1>3 DEF RoadmapInv, PlansOK
  <2>2. QED
    BY <1>1, <2>1
<1>6. \A i \in Range(ids) :
        /\ row(i) \in Item /\ row(i).project = p /\ row(i).parent = NoItem
        /\ row(i).position = K(i) - 1
  <2>1. ASSUME NEW k \in Nat
        PROVE  [project |-> p, parent |-> NoItem, given |-> FALSE, position |-> k] \in Item
    BY DEF Item
  <2> HIDE DEF K
  <2>2. QED
    BY <1>3, <2>1
<1>7. \A i \in DOMAIN items : items[i].project # p
  BY <1>1 DEF ItemsOf
<1>8. \A i, j \in Range(ids) : K(i) = K(j) => i = j
  BY <1>3
<1> HIDE DEF row, K
<1>9. PlanningInv'
  <2>1. TypeOK'
    BY <1>1, <1>3, <1>4, <1>6 DEF RoadmapInv, PlanningInv, TypeOK
  <2>2. TwoLevels'
    BY <1>4, <1>6 DEF RoadmapInv, PlanningInv, TwoLevels
  <2>3. AttachmentsLocal'
    BY <1>1, <1>4 DEF RoadmapInv, PlanningInv, AttachmentsLocal
  <2>4. ASSUME NEW q \in Projects, NEW parent \in ItemIds \cup {NoItem}
        PROVE  Ordered(items, Siblings(q, parent))'
    <3>1. CASE q = p
      <4>1. \A i \in Siblings(q, parent)' : i \in Range(ids)
        BY <1>4, <1>7, <3>1 DEF Siblings
      <4>2. \A i, j \in Range(ids) : items'[i].position = items'[j].position => i = j
        BY <1>3, <1>4, <1>6, <1>8
      <4>3. QED
        BY <4>1, <4>2 DEF Ordered
    <3>2. CASE q # p
      <4>1. Ordered(items, Siblings(q, parent))
        BY DEF RoadmapInv, PlanningInv, OrderKept
      <4>2. Siblings(q, parent)' = Siblings(q, parent)
        BY <1>4, <1>6, <3>2 DEF Siblings
      <4>3. \A i \in Siblings(q, parent) : items'[i] = items[i]
        BY <1>4 DEF Siblings
      <4>4. QED
        BY <4>1, <4>2, <4>3 DEF Ordered
    <3>3. QED
      BY <3>1, <3>2
  <2>5. ASSUME NEW q \in Projects, NEW status \in Statuses
        PROVE  Ordered(todos, TodosOf(q, status))'
    BY <1>1 DEF RoadmapInv, PlanningInv, OrderKept, Ordered, TodosOf
  <2>6. QED
    BY <2>1, <2>2, <2>3, <2>4, <2>5 DEF PlanningInv, OrderKept
<1>10. PlansOK'
  <2>1. acked' \in [Projects -> {<<>>} \cup Paths \X Versions]
        /\ decided' \subseteq Projects \X Paths \X Versions
    BY <1>1, <1>2 DEF RoadmapInv, PlansOK
  <2>2. /\ DOMAIN source' \subseteq DOMAIN items'
        /\ \A i \in DOMAIN source' : source'[i] \in Paths \X (Nat \ {0})
    <3>1. /\ DOMAIN source \subseteq DOMAIN items
          /\ \A i \in DOMAIN source : source[i] \in Paths \X (Nat \ {0})
      BY DEF RoadmapInv, PlansOK
    <3>2. \A i \in Range(ids) : <<plan[p], K(i)>> \in Paths \X (Nat \ {0})
      BY <1>2, <1>3
    <3>3. QED
      BY <1>4, <1>5, <3>1, <3>2
  <2>3. QED
    BY <1>1, <2>1, <2>2 DEF RoadmapInv, PlansOK
<1>11. TasksImportedOnce'
  <2>1. ASSUME NEW i \in DOMAIN source', NEW j \in DOMAIN source',
               items'[i].project = items'[j].project, source'[i] = source'[j]
        PROVE  i = j
    <3>1. DOMAIN source \subseteq DOMAIN items
      BY DEF RoadmapInv, PlansOK
    <3>2. CASE i \in Range(ids) /\ j \in Range(ids)
      BY <1>5, <1>8, <2>1, <3>2
    <3>3. CASE i \in DOMAIN source /\ j \in DOMAIN source
      BY <1>4, <1>5, <2>1, <3>1, <3>3 DEF RoadmapInv, TasksImportedOnce
    <3>4. QED
      BY <1>4, <1>5, <1>6, <1>7, <2>1, <3>1, <3>2, <3>3
  <2>2. QED
    BY <2>1 DEF TasksImportedOnce
<1>12. DraftProofs!PlanningInv' /\ DraftKept'
  BY <1>1, ViewKept DEF RoadmapInv, DraftKept
<1>13. QED
  BY <1>9, <1>10, <1>11, <1>12 DEF RoadmapInv

LEMMA SyncNextRoadmap ==
  ASSUME RoadmapInv, [SyncNext]_syncVars
  PROVE  RoadmapInv'
<1>0. SyncInv'
  BY SyncNextInv DEF RoadmapInv
<1>1. CASE EditRoadmap
  BY <1>0, <1>1, EditRoadmapInv
<1>2. ASSUME NEW path \in Paths, NEW content \in Versions \cup {Gone}, EditFile(path, content)
      PROVE  RoadmapInv'
  <2>1. PlansOK'
    BY <1>2 DEF EditFile, RoadmapInv, PlansOK, planningVars, draft
  <2>2. QED
    BY <1>0, <1>2, <2>1, PlansInv DEF EditFile, draft
<1>3. ASSUME NEW p \in Projects, NEW path \in Paths, SetPlan(p, path)
      PROVE  RoadmapInv'
  <2>1. PlansOK'
    BY <1>3 DEF SetPlan, RoadmapInv, PlansOK, planningVars, draft
  <2>2. QED
    BY <1>0, <1>3, <2>1, PlansInv DEF SetPlan, draft
<1>4. ASSUME NEW p \in Projects, NEW ids, Bootstrap(p, ids)
      PROVE  RoadmapInv'
  BY <1>0, <1>4, BootstrapRoadmap
<1>5. ASSUME NEW b \in BatchIds, NEW p \in Projects, NEW path \in Paths,
             NEW version \in Versions, NEW list \in ProposalLists,
             CreateProposalBatch(b, p, path, version, list)
      PROVE  RoadmapInv'
  <2> DEFINE row == [project |-> p, path |-> path, version |-> version,
                     proposals |-> list, status |-> "Pending"]
  <2>1. /\ b \notin DOMAIN batches /\ review = NoCall
        /\ batches' = [k \in DOMAIN batches \cup {b} |-> IF k = b THEN row ELSE batches[k]]
        /\ UNCHANGED <<planningVars, file, plan, acked, source, decided, review,
                       draftItems, draftTodos>>
    BY <1>5 DEF CreateProposalBatch, Put, draft
  <2>2. row \in Batch
    BY PlanSyncAssumption DEF Batch
  <2> HIDE DEF row
  <2>3. PlansOK'
    BY <2>1, <2>2 DEF RoadmapInv, PlansOK, planningVars
  <2>4. QED
    BY <1>0, <2>1, <2>3, PlansInv
<1>6. ASSUME NEW b \in BatchIds, NEW accepted, StartReview(b, accepted)
      PROVE  RoadmapInv'
  BY <1>0, <1>6, StartReviewRoadmap
<1>7. CASE Apply \/ FinishReview \/ FailReview
  BY <1>0, <1>7, ApplyInv, FinishReviewRoadmap, FailReviewInv
<1>8. CASE UNCHANGED syncVars
  <2>1. PlansOK'
    BY <1>8 DEF syncVars, RoadmapInv, PlansOK, planningVars, draft
  <2>2. QED
    BY <1>0, <1>8, <2>1, PlansInv DEF syncVars, draft
<1>9. QED
  BY <1>1, <1>2, <1>3, <1>4, <1>5, <1>6, <1>7, <1>8 DEF SyncNext, Review

\* The inductive invariant of the roadmap and of a review's view of it holds in
\* every state (plan_sync.py over planning.py).
THEOREM RoadmapCorrect == SyncSpec => []RoadmapInv
BY SyncInitRoadmap, SyncNextRoadmap, PTL DEF SyncSpec

\* The types of the tables and of the review under way (plan_sync.py).
THEOREM PlanSyncTypes == SyncSpec => []SyncTypeOK
<1>1. DraftProofs!TypeOK => Draft!TypeOK
  BY DEF Draft!TypeOK, DraftProofs!TypeOK, Draft!Item, DraftProofs!Item, Draft!Todo,
         DraftProofs!Todo, Draft!Statuses, DraftProofs!Statuses
<1>2. RoadmapInv => SyncTypeOK
  BY <1>1 DEF RoadmapInv, PlanningInv, DraftProofs!PlanningInv, SyncTypeOK
<1>3. QED
  BY RoadmapCorrect, <1>2, PTL

\* No task of a plan is imported twice (plan_sync.py:296-361).
THEOREM ImportedTasksDiffer == SyncSpec => []TasksImportedOnce
<1>1. RoadmapInv => TasksImportedOnce
  BY DEF RoadmapInv
<1>2. QED
  BY RoadmapCorrect, <1>1, PTL

\* Imports and reviews keep what the planning store keeps (plan_sync.py:506-533).
THEOREM RoadmapStaysSound == SyncSpec => []RoadmapSound
<1>1. RoadmapInv => RoadmapSound
  BY DEF RoadmapInv, PlanningInv, RoadmapSound
<1>2. QED
  BY RoadmapCorrect, <1>1, PTL
=============================================================================
