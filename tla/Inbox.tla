------------------------------- MODULE Inbox -------------------------------
(***************************************************************************)
(* The activity inbox (src/research_dashboard/inbox_routing.py) over the   *)
(* ledger.  A routing run reads the projects, their roots, the assignments *)
(* and the pending items with one query after the other, and then imports  *)
(* every item that has one owner in a transaction of its own; other runs   *)
(* do the same, items, roots and lifecycles change meanwhile, and a run    *)
(* may fail between any two of its steps.                                  *)
(*                                                                         *)
(* What an item's text says is given by Content; finding it there (the     *)
(* regular expressions) is left out.  Dry runs write nothing and are left  *)
(* out, and so are projects registered while a run is under way.           *)
(***************************************************************************)
EXTENDS Ledger, SequencesExt

CONSTANTS
  Items,        \* the ids of inbox items
  Content,      \* what each item's text says
  Created,      \* the place of each item by (created_at, id)
  ImportEvent,  \* the event that imports an item into a project
  Paths, Within,  \* file paths, and the directories each is in, outermost first
  Lifecycles,   \* the lifecycles that projects take
  InitialRoots, \* the roots registered at first
  NoProject,    \* a null assigned_project_id
  Routers,      \* processes that route
  Scheduled,    \* the one of them that a scheduler starts again and again
  MaxFailures   \* bound on runs that fail

Admitted == {"Active", "Waiting", "Paused"}
Terminal == {"Completed", "Archived"}
Roots    == UNION {ToSet(Within[f]) : f \in Paths}

ASSUME InboxAssumption ==
  /\ Content \in [Items -> [shared : BOOLEAN, named : SUBSET Projects,
                            paths : SUBSET Paths, refs : SUBSET Items]]
  /\ Created \in [Items -> Nat]
  /\ \A i, j \in Items : Created[i] = Created[j] => i = j
  /\ ImportEvent \in [Items \X Projects -> Event]
  /\ \A i \in Items, p \in Projects :
       ImportEvent[<<i, p>>] \in
         [id : EventIds, task : {t \in Tasks \ Keyless : Owner[t] = p}, type : {"claim"},
          previous_state : {NoState}, new_state : {NoState}, corrects : {NoEvent},
          evidence : {"unknown"}]
  /\ \A i, j \in Items, p, q \in Projects :
       ImportEvent[<<i, p>>].id = ImportEvent[<<j, q>>].id <=> i = j
  /\ NoProject \notin Projects /\ Scheduled \in Routers
  /\ Registered = Projects
  /\ InitialRoots \subseteq Projects \X Roots
  /\ MaxFailures \in Nat

VARIABLES
  inbox,      \* the stored items
  assigned,   \* assigned_project_id of each
  lifecycle,  \* projects.lifecycle
  roots,      \* rows of project_roots: <<project, root>>
  pc,         \* what a router's run does next
  known,      \* the lifecycles its run read
  left,       \* the projects whose roots it has yet to read
  places,     \* the roots it read
  belief,     \* the assignments it read and made
  list,       \* the items it has yet to route
  failures,
  rerooted    \* history: a root was registered while a run was under way

runVars   == <<pc, known, left, places, belief, list>>
inboxVars == <<inbox, assigned, lifecycle, roots, runVars, failures, rerooted>>
vars      == <<events, conflicts, inboxVars>>

Steps == {"idle", "roots", "assigned", "items", "route"}
Nobody    == [i \in Items |-> NoProject]
AllActive == [p \in Projects |-> "Active"]

InboxInit ==
  /\ Init
  /\ inbox = {} /\ assigned = Nobody
  /\ lifecycle = AllActive
  /\ roots = InitialRoots
  /\ pc = [r \in Routers |-> "idle"]
  /\ known = [r \in Routers |-> AllActive]
  /\ left = [r \in Routers |-> {}]
  /\ places = [r \in Routers |-> {}]
  /\ belief = [r \in Routers |-> Nobody]
  /\ list = [r \in Routers |-> {}]
  /\ failures = 0 /\ rerooted = FALSE
-----------------------------------------------------------------------------
(* Attribution (_owner): rs are roots, b assignments.                      *)

\* The project of the innermost registered root that a path is in.
PathOwners(i, rs) ==
  { pr[1] : pr \in {pr \in rs : \E f \in Content[i].paths :
      /\ pr[2] \in ToSet(Within[f])
      /\ ~ \E other \in rs : \E m, n \in DOMAIN Within[f] :
             m < n /\ Within[f][m] = pr[2] /\ Within[f][n] = other[2]} }

\* Mutant of References: the item's own id in its text counts.
AllReferences(i) == Content[i].refs

References(i) == Content[i].refs \ {i}

Owners(i, rs, b) ==
  Content[i].named \cup PathOwners(i, rs) \cup {b[j] : j \in References(i)}

\* Mutant of OwnerOf: references are taken when they agree, unresolved or not.
OwnerOfResolved(i, rs, b) ==
  LET owner(p) == Owners(i, rs, b) \ {NoProject} = {p}
  IN IF ~ Content[i].shared /\ \E p \in Projects : owner(p)
     THEN CHOOSE p \in Projects : owner(p) ELSE NoProject

\* The only project the text points at, if there is exactly one, the text does
\* not call the work shared, and every item it refers to is assigned.
OwnerOf(i, rs, b) ==
  IF /\ ~ Content[i].shared
     /\ \A j \in References(i) : b[j] # NoProject
     /\ \E p \in Projects : Owners(i, rs, b) = {p}
  THEN CHOOSE p \in Projects : Owners(i, rs, b) = {p} ELSE NoProject

\* The owner, if the project is admitted.
Destination(i, rs, b, life) ==
  LET p == OwnerOf(i, rs, b)
  IN IF p # NoProject /\ life[p] \in Admitted THEN p ELSE NoProject
-----------------------------------------------------------------------------
(* route_inbox_items.                                                      *)

Goto(r, step) == pc' = [pc EXCEPT ![r] = step]

ReadProjects(r) ==
  /\ pc[r] = "idle"
  /\ Goto(r, "roots")
  /\ known' = [known EXCEPT ![r] = lifecycle]
  /\ left' = [left EXCEPT ![r] = Projects]
  /\ UNCHANGED <<ledgerVars, inbox, assigned, lifecycle, roots, places, belief, list,
                 failures, rerooted>>

\* One query per project.
ReadRoots(r, p) ==
  /\ pc[r] = "roots" /\ p \in left[r]
  /\ left' = [left EXCEPT ![r] = @ \ {p}]
  /\ places' = [places EXCEPT ![r] = @ \cup {pr \in roots : pr[1] = p}]
  /\ Goto(r, IF left[r] = {p} THEN "assigned" ELSE "roots")
  /\ UNCHANGED <<ledgerVars, inbox, assigned, lifecycle, roots, known, belief, list,
                 failures, rerooted>>

ReadAssigned(r) ==
  /\ pc[r] = "assigned"
  /\ Goto(r, "items")
  /\ belief' = [belief EXCEPT ![r] = assigned]
  /\ UNCHANGED <<ledgerVars, inbox, assigned, lifecycle, roots, known, left, places, list,
                 failures, rerooted>>

\* All pending items, or the one that was asked for.
ReadItems(r, wanted) ==
  /\ pc[r] = "items"
  /\ Goto(r, "route")
  /\ list' = [list EXCEPT ![r] = {i \in wanted \cap inbox : assigned[i] = NoProject}]
  /\ UNCHANGED <<ledgerVars, inbox, assigned, lifecycle, roots, known, left, places,
                 belief, failures, rerooted>>

\* Mutant of Import: the assignment is written whatever it was.
ImportAnyway(i, p) ==
  /\ IF assigned[i] # NoProject THEN UNCHANGED ledgerVars
     ELSE AppendEvent(ImportEvent[<<i, p>>], FALSE)
  /\ assigned' = [assigned EXCEPT ![i] = p]

\* The transaction: the event and the assignment, unless the item is assigned.
Import(i, p) ==
  IF assigned[i] # NoProject THEN UNCHANGED <<ledgerVars, assigned>>
  ELSE /\ AppendEvent(ImportEvent[<<i, p>>], FALSE)
       /\ assigned' = [assigned EXCEPT ![i] = p]

\* The oldest item of the list.  The run remembers the owner it found as the
\* item's, also when the item was assigned already.
RouteItem(r, i) ==
  /\ pc[r] = "route" /\ i \in list[r]
  /\ \A j \in list[r] : Created[i] <= Created[j]
  /\ LET p == Destination(i, places[r], belief[r], known[r])
     IN IF p = NoProject THEN UNCHANGED <<ledgerVars, assigned, belief>>
        ELSE Import(i, p) /\ belief' = [belief EXCEPT ![r][i] = p]
  /\ list' = [list EXCEPT ![r] = @ \ {i}]
  /\ UNCHANGED <<inbox, lifecycle, roots, pc, known, left, places, failures, rerooted>>

\* What the run read goes with it.
EndRun(r) ==
  /\ Goto(r, "idle")
  /\ known' = [known EXCEPT ![r] = AllActive]
  /\ left' = [left EXCEPT ![r] = {}]
  /\ places' = [places EXCEPT ![r] = {}]
  /\ belief' = [belief EXCEPT ![r] = Nobody]
  /\ list' = [list EXCEPT ![r] = {}]

FinishRun(r) ==
  /\ pc[r] = "route" /\ list[r] = {}
  /\ EndRun(r)
  /\ UNCHANGED <<ledgerVars, inbox, assigned, lifecycle, roots, failures, rerooted>>

\* A busy error or the death of the process; items imported so far stay so.
FailRun(r) ==
  /\ pc[r] # "idle" /\ failures < MaxFailures
  /\ EndRun(r)
  /\ failures' = failures + 1
  /\ UNCHANGED <<ledgerVars, inbox, assigned, lifecycle, roots, rerooted>>
-----------------------------------------------------------------------------
(* The others.                                                             *)

CreateInboxItem(i) ==
  /\ i \notin inbox
  /\ inbox' = inbox \cup {i}
  /\ UNCHANGED <<ledgerVars, assigned, lifecycle, roots, runVars, failures, rerooted>>

\* A root belongs to one project, one below it may belong to another.
AddRoot(p, root) ==
  /\ \A pr \in roots : pr[2] # root
  /\ roots' = roots \cup {<<p, root>>}
  /\ rerooted' = (rerooted \/ \E r \in Routers : pc[r] # "idle")
  /\ UNCHANGED <<ledgerVars, inbox, assigned, lifecycle, runVars, failures>>

SetLifecycle(p, l) ==
  /\ lifecycle[p] \notin Terminal \/ l = lifecycle[p]
  /\ lifecycle' = [lifecycle EXCEPT ![p] = l]
  /\ UNCHANGED <<ledgerVars, inbox, assigned, roots, runVars, failures, rerooted>>

Run(r) == \/ \E p \in Projects : ReadRoots(r, p)
          \/ \E i \in Items : RouteItem(r, i)
          \/ ReadAssigned(r) \/ FinishRun(r)

InboxNext ==
  \/ \E r \in Routers : \/ ReadProjects(r) \/ Run(r) \/ FailRun(r)
                        \/ ReadItems(r, Items) \/ \E i \in Items : ReadItems(r, {i})
  \/ \E i \in Items : CreateInboxItem(i)
  \/ \E p \in Projects, root \in Roots : AddRoot(p, root)
  \/ \E p \in Projects, l \in Lifecycles : SetLifecycle(p, l)

InboxSpec == InboxInit /\ [][InboxNext]_vars

\* One of the processes is the scheduled sync (project-sync.md:45 leaves scheduling
\* to the user): its runs go on, and again and again one routes all pending items.
FairInboxSpec ==
  /\ InboxSpec
  /\ WF_vars(ReadProjects(Scheduled) \/ Run(Scheduled))
  /\ SF_vars(ReadItems(Scheduled, Items))
-----------------------------------------------------------------------------
(* Properties.                                                             *)

\* An item is assigned to a project exactly when the ledger holds the item's
\* import, and then on a task of that project, through any number of runs at
\* once and of failed ones (inbox_routing.py:102-123).
AssignedIffImported ==
  \A i \in Items, p \in Projects :
    assigned[i] = p <=> \E k \in DOMAIN events : events[k] = ImportEvent[<<i, p>>]

\* Only what is uniquely attributable is imported, although runs work with what
\* they read before: an assigned item's text calls nothing shared and names no
\* other project, and every item it refers to is assigned, to the same project
\* unless roots were registered during runs (inbox_routing.py:57-83, 91-126;
\* architecture.md:56, "imports only uniquely owned activity").
OnlyAttributable ==
  \A i \in Items : assigned[i] # NoProject =>
    /\ i \in inbox /\ ~ Content[i].shared
    /\ Content[i].named \subseteq {assigned[i]}
    /\ \A j \in References(i) : assigned[j] # NoProject
    /\ ~ rerooted => \A j \in References(i) : assigned[j] = assigned[i]

\* The project that everything in the item's text points at.
PointsAt(i, p) ==
  LET owners == Content[i].named \cup PathOwners(i, roots)
                  \cup {assigned[j] : j \in Content[i].refs \ {i}}
  IN i \in inbox /\ ~ Content[i].shared /\ owners = {p} /\ lifecycle[p] \in Admitted

\* An item that everything in it attributes to one admitted project for good is
\* imported in the end: no stale read, failed run, mention of itself or other run
\* keeps it pending for ever (inbox_routing.py:86-127; project-sync.md:63,
\* "normal sync also reconciles pending items").
ClearItemsRouted ==
  \A i \in Items :
    <>[](\E p \in Projects : PointsAt(i, p)) => <>(assigned[i] # NoProject)
=============================================================================
