------------------------------- MODULE Registry -------------------------------
(***************************************************************************)
(* The projects, their lifecycles and roots                                *)
(* (src/research_dashboard/registry.py), and what puts folders into them:  *)
(* sync_projects and admit_project (src/research_dashboard/discovery.py).  *)
(* registry.py's own operations and admit_project are one transaction      *)
(* each; sync_projects looks a folder up in two queries before the         *)
(* transaction that adds it.  Governing plans are in PlanSync.             *)
(*                                                                         *)
(* A root is a normalized path of a folder.  The folders are marked and    *)
(* eligible; what is said of a project besides its lifecycle (name, domain *)
(* and description) is left out, so a call that gives another domain than  *)
(* the one on record is among the refused ones.                            *)
(***************************************************************************)
EXTENDS Ledger

CONSTANTS
  Roots,
  CandidateId,  \* the project id that the path of each root gives
  Syncs,        \* processes that run a synchronization
  Given,        \* the lifecycles that callers name, of the six there are
  Unregistered, NoRoot

Admitted == {"Active", "Waiting", "Paused"}
Terminal == {"Completed", "Archived"}
Lifecycles == Admitted \cup Terminal \cup {"Needs classification"}

ASSUME RegistryAssumption ==
  /\ CandidateId \in [Roots -> Projects]
  /\ Given \subseteq Lifecycles
  /\ Unregistered \notin Lifecycles
  /\ NoRoot \notin Roots

VARIABLES
  lifecycle,   \* the rows of projects
  roots,       \* the rows of project_roots
  stage,       \* what each synchronization does next
  found,       \* the folder it is about to register
  discovered,  \* history: the projects that a folder was registered as
  admitted     \* history: the projects that somebody admitted

tableVars    == <<lifecycle, roots, discovered, admitted>>
registryVars == <<tableVars, stage, found>>

RegistryInit ==
  /\ lifecycle = [p \in Projects |-> Unregistered]
  /\ roots = {}
  /\ stage = [s \in Syncs |-> "idle"]
  /\ found = [s \in Syncs |-> NoRoot]
  /\ discovered = {}
  /\ admitted = {}

Owned(r) == \E p \in Projects : <<p, r>> \in roots

SetRow(p, l) ==
  /\ lifecycle' = [lifecycle EXCEPT ![p] = l]
  /\ admitted' = IF l \in Admitted THEN admitted \cup {p} ELSE admitted
-----------------------------------------------------------------------------
(* registry.py.                                                            *)

AddProject(p, l) ==
  /\ lifecycle[p] = Unregistered
  /\ SetRow(p, l)
  /\ UNCHANGED <<roots, discovered, stage, found>>

AddRoot(p, r) ==
  /\ lifecycle[p] # Unregistered
  /\ ~ Owned(r)
  /\ roots' = roots \cup {<<p, r>>}
  /\ UNCHANGED <<lifecycle, discovered, admitted, stage, found>>

SetLifecycle(p, l) ==
  /\ lifecycle[p] \notin Terminal \cup {Unregistered, l}
  /\ SetRow(p, l)
  /\ UNCHANGED <<roots, discovered, stage, found>>
-----------------------------------------------------------------------------
(* discovery.py.                                                           *)

\* The row of a new project and its root, in one transaction.
Register(r, l) ==
  /\ lifecycle[CandidateId[r]] = Unregistered
  /\ SetRow(CandidateId[r], l)
  /\ roots' = roots \cup {<<CandidateId[r], r>>}
  /\ discovered' = discovered \cup {CandidateId[r]}

\* admit_project: the project that owns the root, or else a new one.
AdmitProject(r, l) ==
  /\ l \in Admitted
  /\ \/ ~ Owned(r) /\ Register(r, l)
     \/ \E p \in Projects :
          /\ <<p, r>> \in roots
          /\ lifecycle[p] \notin Terminal
          /\ SetRow(p, l)
          /\ UNCHANGED <<roots, discovered>>
  /\ UNCHANGED <<stage, found>>

\* sync_projects comes to a folder.
Discover(s, r) ==
  /\ stage[s] = "idle"
  /\ stage' = [stage EXCEPT ![s] = "look up owner"]
  /\ found' = [found EXCEPT ![s] = r]
  /\ UNCHANGED tableVars

\* It is done with the folder.
EndFolder(s) ==
  /\ stage' = [stage EXCEPT ![s] = "idle"]
  /\ found' = [found EXCEPT ![s] = NoRoot]

\* "existing".
LookUpOwner(s) ==
  /\ stage[s] = "look up owner"
  /\ IF Owned(found[s])
     THEN EndFolder(s)
     ELSE stage' = [stage EXCEPT ![s] = "look up project"] /\ UNCHANGED found
  /\ UNCHANGED tableVars

\* "needs_assignment".
LookUpProject(s) ==
  /\ stage[s] = "look up project"
  /\ IF lifecycle[CandidateId[found[s]]] # Unregistered
     THEN EndFolder(s)
     ELSE stage' = [stage EXCEPT ![s] = "add"] /\ UNCHANGED found
  /\ UNCHANGED tableVars

\* Mutants of AddCandidate: it goes by the owner it looked up; the project is
\* added in a transaction of its own.
AddCandidateUnseen(s) ==
  /\ stage[s] = "add"
  /\ Register(found[s], "Needs classification")
  /\ EndFolder(s)
AddCandidateApart(s) ==
  /\ stage[s] = "add"
  /\ \/ ~ Owned(found[s]) /\ Register(found[s], "Needs classification")
     \/ /\ Owned(found[s])
        /\ lifecycle[CandidateId[found[s]]] = Unregistered
        /\ SetRow(CandidateId[found[s]], "Needs classification")
        /\ discovered' = discovered \cup {CandidateId[found[s]]}
        /\ UNCHANGED roots
  /\ EndFolder(s)

\* "candidate": add_project and add_project_root, which looks once more.
AddCandidate(s) ==
  /\ stage[s] = "add"
  /\ ~ Owned(found[s])
  /\ Register(found[s], "Needs classification")
  /\ EndFolder(s)

\* Somebody added the project or the root meanwhile: an exception ends the run.
AddRefused(s) ==
  /\ stage[s] = "add"
  /\ Owned(found[s]) \/ lifecycle[CandidateId[found[s]]] # Unregistered
  /\ EndFolder(s)
  /\ UNCHANGED tableVars

Edit ==
  \/ \E p \in Projects, l \in Given : AddProject(p, l) \/ SetLifecycle(p, l)
  \/ \E p \in Projects, r \in Roots : AddRoot(p, r)
  \/ \E r \in Roots, l \in Given : AdmitProject(r, l)

Scan(s) == LookUpOwner(s) \/ LookUpProject(s) \/ AddCandidate(s) \/ AddRefused(s)

\* A call that is refused or changes nothing.
Refused == UNCHANGED registryVars
-----------------------------------------------------------------------------
(* Properties.                                                             *)

\* A root belongs to one project, though nothing but add_project_root's look
\* inside its transaction sees to it: the table's key is the pair
\* (registry.py:140-166, discovery.py:92-105, schema.sql:19-24).
OneOwner ==
  \A r \in Roots : \A p, q \in Projects :
    <<p, r>> \in roots /\ <<q, r>> \in roots => p = q

\* A project that a folder was registered as has a root: no synchronization or
\* admission that loses a race leaves half of what it adds (discovery.py:103-105,
\* 120-139).
CandidatesRooted == \A p \in discovered : \E r \in Roots : <<p, r>> \in roots
=============================================================================
