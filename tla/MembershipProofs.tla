-------------------------- MODULE MembershipProofs --------------------------
(***************************************************************************)
(* Proofs about the registry, discovery and the log sync, for every set of *)
(* projects, folders, files and runs: who owns a root, what is rooted, and *)
(* what the runs may import.                                               *)
(***************************************************************************)
EXTENDS LogSync, LedgerProofs

\* A run that is about to register a folder is at one.
FolderFound ==
  \A s \in Syncs : stage[s] \in {"look up owner", "look up project", "add"}
                     => found[s] \in Roots

\* Somebody admitted every project that counts as admitted now.
AdmittedOnce == \A p \in Projects : lifecycle[p] \in Admitted => p \in admitted

\* The invariant of the registry.
RegistryInv ==
  /\ lifecycle \in [Projects -> Lifecycles \cup {Unregistered}]
  /\ roots \subseteq Projects \X Roots
  /\ discovered \cup admitted \subseteq Projects
  /\ stage \in [Syncs -> {"idle", "look up owner", "look up project", "add",
                          "logs", "look up", "ingest"}]
  /\ found \in [Syncs -> Roots \cup {NoRoot}]
  /\ FolderFound
  /\ AdmittedOnce
  /\ OneOwner
  /\ CandidatesRooted
-----------------------------------------------------------------------------
(* The registry.                                                           *)

\* What an operation does to the four tables.
TableStep ==
  \/ UNCHANGED tableVars
  \/ /\ \E p \in Projects, l \in Lifecycles : SetRow(p, l)
     /\ UNCHANGED <<roots, discovered>>
  \/ /\ UNCHANGED <<lifecycle, discovered, admitted>>
     /\ \E p \in Projects, r \in Roots : ~ Owned(r) /\ roots' = roots \cup {<<p, r>>}
  \/ \E r \in Roots, l \in Lifecycles : ~ Owned(r) /\ Register(r, l)

\* The tables stay sound whatever is done to them, and no admission is
\* forgotten.
LEMMA TableInv ==
  ASSUME RegistryInv, TableStep
  PROVE  /\ lifecycle' \in [Projects -> Lifecycles \cup {Unregistered}]
         /\ roots' \subseteq Projects \X Roots
         /\ discovered' \cup admitted' \subseteq Projects
         /\ AdmittedOnce' /\ OneOwner' /\ CandidatesRooted'
         /\ admitted \subseteq admitted'
<1> USE DEF RegistryInv
<1>1. CASE UNCHANGED tableVars
  BY <1>1 DEF tableVars, AdmittedOnce, OneOwner, CandidatesRooted
<1>2. ASSUME NEW p \in Projects, NEW l \in Lifecycles, SetRow(p, l)
      PROVE  /\ lifecycle' \in [Projects -> Lifecycles \cup {Unregistered}]
             /\ admitted' \subseteq Projects
             /\ AdmittedOnce'
             /\ admitted \subseteq admitted'
  BY <1>2 DEF SetRow, AdmittedOnce
<1>3. ASSUME NEW p \in Projects, NEW r \in Roots, ~ Owned(r), roots' = roots \cup {<<p, r>>}
      PROVE  roots' \subseteq Projects \X Roots /\ OneOwner'
  <2>1. ASSUME NEW z \in Roots, NEW q \in Projects, NEW o \in Projects,
               <<q, z>> \in roots', <<o, z>> \in roots'
        PROVE  q = o
    <3>1. CASE z = r
      <4>1. <<q, z>> \notin roots /\ <<o, z>> \notin roots
        BY <1>3, <3>1 DEF Owned
      <4>2. QED
        BY <1>3, <2>1, <4>1
    <3>2. CASE z # r
      BY <1>3, <2>1, <3>2 DEF OneOwner
    <3>3. QED
      BY <3>1, <3>2
  <2>2. OneOwner'
    BY <2>1 DEF OneOwner
  <2>3. <<p, r>> \in Projects \X Roots
    BY <1>3
  <2>4. roots' \subseteq Projects \X Roots
    BY <1>3, <2>3
  <2>5. QED
    BY <2>2, <2>4
<1>4. CASE /\ \E p \in Projects, l \in Lifecycles : SetRow(p, l)
           /\ UNCHANGED <<roots, discovered>>
  BY <1>2, <1>4 DEF OneOwner, CandidatesRooted
<1>5. CASE /\ UNCHANGED <<lifecycle, discovered, admitted>>
           /\ \E p \in Projects, r \in Roots : ~ Owned(r) /\ roots' = roots \cup {<<p, r>>}
  <2>1. roots \subseteq roots'
    BY <1>5
  <2>2. CandidatesRooted'
    BY <1>5, <2>1 DEF CandidatesRooted
  <2>3. QED
    BY <1>3, <1>5, <2>2 DEF AdmittedOnce
<1>6. ASSUME NEW r \in Roots, NEW l \in Lifecycles, ~ Owned(r), Register(r, l)
      PROVE  /\ lifecycle' \in [Projects -> Lifecycles \cup {Unregistered}]
             /\ roots' \subseteq Projects \X Roots
             /\ discovered' \cup admitted' \subseteq Projects
             /\ AdmittedOnce' /\ OneOwner' /\ CandidatesRooted'
             /\ admitted \subseteq admitted'
  <2> DEFINE p == CandidateId[r]
  <2>1. p \in Projects
    BY RegistryAssumption
  <2>2. SetRow(p, l) /\ roots' = roots \cup {<<p, r>>} /\ discovered' = discovered \cup {p}
    BY <1>6 DEF Register
  <2>3. CandidatesRooted'
    BY <2>2, <1>6 DEF CandidatesRooted
  <2>4. QED
    BY <1>2, <1>3, <1>6, <2>1, <2>2, <2>3
<1>7. QED
  BY <1>1, <1>4, <1>5, <1>6 DEF TableStep

\* Every operation of the registry and of discovery is such a step.
LEMMA RegistryTables ==
  ASSUME RegistryInv,
         \/ Edit \/ Refused
         \/ \E s \in Syncs : Scan(s) \/ \E r \in Roots : Discover(s, r)
  PROVE  TableStep
<1>1. \A l \in Given : l \in Lifecycles
  BY RegistryAssumption
<1>2. "Needs classification" \in Lifecycles
  BY DEF Lifecycles
<1>3. ASSUME NEW p \in Projects, NEW l \in Given, AddProject(p, l) \/ SetLifecycle(p, l)
      PROVE  TableStep
  BY <1>1, <1>3 DEF AddProject, SetLifecycle, TableStep
<1>4. ASSUME NEW p \in Projects, NEW r \in Roots, AddRoot(p, r)
      PROVE  TableStep
  BY <1>4 DEF AddRoot, TableStep
<1>5. ASSUME NEW r \in Roots, NEW l \in Given, AdmitProject(r, l)
      PROVE  TableStep
  BY <1>1, <1>5 DEF AdmitProject, TableStep
<1>6. ASSUME NEW s \in Syncs, Scan(s)
      PROVE  TableStep
  <2>1. CASE AddCandidate(s)
    <3>1. found[s] \in Roots
      BY <2>1 DEF AddCandidate, RegistryInv, FolderFound
    <3>2. QED
      BY <1>2, <2>1, <3>1 DEF AddCandidate, TableStep
  <2>2. CASE LookUpOwner(s) \/ LookUpProject(s) \/ AddRefused(s)
    BY <2>2 DEF LookUpOwner, LookUpProject, AddRefused, TableStep
  <2>3. QED
    BY <1>6, <2>1, <2>2 DEF Scan
<1>7. ASSUME NEW s \in Syncs, NEW r \in Roots, Discover(s, r)
      PROVE  TableStep
  BY <1>7 DEF Discover, TableStep
<1>8. CASE Refused
  BY <1>8 DEF Refused, registryVars, TableStep
<1>9. QED
  BY <1>3, <1>4, <1>5, <1>6, <1>7, <1>8 DEF Edit

\* The registry's own steps, and those of a run that is at no folder.
StageStep ==
  /\ stage' \in [Syncs -> {"idle", "look up owner", "look up project", "add",
                           "logs", "look up", "ingest"}]
  /\ found' \in [Syncs -> Roots \cup {NoRoot}]
  /\ \A s \in Syncs : \/ stage'[s] = stage[s] /\ found'[s] = found[s]
                      \/ stage'[s] = "look up owner" /\ found'[s] \in Roots
                      \/ stage'[s] \in {"look up project", "add"}
                           /\ found'[s] = found[s] /\ found[s] \in Roots
                      \/ stage'[s] \in {"idle", "logs", "look up", "ingest"}

LEMMA StageInv ==
  ASSUME RegistryInv, StageStep
  PROVE  FolderFound'
BY DEF RegistryInv, StageStep, FolderFound

LEMMA RegistryStages ==
  ASSUME RegistryInv,
         \/ Edit \/ Refused
         \/ \E s \in Syncs : Scan(s) \/ \E r \in Roots : Discover(s, r)
  PROVE  StageStep
<1> USE DEF RegistryInv
<1>1. ASSUME UNCHANGED <<stage, found>> PROVE StageStep
  BY <1>1 DEF StageStep
<1>2. Edit \/ Refused => UNCHANGED <<stage, found>>
  BY DEF Edit, Refused, AddProject, SetLifecycle, AddRoot, AdmitProject, registryVars
<1>3. ASSUME NEW s \in Syncs, NEW r \in Roots, Discover(s, r)
      PROVE  StageStep
  BY <1>3 DEF Discover, StageStep
<1>4. ASSUME NEW s \in Syncs, EndFolder(s)
      PROVE  StageStep
  BY <1>4 DEF EndFolder, StageStep
<1>5. ASSUME NEW s \in Syncs, Scan(s)
      PROVE  StageStep
  <2>1. CASE LookUpOwner(s)
    <3>1. CASE EndFolder(s)
      BY <1>4, <3>1
    <3>2. CASE stage' = [stage EXCEPT ![s] = "look up project"] /\ UNCHANGED found
      BY <2>1, <3>2 DEF LookUpOwner, StageStep, FolderFound
    <3>3. QED
      BY <2>1, <3>1, <3>2 DEF LookUpOwner
  <2>2. CASE LookUpProject(s)
    <3>1. CASE EndFolder(s)
      BY <1>4, <3>1
    <3>2. CASE stage' = [stage EXCEPT ![s] = "add"] /\ UNCHANGED found
      BY <2>2, <3>2 DEF LookUpProject, StageStep, FolderFound
    <3>3. QED
      BY <2>2, <3>1, <3>2 DEF LookUpProject
  <2>3. CASE AddCandidate(s) \/ AddRefused(s)
    BY <1>4, <2>3 DEF AddCandidate, AddRefused
  <2>4. QED
    BY <1>5, <2>1, <2>2, <2>3 DEF Scan
<1>6. QED
  BY <1>1, <1>2, <1>3, <1>5

\* The registry keeps its invariant.
LEMMA RegistryStepInv ==
  ASSUME RegistryInv, TableStep, StageStep
  PROVE  RegistryInv' /\ admitted \subseteq admitted'
BY TableInv, StageInv DEF RegistryInv, StageStep
-----------------------------------------------------------------------------
(* The runs.                                                               *)

\* A run that looks up or ingests has read a log.
LogRead == \A s \in Syncs : stage[s] \in {"look up", "ingest"} => log[s] # NoLog

\* What a run still has to do is about projects that somebody admitted.
ListedOnce ==
  \A s \in Syncs :
    /\ todo[s] \subseteq admitted
    /\ \A x \in logs[s] : x[1] \in admitted
    /\ log[s] # NoLog => log[s][1] \in admitted

\* An event's id is the entry it was derived from.
ImportsNamed ==
  /\ Len(imported) = Len(events)
  /\ \A i \in DOMAIN events : imported[i] = events[i].id

\* The ledger's part.
ImportInv ==
  /\ LedgerInv
  /\ imported \in Seq(Projects \X Files \X Digests)
  /\ ImportsNamed
  /\ HiddenUntilAdmitted

\* The runs' part.
RunInv ==
  /\ latest \in [Files -> Digests \cup {NoDigest}]
  /\ todo \in [Syncs -> SUBSET Projects]
  /\ logs \in [Syncs -> SUBSET (Projects \X Roots \X LogNames)]
  /\ log \in [Syncs -> (Projects \X Roots \X LogNames \X Digests) \cup {NoLog}]
  /\ LogRead
  /\ ListedOnce

\* The inductive invariant.
MembershipInv == RegistryInv /\ ImportInv /\ RunInv

LEMMA MembershipInit == LogSyncInit => MembershipInv
<1> SUFFICES ASSUME LogSyncInit PROVE MembershipInv
  OBVIOUS
<1> USE DEF LogSyncInit, RegistryInit, Init
<1>1. Unregistered \notin Lifecycles /\ Admitted \subseteq Lifecycles
  BY RegistryAssumption DEF Lifecycles
<1>2. RegistryInv
  BY <1>1 DEF RegistryInv, FolderFound, AdmittedOnce, OneOwner, CandidatesRooted
<1>3. ImportInv
  BY InitInv DEF ImportInv, ImportsNamed, HiddenUntilAdmitted
<1>4. RunInv
  BY DEF RunInv, LogRead, ListedOnce
<1>5. QED
  BY <1>2, <1>3, <1>4 DEF MembershipInv

\* The event of the log a run is at: its id is the entry, and its project the
\* run's.
LEMMA EventFacts ==
  ASSUME MembershipInv, NEW s \in Syncs, stage[s] \in {"look up", "ingest"}
  PROVE  /\ EventAt(s) \in Event
         /\ EventAt(s).id = EntryAt(s)
         /\ EntryAt(s) \in Projects \X Files \X Digests
         /\ Owner[EventAt(s).task] = log[s][1]
         /\ log[s][1] \in admitted
<1>1. log[s] \in Projects \X Roots \X LogNames \X Digests /\ log[s][1] \in admitted
  BY DEF MembershipInv, RunInv, LogRead, ListedOnce
<1>2. PICK x \in Projects \X Roots \X LogNames \X Digests : x = log[s]
  BY <1>1
<1>3. x[1] \in Projects /\ x[2] \in Roots /\ x[3] \in LogNames /\ x[4] \in Digests
  OBVIOUS
<1> DEFINE p == x[1]
           r == x[2]
           n == x[3]
           d == x[4]
<1>4. PathOf[r, n] \in Files /\ <<p, n>> \in Tasks /\ Owner[<<p, n>>] = p
  BY <1>3, LogSyncAssumption
<1>5. <<p, PathOf[r, n], d>> \in Projects \X Files \X Digests
  BY <1>3, <1>4
<1>6. <<p, PathOf[r, n], d>> \in EventIds
  BY <1>5, LogSyncAssumption
<1>7. EntryAt(s) = <<p, PathOf[r, n], d>> /\ EventAt(s) = EntryEvent(p, r, n, d)
  BY <1>2 DEF EntryAt, EventAt
<1>8. /\ EntryEvent(p, r, n, d).id = <<p, PathOf[r, n], d>>
      /\ EntryEvent(p, r, n, d).task = <<p, n>>
  BY DEF EntryEvent, EntryId
<1>9. EntryEvent(p, r, n, d) \in Event
  BY <1>4, <1>6 DEF EntryEvent, EntryId, Event, EventTypes, Availability
<1>10. QED
  BY <1>1, <1>2, <1>4, <1>5, <1>7, <1>8, <1>9

\* A step that leaves the ledger alone keeps what was imported.
LEMMA LedgerUnchanged ==
  ASSUME MembershipInv, UNCHANGED ledgerVars, imported' = imported, admitted \subseteq admitted'
  PROVE  ImportInv'
BY StutterInv DEF MembershipInv, ImportInv, ledgerVars, ImportsNamed, HiddenUntilAdmitted

\* A step that leaves the runs where they are.
LEMMA RunUnchanged ==
  ASSUME MembershipInv, UNCHANGED <<runVars, latest>>, admitted \subseteq admitted', StageStep,
         \A s \in Syncs : stage'[s] = stage[s] \/ stage'[s] \notin {"look up", "ingest"}
  PROVE  RunInv'
BY DEF MembershipInv, RunInv, runVars, LogRead, ListedOnce
-----------------------------------------------------------------------------
(* The steps.                                                              *)

\* A step of a run that leaves the tables alone and does not come to a folder.
LEMMA RunStage ==
  ASSUME MembershipInv, NEW s \in Syncs, UNCHANGED tableVars,
         \/ UNCHANGED <<stage, found>>
         \/ /\ \E next \in {"idle", "logs", "look up", "ingest"} :
                 stage' = [stage EXCEPT ![s] = next]
            /\ found' \in {found, [found EXCEPT ![s] = NoRoot]}
  PROVE  RegistryInv' /\ admitted' = admitted
<1> USE DEF MembershipInv, RegistryInv
<1>1. TableStep
  BY DEF TableStep
<1>2. StageStep
  BY DEF StageStep
<1>3. QED
  BY <1>1, <1>2, RegistryStepInv DEF tableVars

LEMMA BeginRunInv ==
  ASSUME MembershipInv, NEW s \in Syncs, BeginRun(s)
  PROVE  MembershipInv'
<1>1. RegistryInv' /\ admitted' = admitted
  BY RunStage DEF BeginRun, Goto
<1>2. ImportInv'
  BY <1>1, LedgerUnchanged DEF BeginRun
<1>3. Listed \subseteq admitted /\ Listed \subseteq Projects
  BY DEF MembershipInv, RegistryInv, AdmittedOnce, Listed
<1>4. RunInv'
  BY <1>1, <1>3 DEF BeginRun, Goto, MembershipInv, RegistryInv, RunInv, LogRead, ListedOnce
<1>5. QED
  BY <1>1, <1>2, <1>4 DEF MembershipInv

LEMMA NextProjectInv ==
  ASSUME MembershipInv, NEW s \in Syncs, NextProject(s)
  PROVE  MembershipInv'
<1>1. RegistryInv' /\ admitted' = admitted
  BY RunStage DEF NextProject, registryVars
<1>2. ImportInv'
  BY <1>1, LedgerUnchanged DEF NextProject
<1> DEFINE p == OneOf(todo[s])
           L == {x \in {p} \X Roots \X LogNames : <<p, x[2]>> \in roots}
<1>3. p \in todo[s]
  BY DEF NextProject, OneOf
<1>4. p \in Projects /\ p \in admitted
  BY <1>3 DEF MembershipInv, RunInv, ListedOnce
<1>5. L \subseteq Projects \X Roots \X LogNames /\ \A x \in L : x[1] \in admitted
  BY <1>4
<1>6. todo' = [todo EXCEPT ![s] = @ \ {p}] /\ logs' = [logs EXCEPT ![s] = L]
      /\ UNCHANGED <<stage, latest, log>>
  BY DEF NextProject, registryVars
<1> HIDE DEF p, L
<1>7. RunInv'
  BY <1>1, <1>5, <1>6 DEF MembershipInv, RunInv, LogRead, ListedOnce
<1>8. QED
  BY <1>1, <1>2, <1>7 DEF MembershipInv

LEMMA ReadLogInv ==
  ASSUME MembershipInv, NEW s \in Syncs, ReadLog(s)
  PROVE  MembershipInv'
<1> DEFINE x == OneOf(logs[s])
           d == latest[PathOf[x[2], x[3]]]
<1>1. /\ logs' = [logs EXCEPT ![s] = @ \ {x}]
      /\ \/ UNCHANGED <<stage, log>>
         \/ d # NoDigest /\ Goto(s, "look up") /\ log' = [log EXCEPT ![s] = At(x, d)]
      /\ UNCHANGED <<ledgerVars, tableVars, found, latest, todo, imported>>
  BY DEF ReadLog
<1>2. x \in logs[s]
  BY DEF ReadLog, OneOf
<1>3. x \in Projects \X Roots \X LogNames /\ x[1] \in admitted
  BY <1>2 DEF MembershipInv, RunInv, ListedOnce
<1>4. x[1] \in Projects /\ x[2] \in Roots /\ x[3] \in LogNames
  BY <1>3
<1>5. d \in Digests \cup {NoDigest}
  BY <1>4, LogSyncAssumption DEF MembershipInv, RunInv
<1>6. d # NoDigest => At(x, d) \in Projects \X Roots \X LogNames \X Digests
  BY <1>4, <1>5 DEF At
<1>7. d # NoDigest => At(x, d) # NoLog /\ At(x, d)[1] = x[1]
  BY <1>6, LogSyncAssumption DEF At
<1> HIDE DEF x, d
<1>8. RegistryInv' /\ admitted' = admitted
  BY <1>1, RunStage DEF Goto
<1>9. ImportInv'
  BY <1>1, <1>8, LedgerUnchanged
<1>10. RunInv'
  <2>1. CASE UNCHANGED <<stage, log>>
    BY <1>1, <1>8, <2>1 DEF MembershipInv, RunInv, LogRead, ListedOnce
  <2>2. CASE d # NoDigest /\ Goto(s, "look up") /\ log' = [log EXCEPT ![s] = At(x, d)]
    BY <1>1, <1>3, <1>6, <1>7, <1>8, <2>2
       DEF MembershipInv, RegistryInv, RunInv, LogRead, ListedOnce, Goto
  <2>3. QED
    BY <1>1, <2>1, <2>2
<1>11. QED
  BY <1>8, <1>9, <1>10 DEF MembershipInv

LEMMA LookUpInv ==
  ASSUME MembershipInv, NEW s \in Syncs, LookUp(s)
  PROVE  MembershipInv'
<1>1. RegistryInv' /\ admitted' = admitted
  BY RunStage DEF LookUp, Goto
<1>2. ImportInv'
  BY <1>1, LedgerUnchanged DEF LookUp
<1>3. RunInv'
  <2>1. CASE Goto(s, "logs") /\ log' = [log EXCEPT ![s] = NoLog]
    BY <1>1, <2>1 DEF LookUp, Goto, MembershipInv, RegistryInv, RunInv, LogRead, ListedOnce
  <2>2. CASE Goto(s, "ingest") /\ UNCHANGED log
    BY <1>1, <2>2 DEF LookUp, Goto, MembershipInv, RegistryInv, RunInv, LogRead, ListedOnce
  <2>3. QED
    BY <2>1, <2>2 DEF LookUp
<1>4. QED
  BY <1>1, <1>2, <1>3 DEF MembershipInv

\* An event that is stored is the only one of its entry, and belongs to a
\* project that somebody admitted.
LEMMA ImportInvKept ==
  ASSUME MembershipInv, NEW s \in Syncs, Import(s)
  PROVE  MembershipInv'
<1> DEFINE v == EventAt(s)
<1>1. /\ v \in Event /\ v.id = EntryAt(s) /\ EntryAt(s) \in Projects \X Files \X Digests
      /\ Owner[v.task] \in admitted
  BY EventFacts DEF Import
<1>2. /\ \/ AppendEvent(v, FALSE) /\ imported' = Append(imported, EntryAt(s))
         \/ Replay(v, FALSE) /\ UNCHANGED imported
      /\ Goto(s, "logs") /\ log' = [log EXCEPT ![s] = NoLog]
      /\ UNCHANGED <<tableVars, found, latest, todo, logs>>
  BY DEF Import
<1> HIDE DEF v
<1>3. RegistryInv' /\ admitted' = admitted
  BY <1>2, RunStage DEF Goto
<1>4. ImportInv'
  <2>1. CASE Replay(v, FALSE) /\ UNCHANGED imported
    BY <1>3, <2>1, LedgerUnchanged DEF Replay
  <2>2. CASE AppendEvent(v, FALSE) /\ imported' = Append(imported, EntryAt(s))
    <3>1. LedgerInv /\ FALSE \in BOOLEAN
      BY DEF MembershipInv, ImportInv
    <3>2. LedgerInv'
      BY <1>1, <2>2, <3>1, AppendAnyInv
    <3>3. PICK n \in Nat : n = Len(events) + 1
      BY <3>1 DEF LedgerInv, TypeOK
    <3>4. events \in Seq(Event) /\ events' = Append(events, v)
      BY <2>2, <3>1 DEF LedgerInv, TypeOK, AppendEvent
    <3>5. /\ DOMAIN events = 1 .. Len(events) /\ DOMAIN events' = 1 .. n
          /\ \A i \in DOMAIN events : events'[i] = events[i] /\ i < n /\ i \in Nat
          /\ events'[n] = v
      BY <1>1, <3>3, <3>4, AppendFacts
    <3>6. imported \in Seq(Projects \X Files \X Digests) /\ Len(imported) = Len(events)
      BY DEF MembershipInv, ImportInv, ImportsNamed
    <3>7. /\ imported' \in Seq(Projects \X Files \X Digests) /\ Len(imported') = n
          /\ \A i \in 1 .. Len(imported) : imported'[i] = imported[i]
          /\ imported'[n] = EntryAt(s)
      BY <1>1, <2>2, <3>3, <3>6
    <3>8. Len(events') = n
      BY <1>1, <3>3, <3>4
    <3>9. \A i \in DOMAIN events' : i \in DOMAIN events \/ i = n
      BY <3>3, <3>4, <3>5
    <3>10. ImportsNamed'
      BY <1>1, <3>5, <3>6, <3>7, <3>8, <3>9 DEF MembershipInv, ImportInv, ImportsNamed
    <3>11. HiddenUntilAdmitted'
      BY <1>1, <1>3, <3>5, <3>9 DEF MembershipInv, ImportInv, HiddenUntilAdmitted
    <3>12. QED
      BY <3>2, <3>7, <3>10, <3>11 DEF ImportInv
  <2>3. QED
    BY <1>2, <2>1, <2>2
<1>5. RunInv'
  BY <1>2, <1>3 DEF Goto, MembershipInv, RegistryInv, RunInv, LogRead, ListedOnce
<1>6. QED
  BY <1>3, <1>4, <1>5 DEF MembershipInv

\* A run that stops, for whatever reason.
LEMMA StopInv ==
  ASSUME MembershipInv, NEW s \in Syncs, Stop(s),
         UNCHANGED <<ledgerVars, tableVars, latest, imported>>
  PROVE  MembershipInv'
<1>1. RegistryInv' /\ admitted' = admitted
  BY RunStage DEF Stop, EndFolder
<1>2. ImportInv'
  BY <1>1, LedgerUnchanged
<1>3. RunInv'
  BY <1>1 DEF Stop, EndFolder, MembershipInv, RegistryInv, RunInv, LogRead, ListedOnce
<1>4. QED
  BY <1>1, <1>2, <1>3 DEF MembershipInv

LEMMA EditLogInv ==
  ASSUME MembershipInv, NEW f \in Written, NEW d \in Digests \cup {NoDigest}, EditLog(f, d)
  PROVE  MembershipInv'
<1>1. RegistryInv' /\ admitted' = admitted
  BY DEF EditLog, registryVars, tableVars, MembershipInv, RegistryInv, FolderFound,
         AdmittedOnce, OneOwner, CandidatesRooted
<1>2. ImportInv'
  BY <1>1, LedgerUnchanged DEF EditLog
<1>3. RunInv'
  BY <1>1 DEF EditLog, runVars, registryVars, MembershipInv, RunInv, LogRead, ListedOnce
<1>4. QED
  BY <1>1, <1>2, <1>3 DEF MembershipInv

\* What happens to the registry, beside the runs.
LEMMA RegistryOnly ==
  ASSUME MembershipInv, UNCHANGED <<ledgerVars, latest, runVars, imported>>,
         \/ Edit \/ Refused
         \/ \E s \in Syncs : Scan(s) \/ \E r \in Roots : Discover(s, r)
  PROVE  MembershipInv'
<1>1. RegistryInv' /\ admitted \subseteq admitted' /\ StageStep
  BY RegistryTables, RegistryStages, RegistryStepInv DEF MembershipInv
<1>2. ImportInv'
  BY <1>1, LedgerUnchanged
<1>3. \A s \in Syncs : stage'[s] = stage[s] \/ stage'[s] \notin {"look up", "ingest"}
  <2>1. Edit \/ Refused => UNCHANGED stage
    BY DEF Edit, Refused, AddProject, SetLifecycle, AddRoot, AdmitProject, registryVars
  <2>2. ASSUME NEW s \in Syncs, Scan(s) \/ \E r \in Roots : Discover(s, r)
        PROVE  \E next \in {"idle", "look up owner", "look up project", "add"} :
                 stage' = [stage EXCEPT ![s] = next]
    BY <2>2 DEF Scan, LookUpOwner, LookUpProject, AddCandidate, AddRefused, Discover, EndFolder
  <2>3. QED
    BY <2>1, <2>2 DEF MembershipInv, RegistryInv
<1>4. RunInv'
  BY <1>1, <1>3, RunUnchanged
<1>5. QED
  BY <1>1, <1>2, <1>4 DEF MembershipInv

LEMMA MembershipNext == MembershipInv /\ [LogSyncNext]_logSyncVars => MembershipInv'
<1> SUFFICES ASSUME MembershipInv, [LogSyncNext]_logSyncVars PROVE MembershipInv'
  OBVIOUS
<1>1. ASSUME NEW s \in Syncs, BeginRun(s) PROVE MembershipInv'
  BY <1>1, BeginRunInv
<1>2. ASSUME NEW s \in Syncs, Proceed(s) PROVE MembershipInv'
  <2>1. CASE NextProject(s) \/ ReadLog(s) \/ LookUp(s) \/ Import(s)
    BY <2>1, NextProjectInv, ReadLogInv, LookUpInv, ImportInvKept
  <2>2. CASE ImportRefused(s) \/ EndRun(s)
    <3>1. Stop(s) /\ UNCHANGED <<ledgerVars, tableVars, latest, imported>>
      BY <2>2 DEF ImportRefused, EndRun, Refuse
    <3>2. QED
      BY <3>1, StopInv
  <2>3. CASE Scan(s) /\ UNCHANGED <<ledgerVars, latest, runVars, imported, faults>>
    BY <2>3, RegistryOnly
  <2>4. QED
    BY <1>2, <2>1, <2>2, <2>3 DEF Proceed
<1>3. ASSUME NEW s \in Syncs, Die(s) PROVE MembershipInv'
  BY <1>3, StopInv DEF Die
<1>4. ASSUME NEW f \in Written, NEW d \in Digests \cup {NoDigest}, EditLog(f, d)
      PROVE  MembershipInv'
  BY <1>4, EditLogInv
<1>5. CASE /\ Edit \/ Refused \/ \E s \in Syncs, r \in Roots : Discover(s, r)
           /\ UNCHANGED <<ledgerVars, latest, runVars, imported, faults>>
  BY <1>5, RegistryOnly
<1>6. CASE UNCHANGED logSyncVars
  <2>1. Refused /\ UNCHANGED <<ledgerVars, latest, runVars, imported>>
    BY <1>6 DEF logSyncVars, Refused, registryVars
  <2>2. QED
    BY <2>1, RegistryOnly
<1>7. QED
  BY <1>1, <1>2, <1>3, <1>4, <1>5, <1>6 DEF LogSyncNext

\* The registry, the runs and the imported events keep the invariant.
THEOREM MembershipCorrect == LogSyncSpec => []MembershipInv
<1>1. LogSyncInit => MembershipInv
  BY MembershipInit
<1>2. MembershipInv /\ [LogSyncNext]_logSyncVars => MembershipInv'
  BY MembershipNext
<1>3. QED
  BY <1>1, <1>2, PTL DEF LogSyncSpec

\* The registry, the runs and the files are well typed (registry.py,
\* log_sync.py).
THEOREM MembershipTypes == LogSyncSpec => []LogSyncTypeOK
<1>1. MembershipInv => LogSyncTypeOK
  BY DEF MembershipInv, RegistryInv, ImportInv, RunInv, LogSyncTypeOK, LedgerInv
<1>2. QED
  BY <1>1, MembershipCorrect, PTL

\* No two projects own a root, whoever adds it at the same time
\* (registry.py:140-166, discovery.py:92-105).
THEOREM RootsHaveOneOwner == LogSyncSpec => []OneOwner
<1>1. MembershipInv => OneOwner
  BY DEF MembershipInv, RegistryInv
<1>2. QED
  BY <1>1, MembershipCorrect, PTL

\* A registered folder's project has a root (discovery.py:103-105, 120-139).
THEOREM CandidatesAreRooted == LogSyncSpec => []CandidatesRooted
<1>1. MembershipInv => CandidatesRooted
  BY DEF MembershipInv, RegistryInv
<1>2. QED
  BY <1>1, MembershipCorrect, PTL

\* No entry is imported twice for a project (log_sync.py:67-70).
THEOREM EntriesImportedOnce == LogSyncSpec => []ImportedOnce
<1>1. MembershipInv => ImportedOnce
  <2> SUFFICES ASSUME MembershipInv, NEW i \in DOMAIN imported, NEW j \in DOMAIN imported,
                      imported[i] = imported[j]
               PROVE  i = j
    BY DEF ImportedOnce
  <2>1. events \in Seq(Event) /\ imported \in Seq(Projects \X Files \X Digests)
        /\ Len(imported) = Len(events)
    BY DEF MembershipInv, ImportInv, ImportsNamed, LedgerInv, TypeOK
  <2>2. i \in DOMAIN events /\ j \in DOMAIN events
    BY <2>1
  <2>3. events[i].id = events[j].id
    BY <2>2 DEF MembershipInv, ImportInv, ImportsNamed
  <2>4. QED
    BY <2>2, <2>3 DEF MembershipInv, ImportInv, LedgerInv, UniqueIds
<1>2. QED
  BY <1>1, MembershipCorrect, PTL

\* Only projects that somebody admitted have events (log_sync.py:49-51).
THEOREM HiddenTillAdmitted == LogSyncSpec => []HiddenUntilAdmitted
<1>1. MembershipInv => HiddenUntilAdmitted
  BY DEF MembershipInv, ImportInv
<1>2. QED
  BY <1>1, MembershipCorrect, PTL

\* The runs lose no history of the ledger and rewrite none, however many import
\* the same entries at once (log_sync.py:67-83).
THEOREM LogSyncKeepsHistory == LogSyncSpec => HistoryKept
<1>1. MembershipInv /\ [LogSyncNext]_logSyncVars => [Wrote]_ledgerVars
  <2> SUFFICES ASSUME MembershipInv, [LogSyncNext]_logSyncVars PROVE [Wrote]_ledgerVars
    OBVIOUS
  <2>1. ASSUME NEW s \in Syncs, Import(s) PROVE [Wrote]_ledgerVars
    <3>1. EventAt(s) \in Event
      BY <2>1, EventFacts DEF Import
    <3>2. QED
      BY <2>1, <3>1 DEF Import, Wrote, Replay
  <2>2. ASSUME NEW s \in Syncs, BeginRun(s) \/ Proceed(s) \/ Die(s), ~ Import(s)
        PROVE  UNCHANGED ledgerVars
    BY <2>2 DEF BeginRun, Proceed, Die, NextProject, ReadLog, LookUp, ImportRefused, EndRun,
           Refuse
  <2>3. QED
    BY <2>1, <2>2 DEF LogSyncNext, EditLog, logSyncVars
<1>2. MembershipInv => LedgerInv
  BY DEF MembershipInv, ImportInv
<1>3. LedgerInv /\ [Wrote]_ledgerVars => [Kept]_ledgerVars
  BY WroteKeeps
<1>4. QED
  BY <1>1, <1>2, <1>3, MembershipCorrect, PTL DEF LogSyncSpec, HistoryKept, Kept
=============================================================================
