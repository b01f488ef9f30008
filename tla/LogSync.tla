------------------------------- MODULE LogSync -------------------------------
(***************************************************************************)
(* sync_project_logs (src/research_dashboard/log_sync.py) over the ledger, *)
(* while the registry and the log files change and several runs may        *)
(* overlap.  A run lists the projects once, their roots one project after  *)
(* the other, and treats each log in three steps: it reads the file, looks *)
(* its event up, and ingests it.                                           *)
(*                                                                         *)
(* The latest entry of a file is abstracted to its digest; a file that is  *)
(* absent, a link, unreadable, too long or without dated entries has none. *)
(* Roots may be nested, so that two pairs of a root and a log name mean    *)
(* the same file.  The title of an entry, which the digest does not cover, *)
(* is left out.                                                            *)
(***************************************************************************)
EXTENDS Registry

CONSTANTS
  LogNames,
  Files,
  Written,     \* those that exist at some time
  PathOf,      \* the file of each log name at each root
  Digests,
  NoDigest, NoLog,
  MaxFaults    \* bound on the runs that die and the files that change

ASSUME LogSyncAssumption ==
  /\ Projects \X LogNames \subseteq Tasks
  /\ \A p \in Projects, n \in LogNames : Owner[<<p, n>>] = p
  /\ PathOf \in [Roots \X LogNames -> Files]
  /\ Written \subseteq Files
  /\ NoDigest \notin Digests
  /\ Projects \X Files \X Digests \subseteq EventIds
  /\ NoLog \notin Projects \X Roots \X LogNames \X Digests
  /\ MaxFaults \in Nat

VARIABLES
  latest,    \* the digest of the latest entry of each file
  todo,      \* the listed projects each run has not come to
  logs,      \* the logs of its project it has not come to
  log,       \* the log it is at, with the digest it read
  imported,  \* history: the project, file and digest of each event
  faults

runVars     == <<todo, logs, log>>
logSyncVars == <<ledgerVars, registryVars, latest, runVars, imported, faults>>

LogSyncInit ==
  /\ Init
  /\ RegistryInit
  /\ latest \in [Files -> Digests \cup {NoDigest}]
  /\ \A f \in Files \ Written : latest[f] = NoDigest
  /\ todo = [s \in Syncs |-> {}]
  /\ logs = [s \in Syncs |-> {}]
  /\ log = [s \in Syncs |-> NoLog]
  /\ imported = <<>>
  /\ faults = 0

OneOf(S) == CHOOSE x \in S : TRUE

Goto(s, next) == stage' = [stage EXCEPT ![s] = next]

\* Mutant of EntryId: an entry is known by where it was found.
EntryIdAtName(p, r, n, d) == <<p, n, d>>

\* The event id derived from an entry.
EntryId(p, r, n, d) == <<p, PathOf[r, n], d>>

\* The event of an entry: no states, and its task is named for the log.
EntryEvent(p, r, n, d) ==
  [id |-> EntryId(p, r, n, d), task |-> <<p, n>>, type |-> "claim",
   previous_state |-> NoState, new_state |-> NoState, corrects |-> NoEvent,
   evidence |-> "available"]
-----------------------------------------------------------------------------
(* A run.                                                                  *)

\* Mutant of Listed: whoever is registered.
ListedAnyway == {p \in Projects : lifecycle[p] # Unregistered}

Listed == {p \in Projects : lifecycle[p] \in Admitted}

\* list_projects, with the lifecycles that the run goes by to its end.
BeginRun(s) ==
  /\ stage[s] = "idle"
  /\ Goto(s, "logs")
  /\ todo' = [todo EXCEPT ![s] = Listed]
  /\ UNCHANGED <<ledgerVars, tableVars, found, latest, logs, log, imported, faults>>

\* list_project_roots of the next project.
NextProject(s) ==
  /\ stage[s] = "logs" /\ logs[s] = {} /\ todo[s] # {}
  /\ LET p == OneOf(todo[s]) IN
     /\ todo' = [todo EXCEPT ![s] = @ \ {p}]
     /\ logs' = [logs EXCEPT ![s] =
                   {x \in {p} \X Roots \X LogNames : <<p, x[2]>> \in roots}]
  /\ UNCHANGED <<ledgerVars, registryVars, latest, log, imported, faults>>

\* A log with the digest that was read.
At(x, d) == <<x[1], x[2], x[3], d>>

\* Mutant of ReadLog: a file without an entry ends the project.
ReadLogOrBreak(s) ==
  /\ stage[s] = "logs" /\ logs[s] # {}
  /\ LET x == OneOf(logs[s])
         d == latest[PathOf[x[2], x[3]]]
     IN IF d = NoDigest
        THEN logs' = [logs EXCEPT ![s] = {}] /\ UNCHANGED <<stage, log>>
        ELSE /\ logs' = [logs EXCEPT ![s] = @ \ {x}]
             /\ Goto(s, "look up") /\ log' = [log EXCEPT ![s] = At(x, d)]
  /\ UNCHANGED <<ledgerVars, tableVars, found, latest, todo, imported, faults>>

\* The next file of the project; one without an entry is passed over.
ReadLog(s) ==
  /\ stage[s] = "logs" /\ logs[s] # {}
  /\ LET x == OneOf(logs[s])
         d == latest[PathOf[x[2], x[3]]]
     IN /\ logs' = [logs EXCEPT ![s] = @ \ {x}]
        /\ IF d = NoDigest
           THEN UNCHANGED <<stage, log>>
           ELSE Goto(s, "look up") /\ log' = [log EXCEPT ![s] = At(x, d)]
  /\ UNCHANGED <<ledgerVars, tableVars, found, latest, todo, imported, faults>>

\* What its event is about, and the event.
EntryAt(s) == <<log[s][1], PathOf[log[s][2], log[s][3]], log[s][4]>>
EventAt(s) == EntryEvent(log[s][1], log[s][2], log[s][3], log[s][4])

LookUp(s) ==
  /\ stage[s] = "look up"
  /\ IF Stored(EventAt(s).id) # {}
     THEN Goto(s, "logs") /\ log' = [log EXCEPT ![s] = NoLog]
     ELSE Goto(s, "ingest") /\ UNCHANGED log
  /\ UNCHANGED <<ledgerVars, tableVars, found, latest, todo, logs, imported, faults>>

\* ingest_event, which another run may have called with the same event.
Import(s) ==
  /\ stage[s] = "ingest"
  /\ \/ /\ AppendEvent(EventAt(s), FALSE)
        /\ imported' = Append(imported, EntryAt(s))
     \/ Replay(EventAt(s), FALSE) /\ UNCHANGED imported
  /\ Goto(s, "logs")
  /\ log' = [log EXCEPT ![s] = NoLog]
  /\ UNCHANGED <<tableVars, found, latest, todo, logs, faults>>

\* Nothing of the run stays but what it imported.
Stop(s) ==
  /\ EndFolder(s)
  /\ todo' = [todo EXCEPT ![s] = {}]
  /\ logs' = [logs EXCEPT ![s] = {}]
  /\ log' = [log EXCEPT ![s] = NoLog]

\* Another run imported the file under another log name: ValueError.
ImportRefused(s) ==
  /\ stage[s] = "ingest"
  /\ Refuse(EventAt(s), FALSE)
  /\ Stop(s)
  /\ UNCHANGED <<tableVars, latest, imported, faults>>

EndRun(s) ==
  /\ stage[s] = "logs" /\ todo[s] = {} /\ logs[s] = {}
  /\ Stop(s)
  /\ UNCHANGED <<ledgerVars, tableVars, latest, imported, faults>>

\* The process dies, or an exception ends the run.
Die(s) ==
  /\ stage[s] # "idle" /\ faults < MaxFaults
  /\ faults' = faults + 1
  /\ Stop(s)
  /\ UNCHANGED <<ledgerVars, tableVars, latest, imported>>

\* Somebody writes or removes a log.
EditLog(f, d) ==
  /\ faults < MaxFaults /\ latest[f] # d
  /\ latest' = [latest EXCEPT ![f] = d]
  /\ faults' = faults + 1
  /\ UNCHANGED <<ledgerVars, registryVars, runVars, imported>>

Proceed(s) ==
  \/ NextProject(s) \/ ReadLog(s) \/ LookUp(s) \/ Import(s) \/ ImportRefused(s) \/ EndRun(s)
  \/ Scan(s) /\ UNCHANGED <<ledgerVars, latest, runVars, imported, faults>>

LogSyncNext ==
  \/ \E s \in Syncs : BeginRun(s) \/ Proceed(s) \/ Die(s)
  \/ \E f \in Written, d \in Digests \cup {NoDigest} : EditLog(f, d)
  \/ /\ Edit \/ Refused \/ \E s \in Syncs, r \in Roots : Discover(s, r)
     /\ UNCHANGED <<ledgerVars, latest, runVars, imported, faults>>

\* A run that has begun goes on, and normal synchronization is run again and
\* again (project-sync.md:44-45).
LogSyncSpec ==
  LogSyncInit /\ [][LogSyncNext]_logSyncVars
    /\ \A s \in Syncs : WF_logSyncVars(Proceed(s)) /\ SF_logSyncVars(BeginRun(s))
-----------------------------------------------------------------------------
(* Properties.                                                             *)

\* The types of the registry, the runs and the files.
LogSyncTypeOK ==
  /\ TypeOK
  /\ lifecycle \in [Projects -> Lifecycles \cup {Unregistered}]
  /\ roots \subseteq Projects \X Roots
  /\ discovered \cup admitted \subseteq Projects
  /\ stage \in [Syncs -> {"idle", "look up owner", "look up project", "add",
                          "logs", "look up", "ingest"}]
  /\ found \in [Syncs -> Roots \cup {NoRoot}]
  /\ latest \in [Files -> Digests \cup {NoDigest}]
  /\ todo \in [Syncs -> SUBSET Projects]
  /\ logs \in [Syncs -> SUBSET (Projects \X Roots \X LogNames)]
  /\ log \in [Syncs -> (Projects \X Roots \X LogNames \X Digests) \cup {NoLog}]
  /\ imported \in Seq(Projects \X Files \X Digests)

\* An unchanged entry is not imported twice for a project, by overlapping runs
\* or under two names of one file (project-sync.md:53, log_sync.py:67-70).
ImportedOnce ==
  \A i, j \in DOMAIN imported : imported[i] = imported[j] => i = j

\* Nothing is imported for a project that nobody ever admitted, a discovered
\* candidate for one (project-sync.md:24, log_sync.py:49-51).
HiddenUntilAdmitted ==
  \A i \in DOMAIN events : Owner[events[i].task] \in admitted

\* Every latest entry at the project's roots is imported, if it is admitted.
UpToDate(p) ==
  lifecycle[p] \in Admitted =>
    \A r \in Roots, n \in LogNames :
      LET d == latest[PathOf[r, n]]
      IN <<p, r>> \in roots /\ d # NoDigest => Stored(EntryId(p, r, n, d)) # {}

\* Normal synchronization catches up with the logs of every project that stays
\* admitted, whatever races and failures end some of the runs
\* (log_sync.py:47-91).
LogsImported == \A p \in Projects : []<>UpToDate(p)
=============================================================================
