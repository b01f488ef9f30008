------------------------------ MODULE Snapshots ------------------------------
(***************************************************************************)
(* create_snapshot (src/research_dashboard/db.py) besides the transactions *)
(* of SqliteTx.  A snapshot is copied to a temporary file of its own and   *)
(* then linked to its name, which is a second of the clock, so that two    *)
(* snapshots may want the same one.  sqlite3's backup is external: asked   *)
(* for all pages at once, it reads them one after the other under SHARED;  *)
(* two parts stand for the pages.  What a temporary file leaves behind     *)
(* when its process dies is left out: nothing reads it.                    *)
(***************************************************************************)
EXTENDS SqliteTx

CONSTANTS
  SnapshotNames,
  NoJob, NoFile

\* A snapshot under way: the parts of the database copied so far.
Job == [ name : SnapshotNames, parts : Seq(Seq(Nat)) ]

ASSUME SnapshotsAssumption == NoJob \notin Job /\ NoFile \notin Seq(Seq(Nat))

VARIABLES
  job,   \* what each connection is taking a snapshot for
  files  \* the snapshots published under each name

fileVars      == <<job, files>>
snapshotsVars == <<vars, fileVars>>

SnapshotsInit ==
  /\ Init
  /\ job = [c \in Conns |-> NoJob]
  /\ files = [n \in SnapshotNames |-> NoFile]

Copying(c) == job[c] # NoJob

\* The temporary file and a connection to the database.
BeginSnapshot(c, n) ==
  /\ phase[c] = "outside" /\ ~ Copying(c)
  /\ job' = [job EXCEPT ![c] = [name |-> n, parts |-> <<>>]]
  /\ UNCHANGED <<vars, files>>

\* Mutant of CopyPart: a file copy, which holds no lock.
CopyPartUnlocked(c) ==
  /\ Copying(c) /\ Len(job[c].parts) < 2
  /\ job' = [job EXCEPT ![c].parts = Append(@, db)]
  /\ UNCHANGED <<vars, files>>

\* backup: the first part waits until no commit is under way, the last lets
\* go of the database.
CopyPart(c) ==
  /\ Copying(c) /\ Len(job[c].parts) < 2
  /\ lock[c] = "none" => ~ Others(c, {"pending"})
  /\ Hold(c, IF job[c].parts = <<>> THEN "shared" ELSE "none")
  /\ job' = [job EXCEPT ![c].parts = Append(@, db)]
  /\ UNCHANGED <<db, phase, depth, view, writes, raised, returned, files>>

\* os.link, and the temporary name is removed.
Publish(c) ==
  /\ Copying(c) /\ Len(job[c].parts) = 2
  /\ files[job[c].name] = NoFile
  /\ files' = [files EXCEPT ![job[c].name] = job[c].parts]
  /\ job' = [job EXCEPT ![c] = NoJob]
  /\ UNCHANGED vars

\* A name in use, another exception or a death: nothing is published.
EndSnapshot(c) ==
  /\ Copying(c)
  /\ job' = [job EXCEPT ![c] = NoJob]
  /\ Hold(c, "none")
  /\ UNCHANGED <<db, phase, depth, view, writes, raised, returned, files>>

\* A step of a transaction, in a connection that takes no snapshot.
Transact(c) ==
  /\ \/ ~ Copying(c) /\ (BeginDeferred(c) \/ BeginImmediate(c))
     \/ EnterNested(c) \/ Raise(c) \/ Die(c) \/ Proceed(c)
  /\ UNCHANGED fileVars

SnapshotsNext == \E c \in Conns :
  \/ Transact(c)
  \/ \E n \in SnapshotNames : BeginSnapshot(c, n)
  \/ CopyPart(c) \/ Publish(c) \/ EndSnapshot(c)

\* A thread in a transaction or a copy goes on, no body waiting for another
\* thread, and a body that may end does not enter nested blocks for ever.
SnapshotsSpec ==
  SnapshotsInit /\ [][SnapshotsNext]_snapshotsVars
    /\ \A c \in Conns : /\ WF_snapshotsVars(Proceed(c) /\ UNCHANGED fileVars)
                        /\ SF_snapshotsVars(Leave(c) /\ UNCHANGED fileVars)
                        /\ WF_snapshotsVars(CopyPart(c))
-----------------------------------------------------------------------------
(* Properties.                                                             *)

\* A snapshot is a database that was committed as a whole, whatever was written
\* while it was copied (db.py:97, "consistent").
SnapshotsConsistent ==
  \A n \in SnapshotNames : files[n] # NoFile =>
    files[n][1] = files[n][2] /\ IsPrefix(files[n][1], db)
=============================================================================
