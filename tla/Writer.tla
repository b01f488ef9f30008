------------------------------- MODULE Writer -------------------------------
(***************************************************************************)
(* The canonical writer (writer.submit_event) over the ledger: producers   *)
(* submit events, each call opens a connection, checks that the database   *)
(* is writable, reads the project's lifecycle, ingests the event and       *)
(* returns a receipt; meanwhile lifecycles change (set_project_lifecycle), *)
(* other callers ingest directly, the database is busy, and a producer's   *)
(* process may die between any two of its steps.  The database steps of a  *)
(* call are separate transactions, so calls interleave at every one.       *)
(*                                                                         *)
(* A producer that got a transient error or died submits the same event    *)
(* again (external: event-contract.md leaves retrying to the callers).     *)
(***************************************************************************)
EXTENDS ReadModel

CONSTANTS
  Producers,
  Lifecycles,     \* the lifecycles that projects take, of the six there are
  NoReply,        \* a producer that has no receipt yet
  MaxCalls,       \* bound on the calls of submit_event
  MaxFailures     \* bound on busy errors and deaths together

Admitted   == {"Active", "Waiting", "Paused"}
Terminal   == {"Completed", "Archived"}
AllLifecycles == Admitted \cup Terminal \cup {"Needs classification"}

ASSUME WriterAssumption ==
  /\ Lifecycles \subseteq AllLifecycles
  /\ MaxCalls \in Nat /\ MaxFailures \in Nat

\* Where a call of submit_event is: before the write preflight, before the
\* admission check, before ingest_event, committed, or failed and to be retried.
Steps == {"idle", "preflight", "admission", "ingest", "committed", "failed"}

Receipt == [ event_id : EventIds, sequence : Nat, status : {"accepted", "conflict"},
             current_state : States \cup {NoState, StateConflict}, conflict : BOOLEAN ]

VARIABLES
  lifecycle,  \* projects.lifecycle
  pc, job,    \* each producer's step and the event it submits
  reply,      \* the receipt a committed call is about to return
  receipts,   \* the receipts returned so far (what producers saw)
  late,       \* history: producers whose call began on a terminal project
  calls, failures

procVars == <<pc, job, reply, receipts, late, calls, failures>>
vars == <<events, conflicts, lifecycle, pc, job, reply, receipts, late, calls, failures>>

WriterInit ==
  /\ Init
  /\ lifecycle \in [Projects -> Lifecycles \ Terminal]
  /\ pc = [p \in Producers |-> "idle"]
  /\ job = [p \in Producers |-> NoReply]
  /\ reply = [p \in Producers |-> NoReply]
  /\ receipts = {}
  /\ late = {}
  /\ calls = 0 /\ failures = 0
-----------------------------------------------------------------------------
(* The receipt: the return values of ingest_event, as submit_event cuts    *)
(* them down.                                                              *)

ReceiptState(v, disputed) ==
  IF disputed \/ Opened(v, FALSE) # {} THEN StateConflict
  ELSE IF v.new_state # NoState THEN v.new_state ELSE StateOf(v.task)
ReceiptOf(v, id, sequence, disputed) ==
  [event_id |-> id, sequence |-> sequence,
   status |-> IF Opened(v, FALSE) # {} THEN "conflict" ELSE "accepted",
   current_state |-> ReceiptState(v, disputed),
   conflict |-> Opened(v, FALSE) # {}]

\* Mutants of AppendReceipt: the sequence is read before the insertion; a
\* conflict v resolved is still taken for open.
ReceiptReadEarly(v) ==
  ReceiptOf(v, v.id, Len(events), Open(v.task) # {} /\ Settled(v) = {})
ReceiptStillDisputed(v) ==
  ReceiptOf(v, v.id, Len(events) + 1, Open(v.task) # {})

\* Computed from what was read before the insertion: open_conflict is
\* forgotten once v resolved it, current_state_event is the one before v.
AppendReceipt(v) ==
  ReceiptOf(v, v.id, Len(events) + 1, Open(v.task) # {} /\ Settled(v) = {})

\* A replay looks the task up as it is now.
ReplayReceipt(v) ==
  LET disputed == Open(v.task) # {}
  IN [event_id |-> v.id, sequence |-> CHOOSE i \in Stored(v.id) : TRUE,
      status |-> IF disputed THEN "conflict" ELSE "accepted",
      current_state |-> IF disputed THEN StateConflict ELSE StateOf(v.task),
      conflict |-> disputed /\ OpenedBy(v.id) # {}]
-----------------------------------------------------------------------------
(* submit_event.                                                           *)

Goto(p, step) == pc' = [pc EXCEPT ![p] = step]

Submit(p, v) ==
  /\ pc[p] = "idle" /\ calls < MaxCalls
  /\ Goto(p, "preflight")
  /\ job' = [job EXCEPT ![p] = v]
  /\ late' = IF lifecycle[Owner[v.task]] \in Terminal THEN late \cup {p} ELSE late \ {p}
  /\ calls' = calls + 1
  /\ UNCHANGED <<ledgerVars, lifecycle, reply, receipts, failures>>

\* The call is over, with a receipt or without.
Done(p) ==
  /\ Goto(p, "idle")
  /\ job' = [job EXCEPT ![p] = NoReply]
  /\ late' = late \ {p}

\* BEGIN IMMEDIATE and rollback: nothing is written.
Preflight(p) ==
  /\ pc[p] = "preflight"
  /\ Goto(p, "admission")
  /\ UNCHANGED <<ledgerVars, lifecycle, job, reply, receipts, late, calls, failures>>

\* Mutant of IsAdmitted: only Active projects are admitted.
IsActiveProject(v) == lifecycle[Owner[v.task]] = "Active"

\* Read outside the transaction that ingests.
IsAdmitted(v) == Owner[v.task] \in Registered /\ lifecycle[Owner[v.task]] \in Admitted

Admission(p) ==
  /\ pc[p] = "admission"
  /\ IF IsAdmitted(job[p]) THEN Goto(p, "ingest") /\ UNCHANGED <<job, late>> ELSE Done(p)
  /\ UNCHANGED <<ledgerVars, lifecycle, reply, receipts, calls, failures>>

Committed(p, r) ==
  /\ Goto(p, "committed")
  /\ reply' = [reply EXCEPT ![p] = r]
  /\ UNCHANGED <<lifecycle, job, receipts, late, calls, failures>>

IngestNew(p) ==
  /\ pc[p] = "ingest"
  /\ AppendEvent(job[p], FALSE)
  /\ Committed(p, AppendReceipt(job[p]))

IngestReplay(p) ==
  /\ pc[p] = "ingest"
  /\ Replay(job[p], FALSE)
  /\ Committed(p, ReplayReceipt(job[p]))

IngestRefused(p) ==
  /\ pc[p] = "ingest"
  /\ Refuse(job[p], FALSE)
  /\ Done(p)
  /\ UNCHANGED <<lifecycle, reply, receipts, calls, failures>>

Return(p) ==
  /\ pc[p] = "committed"
  /\ Done(p)
  /\ receipts' = receipts \cup {reply[p]}
  /\ reply' = [reply EXCEPT ![p] = NoReply]
  /\ UNCHANGED <<ledgerVars, lifecycle, calls, failures>>

\* SQLITE_BUSY at the preflight or in the transaction, or the death of the
\* process at any step, after the commit included.
Fail(p) ==
  /\ pc[p] \notin {"idle", "failed"} /\ failures < MaxFailures
  /\ Goto(p, "failed")
  /\ reply' = [reply EXCEPT ![p] = NoReply]
  /\ failures' = failures + 1
  /\ UNCHANGED <<ledgerVars, lifecycle, job, receipts, late, calls>>

\* The producer submits the same event again, as a call of its own.
Resubmit(p) ==
  /\ pc[p] = "failed"
  /\ Goto(p, "preflight")
  /\ late' = IF lifecycle[Owner[job[p].task]] \in Terminal THEN late \cup {p} ELSE late \ {p}
  /\ UNCHANGED <<ledgerVars, lifecycle, job, reply, receipts, calls, failures>>
-----------------------------------------------------------------------------
(* The others.                                                             *)

\* Mutant of SetLifecycle: a terminal project may become active again.
SetAnyLifecycle(j, l) ==
  lifecycle' = [lifecycle EXCEPT ![j] = l] /\ UNCHANGED <<ledgerVars, procVars>>

SetLifecycle(j, l) ==
  /\ lifecycle[j] \notin Terminal \/ l = lifecycle[j]
  /\ lifecycle' = [lifecycle EXCEPT ![j] = l]
  /\ UNCHANGED <<ledgerVars, procVars>>

\* A caller of the Python API records a conflict explicitly.
RecordConflict(v) ==
  /\ TRUE \in Explicit
  /\ AppendEvent(v, TRUE)
  /\ UNCHANGED <<lifecycle, procVars>>

Call(p) == \/ Preflight(p) \/ Admission(p) \/ IngestNew(p) \/ IngestReplay(p)
           \/ IngestRefused(p) \/ Return(p) \/ Resubmit(p)

WriterNext ==
  \/ \E p \in Producers : \/ \E v \in Inputs : Submit(p, v)
                          \/ Call(p)
                          \/ Fail(p)
  \/ \E j \in Projects, l \in Lifecycles : SetLifecycle(j, l)
  \/ \E v \in Inputs : RecordConflict(v)

WriterSpec == WriterInit /\ [][WriterNext]_vars

\* A call that runs keeps running and a failed one is repeated; nobody has to
\* submit, to fail or to change a lifecycle.
FairWriterSpec == WriterSpec /\ \A p \in Producers : WF_vars(Call(p))
-----------------------------------------------------------------------------
(* Properties.                                                             *)

\* The types of the calls, of their receipts and of the lifecycles.
WriterTypeOK ==
  /\ TypeOK
  /\ lifecycle \in [Projects -> Lifecycles]
  /\ pc \in [Producers -> Steps]
  /\ job \in [Producers -> Inputs \cup {NoReply}]
  /\ reply \in [Producers -> Receipt \cup {NoReply}]
  /\ receipts \subseteq Receipt
  /\ late \subseteq Producers
  /\ calls \in 0 .. MaxCalls /\ failures \in 0 .. MaxFailures

\* Whatever is retried, lost or replayed, every receipt a producer ever got
\* points at its own event, stored once, at the sequence number it says
\* (event-contract.md:25, "`accepted` confirms the event was recorded;
\* `sequence` is its ledger sequence"; events.py:380-436, writer.py:106-114).
ReceiptsPointAtEvents ==
  \A r \in receipts : Stored(r.event_id) = {r.sequence}

\* A call that began when its project was already terminal records nothing,
\* through any number of retries, although admission is checked outside the
\* ingesting transaction (writer.py:94-97): a terminal lifecycle never changes
\* back (registry.py:36).
NothingAfterTerminal ==
  [][\A p \in late : pc[p] = "ingest" => pc'[p] # "committed"]_vars

\* Where at most one conflict of the task was open before, the state in the
\* receipt of a new event is the ledger's own right after the commit, disputed
\* or the latest one stated, although it is put together from what was read
\* before the insertion (events.py:469-496).  With more than one it is not: the
\* others are forgotten when the oldest is settled.
ReceiptMatchesLedger ==
  [][\A p \in Producers :
       pc[p] = "ingest" /\ pc'[p] = "committed" =>
         LET t == job[p].task
         IN (\A c, d \in Open(t) : c = d) =>
              reply'[p].current_state = IF Open(t)' # {} THEN StateConflict ELSE StateOf(t)'
    ]_vars

\* A submitted event is never lost: through busy errors and deaths, its
\* producer repeating the call, it ends in the ledger unless it is refused on
\* its merits or its project is found not admitted (writer.py:86-114).
NoEventLost ==
  \A p \in Producers, v \in Inputs :
    pc[p] # "idle" /\ job[p] = v ~>
      \/ Stored(v.id) # {}
      \/ ~ CanAppend(v, FALSE)
      \/ lifecycle[Owner[v.task]] \notin Admitted

\* What event-contract.md:27-29 and architecture.md:67 say: replaying an
\* identical event returns the original receipt.
ReplayReturnsOriginal ==
  \A r, s \in receipts : r.event_id = s.event_id => r = s
=============================================================================
