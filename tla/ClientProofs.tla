---------------------------- MODULE ClientProofs ----------------------------
(***************************************************************************)
(* Proofs about the callers that submit events and about those that read   *)
(* them, for every ledger and every number of either.                      *)
(*                                                                         *)
(* The writer: receipts point at the events they are for, a project that   *)
(* was terminal when a call began takes nothing from it, a receipt says    *)
(* what the ledger says, and the ledger keeps its promise about tasks.     *)
(*                                                                         *)
(* The readers, in every order of their queries and of writes: what an     *)
(* answer about a task may hide, what a listing redacts, and what the      *)
(* review mark counts as reviewed.                                         *)
(***************************************************************************)
EXTENDS Writer, Reviews, LedgerProofs

-----------------------------------------------------------------------------
(***************************************************************************)
(* The writer.                                                             *)
(***************************************************************************)

\* A call that is under way has its event.
JobGiven == \A p \in Producers : pc[p] # "idle" => job[p] \in Inputs

PointsAtEvent(r) == Stored(r.event_id) = {r.sequence}

\* A receipt that is yet to be returned points at its event as well.
RepliesPoint ==
  \A p \in Producers : pc[p] = "committed" => reply[p] \in Receipt /\ PointsAtEvent(reply[p])

\* A call that began on a terminal project has not been admitted, and the
\* project is terminal still.
LateHeld ==
  \A p \in late : /\ pc[p] \in {"preflight", "admission", "failed"}
                  /\ lifecycle[Owner[job[p].task]] \in Terminal

\* The inductive invariant.
WriterInv ==
  /\ LedgerInv
  /\ WriterTypeOK
  /\ JobGiven
  /\ RepliesPoint
  /\ ReceiptsPointAtEvents
  /\ LateHeld
-----------------------------------------------------------------------------
(* What an event changes for receipts.                                     *)

\* An event that is stored once stays so, and a new one is stored once.
LEMMA StoredOnce ==
  ASSUME LedgerInv, NEW v \in Event, NEW explicit \in BOOLEAN, AppendEvent(v, explicit)
  PROVE  /\ \A r : PointsAtEvent(r) => PointsAtEvent(r)'
         /\ Stored(v.id)' = {Len(events) + 1}
         /\ Len(events) + 1 \in Nat
<1>1. PICK n \in Nat : n = Len(events) + 1
  BY DEF LedgerInv, TypeOK
<1>2. \A id : Stored(id)' = Stored(id) \cup {i \in {n} : v.id = id}
  BY <1>1, QueryFacts DEF LedgerInv, TypeOK, AppendEvent
<1>3. Stored(v.id) = {}
  BY DEF AppendEvent, CanAppend
<1>4. QED
  BY <1>1, <1>2, <1>3 DEF PointsAtEvent

\* A stored event is the only one of its id.
LEMMA StoredIsOne ==
  ASSUME LedgerInv, NEW id, Stored(id) # {}
  PROVE  LET k == CHOOSE i \in Stored(id) : TRUE IN k \in Nat /\ Stored(id) = {k}
<1> DEFINE k == CHOOSE i \in Stored(id) : TRUE
<1>1. k \in Stored(id) /\ Stored(id) \subseteq DOMAIN events
  BY DEF Stored
<1>2. \A i \in Stored(id) : i = k
  BY <1>1 DEF Stored, LedgerInv, UniqueIds
<1>3. DOMAIN events \subseteq Nat
  BY DEF LedgerInv, TypeOK
<1>4. QED
  BY <1>1, <1>2, <1>3

LEMMA StateIsOne ==
  ASSUME LedgerInv, NEW t \in Tasks
  PROVE  StateOf(t) \in States \cup {NoState}
<1>1. CASE StateOn(t) = {}
  BY <1>1, StateFacts DEF StateAgrees
<1>2. CASE StateOn(t) # {}
  <2>1. PICK i \in Latest(StateOn(t)) : StateOf(t) = events[i].new_state
    BY <1>2, StateFacts DEF StateAgrees
  <2>2. i \in DOMAIN events
    BY DEF Latest, StateOn, On
  <2>3. events[i] \in Event
    BY <2>2 DEF LedgerInv, TypeOK
  <2>4. QED
    BY <2>1, <2>3 DEF Event
<1>3. QED
  BY <1>1, <1>2

\* Where a task had one open conflict at most, it has one after an event exactly
\* if the event opens one, or there was one that the event does not settle.
LEMMA OpenAfterOne ==
  ASSUME LedgerInv, NEW v \in Event, AppendEvent(v, FALSE),
         \A c, d \in Open(v.task) : c = d
  PROVE  Open(v.task)' # {} <=>
           (Open(v.task) # {} /\ Settled(v) = {}) \/ Opened(v, FALSE) # {}
<1>1. PICK n \in Nat : n = Len(events) + 1
  BY DEF LedgerInv, TypeOK
<1>2. TypeOK
  BY DEF LedgerInv
<1>3. \A c \in Settled(v) : c \in Open(v.task) /\ Resolve(c, v.id).resolved_by # NoEvent
  BY <1>2, SettledFacts, LedgerAssumption DEF Event, Open
<1>4. ASSUME Open(v.task) # {}, Settled(v) = {} PROVE Open(v.task)' # {}
  BY <1>2, <1>4, ConflictFacts DEF Open
<1>5. ASSUME Opened(v, FALSE) # {} PROVE Open(v.task)' # {}
  BY <1>5, OpenStep
<1>6. ASSUME Open(v.task)' # {}, Opened(v, FALSE) = {}
      PROVE  Open(v.task) # {} /\ Settled(v) = {}
  <2>1. PICK d \in conflicts' : d.task = v.task /\ d.resolved_by = NoEvent
    BY <1>6 DEF Open
  <2>2. d \in conflicts /\ d \notin Settled(v)
    BY <1>2, <1>3, <1>6, <2>1, ConflictFacts
  <2>3. d \in Open(v.task)
    BY <2>1, <2>2 DEF Open
  <2>4. \A c \in Settled(v) : c = d
    BY <1>3, <2>3
  <2>5. QED
    BY <2>2, <2>3, <2>4
<1>7. QED
  BY <1>4, <1>5, <1>6
-----------------------------------------------------------------------------
(* The steps of a call.                                                    *)

\* A step that leaves the ledger, the lifecycles and the receipts alone.
LEMMA QuietInv ==
  ASSUME WriterInv, UNCHANGED <<ledgerVars, lifecycle, receipts>>,
         WriterTypeOK', JobGiven', LateHeld',
         \A p \in Producers : pc'[p] = "committed" =>
           pc[p] = "committed" /\ reply'[p] = reply[p]
  PROVE  WriterInv'
<1>1. LedgerInv' /\ events' = events
  BY StutterInv DEF WriterInv, ledgerVars
<1>2. \A id : Stored(id)' = Stored(id)
  BY <1>1 DEF Stored
<1>3. RepliesPoint' /\ ReceiptsPointAtEvents'
  BY <1>2 DEF WriterInv, RepliesPoint, ReceiptsPointAtEvents, PointsAtEvent
<1>4. QED
  BY <1>1, <1>3 DEF WriterInv

LEMMA InputFacts ==
  /\ Inputs \subseteq Event
  /\ \A v \in Inputs : v.id \in EventIds /\ v.task \in Tasks /\ Owner[v.task] \in Projects
BY LedgerAssumption DEF Event

LEMMA SubmitInv ==
  ASSUME WriterInv, NEW p \in Producers, NEW v \in Inputs, Submit(p, v)
  PROVE  WriterInv'
<1>1. /\ pc[p] = "idle" /\ calls < MaxCalls
      /\ pc' = [pc EXCEPT ![p] = "preflight"] /\ job' = [job EXCEPT ![p] = v]
      /\ late' = IF lifecycle[Owner[v.task]] \in Terminal THEN late \cup {p} ELSE late \ {p}
      /\ calls' = calls + 1
      /\ UNCHANGED <<events, conflicts, lifecycle, reply, receipts, failures>>
  BY DEF Submit, Goto, ledgerVars
<1>2. WriterTypeOK'
  BY <1>1, WriterAssumption DEF WriterInv, WriterTypeOK, TypeOK, Steps
<1>3. JobGiven'
  BY <1>1 DEF WriterInv, WriterTypeOK, JobGiven
<1>4. LateHeld'
  BY <1>1 DEF WriterInv, WriterTypeOK, LateHeld
<1>5. \A q \in Producers : pc'[q] = "committed" => pc[q] = "committed" /\ reply'[q] = reply[q]
  BY <1>1 DEF WriterInv, WriterTypeOK
<1>6. QED
  BY <1>1, <1>2, <1>3, <1>4, <1>5, QuietInv DEF ledgerVars

\* Preflight, the way on from admission, failing: the call goes on with its event.
LEMMA GoOnInv ==
  ASSUME WriterInv, NEW p \in Producers,
         \/ Preflight(p)
         \/ Fail(p)
         \/ Resubmit(p)
         \/ pc[p] = "admission" /\ IsAdmitted(job[p]) /\ Admission(p)
  PROVE  WriterInv'
<1>1. /\ UNCHANGED <<events, conflicts, lifecycle, job, receipts, calls>>
      /\ pc[p] # "idle"
      /\ \E s \in Steps \ {"idle", "committed"} : pc' = [pc EXCEPT ![p] = s]
      /\ reply' \in {reply, [reply EXCEPT ![p] = NoReply]}
      /\ reply' # reply => pc'[p] = "failed"
      /\ failures' \in 0 .. MaxFailures
  BY WriterAssumption
  DEF WriterInv, WriterTypeOK, Preflight, Fail, Resubmit, Admission, Goto, ledgerVars, Steps
<1>2. PICK s \in Steps \ {"idle", "committed"} : pc' = [pc EXCEPT ![p] = s]
  BY <1>1
<1>3. late' \subseteq Producers
  BY DEF WriterInv, WriterTypeOK, Preflight, Fail, Resubmit, Admission
<1>4. WriterTypeOK'
  BY <1>1, <1>2, <1>3 DEF WriterInv, WriterTypeOK, TypeOK, Steps
<1>5. JobGiven'
  BY <1>1, <1>2 DEF WriterInv, WriterTypeOK, JobGiven
<1>6. LateHeld'
  <2>1. CASE Resubmit(p)
    BY <1>1, <2>1 DEF Resubmit, Goto, WriterInv, WriterTypeOK, LateHeld
  <2>2. CASE Preflight(p)
    BY <1>1, <2>2 DEF Preflight, Goto, WriterInv, WriterTypeOK, LateHeld
  <2>3. CASE Fail(p)
    BY <1>1, <2>3 DEF Fail, Goto, WriterInv, WriterTypeOK, LateHeld
  <2>4. CASE pc[p] = "admission" /\ IsAdmitted(job[p]) /\ Admission(p)
    <3>1. p \notin late
      BY <2>4 DEF IsAdmitted, Admitted, Terminal, WriterInv, LateHeld
    <3>2. late' = late /\ \A q \in Producers \ {p} : pc'[q] = pc[q]
      BY <1>2, <2>4 DEF Admission, WriterInv, WriterTypeOK
    <3>3. QED
      BY <1>1, <3>1, <3>2 DEF WriterInv, WriterTypeOK, LateHeld
  <2>5. QED
    BY <2>1, <2>2, <2>3, <2>4
<1>7. \A q \in Producers : pc'[q] = "committed" => pc[q] = "committed" /\ reply'[q] = reply[q]
  BY <1>1, <1>2 DEF WriterInv, WriterTypeOK
<1>8. QED
  BY <1>1, <1>4, <1>5, <1>6, <1>7, QuietInv DEF ledgerVars

\* The call ends without a receipt.
LEMMA GiveUpInv ==
  ASSUME WriterInv, NEW p \in Producers, Done(p),
         UNCHANGED <<ledgerVars, lifecycle, reply, receipts, calls, failures>>
  PROVE  WriterInv'
<1>1. /\ pc' = [pc EXCEPT ![p] = "idle"] /\ job' = [job EXCEPT ![p] = NoReply]
      /\ late' = late \ {p}
  BY DEF Done, Goto
<1>2. events' = events /\ conflicts' = conflicts
  BY DEF ledgerVars
<1>3. WriterTypeOK'
  BY <1>1, <1>2 DEF WriterInv, WriterTypeOK, TypeOK, Steps
<1>4. JobGiven' /\ LateHeld'
  BY <1>1 DEF WriterInv, WriterTypeOK, JobGiven, LateHeld
<1>5. \A q \in Producers : pc'[q] = "committed" => pc[q] = "committed" /\ reply'[q] = reply[q]
  BY <1>1 DEF WriterInv, WriterTypeOK
<1>6. QED
  BY <1>3, <1>4, <1>5, QuietInv

\* The transaction commits, with a receipt r that points at the event.
LEMMA CommittedInv ==
  ASSUME WriterInv, NEW p \in Producers, pc[p] = "ingest", NEW r \in Receipt,
         Committed(p, r), PointsAtEvent(r)', LedgerInv',
         \A s : PointsAtEvent(s) => PointsAtEvent(s)'
  PROVE  WriterInv'
<1>1. /\ pc' = [pc EXCEPT ![p] = "committed"] /\ reply' = [reply EXCEPT ![p] = r]
      /\ UNCHANGED <<lifecycle, job, receipts, late, calls, failures>>
  BY DEF Committed, Goto
<1>2. WriterTypeOK'
  BY <1>1 DEF WriterInv, WriterTypeOK, LedgerInv, Steps
<1>3. JobGiven'
  BY <1>1 DEF WriterInv, WriterTypeOK, JobGiven
<1>4. LateHeld'
  BY <1>1 DEF WriterInv, WriterTypeOK, LateHeld
<1>5. RepliesPoint'
  BY <1>1 DEF WriterInv, WriterTypeOK, RepliesPoint
<1>6. ReceiptsPointAtEvents'
  BY <1>1 DEF WriterInv, ReceiptsPointAtEvents, PointsAtEvent
<1>7. QED
  BY <1>2, <1>3, <1>4, <1>5, <1>6 DEF WriterInv

LEMMA IngestNewInv ==
  ASSUME WriterInv, NEW p \in Producers, IngestNew(p)
  PROVE  WriterInv'
<1>1. pc[p] = "ingest" /\ AppendEvent(job[p], FALSE) /\ Committed(p, AppendReceipt(job[p]))
  BY DEF IngestNew
<1>2. PICK v \in Inputs : v = job[p]
  BY <1>1 DEF WriterInv, JobGiven
<1>3. v \in Event /\ v.id \in EventIds /\ v.task \in Tasks /\ AppendEvent(v, FALSE)
  BY <1>1, <1>2, InputFacts
<1>4. LedgerInv'
  BY <1>3, AppendAnyInv DEF WriterInv
<1>5. /\ \A s : PointsAtEvent(s) => PointsAtEvent(s)'
      /\ Stored(v.id)' = {Len(events) + 1} /\ Len(events) + 1 \in Nat
  <2>1. LedgerInv /\ FALSE \in BOOLEAN
    BY DEF WriterInv
  <2>2. QED
    BY <1>3, <2>1, StoredOnce
<1>6. AppendReceipt(v) \in Receipt /\ AppendReceipt(v).event_id = v.id
      /\ AppendReceipt(v).sequence = Len(events) + 1
  <2>1. v.new_state \in States \cup {NoState} /\ StateOf(v.task) \in States \cup {NoState}
    BY <1>3, StateIsOne DEF Event, WriterInv
  <2>2. \A d : ReceiptState(v, d) \in States \cup {NoState, StateConflict}
    BY <2>1 DEF ReceiptState
  <2>3. QED
    BY <1>3, <1>5, <2>2 DEF AppendReceipt, ReceiptOf, Receipt
<1>7. PICK r \in Receipt : r = AppendReceipt(v)
  BY <1>6
<1>8. PointsAtEvent(r)'
  BY <1>5, <1>6, <1>7 DEF PointsAtEvent
<1>9. Committed(p, r)
  BY <1>1, <1>2, <1>7
<1>10. QED
  BY <1>1, <1>4, <1>5, <1>8, <1>9, CommittedInv

LEMMA IngestReplayInv ==
  ASSUME WriterInv, NEW p \in Producers, IngestReplay(p)
  PROVE  WriterInv'
<1>1. pc[p] = "ingest" /\ Replay(job[p], FALSE) /\ Committed(p, ReplayReceipt(job[p]))
  BY DEF IngestReplay
<1>2. PICK v \in Inputs : v = job[p]
  BY <1>1 DEF WriterInv, JobGiven
<1>3. v.id \in EventIds /\ v.task \in Tasks
  BY InputFacts
<1>4. LedgerInv' /\ events' = events /\ Stored(v.id) # {}
  BY <1>1, <1>2, StutterInv DEF WriterInv, Replay, CanReplay, ledgerVars
<1>5. \A id : Stored(id)' = Stored(id)
  BY <1>4 DEF Stored
<1>6. ReplayReceipt(v) \in Receipt
      /\ Stored(ReplayReceipt(v).event_id) = {ReplayReceipt(v).sequence}
  <2>1. StateOf(v.task) \in States \cup {NoState}
    BY <1>3, StateIsOne DEF WriterInv
  <2>2. LET k == CHOOSE i \in Stored(v.id) : TRUE IN k \in Nat /\ Stored(v.id) = {k}
    BY <1>4, StoredIsOne DEF WriterInv
  <2>3. QED
    BY <1>3, <2>1, <2>2 DEF ReplayReceipt, Receipt
<1>7. PICK r \in Receipt : r = ReplayReceipt(v)
  BY <1>6
<1>8. PointsAtEvent(r)' /\ Committed(p, r)
  BY <1>1, <1>2, <1>5, <1>6, <1>7 DEF PointsAtEvent
<1>9. \A s : PointsAtEvent(s) => PointsAtEvent(s)'
  BY <1>5 DEF PointsAtEvent
<1>10. QED
  BY <1>1, <1>4, <1>8, <1>9, CommittedInv

LEMMA ReturnInv ==
  ASSUME WriterInv, NEW p \in Producers, Return(p)
  PROVE  WriterInv'
<1>1. /\ pc[p] = "committed"
      /\ pc' = [pc EXCEPT ![p] = "idle"] /\ job' = [job EXCEPT ![p] = NoReply]
      /\ late' = late \ {p} /\ receipts' = receipts \cup {reply[p]}
      /\ reply' = [reply EXCEPT ![p] = NoReply]
      /\ UNCHANGED <<events, conflicts, lifecycle, calls, failures>>
  BY DEF Return, Done, Goto, ledgerVars
<1>2. reply[p] \in Receipt /\ PointsAtEvent(reply[p])
  BY <1>1 DEF WriterInv, RepliesPoint
<1>3. WriterTypeOK'
  BY <1>1, <1>2 DEF WriterInv, WriterTypeOK, TypeOK, Steps
<1>4. JobGiven' /\ LateHeld'
  BY <1>1 DEF WriterInv, WriterTypeOK, JobGiven, LateHeld
<1>5. \A id : Stored(id)' = Stored(id)
  BY <1>1 DEF Stored
<1>6. RepliesPoint'
  BY <1>1, <1>5 DEF WriterInv, WriterTypeOK, RepliesPoint, PointsAtEvent
<1>7. ReceiptsPointAtEvents'
  BY <1>1, <1>2, <1>5 DEF WriterInv, ReceiptsPointAtEvents, PointsAtEvent
<1>8. LedgerInv'
  BY <1>1, StutterInv DEF WriterInv, ledgerVars
<1>9. QED
  BY <1>3, <1>4, <1>6, <1>7, <1>8 DEF WriterInv

\* Lifecycles change, but no terminal one does.
LEMMA SetLifecycleInv ==
  ASSUME WriterInv, NEW j \in Projects, NEW l \in Lifecycles, SetLifecycle(j, l)
  PROVE  WriterInv'
<1>1. /\ lifecycle[j] \notin Terminal \/ l = lifecycle[j]
      /\ lifecycle' = [lifecycle EXCEPT ![j] = l]
      /\ UNCHANGED <<events, conflicts, pc, job, reply, receipts, late, calls, failures>>
  BY DEF SetLifecycle, ledgerVars, procVars
<1>2. WriterTypeOK'
  BY <1>1 DEF WriterInv, WriterTypeOK, TypeOK
<1>3. \A q \in Projects : lifecycle[q] \in Terminal => lifecycle'[q] = lifecycle[q]
  BY <1>1 DEF WriterInv, WriterTypeOK
<1>4. LateHeld'
  <2>1. \A p \in late : p \in Producers /\ job[p] \in Inputs
    BY DEF WriterInv, WriterTypeOK, LateHeld, JobGiven
  <2>2. QED
    BY <1>1, <1>3, <2>1, InputFacts DEF WriterInv, LateHeld
<1>5. JobGiven' /\ RepliesPoint' /\ ReceiptsPointAtEvents'
  BY <1>1 DEF WriterInv, JobGiven, RepliesPoint, ReceiptsPointAtEvents, PointsAtEvent, Stored
<1>6. LedgerInv'
  BY <1>1, StutterInv DEF WriterInv, ledgerVars
<1>7. QED
  BY <1>2, <1>4, <1>5, <1>6 DEF WriterInv

LEMMA RecordConflictInv ==
  ASSUME WriterInv, NEW v \in Inputs, RecordConflict(v)
  PROVE  WriterInv'
<1>1. /\ TRUE \in Explicit /\ AppendEvent(v, TRUE)
      /\ UNCHANGED <<lifecycle, pc, job, reply, receipts, late, calls, failures>>
  BY DEF RecordConflict, procVars
<1>2. v \in Event
  BY InputFacts
<1>3. LedgerInv'
  BY <1>1, <1>2, AppendAnyInv DEF WriterInv
<1>4. \A r : PointsAtEvent(r) => PointsAtEvent(r)'
  BY <1>1, <1>2, StoredOnce DEF WriterInv
<1>5. WriterTypeOK' /\ JobGiven' /\ LateHeld'
  BY <1>1, <1>3 DEF WriterInv, WriterTypeOK, LedgerInv, JobGiven, LateHeld
<1>6. RepliesPoint' /\ ReceiptsPointAtEvents'
  BY <1>1, <1>4 DEF WriterInv, RepliesPoint, ReceiptsPointAtEvents, PointsAtEvent
<1>7. QED
  BY <1>3, <1>5, <1>6 DEF WriterInv
-----------------------------------------------------------------------------
(* The theorems.                                                           *)

LEMMA WriterInitInv == WriterInit => WriterInv
<1> SUFFICES ASSUME WriterInit PROVE WriterInv
  OBVIOUS
<1>1. LedgerInv
  BY InitInv DEF WriterInit
<1>2. WriterTypeOK
  BY <1>1, WriterAssumption DEF WriterInit, WriterTypeOK, LedgerInv, Steps
<1>3. QED
  BY <1>1, <1>2
  DEF WriterInit, WriterInv, JobGiven, RepliesPoint, ReceiptsPointAtEvents, LateHeld

LEMMA WriterNextInv == WriterInv /\ [WriterNext]_vars => WriterInv'
<1> SUFFICES ASSUME WriterInv, [WriterNext]_vars PROVE WriterInv'
  OBVIOUS
<1>1. ASSUME NEW p \in Producers, Call(p) PROVE WriterInv'
  <2>1. CASE Preflight(p) \/ Resubmit(p)
    BY <2>1, GoOnInv
  <2>2. CASE Admission(p)
    <3>1. CASE IsAdmitted(job[p])
      BY <2>2, <3>1, GoOnInv DEF Admission
    <3>2. CASE ~ IsAdmitted(job[p])
      BY <2>2, <3>2, GiveUpInv DEF Admission
    <3>3. QED
      BY <3>1, <3>2
  <2>3. CASE IngestRefused(p)
    BY <2>3, GiveUpInv DEF IngestRefused, Refuse
  <2>4. CASE IngestNew(p) \/ IngestReplay(p) \/ Return(p)
    BY <2>4, IngestNewInv, IngestReplayInv, ReturnInv
  <2>5. QED
    BY <1>1, <2>1, <2>2, <2>3, <2>4 DEF Call
<1>2. ASSUME NEW p \in Producers, Fail(p) \/ \E v \in Inputs : Submit(p, v) PROVE WriterInv'
  BY <1>2, GoOnInv, SubmitInv
<1>3. CASE \E j \in Projects, l \in Lifecycles : SetLifecycle(j, l)
  BY <1>3, SetLifecycleInv
<1>4. CASE \E v \in Inputs : RecordConflict(v)
  BY <1>4, RecordConflictInv
<1>5. CASE UNCHANGED vars
  <2>1. UNCHANGED <<events, conflicts, lifecycle, pc, job, reply, receipts, late, calls,
                    failures>>
    BY <1>5 DEF vars
  <2>2. WriterTypeOK' /\ JobGiven' /\ LateHeld'
    BY <2>1 DEF WriterInv, WriterTypeOK, TypeOK, JobGiven, LateHeld
  <2>3. QED
    BY <2>1, <2>2, QuietInv DEF ledgerVars
<1>6. QED
  BY <1>1, <1>2, <1>3, <1>4, <1>5 DEF WriterNext

\* The invariant holds through any calls, retries, failures and changes of
\* lifecycles (writer.py:86-114).
THEOREM WriterCorrect == WriterSpec => []WriterInv
BY WriterInitInv, WriterNextInv, PTL DEF WriterSpec

\* The types of calls and receipts (writer.py:86-114).
THEOREM WriterTypes == WriterSpec => []WriterTypeOK
<1>1. WriterInv => WriterTypeOK
  BY DEF WriterInv
<1>2. QED
  BY WriterCorrect, <1>1, PTL

\* Every receipt a producer ever got points at its own event, stored once
\* (event-contract.md:25, writer.py:106-114).
THEOREM ReceiptsPoint == WriterSpec => []ReceiptsPointAtEvents
<1>1. WriterInv => ReceiptsPointAtEvents
  BY DEF WriterInv
<1>2. QED
  BY WriterCorrect, <1>1, PTL

\* A call that began on a terminal project records nothing, because it is never
\* admitted afterwards (writer.py:94-97, registry.py:36).
THEOREM TerminalTakesNothing == WriterSpec => NothingAfterTerminal
<1>1. WriterInv /\ [WriterNext]_vars =>
        [\A p \in late : pc[p] = "ingest" => pc'[p] # "committed"]_vars
  BY DEF WriterInv, LateHeld
<1>2. QED
  BY WriterCorrect, <1>1, PTL DEF WriterSpec, NothingAfterTerminal

\* What a receipt says of its task after the step.
ReceiptAgrees(p) ==
  pc[p] = "ingest" /\ pc'[p] = "committed" =>
    LET t == job[p].task
    IN (\A c, d \in Open(t) : c = d) =>
         reply'[p].current_state = IF Open(t)' # {} THEN StateConflict ELSE StateOf(t)'

LEMMA NewReceiptAgrees ==
  ASSUME WriterInv, WriterInv', NEW p \in Producers, IngestNew(p)
  PROVE  ReceiptAgrees(p)
<1>1. AppendEvent(job[p], FALSE) /\ Committed(p, AppendReceipt(job[p])) /\ pc[p] = "ingest"
  BY DEF IngestNew
<1>2. PICK v \in Inputs : v = job[p]
  BY <1>1 DEF WriterInv, JobGiven
<1>3. v \in Event /\ v.task \in Tasks /\ AppendEvent(v, FALSE) /\ FALSE \in BOOLEAN
  BY <1>1, <1>2, InputFacts
<1>4. LedgerInv /\ LedgerInv'
  BY DEF WriterInv
<1>5. reply'[p].current_state =
        IF (Open(v.task) # {} /\ Settled(v) = {}) \/ Opened(v, FALSE) # {} THEN StateConflict
        ELSE IF v.new_state # NoState THEN v.new_state ELSE StateOf(v.task)
  BY <1>1, <1>2 DEF Committed, WriterInv, WriterTypeOK, AppendReceipt, ReceiptOf, ReceiptState
<1>6. StateOf(v.task)' = IF v.new_state # NoState THEN v.new_state ELSE StateOf(v.task)
  BY <1>3, <1>4, StateStep
<1>7. (\A c, d \in Open(v.task) : c = d) =>
        (Open(v.task)' # {} <=>
           (Open(v.task) # {} /\ Settled(v) = {}) \/ Opened(v, FALSE) # {})
  BY <1>3, <1>4, OpenAfterOne
<1>8. job'[p] = v /\ job[p] = v
  BY <1>1, <1>2 DEF Committed
<1>9. QED
  BY <1>5, <1>6, <1>7, <1>8 DEF ReceiptAgrees

LEMMA ReplayedReceiptAgrees ==
  ASSUME WriterInv, NEW p \in Producers, IngestReplay(p)
  PROVE  ReceiptAgrees(p)
<1>1. /\ pc[p] = "ingest" /\ Committed(p, ReplayReceipt(job[p]))
      /\ UNCHANGED <<events, conflicts>>
  BY DEF IngestReplay, Replay, ledgerVars
<1>2. PICK v \in Inputs : v = job[p]
  BY <1>1 DEF WriterInv, JobGiven
<1>3. reply'[p].current_state = IF Open(v.task) # {} THEN StateConflict ELSE StateOf(v.task)
  BY <1>1, <1>2 DEF Committed, WriterInv, WriterTypeOK, ReplayReceipt
<1>4. Open(v.task)' = Open(v.task) /\ StateOf(v.task)' = StateOf(v.task)
  BY <1>1 DEF Open, StateOf, StateOn, On, Latest
<1>5. job'[p] = v /\ job[p] = v
  BY <1>1, <1>2 DEF Committed
<1>6. QED
  BY <1>3, <1>4, <1>5 DEF ReceiptAgrees

\* Where at most one conflict was open, the state in a receipt is the ledger's
\* own right after the commit (events.py:469-496).
THEOREM ReceiptsAgree == WriterSpec => ReceiptMatchesLedger
<1>1. ASSUME WriterInv, WriterInv', [WriterNext]_vars, NEW p \in Producers
      PROVE  ReceiptAgrees(p)
  <2>1. CASE IngestNew(p) \/ IngestReplay(p)
    BY <1>1, <2>1, NewReceiptAgrees, ReplayedReceiptAgrees
  <2>2. CASE ~ (IngestNew(p) \/ IngestReplay(p))
    <3>1. ~ (pc[p] = "ingest" /\ pc'[p] = "committed")
      BY <1>1, <2>2
      DEF WriterNext, Call, Submit, Preflight, Admission, IngestNew, IngestReplay,
          IngestRefused, Return, Resubmit, Fail, Done, Goto, Committed, SetLifecycle,
          RecordConflict, procVars, vars, WriterInv, WriterTypeOK
    <3>2. QED
      BY <3>1 DEF ReceiptAgrees
  <2>3. QED
    BY <2>1, <2>2
<1>2. WriterInv /\ WriterInv' /\ [WriterNext]_vars =>
        [\A p \in Producers :
           pc[p] = "ingest" /\ pc'[p] = "committed" =>
             LET t == job[p].task
             IN (\A c, d \in Open(t) : c = d) =>
                  reply'[p].current_state = IF Open(t)' # {} THEN StateConflict ELSE StateOf(t)'
        ]_vars
  BY <1>1 DEF ReceiptAgrees
<1>3. QED
  BY WriterCorrect, <1>2, PTL DEF WriterSpec, ReceiptMatchesLedger

\* All a writer does to the ledger is to append one of the events submitted.
LEMMA WriterWrote == WriterInv /\ [WriterNext]_vars => [WroteInput]_ledgerVars
<1> SUFFICES ASSUME WriterInv, [WriterNext]_vars PROVE [WroteInput]_ledgerVars
  OBVIOUS
<1>1. ASSUME NEW p \in Producers, IngestNew(p) PROVE WroteInput
  BY <1>1 DEF IngestNew, WroteInput, WriterInv, JobGiven
<1>2. ASSUME NEW v \in Inputs, RecordConflict(v) PROVE WroteInput
  BY <1>2 DEF RecordConflict, WroteInput
<1>3. QED
  BY <1>1, <1>2 DEF WriterNext, Call, Submit, Preflight, Admission, IngestReplay, IngestRefused,
                    Return, Resubmit, Fail, Done, SetLifecycle, Replay, Refuse, vars, ledgerVars

\* Retries, deaths and replays of submissions lose no history and rewrite none
\* (writer.py:86-114, events.py:364-368).
THEOREM WriterKeepsHistory == WriterSpec => HistoryKept
<1>1. WriterInv => LedgerInv
  BY DEF WriterInv
<1>2. LedgerInv /\ [WroteInput]_ledgerVars => [Kept]_ledgerVars
  BY WroteKeeps, LedgerAssumption DEF Wrote, WroteInput
<1>3. QED
  BY <1>1, <1>2, WriterWrote, WriterCorrect, PTL DEF WriterSpec, HistoryKept, Kept

\* The writer implements TaskStates as the ledger does: whatever calls overlap,
\* fail and are repeated, a task's state and its disputes change only as that
\* specification allows (writer.py:86-114, events.py:445-482).
THEOREM WriterKeepsPromise == WriterSpec => TaskStatesKept
<1>1. WriterInit => Promised!Init
  BY InitPromised DEF WriterInit
<1>2. WriterInv => LedgerInv
  BY DEF WriterInv
<1>3. LedgerInv /\ LedgerInv' /\ [WroteInput]_ledgerVars
        => [Promised!Next]_(Promised!taskVars)
  BY WroteInputPromised
<1>4. QED
  BY <1>1, <1>2, <1>3, WriterWrote, WriterCorrect, PTL
  DEF WriterSpec, TaskStatesKept, Promised!Spec
-----------------------------------------------------------------------------
(***************************************************************************)
(* The readers.                                                            *)
(***************************************************************************)

\* A task with a confirmed state has a latest one.
ConfirmedLatest == \A t \in Tasks : Confirmed(t) # {} => Latest(Confirmed(t)) # {}

\* During a call the task's present state is one of those it had, and what the
\* first query found is too, unless there was or is a dispute.
CallsFollowed ==
  \A r \in Readers, t \in Tasks : asked[r] = t =>
    /\ TaskState(t) \in truth[r]
    /\ rows[r] \in truth[r] \/ settled[r] \/ Open(t) # {}

\* The readers' invariant.
ReadersInv ==
  /\ LedgerInv
  /\ ConfirmedLatest
  /\ ReaderTypeOK
  /\ CallsFollowed
  /\ HiddenOnlyBySettlement

\* A listing since the last review leaves out nothing between the mark and what
\* it shows; what is complete was seen.
ListingsWhole ==
  \A r \in Readers :
    /\ query[r] = NoQuery => list[r] \subseteq seen
    /\ query[r] # NoQuery /\ query[r].read = "baseline" =>
         /\ list[r] = {}
         /\ full[r] => query[r].base <= reviewed /\ query[r].scope = Projects
    /\ full[r] => \A j \in list[r] : \A i \in 1 .. j : reviewed < i => i \in list[r]

\* The inductive invariant.
ReviewsInv ==
  /\ ReadersInv
  /\ ReviewsTypeOK
  /\ ListingsWhole
  /\ DisputesRedacted
  /\ ReviewedWasShown
-----------------------------------------------------------------------------
(* The state of a task, before and after an event.                         *)

LEMMA ConfirmedType ==
  ASSUME LedgerInv, ConfirmedLatest, NEW t \in Tasks
  PROVE  /\ ConfirmedState(t) \in States \cup {NoState}
         /\ TaskState(t) \in Answers
<1>1. ConfirmedState(t) \in States \cup {NoState}
  <2>1. CASE Confirmed(t) = {}
    BY <2>1 DEF ConfirmedState
  <2>2. CASE Confirmed(t) # {}
    <3> DEFINE i == CHOOSE i \in Latest(Confirmed(t)) : TRUE
    <3>1. i \in Latest(Confirmed(t))
      BY <2>2 DEF ConfirmedLatest
    <3>2. i \in DOMAIN events
      BY <3>1 DEF Latest, Confirmed, StateOn, On
    <3>3. events[i] \in Event
      BY <3>2 DEF LedgerInv, TypeOK
    <3>4. ConfirmedState(t) = events[i].new_state
      BY <2>2 DEF ConfirmedState
    <3>5. QED
      BY <3>3, <3>4 DEF Event
  <2>3. QED
    BY <2>1, <2>2
<1>2. QED
  BY <1>1 DEF TaskState, Answers

LEMMA TaskStateType ==
  LedgerInv /\ ConfirmedLatest => \A t \in Tasks : TaskState(t) \in Answers
BY ConfirmedType

\* The confirmed rows gain the new one at most.
LEMMA ConfirmedStep ==
  ASSUME LedgerInv, NEW v \in Event, NEW explicit \in BOOLEAN, AppendEvent(v, explicit),
         NEW n \in Nat, n = Len(events) + 1
  PROVE  /\ \A t : \A i \in Confirmed(t) : i \in Nat /\ i < n /\ events'[i] = events[i]
         /\ \A t : Confirmed(t)' =
              Confirmed(t) \cup {i \in {n} : /\ v.task = t /\ v.new_state # NoState
                                             /\ v.evidence = "available"}
<1>1. events \in Seq(Event) /\ events' = Append(events, v)
  BY DEF LedgerInv, TypeOK, AppendEvent
<1>2. /\ \A i \in DOMAIN events : events'[i] = events[i] /\ i < n /\ i \in Nat
      /\ events'[n] = v
  BY <1>1, AppendFacts
<1>3. \A t : StateOn(t)' = StateOn(t) \cup {i \in {n} : v.task = t /\ v.new_state # NoState}
  BY <1>1, QueryFacts
<1>4. \A t : StateOn(t) \subseteq DOMAIN events
  BY DEF StateOn, On
<1>5. \A t : \A i \in Confirmed(t) : i \in Nat /\ i < n /\ events'[i] = events[i]
  BY <1>2, <1>4 DEF Confirmed
<1>6. ASSUME NEW t
      PROVE  Confirmed(t)' =
               Confirmed(t) \cup {i \in {n} : /\ v.task = t /\ v.new_state # NoState
                                             /\ v.evidence = "available"}
  <2>1. \A i \in StateOn(t) : events'[i] = events[i]
    BY <1>2, <1>4
  <2>2. StateOn(t)' = StateOn(t) \cup {i \in {n} : v.task = t /\ v.new_state # NoState}
    BY <1>3
  <2>3. QED
    BY <1>2, <2>1, <2>2 DEF Confirmed
<1>7. QED
  BY <1>5, <1>6

LEMMA ConfirmedLatestKept ==
  ASSUME LedgerInv, ConfirmedLatest, NEW v \in Event, NEW explicit \in BOOLEAN,
         AppendEvent(v, explicit)
  PROVE  ConfirmedLatest'
<1>1. PICK n \in Nat : n = Len(events) + 1
  BY DEF LedgerInv, TypeOK
<1>2. /\ \A t : \A i \in Confirmed(t) : i \in Nat /\ i < n
      /\ \A t : Confirmed(t)' = Confirmed(t) \/ Confirmed(t)' = Confirmed(t) \cup {n}
  <2>1. \A t : \A i \in Confirmed(t) : i \in Nat /\ i < n
    BY <1>1, ConfirmedStep
  <2>2. ASSUME NEW t
        PROVE  Confirmed(t)' = Confirmed(t) \/ Confirmed(t)' = Confirmed(t) \cup {n}
    <3>1. Confirmed(t)' =
            Confirmed(t) \cup {i \in {n} : /\ v.task = t /\ v.new_state # NoState
                                          /\ v.evidence = "available"}
      BY <1>1, ConfirmedStep
    <3>2. QED
      BY <3>1
  <2>3. QED
    BY <2>1, <2>2
<1>3. ASSUME NEW t \in Tasks, Confirmed(t)' # {}
      PROVE  Latest(Confirmed(t)') # {}
  <2>1. CASE Confirmed(t)' = Confirmed(t)
    BY <1>3, <2>1 DEF ConfirmedLatest
  <2>2. CASE Confirmed(t)' = Confirmed(t) \cup {n}
    <3>1. n \in Latest(Confirmed(t)')
      BY <1>2, <2>2 DEF Latest
    <3>2. QED
      BY <3>1
  <2>3. QED
    BY <1>2, <2>1, <2>2
<1>4. QED
  BY <1>3 DEF ConfirmedLatest, Latest

\* An event changes the state of its own task only.
LEMMA OtherTask ==
  ASSUME LedgerInv, ConfirmedLatest, NEW v \in Event, NEW explicit \in BOOLEAN,
         AppendEvent(v, explicit), NEW t \in Tasks, t # v.task
  PROVE  TaskState(t)' = TaskState(t) /\ (Open(t)' # {} <=> Open(t) # {})
<1>1. PICK n \in Nat : n = Len(events) + 1
  BY DEF LedgerInv, TypeOK
<1>2. /\ \A i \in Confirmed(t) : events'[i] = events[i]
      /\ Confirmed(t)' = Confirmed(t)
  <2>1. Confirmed(t)' =
          Confirmed(t) \cup {i \in {n} : /\ v.task = t /\ v.new_state # NoState
                                        /\ v.evidence = "available"}
    BY <1>1, ConfirmedStep
  <2>2. \A i \in Confirmed(t) : events'[i] = events[i]
    BY <1>1, ConfirmedStep
  <2>3. QED
    BY <2>1, <2>2
<1>3. ConfirmedState(t)' = ConfirmedState(t)
  <2>1. CASE Confirmed(t) = {}
    BY <1>2, <2>1 DEF ConfirmedState
  <2>2. CASE Confirmed(t) # {}
    <3> DEFINE i == CHOOSE i \in Latest(Confirmed(t)) : TRUE
    <3>1. i \in Confirmed(t)
      BY <2>2 DEF ConfirmedLatest, Latest
    <3>2. ConfirmedState(t) = events[i].new_state
      BY <2>2 DEF ConfirmedState
    <3>3. ConfirmedState(t)' = events'[i].new_state
      BY <1>2, <2>2 DEF ConfirmedState, Latest
    <3>4. QED
      BY <1>2, <3>1, <3>2, <3>3
  <2>3. QED
    BY <2>1, <2>2
<1>4. Open(t)' # {} <=> Open(t) # {}
  BY OpenStep
<1>5. QED
  BY <1>3, <1>4 DEF TaskState

\* A dispute that ends was settled by the event.
LEMMA DisputeEnds ==
  ASSUME LedgerInv, NEW v \in Event, NEW explicit \in BOOLEAN, AppendEvent(v, explicit),
         NEW t \in Tasks, Open(t) # {}, Open(t)' = {}
  PROVE  t = v.task /\ Settled(v) # {}
<1>1. t = v.task
  BY OpenStep
<1>2. \A c \in conflicts : c \notin Settled(v) => c \in conflicts'
  BY ConflictFacts DEF LedgerInv
<1>3. QED
  BY <1>1, <1>2 DEF Open
-----------------------------------------------------------------------------
(* The readers.                                                            *)

\* The ledger's part of a step that leaves it alone.
LEMMA SameLedger ==
  ASSUME ReadersInv, UNCHANGED ledgerVars
  PROVE  /\ LedgerInv' /\ ConfirmedLatest'
         /\ \A t \in Tasks : /\ TaskState(t)' = TaskState(t)
                             /\ ConfirmedState(t)' = ConfirmedState(t)
                             /\ Open(t)' = Open(t)
<1>1. events' = events /\ conflicts' = conflicts
  BY DEF ledgerVars
<1>2. LedgerInv'
  BY StutterInv DEF ReadersInv
<1>3. \A t \in Tasks : Confirmed(t)' = Confirmed(t) /\ Open(t)' = Open(t)
  BY <1>1 DEF Confirmed, StateOn, On, Open
<1>4. ASSUME NEW t \in Tasks PROVE ConfirmedState(t)' = ConfirmedState(t)
  <2>1. Confirmed(t)' = Confirmed(t)
    BY <1>3
  <2>2. QED
    BY <1>1, <2>1 DEF ConfirmedState, Latest
<1>5. ConfirmedLatest'
  BY <1>3 DEF ReadersInv, ConfirmedLatest, Latest
<1>6. QED
  BY <1>2, <1>3, <1>4, <1>5 DEF TaskState

LEMMA ReadEventsInv ==
  ASSUME ReadersInv, NEW r \in Readers, NEW t \in Tasks, ReadEvents(r, t)
  PROVE  ReadersInv'
<1>1. UNCHANGED ledgerVars
  BY DEF ReadEvents, ledgerVars
<1>2. /\ LedgerInv' /\ ConfirmedLatest'
      /\ \A z \in Tasks : TaskState(z)' = TaskState(z) /\ Open(z)' = Open(z)
  BY <1>1, SameLedger
<1>3. ConfirmedState(t) \in States \cup {NoState} /\ TaskState(t) \in Answers
  BY ConfirmedType DEF ReadersInv
<1>4. /\ asked' = [asked EXCEPT ![r] = t] /\ rows' = [rows EXCEPT ![r] = ConfirmedState(t)]
      /\ truth' = [truth EXCEPT ![r] = {TaskState(t)}]
      /\ settled' = [settled EXCEPT ![r] = FALSE] /\ answer' = answer
      /\ t # NoTask
  BY ReaderAssumption DEF ReadEvents
<1>5. ReaderTypeOK'
  BY <1>2, <1>3, <1>4 DEF ReadersInv, ReaderTypeOK, LedgerInv
<1>6. ASSUME NEW z \in Readers, NEW y \in Tasks, asked'[z] = y
      PROVE  /\ TaskState(y)' \in truth'[z]
             /\ rows'[z] \in truth'[z] \/ settled'[z] \/ Open(y)' # {}
  <2>1. CASE z = r
    <3>1. y = t /\ truth'[z] = {TaskState(t)} /\ rows'[z] = ConfirmedState(t)
      BY <1>4, <1>6, <2>1 DEF ReadersInv, ReaderTypeOK
    <3>2. Open(t) # {} \/ TaskState(t) = ConfirmedState(t)
      BY DEF TaskState
    <3>3. TaskState(y)' = TaskState(t) /\ Open(y)' = Open(t)
      BY <1>2, <3>1
    <3>4. QED
      BY <3>1, <3>2, <3>3
  <2>2. CASE z # r
    <3>1. /\ asked[z] = y /\ truth'[z] = truth[z] /\ rows'[z] = rows[z]
          /\ settled'[z] = settled[z]
      BY <1>4, <1>6, <2>2 DEF ReadersInv, ReaderTypeOK
    <3>2. TaskState(y)' = TaskState(y) /\ Open(y)' = Open(y)
      BY <1>2
    <3>3. QED
      BY <3>1, <3>2 DEF ReadersInv, CallsFollowed
  <2>3. QED
    BY <2>1, <2>2
<1>7. CallsFollowed'
  BY <1>6 DEF CallsFollowed
<1>8. HiddenOnlyBySettlement'
  BY <1>4 DEF ReadersInv, ReaderTypeOK, HiddenOnlyBySettlement, Answered
<1>9. QED
  BY <1>2, <1>5, <1>7, <1>8 DEF ReadersInv

LEMMA ReadConflictInv ==
  ASSUME ReadersInv, NEW r \in Readers, ReadConflict(r)
  PROVE  ReadersInv'
<1> DEFINE t == asked[r]
<1>1. UNCHANGED ledgerVars
  BY DEF ReadConflict, ledgerVars
<1>2. /\ LedgerInv' /\ ConfirmedLatest'
      /\ \A z \in Tasks : TaskState(z)' = TaskState(z) /\ Open(z)' = Open(z)
  BY <1>1, SameLedger
<1>3. /\ asked' = [asked EXCEPT ![r] = NoTask]
      /\ answer' = [answer EXCEPT ![r] = Answer(t, rows[r])]
      /\ UNCHANGED <<rows, truth, settled>> /\ t # NoTask
  BY DEF ReadConflict
<1>4. t \in Tasks /\ rows[r] \in States \cup {NoState}
  BY <1>3 DEF ReadersInv, ReaderTypeOK
<1>5. Answer(t, rows[r]) \in Answers
  BY <1>4 DEF Answer, Answers
<1>6. Answer(t, rows[r]) \in truth[r] \/ settled[r]
  <2>1. /\ TaskState(t) \in truth[r]
        /\ rows[r] \in truth[r] \/ settled[r] \/ Open(t) # {}
    <3>1. t \in Tasks /\ asked[r] = t
      BY <1>4
    <3>2. QED
      BY <3>1 DEF ReadersInv, CallsFollowed
  <2>2. Open(t) # {} => TaskState(t) = StateConflict /\ Answer(t, rows[r]) = StateConflict
    BY DEF TaskState, Answer
  <2>3. Open(t) = {} => Answer(t, rows[r]) = rows[r]
    BY DEF Answer
  <2>4. QED
    BY <2>1, <2>2, <2>3
<1> HIDE DEF t
<1>7. ReaderTypeOK'
  BY <1>2, <1>3, <1>5 DEF ReadersInv, ReaderTypeOK, LedgerInv
<1>8. ASSUME NEW z \in Readers
      PROVE  /\ asked'[z] # NoTask => z # r /\ asked'[z] = asked[z] /\ asked[z] \in Tasks
             /\ asked'[z] = NoTask => answer'[z] \in truth[z] \/ settled[z]
  BY <1>3, <1>6 DEF ReadersInv, ReaderTypeOK, HiddenOnlyBySettlement, Answered
<1>9. ASSUME NEW z \in Readers, NEW y \in Tasks, asked'[z] = y
      PROVE  /\ TaskState(y)' \in truth'[z]
             /\ rows'[z] \in truth'[z] \/ settled'[z] \/ Open(y)' # {}
  <2>1. asked[z] = y
    BY <1>8, <1>9, ReaderAssumption
  <2>2. TaskState(y)' = TaskState(y) /\ Open(y)' = Open(y)
    BY <1>2
  <2>3. QED
    BY <1>3, <2>1, <2>2 DEF ReadersInv, CallsFollowed
<1>10. HiddenOnlyBySettlement'
  BY <1>3, <1>8 DEF HiddenOnlyBySettlement, Answered
<1>11. CallsFollowed'
  BY <1>9 DEF CallsFollowed
<1>12. QED
  BY <1>2, <1>7, <1>10, <1>11 DEF ReadersInv

\* Whatever is written during a call, its history follows.
LEMMA WriteInv ==
  ASSUME ReadersInv, NEW v \in Inputs, NEW explicit \in Explicit, Write(v, explicit)
  PROVE  ReadersInv'
<1>1. v \in Event /\ explicit \in BOOLEAN /\ v.task \in Tasks
  BY LedgerAssumption DEF Event
<1>2. /\ AppendEvent(v, explicit)
      /\ truth' = [r \in Readers |-> IF asked[r] = v.task
                                     THEN truth[r] \cup {TaskState(v.task)'}
                                     ELSE truth[r]]
      /\ settled' = [r \in Readers |-> settled[r] \/ (asked[r] = v.task /\ Settled(v) # {})]
      /\ UNCHANGED <<asked, rows, answer>>
  BY DEF Write
<1>3. LedgerInv' /\ ConfirmedLatest'
  BY <1>1, <1>2, AppendInv, ConfirmedLatestKept DEF ReadersInv
<1>4. TaskState(v.task)' \in Answers
  <2>1. (LedgerInv /\ ConfirmedLatest => \A t \in Tasks : TaskState(t) \in Answers)'
    BY TaskStateType, PTL
  <2>2. QED
    BY <1>1, <1>3, <2>1 DEF Answers
<1>5. ReaderTypeOK'
  <2>1. truth' \in [Readers -> SUBSET Answers]
    BY <1>2, <1>4 DEF ReadersInv, ReaderTypeOK
  <2>2. settled' \in [Readers -> BOOLEAN]
    BY <1>2 DEF ReadersInv, ReaderTypeOK
  <2>3. Answers' = Answers
    BY DEF Answers
  <2>4. QED
    BY <1>2, <1>3, <2>1, <2>2 DEF ReadersInv, ReaderTypeOK, LedgerInv, Answers
<1>6. \A r \in Readers : truth[r] \subseteq truth'[r] /\ (settled[r] => settled'[r])
  BY <1>2
<1>7. ASSUME NEW r \in Readers, NEW t \in Tasks, asked[r] = t
      PROVE  /\ TaskState(t)' \in truth'[r]
             /\ rows[r] \in truth'[r] \/ settled'[r] \/ Open(t)' # {}
  <2>1. /\ TaskState(t) \in truth[r]
        /\ rows[r] \in truth[r] \/ settled[r] \/ Open(t) # {}
    BY <1>7 DEF ReadersInv, CallsFollowed
  <2>2. TaskState(t)' \in truth'[r]
    <3>1. CASE t = v.task
      BY <1>2, <1>7, <3>1
    <3>2. CASE t # v.task
      <4>1. TaskState(t)' = TaskState(t)
        BY <1>1, <1>2, <3>2, OtherTask DEF ReadersInv
      <4>2. QED
        BY <1>6, <2>1, <4>1
    <3>3. QED
      BY <3>1, <3>2
  <2>3. Open(t) # {} /\ Open(t)' = {} => settled'[r]
    <3>1. Open(t) # {} /\ Open(t)' = {} => t = v.task /\ Settled(v) # {}
      BY <1>1, <1>2, DisputeEnds DEF ReadersInv
    <3>2. QED
      BY <1>2, <1>7, <3>1
  <2>4. QED
    BY <1>6, <2>1, <2>2, <2>3
<1>8. CallsFollowed'
  BY <1>2, <1>7 DEF CallsFollowed
<1>9. HiddenOnlyBySettlement'
  BY <1>2, <1>6 DEF ReadersInv, HiddenOnlyBySettlement, Answered
<1>10. QED
  BY <1>3, <1>5, <1>8, <1>9 DEF ReadersInv

\* A listing makes its reader forget the last answer.
LEMMA ForgetInv ==
  ASSUME ReadersInv, NEW r \in Readers, UNCHANGED <<events, conflicts, asked>>,
         asked[r] = NoTask,
         rows'    = [rows EXCEPT ![r] = NoState],
         answer'  = [answer EXCEPT ![r] = NoState],
         truth'   = [truth EXCEPT ![r] = {NoState}],
         settled' = [settled EXCEPT ![r] = FALSE]
  PROVE  ReadersInv'
<1>1. UNCHANGED ledgerVars
  BY DEF ledgerVars
<1>2. /\ LedgerInv' /\ ConfirmedLatest'
      /\ \A t \in Tasks : TaskState(t)' = TaskState(t) /\ Open(t)' = Open(t)
  BY <1>1, SameLedger
<1>3. ReaderTypeOK'
  BY <1>2 DEF ReadersInv, ReaderTypeOK, LedgerInv, Answers
<1>4. ASSUME NEW z \in Readers, NEW t \in Tasks, asked'[z] = t
      PROVE  /\ TaskState(t)' \in truth'[z]
             /\ rows'[z] \in truth'[z] \/ settled'[z] \/ Open(t)' # {}
  <2>1. asked[z] = t /\ z # r
    BY <1>4, ReaderAssumption
  <2>2. rows'[z] = rows[z] /\ truth'[z] = truth[z] /\ settled'[z] = settled[z]
    BY <2>1 DEF ReadersInv, ReaderTypeOK
  <2>3. TaskState(t)' = TaskState(t) /\ Open(t)' = Open(t)
    BY <1>2
  <2>4. QED
    BY <2>1, <2>2, <2>3 DEF ReadersInv, CallsFollowed
<1>5. CallsFollowed'
  BY <1>4 DEF CallsFollowed
<1>6. HiddenOnlyBySettlement'
  BY DEF ReadersInv, ReaderTypeOK, HiddenOnlyBySettlement, Answered
<1>7. QED
  BY <1>2, <1>3, <1>5, <1>6 DEF ReadersInv

\* The readers' invariant when neither they nor the ledger move.
LEMMA ReadersStay ==
  ASSUME ReadersInv, UNCHANGED readerVars
  PROVE  ReadersInv'
<1>1. UNCHANGED ledgerVars /\ UNCHANGED <<asked, rows, answer, truth, settled>>
  BY DEF readerVars, ledgerVars
<1>2. /\ LedgerInv' /\ ConfirmedLatest'
      /\ \A t \in Tasks : TaskState(t)' = TaskState(t) /\ Open(t)' = Open(t)
  BY <1>1, SameLedger
<1>3. CallsFollowed'
  BY <1>1, <1>2 DEF ReadersInv, CallsFollowed
<1>4. QED
  BY <1>1, <1>2, <1>3
     DEF ReadersInv, ReaderTypeOK, LedgerInv, HiddenOnlyBySettlement, Answered, Answers
-----------------------------------------------------------------------------
(* The listings.                                                           *)

\* Opens at an append: a dispute that is open afterwards was open before or
\* begins with the new event.
LEMMA OpenOrNew ==
  ASSUME LedgerInv, NEW v \in Event, NEW explicit \in BOOLEAN, AppendEvent(v, explicit),
         NEW c \in conflicts', c.resolved_by = NoEvent
  PROVE  c \in conflicts \/ c.created = Len(events) + 1
<1>1. TypeOK
  BY DEF LedgerInv
<1>2. PICK n \in Nat : n = Len(events) + 1
  BY <1>1 DEF TypeOK
<1>3. \A d \in Settled(v) : Resolve(d, v.id).resolved_by # NoEvent
  BY <1>1, SettledFacts, LedgerAssumption DEF Event
<1>4. \A d \in Opened(v, explicit) : d.created = n
  BY <1>1, <1>2, OpenedFacts
<1>5. QED
  BY <1>1, <1>2, <1>3, <1>4, ConflictFacts

LEMMA WriteListings ==
  ASSUME ReviewsInv, NEW v \in Inputs, NEW explicit \in Explicit, Write(v, explicit),
         UNCHANGED <<markVars, listingVars>>
  PROVE  ReviewsInv'
<1>1. ReadersInv'
  BY WriteInv DEF ReviewsInv
<1>2. v \in Event /\ explicit \in BOOLEAN /\ AppendEvent(v, explicit)
  BY LedgerAssumption DEF Write
<1>3. PICK n \in Nat : n = Len(events) + 1
  BY DEF ReviewsInv, ReadersInv, LedgerInv, TypeOK
<1>4. events \in Seq(Event) /\ events' = Append(events, v)
  BY <1>2 DEF ReviewsInv, ReadersInv, LedgerInv, TypeOK, AppendEvent
<1>5. /\ DOMAIN events = 1 .. Len(events) /\ DOMAIN events' = 1 .. n
      /\ Len(events') = n /\ Len(events) \in Nat
  BY <1>2, <1>3, <1>4, AppendFacts
<1>6. UNCHANGED <<reviewed, checkpoints, blind, query, full, list, redacted, seen>>
  BY DEF markVars, listingVars
<1>7. ReviewsTypeOK'
  <2>1. 0 .. Len(events) \subseteq 0 .. Len(events') /\ DOMAIN events \subseteq DOMAIN events'
    BY <1>3, <1>5
  <2>2. checkpoints \in [Names -> {NoSequence} \cup 0 .. Len(events')]
    BY <2>1 DEF ReviewsInv, ReviewsTypeOK
  <2>3. list \in [Readers -> SUBSET DOMAIN events']
    BY <2>1 DEF ReviewsInv, ReviewsTypeOK
  <2>4. reviewed \in 0 .. Len(events') /\ blind \in 0 .. Len(events')
        /\ seen \subseteq DOMAIN events'
    BY <2>1 DEF ReviewsInv, ReviewsTypeOK
  <2>5. QED
    BY <1>1, <1>6, <2>2, <2>3, <2>4 DEF ReviewsInv, ReviewsTypeOK, ReadersInv
<1>8. ListingsWhole'
  BY <1>6 DEF ReviewsInv, ListingsWhole
<1>9. DisputesRedacted'
  <2> SUFFICES ASSUME NEW r \in Readers, query[r] = NoQuery, NEW c \in conflicts',
                      c.created \in list[r], c.resolved_by = NoEvent
               PROVE  c.task \in redacted[r]
    BY <1>6 DEF DisputesRedacted
  <2>1. c \in conflicts \/ c.created = n
    BY <1>2, <1>3, OpenOrNew DEF ReviewsInv, ReadersInv
  <2>2. c.created # n
    BY <1>3, <1>5 DEF ReviewsInv, ReviewsTypeOK
  <2>3. QED
    BY <2>1, <2>2 DEF ReviewsInv, DisputesRedacted
<1>10. ReviewedWasShown'
  <2>1. reviewed \in 0 .. Len(events) /\ blind \in 0 .. Len(events)
    BY DEF ReviewsInv, ReviewsTypeOK
  <2>2. \A i \in DOMAIN events' : i <= reviewed => i \in DOMAIN events
    BY <1>3, <1>5, <2>1
  <2>3. QED
    BY <1>6, <2>2 DEF ReviewsInv, ReviewedWasShown
<1>11. QED
  BY <1>1, <1>7, <1>8, <1>9, <1>10 DEF ReviewsInv

\* A step that changes what one reader has of the ledger at most.
LEMMA ReadersOnly ==
  ASSUME ReviewsInv, ReadersInv', UNCHANGED <<events, conflicts, markVars, listingVars>>
  PROVE  ReviewsInv'
BY DEF ReviewsInv, ReadersInv, ReviewsTypeOK, ListingsWhole, DisputesRedacted,
       ReviewedWasShown, markVars, listingVars

LEMMA AskInv ==
  ASSUME ReviewsInv, NEW r \in Readers, NEW t \in Tasks, Ask(r, t)
  PROVE  ReviewsInv'
<1>1. ReadersInv' /\ UNCHANGED <<events, conflicts>>
  BY ReadEventsInv DEF Ask, ReadEvents, ReviewsInv
<1>2. /\ full' = [full EXCEPT ![r] = FALSE] /\ list' = [list EXCEPT ![r] = {}]
      /\ redacted' = [redacted EXCEPT ![r] = {}]
      /\ UNCHANGED <<query, seen, reviewed, checkpoints, blind>>
  BY DEF Ask, markVars
<1>3. ReviewsTypeOK'
  BY <1>1, <1>2 DEF ReviewsInv, ReviewsTypeOK, ReadersInv
<1>4. /\ \A z \in Readers : z # r => /\ list'[z] = list[z] /\ full'[z] = full[z]
                                     /\ redacted'[z] = redacted[z]
      /\ list'[r] = {} /\ ~ full'[r]
  BY <1>2 DEF ReviewsInv, ReviewsTypeOK
<1>5. ListingsWhole'
  BY <1>2, <1>4 DEF ReviewsInv, ListingsWhole
<1>6. DisputesRedacted'
  BY <1>1, <1>2, <1>4 DEF ReviewsInv, DisputesRedacted
<1>7. ReviewedWasShown'
  BY <1>1, <1>2 DEF ReviewsInv, ReviewedWasShown
<1>8. QED
  BY <1>1, <1>3, <1>5, <1>6, <1>7 DEF ReviewsInv

LEMMA BeginInv ==
  ASSUME ReviewsInv, NEW r \in Readers, NEW base \in Nat, NEW scope \in Scopes,
         NEW since_review \in BOOLEAN, since_review => base <= reviewed,
         Begin(r, base, scope, since_review)
  PROVE  ReviewsInv'
<1> DEFINE q == [read |-> "baseline", base |-> base, scope |-> scope]
<1>1. UNCHANGED <<events, conflicts, asked>>
  BY DEF Begin
<1>2. ReadersInv'
  BY ForgetInv DEF Begin, Idle, ReviewsInv
<1>3. /\ query' = [query EXCEPT ![r] = q]
      /\ full' = [full EXCEPT ![r] = since_review /\ scope = Projects]
      /\ list' = [list EXCEPT ![r] = {}] /\ redacted' = [redacted EXCEPT ![r] = {}]
      /\ UNCHANGED <<seen, reviewed, checkpoints, blind>>
  BY DEF Begin, markVars
<1>4. q \in Query /\ q # NoQuery /\ q.base = base /\ q.scope = scope
  BY ReviewsAssumption DEF Query
<1> HIDE DEF q
<1>5. ReviewsTypeOK'
  BY <1>1, <1>2, <1>3, <1>4 DEF ReviewsInv, ReviewsTypeOK, ReadersInv
<1>6. /\ \A z \in Readers : z # r => /\ list'[z] = list[z] /\ full'[z] = full[z]
                                     /\ redacted'[z] = redacted[z] /\ query'[z] = query[z]
      /\ list'[r] = {} /\ query'[r] = q
      /\ full'[r] => base <= reviewed /\ scope = Projects
  BY <1>3 DEF ReviewsInv, ReviewsTypeOK
<1>7. ListingsWhole'
  BY <1>3, <1>4, <1>6 DEF ReviewsInv, ListingsWhole
<1>8. DisputesRedacted'
  BY <1>1, <1>4, <1>6 DEF ReviewsInv, DisputesRedacted
<1>9. ReviewedWasShown'
  BY <1>1, <1>3 DEF ReviewsInv, ReviewedWasShown
<1>10. QED
  BY <1>2, <1>5, <1>7, <1>8, <1>9 DEF ReviewsInv

LEMMA ReadChangesInv ==
  ASSUME ReviewsInv, NEW r \in Readers, ReadChanges(r)
  PROVE  ReviewsInv'
<1> DEFINE L == {i \in DOMAIN events :
                   i > query[r].base /\ Owner[events[i].task] \in query[r].scope}
<1>1. /\ query[r] # NoQuery /\ query[r].read = "baseline"
      /\ list' = [list EXCEPT ![r] = L]
      /\ query' = [query EXCEPT ![r].read = "changes"]
      /\ UNCHANGED readerVars
      /\ UNCHANGED <<events, conflicts, full, redacted, seen, reviewed, checkpoints, blind>>
  BY DEF ReadChanges, readerVars, markVars
<1>2. query[r] \in Query /\ L \subseteq DOMAIN events
  BY <1>1 DEF ReviewsInv, ReviewsTypeOK
<1>3. query'[r] \in Query /\ query'[r].read = "changes" /\ query'[r] # NoQuery
  BY <1>1, <1>2, ReviewsAssumption DEF ReviewsInv, ReviewsTypeOK, Query
<1>4. full[r] => \A j \in L : \A i \in 1 .. j : reviewed < i => i \in L
  <2> SUFFICES ASSUME full[r], NEW j \in L, NEW i \in 1 .. j, reviewed < i
               PROVE  i \in L
    OBVIOUS
  <2>1. query[r].base <= reviewed /\ query[r].scope = Projects
    BY <1>1 DEF ReviewsInv, ListingsWhole
  <2>2. DOMAIN events = 1 .. Len(events) /\ Len(events) \in Nat /\ events \in Seq(Event)
    BY DEF ReviewsInv, ReadersInv, LedgerInv, TypeOK
  <2>3. i \in DOMAIN events
    BY <2>2
  <2>4. Owner[events[i].task] \in Projects
    <3>1. events[i] \in Event
      BY <2>2, <2>3
    <3>2. events[i].task \in Tasks
      BY <3>1 DEF Event
    <3>3. QED
      BY <3>2, LedgerAssumption
  <2>5. query[r].base \in Nat /\ reviewed \in Nat
    BY <1>2 DEF ReviewsInv, ReviewsTypeOK, Query
  <2>6. QED
    BY <2>1, <2>2, <2>3, <2>4, <2>5
<1> HIDE DEF L
<1>5. ReadersInv'
  BY <1>1, ReadersStay DEF ReviewsInv
<1>6. /\ \A z \in Readers : z # r => list'[z] = list[z] /\ query'[z] = query[z]
      /\ list'[r] = L
  BY <1>1 DEF ReviewsInv, ReviewsTypeOK
<1>7. query' \in [Readers -> Query \cup {NoQuery}]
  BY <1>1, <1>3 DEF ReviewsInv, ReviewsTypeOK
<1>8. ReviewsTypeOK'
  BY <1>1, <1>2, <1>5, <1>7 DEF ReviewsInv, ReviewsTypeOK, ReadersInv
<1>9. ListingsWhole'
  BY <1>1, <1>3, <1>4, <1>6 DEF ReviewsInv, ListingsWhole
<1>10. DisputesRedacted'
  BY <1>1, <1>3, <1>6 DEF ReviewsInv, DisputesRedacted
<1>11. ReviewedWasShown'
  BY <1>1 DEF ReviewsInv, ReviewedWasShown
<1>12. QED
  BY <1>5, <1>8, <1>9, <1>10, <1>11 DEF ReviewsInv

LEMMA ReadDisputesInv ==
  ASSUME ReviewsInv, NEW r \in Readers, ReadDisputes(r)
  PROVE  ReviewsInv'
<1>1. /\ query[r] # NoQuery /\ query[r].read = "changes"
      /\ redacted' = [redacted EXCEPT ![r] = {t \in Tasks : Open(t) # {}}]
      /\ query' = [query EXCEPT ![r] = NoQuery]
      /\ seen' = seen \cup list[r]
      /\ UNCHANGED readerVars
      /\ UNCHANGED <<events, conflicts, full, list, reviewed, checkpoints, blind>>
  BY DEF ReadDisputes, Disputed, readerVars, markVars
<1>2. ReadersInv'
  BY <1>1, ReadersStay DEF ReviewsInv
<1>3. ReviewsTypeOK'
  BY <1>1, <1>2 DEF ReviewsInv, ReviewsTypeOK, ReadersInv
<1>4. /\ \A z \in Readers : z # r => query'[z] = query[z] /\ redacted'[z] = redacted[z]
      /\ query'[r] = NoQuery /\ redacted'[r] = {t \in Tasks : Open(t) # {}}
      /\ list[r] \subseteq seen' /\ seen \subseteq seen'
  BY <1>1 DEF ReviewsInv, ReviewsTypeOK
<1>5. ListingsWhole'
  BY <1>1, <1>4 DEF ReviewsInv, ListingsWhole
<1>6. \A c \in conflicts : c.resolved_by = NoEvent => c.task \in {t \in Tasks : Open(t) # {}}
  <2>1. \A c \in conflicts : c.task \in Tasks
    BY DEF ReviewsInv, ReadersInv, LedgerInv, TypeOK, Conflict
  <2>2. QED
    BY <2>1 DEF Open
<1>7. DisputesRedacted'
  BY <1>1, <1>4, <1>6 DEF ReviewsInv, DisputesRedacted
<1>8. ReviewedWasShown'
  BY <1>1, <1>4 DEF ReviewsInv, ReviewedWasShown
<1>9. QED
  BY <1>2, <1>3, <1>5, <1>7, <1>8 DEF ReviewsInv

\* The mark only moves over what a whole listing showed, or blind.
LEMMA MarkReviewedInv ==
  ASSUME ReviewsInv, NEW r \in Readers, NEW through \in Sequences \cup {NoSequence},
         MarkReviewed(r, through)
  PROVE  ReviewsInv'
<1> DEFINE m == Target(through)
<1>1. /\ Idle(r) /\ m <= Len(events)
      /\ reviewed' = IF m < reviewed THEN reviewed ELSE m
      /\ blind' = IF Backed(r, through) \/ m < blind THEN blind ELSE m
      /\ UNCHANGED readerVars
      /\ UNCHANGED <<events, conflicts, checkpoints, query, full, list, redacted, seen>>
  BY DEF MarkReviewed, readerVars, listingVars
<1>2. /\ reviewed \in 0 .. Len(events) /\ blind \in 0 .. Len(events) /\ Len(events) \in Nat
      /\ DOMAIN events = 1 .. Len(events)
  BY DEF ReviewsInv, ReadersInv, LedgerInv, TypeOK, ReviewsTypeOK
<1>3. m \in Nat /\ (through # NoSequence => m = through)
  BY <1>2, ReviewsAssumption DEF Target
<1> HIDE DEF m
<1>4. ReadersInv'
  BY <1>1, ReadersStay DEF ReviewsInv
<1>5. reviewed' \in 0 .. Len(events) /\ blind' \in 0 .. Len(events) /\ reviewed <= reviewed'
      /\ blind <= blind'
  BY <1>1, <1>2, <1>3
<1>6. ReviewsTypeOK'
  BY <1>1, <1>4, <1>5 DEF ReviewsInv, ReviewsTypeOK, ReadersInv
<1>7. ListingsWhole'
  <2>1. ASSUME NEW z \in Readers, full[z], NEW j \in list[z], NEW i \in 1 .. j, reviewed' < i
        PROVE  i \in list[z]
    <3>1. j \in Nat
      BY <1>2 DEF ReviewsInv, ReviewsTypeOK
    <3>2. reviewed < i
      BY <1>2, <1>5, <2>1, <3>1
    <3>3. QED
      BY <2>1, <3>2 DEF ReviewsInv, ListingsWhole
  <2>2. ASSUME NEW z \in Readers, query[z] # NoQuery, query[z].read = "baseline", full[z]
        PROVE  query[z].base <= reviewed'
    <3>1. query[z].base \in Nat /\ query[z].base <= reviewed
      BY <2>2 DEF ReviewsInv, ReviewsTypeOK, Query, ListingsWhole
    <3>2. QED
      BY <1>2, <1>5, <3>1
  <2>3. QED
    BY <1>1, <2>1, <2>2 DEF ReviewsInv, ListingsWhole
<1>8. DisputesRedacted'
  BY <1>1 DEF ReviewsInv, DisputesRedacted
<1>9. ReviewedWasShown'
  <2> SUFFICES ASSUME NEW i \in DOMAIN events, blind' < i, i <= reviewed'
               PROVE  i \in seen
    BY <1>1 DEF ReviewedWasShown
  <2>1. CASE i <= reviewed
    <3>1. blind < i
      BY <1>2, <1>5
    <3>2. QED
      BY <2>1, <3>1 DEF ReviewsInv, ReviewedWasShown
  <2>2. CASE reviewed < i
    <3>1. i <= m
      BY <1>1, <1>2, <1>3, <2>2
    <3>2. Backed(r, through)
      BY <1>1, <1>2, <1>3, <3>1
    <3>3. full[r] /\ through \in list[r] /\ query[r] = NoQuery
      BY <1>1, <3>2 DEF Backed, Idle
    <3>4. through \in Nat
      BY <1>2, <3>3 DEF ReviewsInv, ReviewsTypeOK
    <3>5. through = m
      BY <1>3, <3>4, ReviewsAssumption
    <3>6. i \in 1 .. through
      BY <1>2, <3>1, <3>4, <3>5
    <3>7. QED
      BY <2>2, <3>3, <3>6 DEF ReviewsInv, ListingsWhole
  <2>3. QED
    BY <1>2, <2>1, <2>2
<1>10. QED
  BY <1>4, <1>6, <1>7, <1>8, <1>9 DEF ReviewsInv

LEMMA CheckpointInv ==
  ASSUME ReviewsInv, NEW name \in Names, NEW through \in Sequences \cup {NoSequence},
         CreateCheckpoint(name, through)
  PROVE  ReviewsInv'
<1>1. /\ Target(through) <= Len(events)
      /\ checkpoints' = [checkpoints EXCEPT ![name] = Target(through)]
      /\ UNCHANGED readerVars
      /\ UNCHANGED <<events, conflicts, reviewed, blind, query, full, list, redacted, seen>>
  BY DEF CreateCheckpoint, readerVars, listingVars
<1>2. Len(events) \in Nat
  BY DEF ReviewsInv, ReadersInv, LedgerInv, TypeOK
<1>3. Target(through) \in 0 .. Len(events)
  BY <1>1, <1>2, ReviewsAssumption DEF Target
<1>4. ReadersInv'
  BY <1>1, ReadersStay DEF ReviewsInv
<1>5. ReviewsTypeOK'
  BY <1>1, <1>3, <1>4 DEF ReviewsInv, ReviewsTypeOK, ReadersInv
<1>6. QED
  BY <1>1, <1>4, <1>5
     DEF ReviewsInv, ListingsWhole, DisputesRedacted, ReviewedWasShown
-----------------------------------------------------------------------------
(* The specification.                                                      *)

LEMMA ReviewsInitInv == ReviewsInit => ReviewsInv
<1> SUFFICES ASSUME ReviewsInit PROVE ReviewsInv
  OBVIOUS
<1> USE DEF ReviewsInit, ReaderInit
<1>1. events = <<>> /\ conflicts = {} /\ Len(events) = 0 /\ DOMAIN events = {}
  BY DEF Init
<1>2. LedgerInv
  BY InitInv
<1>3. \A t : Confirmed(t) = {}
  BY <1>1 DEF Confirmed, StateOn, On
<1>4. ReadersInv
  BY <1>2, <1>3, ReaderAssumption
     DEF ReadersInv, ConfirmedLatest, ReaderTypeOK, LedgerInv, CallsFollowed, Answers,
         HiddenOnlyBySettlement
<1>5. ReviewsTypeOK
  BY <1>1, <1>4 DEF ReviewsTypeOK, ReadersInv
<1>6. QED
  BY <1>1, <1>4, <1>5 DEF ReviewsInv, ListingsWhole, DisputesRedacted, ReviewedWasShown

LEMMA ReviewsNextInv == ReviewsInv /\ [ReviewsNext]_reviewsVars => ReviewsInv'
<1> SUFFICES ASSUME ReviewsInv, [ReviewsNext]_reviewsVars PROVE ReviewsInv'
  OBVIOUS
<1>1. ASSUME NEW v \in Inputs, NEW explicit \in Explicit, Write(v, explicit),
             UNCHANGED <<markVars, listingVars>>
      PROVE  ReviewsInv'
  BY <1>1, WriteListings
<1>2. ASSUME NEW r \in Readers, ReadConflict(r), UNCHANGED <<markVars, listingVars>>
      PROVE  ReviewsInv'
  <2>1. ReadersInv' /\ UNCHANGED <<events, conflicts>>
    BY <1>2, ReadConflictInv DEF ReviewsInv, ReadConflict
  <2>2. QED
    BY <1>2, <2>1, ReadersOnly
<1>3. ASSUME NEW r \in Readers, NEW t \in Tasks, Ask(r, t)
      PROVE  ReviewsInv'
  BY <1>3, AskInv
<1>4. ASSUME NEW r \in Readers, NEW scope \in Scopes, ReadReviewMark(r, scope)
      PROVE  ReviewsInv'
  <2>1. reviewed \in Nat /\ reviewed <= reviewed
    BY DEF ReviewsInv, ReviewsTypeOK
  <2>2. QED
    BY <1>4, <2>1, BeginInv DEF ReadReviewMark
<1>5. ASSUME NEW r \in Readers, NEW scope \in Scopes, NEW name \in Names,
             ReadCheckpoint(r, name, scope)
      PROVE  ReviewsInv'
  <2>1. checkpoints[name] \in Nat
    BY <1>5 DEF ReadCheckpoint, ReviewsInv, ReviewsTypeOK
  <2>2. QED
    BY <1>5, <2>1, BeginInv DEF ReadCheckpoint
<1>6. ASSUME NEW r \in Readers, ReadChanges(r) \/ ReadDisputes(r)
      PROVE  ReviewsInv'
  BY <1>6, ReadChangesInv, ReadDisputesInv
<1>7. ASSUME NEW r \in Readers, NEW through \in Sequences \cup {NoSequence},
             MarkReviewed(r, through)
      PROVE  ReviewsInv'
  BY <1>7, MarkReviewedInv
<1>8. ASSUME NEW name \in Names, NEW through \in Sequences \cup {NoSequence},
             CreateCheckpoint(name, through)
      PROVE  ReviewsInv'
  BY <1>8, CheckpointInv
<1>9. CASE UNCHANGED reviewsVars
  <2>1. /\ UNCHANGED readerVars /\ UNCHANGED <<events, conflicts>>
        /\ UNCHANGED <<markVars, listingVars>>
    BY <1>9 DEF reviewsVars, readerVars
  <2>2. QED
    BY <2>1, ReadersStay, ReadersOnly DEF ReviewsInv
<1>10. ASSUME NEW through \in Sequences, RefuseMark(through)
       PROVE  ReviewsInv'
  BY <1>9, <1>10 DEF RefuseMark
<1>11. ASSUME NEW name \in Names, RefuseCheckpoint(name)
       PROVE  ReviewsInv'
  BY <1>9, <1>11 DEF RefuseCheckpoint
<1>12. QED
  BY <1>1, <1>2, <1>3, <1>4, <1>5, <1>6, <1>7, <1>8, <1>9, <1>10, <1>11 DEF ReviewsNext

\* Readers, listings and marks keep the invariant.
THEOREM ReviewsCorrect == ReviewsSpec => []ReviewsInv
<1>1. QED
  BY ReviewsInitInv, ReviewsNextInv, PTL DEF ReviewsSpec

\* The readers' state and the marks are well typed, and no mark is ahead of the
\* ledger (reviews.py).
THEOREM ReviewsTypes == ReviewsSpec => []ReviewsTypeOK
<1>1. ReviewsInv => ReviewsTypeOK
  BY DEF ReviewsInv
<1>2. QED
  BY <1>1, ReviewsCorrect, PTL

\* An answer about a task is a state it had during the call, or a dispute was
\* settled during it (state.py:1471-1486).
THEOREM AnswersWereTrue == ReviewsSpec => []HiddenOnlyBySettlement
<1>1. ReviewsInv => HiddenOnlyBySettlement
  BY DEF ReviewsInv, ReadersInv
<1>2. QED
  BY <1>1, ReviewsCorrect, PTL

\* Nothing counts as reviewed that nobody was shown, but by a blind mark
\* (reviews.py:47-75).
THEOREM ReviewedWasSeen == ReviewsSpec => []ReviewedWasShown
<1>1. ReviewsInv => ReviewedWasShown
  BY DEF ReviewsInv
<1>2. QED
  BY <1>1, ReviewsCorrect, PTL

\* A listing redacts every open dispute it shows (state.py:207-257).
THEOREM ListingsRedact == ReviewsSpec => []DisputesRedacted
<1>1. ReviewsInv => DisputesRedacted
  BY DEF ReviewsInv
<1>2. QED
  BY <1>1, ReviewsCorrect, PTL
=============================================================================
