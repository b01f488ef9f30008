---------------------------- MODULE MCExecutions ----------------------------
(* Instances of Executions for TLC.                                        *)
EXTENDS Executions, TLC

CONSTANTS x, y, j1, j2, q1, q2, r1, u2, c1, c2, a, b

At(queue, accounting) == [queue |-> queue, accounting |-> accounting]
Rec(state, raw) == [state |-> state, raw |-> raw]

\* A job waits, runs and leaves the queue, which still says running when the
\* accounting has it completed already and then loses it for a while; the other
\* is cancelled while it waits, after squeue printed a state the adapter does
\* not know.
StraightTimeline ==
  j1 :> << At(Rec("QUEUED", q1), NoRecord), At(Rec("RUNNING", r1), NoRecord),
           At(Rec("RUNNING", r1), Rec("COMPLETED", c1)), At(NoRecord, NoRecord),
           At(NoRecord, Rec("COMPLETED", c1)) >> @@
  j2 :> << At(Rec("QUEUED", q2), NoRecord), At(Rec("UNKNOWN", u2), NoRecord),
           At(NoRecord, Rec("CANCELLED", c2)) >>

\* The job is requeued and waits again: squeue prints the line it printed before.
RequeuedTimeline ==
  j1 :> << At(Rec("QUEUED", q1), NoRecord), At(Rec("RUNNING", r1), NoRecord),
           At(Rec("QUEUED", q1), NoRecord), At(NoRecord, Rec("COMPLETED", c1)) >>
=============================================================================
