-------------------------- MODULE ExecutionsProofs --------------------------
(***************************************************************************)
(* Proofs about the execution store and its polls, for every number of     *)
(* executions, jobs and pollers and everything a scheduler may answer.     *)
(***************************************************************************)
EXTENDS Executions, TLAPS

\* The types of the tables, the scheduler's clock and the polls.
ExecutionsTypeOK ==
  /\ Registered \subseteq ExecutionIds
  /\ executions \in [Registered -> [job : Jobs, current_state : ExecutionStates,
                                    active : BOOLEAN]]
  /\ observations \in [ExecutionIds -> Seq(Record)]
  /\ now \in [Jobs -> Nat]
  /\ \A j \in Jobs : now[j] \in DOMAIN Timeline[j]
  /\ polled \in [Pollers -> ExecutionIds \cup {NoExecution}]
  /\ step \in [Pollers -> {"squeue", "sacct", "record"}]
  /\ found \in [Pollers -> Record \cup {NoRecord}]
  /\ foundAt \in [Pollers -> Nat]
  /\ polls \in 0 .. MaxPolls
  /\ ingested \in [ExecutionIds -> Nat]
  /\ best \in [ExecutionIds -> Nat]
  /\ overlap \subseteq ExecutionIds

Job(e) == executions[e].job
Now(e) == now[Job(e)]

\* A row says of its state whether it is active, and has its job for itself.
RowsAgree ==
  \A e \in Registered :
    /\ executions[e].active = IsActive(executions[e].current_state)
    /\ \A f \in Registered : Job(f) = Job(e) => f = e

\* What a poll has found so far was answered since the job began, and it is not
\* behind what other polls recorded, if none overlapped with it.
PollHonest(p) ==
  LET e == polled[p]
  IN /\ e \in Registered
     /\ step[p] = "sacct" => \E i \in 1 .. Now(e) : Timeline[Job(e)][i].queue = NoRecord
     /\ step[p] = "record" => /\ foundAt[p] \in 1 .. Now(e)
                              /\ found[p] \in Answers(Job(e), foundAt[p])
                              /\ e \notin overlap => best[e] <= foundAt[p]
PollsHonest == \A p \in Pollers : polled[p] # NoExecution => PollHonest(p)

\* Only an execution with overlapping polls is polled twice at a time.
PolledAlone ==
  \A p, q \in Pollers :
    polled[p] # NoExecution /\ polled[p] = polled[q] /\ p # q => polled[p] \in overlap

\* Every observation was answered at a position up to the furthest recorded one.
ObservedThere ==
  \A e \in Registered :
    /\ best[e] <= Now(e)
    /\ \A i \in DOMAIN observations[e] :
         \E k \in 1 .. best[e] : observations[e][i] \in Answers(Job(e), k)

\* An execution that is not registered has been neither polled nor observed.
Unobserved == \A e \in ExecutionIds \ Registered : best[e] = 0 /\ observations[e] = <<>>

\* A summary shows a state that the job was reported in.
SummarySeen ==
  \A e \in Registered :
    executions[e].current_state # "SUBMITTED" =>
      \E k \in 1 .. Now(e) : executions[e].current_state \in StatesAt(Job(e), k)

\* The inductive invariant.
ExecutionsInv ==
  /\ ExecutionsTypeOK
  /\ RowsAgree
  /\ PollsHonest
  /\ PolledAlone
  /\ ObservedThere
  /\ Unobserved
  /\ SummarySeen
  /\ OnlyOverlapTakesBack
-----------------------------------------------------------------------------
(* What the scheduler may answer.                                          *)

\* A position of a timeline has a record, or none, from each of the two.
LEMMA AnswerTypes ==
  ASSUME NEW j \in Jobs, NEW k \in DOMAIN Timeline[j]
  PROVE  /\ Timeline[j][k].queue \in Record \cup {NoRecord}
         /\ Timeline[j][k].accounting \in Record \cup {NoRecord}
         /\ Answers(j, k) \subseteq Record
         /\ StatesAt(j, k) \subseteq ExecutionStates
<1> DEFINE Printed == [queue : Record \cup {NoRecord}, accounting : Record \cup {NoRecord}]
<1>1. Timeline[j] \in Seq(Printed)
  BY ExecutionsAssumption
<1>2. Timeline[j][k] \in Printed
  <2> HIDE DEF Printed
  <2>1. QED
    BY <1>1
<1>3. Answers(j, k) \subseteq Record
  BY <1>2 DEF Answers
<1>4. StatesAt(j, k) \subseteq ExecutionStates
  BY <1>3 DEF StatesAt, Record
<1>5. QED
  BY <1>2, <1>3, <1>4

\* The job of a registered execution is somewhere in its timeline.
LEMMA JobTypes ==
  ASSUME ExecutionsTypeOK, NEW e \in Registered
  PROVE  /\ e \in ExecutionIds /\ e # NoExecution
         /\ Job(e) \in Jobs
         /\ Now(e) \in DOMAIN Timeline[Job(e)] /\ Now(e) \in Nat \ {0}
         /\ 1 .. Now(e) \subseteq DOMAIN Timeline[Job(e)]
         /\ best[e] \in Nat
<1>1. e \in ExecutionIds /\ Job(e) \in Jobs /\ best[e] \in Nat
  BY DEF ExecutionsTypeOK, Job
<1>2. Now(e) \in DOMAIN Timeline[Job(e)] /\ Now(e) \in Nat
  BY <1>1 DEF ExecutionsTypeOK, Now
<1>3. DOMAIN Timeline[Job(e)] = 1 .. Len(Timeline[Job(e)]) /\ Len(Timeline[Job(e)]) \in Nat
  BY <1>1, ExecutionsAssumption
<1>4. e # NoExecution
  BY <1>1, ExecutionsAssumption
<1>5. QED
  BY <1>1, <1>2, <1>3, <1>4
-----------------------------------------------------------------------------
(* Steps that change neither the rows nor what is recorded of them.        *)

\* A step that leaves the rows alone, and the scheduler at most goes on.
RowsStay ==
  /\ UNCHANGED <<executions, observations, ingested, best>>
  /\ \A j \in Jobs : now[j] <= now'[j]

\* Then all that is said of rows stays true, if overlaps are not forgotten.
LEMMA RowsStayInv ==
  ASSUME ExecutionsInv, ExecutionsTypeOK', RowsStay, overlap \subseteq overlap'
  PROVE  RowsAgree' /\ ObservedThere' /\ Unobserved' /\ SummarySeen' /\ OnlyOverlapTakesBack'
<1> USE DEF ExecutionsInv, RowsStay
<1>1. RowsAgree' /\ Unobserved'
  BY DEF RowsAgree, Unobserved, Registered, Job
<1>2. OnlyOverlapTakesBack'
  BY DEF OnlyOverlapTakesBack, Summarized, Registered
<1>3. ASSUME NEW e \in Registered
      PROVE  /\ Job(e)' = Job(e) /\ Now(e) <= Now(e)' /\ Now(e) \in Nat /\ Now(e)' \in Nat
             /\ best[e] \in Nat
  <2>1. Job(e) \in Jobs /\ Now(e) \in Nat /\ best[e] \in Nat
    BY JobTypes
  <2>2. now' \in [Jobs -> Nat]
    BY DEF ExecutionsTypeOK
  <2>3. QED
    BY <2>1, <2>2 DEF Job, Now
<1>4. ObservedThere'
  BY <1>3 DEF ObservedThere, Registered
<1>5. SummarySeen'
  <2> SUFFICES ASSUME NEW e \in Registered, executions[e].current_state # "SUBMITTED"
               PROVE  \E k \in 1 .. Now(e)' : executions[e].current_state \in StatesAt(Job(e), k)
    BY <1>3 DEF SummarySeen, Registered
  <2>1. PICK k \in 1 .. Now(e) : executions[e].current_state \in StatesAt(Job(e), k)
    BY DEF SummarySeen
  <2>2. k \in 1 .. Now(e)'
    BY <1>3, <2>1
  <2>3. QED
    BY <2>1, <2>2
<1>6. QED
  BY <1>1, <1>2, <1>4, <1>5

\* Then what an earlier poll found is as good as it was.
LEMMA RowsStayPoll ==
  ASSUME ExecutionsInv, ExecutionsTypeOK', RowsStay, overlap \subseteq overlap',
         NEW p \in Pollers, polled[p] # NoExecution,
         polled'[p] = polled[p], step'[p] = step[p], found'[p] = found[p],
         foundAt'[p] = foundAt[p]
  PROVE  PollHonest(p)'
<1> DEFINE e == polled[p]
<1>1. PollHonest(p) /\ e \in Registered
  BY DEF ExecutionsInv, PollsHonest, PollHonest
<1>2. Job(e) \in Jobs /\ Now(e) \in Nat /\ now' \in [Jobs -> Nat]
  BY <1>1, JobTypes DEF ExecutionsInv, ExecutionsTypeOK
<1>3. Registered' = Registered /\ Job(e)' = Job(e) /\ best' = best
  BY DEF RowsStay, Registered, Job
<1>4. Now(e) <= Now(e)' /\ Now(e)' \in Nat
  BY <1>2, <1>3 DEF RowsStay, Now, Job
<1>5. 1 .. Now(e) \subseteq 1 .. Now(e)'
  BY <1>2, <1>4
<1>6. QED
  BY <1>1, <1>3, <1>5 DEF PollHonest
-----------------------------------------------------------------------------
(* One lemma per action.                                                   *)

LEMMA InitInv == Init => ExecutionsInv
<1> SUFFICES ASSUME Init PROVE ExecutionsInv
  OBVIOUS
<1> USE DEF Init
<1>1. Registered = {}
  BY DEF Registered
<1>2. ASSUME NEW j \in Jobs PROVE 1 \in DOMAIN Timeline[j]
  <2> DEFINE Printed == [queue : Record \cup {NoRecord}, accounting : Record \cup {NoRecord}]
  <2>1. Timeline[j] \in Seq(Printed) /\ Timeline[j] # <<>>
    BY ExecutionsAssumption
  <2> HIDE DEF Printed
  <2>2. QED
    BY <2>1
<1>3. ExecutionsTypeOK
  BY <1>1, <1>2, ExecutionsAssumption DEF ExecutionsTypeOK, Registered
<1>4. QED
  BY <1>1, <1>3 DEF ExecutionsInv, RowsAgree, PollsHonest, PolledAlone, ObservedThere,
                    Unobserved, SummarySeen, OnlyOverlapTakesBack

\* A new row is submitted, and nothing was recorded of it.
LEMMA RegisterInv ==
  ASSUME ExecutionsInv, NEW e \in ExecutionIds, NEW j \in Jobs, RegisterExecution(e, j)
  PROVE  ExecutionsInv'
<1> USE DEF ExecutionsInv, RegisterExecution, pollVars
<1>1. /\ Registered' = Registered \cup {e} /\ e \notin Registered
      /\ executions'[e] = Row(j, "SUBMITTED")
      /\ \A f \in Registered : executions'[f] = executions[f]
  BY DEF Registered
<1>2. ExecutionsTypeOK'
  <2>1. Row(j, "SUBMITTED") \in [job : Jobs, current_state : ExecutionStates, active : BOOLEAN]
    BY DEF Row, IsActive, ExecutionStates
  <2>2. executions' \in [Registered' -> [job : Jobs, current_state : ExecutionStates,
                                         active : BOOLEAN]]
    BY <1>1, <2>1 DEF ExecutionsTypeOK, Registered
  <2>3. QED
    BY <1>1, <2>2 DEF ExecutionsTypeOK
<1>3. RowsAgree'
  BY <1>1 DEF RowsAgree, Row, Job
<1>4. /\ \A f \in Registered : Job(f)' = Job(f) /\ Now(f)' = Now(f)
      /\ Job(e)' = j
  BY <1>1 DEF Job, Now, Row
<1>5. PollsHonest'
  <2> SUFFICES ASSUME NEW p \in Pollers, polled[p] # NoExecution
               PROVE  PollHonest(p)'
    BY DEF PollsHonest
  <2>1. PollHonest(p)
    BY DEF PollsHonest
  <2>2. QED
    BY <1>1, <1>4, <2>1 DEF PollHonest
<1>6. PolledAlone'
  BY DEF PolledAlone
<1>7. best[e] = 0 /\ observations[e] = <<>> /\ Now(e)' \in Nat
  BY <1>1, <1>4 DEF Unobserved, ExecutionsTypeOK, Now
<1>8. ObservedThere'
  BY <1>1, <1>4, <1>7 DEF ObservedThere
<1>9. Unobserved'
  BY <1>1 DEF Unobserved
<1>10. SummarySeen'
  BY <1>1, <1>4 DEF SummarySeen, Row
<1>11. OnlyOverlapTakesBack'
  BY <1>1, <1>4, <1>7 DEF OnlyOverlapTakesBack, Summarized, Job, Row
<1>12. QED
  BY <1>2, <1>3, <1>5, <1>6, <1>8, <1>9, <1>10, <1>11

LEMMA StartInv ==
  ASSUME ExecutionsInv, NEW p \in Pollers, NEW e \in ExecutionIds, StartPoll(p, e)
  PROVE  ExecutionsInv'
<1> USE DEF StartPoll
<1>1. ExecutionsTypeOK'
  BY ExecutionsAssumption DEF ExecutionsInv, ExecutionsTypeOK, Registered
<1>2. RowsStay /\ overlap \subseteq overlap'
  BY DEF RowsStay, ExecutionsInv, ExecutionsTypeOK
<1>3. PollsHonest'
  <2> SUFFICES ASSUME NEW q \in Pollers, polled'[q] # NoExecution
               PROVE  PollHonest(q)'
    BY DEF PollsHonest
  <2>1. CASE q = p
    BY <2>1 DEF PollHonest, Registered, ExecutionsInv, ExecutionsTypeOK
  <2>2. CASE q # p
    <3>1. polled'[q] = polled[q] /\ step'[q] = step[q]
      BY <2>2 DEF ExecutionsInv, ExecutionsTypeOK
    <3>2. QED
      BY <1>1, <1>2, <3>1, RowsStayPoll
  <2>3. QED
    BY <2>1, <2>2
<1>4. PolledAlone'
  <2> SUFFICES ASSUME NEW q \in Pollers, NEW r \in Pollers, q # r,
                      polled'[q] # NoExecution, polled'[q] = polled'[r]
               PROVE  polled'[q] \in overlap'
    BY DEF PolledAlone
  <2>1. CASE q # p /\ r # p
    BY <1>2, <2>1 DEF PolledAlone, ExecutionsInv, ExecutionsTypeOK
  <2>2. CASE q = p \/ r = p
    BY <2>2 DEF ExecutionsInv, ExecutionsTypeOK
  <2>3. QED
    BY <2>1, <2>2
<1>5. QED
  BY <1>1, <1>2, <1>3, <1>4, RowsStayInv DEF ExecutionsInv

\* A record is found where the job is now, which is where no poll is ahead of.
LEMMA TakeInv ==
  ASSUME ExecutionsInv, NEW p \in Pollers, NEW record, polled[p] # NoExecution,
         Take(p, record), record \in Answers(Job(polled[p]), Now(polled[p]))
  PROVE  ExecutionsInv'
<1> DEFINE e == polled[p]
<1> USE DEF Take
<1>1. e \in Registered
  BY DEF ExecutionsInv, PollsHonest, PollHonest
<1>2. Job(e) \in Jobs /\ Now(e) \in Nat \ {0} /\ record \in Record
  BY <1>1, JobTypes, AnswerTypes DEF ExecutionsInv
<1>3. ExecutionsTypeOK'
  BY <1>2 DEF ExecutionsInv, ExecutionsTypeOK, Registered, Now, Job
<1>4. RowsStay /\ overlap' = overlap
  BY DEF RowsStay, ExecutionsInv, ExecutionsTypeOK
<1>5. PollsHonest'
  <2> SUFFICES ASSUME NEW q \in Pollers, polled[q] # NoExecution
               PROVE  PollHonest(q)'
    BY DEF PollsHonest
  <2>1. CASE q = p
    <3>1. step'[p] = "record" /\ found'[p] = record /\ foundAt'[p] = Now(e)
      BY DEF ExecutionsInv, ExecutionsTypeOK, Now, Job
    <3>2. best[e] <= Now(e) /\ Now(e) \in 1 .. Now(e)
      BY <1>1, <1>2 DEF ExecutionsInv, ObservedThere
    <3>3. QED
      BY <1>1, <2>1, <3>1, <3>2 DEF PollHonest, Registered, Now, Job
  <2>2. CASE q # p
    <3>1. step'[q] = step[q] /\ found'[q] = found[q] /\ foundAt'[q] = foundAt[q]
      BY <2>2 DEF ExecutionsInv, ExecutionsTypeOK
    <3>2. QED
      BY <1>3, <1>4, <3>1, RowsStayPoll
  <2>3. QED
    BY <2>1, <2>2
<1>6. PolledAlone'
  BY DEF PolledAlone, ExecutionsInv
<1>7. QED
  BY <1>3, <1>4, <1>5, <1>6, RowsStayInv DEF ExecutionsInv

LEMMA AskQueueInv ==
  ASSUME ExecutionsInv, NEW p \in Pollers, AskQueue(p)
  PROVE  ExecutionsInv'
<1> DEFINE e == polled[p]
<1>1. e \in Registered /\ e # NoExecution /\ step[p] = "squeue"
  BY DEF AskQueue, ExecutionsInv, PollsHonest, PollHonest
<1>2. Job(e) \in Jobs /\ Now(e) \in Nat \ {0} /\ Now(e) \in DOMAIN Timeline[Job(e)]
  BY <1>1, JobTypes DEF ExecutionsInv
<1>3. Answer(p) = Timeline[Job(e)][Now(e)]
  BY DEF Answer, Now, Job
<1>4. CASE Take(p, Answer(p).queue)
  <2>1. Answer(p).queue \in Answers(Job(e), Now(e))
    BY <1>3, <1>4 DEF Take, Answers
  <2>2. QED
    BY <1>1, <1>4, <2>1, TakeInv
<1>5. CASE /\ Answer(p).queue = NoRecord
           /\ step' = [step EXCEPT ![p] = "sacct"]
           /\ UNCHANGED <<executions, observations, now, polled, found, foundAt,
                          polls, ingested, best, overlap>>
  <2>1. ExecutionsTypeOK'
    BY <1>5 DEF ExecutionsInv, ExecutionsTypeOK, Registered
  <2>2. RowsStay /\ overlap' = overlap
    BY <1>5 DEF RowsStay, ExecutionsInv, ExecutionsTypeOK
  <2>3. PollsHonest'
    <3> SUFFICES ASSUME NEW q \in Pollers, polled[q] # NoExecution
                 PROVE  PollHonest(q)'
      BY <1>5 DEF PollsHonest
    <3>1. CASE q = p
      <4>1. step'[p] = "sacct"
        BY <1>5 DEF ExecutionsInv, ExecutionsTypeOK
      <4>2. Now(e) \in 1 .. Now(e) /\ Timeline[Job(e)][Now(e)].queue = NoRecord
        BY <1>2, <1>3, <1>5
      <4>3. QED
        BY <1>1, <1>5, <3>1, <4>1, <4>2 DEF PollHonest, Registered, Now, Job
    <3>2. CASE q # p
      <4>1. step'[q] = step[q]
        BY <1>5, <3>2 DEF ExecutionsInv, ExecutionsTypeOK
      <4>2. QED
        BY <1>5, <2>1, <2>2, <4>1, RowsStayPoll
    <3>3. QED
      BY <3>1, <3>2
  <2>4. PolledAlone'
    BY <1>5 DEF PolledAlone, ExecutionsInv
  <2>5. QED
    BY <2>1, <2>2, <2>3, <2>4, RowsStayInv DEF ExecutionsInv
<1>6. QED
  BY <1>4, <1>5 DEF AskQueue

\* The accounting is asked only after squeue knew nothing.
LEMMA AskAccountingInv ==
  ASSUME ExecutionsInv, NEW p \in Pollers, AskAccounting(p)
  PROVE  ExecutionsInv'
<1> DEFINE e == polled[p]
<1>1. e \in Registered /\ e # NoExecution /\ step[p] = "sacct" /\ PollHonest(p)
  BY DEF AskAccounting, ExecutionsInv, PollsHonest, PollHonest
<1>2. Answer(p) = Timeline[Job(e)][Now(e)]
  BY DEF Answer, Now, Job
<1>3. Take(p, Answer(p).accounting) /\ Answer(p).accounting # NoRecord
  BY DEF AskAccounting, Take
<1>4. Answer(p).accounting \in Answers(Job(e), Now(e))
  BY <1>1, <1>2, <1>3 DEF PollHonest, Answers
<1>5. QED
  BY <1>1, <1>3, <1>4, TakeInv

LEMMA FailInv ==
  ASSUME ExecutionsInv, NEW p \in Pollers, FailPoll(p)
  PROVE  ExecutionsInv'
<1> USE DEF FailPoll, EndPoll
<1>1. ExecutionsTypeOK'
  BY DEF ExecutionsInv, ExecutionsTypeOK, Registered
<1>2. RowsStay /\ overlap' = overlap
  BY DEF RowsStay, ExecutionsInv, ExecutionsTypeOK
<1>3. \A q \in Pollers :
        polled'[q] # NoExecution =>
          q # p /\ polled'[q] = polled[q] /\ step'[q] = step[q] /\ found'[q] = found[q]
            /\ foundAt'[q] = foundAt[q]
  BY DEF ExecutionsInv, ExecutionsTypeOK
<1>4. PollsHonest'
  BY <1>1, <1>2, <1>3, RowsStayPoll DEF PollsHonest
<1>5. PolledAlone'
  BY <1>2, <1>3 DEF PolledAlone, ExecutionsInv
<1>6. QED
  BY <1>1, <1>2, <1>4, <1>5, RowsStayInv DEF ExecutionsInv

LEMMA AdvanceInv ==
  ASSUME ExecutionsInv, NEW j \in Jobs, Advance(j)
  PROVE  ExecutionsInv'
<1> USE DEF Advance, pollVars
<1>1. Len(Timeline[j]) \in Nat /\ DOMAIN Timeline[j] = 1 .. Len(Timeline[j])
  BY ExecutionsAssumption
<1>2. ExecutionsTypeOK'
  BY <1>1 DEF ExecutionsInv, ExecutionsTypeOK, Registered
<1>3. RowsStay /\ overlap' = overlap
  BY DEF RowsStay, ExecutionsInv, ExecutionsTypeOK
<1>4. PollsHonest'
  BY <1>2, <1>3, RowsStayPoll DEF PollsHonest
<1>5. PolledAlone'
  BY DEF PolledAlone, ExecutionsInv
<1>6. QED
  BY <1>2, <1>3, <1>4, <1>5, RowsStayInv DEF ExecutionsInv

\* Recording changes one row at most, to the state of the record.
LEMMA RecordFacts ==
  ASSUME ExecutionsTypeOK, NEW e \in Registered, NEW record \in Record,
         RecordObservation(e, record)
  PROVE  /\ Registered' = Registered
         /\ \A f \in Registered : Job(f)' = Job(f)
         /\ \A f \in Registered \ {e} : executions'[f] = executions[f]
         /\ \A f \in ExecutionIds \ {e} : observations'[f] = observations[f]
         /\ executions' \in [Registered -> [job : Jobs, current_state : ExecutionStates,
                                           active : BOOLEAN]]
         /\ observations' \in [ExecutionIds -> Seq(Record)]
         /\ \A i \in DOMAIN observations'[e] :
              observations'[e][i] = record \/ \E k \in DOMAIN observations[e] :
                                                observations'[e][i] = observations[e][k]
         /\ \/ /\ executions'[e] = executions[e]
               /\ \E i \in DOMAIN observations[e] : observations[e][i] = record
            \/ executions'[e] = Row(Job(e), record.state)
<1>1. e \in ExecutionIds /\ Job(e) \in Jobs /\ record.state \in ExecutionStates
  BY DEF ExecutionsTypeOK, Job, Record
<1>2. CASE UNCHANGED <<executions, observations>>
  <2>1. \E i \in DOMAIN observations[e] : observations[e][i] = record
    <3>1. SUFFICES ASSUME ~ \E i \in DOMAIN observations[e] : observations[e][i] = record
                   PROVE  FALSE
      OBVIOUS
    <3>2. observations' = [observations EXCEPT ![e] = Append(@, record)]
      BY <3>1 DEF RecordObservation
    <3>3. observations[e] = Append(observations[e], record) /\ observations[e] \in Seq(Record)
      BY <1>1, <1>2, <3>2 DEF ExecutionsTypeOK
    <3>4. QED
      BY <3>3
  <2>2. QED
    BY <1>2, <2>1 DEF ExecutionsTypeOK, Registered, Job
<1>3. CASE /\ observations' = [observations EXCEPT ![e] = Append(@, record)]
           /\ executions' = [executions EXCEPT ![e] = Row(@.job, record.state)]
  <2>1. Row(Job(e), record.state) \in [job : Jobs, current_state : ExecutionStates,
                                       active : BOOLEAN]
    BY <1>1 DEF Row, IsActive
  <2>2. /\ Registered' = Registered
        /\ executions'[e] = Row(Job(e), record.state)
        /\ \A f \in Registered \ {e} : executions'[f] = executions[f]
    BY <1>3 DEF Registered, Job
  <2>3. executions' \in [Registered -> [job : Jobs, current_state : ExecutionStates,
                                        active : BOOLEAN]]
    BY <1>3, <2>1 DEF ExecutionsTypeOK, Registered, Job
  <2>4. \A f \in Registered : Job(f)' = Job(f)
    BY <2>2 DEF Job, Row
  <2>5. /\ observations[e] \in Seq(Record)
        /\ observations'[e] = Append(observations[e], record)
        /\ \A f \in ExecutionIds \ {e} : observations'[f] = observations[f]
    BY <1>1, <1>3 DEF ExecutionsTypeOK
  <2>6. observations' \in [ExecutionIds -> Seq(Record)]
    BY <1>1, <1>3, <2>5 DEF ExecutionsTypeOK
  <2>7. \A i \in DOMAIN observations'[e] :
          observations'[e][i] = record \/ \E k \in DOMAIN observations[e] :
                                            observations'[e][i] = observations[e][k]
    BY <2>5
  <2>8. QED
    BY <2>2, <2>3, <2>4, <2>5, <2>6, <2>7
<1>4. QED
  BY <1>2, <1>3 DEF RecordObservation

\* Alone, a poll records what is not behind what is on record.  A record that
\* was stored before is from a position up to the last one recorded, and since
\* it did not come back, the summary shows its state already.
LEMMA FinishSummarized ==
  ASSUME ExecutionsInv, NEW p \in Pollers, NEW e, FinishPoll(p), polled[p] = e,
         e \notin overlap, NoneComesBack(Job(e))
  PROVE  Summarized(e, best[e])'
<1> DEFINE m == foundAt[p]
           r == found[p]
           b == best[e]
<1>1. /\ e \in Registered /\ RecordObservation(e, r)
      /\ m \in 1 .. Now(e) /\ r \in Answers(Job(e), m) /\ b <= m
  BY DEF FinishPoll, ExecutionsInv, PollsHonest, PollHonest
<1>2. /\ e \in ExecutionIds /\ Job(e) \in Jobs /\ Now(e) \in Nat /\ b \in Nat /\ m \in Nat
      /\ 1 .. Now(e) \subseteq DOMAIN Timeline[Job(e)]
      /\ r \in Record /\ r.state \in StatesAt(Job(e), m)
  BY <1>1, JobTypes, AnswerTypes DEF ExecutionsInv, StatesAt
<1>3. best'[e] = m /\ m # 0
  BY <1>1, <1>2 DEF FinishPoll, ExecutionsInv, ExecutionsTypeOK
<1>4. Job(e)' = Job(e)
  BY <1>1, <1>2, RecordFacts DEF ExecutionsInv
<1>5. executions'[e].current_state \in StatesAt(Job(e), m)
  <2>1. CASE executions'[e] = Row(Job(e), r.state)
    BY <1>2, <2>1 DEF Row
  <2>2. CASE /\ executions'[e] = executions[e]
             /\ \E i \in DOMAIN observations[e] : observations[e][i] = r
    <3>1. PICK k \in 1 .. b : r \in Answers(Job(e), k)
      BY <1>1, <2>2 DEF ExecutionsInv, ObservedThere
    <3>2. b # 0 /\ k \in Nat /\ k <= b /\ 1 <= k
      BY <1>2, <3>1
    <3>3. executions[e].current_state \in StatesAt(Job(e), b)
      BY <1>1, <3>2 DEF ExecutionsInv, OnlyOverlapTakesBack, Summarized, Job
    <3>4. CASE b = m
      BY <2>2, <3>3, <3>4
    <3>5. CASE b < m
      <4>1. {k, b, m} \subseteq DOMAIN Timeline[Job(e)]
        BY <1>1, <1>2, <3>2, <3>5
      <4>2. StatesAt(Job(e), b) = {r.state}
        BY <1>1, <3>1, <3>2, <3>5, <4>1 DEF NoneComesBack
      <4>3. QED
        BY <1>2, <2>2, <3>3, <4>2
    <3>6. QED
      BY <1>1, <1>2, <3>4, <3>5
  <2>3. QED
    BY <1>1, <1>2, <2>1, <2>2, RecordFacts DEF ExecutionsInv
<1>6. QED
  BY <1>3, <1>4, <1>5 DEF Summarized, Job

LEMMA FinishInv ==
  ASSUME ExecutionsInv, NEW p \in Pollers, FinishPoll(p)
  PROVE  ExecutionsInv'
<1>1. PICK e \in Registered : polled[p] = e
  BY DEF FinishPoll, ExecutionsInv, PollsHonest, PollHonest
<1>2. PICK m \in 1 .. Now(e) : m = foundAt[p]
  BY <1>1 DEF FinishPoll, ExecutionsInv, PollsHonest, PollHonest
<1>3. PICK r \in Answers(Job(e), m) : r = found[p]
  BY <1>1, <1>2 DEF FinishPoll, ExecutionsInv, PollsHonest, PollHonest
<1>4. /\ e \in ExecutionIds /\ e # NoExecution /\ Job(e) \in Jobs
      /\ Now(e) \in Nat /\ best[e] \in Nat /\ m \in Nat /\ m # 0
      /\ r \in Record /\ r.state \in StatesAt(Job(e), m) /\ r.state \in ExecutionStates
  BY <1>2, <1>3, JobTypes, AnswerTypes DEF ExecutionsInv, StatesAt, Record
<1>5. /\ RecordObservation(e, r)
      /\ best' = [best EXCEPT ![e] = IF @ < m THEN m ELSE @]
      /\ ingested' = [ingested EXCEPT ![e] = m]
      /\ EndPoll(p) /\ UNCHANGED <<now, polls, overlap>>
  BY <1>1, <1>2, <1>3 DEF FinishPoll
<1> USE DEF ExecutionsInv
<1>6. /\ best' \in [ExecutionIds -> Nat]
      /\ \A f \in ExecutionIds \ {e} : best'[f] = best[f]
      /\ best[e] <= best'[e] /\ m <= best'[e] /\ (best'[e] = best[e] \/ best'[e] = m)
  BY <1>4, <1>5 DEF ExecutionsTypeOK
<1>7. /\ Registered' = Registered
      /\ \A f \in Registered : Job(f)' = Job(f) /\ Now(f)' = Now(f) /\ f \in ExecutionIds
  BY <1>4, <1>5, RecordFacts DEF Now, ExecutionsTypeOK
<1>8. \A q \in Pollers :
        polled'[q] # NoExecution =>
          q # p /\ polled'[q] = polled[q] /\ step'[q] = step[q] /\ found'[q] = found[q]
            /\ foundAt'[q] = foundAt[q]
  BY <1>5 DEF EndPoll, ExecutionsTypeOK
<1>9. ExecutionsTypeOK'
  <2>1. /\ polled' \in [Pollers -> ExecutionIds \cup {NoExecution}]
        /\ step' \in [Pollers -> {"squeue", "sacct", "record"}]
        /\ found' \in [Pollers -> Record \cup {NoRecord}]
        /\ foundAt' \in [Pollers -> Nat]
        /\ ingested' \in [ExecutionIds -> Nat]
    BY <1>4, <1>5 DEF ExecutionsTypeOK, EndPoll
  <2>2. QED
    BY <1>4, <1>5, <1>6, <1>7, <2>1, RecordFacts DEF ExecutionsTypeOK
<1>10. RowsAgree'
  <2>1. ASSUME NEW f \in Registered
        PROVE  executions'[f].active = IsActive(executions'[f].current_state)
    <3>1. CASE executions'[f] = executions[f]
      BY <3>1 DEF RowsAgree
    <3>2. CASE executions'[f] = Row(Job(e), r.state)
      BY <3>2 DEF Row
    <3>3. QED
      BY <1>4, <1>5, <3>1, <3>2, RecordFacts
  <2>2. QED
    BY <1>7, <2>1 DEF RowsAgree
<1>11. PollsHonest'
  <2> SUFFICES ASSUME NEW q \in Pollers, polled'[q] # NoExecution
               PROVE  PollHonest(q)'
    BY DEF PollsHonest
  <2>1. /\ q # p /\ polled'[q] = polled[q] /\ step'[q] = step[q]
        /\ found'[q] = found[q] /\ foundAt'[q] = foundAt[q]
    BY <1>8
  <2>2. PICK f \in Registered : f = polled[q]
    BY <2>1 DEF PollsHonest, PollHonest
  <2>3. f \notin overlap => best'[f] = best[f]
    BY <1>1, <1>6, <1>7, <2>1, <2>2 DEF PolledAlone
  <2>4. QED
    BY <1>5, <1>7, <2>1, <2>2, <2>3 DEF PollsHonest, PollHonest
<1>12. PolledAlone'
  BY <1>5, <1>8 DEF PolledAlone
<1>13. ObservedThere'
  <2> SUFFICES ASSUME NEW f \in Registered
               PROVE  /\ best'[f] <= Now(f)
                      /\ \A i \in DOMAIN observations'[f] :
                           \E k \in 1 .. best'[f] :
                             observations'[f][i] \in Answers(Job(f), k)
    BY <1>7 DEF ObservedThere
  <2>1. CASE f = e
    <3>1. best'[e] <= Now(e)
      BY <1>2, <1>4, <1>6 DEF ObservedThere
    <3>2. ASSUME NEW i \in DOMAIN observations'[e]
          PROVE  \E k \in 1 .. best'[e] : observations'[e][i] \in Answers(Job(e), k)
      <4>1. CASE observations'[e][i] = r
        <5>1. m \in 1 .. best'[e]
          BY <1>2, <1>4, <1>6
        <5>2. QED
          BY <4>1, <5>1
      <4>2. CASE \E l \in DOMAIN observations[e] : observations'[e][i] = observations[e][l]
        <5>1. PICK k \in 1 .. best[e] : observations'[e][i] \in Answers(Job(e), k)
          BY <4>2 DEF ObservedThere
        <5>2. k \in 1 .. best'[e]
          BY <1>4, <1>6, <5>1
        <5>3. QED
          BY <5>1, <5>2
      <4>3. QED
        BY <1>4, <1>5, <3>2, <4>1, <4>2, RecordFacts
    <3>3. QED
      BY <2>1, <3>1, <3>2
  <2>2. CASE f # e
    BY <1>4, <1>5, <1>6, <1>7, <2>2, RecordFacts DEF ObservedThere
  <2>3. QED
    BY <2>1, <2>2
<1>14. Unobserved'
  <2>1. ASSUME NEW f \in ExecutionIds \ Registered
        PROVE  best'[f] = 0 /\ observations'[f] = <<>>
    <3>1. best'[f] = best[f] /\ observations'[f] = observations[f]
      BY <1>4, <1>5, <1>6, RecordFacts
    <3>2. QED
      BY <3>1 DEF Unobserved
  <2>2. QED
    BY <1>7, <2>1 DEF Unobserved
<1>15. SummarySeen'
  <2> SUFFICES ASSUME NEW f \in Registered, executions'[f].current_state # "SUBMITTED"
               PROVE  \E k \in 1 .. Now(f) : executions'[f].current_state \in StatesAt(Job(f), k)
    BY <1>7 DEF SummarySeen
  <2>1. CASE executions'[f] = executions[f]
    BY <2>1 DEF SummarySeen
  <2>2. CASE f = e /\ executions'[e] = Row(Job(e), r.state)
    BY <1>2, <1>4, <2>2 DEF Row
  <2>3. QED
    BY <1>4, <1>5, <2>1, <2>2, RecordFacts
<1>16. OnlyOverlapTakesBack'
  <2> SUFFICES ASSUME NEW f \in Registered, f \notin overlap, NoneComesBack(Job(f))
               PROVE  Summarized(f, best[f])'
    BY <1>5, <1>7 DEF OnlyOverlapTakesBack, Job
  <2>1. CASE f = e
    BY <1>1, <2>1, FinishSummarized
  <2>2. CASE f # e
    <3>1. executions'[f] = executions[f] /\ best'[f] = best[f]
      BY <1>4, <1>5, <1>6, <1>7, <2>2, RecordFacts
    <3>2. QED
      BY <3>1 DEF OnlyOverlapTakesBack, Summarized, Job
  <2>3. QED
    BY <2>1, <2>2
<1>17. QED
  BY <1>9, <1>10, <1>11, <1>12, <1>13, <1>14, <1>15, <1>16

LEMMA StutterInv == ExecutionsInv /\ UNCHANGED vars => ExecutionsInv'
<1> SUFFICES ASSUME ExecutionsInv, UNCHANGED vars PROVE ExecutionsInv'
  OBVIOUS
<1> USE DEF vars, pollVars
<1>1. ExecutionsTypeOK'
  BY DEF ExecutionsInv, ExecutionsTypeOK, Registered
<1>2. RowsStay
  BY DEF RowsStay, ExecutionsInv, ExecutionsTypeOK
<1>3. PollsHonest' /\ PolledAlone'
  BY <1>1, <1>2, RowsStayPoll DEF PollsHonest, PolledAlone, ExecutionsInv
<1>4. QED
  BY <1>1, <1>2, <1>3, RowsStayInv DEF ExecutionsInv

LEMMA NextInv == ExecutionsInv /\ [Next]_vars => ExecutionsInv'
<1> SUFFICES ASSUME ExecutionsInv, [Next]_vars PROVE ExecutionsInv'
  OBVIOUS
<1>1. ASSUME NEW e \in ExecutionIds, NEW j \in Jobs, RegisterExecution(e, j)
      PROVE  ExecutionsInv'
  BY <1>1, RegisterInv
<1>2. ASSUME NEW j \in Jobs, Advance(j)
      PROVE  ExecutionsInv'
  BY <1>2, AdvanceInv
<1>3. ASSUME NEW p \in Pollers, NEW e \in ExecutionIds, StartPoll(p, e)
      PROVE  ExecutionsInv'
  BY <1>3, StartInv
<1>4. ASSUME NEW p \in Pollers,
             AskQueue(p) \/ AskAccounting(p) \/ FinishPoll(p) \/ FailPoll(p)
      PROVE  ExecutionsInv'
  BY <1>4, AskQueueInv, AskAccountingInv, FinishInv, FailInv
<1>5. QED
  BY <1>1, <1>2, <1>3, <1>4, StutterInv DEF Next
-----------------------------------------------------------------------------
(* Theorems.                                                               *)

\* The invariant holds whatever the scheduler answers and however polls overlap,
\* fail and repeat each other (executions.py:54-156, slurm.py:190-280).
THEOREM ExecutionsCorrect == Spec => []ExecutionsInv
<1>1. QED
  BY InitInv, NextInv, PTL DEF Spec

\* The tables and the polls are well typed (schema.sql:165-194).
THEOREM ExecutionsTypes == Spec => []ExecutionsTypeOK
<1>1. ExecutionsInv => ExecutionsTypeOK
  BY DEF ExecutionsInv
<1>2. QED
  BY <1>1, ExecutionsCorrect, PTL

\* A summary only goes back when polls overlap or a record comes back
\* (executions.py:112-149, slurm.py:190-222).
THEOREM SummariesGoForward == Spec => []OnlyOverlapTakesBack
<1>1. ExecutionsInv => OnlyOverlapTakesBack
  BY DEF ExecutionsInv
<1>2. QED
  BY <1>1, ExecutionsCorrect, PTL

\* Inactive executions are those whose job ended, and a job has one execution
\* (executions.py:36, 73-99, 131-149).
THEOREM InactiveHaveEnded == Spec => []InactiveMeansEnded
<1>1. ExecutionsInv => InactiveMeansEnded
  <2> SUFFICES ASSUME ExecutionsInv, NEW e \in Registered
               PROVE  /\ ~ executions[e].active =>
                           \E k \in 1 .. Now(e) :
                             StatesAt(Job(e), k) \cap TerminalStates # {}
                      /\ /\ e \notin overlap /\ NoneComesBack(Job(e)) /\ best[e] # 0
                         /\ StatesAt(Job(e), best[e]) \subseteq TerminalStates
                         => ~ executions[e].active
                      /\ \A f \in Registered : Job(f) = Job(e) => f = e
    BY DEF InactiveMeansEnded, Now, Job
  <2>1. executions[e].active = IsActive(executions[e].current_state)
    BY DEF ExecutionsInv, RowsAgree
  <2>2. ~ executions[e].active =>
          \E k \in 1 .. Now(e) : StatesAt(Job(e), k) \cap TerminalStates # {}
    BY <2>1 DEF IsActive, TerminalStates, ExecutionsInv, SummarySeen
  <2>3. ASSUME e \notin overlap, NoneComesBack(Job(e)), best[e] # 0,
               StatesAt(Job(e), best[e]) \subseteq TerminalStates
        PROVE  ~ executions[e].active
    BY <2>1, <2>3 DEF IsActive, ExecutionsInv, OnlyOverlapTakesBack, Summarized, Job
  <2>4. \A f \in Registered : Job(f) = Job(e) => f = e
    BY DEF ExecutionsInv, RowsAgree
  <2>5. QED
    BY <2>2, <2>3, <2>4
<1>2. QED
  BY <1>1, ExecutionsCorrect, PTL
=============================================================================
