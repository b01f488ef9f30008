--------------------------- MODULE ActivityProofs ---------------------------
(***************************************************************************)
(* Proofs about what a project's activity turns into, for every ledger.    *)
(*                                                                         *)
(* Risks, for every set of risks, callers and calls and every clock bound: *)
(* their histories, and what past answers say.  Pages: that making them    *)
(* leaves the risks and the ledger what Risks says they are, and that what *)
(* a page shows is due, whatever is written between its SELECTs.           *)
(*                                                                         *)
(* The inbox, for all items, texts and roots and every number of runs and  *)
(* failures: that assignments and imports agree, and that what is imported *)
(* is attributable although a run works with what it read before.          *)
(***************************************************************************)
EXTENDS Pages, Inbox, LedgerProofs

-----------------------------------------------------------------------------
(***************************************************************************)
(* Risks and pages.                                                        *)
(***************************************************************************)

\* The evidence of a risk was stored when the history was no longer than now.
SinceInPast == \A r \in Risks : since[r] <= Len(transitions)

\* HiddenWasWeighed for every risk, whatever event it is recorded from.
ClosedAfterEvidence ==
  \A r \in Risks : Known(r) /\ risk[r].status \in Closed =>
    \E k \in History(r) : k > since[r] /\ transitions[k].to \in Closed

\* The inductive invariant: the ledger's own, the types, the chain of each
\* history, and that closing comes after the evidence.
RisksInv ==
  /\ LedgerInv
  /\ RisksTypeOK
  /\ TransitionsChain
  /\ SinceInPast
  /\ ClosedAfterEvidence
-----------------------------------------------------------------------------
(* What one stored row changes.                                            *)

\* A transition that is appended leaves the earlier ones where they are.
LEMMA LogFacts ==
  ASSUME transitions \in Seq(Transition), NEW t \in Transition,
         transitions' = Append(transitions, t), NEW n \in Nat, n = Len(transitions) + 1
  PROVE  /\ transitions' \in Seq(Transition)
         /\ Len(transitions') = n
         /\ DOMAIN transitions' = DOMAIN transitions \cup {n}
         /\ \A k \in DOMAIN transitions : transitions'[k] = transitions[k] /\ k < n /\ k \in Nat
         /\ transitions'[n] = t
         /\ \A r : History(r)' = History(r) \cup {k \in {n} : t.risk = r}
<1>1. /\ transitions' \in Seq(Transition)
      /\ Len(transitions') = n
      /\ DOMAIN transitions' = DOMAIN transitions \cup {n}
      /\ \A k \in DOMAIN transitions : transitions'[k] = transitions[k] /\ k < n /\ k \in Nat
      /\ transitions'[n] = t
  OBVIOUS
<1>2. ASSUME NEW r PROVE History(r)' = History(r) \cup {k \in {n} : t.risk = r}
  BY <1>1 DEF History
<1>3. QED
  BY <1>1, <1>2

\* What a step that stores a row may assume: the status the transition starts
\* from is the one on record, and the way is allowed.
Starts(r, row, from) ==
  /\ ~ Known(r) => from = NoStatus
  /\ Known(r) => from = risk[r].status /\ (from = row.status \/ Allowed(from, row.status))

\* Storing a row with its transition continues the chain of the risk.
LEMMA SetRowChain ==
  ASSUME RisksTypeOK, TransitionsChain,
         NEW r \in Risks, NEW row \in Row, NEW from \in Statuses \cup {NoStatus}, NEW at \in Nat,
         Starts(r, row, from), SetRow(r, row, from, at)
  PROVE  TransitionsChain'
<1>1. /\ risk \in [Risks -> Row \cup {NoRisk}]
      /\ transitions \in Seq(Transition)
      /\ risk' = [risk EXCEPT ![r] = row]
      /\ row # NoRisk /\ row.status \in Statuses /\ NoStatus \notin Statuses
  BY RisksAssumption DEF RisksTypeOK, SetRow, Row
<1>2. /\ risk'[r] = row
      /\ \A s \in Risks \ {r} : risk'[s] = risk[s]
      /\ Known(r)'
      /\ \A s \in Risks \ {r} : Known(s)' <=> Known(s)
  BY <1>1 DEF Known
<1>3. CASE from = row.status
  <2>1. transitions' = transitions
    BY <1>3 DEF SetRow
  <2>2. Known(r) /\ risk[r].status = row.status
    BY <1>1, <1>3 DEF Starts
  <2>3. \A s \in Risks : (Known(s)' <=> Known(s)) /\ (Known(s) => risk'[s].status = risk[s].status)
    BY <1>2, <2>2
  <2>4. \A s : History(s)' = History(s)
    BY <2>1 DEF History
  <2>5. \A k \in DOMAIN transitions' :
           LET before == {j \in History(transitions[k].risk) : j < k}' IN
           /\ before = {} => transitions'[k].from = NoStatus
           /\ \A j \in Latest(before) : /\ transitions'[k].from = transitions'[j].to
                                        /\ Allowed(transitions'[j].to, transitions'[k].to)
    BY <2>1, <2>4 DEF TransitionsChain
  <2>6. \A s \in Risks : /\ Known(s)' <=> History(s)' # {}
                         /\ \A k \in Latest(History(s)') : transitions'[k].to = risk'[s].status
    <3> TAKE s \in Risks
    <3>1. Known(s)' <=> History(s)' # {}
      BY <2>3, <2>4 DEF TransitionsChain
    <3>2. ASSUME NEW k \in Latest(History(s)') PROVE transitions'[k].to = risk'[s].status
      <4>1. k \in Latest(History(s)) /\ Known(s)
        BY <2>4, <3>2 DEF TransitionsChain, Latest
      <4>2. QED
        BY <4>1, <2>1, <2>3 DEF TransitionsChain
    <3>3. QED
      BY <3>1, <3>2
  <2>7. QED
    BY <2>5, <2>6 DEF TransitionsChain, Latest, Allowed
<1>4. CASE from # row.status
  <2> DEFINE t == [risk |-> r, from |-> from, to |-> row.status, at |-> at]
  <2>1. t \in Transition /\ transitions' = Append(transitions, t)
    BY <1>1, <1>4 DEF SetRow, Transition
  <2>2. PICK n \in Nat : n = Len(transitions) + 1
    BY <1>1
  <2>3. /\ DOMAIN transitions' = DOMAIN transitions \cup {n}
        /\ \A k \in DOMAIN transitions : transitions'[k] = transitions[k] /\ k < n /\ k \in Nat
        /\ transitions'[n] = t
        /\ \A s : History(s)' = History(s) \cup {k \in {n} : r = s}
    BY <1>1, <2>1, <2>2, LogFacts
  <2>4. \A s : History(s) \subseteq DOMAIN transitions
    BY DEF History
  <2>5. ASSUME NEW k \in DOMAIN transitions'
        PROVE  LET before == {j \in History(transitions[k].risk) : j < k}' IN
               /\ before = {} => transitions'[k].from = NoStatus
               /\ \A j \in Latest(before) : /\ transitions'[k].from = transitions'[j].to
                                            /\ Allowed(transitions'[j].to, transitions'[k].to)
    <3> DEFINE before == {j \in History(transitions[k].risk) : j < k}'
    <3>1. CASE k \in DOMAIN transitions
      <4>1. before = {j \in History(transitions[k].risk) : j < k}
        BY <2>3, <2>4, <3>1
      <4>2. \A j \in Latest(before) : j \in DOMAIN transitions
        BY <4>1, <2>4 DEF Latest
      <4>3. QED
        BY <4>1, <4>2, <2>3, <3>1 DEF TransitionsChain
    <3>2. CASE k = n
      <4>1. before = History(r)
        BY <2>3, <2>4, <3>2
      <4>2. Known(r) <=> History(r) # {}
        BY DEF TransitionsChain
      <4>3. ASSUME before = {} PROVE transitions'[k].from = NoStatus
        BY <4>1, <4>2, <4>3, <2>3, <3>2 DEF Starts
      <4>4. ASSUME NEW j \in Latest(before)
            PROVE  /\ transitions'[k].from = transitions'[j].to
                   /\ Allowed(transitions'[j].to, transitions'[k].to)
        <5>1. j \in DOMAIN transitions /\ Known(r) /\ transitions[j].to = risk[r].status
          BY <4>1, <4>2, <4>4, <2>4 DEF TransitionsChain, Latest
        <5>2. transitions'[j] = transitions[j]
          BY <5>1, <2>3
        <5>3. from = transitions[j].to /\ Allowed(from, row.status)
          BY <5>1, <1>4 DEF Starts
        <5>4. QED
          BY <5>2, <5>3, <2>3, <3>2
      <4>5. QED
        BY <4>3, <4>4
    <3>3. QED
      BY <2>3, <3>1, <3>2
  <2>6. ASSUME NEW s \in Risks
        PROVE  /\ Known(s)' <=> History(s)' # {}
               /\ \A k \in Latest(History(s)') : transitions'[k].to = risk'[s].status
    <3>1. CASE s = r
      <4>1. n \in History(s)' /\ \A k \in Latest(History(s)') : k = n
        BY <2>3, <2>4, <3>1 DEF Latest
      <4>2. QED
        BY <4>1, <2>3, <1>2, <3>1
    <3>2. CASE s # r
      <4>1. History(s)' = History(s) /\ (Known(s)' <=> Known(s)) /\ risk'[s] = risk[s]
        BY <2>3, <1>2, <3>2
      <4>2. \A k \in Latest(History(s)) : k \in DOMAIN transitions
        BY <2>4 DEF Latest
      <4>3. QED
        BY <4>1, <4>2, <2>3 DEF TransitionsChain
    <3>3. QED
      BY <3>1, <3>2
  <2>7. QED
    BY <2>5, <2>6 DEF TransitionsChain, Latest, Allowed
<1>5. QED
  BY <1>3, <1>4

\* And keeps the tables' types.
LEMMA SetRowType ==
  ASSUME RisksTypeOK,
         NEW r \in Risks, NEW row \in Row, NEW from \in Statuses \cup {NoStatus}, NEW at \in Nat,
         SetRow(r, row, from, at)
  PROVE  /\ risk' \in [Risks -> Row \cup {NoRisk}]
         /\ transitions' \in Seq(Transition)
         /\ Len(transitions) \in Nat /\ Len(transitions') \in Nat
         /\ Len(transitions) <= Len(transitions')
         /\ \A s \in Risks : \A k \in History(s) : k \in History(s)' /\ transitions'[k] = transitions[k]
<1>1. /\ risk \in [Risks -> Row \cup {NoRisk}]
      /\ transitions \in Seq(Transition)
      /\ row.status \in Statuses
  BY DEF RisksTypeOK, Row
<1>2. risk' \in [Risks -> Row \cup {NoRisk}]
  BY <1>1 DEF SetRow
<1>3. CASE from = row.status
  <2>1. transitions' = transitions
    BY <1>3 DEF SetRow
  <2>2. QED
    BY <1>1, <1>2, <2>1 DEF History
<1>4. CASE from # row.status
  <2> DEFINE t == [risk |-> r, from |-> from, to |-> row.status, at |-> at]
  <2>1. t \in Transition /\ transitions' = Append(transitions, t)
    BY <1>1, <1>4 DEF SetRow, Transition
  <2>2. PICK n \in Nat : n = Len(transitions) + 1
    BY <1>1
  <2>3. /\ transitions' \in Seq(Transition) /\ Len(transitions') = n
        /\ \A k \in DOMAIN transitions : transitions'[k] = transitions[k]
        /\ \A s : History(s)' = History(s) \cup {k \in {n} : r = s}
    BY <1>1, <2>1, <2>2, LogFacts
  <2>4. \A s : History(s) \subseteq DOMAIN transitions
    BY DEF History
  <2>5. QED
    BY <1>1, <1>2, <2>2, <2>3, <2>4
<1>5. QED
  BY <1>3, <1>4

\* The facts about histories hold of any state with the same histories.
LEMMA SameHistories ==
  ASSUME TransitionsChain, SinceInPast, ClosedAfterEvidence,
         UNCHANGED <<risk, transitions, since>>
  PROVE  TransitionsChain' /\ SinceInPast' /\ ClosedAfterEvidence'
<1>1. risk' = risk /\ transitions' = transitions /\ since' = since
  OBVIOUS
<1>2. /\ \A r : History(r)' = History(r)
      /\ \A r : Known(r)' <=> Known(r)
  BY <1>1 DEF History, Known
<1>3. TransitionsChain'
  <2>1. \A k \in DOMAIN transitions :
          {j \in History(transitions[k].risk) : j < k}' = {j \in History(transitions[k].risk) : j < k}
    BY <1>1, <1>2
  <2>2. ASSUME NEW k \in DOMAIN transitions
        PROVE  LET before == {j \in History(transitions[k].risk) : j < k}' IN
               /\ before = {} => transitions'[k].from = NoStatus
               /\ \A j \in Latest(before) : /\ transitions'[k].from = transitions'[j].to
                                            /\ Allowed(transitions'[j].to, transitions'[k].to)
    BY <1>1, <2>1, <2>2 DEF TransitionsChain
  <2>3. \A s \in Risks : /\ Known(s)' <=> History(s)' # {}
                         /\ \A k \in Latest(History(s)') : transitions'[k].to = risk'[s].status
    BY <1>1, <1>2 DEF TransitionsChain
  <2>4. QED
    BY <1>1, <2>2, <2>3 DEF TransitionsChain, Latest, Allowed
<1>4. SinceInPast' /\ ClosedAfterEvidence'
  BY <1>1, <1>2 DEF SinceInPast, ClosedAfterEvidence
<1>5. QED
  BY <1>3, <1>4
-----------------------------------------------------------------------------
(* Each operation keeps the invariant.                                     *)

LEMMA IngestInv ==
  ASSUME RisksInv, NEW v \in Inputs, NEW explicit \in Explicit, Ingest(v, explicit)
  PROVE  RisksInv'
<1>1. LedgerInv'
  BY AppendInv DEF RisksInv, Ingest
<1>2. UNCHANGED <<risk, transitions, since, call, stamp>>
  BY DEF Ingest, riskVars, callVars
<1>3. RisksTypeOK'
  <2>1. events \in Seq(Event) /\ ingested \in Seq(Nat) /\ Len(ingested) = Len(events) /\ clock \in Nat
    BY DEF RisksInv, RisksTypeOK, TypeOK
  <2>2. events' = Append(events, v) /\ ingested' = Append(ingested, clock') /\ clock' = clock + 1
    BY DEF Ingest, AppendEvent, ReadClock
  <2>3. ingested' \in Seq(Nat) /\ Len(ingested') = Len(events') /\ clock' \in Nat
    BY <2>1, <2>2
  <2>4. TypeOK'
    BY <1>1 DEF LedgerInv
  <2>5. QED
    BY <1>2, <2>3, <2>4 DEF RisksInv, RisksTypeOK
<1>4. TransitionsChain' /\ SinceInPast' /\ ClosedAfterEvidence'
  BY <1>2, SameHistories DEF RisksInv
<1>5. QED
  BY <1>1, <1>3, <1>4 DEF RisksInv

\* Steps that leave the ledger, the risks and their histories alone.
LEMMA CallInv ==
  ASSUME RisksInv, UNCHANGED <<events, conflicts, ingested, riskVars>>,
         clock' \in Nat, stamp' \in [Callers -> Nat], call' \in [Callers -> Call \cup {NoCall}]
  PROVE  RisksInv'
<1>1. UNCHANGED <<events, conflicts, ingested, risk, transitions, since>>
  BY DEF riskVars
<1>2. LedgerInv'
  BY <1>1, StutterInv DEF RisksInv, ledgerVars
<1>3. RisksTypeOK'
  BY <1>1 DEF RisksInv, RisksTypeOK, TypeOK
<1>4. TransitionsChain' /\ SinceInPast' /\ ClosedAfterEvidence'
  BY <1>1, SameHistories DEF RisksInv
<1>5. QED
  BY <1>2, <1>3, <1>4 DEF RisksInv

\* A step that stores a row: what is left to show is that its status is not
\* closed, or that its evidence is older than its transition.
LEMMA StoreInv ==
  ASSUME RisksInv,
         NEW r \in Risks, NEW row \in Row, NEW from \in Statuses \cup {NoStatus}, NEW at \in Nat,
         Starts(r, row, from), SetRow(r, row, from, at),
         UNCHANGED <<events, conflicts, ingested>>,
         clock' \in Nat, stamp' \in [Callers -> Nat], call' \in [Callers -> Call \cup {NoCall}],
         NEW m \in Nat, since' = [since EXCEPT ![r] = m], m <= Len(transitions'),
         row.status \in Closed => m <= Len(transitions) /\ from # row.status
  PROVE  RisksInv'
<1>1. /\ risk' \in [Risks -> Row \cup {NoRisk}]
      /\ transitions' \in Seq(Transition)
      /\ Len(transitions') \in Nat /\ Len(transitions) <= Len(transitions')
      /\ \A s \in Risks : \A k \in History(s) : k \in History(s)' /\ transitions'[k] = transitions[k]
  BY SetRowType DEF RisksInv
<1>2. /\ since \in [Risks -> Nat] /\ since' \in [Risks -> Nat]
      /\ since'[r] = m /\ \A s \in Risks \ {r} : since'[s] = since[s]
      /\ transitions \in Seq(Transition) /\ Len(transitions) \in Nat
  BY DEF RisksInv, RisksTypeOK
<1>3. LedgerInv'
  BY StutterInv DEF RisksInv, ledgerVars
<1>4. RisksTypeOK'
  BY <1>1, <1>2 DEF RisksInv, RisksTypeOK, TypeOK
<1>5. TransitionsChain'
  BY SetRowChain DEF RisksInv
<1>6. SinceInPast'
  BY <1>1, <1>2 DEF RisksInv, SinceInPast
<1>7. ASSUME NEW s \in Risks, Known(s)', risk'[s].status \in Closed
      PROVE  \E k \in History(s)' : k > since'[s] /\ transitions'[k].to \in Closed
  <2>1. CASE s = r
    <3>1. risk'[r] = row
      BY DEF RisksInv, RisksTypeOK, SetRow
    <3>2. row.status \in Closed
      BY <1>7, <2>1, <3>1
    <3> DEFINE t == [risk |-> r, from |-> from, to |-> row.status, at |-> at]
    <3>3. transitions' = Append(transitions, t) /\ t \in Transition
      BY <3>2 DEF SetRow, Transition, Row
    <3>4. PICK n \in Nat : n = Len(transitions) + 1
      BY <1>2
    <3>5. n \in History(r)' /\ transitions'[n] = t
      BY <1>2, <3>3, <3>4, LogFacts
    <3>6. n > m
      BY <1>2, <3>2, <3>4
    <3>7. QED
      BY <1>2, <2>1, <3>2, <3>5, <3>6
  <2>2. CASE s # r
    <3>1. risk'[s] = risk[s] /\ since'[s] = since[s] /\ Known(s)
      BY <1>2, <1>7, <2>2 DEF SetRow, Known, RisksInv, RisksTypeOK
    <3>2. PICK k \in History(s) : k > since[s] /\ transitions[k].to \in Closed
      BY <1>7, <3>1 DEF RisksInv, ClosedAfterEvidence
    <3>3. QED
      BY <1>1, <3>1, <3>2
  <2>3. QED
    BY <2>1, <2>2
<1>8. QED
  BY <1>3, <1>4, <1>5, <1>6, <1>7 DEF RisksInv, ClosedAfterEvidence

\* The caller that finishes is free again, and everybody keeps their types.
LEMMA EndUpdateFacts ==
  ASSUME RisksInv, NEW u \in Callers, EndUpdate(u)
  PROVE  /\ UNCHANGED <<events, conflicts, ingested>>
         /\ clock' \in Nat /\ stamp' \in [Callers -> Nat]
         /\ call' \in [Callers -> Call \cup {NoCall}]
BY DEF EndUpdate, RisksInv, RisksTypeOK

LEMMA OpenRiskInv ==
  ASSUME RisksInv, NEW u \in Callers, OpenRisk(u)
  PROVE  RisksInv'
<1> DEFINE c == call[u]
           row == [status |-> c.status, fingerprint |-> c.fingerprint,
                   origin |-> c.origin, created |-> c.created]
<1>1. c \in Call /\ stamp[u] \in Nat
  BY DEF OpenRisk, RisksInv, RisksTypeOK
<1>2. c.risk \in Risks /\ row \in Row /\ row.status \in Statuses /\ NoStatus # row.status
  BY <1>1, RisksAssumption DEF Call, Row
<1>3. Starts(c.risk, row, NoStatus) /\ SetRow(c.risk, row, NoStatus, stamp[u])
  BY DEF OpenRisk, Starts
<1>4. /\ Len(transitions) \in Nat /\ Len(transitions) <= Len(transitions')
      /\ Len(transitions) <= Len(transitions)
  <2>1. NoStatus \in Statuses \cup {NoStatus} /\ RisksTypeOK
    BY DEF RisksInv
  <2> HIDE DEF c, row
  <2>2. Len(transitions) \in Nat /\ Len(transitions) <= Len(transitions')
    BY <1>1, <1>2, <1>3, <2>1, SetRowType
  <2>3. QED
    BY <2>2
<1>5. /\ UNCHANGED <<events, conflicts, ingested>>
      /\ clock' \in Nat /\ stamp' \in [Callers -> Nat]
      /\ call' \in [Callers -> Call \cup {NoCall}]
  BY EndUpdateFacts DEF OpenRisk
<1>6. since' = [since EXCEPT ![c.risk] = Len(transitions)]
  BY DEF OpenRisk
<1>7. c.risk \in Risks /\ row \in Row /\ NoStatus \in Statuses \cup {NoStatus} /\ stamp[u] \in Nat
      /\ (row.status \in Closed => Len(transitions) <= Len(transitions) /\ NoStatus # row.status)
  BY <1>1, <1>2, <1>4
<1> HIDE DEF c, row
<1>8. QED
  BY <1>3, <1>4, <1>5, <1>6, <1>7, StoreInv

LEMMA UpdateRiskInv ==
  ASSUME RisksInv, NEW u \in Callers, UpdateRisk(u)
  PROVE  RisksInv'
<1> DEFINE c == call[u]
           from == risk[c.risk].status
           row == [risk[c.risk] EXCEPT !.status = "New", !.fingerprint = c.fingerprint,
                                       !.origin = c.origin]
<1>1. c \in Call /\ stamp[u] \in Nat /\ Known(c.risk)
  BY DEF UpdateRisk, RisksInv, RisksTypeOK
<1>2. c.risk \in Risks /\ c.fingerprint \in Fingerprints /\ c.origin \in EventIds
  BY <1>1 DEF Call
<1>3. risk[c.risk] \in Row
  BY <1>1, <1>2 DEF RisksInv, RisksTypeOK, Known
<1>4. row \in Row /\ row.status = "New" /\ from \in Statuses
  BY <1>2, <1>3 DEF Row, Statuses
<1>5. Starts(c.risk, row, from) /\ SetRow(c.risk, row, from, stamp[u])
  BY <1>1, <1>4 DEF UpdateRisk, Starts, Allowed
<1>6. Len(transitions') \in Nat /\ Len(transitions') <= Len(transitions')
  BY <1>1, <1>2, <1>4, <1>5, SetRowType DEF RisksInv
<1>7. /\ UNCHANGED <<events, conflicts, ingested>>
      /\ clock' \in Nat /\ stamp' \in [Callers -> Nat]
      /\ call' \in [Callers -> Call \cup {NoCall}]
  BY EndUpdateFacts DEF UpdateRisk
<1>8. since' = [since EXCEPT ![c.risk] = Len(transitions')]
  BY DEF UpdateRisk
<1>9. /\ c.risk \in Risks /\ row \in Row /\ from \in Statuses \cup {NoStatus} /\ stamp[u] \in Nat
      /\ row.status \notin Closed
  BY <1>1, <1>2, <1>4 DEF Closed
<1> HIDE DEF c, row, from
<1>10. QED
  BY <1>5, <1>6, <1>7, <1>8, <1>9, StoreInv

LEMMA TransitionRiskInv ==
  ASSUME RisksInv, NEW r \in Risks, NEW to \in Targets, TransitionRisk(r, to)
  PROVE  RisksInv'
<1> DEFINE from == risk[r].status
           row == [risk[r] EXCEPT !.status = to]
<1>1. risk[r] \in Row /\ to \in Statuses
  BY RisksAssumption DEF TransitionRisk, RisksInv, RisksTypeOK, Known
<1>2. row \in Row /\ row.status = to /\ from \in Statuses
  BY <1>1 DEF Row
<1>3. Starts(r, row, from) /\ from # row.status
  BY <1>2 DEF TransitionRisk, Starts, Allowed
<1>4. clock' \in Nat /\ SetRow(r, row, from, clock')
  BY DEF TransitionRisk, ReadClock, RisksInv, RisksTypeOK
<1>5. /\ Len(transitions) \in Nat /\ Len(transitions') \in Nat
      /\ Len(transitions) <= Len(transitions')
  BY <1>2, <1>3, <1>4, SetRowType DEF RisksInv
<1>6. /\ UNCHANGED <<events, conflicts, ingested>>
      /\ stamp' \in [Callers -> Nat] /\ call' \in [Callers -> Call \cup {NoCall}]
      /\ since' = since /\ since \in [Risks -> Nat]
  BY DEF TransitionRisk, callVars, RisksInv, RisksTypeOK
<1>7. PICK m \in Nat : m = since[r]
  BY <1>6
<1>8. since' = [since EXCEPT ![r] = m] /\ m <= Len(transitions)
  BY <1>6, <1>7 DEF RisksInv, SinceInPast
<1>9. /\ m <= Len(transitions')
      /\ row \in Row /\ from \in Statuses \cup {NoStatus}
      /\ (row.status \in Closed => m <= Len(transitions) /\ from # row.status)
  BY <1>2, <1>3, <1>5, <1>8
<1> HIDE DEF row, from
<1>10. QED
  BY <1>3, <1>4, <1>6, <1>8, <1>9, StoreInv

LEMMA RisksNextInv == RisksInv /\ [RisksNext]_risksVars => RisksInv'
<1> SUFFICES ASSUME RisksInv, [RisksNext]_risksVars PROVE RisksInv'
  OBVIOUS
<1>1. ASSUME NEW v \in Inputs, NEW explicit \in Explicit, Ingest(v, explicit) PROVE RisksInv'
  BY <1>1, IngestInv
<1>2. ASSUME NEW u \in Callers, OpenRisk(u) PROVE RisksInv'
  BY <1>2, OpenRiskInv
<1>3. ASSUME NEW u \in Callers, UpdateRisk(u) PROVE RisksInv'
  BY <1>3, UpdateRiskInv
<1>4. ASSUME NEW u \in Callers, DropUpdate(u) PROVE RisksInv'
  BY <1>4, EndUpdateFacts, CallInv DEF DropUpdate
<1>5. ASSUME NEW u \in Callers, NEW c \in Calls, BeginUpdate(u, c) PROVE RisksInv'
  <2>1. c \in Call
    BY RisksAssumption
  <2>2. /\ clock' \in Nat /\ stamp' \in [Callers -> Nat]
        /\ call' \in [Callers -> Call \cup {NoCall}]
    BY <1>5, <2>1 DEF BeginUpdate, ReadClock, RisksInv, RisksTypeOK
  <2>3. QED
    BY <1>5, <2>2, CallInv DEF BeginUpdate
<1>6. ASSUME NEW r \in Risks, NEW to \in Targets, TransitionRisk(r, to) PROVE RisksInv'
  BY <1>6, TransitionRiskInv
<1>7. ASSUME UNCHANGED risksVars PROVE RisksInv'
  BY <1>7, CallInv DEF risksVars, riskVars, callVars, RisksInv, RisksTypeOK
<1>8. QED
  BY <1>1, <1>2, <1>3, <1>4, <1>5, <1>6, <1>7 DEF RisksNext, RefuseTransition
-----------------------------------------------------------------------------
(* Theorems.                                                               *)

LEMMA RisksInitInv == RisksInit => RisksInv
<1> SUFFICES ASSUME RisksInit PROVE RisksInv
  OBVIOUS
<1>1. LedgerInv
  BY InitInv DEF RisksInit
<1>2. RisksTypeOK
  BY <1>1 DEF RisksInit, Init, LedgerInv, RisksTypeOK
<1>3. \A r \in Risks : History(r) = {} /\ ~ Known(r)
  BY DEF RisksInit, History, Known
<1>4. TransitionsChain /\ ClosedAfterEvidence
  BY <1>3 DEF RisksInit, TransitionsChain, ClosedAfterEvidence, Latest
<1>5. SinceInPast
  BY DEF RisksInit, SinceInPast
<1>6. QED
  BY <1>1, <1>2, <1>4, <1>5 DEF RisksInv

\* The inductive invariant holds, the ledger's included.
THEOREM RisksCorrect == RisksSpec => []RisksInv
BY RisksInitInv, RisksNextInv, PTL DEF RisksSpec

\* The tables keep their types.
THEOREM RisksTypes == RisksSpec => []RisksTypeOK
<1>1. RisksInv => RisksTypeOK
  BY DEF RisksInv
<1>2. QED
  BY <1>1, RisksCorrect, PTL

\* Each risk's history is a path of the lifecycle that ends in its status
\* (risks.py:140-210, 230-250).
THEOREM HistoriesChain == RisksSpec => []TransitionsChain
<1>1. RisksInv => TransitionsChain
  BY DEF RisksInv
<1>2. QED
  BY <1>1, RisksCorrect, PTL

\* An event is hidden from Watch only by a decision later than the evidence
\* (risks.py:180-210, state.py:944-962).
THEOREM HiddenByDecision == RisksSpec => []HiddenWasWeighed
<1>1. RisksInv => HiddenWasWeighed
  BY DEF RisksInv, ClosedAfterEvidence, HiddenWasWeighed, RisksFrom
<1>2. QED
  BY <1>1, RisksCorrect, PTL
-----------------------------------------------------------------------------
(* What later steps do to the answers about the past.                      *)

\* An answer depends on the event, its risks, their statuses then, and the
\* disputes there were.
LEMMA AnswerFacts ==
  ASSUME NEW i, NEW c, events'[i] = events[i],
         RisksFrom(events[i].id)' = RisksFrom(events[i].id),
         RiskStatuses(i, c)' = RiskStatuses(i, c),
         Redacted(i, c)' = Redacted(i, c)
  PROVE  AnswerAt(i, c)' = AnswerAt(i, c)
BY DEF AnswerAt, InAnswer

\* The status of a risk at c is what it was unless a transition by c is added.
LEMMA StatusKept ==
  ASSUME RisksTypeOK, NEW r \in Risks, NEW row \in Row,
         NEW from \in Statuses \cup {NoStatus}, NEW at \in Nat, SetRow(r, row, from, at),
         NEW s \in Risks, NEW c \in Nat, s # r \/ at > c
  PROVE  StatusAt(s, c)' = StatusAt(s, c)
<1>1. /\ Recorded(s, c)' = Recorded(s, c)
      /\ \A k \in Recorded(s, c) : transitions'[k] = transitions[k]
  <2>1. CASE from = row.status
    BY <2>1 DEF SetRow, Recorded
  <2>2. CASE from # row.status
    <3> DEFINE t == [risk |-> r, from |-> from, to |-> row.status, at |-> at]
    <3>1. t \in Transition /\ transitions' = Append(transitions, t) /\ transitions \in Seq(Transition)
      BY <2>2 DEF SetRow, Transition, Row, RisksTypeOK
    <3>2. PICK n \in Nat : n = Len(transitions) + 1
      BY <3>1
    <3>3. /\ DOMAIN transitions' = DOMAIN transitions \cup {n}
          /\ \A k \in DOMAIN transitions : transitions'[k] = transitions[k] /\ k < n /\ k \in Nat
          /\ transitions'[n] = t
      BY <3>1, <3>2, LogFacts
    <3>4. ~ (t.risk = s /\ t.at <= c)
      OBVIOUS
    <3>5. QED
      BY <3>3, <3>4 DEF Recorded
  <2>3. QED
    BY <2>1, <2>2
<1>2. {m \in Recorded(s, c) : \A j \in Recorded(s, c) : transitions[j].at <= transitions[m].at}'
        = {m \in Recorded(s, c) : \A j \in Recorded(s, c) : transitions[j].at <= transitions[m].at}
  BY <1>1
<1>3. QED
  BY <1>1, <1>2 DEF StatusAt

\* Steps that leave the rows of risks and transitions alone keep the statuses.
LEMMA SameStatuses ==
  ASSUME UNCHANGED <<risk, transitions>>, NEW i, events'[i] = events[i], NEW c
  PROVE  /\ RisksFrom(events[i].id)' = RisksFrom(events[i].id)
         /\ RiskStatuses(i, c)' = RiskStatuses(i, c)
<1>1. RisksFrom(events[i].id)' = RisksFrom(events[i].id) /\ RisksAt(i, c)' = RisksAt(i, c)
  BY DEF RisksFrom, RisksAt, Known
<1>2. \A r : StatusAt(r, c)' = StatusAt(r, c)
  BY DEF StatusAt, Recorded
<1>3. QED
  BY <1>1, <1>2 DEF RiskStatuses

\* Storing a row keeps the answer about an event whose risks stay the same,
\* when it is no risk of the event or the transition is later than c.
LEMMA StoreStable ==
  ASSUME RisksTypeOK, NEW r \in Risks, NEW row \in Row,
         NEW from \in Statuses \cup {NoStatus}, NEW at \in Nat, SetRow(r, row, from, at),
         UNCHANGED <<events, conflicts, ingested>>,
         NEW i \in DOMAIN events, NEW c \in Nat,
         RisksFrom(events[i].id)' = RisksFrom(events[i].id),
         r \in RisksFrom(events[i].id) => at > c /\ row.created = risk[r].created
  PROVE  AnswerAt(i, c)' = AnswerAt(i, c)
<1> DEFINE F == RisksFrom(events[i].id)
<1>1. \A s \in F : risk'[s].created = risk[s].created
  BY DEF RisksFrom, SetRow, RisksTypeOK
<1>2. RisksAt(i, c)' = RisksAt(i, c) /\ RisksAt(i, c) \subseteq F
  BY <1>1 DEF RisksAt
<1>3. \A s \in F : StatusAt(s, c)' = StatusAt(s, c)
  <2>1. \A s \in F : s \in Risks /\ (s # r \/ at > c)
    BY DEF RisksFrom
  <2>2. QED
    BY <2>1, StatusKept
<1>4. RiskStatuses(i, c)' = RiskStatuses(i, c)
  BY <1>2, <1>3 DEF RiskStatuses
<1>5. Redacted(i, c)' = Redacted(i, c)
  BY DEF Redacted, VisibleConflict
<1>6. QED
  BY <1>4, <1>5, AnswerFacts

\* A new event leaves the disputes of a past time as they were, unless it is a
\* correction observed by then.
LEMMA DisputesStable ==
  ASSUME RisksInv, NEW v \in Inputs, NEW explicit \in Explicit, Ingest(v, explicit),
         NEW i \in DOMAIN events, NEW c \in 0 .. clock, ~ LateCorrection(i, c)
  PROVE  events'[i] = events[i] /\ Redacted(i, c)' = Redacted(i, c)
<1> DEFINE t == events[i].task
<1>1. /\ v \in Event /\ explicit \in BOOLEAN /\ AppendEvent(v, explicit)
      /\ TypeOK /\ ConflictsWellFormed
      /\ Observed \in [EventIds -> Nat] /\ NoEvent \notin EventIds
  BY LedgerAssumption, RisksAssumption DEF Ingest, RisksInv, LedgerInv
<1>2. PICK n \in Nat : n = Len(events) + 1
  BY <1>1 DEF TypeOK
<1>3. /\ DOMAIN events = 1 .. Len(events) /\ DOMAIN events' = 1 .. n
      /\ \A k \in DOMAIN events : events'[k] = events[k] /\ k < n /\ k \in Nat
      /\ events'[n] = v
  BY <1>1, <1>2, AppendFacts DEF TypeOK, AppendEvent
<1>4. /\ \A k \in DOMAIN events : ingested'[k] = ingested[k]
      /\ ingested'[n] = clock + 1 /\ clock \in Nat
  BY <1>2 DEF Ingest, ReadClock, RisksInv, RisksTypeOK
<1>5. v.id \in EventIds /\ v.id # NoEvent /\ Observed[v.id] \in Nat /\ c \in Nat
  BY <1>1, <1>4 DEF Event
<1>6. \A b \in conflicts : ingested'[b.created] = ingested[b.created]
  BY <1>1, <1>2, <1>4, CreatedEarlier
<1>7. ASSUME NEW b \in Settled(v), b.task = t PROVE Observed[v.id] > c
  <2>1. v.task = t /\ v.type \in CorrectionTypes
    BY <1>1, <1>7, SettledFacts
  <2>2. n \in DOMAIN events' \ DOMAIN events
    BY <1>2, <1>3
  <2>3. QED
    BY <1>3, <1>5, <2>1, <2>2 DEF LateCorrection
<1>8. ASSUME NEW b \in conflicts, b.task = t, VisibleConflict(b, c)
      PROVE  \E d \in conflicts' : d.task = t /\ VisibleConflict(d, c)'
  <2>1. CASE b \notin Settled(v)
    BY <1>1, <1>6, <1>8, <2>1, ConflictFacts DEF VisibleConflict
  <2>2. CASE b \in Settled(v)
    <3> DEFINE d == Resolve(b, v.id)
    <3>1. /\ d \in conflicts' /\ d.task = t
          /\ d.left = b.left /\ d.right = b.right /\ d.created = b.created /\ d.resolved_by = v.id
      BY <1>1, <1>8, <2>2, ConflictFacts, SettledFacts
    <3>2. Observed[v.id] > c
      BY <1>7, <1>8, <2>2
    <3>3. VisibleConflict(d, c)'
      BY <1>6, <1>8, <3>1, <3>2 DEF VisibleConflict
    <3>4. QED
      BY <3>1, <3>3
  <2>3. QED
    BY <2>1, <2>2
<1>9. ASSUME NEW d \in conflicts', d.task = t, VisibleConflict(d, c)'
      PROVE  \E b \in conflicts : b.task = t /\ VisibleConflict(b, c)
  <2>1. CASE d \in conflicts
    BY <1>6, <1>9, <2>1 DEF VisibleConflict
  <2>2. CASE \E b \in Settled(v) : d = Resolve(b, v.id)
    <3>1. PICK b \in Settled(v) : d = Resolve(b, v.id)
      BY <2>2
    <3>2. /\ b \in conflicts /\ b.resolved_by = NoEvent
          /\ d.task = b.task /\ d.left = b.left /\ d.right = b.right /\ d.created = b.created
      BY <1>1, <3>1, SettledFacts
    <3>3. QED
      BY <1>6, <1>9, <3>2 DEF VisibleConflict
  <2>3. CASE d \in Opened(v, explicit)
    <3>1. d.created = n
      BY <1>1, <1>2, <2>3, OpenedFacts
    <3>2. ingested'[n] <= c
      BY <1>9, <3>1 DEF VisibleConflict
    <3>3. QED
      BY <1>4, <3>2
  <2>4. QED
    BY <1>1, <1>9, <2>1, <2>2, <2>3, ConflictFacts
<1>10. QED
  BY <1>3, <1>8, <1>9 DEF Redacted

\* A query as of a past time keeps its answer, but for what PastStable names
\* (state.py:237-249, 402-434, 1077-1099).
THEOREM AnswersKept == RisksSpec => PastStable
<1> DEFINE Stable(i, c) ==
             \/ AnswerAt(i, c)' = AnswerAt(i, c)
             \/ RisksFrom(events[i].id)' # RisksFrom(events[i].id)
             \/ \E r \in RisksFrom(events[i].id) : LateUpdate(r, c)
             \/ LateCorrection(i, c)
<1>1. ASSUME RisksInv, NEW i \in DOMAIN events, NEW c \in 0 .. clock, [RisksNext]_risksVars
      PROVE  Stable(i, c)
  <2>1. RisksTypeOK /\ c \in Nat /\ clock \in Nat /\ c <= clock
    BY <1>1 DEF RisksInv, RisksTypeOK
  <2>2. ASSUME UNCHANGED <<events, conflicts, ingested, risk, transitions>> PROVE Stable(i, c)
    <3>1. Redacted(i, c)' = Redacted(i, c)
      BY <2>2 DEF Redacted, VisibleConflict
    <3>2. QED
      BY <2>2, <3>1, SameStatuses, AnswerFacts
  <2>3. ASSUME NEW v \in Inputs, NEW explicit \in Explicit, Ingest(v, explicit)
        PROVE  Stable(i, c)
    <3>1. CASE LateCorrection(i, c)
      BY <3>1
    <3>2. CASE ~ LateCorrection(i, c)
      <4>1. events'[i] = events[i] /\ Redacted(i, c)' = Redacted(i, c)
        BY <1>1, <2>3, <3>2, DisputesStable
      <4>2. UNCHANGED <<risk, transitions>>
        BY <2>3 DEF Ingest, riskVars
      <4>3. QED
        BY <4>1, <4>2, SameStatuses, AnswerFacts
    <3>3. QED
      BY <3>1, <3>2
  <2>4. ASSUME NEW u \in Callers, OpenRisk(u) PROVE Stable(i, c)
    <3> DEFINE r == call[u].risk
               row == [status |-> call[u].status, fingerprint |-> call[u].fingerprint,
                       origin |-> call[u].origin, created |-> call[u].created]
    <3>1. call[u] \in Call /\ stamp[u] \in Nat
      BY <2>1, <2>4 DEF OpenRisk, RisksTypeOK
    <3>2. r \in Risks /\ row \in Row /\ ~ Known(r) /\ SetRow(r, row, NoStatus, stamp[u])
      BY <2>4, <3>1, RisksAssumption DEF OpenRisk, Call, Row
    <3>3. UNCHANGED <<events, conflicts, ingested>> /\ r \notin RisksFrom(events[i].id)
      BY <2>4, <3>2 DEF OpenRisk, EndUpdate, RisksFrom
    <3>4. NoStatus \in Statuses \cup {NoStatus}
      OBVIOUS
    <3> HIDE DEF r, row
    <3>5. QED
      BY <2>1, <3>1, <3>2, <3>3, <3>4, StoreStable
  <2>5. ASSUME NEW u \in Callers, UpdateRisk(u) PROVE Stable(i, c)
    <3> DEFINE r == call[u].risk
               from == risk[r].status
               row == [risk[r] EXCEPT !.status = "New", !.fingerprint = call[u].fingerprint,
                                      !.origin = call[u].origin]
    <3>1. call[u] \in Call /\ stamp[u] \in Nat /\ call[u] # NoCall /\ Known(r)
      BY <2>1, <2>5 DEF UpdateRisk, RisksTypeOK
    <3>2. r \in Risks /\ risk[r] \in Row
      BY <2>1, <3>1 DEF Call, Known, RisksTypeOK
    <3>3. row \in Row /\ row.created = risk[r].created /\ from \in Statuses \cup {NoStatus}
      BY <3>1, <3>2 DEF Call, Row, Statuses
    <3>4. /\ SetRow(r, row, from, stamp[u])
          /\ UNCHANGED <<events, conflicts, ingested>> /\ call'[u] = NoCall
      BY <2>1, <2>5 DEF UpdateRisk, EndUpdate, RisksTypeOK
    <3>5. stamp[u] <= c => LateUpdate(r, c)
      BY <3>1, <3>4 DEF LateUpdate
    <3>6. stamp[u] <= c \/ stamp[u] > c
      BY <2>1, <3>1
    <3> HIDE DEF r, row, from
    <3>7. QED
      BY <2>1, <3>1, <3>2, <3>3, <3>4, <3>5, <3>6, StoreStable
  <2>6. ASSUME NEW r \in Risks, NEW to \in Targets, TransitionRisk(r, to) PROVE Stable(i, c)
    <3> DEFINE from == risk[r].status
               row == [risk[r] EXCEPT !.status = to]
    <3>1. risk[r] \in Row /\ to \in Statuses
      BY <2>1, <2>6, RisksAssumption DEF TransitionRisk, RisksTypeOK, Known
    <3>2. row \in Row /\ row.created = risk[r].created /\ from \in Statuses \cup {NoStatus}
      BY <3>1 DEF Row
    <3>3. /\ SetRow(r, row, from, clock') /\ clock' \in Nat /\ clock' > c
          /\ UNCHANGED <<events, conflicts, ingested>>
      BY <2>1, <2>6 DEF TransitionRisk, ReadClock
    <3> HIDE DEF row, from
    <3>4. QED
      BY <2>1, <3>2, <3>3, StoreStable
  <2>7. ASSUME NEW u \in Callers, DropUpdate(u) \/ \E d \in Calls : BeginUpdate(u, d)
        PROVE  Stable(i, c)
    BY <2>2, <2>7 DEF DropUpdate, BeginUpdate, EndUpdate, riskVars
  <2>8. ASSUME UNCHANGED risksVars PROVE Stable(i, c)
    BY <2>2, <2>8 DEF risksVars, riskVars
  <2>9. QED
    BY <1>1, <2>3, <2>4, <2>5, <2>6, <2>7, <2>8 DEF RisksNext, RefuseTransition
<1>2. RisksInv /\ [RisksNext]_risksVars
        => [\A i \in DOMAIN events, c \in 0 .. clock : Stable(i, c)]_risksVars
  BY <1>1
<1>3. QED
  BY <1>2, RisksCorrect, PTL DEF RisksSpec, PastStable
-----------------------------------------------------------------------------
(* Pages.                                                                  *)

\* A page's timeline is a prefix of the ledger.
TimelineInPast ==
  /\ page \in [Viewers -> Page \cup {NoPage}]
  /\ \A w \in Viewers : page[w] # NoPage => page[w].upto <= Len(events)

\* A dispute of the project that the timeline reaches and that is still open
\* was read as one.
DisputesRead ==
  \A w \in Viewers : page[w] # NoPage /\ page[w].read = "conflicts" =>
    \A c \in conflicts :
      c.created <= page[w].upto /\ c.resolved_by = NoEvent /\ Owner[c.task] = page[w].project
        => c.task \in page[w].disputed

\* The inductive invariant.
PagesInv == RisksInv /\ TimelineInPast /\ DisputesRead
-----------------------------------------------------------------------------
(* The steps.                                                              *)

\* The ledger only grows, and a dispute that is open after a step was open
\* before it or is younger than every timeline.
LEMMA LedgerGrows ==
  ASSUME RisksInv, [RisksNext]_risksVars
  PROVE  /\ Len(events) \in Nat /\ Len(events') \in Nat /\ Len(events) <= Len(events')
         /\ \A c \in conflicts' : c.resolved_by = NoEvent =>
              c \in conflicts \/ c.created > Len(events)
<1>1. TypeOK /\ events \in Seq(Event) /\ Len(events) \in Nat
  BY DEF RisksInv, LedgerInv, TypeOK
<1>2. CASE UNCHANGED <<events, conflicts>>
  BY <1>1, <1>2
<1>3. ASSUME NEW v \in Inputs, NEW explicit \in Explicit, Ingest(v, explicit)
      PROVE  /\ Len(events') = Len(events) + 1
             /\ \A c \in conflicts' : c.resolved_by = NoEvent =>
                  c \in conflicts \/ c.created > Len(events)
  <2>1. v \in Event /\ explicit \in BOOLEAN /\ AppendEvent(v, explicit) /\ NoEvent \notin EventIds
    BY <1>3, LedgerAssumption DEF Ingest
  <2>2. PICK n \in Nat : n = Len(events) + 1
    BY <1>1
  <2>3. \A c \in Settled(v) : Resolve(c, v.id).resolved_by # NoEvent
    BY <1>1, <2>1, SettledFacts DEF Event
  <2>4. \A c \in Opened(v, explicit) : c.created = n
    BY <1>1, <2>1, <2>2, OpenedFacts
  <2>5. Len(events') = n
    BY <1>1, <2>1, <2>2 DEF AppendEvent
  <2>6. ASSUME NEW c \in conflicts', c.resolved_by = NoEvent
        PROVE  c \in conflicts \/ c.created > Len(events)
    <3>1. c \in conflicts \/ c \in Opened(v, explicit)
      BY <1>1, <2>1, <2>3, <2>6, ConflictFacts
    <3>2. QED
      BY <1>1, <2>2, <2>4, <3>1
  <2>7. QED
    BY <2>2, <2>5, <2>6
<1>4. ASSUME ~ \E v \in Inputs, explicit \in Explicit : Ingest(v, explicit)
      PROVE  UNCHANGED <<events, conflicts>>
  <2>1. \A u \in Callers : OpenRisk(u) \/ UpdateRisk(u) \/ DropUpdate(u)
                            => UNCHANGED <<events, conflicts>>
    BY DEF OpenRisk, UpdateRisk, DropUpdate, EndUpdate
  <2>2. \A u \in Callers : \A c \in Calls : BeginUpdate(u, c) => UNCHANGED <<events, conflicts>>
    BY DEF BeginUpdate
  <2>3. \A r \in Risks : \A to \in Targets :
          TransitionRisk(r, to) \/ RefuseTransition(r, to) => UNCHANGED <<events, conflicts>>
    BY DEF TransitionRisk, RefuseTransition, risksVars
  <2>4. UNCHANGED risksVars => UNCHANGED <<events, conflicts>>
    BY DEF risksVars
  <2>5. QED
    BY <1>4, <2>1, <2>2, <2>3, <2>4 DEF RisksNext
<1>5. CASE \E v \in Inputs, explicit \in Explicit : Ingest(v, explicit)
  <2>1. PICK v \in Inputs, explicit \in Explicit : Ingest(v, explicit)
    BY <1>5
  <2>2. /\ Len(events') = Len(events) + 1
        /\ \A c \in conflicts' : c.resolved_by = NoEvent =>
             c \in conflicts \/ c.created > Len(events)
    BY <1>3, <2>1
  <2>3. QED
    BY <1>1, <2>2
<1>6. QED
  BY <1>2, <1>4, <1>5

\* Making a page is no step of Risks.
LEMMA PagesStep == [PagesNext]_pagesVars => [RisksNext]_risksVars
BY DEF PagesNext, ReadTimeline, ReadConflicts, ReadRisks, pagesVars

\* Whatever the store does, the pages being made keep their invariant.
LEMMA StoreStep ==
  ASSUME PagesInv, [RisksNext]_risksVars, UNCHANGED page
  PROVE  TimelineInPast' /\ DisputesRead'
<1>1. /\ Len(events) \in Nat /\ Len(events') \in Nat /\ Len(events) <= Len(events')
      /\ \A c \in conflicts' : c.resolved_by = NoEvent =>
           c \in conflicts \/ c.created > Len(events)
  BY LedgerGrows DEF PagesInv
<1>2. \A w \in Viewers : page[w] # NoPage => page[w].upto \in Nat /\ page[w].upto <= Len(events)
  BY DEF PagesInv, TimelineInPast, Page
<1>3. TimelineInPast'
  BY <1>1, <1>2 DEF PagesInv, TimelineInPast
<1>4. ASSUME NEW w \in Viewers, page[w] # NoPage, page[w].read = "conflicts",
             NEW c \in conflicts', c.created <= page[w].upto, c.resolved_by = NoEvent,
             Owner[c.task] = page[w].project
      PROVE  c.task \in page[w].disputed
  <2>1. CASE c \in conflicts
    BY <1>4, <2>1 DEF PagesInv, DisputesRead
  <2>2. CASE c \notin conflicts
    <3>1. c.created > Len(events)
      BY <1>1, <1>4, <2>2
    <3>2. RisksInv'
      BY RisksNextInv DEF PagesInv
    <3>3. c.created \in Nat
      BY <1>4, <3>2 DEF RisksInv, LedgerInv, TypeOK, Conflict
    <3>4. QED
      BY <1>1, <1>2, <1>4, <3>1, <3>3
  <2>3. QED
    BY <2>1, <2>2
<1>5. QED
  BY <1>3, <1>4 DEF DisputesRead

LEMMA ReadTimelineInv ==
  ASSUME PagesInv, NEW w \in Viewers, NEW p \in Projects, ReadTimeline(w, p)
  PROVE  TimelineInPast' /\ DisputesRead'
<1> DEFINE g == [project |-> p, upto |-> Len(events), disputed |-> {}, read |-> "timeline"]
<1>1. /\ page \in [Viewers -> Page \cup {NoPage}] /\ Len(events) \in Nat
      /\ page' = [page EXCEPT ![w] = g] /\ events' = events /\ conflicts' = conflicts
  BY DEF PagesInv, TimelineInPast, ReadTimeline, risksVars, RisksInv, LedgerInv, TypeOK
<1>2. g \in Page /\ g.upto = Len(events) /\ g.read = "timeline"
  BY <1>1 DEF Page
<1> HIDE DEF g
<1>3. page'[w] = g /\ \A z \in Viewers \ {w} : page'[z] = page[z]
  BY <1>1
<1>4. TimelineInPast'
  BY <1>1, <1>2, <1>3 DEF PagesInv, TimelineInPast
<1>5. DisputesRead'
  BY <1>1, <1>2, <1>3 DEF PagesInv, DisputesRead
<1>6. QED
  BY <1>4, <1>5

LEMMA ReadConflictsInv ==
  ASSUME PagesInv, NEW w \in Viewers, ReadConflicts(w)
  PROVE  TimelineInPast' /\ DisputesRead'
<1> DEFINE D == {t \in Tasks : Owner[t] = page[w].project /\ Open(t) # {}}
           g == [page[w] EXCEPT !.read = "conflicts", !.disputed = D]
<1>1. /\ page \in [Viewers -> Page \cup {NoPage}] /\ page[w] \in Page
      /\ events' = events /\ conflicts' = conflicts
  BY DEF PagesInv, TimelineInPast, ReadConflicts, risksVars
<1>2. page' = [page EXCEPT ![w] = g]
  BY <1>1 DEF ReadConflicts
<1>3. /\ g \in Page /\ g.upto = page[w].upto /\ g.project = page[w].project
      /\ g.disputed = D
  BY <1>1 DEF Page
<1>4. page[w] # NoPage
  BY DEF ReadConflicts
<1>5. ASSUME NEW c \in conflicts, c.resolved_by = NoEvent, Owner[c.task] = g.project
      PROVE  c.task \in g.disputed
  <2>1. c.task \in Tasks /\ c \in Open(c.task)
    BY <1>5 DEF Open, PagesInv, RisksInv, LedgerInv, TypeOK, Conflict
  <2>2. QED
    BY <1>3, <1>5, <2>1
<1> HIDE DEF g, D
<1>6. page'[w] = g /\ \A z \in Viewers \ {w} : page'[z] = page[z]
  BY <1>1, <1>2
<1>7. TimelineInPast'
  BY <1>1, <1>2, <1>3, <1>4, <1>6 DEF PagesInv, TimelineInPast
<1>8. DisputesRead'
  BY <1>1, <1>5, <1>6 DEF PagesInv, DisputesRead
<1>9. QED
  BY <1>7, <1>8

LEMMA ReadRisksInv ==
  ASSUME PagesInv, NEW w \in Viewers, ReadRisks(w)
  PROVE  TimelineInPast' /\ DisputesRead'
<1>1. /\ page \in [Viewers -> Page \cup {NoPage}] /\ page' = [page EXCEPT ![w] = NoPage]
      /\ events' = events /\ conflicts' = conflicts
  BY DEF PagesInv, TimelineInPast, ReadRisks, risksVars
<1>2. page'[w] = NoPage /\ \A z \in Viewers \ {w} : page'[z] = page[z]
  BY <1>1
<1>3. TimelineInPast'
  BY <1>1, <1>2 DEF PagesInv, TimelineInPast
<1>4. DisputesRead'
  BY <1>1, <1>2 DEF PagesInv, DisputesRead
<1>5. QED
  BY <1>3, <1>4

LEMMA PagesNextInv == PagesInv /\ [PagesNext]_pagesVars => PagesInv'
<1> SUFFICES ASSUME PagesInv, [PagesNext]_pagesVars PROVE PagesInv'
  OBVIOUS
<1>1. RisksInv'
  BY PagesStep, RisksNextInv DEF PagesInv
<1>2. CASE [RisksNext]_risksVars /\ UNCHANGED page
  BY <1>1, <1>2, StoreStep DEF PagesInv
<1>3. ASSUME NEW w \in Viewers, NEW p \in Projects, ReadTimeline(w, p) PROVE PagesInv'
  BY <1>1, <1>3, ReadTimelineInv DEF PagesInv
<1>4. ASSUME NEW w \in Viewers, ReadConflicts(w) PROVE PagesInv'
  BY <1>1, <1>4, ReadConflictsInv DEF PagesInv
<1>5. ASSUME NEW w \in Viewers, ReadRisks(w) PROVE PagesInv'
  BY <1>1, <1>5, ReadRisksInv DEF PagesInv
<1>6. QED
  BY <1>2, <1>3, <1>4, <1>5 DEF PagesNext, pagesVars
-----------------------------------------------------------------------------
(* Theorems.                                                               *)

\* Making pages implements Risks: all that is proved of it holds here too.
THEOREM PagesKeepRisks == PagesSpec => RisksSpec
BY PagesStep, PTL DEF PagesSpec, PagesInit, RisksSpec

\* The pages' inductive invariant (state.py:1249-1370).
THEOREM PagesCorrect == PagesSpec => []PagesInv
<1>1. PagesInit => PagesInv
  BY RisksInitInv DEF PagesInit, PagesInv, TimelineInPast, DisputesRead
<1>2. QED
  BY <1>1, PagesNextInv, PTL DEF PagesSpec

\* The rows of a task on a page are the task's events when the timeline was read.
LEMMA RowFacts ==
  ASSUME PagesInv, NEW w \in Viewers, page[w] # NoPage, NEW t
  PROVE  /\ TaskRows(page[w], t) = {j \in On(t) : j <= page[w].upto}
         /\ ConfirmedRows(page[w], t) = {j \in StateOn(t) : j <= page[w].upto /\ Supported(j)}
         /\ TaskRows(page[w], t) \in SUBSET Nat
<1>1. page[w].upto \in Nat /\ page[w].upto <= Len(events) /\ events \in Seq(Event)
  BY DEF PagesInv, TimelineInPast, Page, RisksInv, LedgerInv, TypeOK
<1>2. DOMAIN events = 1 .. Len(events) /\ Len(events) \in Nat
  BY <1>1
<1>3. \A j : j \in 1 .. page[w].upto <=> j \in DOMAIN events /\ j <= page[w].upto
  BY <1>1, <1>2
<1>4. QED
  BY <1>1, <1>3 DEF TaskRows, ConfirmedRows, On, StateOn

\* A next action on a page was due when its timeline was read, or its dispute
\* was settled while the page was made (state.py:1206-1232, 1255-1257).
THEOREM NextWorkDue == PagesSpec => []NextWorkWasDue
<1>1. PagesInv => NextWorkWasDue
  <2> SUFFICES ASSUME PagesInv, NEW w \in Viewers, page[w] # NoPage,
                      page[w].read = "conflicts", NEW i \in NextWork(page[w])
               PROVE  \/ Due(i, page[w].upto)
                      \/ OpenAfter(events[i].task, page[w].upto) \ Open(events[i].task) # {}
    BY DEF NextWorkWasDue
  <2> DEFINE g == page[w]
             t == events[i].task
             confirmed == {j \in StateOn(t) : j <= g.upto /\ Supported(j)}
  <2>1. /\ Owner[t] = g.project /\ t \notin g.disputed
        /\ i \in Latest(TaskRows(g, t))
        /\ \E j \in Latest(ConfirmedRows(g, t)) : events[j].new_state \notin Inactive
    BY DEF NextWork, Current, UnderWay
  <2>2. /\ i \in Latest({j \in On(t) : j <= g.upto})
        /\ \E j \in Latest(confirmed) : events[j].new_state \notin Inactive
    BY <2>1, RowFacts
  <2>3. CASE OpenAfter(t, g.upto) = {}
    BY <2>2, <2>3 DEF Due
  <2>4. ASSUME NEW c \in OpenAfter(t, g.upto), c \in Open(t) PROVE FALSE
    <3>1. c \in conflicts /\ c.task = t /\ c.created <= g.upto /\ c.resolved_by = NoEvent
      BY <2>4 DEF OpenAfter, Open
    <3>2. c.task \in g.disputed
      BY <2>1, <3>1 DEF PagesInv, DisputesRead
    <3>3. QED
      BY <2>1, <3>1, <3>2
  <2>5. QED
    BY <2>3, <2>4
<1>2. QED
  BY <1>1, PagesCorrect, PTL

\* A blocker or risk is missing from the watch only by a later decision about
\* it (state.py:944-980, 1416-1429).
THEOREM WatchIsComplete == PagesSpec => []WatchComplete
<1>1. PagesInv => WatchComplete
  <2> SUFFICES ASSUME PagesInv, NEW w \in Viewers, page[w] # NoPage,
                      page[w].read = "conflicts", NEW i \in Alarms(page[w]) \ Watch(page[w])
               PROVE  \E r \in RisksFrom(events[i].id) : \E k \in History(r) :
                        k > since[r] /\ transitions[k].to \in Closed
    BY DEF WatchComplete
  <2> DEFINE g == page[w]
             t == events[i].task
  <2>1. CASE Hidden(i)
    <3>1. PICK r \in RisksFrom(events[i].id) : risk[r].status \in Closed
      BY <2>1 DEF Hidden
    <3>2. \E k \in History(r) : k > since[r] /\ transitions[k].to \in Closed
      BY <3>1 DEF PagesInv, RisksInv, ClosedAfterEvidence, RisksFrom
    <3>3. QED
      BY <3>2
  <2>2. CASE ~ Hidden(i)
    <3>1. PICK d \in Decisions(g) : events[d].task = t
      BY <2>2 DEF Watch
    <3>2. /\ t \notin Keyless /\ events[d].id \in Deciding /\ events[i].id \in Alarming
          /\ i \in Latest(TaskRows(g, t)) /\ d \in Latest(TaskRows(g, t))
      BY <3>1 DEF Decisions, Alarms, Current
    <3>3. i = d
      BY <3>2, RowFacts, LatestUnique
    <3>4. QED
      BY <3>2, <3>3, PagesAssumption
  <2>3. QED
    BY <2>1, <2>2
<1>2. QED
  BY <1>1, PagesCorrect, PTL
-----------------------------------------------------------------------------
(***************************************************************************)
(* The inbox.                                                              *)
(***************************************************************************)

Places     == Projects \X Roots
MaybeOwner == Projects \cup {NoProject}
Lives      == [Projects -> Lifecycles \cup {"Active"}]

InboxTypeOK ==
  /\ inbox \subseteq Items
  /\ assigned \in [Items -> MaybeOwner]
  /\ lifecycle \in Lives
  /\ roots \subseteq Places
  /\ pc \in [Routers -> Steps]
  /\ known \in [Routers -> Lives]
  /\ left \in [Routers -> SUBSET Projects]
  /\ places \in [Routers -> SUBSET Places]
  /\ belief \in [Routers -> [Items -> MaybeOwner]]
  /\ list \in [Routers -> SUBSET Items]
  /\ rerooted \in BOOLEAN

\* A run lists stored items, and only at its last step.
ListsStored ==
  \A r \in Routers : list[r] \subseteq inbox /\ (list[r] # {} => pc[r] = "route")

\* An item that a run believes assigned is; and to the project it believes,
\* unless roots were registered during runs.
BeliefHolds ==
  \A r \in Routers : \A j \in Items :
    belief[r][j] # NoProject =>
      /\ assigned[j] # NoProject
      /\ ~ rerooted => belief[r][j] = assigned[j]

\* Unless roots were registered during runs, what a run read of the roots is all
\* of them but those of the projects it has yet to ask.
RootsRead ==
  ~ rerooted =>
    \A r \in Routers :
      /\ pc[r] # "idle" => places[r] = {pr \in roots : pr[1] \notin left[r]}
      /\ pc[r] \notin {"idle", "roots"} => left[r] = {}
      /\ pc[r] = "idle" => places[r] = {}

\* Unless roots were registered during runs, an item on a list that another run
\* assigned meanwhile went where everybody would take it.
ListedAgree ==
  ~ rerooted =>
    \A r \in Routers : \A i \in list[r] :
      assigned[i] # NoProject => OwnerOf(i, roots, assigned) = assigned[i]

InboxInv ==
  /\ LedgerInv
  /\ InboxTypeOK
  /\ AssignedIffImported
  /\ ListsStored
  /\ BeliefHolds
  /\ RootsRead
  /\ ListedAgree
  /\ OnlyAttributable
-----------------------------------------------------------------------------
(* Attribution.                                                            *)

\* Who owns an item, if somebody does: all that its text points at is his.
LEMMA OwnerFacts ==
  ASSUME NEW i \in Items, NEW rs, NEW b, NEW p, p = OwnerOf(i, rs, b), p # NoProject
  PROVE  /\ p \in Projects
         /\ ~ Content[i].shared
         /\ Content[i].named \subseteq {p}
         /\ \A j \in References(i) : b[j] # NoProject /\ b[j] = p
<1>1. /\ p \in Projects /\ ~ Content[i].shared
      /\ \A j \in References(i) : b[j] # NoProject
      /\ Owners(i, rs, b) = {p}
  BY DEF OwnerOf
<1>2. QED
  BY <1>1 DEF Owners

\* Nothing of the assignments counts but those of the items referred to.
LEMMA SameOwner ==
  ASSUME NEW i \in Items, NEW rs, NEW b, NEW c, \A j \in References(i) : b[j] = c[j]
  PROVE  OwnerOf(i, rs, b) = OwnerOf(i, rs, c)
<1>1. {b[j] : j \in References(i)} = {c[j] : j \in References(i)}
  OBVIOUS
<1>2. Owners(i, rs, b) = Owners(i, rs, c)
  BY <1>1 DEF Owners
<1>3. QED
  BY <1>2 DEF OwnerOf

LEMMA ReferencesAreItems ==
  ASSUME NEW i \in Items PROVE References(i) \subseteq Items \ {i}
BY InboxAssumption DEF References

LEMMA ImportEventFacts ==
  ASSUME NEW i \in Items, NEW p \in Projects, NEW v, v = ImportEvent[<<i, p>>]
  PROVE  /\ v \in Event
         /\ \A j \in Items, q \in Projects : v = ImportEvent[<<j, q>>] => i = j /\ p = q
<1>1. ASSUME NEW j \in Items, NEW q \in Projects
      PROVE  ImportEvent[<<j, q>>] \in Event
  BY InboxAssumption
<1>2. ASSUME NEW j \in Items, NEW q \in Projects
      PROVE  Owner[ImportEvent[<<j, q>>].task] = q
  BY InboxAssumption
<1>3. ASSUME NEW j \in Items, NEW q \in Projects
      PROVE  v.id = ImportEvent[<<j, q>>].id <=> i = j
  BY InboxAssumption
<1>4. ASSUME NEW j \in Items, NEW q \in Projects, v = ImportEvent[<<j, q>>]
      PROVE  i = j /\ p = q
  <2>1. i = j
    BY <1>3, <1>4
  <2>2. Owner[v.task] = p
    BY <1>2
  <2>3. Owner[v.task] = q
    BY <1>2, <1>4
  <2>4. QED
    BY <2>1, <2>2, <2>3
<1>5. QED
  BY <1>1, <1>4
-----------------------------------------------------------------------------
(* The steps.                                                              *)

\* Assignments and the ledger stay alone.
LEMMA LedgerAlone ==
  ASSUME InboxInv, UNCHANGED ledgerVars, assigned' = assigned
  PROVE  LedgerInv' /\ AssignedIffImported'
BY StutterInv DEF InboxInv, AssignedIffImported, ledgerVars

LEMMA InboxInitInv == InboxInit => InboxInv
<1> SUFFICES ASSUME InboxInit PROVE InboxInv
  OBVIOUS
<1> USE DEF InboxInit
<1>1. LedgerInv
  BY InitInv
<1>2. InboxTypeOK
  BY InboxAssumption DEF InboxTypeOK, Nobody, AllActive, Steps, Places, MaybeOwner, Lives
<1>3. AssignedIffImported
  BY InboxAssumption DEF AssignedIffImported, Init, Nobody
<1>4. ListsStored /\ BeliefHolds /\ RootsRead /\ ListedAgree /\ OnlyAttributable
  BY DEF ListsStored, BeliefHolds, RootsRead, ListedAgree, OnlyAttributable, Nobody
<1>5. QED
  BY <1>1, <1>2, <1>3, <1>4 DEF InboxInv

LEMMA ReadProjectsInv ==
  ASSUME InboxInv, NEW r \in Routers, ReadProjects(r)
  PROVE  InboxInv'
<1> USE DEF ReadProjects, Goto, InboxInv
<1>1. LedgerInv' /\ AssignedIffImported'
  BY LedgerAlone
<1>2. InboxTypeOK'
  BY DEF InboxTypeOK, Steps
<1>3. ListsStored' /\ BeliefHolds' /\ OnlyAttributable'
  BY DEF ListsStored, BeliefHolds, OnlyAttributable, InboxTypeOK
<1>4. RootsRead'
  BY DEF RootsRead, InboxTypeOK, Places
<1>5. ListedAgree'
  BY DEF ListedAgree
<1>6. QED
  BY <1>1, <1>2, <1>3, <1>4, <1>5

LEMMA ReadRootsInv ==
  ASSUME InboxInv, NEW r \in Routers, NEW p \in Projects, ReadRoots(r, p)
  PROVE  InboxInv'
<1> USE DEF ReadRoots, Goto, InboxInv
<1>1. LedgerInv' /\ AssignedIffImported'
  BY LedgerAlone
<1>2. InboxTypeOK'
  BY DEF InboxTypeOK, Steps
<1>3. ListsStored' /\ BeliefHolds' /\ OnlyAttributable'
  BY DEF ListsStored, BeliefHolds, OnlyAttributable, InboxTypeOK
<1>4. RootsRead'
  BY DEF RootsRead, InboxTypeOK, Places
<1>5. ListedAgree'
  BY DEF ListedAgree
<1>6. QED
  BY <1>1, <1>2, <1>3, <1>4, <1>5

LEMMA ReadAssignedInv ==
  ASSUME InboxInv, NEW r \in Routers, ReadAssigned(r)
  PROVE  InboxInv'
<1> USE DEF ReadAssigned, Goto, InboxInv
<1>1. LedgerInv' /\ AssignedIffImported'
  BY LedgerAlone
<1>2. InboxTypeOK'
  BY DEF InboxTypeOK, Steps
<1>3. ListsStored' /\ BeliefHolds' /\ OnlyAttributable'
  BY DEF ListsStored, BeliefHolds, OnlyAttributable, InboxTypeOK
<1>4. RootsRead'
  BY DEF RootsRead, InboxTypeOK
<1>5. ListedAgree'
  BY DEF ListedAgree
<1>6. QED
  BY <1>1, <1>2, <1>3, <1>4, <1>5

LEMMA ReadItemsInv ==
  ASSUME InboxInv, NEW r \in Routers, NEW wanted \in SUBSET Items, ReadItems(r, wanted)
  PROVE  InboxInv'
<1> USE DEF ReadItems, Goto, InboxInv
<1>1. LedgerInv' /\ AssignedIffImported'
  BY LedgerAlone
<1>2. InboxTypeOK'
  BY DEF InboxTypeOK, Steps
<1>3. ListsStored' /\ BeliefHolds' /\ OnlyAttributable'
  BY DEF ListsStored, BeliefHolds, OnlyAttributable, InboxTypeOK
<1>4. RootsRead'
  BY DEF RootsRead, InboxTypeOK
<1>5. ListedAgree'
  BY DEF ListedAgree, InboxTypeOK
<1>6. QED
  BY <1>1, <1>2, <1>3, <1>4, <1>5

\* A run that ends or fails keeps nothing of what it read.
LEMMA EndRunInv ==
  ASSUME InboxInv, NEW r \in Routers, EndRun(r),
         UNCHANGED <<ledgerVars, inbox, assigned, lifecycle, roots, rerooted>>
  PROVE  InboxInv'
<1> USE DEF EndRun, Goto, InboxInv
<1>1. LedgerInv' /\ AssignedIffImported'
  BY LedgerAlone
<1>2. InboxTypeOK'
  BY DEF InboxTypeOK, Steps, Nobody, AllActive, MaybeOwner, Lives
<1>3. ListsStored' /\ BeliefHolds' /\ OnlyAttributable'
  BY DEF ListsStored, BeliefHolds, OnlyAttributable, InboxTypeOK, Nobody
<1>4. RootsRead'
  BY DEF RootsRead, InboxTypeOK
<1>5. ListedAgree'
  BY DEF ListedAgree, InboxTypeOK
<1>6. QED
  BY <1>1, <1>2, <1>3, <1>4, <1>5

LEMMA OthersInv ==
  ASSUME InboxInv,
         \/ \E i \in Items : CreateInboxItem(i)
         \/ \E p \in Projects, l \in Lifecycles : SetLifecycle(p, l)
  PROVE  InboxInv'
<1> USE DEF CreateInboxItem, SetLifecycle, runVars, InboxInv
<1>1. LedgerInv' /\ AssignedIffImported'
  BY LedgerAlone
<1>2. InboxTypeOK'
  BY DEF InboxTypeOK, Lives
<1>3. ListsStored' /\ BeliefHolds' /\ OnlyAttributable'
  BY DEF ListsStored, BeliefHolds, OnlyAttributable
<1>4. RootsRead' /\ ListedAgree'
  BY DEF RootsRead, ListedAgree
<1>5. QED
  BY <1>1, <1>2, <1>3, <1>4

\* A root registered while no run is under way bears on no list.
LEMMA AddRootInv ==
  ASSUME InboxInv, NEW p \in Projects, NEW root \in Roots, AddRoot(p, root)
  PROVE  InboxInv'
<1> USE DEF AddRoot, runVars, InboxInv
<1>1. LedgerInv' /\ AssignedIffImported'
  BY LedgerAlone
<1>2. InboxTypeOK'
  BY DEF InboxTypeOK, Places
<1>3. ListsStored' /\ BeliefHolds' /\ OnlyAttributable'
  BY DEF ListsStored, BeliefHolds, OnlyAttributable
<1>4. ~ rerooted' => ~ rerooted /\ \A r \in Routers : pc[r] = "idle"
  BY DEF InboxTypeOK
<1>5. RootsRead'
  BY <1>4 DEF RootsRead
<1>6. ListedAgree'
  BY <1>4 DEF ListedAgree, ListsStored
<1>7. QED
  BY <1>1, <1>2, <1>3, <1>5, <1>6
-----------------------------------------------------------------------------
(* Routing an item.                                                        *)

\* What a run that found an owner knows of the item.
LEMMA DestinationFacts ==
  ASSUME InboxInv, NEW r \in Routers, NEW i \in list[r], NEW p,
         p = Destination(i, places[r], belief[r], known[r]), p # NoProject
  PROVE  /\ i \in Items /\ i \in inbox /\ p \in Projects
         /\ ~ Content[i].shared /\ Content[i].named \subseteq {p}
         /\ \A j \in References(i) :
              /\ j \in Items /\ j # i /\ assigned[j] # NoProject
              /\ ~ rerooted => assigned[j] = p
         /\ ~ rerooted => OwnerOf(i, roots, assigned) = p
         /\ ~ rerooted /\ assigned[i] # NoProject => assigned[i] = p
<1>1. i \in Items /\ i \in inbox /\ pc[r] = "route"
  BY DEF InboxInv, InboxTypeOK, ListsStored
<1>2. PICK b : b = belief[r]
  OBVIOUS
<1>3. p = OwnerOf(i, places[r], b)
  BY <1>2 DEF Destination
<1>4. /\ p \in Projects /\ ~ Content[i].shared /\ Content[i].named \subseteq {p}
      /\ \A j \in References(i) : b[j] # NoProject /\ b[j] = p
  BY <1>1, <1>3, OwnerFacts
<1>5. \A j \in References(i) : j \in Items /\ j # i
  BY <1>1, ReferencesAreItems
<1>6. \A j \in References(i) :
        assigned[j] # NoProject /\ (~ rerooted => assigned[j] = b[j])
  BY <1>2, <1>4, <1>5 DEF InboxInv, BeliefHolds
<1>7. ASSUME ~ rerooted PROVE OwnerOf(i, roots, assigned) = p
  <2>1. places[r] = roots
    BY <1>1, <1>7 DEF InboxInv, RootsRead, InboxTypeOK
  <2>2. OwnerOf(i, roots, b) = OwnerOf(i, roots, assigned)
    BY <1>1, <1>6, <1>7, SameOwner
  <2>3. QED
    BY <1>3, <2>1, <2>2
<1>8. ~ rerooted /\ assigned[i] # NoProject => assigned[i] = p
  BY <1>7 DEF InboxInv, ListedAgree
<1>9. QED
  BY <1>1, <1>4, <1>5, <1>6, <1>7, <1>8

\* Writing the import and the assignment together keeps the two alike.
LEMMA ImportedTogether ==
  ASSUME InboxInv, NEW i \in Items, NEW p \in Projects, assigned[i] = NoProject,
         AppendEvent(ImportEvent[<<i, p>>], FALSE),
         assigned' = [assigned EXCEPT ![i] = p]
  PROVE  LedgerInv' /\ AssignedIffImported'
<1>1. PICK v : v = ImportEvent[<<i, p>>]
  OBVIOUS
<1>2. /\ v \in Event
      /\ \A j \in Items, q \in Projects : v = ImportEvent[<<j, q>>] => i = j /\ p = q
  BY <1>1, ImportEventFacts
<1>3. AppendEvent(v, FALSE)
  BY <1>1
<1>4. LedgerInv /\ InboxTypeOK /\ AssignedIffImported
  BY DEF InboxInv
<1>5. LedgerInv'
  BY <1>2, <1>3, <1>4, AppendAnyInv
<1>6. PICK n \in Nat : n = Len(events) + 1
  BY <1>4 DEF LedgerInv, TypeOK
<1>7. /\ DOMAIN events' = DOMAIN events \cup {n}
      /\ \A k \in DOMAIN events : events'[k] = events[k]
      /\ events'[n] = v
  BY <1>2, <1>3, <1>4, <1>6, AppendFacts DEF LedgerInv, TypeOK, AppendEvent
<1>8. ASSUME NEW j \in Items, NEW q \in Projects
      PROVE  assigned'[j] = q <=> \E k \in DOMAIN events' : events'[k] = ImportEvent[<<j, q>>]
  <2> DEFINE e == ImportEvent[<<j, q>>]
  <2>1. assigned[j] = q <=> \E k \in DOMAIN events : events[k] = e
    BY <1>4 DEF AssignedIffImported
  <2>2. (\E k \in DOMAIN events' : events'[k] = e)
          <=> (\E k \in DOMAIN events : events[k] = e) \/ v = e
    BY <1>7
  <2>3. CASE j = i /\ q = p
    BY <1>1, <1>4, <2>2, <2>3 DEF InboxTypeOK
  <2>4. CASE j # i
    BY <1>2, <1>4, <2>1, <2>2, <2>4 DEF InboxTypeOK
  <2>5. CASE j = i /\ q # p
    <3>1. assigned'[j] = p
      BY <1>4, <2>5 DEF InboxTypeOK
    <3>2. assigned[j] # q
      BY <2>5, InboxAssumption
    <3>3. QED
      BY <1>2, <2>1, <2>2, <2>5, <3>1, <3>2
  <2>6. QED
    BY <2>3, <2>4, <2>5
<1>9. QED
  BY <1>5, <1>8 DEF AssignedIffImported

\* The run assigns the item, or finds it assigned, or has nobody to assign it to.
LEMMA RouteItemInv ==
  ASSUME InboxInv, NEW r \in Routers, NEW i \in Items, RouteItem(r, i)
  PROVE  InboxInv'
<1>1. PICK p : p = Destination(i, places[r], belief[r], known[r])
  OBVIOUS
<1>2. /\ pc[r] = "route" /\ i \in list[r]
      /\ list' = [list EXCEPT ![r] = @ \ {i}]
      /\ UNCHANGED <<inbox, lifecycle, roots, pc, known, left, places, failures, rerooted>>
  BY DEF RouteItem
<1>3. /\ p = NoProject => UNCHANGED <<ledgerVars, assigned, belief>>
      /\ p # NoProject => Import(i, p) /\ belief' = [belief EXCEPT ![r][i] = p]
  BY <1>1 DEF RouteItem
<1>4. InboxTypeOK
  BY DEF InboxInv
<1>5. RootsRead'
  BY <1>2 DEF InboxInv, RootsRead
<1>6. ListsStored'
  BY <1>2, <1>4 DEF InboxInv, ListsStored, InboxTypeOK
<1>7. CASE p = NoProject
  <2>1. LedgerInv' /\ AssignedIffImported'
    BY <1>3, <1>7, LedgerAlone
  <2>2. InboxTypeOK'
    BY <1>2, <1>3, <1>4, <1>7 DEF InboxTypeOK
  <2>3. BeliefHolds' /\ OnlyAttributable'
    BY <1>2, <1>3, <1>7 DEF InboxInv, BeliefHolds, OnlyAttributable
  <2>4. ListedAgree'
    BY <1>2, <1>3, <1>4, <1>7 DEF InboxInv, ListedAgree, InboxTypeOK
  <2>5. QED
    BY <1>5, <1>6, <2>1, <2>2, <2>3, <2>4 DEF InboxInv
<1>8. CASE p # NoProject
  <2>1. /\ i \in inbox /\ p \in Projects
        /\ ~ Content[i].shared /\ Content[i].named \subseteq {p}
        /\ \A j \in References(i) :
             /\ j \in Items /\ j # i /\ assigned[j] # NoProject
             /\ ~ rerooted => assigned[j] = p
        /\ ~ rerooted => OwnerOf(i, roots, assigned) = p
        /\ ~ rerooted /\ assigned[i] # NoProject => assigned[i] = p
    BY <1>1, <1>2, <1>8, DestinationFacts
  <2>2. belief' = [belief EXCEPT ![r][i] = p] /\ Import(i, p)
    BY <1>3, <1>8
  <2>3. /\ assigned' \in [Items -> MaybeOwner]
        /\ \A j \in Items : j # i => assigned'[j] = assigned[j]
        /\ assigned'[i] # NoProject
        /\ assigned[i] # NoProject => assigned'[i] = assigned[i]
        /\ assigned[i] = NoProject => assigned'[i] = p
    BY <1>4, <1>8, <2>1, <2>2 DEF Import, InboxTypeOK, MaybeOwner
  <2>4. LedgerInv' /\ AssignedIffImported'
    BY <2>1, <2>2, ImportedTogether, LedgerAlone DEF Import
  <2>5. InboxTypeOK'
    BY <1>2, <1>4, <2>1, <2>2, <2>3 DEF InboxTypeOK, MaybeOwner
  <2>6. \A j \in Items :
          assigned[j] # NoProject => assigned'[j] # NoProject /\ assigned'[j] = assigned[j]
    BY <2>3
  <2>7. ~ rerooted => assigned'[i] = p
    BY <2>1, <2>3
  <2>8. BeliefHolds'
    <3>1. ASSUME NEW s \in Routers, NEW j \in Items, belief'[s][j] # NoProject
          PROVE  assigned'[j] # NoProject /\ (~ rerooted => belief'[s][j] = assigned'[j])
      <4>1. CASE s = r /\ j = i
        BY <1>4, <2>2, <2>3, <2>7, <4>1 DEF InboxTypeOK
      <4>2. CASE ~ (s = r /\ j = i)
        <5>1. belief'[s][j] = belief[s][j]
          BY <1>4, <2>2, <4>2 DEF InboxTypeOK
        <5>2. QED
          BY <2>6, <3>1, <5>1 DEF InboxInv, BeliefHolds
      <4>3. QED
        BY <4>1, <4>2
    <3>2. QED
      BY <1>2, <3>1 DEF BeliefHolds
  <2>9. OnlyAttributable'
    <3>1. ASSUME NEW k \in Items, assigned'[k] # NoProject
          PROVE  /\ k \in inbox /\ ~ Content[k].shared
                 /\ Content[k].named \subseteq {assigned'[k]}
                 /\ \A j \in References(k) : assigned'[j] # NoProject
                 /\ ~ rerooted => \A j \in References(k) : assigned'[j] = assigned'[k]
      <4>1. \A j \in References(k) : j \in Items
        BY ReferencesAreItems
      <4>2. CASE assigned[k] # NoProject
        BY <2>6, <4>1, <4>2 DEF InboxInv, OnlyAttributable
      <4>3. CASE assigned[k] = NoProject
        <5>1. k = i /\ assigned'[k] = p
          BY <2>3, <3>1, <4>3
        <5>2. QED
          BY <2>1, <2>6, <5>1
      <4>4. QED
        BY <4>2, <4>3
    <3>2. QED
      BY <1>2, <3>1 DEF OnlyAttributable
  <2>10. ListedAgree'
    <3>1. ASSUME ~ rerooted, NEW s \in Routers, NEW k \in list'[s], assigned'[k] # NoProject
          PROVE  OwnerOf(k, roots, assigned') = assigned'[k]
      <4>1. k \in Items /\ k \in list[s]
        BY <1>2, <1>4 DEF InboxTypeOK
      <4>2. OwnerOf(k, roots, assigned) = assigned'[k]
        <5>1. CASE assigned[k] # NoProject
          BY <2>6, <3>1, <4>1, <5>1 DEF InboxInv, ListedAgree
        <5>2. CASE assigned[k] = NoProject
          BY <2>1, <2>3, <3>1, <4>1, <5>2
        <5>3. QED
          BY <5>1, <5>2
      <4>3. PICK a, c : a = assigned /\ c = assigned'
        OBVIOUS
      <4>4. \A j \in References(k) : a[j] # NoProject
        BY <3>1, <4>1, <4>2, <4>3, OwnerFacts
      <4>5. \A j \in References(k) : a[j] = c[j]
        BY <2>6, <4>1, <4>3, <4>4, ReferencesAreItems
      <4>6. OwnerOf(k, roots, a) = OwnerOf(k, roots, c)
        BY <4>1, <4>5, SameOwner
      <4>7. QED
        BY <4>2, <4>3, <4>6
    <3>2. QED
      BY <1>2, <3>1 DEF ListedAgree
  <2>11. QED
    BY <1>5, <1>6, <2>4, <2>5, <2>8, <2>9, <2>10 DEF InboxInv
<1>9. QED
  BY <1>7, <1>8

LEMMA InboxNextInv == InboxInv /\ [InboxNext]_vars => InboxInv'
<1> SUFFICES ASSUME InboxInv, [InboxNext]_vars PROVE InboxInv'
  OBVIOUS
<1>1. ASSUME NEW r \in Routers, FinishRun(r) \/ FailRun(r) PROVE InboxInv'
  BY <1>1, EndRunInv DEF FinishRun, FailRun
<1>2. ASSUME NEW r \in Routers, ReadProjects(r) \/ Run(r) PROVE InboxInv'
  BY <1>1, <1>2, ReadProjectsInv, ReadRootsInv, ReadAssignedInv, RouteItemInv DEF Run
<1>3. ASSUME NEW r \in Routers, ReadItems(r, Items) \/ \E i \in Items : ReadItems(r, {i})
      PROVE  InboxInv'
  BY <1>3, ReadItemsInv
<1>4. CASE UNCHANGED vars
  <2>1. LedgerInv' /\ AssignedIffImported'
    BY <1>4, LedgerAlone DEF vars, inboxVars, ledgerVars
  <2>2. QED
    BY <1>4, <2>1 DEF vars, inboxVars, runVars, InboxInv, InboxTypeOK, ListsStored,
                      BeliefHolds, RootsRead, ListedAgree, OnlyAttributable
<1>5. QED
  BY <1>1, <1>2, <1>3, <1>4, OthersInv, AddRootInv DEF InboxNext
-----------------------------------------------------------------------------
(* The theorems.                                                           *)

\* The inbox and the ledger below it keep the inductive invariant, whatever
\* runs, writes and failures come between (inbox_routing.py:86-127).
THEOREM InboxCorrect == InboxSpec => []InboxInv
BY InboxInitInv, InboxNextInv, PTL DEF InboxSpec

\* An item is assigned exactly when its import is in the ledger
\* (inbox_routing.py:102-123).
THEOREM ImportsMatch == InboxSpec => []AssignedIffImported
<1>1. InboxInv => AssignedIffImported
  BY DEF InboxInv
<1>2. QED
  BY <1>1, InboxCorrect, PTL

\* Only what is uniquely attributable is imported (inbox_routing.py:57-83).
THEOREM ImportsAttributable == InboxSpec => []OnlyAttributable
<1>1. InboxInv => OnlyAttributable
  BY DEF InboxInv
<1>2. QED
  BY <1>1, InboxCorrect, PTL

\* The imports lose no history of the ledger and rewrite none
\* (inbox_routing.py:108-114).
THEOREM InboxKeepsHistory == InboxSpec => HistoryKept
<1>1. InboxInv /\ [InboxNext]_vars => [Wrote]_ledgerVars
  <2> SUFFICES ASSUME InboxInv, [InboxNext]_vars PROVE [Wrote]_ledgerVars
    OBVIOUS
  <2>1. ASSUME NEW r \in Routers, NEW i \in Items, RouteItem(r, i)
        PROVE  [Wrote]_ledgerVars
    <3>1. PICK p : p = Destination(i, places[r], belief[r], known[r])
      OBVIOUS
    <3>2. UNCHANGED ledgerVars \/ (p # NoProject /\ Import(i, p))
      BY <2>1, <3>1 DEF RouteItem
    <3>3. CASE p # NoProject /\ Import(i, p)
      <4>1. p \in Projects
        BY <2>1, <3>1, <3>3, DestinationFacts DEF RouteItem
      <4>2. ImportEvent[<<i, p>>] \in Event
        BY <4>1, InboxAssumption
      <4>3. QED
        BY <3>3, <4>2 DEF Import, Wrote, ledgerVars
    <3>4. QED
      BY <3>2, <3>3
  <2>2. QED
    BY <2>1 DEF InboxNext, Run, ReadProjects, ReadRoots, ReadAssigned, ReadItems, FinishRun,
                FailRun, CreateInboxItem, AddRoot, SetLifecycle, vars, ledgerVars
<1>2. InboxInv => LedgerInv
  BY DEF InboxInv
<1>3. LedgerInv /\ [Wrote]_ledgerVars => [Kept]_ledgerVars
  BY WroteKeeps
<1>4. QED
  BY <1>1, <1>2, <1>3, InboxCorrect, PTL DEF InboxSpec, HistoryKept, Kept
=============================================================================
