---------------------------- MODULE LedgerProofs ----------------------------
(***************************************************************************)
(* Proofs about the ledger, for every set of events, tasks and projects    *)
(* and every bound.                                                        *)
(***************************************************************************)
EXTENDS Ledger, TLAPS

\* event_id is unique.
UniqueIds == \A i, j \in DOMAIN events : events[i].id = events[j].id => i = j

\* A task with events has a latest one.
LatestExists ==
  \A t \in Tasks : /\ On(t) # {} => Latest(On(t)) # {}
                   /\ StateOn(t) # {} => Latest(StateOn(t)) # {}

\* An event opens at most one conflict.
OneConflictPerEvent == \A c, d \in conflicts : c.created = d.created => c = d

\* The inductive invariant.
LedgerInv ==
  /\ TypeOK
  /\ UniqueIds
  /\ LatestExists
  /\ OneConflictPerEvent
  /\ ConflictsWellFormed
  /\ ChainAccounted
  /\ OldestSettledFirst
  /\ OneOpenConflict
-----------------------------------------------------------------------------
(* What one appended event changes in the queries.                         *)

\* An append keeps every earlier row and puts v on top.
LEMMA AppendFacts ==
  ASSUME events \in Seq(Event), NEW v \in Event, events' = Append(events, v),
         NEW n \in Nat, n = Len(events) + 1
  PROVE  /\ events' \in Seq(Event)
         /\ DOMAIN events = 1 .. Len(events)
         /\ DOMAIN events' = 1 .. n
         /\ \A i \in DOMAIN events : events'[i] = events[i] /\ i < n /\ i \in Nat
         /\ events'[n] = v
OBVIOUS

\* The latest row of a set of rows is unique.
LEMMA LatestUnique ==
  ASSUME NEW S \in SUBSET Nat, NEW i \in Latest(S), NEW j \in Latest(S)
  PROVE  i = j
BY DEF Latest

\* The rows of an id or a task gain the new row at most.
LEMMA QueryFacts ==
  ASSUME events \in Seq(Event), NEW v \in Event, events' = Append(events, v),
         NEW n \in Nat, n = Len(events) + 1
  PROVE  /\ \A id : Stored(id)' = Stored(id) \cup {i \in {n} : v.id = id}
         /\ \A t : On(t)' = On(t) \cup {i \in {n} : v.task = t}
         /\ \A t : StateOn(t)' =
                     StateOn(t) \cup {i \in {n} : v.task = t /\ v.new_state # NoState}
<1>1. \A i \in DOMAIN events' : i \in DOMAIN events \/ i = n
  BY AppendFacts
<1>2. DOMAIN events \subseteq DOMAIN events' /\ n \in DOMAIN events'
  BY AppendFacts
<1>3. \A i \in DOMAIN events : events'[i] = events[i]
  BY AppendFacts
<1>4. events'[n] = v
  BY AppendFacts
<1>5. ASSUME NEW id
      PROVE  Stored(id)' = Stored(id) \cup {i \in {n} : v.id = id}
  BY <1>1, <1>2, <1>3, <1>4 DEF Stored
<1>6. ASSUME NEW t
      PROVE  On(t)' = On(t) \cup {i \in {n} : v.task = t}
  BY <1>1, <1>2, <1>3, <1>4 DEF On
<1>7. ASSUME NEW t
      PROVE  StateOn(t)' =
               StateOn(t) \cup {i \in {n} : v.task = t /\ v.new_state # NoState}
  <2>1. On(t)' = On(t) \cup {i \in {n} : v.task = t}
    BY <1>6
  <2>2. \A i \in On(t) : i \in DOMAIN events /\ events'[i] = events[i]
    BY <1>3 DEF On
  <2>3. QED
    BY <2>1, <2>2, <1>4 DEF StateOn
<1>8. QED
  BY <1>5, <1>6, <1>7

\* The history before an earlier event is what it was; before the new one it
\* is what ingest_event saw.
LEMMA BeforeFacts ==
  ASSUME events \in Seq(Event), NEW v \in Event, events' = Append(events, v),
         NEW n \in Nat, n = Len(events) + 1
  PROVE  /\ \A i \in DOMAIN events : /\ Before(i)' = Before(i)
                                      /\ StateBefore(i)' = StateBefore(i)
         /\ Before(n)' = Latest(On(v.task))
         /\ StateBefore(n)' = Latest(StateOn(v.task))
<1>1. /\ \A t : On(t)' = On(t) \cup {i \in {n} : v.task = t}
      /\ \A t : StateOn(t)' =
                  StateOn(t) \cup {i \in {n} : v.task = t /\ v.new_state # NoState}
  BY QueryFacts
<1>2. /\ \A t : On(t) \subseteq DOMAIN events /\ StateOn(t) \subseteq DOMAIN events
      /\ \A i \in DOMAIN events : events'[i] = events[i] /\ i < n /\ i \in Nat
      /\ events'[n] = v
  BY AppendFacts DEF On, StateOn
<1>3. ASSUME NEW i \in DOMAIN events
      PROVE  Before(i)' = Before(i) /\ StateBefore(i)' = StateBefore(i)
  <2> DEFINE t == events[i].task
  <2>1. ~ (n < i) /\ events'[i].task = t
    BY <1>2, <1>3
  <2>2. {k \in On(t)' : k < i} = {k \in On(t) : k < i}
    BY <1>1, <1>2, <2>1
  <2>3. {k \in StateOn(t)' : k < i} = {k \in StateOn(t) : k < i}
    BY <1>1, <1>2, <2>1
  <2>4. QED
    BY <2>1, <2>2, <2>3 DEF Before, StateBefore, Latest
<1>4. Before(n)' = Latest(On(v.task))
  <2>1. {k \in On(v.task)' : k < n} = On(v.task)
    BY <1>1, <1>2
  <2>2. QED
    BY <1>2, <2>1 DEF Before, Latest
<1>5. StateBefore(n)' = Latest(StateOn(v.task))
  <2>1. {k \in StateOn(v.task)' : k < n} = StateOn(v.task)
    BY <1>1, <1>2
  <2>2. QED
    BY <1>2, <2>1 DEF StateBefore, Latest
<1>6. QED
  BY <1>3, <1>4, <1>5
-----------------------------------------------------------------------------
(* What one appended event changes in the conflicts.                       *)

\* Every conflict after the step is an old one left alone, the oldest open one
\* resolved by v, or one that v opened.
LEMMA ConflictFacts ==
  ASSUME TypeOK, NEW v \in Event, NEW explicit \in BOOLEAN, AppendEvent(v, explicit)
  PROVE  /\ \A d \in conflicts' :
              \/ d \in conflicts /\ d \notin Settled(v)
              \/ \E c \in Settled(v) : d = Resolve(c, v.id)
              \/ d \in Opened(v, explicit)
         /\ \A c \in conflicts : c \notin Settled(v) => c \in conflicts'
         /\ \A c \in Settled(v) : Resolve(c, v.id) \in conflicts'
         /\ Opened(v, explicit) \subseteq conflicts'
  BY DEF AppendEvent

\* Resolving a conflict keeps its task, endpoints and place in the order.
LEMMA SettledFacts ==
  ASSUME TypeOK, NEW v \in Event, NEW c \in Settled(v)
  PROVE  LET d == Resolve(c, v.id) IN
         /\ c \in conflicts /\ c \in Conflict /\ c.task = v.task
         /\ c.resolved_by = NoEvent
         /\ \A b \in Open(v.task) : c.created <= b.created
         /\ v.type \in CorrectionTypes
         /\ v.corrects \in {c.left, c.right}
         /\ d \in Conflict
         /\ d.task = c.task /\ d.left = c.left /\ d.right = c.right
         /\ d.created = c.created /\ d.resolved_by = v.id
<1>1. c \in OldestOpen(v.task) /\ v.type \in CorrectionTypes /\ v.corrects \in {c.left, c.right}
  BY DEF Settled
<1>2. c \in Open(v.task) /\ \A b \in Open(v.task) : c.created <= b.created
  BY <1>1 DEF OldestOpen
<1>3. c \in conflicts /\ c.task = v.task /\ c.resolved_by = NoEvent
  BY <1>2 DEF Open
<1>4. c \in Conflict /\ v.id \in EventIds
  BY <1>3 DEF TypeOK, Event
<1>5. QED
  BY <1>1, <1>2, <1>3, <1>4 DEF Conflict, Resolve

\* A conflict v opens joins v to the latest event of its task.
LEMMA OpenedFacts ==
  ASSUME TypeOK, NEW v \in Event, NEW explicit \in BOOLEAN, NEW d \in Opened(v, explicit),
         NEW n \in Nat, n = Len(events) + 1
  PROVE  /\ explicit \/ ChainBroken(v)
         /\ \E i \in Latest(On(v.task)) : i \in DOMAIN events /\ d.left = events[i].id
         /\ d \in Conflict
         /\ d.task = v.task /\ d.right = v.id /\ d.created = n /\ d.resolved_by = NoEvent
<1>1. explicit \/ ChainBroken(v)
  BY DEF Opened
<1>2. PICK i \in Latest(On(v.task)) :
        d = [task |-> v.task, left |-> events[i].id, right |-> v.id,
             resolved_by |-> NoEvent, created |-> Len(events) + 1]
  BY <1>1 DEF Opened
<1>3. i \in DOMAIN events
  BY <1>2 DEF Latest, On
<1>4. events[i] \in Event
  BY <1>3 DEF TypeOK
<1>5. events[i].id \in EventIds /\ v.id \in EventIds /\ v.task \in Tasks
  BY <1>4 DEF Event
<1>6. d \in Conflict
  BY <1>2, <1>5 DEF Conflict
<1>7. QED
  BY <1>1, <1>2, <1>3, <1>6

\* An earlier conflict is older than the event being appended.
LEMMA CreatedEarlier ==
  ASSUME TypeOK, ConflictsWellFormed, NEW c \in conflicts,
         NEW n \in Nat, n = Len(events) + 1
  PROVE  c.created \in DOMAIN events /\ c.created \in Nat /\ c.created < n
<1>1. c.created \in DOMAIN events
  BY DEF ConflictsWellFormed, Stored
<1>2. QED
  BY <1>1 DEF TypeOK
-----------------------------------------------------------------------------
(* The step of the inductive invariant, one lemma per conjunct that needs   *)
(* more than a line.                                                        *)

LEMMA AppendType ==
  ASSUME TypeOK, NEW v \in Event, NEW explicit \in BOOLEAN, AppendEvent(v, explicit)
  PROVE  TypeOK'
<1>1. events' \in Seq(Event)
  BY DEF TypeOK, AppendEvent
<1> DEFINE n == Len(events) + 1
<1>2. n \in Nat
  BY DEF TypeOK
<1>3. ASSUME NEW d \in conflicts' PROVE d \in Conflict
  <2>1. CASE d \in conflicts
    BY <2>1 DEF TypeOK
  <2>2. CASE \E c \in Settled(v) : d = Resolve(c, v.id)
    BY <2>2, SettledFacts
  <2>3. CASE d \in Opened(v, explicit)
    BY <2>3, <1>2, OpenedFacts
  <2>4. QED
    BY <2>1, <2>2, <2>3, ConflictFacts
<1>4. QED
  BY <1>1, <1>3 DEF TypeOK

LEMMA AppendUnique ==
  ASSUME TypeOK, UniqueIds, NEW v \in Event, NEW explicit \in BOOLEAN,
         AppendEvent(v, explicit)
  PROVE  UniqueIds'
<1>1. PICK n \in Nat : n = Len(events) + 1
  BY DEF TypeOK
<1>2. /\ DOMAIN events' = DOMAIN events \cup {n}
      /\ \A i \in DOMAIN events : events'[i] = events[i]
      /\ events'[n] = v
  BY <1>1, AppendFacts DEF TypeOK, AppendEvent
<1>3. \A i \in DOMAIN events : events[i].id # v.id
  BY DEF AppendEvent, CanAppend, Stored
<1>4. QED
  BY <1>2, <1>3 DEF UniqueIds

LEMMA AppendLatest ==
  ASSUME TypeOK, LatestExists, NEW v \in Event, NEW explicit \in BOOLEAN,
         AppendEvent(v, explicit)
  PROVE  LatestExists'
<1>1. PICK n \in Nat : n = Len(events) + 1
  BY DEF TypeOK
<1>2. /\ \A t : On(t)' = On(t) \cup {i \in {n} : v.task = t}
      /\ \A t : StateOn(t)' =
                  StateOn(t) \cup {i \in {n} : v.task = t /\ v.new_state # NoState}
  BY <1>1, QueryFacts DEF TypeOK, AppendEvent
<1>3. \A t : \A i \in On(t) \cup StateOn(t) : i \in Nat /\ i < n
  BY <1>1 DEF On, StateOn, TypeOK
<1>4. ASSUME NEW t \in Tasks, On(t)' # {} PROVE Latest(On(t)') # {}
  <2>1. CASE v.task = t
    <3>1. On(t)' = On(t) \cup {n}
      BY <1>2, <2>1
    <3>2. n \in Latest(On(t)')
      BY <1>3, <3>1 DEF Latest
    <3>3. QED
      BY <3>2
  <2>2. CASE v.task # t
    <3>1. On(t)' = On(t)
      BY <1>2, <2>2
    <3>2. QED
      BY <1>4, <3>1 DEF LatestExists
  <2>3. QED
    BY <2>1, <2>2
<1>5. ASSUME NEW t \in Tasks, StateOn(t)' # {} PROVE Latest(StateOn(t)') # {}
  <2>1. CASE v.task = t /\ v.new_state # NoState
    <3>1. StateOn(t)' = StateOn(t) \cup {n}
      BY <1>2, <2>1
    <3>2. n \in Latest(StateOn(t)')
      BY <1>3, <3>1 DEF Latest
    <3>3. QED
      BY <3>2
  <2>2. CASE ~ (v.task = t /\ v.new_state # NoState)
    <3>1. StateOn(t)' = StateOn(t)
      BY <1>2, <2>2
    <3>2. QED
      BY <1>5, <3>1 DEF LatestExists
  <2>3. QED
    BY <2>1, <2>2
<1>6. QED
  BY <1>4, <1>5 DEF LatestExists, Latest

LEMMA AppendOnePerEvent ==
  ASSUME TypeOK, OneConflictPerEvent, ConflictsWellFormed, NEW v \in Event,
         NEW explicit \in BOOLEAN, AppendEvent(v, explicit)
  PROVE  OneConflictPerEvent'
<1>1. PICK n \in Nat : n = Len(events) + 1
  BY DEF TypeOK
<1>2. ASSUME NEW d \in conflicts'
      PROVE  \/ \E c \in conflicts : /\ d.created = c.created
                                     /\ \/ d = c /\ c \notin Settled(v)
                                        \/ c \in Settled(v) /\ d = Resolve(c, v.id)
             \/ d \in Opened(v, explicit) /\ d.created = n
  <2>1. CASE d \in conflicts /\ d \notin Settled(v)
    BY <2>1
  <2>2. ASSUME NEW c \in Settled(v), d = Resolve(c, v.id)
        PROVE  c \in conflicts /\ d.created = c.created
    BY <2>2, SettledFacts
  <2>3. CASE d \in Opened(v, explicit)
    BY <2>3, <1>1, OpenedFacts
  <2>4. QED
    BY <2>1, <2>2, <2>3, ConflictFacts
<1>3. ASSUME NEW c \in conflicts PROVE c.created # n
  BY <1>1, CreatedEarlier
<1>4. ASSUME NEW c \in Opened(v, explicit), NEW d \in Opened(v, explicit) PROVE c = d
  <2>1. PICK i \in Latest(On(v.task)), j \in Latest(On(v.task)) :
          /\ c = [task |-> v.task, left |-> events[i].id, right |-> v.id,
                  resolved_by |-> NoEvent, created |-> Len(events) + 1]
          /\ d = [task |-> v.task, left |-> events[j].id, right |-> v.id,
                  resolved_by |-> NoEvent, created |-> Len(events) + 1]
    BY <1>4 DEF Opened
  <2>2. On(v.task) \in SUBSET Nat
    BY DEF On, TypeOK
  <2>3. QED
    BY <2>1, <2>2, LatestUnique
<1>5. QED
  BY <1>2, <1>3, <1>4 DEF OneConflictPerEvent

LEMMA AppendWellFormed ==
  ASSUME TypeOK, ConflictsWellFormed, NEW v \in Event,
         NEW explicit \in BOOLEAN, AppendEvent(v, explicit)
  PROVE  ConflictsWellFormed'
<1>1. PICK n \in Nat : n = Len(events) + 1
  BY DEF TypeOK
<1>2. /\ events \in Seq(Event)
      /\ events' = Append(events, v)
  BY DEF TypeOK, AppendEvent
<1>3. /\ \A i \in DOMAIN events : events'[i] = events[i] /\ i < n
      /\ events'[n] = v
      /\ \A id : Stored(id)' = Stored(id) \cup {i \in {n} : v.id = id}
      /\ \A t : On(t)' = On(t) \cup {i \in {n} : v.task = t}
      /\ \A i \in DOMAIN events : Before(i)' = Before(i)
      /\ Before(n)' = Latest(On(v.task))
  BY <1>1, <1>2, AppendFacts, QueryFacts, BeforeFacts
<1> DEFINE Placed(c) == /\ c.task \notin Keyless
                        /\ c.created \in Stored(c.right)' \cap On(c.task)'
                        /\ Stored(c.left)' \cap Before(c.created)' # {}
           Justified(c) == \E r \in Stored(c.resolved_by)' \cap On(c.task)' :
                             /\ r > c.created
                             /\ events'[r].type \in CorrectionTypes
                             /\ events'[r].corrects \in {c.left, c.right}
<1>4. ASSUME NEW c \in conflicts PROVE Placed(c)
  <2>1. /\ c.task \notin Keyless
        /\ c.created \in Stored(c.right) \cap On(c.task)
        /\ Stored(c.left) \cap Before(c.created) # {}
    BY DEF ConflictsWellFormed
  <2>2. c.created \in DOMAIN events
    BY <2>1 DEF Stored
  <2>3. QED
    BY <1>3, <2>1, <2>2
<1>5. ASSUME NEW c \in conflicts, c.resolved_by # NoEvent PROVE Justified(c)
  <2>1. PICK r \in Stored(c.resolved_by) \cap On(c.task) :
          /\ r > c.created
          /\ events[r].type \in CorrectionTypes
          /\ events[r].corrects \in {c.left, c.right}
    BY <1>5 DEF ConflictsWellFormed
  <2>2. r \in DOMAIN events
    BY DEF Stored
  <2>3. QED
    BY <1>3, <2>1, <2>2
<1>6. ASSUME NEW c \in Settled(v)
      PROVE  Placed(Resolve(c, v.id)) /\ Justified(Resolve(c, v.id))
  <2> DEFINE d == Resolve(c, v.id)
  <2>1. /\ c \in conflicts /\ c.task = v.task
        /\ v.type \in CorrectionTypes /\ v.corrects \in {c.left, c.right}
        /\ d.task = c.task /\ d.left = c.left /\ d.right = c.right
        /\ d.created = c.created /\ d.resolved_by = v.id
    BY SettledFacts
  <2>2. Placed(d)
    BY <1>4, <2>1
  <2>3. c.created \in Nat /\ c.created < n
    BY <1>1, <2>1, CreatedEarlier
  <2>4. n \in Stored(d.resolved_by)' \cap On(d.task)'
    BY <1>3, <2>1
  <2>5. Justified(d)
    BY <1>3, <2>1, <2>3, <2>4
  <2>6. QED
    BY <2>2, <2>5
<1>7. ASSUME NEW d \in Opened(v, explicit)
      PROVE  Placed(d) /\ d.resolved_by = NoEvent
  <2>1. /\ explicit \/ ChainBroken(v)
        /\ \E i \in Latest(On(v.task)) : i \in DOMAIN events /\ d.left = events[i].id
        /\ d.task = v.task /\ d.right = v.id /\ d.created = n /\ d.resolved_by = NoEvent
    BY <1>1, OpenedFacts
  <2>2. d.task \notin Keyless
    BY <2>1 DEF AppendEvent, CanAppend
  <2>3. d.created \in Stored(d.right)' \cap On(d.task)'
    BY <1>3, <2>1
  <2>4. PICK i \in Latest(On(v.task)) : i \in DOMAIN events /\ d.left = events[i].id
    BY <2>1
  <2>5. i \in Stored(d.left) /\ i \in Before(d.created)'
    BY <1>3, <2>1, <2>4 DEF Stored
  <2>6. QED
    BY <1>3, <2>1, <2>2, <2>3, <2>5
<1>8. ASSUME NEW d \in conflicts'
      PROVE  Placed(d) /\ (d.resolved_by # NoEvent => Justified(d))
  BY <1>4, <1>5, <1>6, <1>7, ConflictFacts
<1>9. QED
  BY <1>8 DEF ConflictsWellFormed

LEMMA AppendAccounted ==
  ASSUME TypeOK, LatestExists, ConflictsWellFormed, ChainAccounted, NEW v \in Event,
         NEW explicit \in BOOLEAN, AppendEvent(v, explicit)
  PROVE  ChainAccounted'
<1>1. PICK n \in Nat : n = Len(events) + 1
  BY DEF TypeOK
<1>2. /\ events \in Seq(Event)
      /\ events' = Append(events, v)
  BY DEF TypeOK, AppendEvent
<1>3. /\ DOMAIN events' = DOMAIN events \cup {n}
      /\ \A i \in DOMAIN events : events'[i] = events[i] /\ i < n /\ i \in Nat
      /\ events'[n] = v
      /\ \A id : Stored(id)' = Stored(id) \cup {i \in {n} : v.id = id}
      /\ \A i \in DOMAIN events : Before(i)' = Before(i) /\ StateBefore(i)' = StateBefore(i)
      /\ Before(n)' = Latest(On(v.task))
      /\ StateBefore(n)' = Latest(StateOn(v.task))
  BY <1>1, <1>2, AppendFacts, QueryFacts, BeforeFacts
\* A conflict stays on record, and a dispute open at i stays one open at i.
<1>4. ASSUME NEW i \in DOMAIN events', NEW c \in conflicts, c.task = events'[i].task,
             c.created < i, i <= n,
             c.resolved_by = NoEvent \/ \E r \in Stored(c.resolved_by) : r >= i
      PROVE  DisputedBefore(i)'
  <2>1. CASE c \notin Settled(v)
    <3>1. c \in conflicts'
      BY <2>1, ConflictFacts
    <3>2. QED
      BY <1>3, <1>4, <3>1 DEF DisputedBefore
  <2>2. CASE c \in Settled(v)
    <3> DEFINE d == Resolve(c, v.id)
    <3>1. d \in conflicts' /\ d.task = c.task /\ d.created = c.created /\ d.resolved_by = v.id
      BY <2>2, ConflictFacts, SettledFacts
    <3>2. n \in Stored(v.id)'
      BY <1>3
    <3>3. QED
      BY <1>1, <1>3, <1>4, <3>1, <3>2 DEF DisputedBefore
  <2>3. QED
    BY <2>1, <2>2
<1>5. ASSUME NEW id, OpenedBy(id) # {} PROVE OpenedBy(id)' # {}
  BY <1>5, ConflictFacts, SettledFacts DEF OpenedBy
<1>6. ASSUME NEW i \in DOMAIN events, NEW j \in StateBefore(i)
      PROVE  Accounted(i, j)'
  <2>1. events'[i] = events[i] /\ i \in DOMAIN events' /\ i <= n /\ Before(i)' = Before(i)
    BY <1>1, <1>3
  <2>2. j \in DOMAIN events /\ \A k \in Before(i) : k \in DOMAIN events
    BY DEF StateBefore, Before, StateOn, On, Latest
  <2>3. events'[j] = events[j] /\ \A k \in Before(i) : events'[k] = events[k]
    BY <1>3, <2>2
  <2>4. CASE DisputedBefore(i)
    <3>1. PICK c \in conflicts : /\ c.task = events[i].task /\ c.created < i
                                 /\ \/ c.resolved_by = NoEvent
                                    \/ \E r \in Stored(c.resolved_by) : r >= i
      BY <2>4 DEF DisputedBefore
    <3>2. QED
      BY <1>4, <2>1, <3>1 DEF Accounted
  <2>5. CASE events[i].previous_state = events[j].new_state
    BY <2>1, <2>3, <2>5 DEF Accounted
  <2>6. CASE /\ events[i].type = "correction"
             /\ \E k \in Before(i) : events[i].corrects = events[k].id
    BY <2>1, <2>3, <2>6 DEF Accounted
  <2>7. CASE OpenedBy(events[i].id) # {}
    BY <1>5, <2>1, <2>7 DEF Accounted
  <2>8. Accounted(i, j)
    BY DEF ChainAccounted
  <2>9. QED
    BY <2>4, <2>5, <2>6, <2>7, <2>8 DEF Accounted
<1>7. ASSUME NEW j \in Latest(StateOn(v.task))
      PROVE  Accounted(n, j)'
  <2>1. j \in StateOn(v.task) /\ j \in On(v.task) /\ v.task \in Tasks
    BY DEF Latest, StateOn, Event
  <2>2. CASE ChainBroken(v)
    <3>1. PICK i \in Latest(On(v.task)) : TRUE
      BY <2>1 DEF LatestExists
    <3>2. Opened(v, explicit) # {}
      BY <2>2, <3>1 DEF Opened
    <3>3. PICK d \in Opened(v, explicit) : TRUE
      BY <3>2
    <3>4. d \in conflicts' /\ d.right = v.id
      BY <1>1, <3>3, ConflictFacts, OpenedFacts
    <3>5. QED
      BY <1>3, <3>4 DEF OpenedBy, Accounted
  <2>3. CASE Open(v.task) # {}
    <3>1. PICK c \in conflicts : c.task = v.task /\ c.resolved_by = NoEvent
      BY <2>3 DEF Open
    <3>2. c.created < n
      BY <1>1, CreatedEarlier
    <3>3. n \in DOMAIN events' /\ n <= n /\ events'[n].task = v.task
      BY <1>3
    <3>4. QED
      BY <1>4, <3>1, <3>2, <3>3 DEF Accounted
  <2>4. CASE \E i \in Latest(StateOn(v.task)) : v.previous_state = events[i].new_state
    <3>1. StateOn(v.task) \in SUBSET Nat
      BY <1>3 DEF StateOn, On
    <3>2. v.previous_state = events[j].new_state
      BY <2>4, <3>1, LatestUnique
    <3>3. events'[j] = events[j] /\ events'[n] = v
      BY <1>3, <2>1 DEF On
    <3>4. QED
      BY <3>2, <3>3 DEF Accounted
  <2>5. CASE v.type = "correction" /\ \E k \in Latest(On(v.task)) : v.corrects = events[k].id
    <3>1. \A k \in Latest(On(v.task)) : k \in DOMAIN events
      BY DEF Latest, On
    <3>2. /\ Before(n)' = Latest(On(v.task)) /\ events'[n] = v
          /\ \A k \in Latest(On(v.task)) : events'[k] = events[k]
      BY <1>3, <3>1
    <3>3. QED
      BY <2>5, <3>2 DEF Accounted
  <2>6. QED
    BY <2>1, <2>2, <2>3, <2>4, <2>5 DEF ChainBroken
<1>8. ASSUME NEW i \in DOMAIN events', NEW j \in StateBefore(i)'
      PROVE  Accounted(i, j)'
  <2>1. CASE i \in DOMAIN events
    BY <1>3, <1>6, <2>1
  <2>2. CASE i = n
    BY <1>3, <1>7, <2>2
  <2>3. QED
    BY <1>3, <2>1, <2>2
<1>9. QED
  BY <1>8 DEF ChainAccounted

LEMMA AppendOldestFirst ==
  ASSUME TypeOK, ConflictsWellFormed, OldestSettledFirst, NEW v \in Event,
         NEW explicit \in BOOLEAN, AppendEvent(v, explicit)
  PROVE  OldestSettledFirst'
<1>1. PICK n \in Nat : n = Len(events) + 1
  BY DEF TypeOK
<1>2. \A d \in Opened(v, explicit) : d.created = n /\ d.resolved_by = NoEvent
  BY <1>1, OpenedFacts
<1>3. ASSUME NEW c \in conflicts' , NEW d \in conflicts',
             c.task = d.task, c.created < d.created, d.resolved_by # NoEvent
      PROVE  c.resolved_by # NoEvent
  <2>1. CASE \E b \in Settled(v) : c = Resolve(b, v.id)
    BY <2>1, SettledFacts, LedgerAssumption DEF Event
  <2>2. CASE c \in conflicts /\ c \notin Settled(v)
    <3>1. CASE d \in conflicts
      BY <1>3, <2>2, <3>1 DEF OldestSettledFirst
    <3>2. CASE \E b \in Settled(v) : d = Resolve(b, v.id)
      <4>1. PICK b \in Settled(v) : d = Resolve(b, v.id)
        BY <3>2
      <4>2. /\ d.task = v.task /\ d.created = b.created /\ b \in conflicts
            /\ \A a \in Open(v.task) : b.created <= a.created
        BY <4>1, SettledFacts
      <4>3. b.created \in Nat /\ c.created \in Nat
        BY <2>2, <4>2 DEF TypeOK, Conflict
      <4>4. c \notin Open(v.task)
        BY <1>3, <4>2, <4>3
      <4>5. QED
        BY <1>3, <2>2, <4>2, <4>4 DEF Open
    <3>3. QED
      BY <1>2, <1>3, <3>1, <3>2, ConflictFacts
  <2>3. CASE c \in Opened(v, explicit)
    <3>1. d \notin Opened(v, explicit)
      BY <1>2, <1>3
    <3>2. \A b \in conflicts : b.created \in Nat /\ b.created < n
      BY <1>1, CreatedEarlier
    <3>3. d.created \in Nat /\ d.created < n
      BY <3>1, <3>2, ConflictFacts, SettledFacts
    <3>4. QED
      BY <1>2, <1>3, <2>3, <3>3
  <2>4. QED
    BY <2>1, <2>2, <2>3, ConflictFacts
<1>4. QED
  BY <1>3 DEF OldestSettledFirst

LEMMA AppendOneOpen ==
  ASSUME TypeOK, OneConflictPerEvent, OneOpenConflict, NEW v \in Event,
         NEW explicit \in BOOLEAN, explicit => TRUE \in Explicit,
         AppendEvent(v, explicit), OneConflictPerEvent'
  PROVE  OneOpenConflict'
<1>1. SUFFICES ASSUME TRUE \notin Explicit, NEW t \in Tasks,
                      NEW c \in Open(t)', NEW d \in Open(t)'
               PROVE  c = d
  BY DEF OneOpenConflict, Open
<1>2. ~ explicit
  BY <1>1
<1>3. PICK n \in Nat : n = Len(events) + 1
  BY DEF TypeOK
<1>4. /\ c \in conflicts' /\ d \in conflicts'
      /\ c.task = t /\ d.task = t /\ c.resolved_by = NoEvent /\ d.resolved_by = NoEvent
  BY DEF Open
<1>5. \A b \in Settled(v) : Resolve(b, v.id).resolved_by # NoEvent
  BY SettledFacts, LedgerAssumption DEF Event
<1>6. \A b \in {c, d} : b \in Open(t) \/ b \in Opened(v, explicit)
  BY <1>4, <1>5, ConflictFacts DEF Open
<1>7. \A b \in Opened(v, explicit) : b.created = n /\ b.task = v.task /\ ChainBroken(v)
  BY <1>2, <1>3, OpenedFacts
<1>8. CASE c \in Opened(v, explicit) \/ d \in Opened(v, explicit)
  <2>1. t = v.task /\ Open(t) = {}
    BY <1>4, <1>7, <1>8 DEF ChainBroken
  <2>2. c.created = n /\ d.created = n
    BY <1>6, <1>7, <2>1
  <2>3. QED
    BY <1>4, <2>2 DEF OneConflictPerEvent
<1>9. CASE c \in Open(t) /\ d \in Open(t)
  BY <1>1, <1>9 DEF OneOpenConflict
<1>10. QED
  BY <1>6, <1>8, <1>9
-----------------------------------------------------------------------------
(* The theorems.                                                           *)

LEMMA InitInv == Init => LedgerInv
BY DEF Init, LedgerInv, TypeOK, UniqueIds, LatestExists, OneConflictPerEvent,
       ConflictsWellFormed, ChainAccounted, OldestSettledFirst, OneOpenConflict,
       On, StateOn, Open

\* Whatever explicit conflicts callers record, an event may come without one.
LEMMA AppendAnyInv ==
  ASSUME LedgerInv, NEW v \in Event, NEW explicit \in BOOLEAN,
         explicit => TRUE \in Explicit, AppendEvent(v, explicit)
  PROVE  LedgerInv'
<1>1. TypeOK' /\ UniqueIds' /\ LatestExists' /\ OneConflictPerEvent'
  BY AppendType, AppendUnique, AppendLatest, AppendOnePerEvent DEF LedgerInv
<1>2. ConflictsWellFormed'
  BY AppendWellFormed DEF LedgerInv
<1>3. ChainAccounted'
  BY AppendAccounted DEF LedgerInv
<1>4. OldestSettledFirst'
  BY AppendOldestFirst DEF LedgerInv
<1>5. OneOpenConflict'
  BY <1>1, AppendOneOpen DEF LedgerInv
<1>6. QED
  BY <1>1, <1>2, <1>3, <1>4, <1>5 DEF LedgerInv

LEMMA AppendInv ==
  ASSUME LedgerInv, NEW v \in Inputs, NEW explicit \in Explicit, AppendEvent(v, explicit)
  PROVE  LedgerInv'
<1>1. v \in Event /\ explicit \in BOOLEAN /\ (explicit => TRUE \in Explicit)
  BY LedgerAssumption
<1>2. QED
  BY <1>1, AppendAnyInv

\* A step that writes nothing keeps the invariant.
LEMMA StutterInv == LedgerInv /\ UNCHANGED ledgerVars => LedgerInv'
<1> SUFFICES ASSUME LedgerInv, UNCHANGED ledgerVars PROVE LedgerInv'
  OBVIOUS
<1>1. events' = events /\ conflicts' = conflicts
  BY DEF ledgerVars
<1>2. TypeOK' /\ UniqueIds' /\ LatestExists' /\ OneConflictPerEvent'
  BY <1>1 DEF LedgerInv, TypeOK, UniqueIds, LatestExists, OneConflictPerEvent, On, StateOn
<1>3. ConflictsWellFormed'
  BY <1>1 DEF LedgerInv, ConflictsWellFormed, Stored, On, Before, Latest
<1>4. OldestSettledFirst' /\ OneOpenConflict'
  BY <1>1 DEF LedgerInv, OldestSettledFirst, OneOpenConflict, Open
<1>5. ChainAccounted'
  BY <1>1 DEF LedgerInv, ChainAccounted, Accounted, StateBefore, Before, On, StateOn,
              OpenedBy, DisputedBefore, Stored
<1>6. QED
  BY <1>2, <1>3, <1>4, <1>5 DEF LedgerInv

LEMMA NextInv == LedgerInv /\ [Next]_ledgerVars => LedgerInv'
<1> SUFFICES ASSUME LedgerInv, [Next]_ledgerVars PROVE LedgerInv'
  OBVIOUS
<1>1. ASSUME NEW v \in Inputs, NEW explicit \in Explicit, AppendEvent(v, explicit)
      PROVE  LedgerInv'
  BY <1>1, AppendInv
<1>2. ASSUME NEW v \in Inputs, NEW explicit \in Explicit, Replay(v, explicit)
      PROVE  LedgerInv'
  BY <1>2, StutterInv DEF Replay
<1>3. ASSUME NEW v \in Inputs, NEW explicit \in Explicit, Refuse(v, explicit)
      PROVE  LedgerInv'
  BY <1>3, StutterInv DEF Refuse
<1>4. CASE UNCHANGED ledgerVars
  BY <1>4, StutterInv
<1>5. QED
  BY <1>1, <1>2, <1>3, <1>4 DEF Next

\* The ledger keeps its inductive invariant (events.py:358-505).
THEOREM LedgerCorrect == Spec => []LedgerInv
<1>1. Init => LedgerInv
  BY InitInv
<1>2. LedgerInv /\ [Next]_ledgerVars => LedgerInv'
  BY NextInv
<1>3. QED
  BY <1>1, <1>2, PTL DEF Spec

\* The tables are well typed (schema.sql:43-103).
THEOREM LedgerTypes == Spec => []TypeOK
<1>1. LedgerInv => TypeOK
  BY DEF LedgerInv
<1>2. QED
  BY <1>1, LedgerCorrect, PTL

\* No change of a task's state goes by unnoticed (events.py:445-482).
THEOREM ChainsAccounted == Spec => []ChainAccounted
<1>1. LedgerInv => ChainAccounted
  BY DEF LedgerInv
<1>2. QED
  BY <1>1, LedgerCorrect, PTL

\* Every conflict joins consecutive events of a task, and only a later
\* correction naming one of them resolves it (events.py:100-123, 303-342).
THEOREM ConflictsSound == Spec => []ConflictsWellFormed
<1>1. LedgerInv => ConflictsWellFormed
  BY DEF LedgerInv
<1>2. QED
  BY <1>1, LedgerCorrect, PTL

\* Disputes of a task are settled oldest first (events.py:84-97).
THEOREM SettledInOrder == Spec => []OldestSettledFirst
<1>1. LedgerInv => OldestSettledFirst
  BY DEF LedgerInv
<1>2. QED
  BY <1>1, LedgerCorrect, PTL

\* Without explicit conflicts a task has one open conflict at most
\* (events.py:446).
THEOREM AtMostOneOpen == Spec => []OneOpenConflict
<1>1. LedgerInv => OneOpenConflict
  BY DEF LedgerInv
<1>2. QED
  BY <1>1, LedgerCorrect, PTL
-----------------------------------------------------------------------------
(* History and refinement.                                                 *)

\* What HistoryKept says of a step.
Kept ==
  /\ \A i \in DOMAIN events : i \in DOMAIN events' /\ events'[i] = events[i]
  /\ \A i, j \in DOMAIN events' : events'[i].id = events'[j].id => i = j
  /\ \A c \in conflicts : \E d \in conflicts' :
       \/ d = c
       \/ c.resolved_by = NoEvent /\ d = Resolve(c, d.resolved_by)

\* What a component that uses the ledger does to it: an event is appended,
\* whether it is one of Inputs or not.
Wrote == \E v \in Event, explicit \in BOOLEAN :
           (explicit => TRUE \in Explicit) /\ AppendEvent(v, explicit)

LEMMA AppendKeeps ==
  ASSUME LedgerInv, LedgerInv', NEW v \in Event, NEW explicit \in BOOLEAN,
         AppendEvent(v, explicit)
  PROVE  Kept
<1>1. PICK n \in Nat : n = Len(events) + 1
  BY DEF LedgerInv, TypeOK
<1>2. \A i \in DOMAIN events : i \in DOMAIN events' /\ events'[i] = events[i]
  BY <1>1, AppendFacts DEF LedgerInv, TypeOK, AppendEvent
<1>3. \A i, j \in DOMAIN events' : events'[i].id = events'[j].id => i = j
  BY DEF LedgerInv, UniqueIds
<1>4. ASSUME NEW c \in conflicts
      PROVE  \E d \in conflicts' :
               d = c \/ (c.resolved_by = NoEvent /\ d = Resolve(c, d.resolved_by))
  <2>1. CASE c \notin Settled(v)
    BY <2>1, ConflictFacts DEF LedgerInv
  <2>2. CASE c \in Settled(v)
    <3>1. /\ Resolve(c, v.id) \in conflicts'
          /\ c.resolved_by = NoEvent
          /\ Resolve(c, v.id).resolved_by = v.id
      BY <2>2, ConflictFacts, SettledFacts DEF LedgerInv
    <3>2. QED
      BY <3>1
  <2>3. QED
    BY <2>1, <2>2
<1>5. QED
  BY <1>2, <1>3, <1>4 DEF Kept

\* Whatever component appends, the invariant stays and no history is lost.
LEMMA WroteKeeps ==
  ASSUME LedgerInv, [Wrote]_ledgerVars
  PROVE  LedgerInv' /\ [Kept]_ledgerVars
<1>1. CASE UNCHANGED ledgerVars
  BY <1>1, StutterInv
<1>2. CASE Wrote
  BY <1>2, AppendAnyInv, AppendKeeps DEF Wrote
<1>3. QED
  BY <1>1, <1>2

\* A step of the ledger appends an event of Inputs or nothing.
LEMMA NextWrote == [Next]_ledgerVars => [Wrote]_ledgerVars
BY LedgerAssumption DEF Next, Wrote, Replay, Refuse

\* No event and no resolution is ever rewritten or lost (events.py:113-123,
\* 364-368).
THEOREM HistorySafe == Spec => HistoryKept
<1>1. LedgerInv /\ [Next]_ledgerVars => [Kept]_ledgerVars
  BY NextWrote, WroteKeeps
<1>2. QED
  BY <1>1, LedgerCorrect, PTL DEF Spec, HistoryKept, Kept

\* The state of record is what the latest stating event states.
StateAgrees ==
  \A t \in Tasks :
    /\ StateOn(t) = {} => StateOf(t) = NoState
    /\ StateOn(t) # {} =>
         /\ StateOf(t) # NoState
         /\ \E i \in Latest(StateOn(t)) : StateOf(t) = events[i].new_state
         /\ \A i \in Latest(StateOn(t)) : StateOf(t) = events[i].new_state

LEMMA StateFacts == LedgerInv => StateAgrees
<1> SUFFICES ASSUME LedgerInv, NEW t \in Tasks
             PROVE  /\ StateOn(t) = {} => StateOf(t) = NoState
                    /\ StateOn(t) # {} =>
                         /\ StateOf(t) # NoState
                         /\ \E i \in Latest(StateOn(t)) : StateOf(t) = events[i].new_state
                         /\ \A i \in Latest(StateOn(t)) : StateOf(t) = events[i].new_state
  BY DEF StateAgrees
<1>1. CASE StateOn(t) = {}
  BY <1>1 DEF StateOf
<1>2. CASE StateOn(t) # {}
  <2>1. Latest(StateOn(t)) # {}
    BY <1>2 DEF LedgerInv, LatestExists
  <2> DEFINE top == CHOOSE i \in Latest(StateOn(t)) : TRUE
  <2>2. top \in Latest(StateOn(t)) /\ StateOf(t) = events[top].new_state
    BY <1>2, <2>1 DEF StateOf
  <2>3. events[top].new_state # NoState
    BY <2>2 DEF Latest, StateOn
  <2>4. StateOn(t) \in SUBSET Nat
    BY DEF StateOn, On, LedgerInv, TypeOK
  <2>5. \A i \in Latest(StateOn(t)) : i = top
    BY <2>2, <2>4, LatestUnique
  <2>6. QED
    BY <1>2, <2>2, <2>3, <2>5
<1>3. QED
  BY <1>1, <1>2

\* Recording v makes its statement, if any, the state of its task.
LEMMA StateStep ==
  ASSUME LedgerInv, LedgerInv', NEW v \in Event, NEW explicit \in BOOLEAN,
         AppendEvent(v, explicit), NEW t \in Tasks
  PROVE  StateOf(t)' = IF t = v.task /\ v.new_state # NoState
                       THEN v.new_state ELSE StateOf(t)
<1>1. PICK n \in Nat : n = Len(events) + 1
  BY DEF LedgerInv, TypeOK
<1>2. events \in Seq(Event) /\ events' = Append(events, v)
  BY DEF LedgerInv, TypeOK, AppendEvent
<1>3. /\ \A i \in DOMAIN events : events'[i] = events[i] /\ i < n /\ i \in Nat
      /\ events'[n] = v
      /\ StateOn(t)' = StateOn(t) \cup {i \in {n} : v.task = t /\ v.new_state # NoState}
  BY <1>1, <1>2, AppendFacts, QueryFacts
<1>4. /\ StateOn(t)' = {} => StateOf(t)' = NoState
      /\ StateOn(t)' # {} =>
           \A i \in Latest(StateOn(t)') : StateOf(t)' = events'[i].new_state
  <2>1. StateAgrees'
    BY StateFacts, PTL
  <2>2. QED
    BY <2>1 DEF StateAgrees, Latest
<1>5. CASE t = v.task /\ v.new_state # NoState
  <2>1. StateOn(t)' = StateOn(t) \cup {n}
    BY <1>3, <1>5
  <2>2. \A i \in StateOn(t) : i \in Nat /\ i < n
    BY <1>3 DEF StateOn, On
  <2>3. n \in Latest(StateOn(t)')
    BY <2>1, <2>2 DEF Latest
  <2>4. QED
    BY <1>3, <1>4, <1>5, <2>1, <2>3
<1>6. CASE ~ (t = v.task /\ v.new_state # NoState)
  <2>1. StateOn(t)' = StateOn(t)
    BY <1>3, <1>6
  <2>2. CASE StateOn(t) = {}
    BY <1>4, <1>6, <2>1, <2>2, StateFacts DEF StateAgrees
  <2>3. CASE StateOn(t) # {}
    <3>1. PICK i \in Latest(StateOn(t)) : StateOf(t) = events[i].new_state
      BY <2>3, StateFacts DEF StateAgrees
    <3>2. i \in DOMAIN events
      BY DEF Latest, StateOn, On
    <3>3. StateOf(t)' = events'[i].new_state
      BY <1>4, <2>1, <2>3
    <3>4. QED
      BY <1>3, <1>6, <3>1, <3>2, <3>3
  <2>4. QED
    BY <2>2, <2>3
<1>7. QED
  BY <1>5, <1>6

\* Which tasks have an open conflict after the step.
LEMMA OpenStep ==
  ASSUME LedgerInv, NEW v \in Event, NEW explicit \in BOOLEAN, AppendEvent(v, explicit)
  PROVE  /\ \A t \in Tasks : t # v.task => (Open(t)' # {} <=> Open(t) # {})
         /\ Open(v.task) # {} /\ Open(v.task)' = {} => v.type \in CorrectionTypes
         /\ Open(v.task) = {} /\ Open(v.task)' # {} => Opened(v, explicit) # {}
         /\ Opened(v, explicit) # {} => Open(v.task)' # {}
<1>1. PICK n \in Nat : n = Len(events) + 1
  BY DEF LedgerInv, TypeOK
<1>2. TypeOK
  BY DEF LedgerInv
<1>3. \A c \in Settled(v) : /\ c.task = v.task /\ v.type \in CorrectionTypes
                            /\ Resolve(c, v.id).resolved_by # NoEvent
                            /\ Resolve(c, v.id).task = v.task
  BY <1>2, SettledFacts, LedgerAssumption DEF Event
<1>4. \A d \in Opened(v, explicit) : d.task = v.task /\ d.resolved_by = NoEvent
  BY <1>1, <1>2, OpenedFacts
<1>5. \A c \in conflicts : c \in conflicts' \/ c \in Settled(v)
  BY <1>2, ConflictFacts
<1>6. \A d \in conflicts' : \/ d \in conflicts
                            \/ d.task = v.task /\ d.resolved_by # NoEvent
                            \/ d \in Opened(v, explicit)
  BY <1>2, <1>3, ConflictFacts
<1>7. ASSUME NEW t \in Tasks, t # v.task PROVE Open(t)' # {} <=> Open(t) # {}
  BY <1>3, <1>4, <1>5, <1>6, <1>7 DEF Open
<1>8. ASSUME Open(v.task) # {}, Open(v.task)' = {} PROVE v.type \in CorrectionTypes
  BY <1>3, <1>5, <1>8 DEF Open
<1>9. ASSUME Open(v.task) = {}, Open(v.task)' # {} PROVE Opened(v, explicit) # {}
  BY <1>6, <1>9 DEF Open
<1>10. ASSUME Opened(v, explicit) # {} PROVE Open(v.task)' # {}
  BY <1>2, <1>4, <1>10, ConflictFacts DEF Open
<1>11. QED
  BY <1>7, <1>8, <1>9, <1>10

\* An appended event is a step of TaskStates.
LEMMA AppendPromised ==
  ASSUME LedgerInv, LedgerInv', NEW v \in Inputs, NEW explicit \in BOOLEAN,
         explicit => TRUE \in Explicit, AppendEvent(v, explicit)
  PROVE  Promised!Next
<1> DEFINE state    == [t \in Tasks |-> StateOf(t)]
           disputed == [t \in Tasks |-> Open(t) # {}]
           last     == IF events = <<>> THEN NoEvent ELSE events[Len(events)]
<1>1. v \in Event /\ explicit \in BOOLEAN /\ v.task \in Tasks
  BY LedgerAssumption DEF Event
<1>2. Promised!Record(v)
  <2>1. last' = v
    BY <1>1 DEF AppendEvent, LedgerInv, TypeOK
  <2>2. \A t \in Tasks : StateOf(t)' = IF t = v.task /\ v.new_state # NoState
                                       THEN v.new_state ELSE StateOf(t)
    BY <1>1, StateStep
  <2>3. state' = [state EXCEPT ![v.task] = IF v.new_state = NoState THEN @ ELSE v.new_state]
    BY <1>1, <2>2
  <2>4. QED
    BY <2>1, <2>3 DEF Promised!Record
<1>3. /\ \A t \in Tasks : t # v.task => (Open(t)' # {} <=> Open(t) # {})
      /\ Open(v.task) # {} /\ Open(v.task)' = {} => v.type \in CorrectionTypes
      /\ Open(v.task) = {} /\ Open(v.task)' # {} => Opened(v, explicit) # {}
      /\ Opened(v, explicit) # {} => Open(v.task)' # {}
  BY <1>1, OpenStep
<1>4. CASE Open(v.task)' # {} <=> Open(v.task) # {}
  <2>1. disputed' = disputed
    BY <1>3, <1>4
  <2>2. disputed[v.task] \/ Promised!Continues(v) \/ v.type = "correction"
    <3>1. CASE Open(v.task) # {}
      BY <1>1, <3>1
    <3>2. CASE Open(v.task) = {} /\ StateOn(v.task) = {}
      BY <1>1, <3>2, StateFacts DEF StateAgrees, Promised!Continues
    <3>3. CASE Open(v.task) = {} /\ StateOn(v.task) # {}
      <4>1. Opened(v, explicit) = {}
        BY <1>3, <1>4, <3>3
      <4>2. On(v.task) # {}
        BY <3>3 DEF StateOn
      <4>3. PICK k \in Latest(On(v.task)) : TRUE
        BY <1>1, <4>2 DEF LedgerInv, LatestExists
      <4>4. ~ ChainBroken(v)
        BY <4>1, <4>3 DEF Opened
      <4>5. \/ \E i \in Latest(StateOn(v.task)) : v.previous_state = events[i].new_state
            \/ v.type = "correction"
        BY <3>3, <4>4 DEF ChainBroken
      <4>6. QED
        BY <1>1, <3>3, <4>5, StateFacts DEF StateAgrees, Promised!Continues
    <3>4. QED
      BY <3>1, <3>2, <3>3
  <2>3. QED
    BY <1>2, <2>1, <2>2 DEF Promised!Next, Promised!Advance
<1>5. CASE Open(v.task)' # {} /\ Open(v.task) = {}
  <2>1. disputed' = [disputed EXCEPT ![v.task] = TRUE] /\ ~ disputed[v.task]
    BY <1>1, <1>3, <1>5
  <2>2. explicit \/ ChainBroken(v)
    BY <1>3, <1>5 DEF Opened
  <2>3. ~ Promised!Continues(v) \/ TRUE \in Explicit
    <3>1. CASE explicit
      BY <1>1, <3>1
    <3>2. CASE ChainBroken(v)
      <4>1. StateOn(v.task) # {}
        BY <3>2 DEF ChainBroken
      <4>2. PICK i \in Latest(StateOn(v.task)) : StateOf(v.task) = events[i].new_state
        BY <1>1, <4>1, StateFacts DEF StateAgrees
      <4>3. StateOf(v.task) # NoState /\ v.previous_state # StateOf(v.task)
        BY <1>1, <3>2, <4>1, <4>2, StateFacts DEF StateAgrees, ChainBroken
      <4>4. QED
        BY <1>1, <4>3 DEF Promised!Continues
    <3>3. QED
      BY <2>2, <3>1, <3>2
  <2>4. QED
    BY <1>2, <2>1, <2>3 DEF Promised!Next, Promised!Dispute
<1>6. CASE Open(v.task)' = {} /\ Open(v.task) # {}
  <2>1. disputed' = [disputed EXCEPT ![v.task] = FALSE] /\ disputed[v.task]
    BY <1>1, <1>3, <1>6
  <2>2. QED
    BY <1>2, <1>3, <1>6, <2>1 DEF Promised!Next, Promised!Settle
<1>7. QED
  BY <1>4, <1>5, <1>6

LEMMA InitPromised == Init => Promised!Init
<1> SUFFICES ASSUME Init PROVE Promised!Init
  OBVIOUS
<1>1. \A t \in Tasks : StateOn(t) = {} /\ Open(t) = {}
  BY DEF Init, StateOn, On, Open
<1>2. \A t \in Tasks : StateOf(t) = NoState
  BY <1>1 DEF StateOf
<1>3. (IF events = <<>> THEN NoEvent ELSE events[Len(events)]) = NoEvent
  BY DEF Init
<1>4. QED
  BY <1>1, <1>2, <1>3 DEF Promised!Init

\* What a component does that appends events of Inputs.
WroteInput == \E v \in Inputs, explicit \in BOOLEAN :
                (explicit => TRUE \in Explicit) /\ AppendEvent(v, explicit)

LEMMA WroteInputPromised ==
  ASSUME LedgerInv, LedgerInv', [WroteInput]_ledgerVars
  PROVE  [Promised!Next]_(Promised!taskVars)
<1>1. CASE UNCHANGED ledgerVars
  BY <1>1 DEF ledgerVars, Promised!taskVars, StateOf, StateOn, On, Open, Latest
<1>2. CASE WroteInput
  BY <1>2, AppendPromised DEF WroteInput
<1>3. QED
  BY <1>1, <1>2

\* The ledger implements TaskStates: what happens to a task's state and to its
\* disputes is what that specification allows, whatever the history.
THEOREM LedgerKeepsPromise == Spec => TaskStatesKept
<1>1. Init => Promised!Init
  BY InitPromised
<1>2. [Next]_ledgerVars => [WroteInput]_ledgerVars
  BY LedgerAssumption DEF Next, WroteInput, Replay, Refuse
<1>3. LedgerInv /\ LedgerInv' /\ [WroteInput]_ledgerVars
        => [Promised!Next]_(Promised!taskVars)
  BY WroteInputPromised
<1>4. QED
  BY <1>1, <1>2, <1>3, LedgerCorrect, PTL DEF Spec, TaskStatesKept, Promised!Spec
=============================================================================
