---------------------------- MODULE SqliteProofs ----------------------------
(***************************************************************************)
(* Proofs about the transactions and the snapshots, for every number of    *)
(* connections, of writes and of nested blocks: a transaction is all or    *)
(* nothing, loses no update, and no snapshot is torn.                      *)
(***************************************************************************)
EXTENDS Snapshots, SequenceTheorems, TLAPS

\* The write lock is held by one connection at most.
OneWriter ==
  \A c, d \in Conns :
    lock[c] \in {"reserved", "pending"} /\ lock[d] \in {"reserved", "pending"} => c = d

\* What a connection has read is held by a lock: as long as it only reads, the
\* database stays what it saw, and what it wrote comes after it.
ViewHeld ==
  \A c \in Conns : view[c] # Unread =>
    /\ phase[c] # "outside"
    /\ lock[c] # "none"
    /\ IsPrefix(db, view[c])
    /\ lock[c] = "shared" => view[c] = db

\* Only the holder of PENDING commits.
CommitLocked == \A c \in Conns : phase[c] = "committing" => lock[c] = "pending"

\* Every write so far has a number of its own.
WritesNumbered ==
  /\ ToSet(db) \cup raised \subseteq 1 .. writes
  /\ \A c \in Conns : view[c] # Unread => ToSet(view[c]) \subseteq 1 .. writes

\* No write of a block that may still commit counts as raised.
OwnNotRaised ==
  \A c \in Conns : phase[c] \in {"body", "committing"} => Own(c) \cap raised = {}

\* The transactions' invariant.
TxInv ==
  /\ TypeOK
  /\ OneWriter
  /\ ViewHeld
  /\ CommitLocked
  /\ WritesNumbered
  /\ OwnNotRaised
  /\ AllOrNothing
-----------------------------------------------------------------------------
(* Sequences of writes.                                                    *)

Log == Seq(1 .. MaxWrites)

LEMMA PrefixFacts ==
  ASSUME NEW S, NEW s \in Seq(S), NEW t \in Seq(S)
  PROVE  IsPrefix(s, t) <=> Len(s) <= Len(t) /\ \A i \in 1 .. Len(s) : s[i] = t[i]
<1>1. Len(s) \in Nat /\ Len(t) \in Nat
  OBVIOUS
<1>2. Len(s) <= Len(t) => /\ SubSeq(s, 1, Len(s)) = [i \in 1 .. Len(s) |-> s[i]]
                          /\ SubSeq(t, 1, Len(s)) = [i \in 1 .. Len(s) |-> t[i]]
  BY <1>1
<1>3. QED
  BY <1>1, <1>2 DEF IsPrefix

LEMMA PrefixOrder ==
  ASSUME NEW S, NEW s \in Seq(S)
  PROVE  /\ IsPrefix(s, s)
         /\ \A x \in S : IsPrefix(s, Append(s, x))
         /\ \A t, u \in Seq(S) : IsPrefix(s, t) /\ IsPrefix(t, u) => IsPrefix(s, u)
<1>1. IsPrefix(s, s)
  BY PrefixFacts
<1>2. ASSUME NEW x \in S PROVE IsPrefix(s, Append(s, x))
  <2> DEFINE t == Append(s, x)
  <2>1. /\ t \in Seq(S) /\ Len(t) = Len(s) + 1 /\ Len(s) \in Nat
        /\ \A i \in 1 .. Len(s) : t[i] = s[i]
    OBVIOUS
  <2> HIDE DEF t
  <2>2. Len(s) <= Len(t)
    BY <2>1
  <2>3. IsPrefix(s, t)
    BY <2>1, <2>2, PrefixFacts
  <2>4. QED
    BY <2>3 DEF t
<1>3. ASSUME NEW t \in Seq(S), NEW u \in Seq(S), IsPrefix(s, t), IsPrefix(t, u)
      PROVE  IsPrefix(s, u)
  <2>1. /\ Len(s) <= Len(t) /\ \A i \in 1 .. Len(s) : s[i] = t[i]
        /\ Len(t) <= Len(u) /\ \A i \in 1 .. Len(t) : t[i] = u[i]
    BY <1>3, PrefixFacts
  <2>2. Len(s) <= Len(u) /\ \A i \in 1 .. Len(s) : s[i] = u[i]
    BY <2>1
  <2>3. QED
    BY <2>2, PrefixFacts
<1>4. QED
  BY <1>1, <1>2, <1>3

LEMMA ElementFacts ==
  ASSUME NEW S, NEW s \in Seq(S)
  PROVE  /\ \A x \in S : ToSet(Append(s, x)) = ToSet(s) \cup {x}
         /\ \A t \in Seq(S) : IsPrefix(s, t) => ToSet(s) \subseteq ToSet(t)
<1>1. ASSUME NEW x \in S PROVE ToSet(Append(s, x)) = ToSet(s) \cup {x}
  <2>1. /\ DOMAIN Append(s, x) = DOMAIN s \cup {Len(s) + 1}
        /\ \A i \in DOMAIN s : Append(s, x)[i] = s[i]
        /\ Append(s, x)[Len(s) + 1] = x
    OBVIOUS
  <2>2. QED
    BY <2>1 DEF ToSet
<1>2. ASSUME NEW t \in Seq(S), IsPrefix(s, t) PROVE ToSet(s) \subseteq ToSet(t)
  <2>1. Len(s) <= Len(t) /\ \A i \in 1 .. Len(s) : s[i] = t[i]
    BY <1>2, PrefixFacts
  <2>2. DOMAIN s = 1 .. Len(s) /\ DOMAIN t = 1 .. Len(t) /\ Len(s) \in Nat /\ Len(t) \in Nat
    OBVIOUS
  <2>3. QED
    BY <2>1, <2>2 DEF ToSet
<1>3. QED
  BY <1>1, <1>2

\* A view is a log of writes that starts with the database, and a connection
\* that holds no write lock has written nothing.
LEMMA ViewFacts ==
  ASSUME TxInv, NEW c \in Conns
  PROVE  /\ db \in Log /\ View(c) \in Log
         /\ IsPrefix(db, View(c))
         /\ ToSet(View(c)) = ToSet(db) \cup Own(c)
         /\ lock[c] \notin {"reserved", "pending"} => Own(c) = {} /\ View(c) = db
         /\ ToSet(View(c)) \subseteq 1 .. writes
<1>1. db \in Log /\ Unread \notin Log /\ view[c] \in Log \cup {Unread}
  <2>1. \A s \in Log : s \in Seq(Nat)
    BY SeqMonotonic, SqliteAssumption DEF Log
  <2>2. QED
    BY <2>1, SqliteAssumption DEF TxInv, TypeOK, Log
<1>2. View(c) \in Log /\ IsPrefix(db, View(c))
  BY <1>1, PrefixOrder DEF View, TxInv, ViewHeld, Log
<1>3. ToSet(db) \subseteq ToSet(View(c))
  BY <1>1, <1>2, ElementFacts DEF Log
<1>4. lock[c] \notin {"reserved", "pending"} => View(c) = db
  BY DEF View, TxInv, ViewHeld, TypeOK
<1>5. ToSet(View(c)) \subseteq 1 .. writes
  BY DEF View, TxInv, WritesNumbered
<1>6. QED
  BY <1>1, <1>2, <1>3, <1>4, <1>5 DEF Own
-----------------------------------------------------------------------------
(* The steps of a transaction.                                             *)

\* Beginning without a lock, entering and leaving nested blocks.
LEMMA BlockInv ==
  ASSUME TxInv, NEW c \in Conns,
         \/ BeginDeferred(c) \/ EnterNested(c) \/ LeaveNested(c)
         \/ Unwind(c) /\ depth[c] > 1
  PROVE  TxInv'
<1>1. /\ UNCHANGED <<db, lock, view, writes, raised, returned>>
      /\ phase' \in {phase, [phase EXCEPT ![c] = "body"]}
      /\ phase' # phase => phase[c] = "outside"
      /\ depth' \in [Conns -> 0 .. MaxDepth]
  <2>1. MaxDepth \in Nat \ {0} /\ depth \in [Conns -> 0 .. MaxDepth]
    BY SqliteAssumption DEF TxInv, TypeOK
  <2>2. CASE BeginDeferred(c)
    BY <2>1, <2>2 DEF BeginDeferred, Goto
  <2>3. CASE EnterNested(c) \/ LeaveNested(c) \/ (Unwind(c) /\ depth[c] > 1)
    BY <2>1, <2>3 DEF EnterNested, LeaveNested, Unwind
  <2>4. QED
    BY <2>2, <2>3
<1>2. \A d \in Conns : Own(d)' = Own(d)
  BY <1>1 DEF Own, View
<1>3. TypeOK'
  BY <1>1 DEF TxInv, TypeOK
<1>4. \A d \in Conns : \/ phase'[d] = phase[d]
                       \/ phase'[d] = "body" /\ phase[d] = "outside"
  BY <1>1 DEF TxInv, TypeOK
<1>5. \A d \in Conns : phase[d] = "outside" => Own(d) = {}
  BY DEF TxInv, ViewHeld, Own, View
<1>6. OwnNotRaised'
  BY <1>1, <1>2, <1>4, <1>5 DEF TxInv, OwnNotRaised
<1>7. OneWriter' /\ ViewHeld' /\ CommitLocked'
  BY <1>1, <1>4 DEF TxInv, OneWriter, ViewHeld, CommitLocked
<1>8. WritesNumbered' /\ AllOrNothing'
  BY <1>1 DEF TxInv, WritesNumbered, AllOrNothing
<1>9. QED
  BY <1>3, <1>6, <1>7, <1>8 DEF TxInv

LEMMA BeginImmediateInv ==
  ASSUME TxInv, NEW c \in Conns, BeginImmediate(c)
  PROVE  TxInv'
<1>1. /\ phase[c] = "outside" /\ ~ Others(c, {"reserved", "pending"})
      /\ phase' = [phase EXCEPT ![c] = "body"] /\ lock' = [lock EXCEPT ![c] = "reserved"]
      /\ depth' = [depth EXCEPT ![c] = 1]
      /\ UNCHANGED <<db, view, writes, raised, returned>>
  BY DEF BeginImmediate, Goto, Hold
<1>2. view[c] = Unread
  BY <1>1 DEF TxInv, ViewHeld
<1>3. TypeOK'
  BY <1>1, SqliteAssumption DEF TxInv, TypeOK
<1>4. OneWriter'
  BY <1>1 DEF TxInv, TypeOK, OneWriter, Others
<1>5. ViewHeld'
  BY <1>1, <1>2 DEF TxInv, TypeOK, ViewHeld
<1>6. CommitLocked'
  BY <1>1 DEF TxInv, TypeOK, CommitLocked
<1>7. \A d \in Conns : Own(d)' = Own(d)
  BY <1>1 DEF Own, View
<1>8. Own(c) = {}
  BY <1>2 DEF Own, View
<1>9. OwnNotRaised'
  BY <1>1, <1>7, <1>8 DEF TxInv, TypeOK, OwnNotRaised
<1>10. WritesNumbered' /\ AllOrNothing'
  BY <1>1 DEF TxInv, WritesNumbered, AllOrNothing
<1>11. QED
  BY <1>3, <1>4, <1>5, <1>6, <1>9, <1>10 DEF TxInv

\* A transaction that is over without a commit; its writes count as raised, or
\* there are none.
LEMMA EndInv ==
  ASSUME TxInv, NEW c \in Conns, Outside(c), UNCHANGED <<db, writes, returned>>,
         raised' \in {raised, raised \cup Own(c)}
  PROVE  TxInv'
<1>1. /\ phase' = [phase EXCEPT ![c] = "outside"] /\ lock' = [lock EXCEPT ![c] = "none"]
      /\ depth' = [depth EXCEPT ![c] = 0] /\ view' = [view EXCEPT ![c] = Unread]
  BY DEF Outside, Goto, Hold
<1>2. Own(c) \subseteq 1 .. writes /\ Own(c) \cap ToSet(db) = {}
  BY ViewFacts DEF Own
<1>3. 1 .. writes \subseteq 1 .. MaxWrites
  BY SqliteAssumption DEF TxInv, TypeOK
<1>4. TypeOK'
  <2>1. raised' \cup returned' \subseteq 1 .. MaxWrites
    BY <1>2, <1>3 DEF TxInv, TypeOK
  <2>2. QED
    BY <1>1, <2>1, SqliteAssumption DEF TxInv, TypeOK
<1>5. OneWriter' /\ CommitLocked'
  BY <1>1 DEF TxInv, TypeOK, OneWriter, CommitLocked
<1>6. ViewHeld'
  BY <1>1 DEF TxInv, TypeOK, ViewHeld
<1>7. WritesNumbered'
  BY <1>1, <1>2 DEF TxInv, TypeOK, WritesNumbered
<1>8. AllOrNothing'
  BY <1>2 DEF TxInv, AllOrNothing
<1>9. OwnNotRaised'
  <2> SUFFICES ASSUME NEW d \in Conns, phase'[d] \in {"body", "committing"}
               PROVE  Own(d)' \cap raised' = {}
    BY DEF OwnNotRaised
  <2>1. d # c /\ phase'[d] = phase[d] /\ view'[d] = view[d]
    BY <1>1 DEF TxInv, TypeOK
  <2>2. Own(d)' = Own(d)
    BY <2>1 DEF Own, View
  <2>3. Own(d) \cap raised = {}
    BY <2>1 DEF TxInv, OwnNotRaised
  <2>4. Own(d) = {} \/ Own(c) = {}
    <3>1. \/ lock[c] \notin {"reserved", "pending"}
          \/ lock[d] \notin {"reserved", "pending"}
      BY <2>1 DEF TxInv, OneWriter
    <3>2. QED
      BY <3>1, ViewFacts
  <2>5. QED
    BY <2>2, <2>3, <2>4
<1>10. QED
  BY <1>4, <1>5, <1>6, <1>7, <1>8, <1>9 DEF TxInv

\* The outermost block of a transaction that wrote something ends.
LEMMA LeaveWriterInv ==
  ASSUME TxInv, NEW c \in Conns, phase[c] = "body", Own(c) # {},
         Goto(c, "committing"), Hold(c, "pending"),
         UNCHANGED <<db, depth, view, writes, raised, returned>>
  PROVE  TxInv'
<1>1. phase' = [phase EXCEPT ![c] = "committing"] /\ lock' = [lock EXCEPT ![c] = "pending"]
  BY DEF Goto, Hold
<1>2. lock[c] \in {"reserved", "pending"}
  BY ViewFacts
<1>3. TypeOK' /\ OneWriter' /\ CommitLocked'
  BY <1>1, <1>2 DEF TxInv, TypeOK, OneWriter, CommitLocked
<1>4. ViewHeld'
  BY <1>1 DEF TxInv, TypeOK, ViewHeld
<1>5. \A d \in Conns : Own(d)' = Own(d)
  BY DEF Own, View
<1>6. OwnNotRaised'
  BY <1>1, <1>5 DEF TxInv, TypeOK, OwnNotRaised
<1>7. WritesNumbered' /\ AllOrNothing'
  BY DEF TxInv, WritesNumbered, AllOrNothing
<1>8. QED
  BY <1>3, <1>4, <1>6, <1>7 DEF TxInv

LEMMA LeaveInv ==
  ASSUME TxInv, NEW c \in Conns, Leave(c)
  PROVE  TxInv'
<1>1. CASE Own(c) # {}
  BY <1>1, LeaveWriterInv DEF Leave
<1>2. CASE Own(c) = {}
  BY <1>2, EndInv DEF Leave
<1>3. QED
  BY <1>1, <1>2

\* Nobody else has read what a commit changes.
LEMMA CommitInv ==
  ASSUME TxInv, NEW c \in Conns, Commit(c)
  PROVE  TxInv' /\ IsPrefix(db, db')
<1>1. /\ phase[c] = "committing" /\ ~ Others(c, {"shared"}) /\ db' = View(c)
      /\ returned' = returned \cup Own(c)
      /\ phase' = [phase EXCEPT ![c] = "outside"] /\ lock' = [lock EXCEPT ![c] = "none"]
      /\ depth' = [depth EXCEPT ![c] = 0] /\ view' = [view EXCEPT ![c] = Unread]
      /\ UNCHANGED <<writes, raised>>
  BY DEF Commit, Outside, Goto, Hold
<1>2. /\ View(c) \in Log /\ IsPrefix(db, View(c)) /\ ToSet(View(c)) = ToSet(db) \cup Own(c)
      /\ ToSet(View(c)) \subseteq 1 .. writes
  BY ViewFacts
<1>3. \A d \in Conns \ {c} : lock[d] = "none" /\ view[d] = Unread
  <2>1. lock[c] = "pending"
    BY <1>1 DEF TxInv, CommitLocked
  <2>2. QED
    BY <1>1, <2>1 DEF TxInv, TypeOK, OneWriter, ViewHeld, Others
<1>4. \A d \in Conns : view'[d] = Unread
  BY <1>1, <1>3 DEF TxInv, TypeOK
<1>5. TypeOK'
  <2>1. Own(c) \subseteq 1 .. MaxWrites
    BY <1>2, SqliteAssumption DEF TxInv, TypeOK
  <2>2. QED
    BY <1>1, <1>2, <2>1, SqliteAssumption DEF TxInv, TypeOK, Log
<1>6. OneWriter' /\ CommitLocked'
  BY <1>1 DEF TxInv, TypeOK, OneWriter, CommitLocked
<1>7. ViewHeld'
  BY <1>4 DEF ViewHeld
<1>8. WritesNumbered'
  BY <1>1, <1>2, <1>4 DEF TxInv, WritesNumbered
<1>9. OwnNotRaised'
  <2>1. \A d \in Conns : Own(d)' = {}
    BY <1>4 DEF Own, View
  <2>2. QED
    BY <2>1 DEF OwnNotRaised
<1>10. AllOrNothing'
  <2>1. Own(c) \cap raised = {}
    BY <1>1 DEF TxInv, OwnNotRaised
  <2>2. QED
    BY <1>1, <1>2, <2>1 DEF TxInv, AllOrNothing
<1>11. QED
  BY <1>1, <1>2, <1>5, <1>6, <1>7, <1>8, <1>9, <1>10 DEF TxInv

LEMMA RaiseInv ==
  ASSUME TxInv, NEW c \in Conns, Raise(c)
  PROVE  TxInv'
<1>1. /\ phase' = [phase EXCEPT ![c] = "raising"] /\ raised' = raised \cup Own(c)
      /\ phase[c] # "outside"
      /\ UNCHANGED <<db, lock, depth, view, writes, returned>>
  BY DEF Raise, Goto
<1>2. Own(c) \subseteq 1 .. writes /\ Own(c) \cap ToSet(db) = {}
  BY ViewFacts DEF Own
<1>3. TypeOK'
  <2>1. raised' \cup returned' \subseteq 1 .. MaxWrites
    BY <1>1, <1>2, SqliteAssumption DEF TxInv, TypeOK
  <2>2. QED
    BY <1>1, <2>1 DEF TxInv, TypeOK
<1>4. OneWriter' /\ CommitLocked' /\ ViewHeld'
  BY <1>1 DEF TxInv, TypeOK, OneWriter, CommitLocked, ViewHeld
<1>5. WritesNumbered' /\ AllOrNothing'
  BY <1>1, <1>2 DEF TxInv, WritesNumbered, AllOrNothing
<1>6. OwnNotRaised'
  <2> SUFFICES ASSUME NEW d \in Conns, phase'[d] \in {"body", "committing"}
               PROVE  Own(d)' \cap raised' = {}
    BY DEF OwnNotRaised
  <2>1. d # c /\ phase'[d] = phase[d]
    BY <1>1 DEF TxInv, TypeOK
  <2>2. Own(d)' = Own(d)
    BY <1>1 DEF Own, View
  <2>3. Own(d) \cap raised = {}
    BY <2>1 DEF TxInv, OwnNotRaised
  <2>4. \/ lock[c] \notin {"reserved", "pending"}
        \/ lock[d] \notin {"reserved", "pending"}
    BY <2>1 DEF TxInv, OneWriter
  <2>5. Own(d) = {} \/ Own(c) = {}
    BY <2>4, ViewFacts
  <2>6. QED
    BY <1>1, <2>2, <2>3, <2>5
<1>7. QED
  BY <1>3, <1>4, <1>5, <1>6 DEF TxInv

LEMMA ReadInv ==
  ASSUME TxInv, NEW c \in Conns, Read(c)
  PROVE  TxInv'
<1> DEFINE l == IF lock[c] = "none" THEN "shared" ELSE lock[c]
<1>1. /\ phase[c] = "body" /\ view[c] = Unread
      /\ view' = [view EXCEPT ![c] = db] /\ lock' = [lock EXCEPT ![c] = l]
      /\ UNCHANGED <<db, phase, depth, writes, raised, returned>>
  BY DEF Read, Hold
<1>2. /\ l \in {"shared", "reserved", "pending"}
      /\ l \in {"reserved", "pending"} => lock[c] = l
      /\ lock[c] = "pending" => l = "pending"
  BY DEF TxInv, TypeOK
<1> HIDE DEF l
<1>3. TypeOK'
  BY <1>1, <1>2 DEF TxInv, TypeOK
<1>4. OneWriter' /\ CommitLocked'
  BY <1>1, <1>2 DEF TxInv, TypeOK, OneWriter, CommitLocked
<1>5. ViewHeld'
  <2>1. IsPrefix(db, db)
    BY PrefixOrder DEF TxInv, TypeOK
  <2>2. QED
    BY <1>1, <1>2, <2>1 DEF TxInv, TypeOK, ViewHeld
<1>6. WritesNumbered'
  BY <1>1 DEF TxInv, TypeOK, WritesNumbered
<1>7. OwnNotRaised'
  <2>1. \A d \in Conns : Own(d)' = Own(d)
    BY <1>1 DEF TxInv, TypeOK, Own, View
  <2>2. QED
    BY <1>1, <2>1 DEF TxInv, OwnNotRaised
<1>8. AllOrNothing'
  BY <1>1 DEF TxInv, AllOrNothing
<1>9. QED
  BY <1>3, <1>4, <1>5, <1>6, <1>7, <1>8 DEF TxInv

\* A reader becomes the writer only while nobody else is one: what it read is
\* the database still.
LEMMA WriteInv ==
  ASSUME TxInv, NEW c \in Conns, Write(c)
  PROVE  TxInv'
<1> DEFINE V == Append(View(c), writes + 1)
<1>1. /\ phase[c] = "body" /\ writes < MaxWrites /\ ~ Others(c, {"reserved", "pending"})
      /\ view' = [view EXCEPT ![c] = V] /\ lock' = [lock EXCEPT ![c] = "reserved"]
      /\ writes' = writes + 1
      /\ UNCHANGED <<db, phase, depth, raised, returned>>
  BY DEF Write, Hold
<1>2. /\ View(c) \in Log /\ IsPrefix(db, View(c)) /\ db \in Log
      /\ ToSet(View(c)) \subseteq 1 .. writes /\ ToSet(View(c)) = ToSet(db) \cup Own(c)
  BY ViewFacts
<1>3. writes \in Nat /\ writes + 1 \in 1 .. MaxWrites /\ 1 .. writes \subseteq 1 .. writes'
      /\ writes + 1 \notin 1 .. writes
  BY <1>1, SqliteAssumption DEF TxInv, TypeOK
<1>4. V \in Log /\ IsPrefix(View(c), V) /\ ToSet(V) = ToSet(View(c)) \cup {writes + 1}
  <2>1. V \in Log
    BY <1>2, <1>3 DEF Log
  <2>2. IsPrefix(View(c), V)
    BY <1>2, <1>3, PrefixOrder DEF Log
  <2>3. ToSet(V) = ToSet(View(c)) \cup {writes + 1}
    BY <1>2, <1>3, ElementFacts DEF Log
  <2>4. QED
    BY <2>1, <2>2, <2>3
<1>5. IsPrefix(db, V)
  BY <1>2, <1>4, PrefixOrder DEF Log
<1>6. V # Unread
  <2>1. V \in Seq(Nat)
    BY <1>4, SeqMonotonic, SqliteAssumption DEF Log
  <2>2. QED
    BY <2>1, SqliteAssumption
<1> HIDE DEF V
<1>7. TypeOK'
  BY <1>1, <1>3, <1>4 DEF TxInv, TypeOK, Log
<1>8. OneWriter'
  BY <1>1 DEF TxInv, TypeOK, OneWriter, Others
<1>9. CommitLocked'
  BY <1>1 DEF TxInv, TypeOK, CommitLocked
<1>10. ViewHeld'
  BY <1>1, <1>5 DEF TxInv, TypeOK, ViewHeld
<1>11. WritesNumbered'
  <2>1. ToSet(V) \subseteq 1 .. writes'
    BY <1>1, <1>2, <1>3, <1>4
  <2>2. QED
    BY <1>1, <1>3, <2>1 DEF TxInv, TypeOK, WritesNumbered
<1>12. OwnNotRaised'
  <2> SUFFICES ASSUME NEW d \in Conns, phase[d] \in {"body", "committing"}
               PROVE  Own(d)' \cap raised = {}
    BY <1>1 DEF OwnNotRaised
  <2>1. CASE d = c
    <3>1. Own(d)' = ToSet(V) \ ToSet(db)
      BY <1>1, <1>6, <2>1 DEF TxInv, TypeOK, Own, View
    <3>2. writes + 1 \notin raised
      BY <1>3 DEF TxInv, WritesNumbered
    <3>3. Own(c) \cap raised = {}
      BY <1>1 DEF TxInv, OwnNotRaised
    <3>4. QED
      BY <1>2, <1>4, <3>1, <3>2, <3>3
  <2>2. CASE d # c
    <3>1. Own(d)' = Own(d)
      BY <1>1, <2>2 DEF TxInv, TypeOK, Own, View
    <3>2. QED
      BY <3>1 DEF TxInv, OwnNotRaised
  <2>3. QED
    BY <2>1, <2>2
<1>13. AllOrNothing'
  BY <1>1 DEF TxInv, AllOrNothing
<1>14. QED
  BY <1>7, <1>8, <1>9, <1>10, <1>11, <1>12, <1>13 DEF TxInv

\* What the steps of a transaction keep; only a commit changes the database.
LEMMA TransactInv ==
  ASSUME TxInv, NEW c \in Conns, Transact(c)
  PROVE  TxInv' /\ IsPrefix(db, db') /\ (db' = db \/ Commit(c))
<1>1. IsPrefix(db, db)
  BY PrefixOrder DEF TxInv, TypeOK
<1>2. CASE BeginDeferred(c) \/ EnterNested(c) \/ LeaveNested(c)
  BY <1>1, <1>2, BlockInv DEF BeginDeferred, EnterNested, LeaveNested
<1>3. CASE BeginImmediate(c)
  BY <1>1, <1>3, BeginImmediateInv DEF BeginImmediate
<1>4. CASE Raise(c) \/ Busy(c)
  BY <1>1, <1>4, RaiseInv DEF Raise, Busy
<1>5. CASE Die(c)
  BY <1>1, <1>5, EndInv DEF Die
<1>6. CASE Unwind(c)
  <2>1. CASE depth[c] > 1
    BY <1>1, <1>6, <2>1, BlockInv DEF Unwind
  <2>2. CASE ~ (depth[c] > 1)
    BY <1>1, <1>6, <2>2, EndInv DEF Unwind
  <2>3. QED
    BY <2>1, <2>2
<1>7. CASE Leave(c)
  BY <1>1, <1>7, LeaveInv DEF Leave
<1>8. CASE Read(c) \/ Write(c)
  BY <1>1, <1>8, ReadInv, WriteInv DEF Read, Write
<1>9. CASE Commit(c)
  BY <1>9, CommitInv
<1>10. QED
  BY <1>2, <1>3, <1>4, <1>5, <1>6, <1>7, <1>8, <1>9 DEF Transact, Proceed
-----------------------------------------------------------------------------
(* Snapshots.                                                              *)

\* A copy holds the database still from its first part to its last.
CopyHeld ==
  \A c \in Conns : Copying(c) =>
    /\ phase[c] = "outside"
    /\ Len(job[c].parts) <= 2
    /\ Len(job[c].parts) = 1 => lock[c] = "shared" /\ job[c].parts[1] = db
    /\ Len(job[c].parts) = 2 => /\ job[c].parts[1] = job[c].parts[2]
                                /\ IsPrefix(job[c].parts[1], db)

\* What is published is whole.
FilesWhole == \A n \in SnapshotNames : files[n] # NoFile => Len(files[n]) = 2

\* The inductive invariant.
SnapshotsInv ==
  /\ TxInv
  /\ job \in [Conns -> Job \cup {NoJob}]
  /\ files \in [SnapshotNames -> Seq(Seq(Nat)) \cup {NoFile}]
  /\ CopyHeld
  /\ FilesWhole
  /\ SnapshotsConsistent

LEMMA LogIsSeq == \A s \in Seq(1 .. MaxWrites) : s \in Seq(Nat)
BY SeqMonotonic, SqliteAssumption

\* What is a prefix of the database stays one as the database grows.
LEMMA StaysPrefix ==
  ASSUME TxInv, TxInv', IsPrefix(db, db'), NEW s \in Seq(Nat), IsPrefix(s, db)
  PROVE  IsPrefix(s, db')
<1>1. db \in Seq(Nat)
  BY LogIsSeq DEF TxInv, TypeOK
<1>2. db' \in Seq(Nat)
  BY LogIsSeq DEF TxInv, TypeOK
<1>3. QED
  BY <1>1, <1>2, PrefixOrder

LEMMA JobType ==
  ASSUME SnapshotsInv, NEW c \in Conns, Copying(c)
  PROVE  /\ job[c] \in Job
         /\ job[c].parts \in Seq(Seq(Nat))
         /\ Len(job[c].parts) \in Nat
         /\ \A i \in 1 .. Len(job[c].parts) : job[c].parts[i] \in Seq(Nat)
<1>1. job[c] \in Job
  BY DEF SnapshotsInv, Copying
<1>2. job[c].parts \in Seq(Seq(Nat))
  BY <1>1 DEF Job
<1>3. QED
  BY <1>1, <1>2

\* A transaction leaves the locks of the others alone, and is made by a
\* connection that copies nothing.
LEMMA OthersStay ==
  ASSUME SnapshotsInv, NEW c \in Conns, Transact(c)
  PROVE  /\ ~ Copying(c)
         /\ \A d \in Conns \ {c} : lock'[d] = lock[d] /\ phase'[d] = phase[d]
         /\ UNCHANGED <<job, files>>
<1>1. lock \in [Conns -> {"none", "shared", "reserved", "pending"}]
      /\ phase \in [Conns -> {"outside", "body", "committing", "raising"}]
  BY DEF SnapshotsInv, TxInv, TypeOK
<1>2. UNCHANGED <<job, files>>
  BY DEF Transact, fileVars
<1>3. CASE ~ Copying(c) /\ (BeginDeferred(c) \/ BeginImmediate(c))
  BY <1>1, <1>2, <1>3 DEF BeginDeferred, BeginImmediate, Goto, Hold
<1>4. CASE EnterNested(c) \/ Raise(c) \/ Die(c)
  BY <1>1, <1>2, <1>4
     DEF EnterNested, Raise, Die, Outside, Goto, Hold, SnapshotsInv, CopyHeld
<1>5. CASE Read(c) \/ Write(c) \/ LeaveNested(c) \/ Busy(c)
  BY <1>1, <1>2, <1>5
     DEF Read, Write, LeaveNested, Busy, Raise, Goto, Hold, SnapshotsInv, CopyHeld
<1>6. CASE Leave(c) \/ Commit(c) \/ Unwind(c)
  BY <1>1, <1>2, <1>6 DEF Leave, Commit, Unwind, Outside, Goto, Hold, SnapshotsInv, CopyHeld
<1>7. QED
  BY <1>3, <1>4, <1>5, <1>6 DEF Transact, Proceed

LEMMA TransactKeeps ==
  ASSUME SnapshotsInv, NEW c \in Conns, Transact(c)
  PROVE  SnapshotsInv'
<1>1. TxInv /\ TxInv' /\ IsPrefix(db, db') /\ (db' = db \/ Commit(c))
  BY TransactInv DEF SnapshotsInv
<1>2. /\ ~ Copying(c)
      /\ \A d \in Conns \ {c} : lock'[d] = lock[d] /\ phase'[d] = phase[d]
      /\ job' = job /\ files' = files
  BY OthersStay
<1>3. CopyHeld'
  <2> SUFFICES ASSUME NEW d \in Conns, Copying(d)
               PROVE  /\ phase'[d] = "outside"
                      /\ Len(job[d].parts) <= 2
                      /\ Len(job[d].parts) = 1 => lock'[d] = "shared" /\ job[d].parts[1] = db'
                      /\ Len(job[d].parts) = 2 => /\ job[d].parts[1] = job[d].parts[2]
                                                  /\ IsPrefix(job[d].parts[1], db')
    BY <1>2 DEF CopyHeld, Copying
  <2>1. d # c /\ lock'[d] = lock[d] /\ phase'[d] = phase[d]
    BY <1>2
  <2>2. lock[d] = "shared" => db' = db
    BY <1>1, <2>1 DEF Commit, Others
  <2>3. Len(job[d].parts) = 2 => job[d].parts[1] \in Seq(Nat)
    BY JobType
  <2>4. Len(job[d].parts) = 2 => IsPrefix(job[d].parts[1], db')
    BY <1>1, <2>3, StaysPrefix DEF SnapshotsInv, CopyHeld
  <2>5. QED
    BY <2>1, <2>2, <2>4 DEF SnapshotsInv, CopyHeld
<1>4. FilesWhole' /\ SnapshotsConsistent'
  <2> SUFFICES ASSUME NEW n \in SnapshotNames, files[n] # NoFile
               PROVE  /\ Len(files[n]) = 2
                      /\ files[n][1] = files[n][2] /\ IsPrefix(files[n][1], db')
    BY <1>2 DEF FilesWhole, SnapshotsConsistent
  <2>1. /\ files[n][1] = files[n][2] /\ IsPrefix(files[n][1], db)
        /\ files[n] \in Seq(Seq(Nat)) /\ Len(files[n]) = 2
    BY DEF SnapshotsInv, SnapshotsConsistent, FilesWhole
  <2>2. files[n][1] \in Seq(Nat)
    BY <2>1
  <2>3. IsPrefix(files[n][1], db')
    BY <1>1, <2>1, <2>2, StaysPrefix
  <2>4. QED
    BY <2>1, <2>3
<1>5. QED
  BY <1>1, <1>2, <1>3, <1>4 DEF SnapshotsInv

\* A step of a snapshot changes no lock but its own, and that one only between
\* none and SHARED: no transaction notices.
LEMMA CopyKeepsTx ==
  ASSUME TxInv, NEW c \in Conns, phase[c] = "outside",
         NEW l \in {"none", "shared"}, lock' = [lock EXCEPT ![c] = l],
         UNCHANGED <<db, phase, depth, view, writes, raised, returned>>
  PROVE  TxInv'
<1>1. view[c] = Unread
  BY DEF TxInv, ViewHeld
<1>2. TypeOK' /\ OneWriter' /\ CommitLocked'
  BY DEF TxInv, TypeOK, OneWriter, CommitLocked
<1>3. ViewHeld'
  BY <1>1 DEF TxInv, TypeOK, ViewHeld
<1>4. \A d \in Conns : Own(d)' = Own(d)
  BY DEF Own, View
<1>5. OwnNotRaised'
  BY <1>4 DEF TxInv, OwnNotRaised
<1>6. WritesNumbered' /\ AllOrNothing'
  BY DEF TxInv, WritesNumbered, AllOrNothing
<1>7. QED
  BY <1>2, <1>3, <1>5, <1>6 DEF TxInv

\* Nothing changes but the jobs and the files.
LEMMA SameTx ==
  ASSUME TxInv, UNCHANGED vars
  PROVE  TxInv' /\ lock' = lock /\ phase' = phase /\ db' = db
<1>1. \A c \in Conns : Own(c)' = Own(c)
  BY DEF vars, Own, View
<1>2. OwnNotRaised'
  BY <1>1 DEF TxInv, vars, OwnNotRaised
<1>3. QED
  BY <1>2 DEF TxInv, vars, TypeOK, OneWriter, ViewHeld, CommitLocked, WritesNumbered,
              AllOrNothing

LEMMA BeginSnapshotInv ==
  ASSUME SnapshotsInv, NEW c \in Conns, NEW n \in SnapshotNames, BeginSnapshot(c, n)
  PROVE  SnapshotsInv'
<1> DEFINE j == [name |-> n, parts |-> <<>>]
<1>1. TxInv' /\ lock' = lock /\ phase' = phase /\ db' = db
  BY SameTx DEF SnapshotsInv, BeginSnapshot
<1>2. phase[c] = "outside" /\ job' = [job EXCEPT ![c] = j] /\ files' = files
  BY DEF BeginSnapshot
<1>3. j \in Job /\ Len(j.parts) = 0
  BY DEF Job
<1> HIDE DEF j
<1>4. CopyHeld'
  BY <1>1, <1>2, <1>3 DEF SnapshotsInv, CopyHeld, Copying
<1>5. FilesWhole' /\ SnapshotsConsistent'
  BY <1>1, <1>2 DEF SnapshotsInv, FilesWhole, SnapshotsConsistent
<1>6. QED
  BY <1>1, <1>2, <1>3, <1>4, <1>5 DEF SnapshotsInv

LEMMA AppendFacts ==
  ASSUME NEW S, NEW s \in Seq(S), NEW x \in S, Len(s) < 2
  PROVE  /\ Append(s, x) \in Seq(S)
         /\ Len(Append(s, x)) = Len(s) + 1
         /\ Append(s, x)[Len(s) + 1] = x
         /\ Len(s) = 1 => Append(s, x)[1] = s[1]
OBVIOUS

\* Both parts are read under one SHARED, so nobody commits between them.
LEMMA CopyPartInv ==
  ASSUME SnapshotsInv, NEW c \in Conns, CopyPart(c)
  PROVE  SnapshotsInv'
<1> DEFINE ps == job[c].parts
           qs == Append(ps, db)
           l  == IF ps = <<>> THEN "shared" ELSE "none"
<1>1. /\ Copying(c) /\ Len(ps) < 2
      /\ lock' = [lock EXCEPT ![c] = l]
      /\ UNCHANGED <<db, phase, depth, view, writes, raised, returned, files>>
  BY DEF CopyPart, Hold
<1>2. job' = [job EXCEPT ![c].parts = qs]
  BY DEF CopyPart
<1>3. job[c] \in Job /\ ps \in Seq(Seq(Nat)) /\ db \in Seq(Nat)
  BY <1>1, JobType, LogIsSeq DEF SnapshotsInv, TxInv, TypeOK
<1>4. phase[c] = "outside" /\ TxInv'
  <2>1. phase[c] = "outside"
    BY <1>1 DEF SnapshotsInv, CopyHeld
  <2>2. QED
    BY <1>1, <2>1, CopyKeepsTx DEF SnapshotsInv
<1>5. /\ qs \in Seq(Seq(Nat)) /\ Len(ps) \in Nat /\ Len(qs) = Len(ps) + 1
      /\ qs[Len(ps) + 1] = db /\ (Len(ps) = 1 => qs[1] = ps[1])
      /\ ps = <<>> <=> Len(ps) = 0
  BY <1>1, <1>3, AppendFacts
<1> HIDE DEF qs
<1>6. /\ job'[c] \in Job /\ job'[c].parts = qs
      /\ \A d \in Conns \ {c} : job'[d] = job[d]
      /\ job' \in [Conns -> Job \cup {NoJob}]
  <2>1. job' = [job EXCEPT ![c] = [job[c] EXCEPT !.parts = qs]]
    BY <1>2
  <2>2. [job[c] EXCEPT !.parts = qs] \in Job /\ [job[c] EXCEPT !.parts = qs].parts = qs
    BY <1>3, <1>5 DEF Job
  <2>3. job \in [Conns -> Job \cup {NoJob}]
    BY DEF SnapshotsInv
  <2>4. QED
    BY <2>1, <2>2, <2>3
<1>7. /\ Len(qs) <= 2
      /\ Len(qs) = 1 => l = "shared" /\ qs[1] = db
      /\ Len(qs) = 2 => qs[1] = qs[2] /\ IsPrefix(qs[1], db)
  <2>1. CASE Len(ps) = 0
    BY <1>5, <2>1
  <2>2. CASE Len(ps) = 1
    <3>1. ps[1] = db
      BY <1>1, <2>2 DEF SnapshotsInv, CopyHeld
    <3>2. Len(qs) = 2 /\ qs[1] = db /\ qs[2] = db
      BY <1>5, <2>2, <3>1
    <3>3. QED
      BY <1>3, <3>2, PrefixOrder
  <2>3. Len(ps) = 0 \/ Len(ps) = 1
    <3>1. \A k \in Nat : k < 2 => k = 0 \/ k = 1
      OBVIOUS
    <3>2. QED
      BY <1>1, <1>5, <3>1, Zenon
  <2>4. QED
    BY <2>1, <2>2, <2>3
<1> HIDE DEF ps, l
<1>8. CopyHeld'
  <2> SUFFICES ASSUME NEW d \in Conns, Copying(d)'
               PROVE  /\ phase'[d] = "outside"
                      /\ Len(job'[d].parts) <= 2
                      /\ Len(job'[d].parts) = 1 =>
                           lock'[d] = "shared" /\ job'[d].parts[1] = db'
                      /\ Len(job'[d].parts) = 2 =>
                           /\ job'[d].parts[1] = job'[d].parts[2]
                           /\ IsPrefix(job'[d].parts[1], db')
    BY DEF CopyHeld
  <2>1. CASE d = c
    BY <1>1, <1>4, <1>6, <1>7, <2>1 DEF SnapshotsInv, TxInv, TypeOK
  <2>2. CASE d # c
    BY <1>1, <1>6, <2>2 DEF SnapshotsInv, TxInv, TypeOK, CopyHeld, Copying
  <2>3. QED
    BY <2>1, <2>2
<1>9. FilesWhole' /\ SnapshotsConsistent'
  BY <1>1 DEF SnapshotsInv, FilesWhole, SnapshotsConsistent
<1>10. QED
  BY <1>1, <1>4, <1>6, <1>8, <1>9 DEF SnapshotsInv

LEMMA PublishInv ==
  ASSUME SnapshotsInv, NEW c \in Conns, Publish(c)
  PROVE  SnapshotsInv'
<1> DEFINE n == job[c].name
           ps == job[c].parts
<1>1. TxInv' /\ lock' = lock /\ phase' = phase /\ db' = db
  BY SameTx DEF SnapshotsInv, Publish
<1>2. /\ Copying(c) /\ Len(ps) = 2
      /\ files' = [files EXCEPT ![n] = ps] /\ job' = [job EXCEPT ![c] = NoJob]
  BY DEF Publish
<1>3. /\ n \in SnapshotNames /\ ps \in Seq(Seq(Nat))
      /\ ps[1] = ps[2] /\ IsPrefix(ps[1], db)
  BY <1>2, JobType DEF Job, SnapshotsInv, CopyHeld
<1> HIDE DEF n, ps
<1>4. CopyHeld'
  BY <1>1, <1>2 DEF SnapshotsInv, CopyHeld, Copying
<1>5. FilesWhole' /\ SnapshotsConsistent'
  BY <1>1, <1>2, <1>3 DEF SnapshotsInv, FilesWhole, SnapshotsConsistent
<1>6. QED
  BY <1>1, <1>2, <1>3, <1>4, <1>5 DEF SnapshotsInv

LEMMA EndSnapshotInv ==
  ASSUME SnapshotsInv, NEW c \in Conns, EndSnapshot(c)
  PROVE  SnapshotsInv'
<1>1. /\ Copying(c) /\ job' = [job EXCEPT ![c] = NoJob]
      /\ lock' = [lock EXCEPT ![c] = "none"]
      /\ UNCHANGED <<db, phase, depth, view, writes, raised, returned, files>>
  BY DEF EndSnapshot, Hold
<1>2. TxInv'
  <2>1. phase[c] = "outside"
    BY <1>1 DEF SnapshotsInv, CopyHeld
  <2>2. QED
    BY <1>1, <2>1, CopyKeepsTx DEF SnapshotsInv
<1>3. CopyHeld'
  BY <1>1 DEF SnapshotsInv, TxInv, TypeOK, CopyHeld, Copying
<1>4. FilesWhole' /\ SnapshotsConsistent'
  BY <1>1 DEF SnapshotsInv, FilesWhole, SnapshotsConsistent
<1>5. QED
  BY <1>1, <1>2, <1>3, <1>4 DEF SnapshotsInv
-----------------------------------------------------------------------------
(* The theorems.                                                           *)

LEMMA SnapshotsInitInv == SnapshotsInit => SnapshotsInv
<1> SUFFICES ASSUME SnapshotsInit PROVE SnapshotsInv
  OBVIOUS
<1>1. /\ db = <<>> /\ writes = 0 /\ raised = {} /\ returned = {}
      /\ lock = [c \in Conns |-> "none"] /\ phase = [c \in Conns |-> "outside"]
      /\ depth = [c \in Conns |-> 0] /\ view = [c \in Conns |-> Unread]
      /\ job = [c \in Conns |-> NoJob] /\ files = [n \in SnapshotNames |-> NoFile]
  BY DEF SnapshotsInit, Init
<1>2. ToSet(db) = {}
  BY <1>1 DEF ToSet
<1>3. TypeOK
  BY <1>1, SqliteAssumption DEF TypeOK
<1>4. OneWriter /\ ViewHeld /\ CommitLocked /\ WritesNumbered /\ OwnNotRaised /\ AllOrNothing
  BY <1>1, <1>2 DEF OneWriter, ViewHeld, CommitLocked, WritesNumbered, OwnNotRaised,
                    AllOrNothing
<1>5. CopyHeld /\ FilesWhole /\ SnapshotsConsistent
  BY <1>1 DEF CopyHeld, Copying, FilesWhole, SnapshotsConsistent
<1>6. QED
  BY <1>1, <1>3, <1>4, <1>5 DEF SnapshotsInv, TxInv

\* Every step keeps the invariant, and takes no committed write back.
LEMMA SnapshotsStep ==
  SnapshotsInv /\ [SnapshotsNext]_snapshotsVars => SnapshotsInv' /\ [IsPrefix(db, db')]_vars
<1> SUFFICES ASSUME SnapshotsInv, [SnapshotsNext]_snapshotsVars
             PROVE  SnapshotsInv' /\ [IsPrefix(db, db')]_vars
  OBVIOUS
<1>1. IsPrefix(db, db)
  BY PrefixOrder DEF SnapshotsInv, TxInv, TypeOK
<1>2. CASE \E c \in Conns : Transact(c)
  BY <1>2, TransactKeeps, TransactInv DEF SnapshotsInv
<1>3. CASE \E c \in Conns, n \in SnapshotNames : BeginSnapshot(c, n)
  BY <1>1, <1>3, BeginSnapshotInv DEF BeginSnapshot, vars
<1>4. CASE \E c \in Conns : CopyPart(c)
  BY <1>1, <1>4, CopyPartInv DEF CopyPart
<1>5. CASE \E c \in Conns : Publish(c)
  BY <1>1, <1>5, PublishInv DEF Publish, vars
<1>6. CASE \E c \in Conns : EndSnapshot(c)
  BY <1>1, <1>6, EndSnapshotInv DEF EndSnapshot
<1>7. CASE UNCHANGED snapshotsVars
  <2>1. UNCHANGED vars /\ job' = job /\ files' = files
    BY <1>7 DEF snapshotsVars, fileVars
  <2>2. TxInv' /\ lock' = lock /\ phase' = phase /\ db' = db
    BY <2>1, SameTx DEF SnapshotsInv
  <2>3. CopyHeld' /\ FilesWhole' /\ SnapshotsConsistent'
    BY <2>1, <2>2 DEF SnapshotsInv, CopyHeld, Copying, FilesWhole, SnapshotsConsistent
  <2>4. QED
    BY <2>1, <2>2, <2>3 DEF SnapshotsInv
<1>8. QED
  BY <1>2, <1>3, <1>4, <1>5, <1>6, <1>7 DEF SnapshotsNext

\* The invariant holds throughout, whatever the connections interleave: it says
\* why locks keep transactions (db.py:147-176) and snapshots (db.py:97) whole.
THEOREM SnapshotsCorrect == SnapshotsSpec => []SnapshotsInv
<1>1. SnapshotsInv /\ [SnapshotsNext]_snapshotsVars => SnapshotsInv'
  BY SnapshotsStep
<1>2. QED
  BY SnapshotsInitInv, <1>1, PTL DEF SnapshotsSpec

\* The types of the locks and of the transactions.
THEOREM TransactionTypes == SnapshotsSpec => []TypeOK
<1>1. SnapshotsInv => TypeOK
  BY DEF SnapshotsInv, TxInv
<1>2. QED
  BY SnapshotsCorrect, <1>1, PTL

\* No write of a block that raised or died is ever committed, and every write
\* of an outermost block that returned is (db.py:153-176).
THEOREM TransactionsAreWhole == SnapshotsSpec => []AllOrNothing
<1>1. SnapshotsInv => AllOrNothing
  BY DEF SnapshotsInv, TxInv
<1>2. QED
  BY SnapshotsCorrect, <1>1, PTL

\* A published snapshot is the database as one commit left it (db.py:97).
THEOREM SnapshotsAreWhole == SnapshotsSpec => []SnapshotsConsistent
<1>1. SnapshotsInv => SnapshotsConsistent
  BY DEF SnapshotsInv
<1>2. QED
  BY SnapshotsCorrect, <1>1, PTL

\* A commit only adds to what is committed, also when its transaction began
\* deferred and read before it wrote (db.py:151-168).
THEOREM NoUpdateIsLost == SnapshotsSpec => NoLostUpdate
<1>1. SnapshotsInv /\ [SnapshotsNext]_snapshotsVars => [IsPrefix(db, db')]_vars
  BY SnapshotsStep
<1>2. QED
  BY SnapshotsCorrect, <1>1, PTL DEF SnapshotsSpec, NoLostUpdate
=============================================================================
