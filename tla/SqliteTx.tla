------------------------------ MODULE SqliteTx ------------------------------
(***************************************************************************)
(* Transactions: db.transaction (src/research_dashboard/db.py) over SQLite *)
(* in rollback-journal mode.  The other modules take one transaction as    *)
(* one step; this one shows what that rests on.                            *)
(*                                                                         *)
(* SQLite is external.  A transaction that begins deferred takes SHARED at *)
(* its first read and RESERVED at its first write, one that begins         *)
(* immediate takes RESERVED at once; COMMIT takes PENDING, which keeps new *)
(* readers out, waits for the others' SHARED to go and then writes.  What  *)
(* cannot be locked is waited for and in the end fails with SQLITE_BUSY,   *)
(* at once when a reader tries to become a writer besides another writer.  *)
(*                                                                         *)
(* The database is the sequence of the writes committed to it; a           *)
(* transaction sees the database of its first access and its own writes.   *)
(***************************************************************************)
EXTENDS Integers, Sequences, SequencesExt

CONSTANTS
  Conns,     \* connections, each used by one thread at a time
  Unread,    \* the view of a transaction that has not accessed the database
  MaxWrites, \* bound on the writes
  MaxDepth   \* bound on nested transaction() blocks

ASSUME SqliteAssumption ==
  /\ Unread \notin Seq(Nat)
  /\ MaxWrites \in Nat /\ MaxDepth \in Nat \ {0}

VARIABLES
  db,        \* the committed writes
  lock,      \* "none", "shared", "reserved" or "pending"
  phase,     \* "outside", in the "body", "committing" or "raising"
  depth,     \* the transaction() blocks the connection is in
  view,
  writes,    \* the number of writes so far: the name of the last one
  raised,    \* history: the writes of blocks that ended with an exception
  returned   \* history: those of outermost blocks that returned

vars == <<db, lock, phase, depth, view, writes, raised, returned>>

Init ==
  /\ db = <<>>
  /\ lock = [c \in Conns |-> "none"]
  /\ phase = [c \in Conns |-> "outside"]
  /\ depth = [c \in Conns |-> 0]
  /\ view = [c \in Conns |-> Unread]
  /\ writes = 0
  /\ raised = {} /\ returned = {}

Others(c, locks) == \E d \in Conns \ {c} : lock[d] \in locks

View(c) == IF view[c] = Unread THEN db ELSE view[c]

\* The uncommitted writes of a connection.
Own(c) == ToSet(View(c)) \ ToSet(db)

Goto(c, p) == phase' = [phase EXCEPT ![c] = p]
Hold(c, l) == lock' = [lock EXCEPT ![c] = l]
\* Nothing of the transaction stays.
Outside(c) ==
  /\ Goto(c, "outside") /\ Hold(c, "none")
  /\ depth' = [depth EXCEPT ![c] = 0]
  /\ view' = [view EXCEPT ![c] = Unread]

-----------------------------------------------------------------------------
(* db.transaction.                                                         *)

BeginDeferred(c) ==
  /\ phase[c] = "outside"
  /\ Goto(c, "body")
  /\ depth' = [depth EXCEPT ![c] = 1]
  /\ UNCHANGED <<db, lock, view, writes, raised, returned>>

BeginImmediate(c) ==
  /\ phase[c] = "outside"
  /\ ~ Others(c, {"reserved", "pending"})
  /\ Goto(c, "body")
  /\ Hold(c, "reserved")
  /\ depth' = [depth EXCEPT ![c] = 1]
  /\ UNCHANGED <<db, view, writes, raised, returned>>

\* In a transaction already: a savepoint, whether immediate is asked or not.
EnterNested(c) ==
  /\ phase[c] = "body" /\ depth[c] < MaxDepth
  /\ depth' = [depth EXCEPT ![c] = @ + 1]
  /\ UNCHANGED <<db, lock, phase, view, writes, raised, returned>>

\* Mutant of LeaveNested: a nested block commits.
LeaveNestedCommitting(c) ==
  /\ phase[c] = "body" /\ depth[c] > 1
  /\ db' = View(c)
  /\ Hold(c, "none")
  /\ depth' = [depth EXCEPT ![c] = @ - 1]
  /\ UNCHANGED <<phase, view, writes, raised, returned>>

\* RELEASE: the enclosing block goes on with the nested one's writes.
LeaveNested(c) ==
  /\ phase[c] = "body" /\ depth[c] > 1
  /\ depth' = [depth EXCEPT ![c] = @ - 1]
  /\ UNCHANGED <<db, lock, phase, view, writes, raised, returned>>

\* The body ends and the outermost block commits: at once if it wrote nothing.
Leave(c) ==
  /\ phase[c] = "body" /\ depth[c] = 1
  /\ IF Own(c) # {}
     THEN Goto(c, "committing") /\ Hold(c, "pending") /\ UNCHANGED <<depth, view>>
     ELSE Outside(c)
  /\ UNCHANGED <<db, writes, raised, returned>>

Commit(c) ==
  /\ phase[c] = "committing"
  /\ ~ Others(c, {"shared"})
  /\ db' = View(c)
  /\ returned' = returned \cup Own(c)
  /\ Outside(c)
  /\ UNCHANGED <<writes, raised>>

\* An exception in the body, or the busy timeout of COMMIT.
Raise(c) ==
  /\ \/ phase[c] = "body"
     \/ phase[c] = "committing" /\ Others(c, {"shared"})
  /\ Goto(c, "raising")
  /\ raised' = raised \cup Own(c)
  /\ UNCHANGED <<db, lock, depth, view, writes, returned>>

\* Mutant of Unwind: the outermost block does not roll back.
UnwindWithoutRollback(c) ==
  /\ phase[c] = "raising"
  /\ IF depth[c] > 1
     THEN depth' = [depth EXCEPT ![c] = @ - 1] /\ UNCHANGED <<lock, phase, view>>
     ELSE /\ Goto(c, "outside")
          /\ depth' = [depth EXCEPT ![c] = 0]
          /\ UNCHANGED <<lock, view>>
  /\ UNCHANGED <<db, writes, raised, returned>>

\* Each nested block rolls back to its savepoint and raises on (no caller in
\* src catches it in between); the outermost one rolls back.
Unwind(c) ==
  /\ phase[c] = "raising"
  /\ IF depth[c] > 1
     THEN depth' = [depth EXCEPT ![c] = @ - 1] /\ UNCHANGED <<lock, phase, view>>
     ELSE Outside(c)
  /\ UNCHANGED <<db, writes, raised, returned>>
-----------------------------------------------------------------------------
(* SQLite.                                                                 *)

\* Mutant of Read: no transaction holds the rows that were read.
ReadAndLetGo(c) ==
  /\ phase[c] = "body" /\ view[c] = Unread
  /\ ~ Others(c, {"pending"})
  /\ view' = [view EXCEPT ![c] = db]
  /\ UNCHANGED <<db, lock, phase, depth, writes, raised, returned>>

Read(c) ==
  /\ phase[c] = "body" /\ view[c] = Unread
  /\ ~ Others(c, {"pending"})
  /\ view' = [view EXCEPT ![c] = db]
  /\ Hold(c, IF lock[c] = "none" THEN "shared" ELSE lock[c])
  /\ UNCHANGED <<db, phase, depth, writes, raised, returned>>

Write(c) ==
  /\ phase[c] = "body" /\ writes < MaxWrites
  /\ ~ Others(c, {"reserved", "pending"})
  /\ view' = [view EXCEPT ![c] = Append(View(c), writes + 1)]
  /\ writes' = writes + 1
  /\ Hold(c, "reserved")
  /\ UNCHANGED <<db, phase, depth, raised, returned>>

\* The statement that cannot have its lock raises.
Busy(c) ==
  /\ phase[c] = "body"
  /\ lock[c] \in {"none", "shared"} /\ Others(c, {"reserved", "pending"})
  /\ Raise(c)

\* The process dies; the next access rolls its journal back.
Die(c) ==
  /\ phase[c] # "outside"
  /\ raised' = raised \cup Own(c)
  /\ Outside(c)
  /\ UNCHANGED <<db, writes, returned>>

\* What a thread in a transaction does of itself.
Proceed(c) ==
  \/ Read(c) \/ Write(c) \/ LeaveNested(c) \/ Leave(c)
  \/ Commit(c) \/ Unwind(c) \/ Busy(c)

Next == \E c \in Conns :
  BeginDeferred(c) \/ BeginImmediate(c) \/ EnterNested(c) \/ Raise(c) \/ Die(c) \/ Proceed(c)

Spec == Init /\ [][Next]_vars
-----------------------------------------------------------------------------
(* Properties.                                                             *)

\* The types of the locks and of the transactions.
TypeOK ==
  /\ db \in Seq(1 .. MaxWrites)
  /\ lock \in [Conns -> {"none", "shared", "reserved", "pending"}]
  /\ phase \in [Conns -> {"outside", "body", "committing", "raising"}]
  /\ depth \in [Conns -> 0 .. MaxDepth]
  /\ view \in [Conns -> {Unread} \cup Seq(1 .. MaxWrites)]
  /\ writes \in 0 .. MaxWrites
  /\ raised \cup returned \subseteq 1 .. MaxWrites

\* No update is lost: a commit adds writes to exactly what is committed, so a
\* transaction that read first and wrote later, deferred ones included, decided
\* on what was still true (db.py:151-168; what events.py:378 relies on).
NoLostUpdate == [][IsPrefix(db, db')]_vars

\* All or nothing, over nested blocks too: no write of a block that raised or
\* died is ever committed, and every write of an outermost block that returned
\* is (db.py:153-176; cli.py:261 relies on it for batches).
AllOrNothing ==
  /\ raised \cap ToSet(db) = {}
  /\ returned = ToSet(db)

\* The write lock always comes free again: no order of readers that turn
\* writers, failed commits, exceptions and deaths leaves it held for ever, so a
\* transient busy error is worth a retry (db.py:156-168, writer.py:40-45).
WriteLockComesFree ==
  []<>(\A c \in Conns : lock[c] \notin {"reserved", "pending"})
=============================================================================
