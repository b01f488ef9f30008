------------------------------- MODULE Reviews -------------------------------
(***************************************************************************)
(* The review mark and the named checkpoints                               *)
(* (src/research_dashboard/reviews.py), and the listings of changes since  *)
(* one of them (changes_since_last_review, changes_since_checkpoint and    *)
(* what calls them in state.py).  A listing is three SELECTs that no       *)
(* transaction holds together: the baseline, the events after it, and the  *)
(* open disputes, whose tasks lose their next actions.  The readers are    *)
(* those of TaskReader; each makes one call at a time and remembers the    *)
(* last.  The portfolio queries' limits on observed_at are left out.       *)
(***************************************************************************)
EXTENDS TaskReader

CONSTANTS Names,       \* of checkpoints
          Scopes,      \* the projects of a listing: all of them, or one
          Sequences,   \* that callers name
          NoSequence,  \* no checkpoint; a call that names no sequence number
          NoQuery      \* of a reader that is not making a listing

\* What a listing has read so far: "baseline", or "changes" too.
Query == [ read : {"baseline", "changes"}, base : Nat, scope : Scopes ]

ASSUME ReviewsAssumption ==
  /\ Scopes \subseteq {Projects} \cup {{p} : p \in Projects}
  /\ Sequences \subseteq Nat
  /\ NoSequence \notin Nat
  /\ NoQuery \notin Query

VARIABLES
  reviewed,     \* reviewed_through_sequence
  checkpoints,  \* through_sequence of each named checkpoint
  query,        \* the listing each reader is making
  full,         \* whether its last one is of all projects, since the last review
  list,         \* the sequence numbers in it
  redacted,     \* the tasks without next actions in it
  seen,         \* history: the sequence numbers in anybody's finished listing
  blind         \* history: the highest mark that no full listing backs

markVars    == <<reviewed, checkpoints, blind>>
listingVars == <<query, full, list, redacted, seen>>
reviewsVars == <<readerVars, markVars, listingVars>>

ReviewsInit ==
  /\ ReaderInit
  /\ reviewed = 0
  /\ checkpoints = [n \in Names |-> NoSequence]
  /\ query = [r \in Readers |-> NoQuery]
  /\ full = [r \in Readers |-> FALSE]
  /\ list = [r \in Readers |-> {}]
  /\ redacted = [r \in Readers |-> {}]
  /\ seen = {}
  /\ blind = 0

Idle(r) == asked[r] = NoTask /\ query[r] = NoQuery
-----------------------------------------------------------------------------
(* The calls of readers.                                                   *)

\* A call about a task, which makes the reader forget its last listing.
Ask(r, t) ==
  /\ query[r] = NoQuery
  /\ ReadEvents(r, t)
  /\ full' = [full EXCEPT ![r] = FALSE]
  /\ list' = [list EXCEPT ![r] = {}]
  /\ redacted' = [redacted EXCEPT ![r] = {}]
  /\ UNCHANGED <<query, seen, markVars>>

\* The baseline of a listing, which makes the reader forget its last answer.
Begin(r, base, scope, since_review) ==
  /\ Idle(r)
  /\ query' = [query EXCEPT ![r] = [read |-> "baseline", base |-> base, scope |-> scope]]
  /\ full' = [full EXCEPT ![r] = since_review /\ scope = Projects]
  /\ list' = [list EXCEPT ![r] = {}]
  /\ redacted' = [redacted EXCEPT ![r] = {}]
  /\ rows'    = [rows EXCEPT ![r] = NoState]
  /\ answer'  = [answer EXCEPT ![r] = NoState]
  /\ truth'   = [truth EXCEPT ![r] = {NoState}]
  /\ settled' = [settled EXCEPT ![r] = FALSE]
  /\ UNCHANGED <<events, conflicts, asked, seen, markVars>>

ReadReviewMark(r, scope) == Begin(r, reviewed, scope, TRUE)

\* An unknown name is a ValueError.
ReadCheckpoint(r, name, scope) ==
  checkpoints[name] # NoSequence /\ Begin(r, checkpoints[name], scope, FALSE)

\* _changes_after.
ReadChanges(r) ==
  /\ query[r] # NoQuery /\ query[r].read = "baseline"
  /\ list' = [list EXCEPT ![r] =
                {i \in DOMAIN events :
                   i > query[r].base /\ Owner[events[i].task] \in query[r].scope}]
  /\ query' = [query EXCEPT ![r].read = "changes"]
  /\ UNCHANGED <<readerVars, full, redacted, seen, markVars>>

\* Mutant of Disputed: the disputes that the review mark does not cover.
DisputedUnreviewed(t) == \E c \in Open(t) : c.created > reviewed

Disputed(t) == Open(t) # {}

\* _redact_conflicted_actions without as_of; the listing is then complete.
ReadDisputes(r) ==
  /\ query[r] # NoQuery /\ query[r].read = "changes"
  /\ redacted' = [redacted EXCEPT ![r] = {t \in Tasks : Disputed(t)}]
  /\ query' = [query EXCEPT ![r] = NoQuery]
  /\ seen' = seen \cup list[r]
  /\ UNCHANGED <<readerVars, full, list, markVars>>
-----------------------------------------------------------------------------
(* Marks.                                                                  *)

\* A reader goes by a listing of every project since the last review.
Backed(r, through) == full[r] /\ through \in list[r]

\* The sequence number that a mark or a checkpoint stands for.
Target(through) == IF through = NoSequence THEN Len(events) ELSE through

\* Mutant of MarkReviewed: whatever it names, everything is reviewed.
MarkAllReviewed(r, through) ==
  /\ Idle(r)
  /\ Target(through) <= Len(events)
  /\ reviewed' = Len(events)
  /\ blind' = IF Backed(r, through) \/ Target(through) < blind THEN blind
              ELSE Target(through)
  /\ UNCHANGED <<readerVars, checkpoints, listingVars>>

\* mark_reviewed: the mark never goes back.
MarkReviewed(r, through) ==
  /\ Idle(r)
  /\ Target(through) <= Len(events)
  /\ reviewed' = IF Target(through) < reviewed THEN reviewed ELSE Target(through)
  /\ blind' = IF Backed(r, through) \/ Target(through) < blind THEN blind
              ELSE Target(through)
  /\ UNCHANGED <<readerVars, checkpoints, listingVars>>

\* create_named_checkpoint: a name is used once.
CreateCheckpoint(name, through) ==
  /\ checkpoints[name] = NoSequence
  /\ Target(through) <= Len(events)
  /\ checkpoints' = [checkpoints EXCEPT ![name] = Target(through)]
  /\ UNCHANGED <<readerVars, reviewed, blind, listingVars>>

\* ValueError: a sequence number the ledger has not reached; IntegrityError: a
\* name in use.
RefuseMark(through) ==
  through > Len(events) /\ UNCHANGED reviewsVars
RefuseCheckpoint(name) == checkpoints[name] # NoSequence /\ UNCHANGED reviewsVars

ReviewsNext ==
  \/ /\ \/ \E v \in Inputs, explicit \in Explicit : Write(v, explicit)
        \/ \E r \in Readers : ReadConflict(r)
     /\ UNCHANGED <<markVars, listingVars>>
  \/ \E r \in Readers :
       \/ \E t \in Tasks : Ask(r, t)
       \/ \E scope \in Scopes :
            ReadReviewMark(r, scope) \/ \E name \in Names : ReadCheckpoint(r, name, scope)
       \/ ReadChanges(r)
       \/ ReadDisputes(r)
       \/ \E through \in Sequences \cup {NoSequence} : MarkReviewed(r, through)
  \/ \E name \in Names :
       \/ RefuseCheckpoint(name)
       \/ \E through \in Sequences \cup {NoSequence} : CreateCheckpoint(name, through)
  \/ \E through \in Sequences : RefuseMark(through)

ReviewsSpec == ReviewsInit /\ [][ReviewsNext]_reviewsVars
-----------------------------------------------------------------------------
(* Properties.                                                             *)

\* The types of the readers' state and of the marks, none of which is ahead of
\* the ledger.
ReviewsTypeOK ==
  /\ ReaderTypeOK
  /\ reviewed \in 0 .. Len(events) /\ blind \in 0 .. Len(events)
  /\ checkpoints \in [Names -> {NoSequence} \cup 0 .. Len(events)]
  /\ query \in [Readers -> Query \cup {NoQuery}]
  /\ full \in [Readers -> BOOLEAN]
  /\ list \in [Readers -> SUBSET DOMAIN events]
  /\ redacted \in [Readers -> SUBSET Tasks]
  /\ seen \subseteq DOMAIN events

\* No event is counted as reviewed that nobody was shown, but by a mark that no
\* listing of everything since the last review backs: neither events written
\* after such a listing nor marks that others move meanwhile slip one past the
\* readers (reviews.py:47-75, state.py:286-299).
ReviewedWasShown ==
  \A i \in DOMAIN events : blind < i /\ i <= reviewed => i \in seen

\* A listing that shows the event a dispute began with never shows a next
\* action of the disputed task, for as long as the dispute lasts: events are
\* read before disputes (state.py:207-218, 221-257).
DisputesRedacted ==
  \A r \in Readers : query[r] = NoQuery =>
    \A c \in conflicts :
      c.created \in list[r] /\ c.resolved_by = NoEvent => c.task \in redacted[r]
=============================================================================
