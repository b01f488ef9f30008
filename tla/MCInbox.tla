------------------------------ MODULE MCInbox ------------------------------
(* An instance of Inbox for TLC.                                           *)
EXTENDS Inbox, TLC

CONSTANTS e1, e2, p1, p2, i1, i2, f, outer, inner, a, b

ImportId == i1 :> e1 @@ i2 :> e2
ImportTasks == Items \X Projects
OwnerOfImport == [t \in ImportTasks |-> t[2]]
Imports ==
  [t \in ImportTasks |->
     [id |-> ImportId[t[1]], task |-> t, type |-> "claim", previous_state |-> NoState,
      new_state |-> NoState, corrects |-> NoEvent, evidence |-> "unknown"]]

\* i2 mentions a file below two directories, the outer of them a root of p1.
\* i1, which is older, names p2, refers to i2 and says its own id, so it has
\* one owner only when i2 went to p2 because the inner directory is p2's.
Texts ==
  i1 :> [shared |-> FALSE, named |-> {p2}, paths |-> {}, refs |-> {i1, i2}] @@
  i2 :> [shared |-> FALSE, named |-> {}, paths |-> {f}, refs |-> {}]
ItemsInOrder == i1 :> 1 @@ i2 :> 2
Directories == f :> <<outer, inner>>
RootsAtFirst == {<<p1, outer>>}
NoInputs == {}
=============================================================================
