------------------------------ MODULE Planning ------------------------------
(***************************************************************************)
(* The planning store (src/research_dashboard/planning.py): the roadmap    *)
(* items and TODOs of projects, which users and agents edit.  Every call   *)
(* is one transaction, so one step.                                        *)
(*                                                                         *)
(* Titles, notes, dates, priorities and actors are left out, and so is the *)
(* status of a roadmap item: nothing here depends on them.  given is a     *)
(* history: whether the caller chose the row's position when creating it   *)
(* and no call of the store has replaced it since.                         *)
(***************************************************************************)
EXTENDS Integers, FiniteSets, Functions

CONSTANTS
  ItemIds, TodoIds, Projects,
  NoItem,      \* a null parent_item_id or roadmap_item_id
  Unset,       \* UNSET, the default of an argument that may be None
  ItemInputs,  \* the roadmap items that callers create
  TodoInputs,  \* the TODOs that callers create
  Given,       \* the positions that callers choose themselves
  MaxPosition  \* bound on positions

Statuses == {"Open", "Done"}

ItemInput == [id : ItemIds, project : Projects, parent : ItemIds \cup {NoItem}]
TodoInput == [id : TodoIds, project : Projects, item : ItemIds \cup {NoItem},
              status : Statuses]

Item == [project : Projects, parent : ItemIds \cup {NoItem}, position : Nat, given : BOOLEAN]
Todo == [project : Projects, item : ItemIds \cup {NoItem}, status : Statuses,
         position : Nat, given : BOOLEAN]

ASSUME PlanningAssumption ==
  /\ NoItem \notin ItemIds /\ Unset \notin ItemIds \cup {NoItem}
  /\ ItemInputs \subseteq ItemInput /\ TodoInputs \subseteq TodoInput
  /\ Given \subseteq Nat
  /\ MaxPosition \in Nat

VARIABLES items,  \* rows of roadmap_items, a function on the stored ids
          todos   \* rows of todos, likewise

planningVars == <<items, todos>>

Init == items = [i \in {} |-> NoItem] /\ todos = [d \in {} |-> NoItem]
-----------------------------------------------------------------------------
Put(f, k, row) == [j \in DOMAIN f \cup {k} |-> IF j = k THEN row ELSE f[j]]

Children(i) == {j \in DOMAIN items : items[j].parent = i}
Siblings(p, parent) ==
  {i \in DOMAIN items : items[i].project = p /\ items[i].parent = parent}
TodosOf(p, status) ==
  {d \in DOMAIN todos : todos[d].project = p /\ todos[d].status = status}

\* Mutant of IsNextPosition: it counts the rows.
IsCount(n, f, S) == n \in 0 .. MaxPosition /\ n = Cardinality(S)

\* COALESCE(MAX(position), -1) + 1 over the rows S of table f.
IsNextPosition(n, f, S) ==
  /\ n \in 0 .. MaxPosition
  /\ \A k \in S : f[k].position < n
  /\ n = 0 \/ \E k \in S : f[k].position = n - 1

\* The position of a new row: the caller's own, or the next one.
NewPosition(n, given, f, S) ==
  IF given THEN n \in Given ELSE IsNextPosition(n, f, S)

\* Mutant of ParentAllowed: an item with children may go below another.
ParentTopLevel(p, i, parent, children) ==
  /\ parent # i /\ parent \in DOMAIN items
  /\ items[parent].project = p /\ items[parent].parent = NoItem

\* A parent is another item of the project, on the top level, and an item with
\* children has none.  (The code also walks up from the parent looking for the
\* item, and refuses what the last two conditions refuse as well.)
ParentAllowed(p, i, parent, children) ==
  /\ parent # i /\ parent \in DOMAIN items
  /\ items[parent].project = p
  /\ items[parent].parent = NoItem
  /\ children = {}

CreateItem(v, n, given) ==
  /\ v.id \notin DOMAIN items
  /\ v.parent # NoItem => ParentAllowed(v.project, v.id, v.parent, {})
  /\ NewPosition(n, given, items, Siblings(v.project, v.parent))
  /\ items' = Put(items, v.id, [project |-> v.project, parent |-> v.parent,
                                position |-> n, given |-> given])
  /\ UNCHANGED todos

\* UPDATE ... SET position.
Placed(row, n) == [row EXCEPT !.position = n, !.given = FALSE]

\* update_roadmap_item with a parent: the item goes to the end of its new
\* siblings, or stays where it is when the parent is the one it has.
MoveItem(i, parent, n) ==
  /\ i \in DOMAIN items
  /\ parent # NoItem => ParentAllowed(items[i].project, i, parent, Children(i))
  /\ IF parent = items[i].parent
     THEN n = items[i].position /\ UNCHANGED items
     ELSE /\ IsNextPosition(n, items, Siblings(items[i].project, parent))
          /\ items' = [items EXCEPT ![i] = [Placed(@, n) EXCEPT !.parent = parent]]
  /\ UNCHANGED todos

\* Mutant of Detached: the TODOs keep their item (no ON DELETE SET NULL).
StillAttached(i) == todos

\* ON DELETE SET NULL.
Detached(i) ==
  [d \in DOMAIN todos |-> IF todos[d].item = i THEN [todos[d] EXCEPT !.item = NoItem]
                          ELSE todos[d]]

DeleteItem(p, i) ==
  /\ i \in DOMAIN items /\ items[i].project = p
  /\ Children(i) = {}
  /\ items' = Restrict(items, DOMAIN items \ {i})
  /\ todos' = Detached(i)

\* The rows S of table f in a new order: each one's place in the list.
Places(S) == {o \in [S -> 0 .. Cardinality(S) - 1] : IsInjective(o)}
Reordered(f, order) ==
  [k \in DOMAIN f |-> IF k \in DOMAIN order THEN Placed(f[k], order[k]) ELSE f[k]]

\* The list has to name exactly the current siblings.
ReorderItems(p, parent, order) ==
  /\ order \in Places(Siblings(p, parent))
  /\ items' = Reordered(items, order)
  /\ UNCHANGED todos

AttachmentAllowed(p, item) ==
  item \in ItemIds => item \in DOMAIN items /\ items[item].project = p

CreateTodo(v, n, given) ==
  /\ v.id \notin DOMAIN todos
  /\ AttachmentAllowed(v.project, v.item)
  /\ NewPosition(n, given, todos, TodosOf(v.project, v.status))
  /\ todos' = Put(todos, v.id, [project |-> v.project, item |-> v.item,
                                status |-> v.status, position |-> n, given |-> given])
  /\ UNCHANGED items

\* What roadmap_item_id becomes: UNSET leaves it.
Attachment(d, item) == IF item = Unset THEN todos[d].item ELSE item

\* A TODO that changes its status goes to the end of the list it joins.
UpdateTodo(d, status, item, n) ==
  /\ d \in DOMAIN todos
  /\ AttachmentAllowed(todos[d].project, item)
  /\ IF status = todos[d].status
     THEN n = todos[d].position
     ELSE IsNextPosition(n, todos, TodosOf(todos[d].project, status))
  /\ todos' = [todos EXCEPT ![d].item = Attachment(d, item),
                            ![d].status = status, ![d].position = n,
                            ![d].given = @ /\ status = todos[d].status]
  /\ UNCHANGED items

DeleteTodo(p, d) ==
  /\ d \in DOMAIN todos /\ todos[d].project = p
  /\ todos' = Restrict(todos, DOMAIN todos \ {d})
  /\ UNCHANGED items

ReorderTodos(p, status, order) ==
  /\ order \in Places(TodosOf(p, status))
  /\ todos' = Reordered(todos, order)
  /\ UNCHANGED items

Roadmap ==
  \/ \E v \in ItemInputs, n \in 0 .. MaxPosition, given \in BOOLEAN : CreateItem(v, n, given)
  \/ \E i \in ItemIds, parent \in ItemIds \cup {NoItem}, n \in 0 .. MaxPosition :
       MoveItem(i, parent, n)
  \/ \E p \in Projects : \/ \E i \in ItemIds : DeleteItem(p, i)
                         \/ \E parent \in ItemIds \cup {NoItem} :
                              \E order \in Places(Siblings(p, parent)) :
                                ReorderItems(p, parent, order)

TodoList ==
  \/ \E v \in TodoInputs, n \in 0 .. MaxPosition, given \in BOOLEAN : CreateTodo(v, n, given)
  \/ \E d \in TodoIds, status \in Statuses, item \in ItemIds \cup {NoItem, Unset},
        n \in 0 .. MaxPosition : UpdateTodo(d, status, item, n)
  \/ \E p \in Projects : \/ \E d \in TodoIds : DeleteTodo(p, d)
                         \/ \E status \in Statuses :
                              \E order \in Places(TodosOf(p, status)) :
                                ReorderTodos(p, status, order)

Next == Roadmap \/ TodoList

Spec == Init /\ [][Next]_planningVars
-----------------------------------------------------------------------------
(* Properties.                                                             *)

\* The types of the two tables.
TypeOK ==
  /\ DOMAIN items \subseteq ItemIds /\ \A i \in DOMAIN items : items[i] \in Item
  /\ DOMAIN todos \subseteq TodoIds /\ \A d \in DOMAIN todos : todos[d] \in Todo

\* However items are created, moved under one another and deleted, the roadmap
\* of a project is a forest of two levels: every parent is stored, belongs to
\* the project and has no parent itself, so no cycle of parents ever closes
\* (planning.py:167-191, 274-292, 332-337; the walk over ancestors at 183-188
\* ends because of it).
TwoLevels ==
  \A i \in DOMAIN items : items[i].parent # NoItem =>
    /\ items[i].parent \in DOMAIN items
    /\ items[items[i].parent].project = items[i].project
    /\ items[items[i].parent].parent = NoItem

\* A TODO is attached to nothing or to a stored item of its own project, also
\* after the item is deleted and its id used again (planning.py:420-428,
\* 486-499, schema.sql:237-238 ON DELETE SET NULL).
AttachmentsLocal ==
  \A d \in DOMAIN todos : todos[d].item # NoItem =>
    /\ todos[d].item \in DOMAIN items
    /\ items[todos[d].item].project = todos[d].project

\* Two rows of table f share a position only if a caller chose one of the two.
Ordered(f, S) ==
  \A j, k \in S : f[j].position = f[k].position => j = k \/ f[j].given \/ f[k].given

\* Siblings, and TODOs of one status, keep an order of their own through any
\* creations, moves, deletions, changes of status and reorderings: no position
\* is handed out twice, unless a caller chose one (planning.py:112-136,
\* 294-297, 343-370, 505-509, 556-582).
OrderKept ==
  \A p \in Projects :
    /\ \A parent \in ItemIds \cup {NoItem} : Ordered(items, Siblings(p, parent))
    /\ \A status \in Statuses : Ordered(todos, TodosOf(p, status))
=============================================================================
