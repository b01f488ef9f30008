--------------------------- MODULE PlanningProofs ---------------------------
(***************************************************************************)
(* Theorems about Planning, for any projects, items, TODOs and positions.  *)
(* TypeOK, TwoLevels, AttachmentsLocal and OrderKept together are          *)
(* inductive: that an item with children never gets a parent needs the     *)
(* parents to be stored, that an attachment stays within its project needs *)
(* items never to change theirs.                                           *)
(***************************************************************************)
EXTENDS Planning, TLAPS

PlanningInv == TypeOK /\ TwoLevels /\ AttachmentsLocal /\ OrderKept

-----------------------------------------------------------------------------
(* The helpers on tables.                                                  *)

\* Restrict removes rows and leaves the others alone.
LEMMA DropRow ==
  ASSUME NEW f, NEW k
  PROVE  /\ DOMAIN Restrict(f, DOMAIN f \ {k}) = DOMAIN f \ {k}
         /\ \A j \in DOMAIN f \ {k} : Restrict(f, DOMAIN f \ {k})[j] = f[j]
BY DEF Restrict

\* The next position is larger than every position of the group, so a row
\* that takes it shares it with none.
LEMMA NextPositionNew ==
  ASSUME NEW f, NEW S, NEW n, IsNextPosition(n, f, S),
         NEW k \in S, f[k].position \in Nat
  PROVE  f[k].position # n
BY PlanningAssumption DEF IsNextPosition

\* A placed row changes nothing but its position and that it was chosen.
LEMMA PlacedItem ==
  ASSUME NEW row \in Item, NEW n \in Nat
  PROVE  /\ Placed(row, n) \in Item
         /\ Placed(row, n).project = row.project /\ Placed(row, n).parent = row.parent
         /\ Placed(row, n).position = n
BY DEF Item, Placed

LEMMA PlacedTodo ==
  ASSUME NEW row \in Todo, NEW n \in Nat
  PROVE  /\ Placed(row, n) \in Todo
         /\ Placed(row, n).project = row.project /\ Placed(row, n).item = row.item
         /\ Placed(row, n).status = row.status /\ Placed(row, n).position = n
BY DEF Todo, Placed

\* The initial tables are empty.
LEMMA InitInv == Init => PlanningInv
BY DEF Init, PlanningInv, TypeOK, TwoLevels, AttachmentsLocal, OrderKept, Ordered,
       Siblings, TodosOf
-----------------------------------------------------------------------------
(* The roadmap.                                                            *)

LEMMA CreateItemInv ==
  ASSUME PlanningInv, NEW v \in ItemInput, NEW n \in 0 .. MaxPosition,
         NEW given \in BOOLEAN, CreateItem(v, n, given)
  PROVE  PlanningInv'
<1> DEFINE row == [project |-> v.project, parent |-> v.parent,
                   position |-> n, given |-> given]
<1>1. /\ v.id \in ItemIds /\ v.project \in Projects
      /\ v.parent \in ItemIds \cup {NoItem}
      /\ n \in Nat
  BY PlanningAssumption DEF ItemInput
<1>2. /\ DOMAIN items' = DOMAIN items \cup {v.id}
      /\ items'[v.id] = row
      /\ \A j \in DOMAIN items : items'[j] = items[j]
      /\ v.id \notin DOMAIN items
      /\ todos' = todos
  <2> DEFINE id == v.id
  <2>1. items' = Put(items, id, row)
    BY DEF CreateItem
  <2>2. id \notin DOMAIN items /\ todos' = todos
    BY DEF CreateItem
  <2> HIDE DEF row, id
  <2>3. /\ DOMAIN items' = DOMAIN items \cup {id}
        /\ items'[id] = row
        /\ \A k \in DOMAIN items : items'[k] = items[k]
    BY <2>1, <2>2 DEF Put
  <2> QED BY <2>2, <2>3 DEF id
<1> HIDE DEF row
<1>3. /\ row.project = v.project /\ row.parent = v.parent
      /\ row.position = n /\ row.given = given /\ row \in Item
  BY <1>1 DEF row, Item
<1>4. TypeOK'
  BY <1>1, <1>2, <1>3 DEF PlanningInv, TypeOK
<1>5. TwoLevels'
  <2>1. v.parent # NoItem => /\ v.parent \in DOMAIN items
                             /\ items[v.parent].project = v.project
                             /\ items[v.parent].parent = NoItem
    BY DEF CreateItem, ParentAllowed
  <2> QED BY <1>2, <1>3, <2>1 DEF PlanningInv, TwoLevels
<1>6. AttachmentsLocal'
  BY <1>2 DEF PlanningInv, AttachmentsLocal
<1>7. OrderKept'
  <2>1. ASSUME NEW p \in Projects, NEW parent \in ItemIds \cup {NoItem}
        PROVE  Ordered(items, Siblings(p, parent))'
    <3>1. ASSUME NEW k \in DOMAIN items, items[k].project = v.project,
                 items[k].parent = v.parent, ~ given
          PROVE  items[k].position # n
      <4>1. IsNextPosition(n, items, Siblings(v.project, v.parent))
        BY <3>1 DEF CreateItem, NewPosition
      <4>2. k \in Siblings(v.project, v.parent) /\ items[k].position \in Nat
        BY <3>1 DEF Siblings, PlanningInv, TypeOK, Item
      <4> QED BY <4>1, <4>2, NextPositionNew
    <3>2. \A j, k \in Siblings(p, parent) : items[j].position = items[k].position =>
            j = k \/ items[j].given \/ items[k].given
      BY DEF PlanningInv, OrderKept, Ordered
    <3> QED BY <1>2, <1>3, <3>1, <3>2 DEF Ordered, Siblings
  <2>2. ASSUME NEW p \in Projects, NEW status \in Statuses
        PROVE  Ordered(todos, TodosOf(p, status))'
    BY <1>2 DEF PlanningInv, OrderKept, Ordered, TodosOf
  <2> QED BY <2>1, <2>2 DEF OrderKept
<1> QED BY <1>4, <1>5, <1>6, <1>7 DEF PlanningInv

LEMMA MoveItemInv ==
  ASSUME PlanningInv, NEW i \in ItemIds, NEW parent \in ItemIds \cup {NoItem},
         NEW n \in 0 .. MaxPosition, MoveItem(i, parent, n)
  PROVE  PlanningInv'
<1>1. CASE parent = items[i].parent
  <2>1. UNCHANGED planningVars
    BY <1>1 DEF MoveItem, planningVars
  <2> QED BY <2>1 DEF planningVars, PlanningInv, TypeOK, TwoLevels, AttachmentsLocal,
                      OrderKept, Ordered, Siblings, TodosOf
<1>2. CASE parent # items[i].parent
  <2>1. /\ i \in DOMAIN items /\ n \in Nat
        /\ IsNextPosition(n, items, Siblings(items[i].project, parent))
        /\ todos' = todos
    BY <1>2, PlanningAssumption DEF MoveItem
  <2>2. items[i] \in Item
    BY <2>1 DEF PlanningInv, TypeOK
  <2>3. /\ DOMAIN items' = DOMAIN items
        /\ items'[i] \in Item
        /\ items'[i].project = items[i].project /\ items'[i].parent = parent
        /\ items'[i].position = n
        /\ \A j \in DOMAIN items : j # i => items'[j] = items[j]
    <3>1. items' = [items EXCEPT ![i] = [Placed(items[i], n) EXCEPT !.parent = parent]]
      BY <1>2 DEF MoveItem
    <3>2. Placed(items[i], n) \in Item
      BY <2>1, <2>2, PlacedItem
    <3> DEFINE row == [Placed(items[i], n) EXCEPT !.parent = parent]
    <3>3. /\ row \in Item
          /\ row.project = items[i].project /\ row.parent = parent /\ row.position = n
      <4>1. \A r \in Item : /\ [r EXCEPT !.parent = parent] \in Item
                           /\ [r EXCEPT !.parent = parent].project = r.project
                           /\ [r EXCEPT !.parent = parent].parent = parent
                           /\ [r EXCEPT !.parent = parent].position = r.position
        BY DEF Item
      <4> QED BY <2>1, <2>2, <3>2, <4>1, PlacedItem
    <3>4. items' = [items EXCEPT ![i] = row]
      BY <3>1
    <3> HIDE DEF row
    <3> QED BY <2>1, <3>3, <3>4
  <2>4. TypeOK'
    BY <2>1, <2>3 DEF PlanningInv, TypeOK
  <2>5. TwoLevels'
    <3>1. parent # NoItem => /\ parent \in DOMAIN items /\ parent # i
                             /\ items[parent].project = items[i].project
                             /\ items[parent].parent = NoItem
                             /\ \A j \in DOMAIN items : items[j].parent # i
      BY DEF MoveItem, ParentAllowed, Children
    <3> QED BY <2>1, <2>3, <3>1 DEF PlanningInv, TwoLevels
  <2>6. AttachmentsLocal'
    BY <2>1, <2>3 DEF PlanningInv, AttachmentsLocal
  <2>7. OrderKept'
    <3>1. ASSUME NEW p \in Projects, NEW q \in ItemIds \cup {NoItem}
          PROVE  Ordered(items, Siblings(p, q))'
      <4>1. ASSUME NEW k \in DOMAIN items, items[k].project = items[i].project,
                   items[k].parent = parent
            PROVE  items[k].position # n
        <5>1. k \in Siblings(items[i].project, parent) /\ items[k].position \in Nat
          BY <4>1 DEF Siblings, PlanningInv, TypeOK, Item
        <5> QED BY <2>1, <5>1, NextPositionNew
      <4>2. \A j, k \in Siblings(p, q) : items[j].position = items[k].position =>
              j = k \/ items[j].given \/ items[k].given
        BY DEF PlanningInv, OrderKept, Ordered
      <4> QED BY <2>3, <4>1, <4>2 DEF Ordered, Siblings
    <3>2. ASSUME NEW p \in Projects, NEW status \in Statuses
          PROVE  Ordered(todos, TodosOf(p, status))'
      BY <2>1 DEF PlanningInv, OrderKept, Ordered, TodosOf
    <3> QED BY <3>1, <3>2 DEF OrderKept
  <2> QED BY <2>4, <2>5, <2>6, <2>7 DEF PlanningInv
<1> QED BY <1>1, <1>2

LEMMA DeleteItemInv ==
  ASSUME PlanningInv, NEW p \in Projects, NEW i \in ItemIds, DeleteItem(p, i)
  PROVE  PlanningInv'
<1>1. /\ DOMAIN items' = DOMAIN items \ {i}
      /\ \A j \in DOMAIN items \ {i} : items'[j] = items[j]
  BY DropRow DEF DeleteItem
<1>2. /\ DOMAIN todos' = DOMAIN todos
      /\ \A d \in DOMAIN todos :
           /\ todos'[d] \in Todo
           /\ todos'[d].project = todos[d].project
           /\ todos'[d].status = todos[d].status
           /\ todos'[d].position = todos[d].position
           /\ todos'[d].given = todos[d].given
           /\ todos'[d].item = IF todos[d].item = i THEN NoItem ELSE todos[d].item
  <2>1. \A d \in DOMAIN todos : todos[d] \in Todo
    BY DEF PlanningInv, TypeOK
  <2> QED BY <2>1 DEF DeleteItem, Detached, Todo
<1>3. TypeOK'
  BY <1>1, <1>2 DEF PlanningInv, TypeOK
<1>4. TwoLevels'
  <2>1. \A j \in DOMAIN items : items[j].parent # i
    BY DEF DeleteItem, Children
  <2> QED BY <1>1, <2>1 DEF PlanningInv, TwoLevels
<1>5. AttachmentsLocal'
  BY <1>1, <1>2 DEF PlanningInv, AttachmentsLocal
<1>6. OrderKept'
  BY <1>1, <1>2 DEF PlanningInv, OrderKept, Ordered, Siblings, TodosOf
<1> QED BY <1>3, <1>4, <1>5, <1>6 DEF PlanningInv

\* After a reordering, the rows of the group have distinct positions and the
\* others are as they were.
LEMMA ReorderedRows ==
  ASSUME NEW f, NEW S, S \subseteq DOMAIN f, NEW order \in Places(S)
  PROVE  /\ DOMAIN Reordered(f, order) = DOMAIN f
         /\ \A k \in S : Reordered(f, order)[k] = Placed(f[k], order[k])
         /\ \A k \in DOMAIN f \ S : Reordered(f, order)[k] = f[k]
         /\ \A k \in S : order[k] \in Nat
         /\ \A j, k \in S : order[j] = order[k] => j = k
<1>1. order \in [S -> 0 .. Cardinality(S) - 1] /\ IsInjective(order)
  BY DEF Places
<1>2. \A k \in S : order[k] \in Nat
  BY <1>1
<1>3. \A j, k \in S : order[j] = order[k] => j = k
  BY <1>1 DEF IsInjective
<1>4. DOMAIN order = S
  BY <1>1
<1> QED BY <1>2, <1>3, <1>4 DEF Reordered

LEMMA ReorderItemsInv ==
  ASSUME PlanningInv, NEW p \in Projects, NEW parent \in ItemIds \cup {NoItem},
         NEW order \in Places(Siblings(p, parent)), ReorderItems(p, parent, order)
  PROVE  PlanningInv'
<1> DEFINE S == Siblings(p, parent)
<1>0. S \subseteq DOMAIN items /\ items' = Reordered(items, order) /\ todos' = todos
  BY DEF Siblings, ReorderItems
<1>1. /\ DOMAIN items' = DOMAIN items
      /\ \A k \in S : items'[k] = Placed(items[k], order[k])
      /\ \A k \in DOMAIN items \ S : items'[k] = items[k]
      /\ \A k \in S : order[k] \in Nat
      /\ \A j, k \in S : order[j] = order[k] => j = k
  <2>1. order \in Places(S)
    OBVIOUS
  <2> HIDE DEF S
  <2> QED BY <1>0, <2>1, ReorderedRows
<1>2. /\ DOMAIN items' = DOMAIN items
      /\ \A k \in DOMAIN items : /\ items'[k] \in Item
                                 /\ items'[k].project = items[k].project
                                 /\ items'[k].parent = items[k].parent
      /\ \A j, k \in S : items'[j].position = items'[k].position => j = k
  <2>1. \A k \in DOMAIN items : items[k] \in Item
    BY DEF PlanningInv, TypeOK
  <2> HIDE DEF S
  <2>2. ASSUME NEW k \in S
        PROVE  /\ items'[k] \in Item /\ items'[k].project = items[k].project
               /\ items'[k].parent = items[k].parent /\ items'[k].position = order[k]
    BY <1>0, <1>1, <2>1, PlacedItem
  <2> QED BY <1>1, <2>1, <2>2
<1>3. TypeOK'
  BY <1>0, <1>2 DEF PlanningInv, TypeOK
<1>4. TwoLevels'
  BY <1>2 DEF PlanningInv, TwoLevels
<1>5. AttachmentsLocal'
  BY <1>0, <1>2 DEF PlanningInv, AttachmentsLocal
<1>6. OrderKept'
  <2>1. ASSUME NEW q \in Projects, NEW above \in ItemIds \cup {NoItem}
        PROVE  Ordered(items, Siblings(q, above))'
    <3>1. \A k : k \in Siblings(q, above)' <=> k \in Siblings(q, above)
      BY <1>2 DEF Siblings
    <3>2. CASE q = p /\ above = parent
      BY <1>2, <3>1, <3>2 DEF Ordered
    <3>3. CASE ~ (q = p /\ above = parent)
      <4>1. \A k \in Siblings(q, above) : k \in DOMAIN items \ S
        BY <3>3 DEF Siblings
      <4>2. Ordered(items, Siblings(q, above))
        BY DEF PlanningInv, OrderKept
      <4> HIDE DEF S
      <4> QED BY <1>1, <3>1, <4>1, <4>2 DEF Ordered
    <3> QED BY <3>2, <3>3
  <2>2. ASSUME NEW q \in Projects, NEW status \in Statuses
        PROVE  Ordered(todos, TodosOf(q, status))'
    BY <1>0 DEF PlanningInv, OrderKept, Ordered, TodosOf
  <2> QED BY <2>1, <2>2 DEF OrderKept
<1> QED BY <1>3, <1>4, <1>5, <1>6 DEF PlanningInv
-----------------------------------------------------------------------------
(* The TODOs.                                                              *)

LEMMA CreateTodoInv ==
  ASSUME PlanningInv, NEW v \in TodoInputs, NEW n \in 0 .. MaxPosition,
         NEW given \in BOOLEAN, CreateTodo(v, n, given)
  PROVE  PlanningInv'
<1> DEFINE row == [project |-> v.project, item |-> v.item, status |-> v.status,
                   position |-> n, given |-> given]
<1>1. /\ v.id \in TodoIds /\ v.project \in Projects
      /\ v.item \in ItemIds \cup {NoItem} /\ v.status \in Statuses
      /\ n \in Nat
  BY PlanningAssumption DEF TodoInput
<1>2. /\ DOMAIN todos' = DOMAIN todos \cup {v.id}
      /\ todos'[v.id] = row
      /\ \A d \in DOMAIN todos : todos'[d] = todos[d]
      /\ v.id \notin DOMAIN todos
      /\ items' = items
  <2> DEFINE id == v.id
  <2>1. todos' = Put(todos, id, row)
    BY DEF CreateTodo
  <2>2. id \notin DOMAIN todos /\ items' = items
    BY DEF CreateTodo
  <2> HIDE DEF row, id
  <2>3. /\ DOMAIN todos' = DOMAIN todos \cup {id}
        /\ todos'[id] = row
        /\ \A k \in DOMAIN todos : todos'[k] = todos[k]
    BY <2>1, <2>2 DEF Put
  <2> QED BY <2>2, <2>3 DEF id
<1> HIDE DEF row
<1>3. /\ row.project = v.project /\ row.item = v.item /\ row.status = v.status
      /\ row.position = n /\ row.given = given /\ row \in Todo
  BY <1>1 DEF row, Todo
<1>4. TypeOK'
  BY <1>1, <1>2, <1>3 DEF PlanningInv, TypeOK
<1>5. TwoLevels'
  BY <1>2 DEF PlanningInv, TwoLevels
<1>6. AttachmentsLocal'
  <2>1. v.item # NoItem => v.item \in DOMAIN items /\ items[v.item].project = v.project
    BY <1>1 DEF CreateTodo, AttachmentAllowed
  <2> QED BY <1>2, <1>3, <2>1 DEF PlanningInv, AttachmentsLocal
<1>7. OrderKept'
  <2>1. ASSUME NEW p \in Projects, NEW parent \in ItemIds \cup {NoItem}
        PROVE  Ordered(items, Siblings(p, parent))'
    BY <1>2 DEF PlanningInv, OrderKept, Ordered, Siblings
  <2>2. ASSUME NEW p \in Projects, NEW status \in Statuses
        PROVE  Ordered(todos, TodosOf(p, status))'
    <3>1. ASSUME NEW d \in DOMAIN todos, todos[d].project = v.project,
                 todos[d].status = v.status, ~ given
          PROVE  todos[d].position # n
      <4>1. IsNextPosition(n, todos, TodosOf(v.project, v.status))
        BY <3>1 DEF CreateTodo, NewPosition
      <4>2. d \in TodosOf(v.project, v.status) /\ todos[d].position \in Nat
        BY <3>1 DEF TodosOf, PlanningInv, TypeOK, Todo
      <4> QED BY <4>1, <4>2, NextPositionNew
    <3>2. \A j, k \in TodosOf(p, status) : todos[j].position = todos[k].position =>
            j = k \/ todos[j].given \/ todos[k].given
      BY DEF PlanningInv, OrderKept, Ordered
    <3> QED BY <1>2, <1>3, <3>1, <3>2 DEF Ordered, TodosOf
  <2> QED BY <2>1, <2>2 DEF OrderKept
<1> QED BY <1>4, <1>5, <1>6, <1>7 DEF PlanningInv

LEMMA UpdateTodoInv ==
  ASSUME PlanningInv, NEW d \in TodoIds, NEW status \in Statuses,
         NEW item \in ItemIds \cup {NoItem, Unset}, NEW n \in 0 .. MaxPosition,
         UpdateTodo(d, status, item, n)
  PROVE  PlanningInv'
<1>1. d \in DOMAIN todos /\ todos[d] \in Todo /\ items' = items /\ n \in Nat
  BY PlanningAssumption DEF UpdateTodo, PlanningInv, TypeOK
<1>2. Attachment(d, item) \in ItemIds \cup {NoItem}
  BY <1>1 DEF Attachment, Todo
<1>3. /\ DOMAIN todos' = DOMAIN todos
      /\ todos'[d] \in Todo
      /\ todos'[d].project = todos[d].project
      /\ todos'[d].item = Attachment(d, item)
      /\ todos'[d].status = status
      /\ todos'[d].position = n
      /\ todos'[d].given = (todos[d].given /\ status = todos[d].status)
      /\ \A j \in DOMAIN todos : j # d => todos'[j] = todos[j]
  BY <1>1, <1>2 DEF UpdateTodo, Todo
<1>4. TypeOK'
  BY <1>1, <1>3 DEF PlanningInv, TypeOK
<1>5. TwoLevels'
  BY <1>1 DEF PlanningInv, TwoLevels
<1>6. AttachmentsLocal'
  <2>1. Attachment(d, item) # NoItem =>
          /\ Attachment(d, item) \in DOMAIN items
          /\ items[Attachment(d, item)].project = todos[d].project
    BY <1>1, PlanningAssumption
    DEF UpdateTodo, AttachmentAllowed, Attachment, PlanningInv, AttachmentsLocal
  <2> QED BY <1>1, <1>3, <2>1 DEF PlanningInv, AttachmentsLocal
<1>7. OrderKept'
  <2>1. ASSUME NEW p \in Projects, NEW parent \in ItemIds \cup {NoItem}
        PROVE  Ordered(items, Siblings(p, parent))'
    BY <1>1 DEF PlanningInv, OrderKept, Ordered, Siblings
  <2>2. ASSUME NEW p \in Projects, NEW s \in Statuses
        PROVE  Ordered(todos, TodosOf(p, s))'
    <3>1. \A j, k \in TodosOf(p, s) : todos[j].position = todos[k].position =>
            j = k \/ todos[j].given \/ todos[k].given
      BY DEF PlanningInv, OrderKept, Ordered
    <3>2. CASE status = todos[d].status
      <4>1. n = todos[d].position
        BY <3>2 DEF UpdateTodo
      <4>2. /\ DOMAIN todos' = DOMAIN todos
            /\ \A e \in DOMAIN todos : /\ todos'[e].project = todos[e].project
                                      /\ todos'[e].status = todos[e].status
                                      /\ todos'[e].position = todos[e].position
        BY <1>1, <1>3, <3>2, <4>1
      <4>3. \A e \in DOMAIN todos : todos[e].given => todos'[e].given
        BY <1>1, <1>3, <3>2
      <4> SUFFICES ASSUME NEW j \in TodosOf(p, s)', NEW k \in TodosOf(p, s)',
                          todos'[j].position = todos'[k].position, j # k
                   PROVE  todos'[j].given \/ todos'[k].given
        BY DEF Ordered
      <4>4. j \in TodosOf(p, s) /\ k \in TodosOf(p, s)
        BY <4>2 DEF TodosOf
      <4>5. j \in DOMAIN todos /\ k \in DOMAIN todos
        BY <4>4 DEF TodosOf
      <4>6. todos[j].position = todos[k].position
        BY <4>2, <4>5
      <4>7. todos[j].given \/ todos[k].given
        BY <3>1, <4>4, <4>6
      <4> QED BY <4>5, <4>7, <4>3
    <3>3. CASE status # todos[d].status
      <4>1. ASSUME NEW j \in DOMAIN todos, todos[j].project = todos[d].project,
                   todos[j].status = status
            PROVE  todos[j].position # n
        <5>1. IsNextPosition(n, todos, TodosOf(todos[d].project, status))
          BY <3>3 DEF UpdateTodo
        <5>2. j \in TodosOf(todos[d].project, status) /\ todos[j].position \in Nat
          BY <4>1 DEF TodosOf, PlanningInv, TypeOK, Todo
        <5> QED BY <5>1, <5>2, NextPositionNew
      <4> QED BY <1>1, <1>3, <3>1, <3>3, <4>1 DEF Ordered, TodosOf
    <3> QED BY <3>2, <3>3
  <2> QED BY <2>1, <2>2 DEF OrderKept
<1> QED BY <1>4, <1>5, <1>6, <1>7 DEF PlanningInv

LEMMA DeleteTodoInv ==
  ASSUME PlanningInv, NEW p \in Projects, NEW d \in TodoIds, DeleteTodo(p, d)
  PROVE  PlanningInv'
<1>1. /\ DOMAIN todos' = DOMAIN todos \ {d}
      /\ \A j \in DOMAIN todos \ {d} : todos'[j] = todos[j]
      /\ items' = items
  BY DropRow DEF DeleteTodo
<1>2. TypeOK'
  BY <1>1 DEF PlanningInv, TypeOK
<1>3. TwoLevels'
  BY <1>1 DEF PlanningInv, TwoLevels
<1>4. AttachmentsLocal'
  BY <1>1 DEF PlanningInv, AttachmentsLocal
<1>5. OrderKept'
  BY <1>1 DEF PlanningInv, OrderKept, Ordered, Siblings, TodosOf
<1> QED BY <1>2, <1>3, <1>4, <1>5 DEF PlanningInv

LEMMA ReorderTodosInv ==
  ASSUME PlanningInv, NEW p \in Projects, NEW status \in Statuses,
         NEW order \in Places(TodosOf(p, status)), ReorderTodos(p, status, order)
  PROVE  PlanningInv'
<1> DEFINE S == TodosOf(p, status)
<1>0. S \subseteq DOMAIN todos /\ todos' = Reordered(todos, order) /\ items' = items
  BY DEF TodosOf, ReorderTodos
<1>1. /\ DOMAIN todos' = DOMAIN todos
      /\ \A k \in S : todos'[k] = Placed(todos[k], order[k])
      /\ \A k \in DOMAIN todos \ S : todos'[k] = todos[k]
      /\ \A k \in S : order[k] \in Nat
      /\ \A j, k \in S : order[j] = order[k] => j = k
  <2>1. order \in Places(S)
    OBVIOUS
  <2> HIDE DEF S
  <2> QED BY <1>0, <2>1, ReorderedRows
<1>2. /\ DOMAIN todos' = DOMAIN todos
      /\ \A k \in DOMAIN todos : /\ todos'[k] \in Todo
                                 /\ todos'[k].project = todos[k].project
                                 /\ todos'[k].item = todos[k].item
                                 /\ todos'[k].status = todos[k].status
      /\ \A j, k \in S : todos'[j].position = todos'[k].position => j = k
  <2>1. \A k \in DOMAIN todos : todos[k] \in Todo
    BY DEF PlanningInv, TypeOK
  <2> HIDE DEF S
  <2>2. ASSUME NEW k \in S
        PROVE  /\ todos'[k] \in Todo /\ todos'[k].project = todos[k].project
               /\ todos'[k].item = todos[k].item /\ todos'[k].status = todos[k].status
               /\ todos'[k].position = order[k]
    BY <1>0, <1>1, <2>1, PlacedTodo
  <2> QED BY <1>1, <2>1, <2>2
<1>3. TypeOK'
  BY <1>0, <1>2 DEF PlanningInv, TypeOK
<1>4. TwoLevels'
  BY <1>0 DEF PlanningInv, TwoLevels
<1>5. AttachmentsLocal'
  BY <1>0, <1>2 DEF PlanningInv, AttachmentsLocal
<1>6. OrderKept'
  <2>1. ASSUME NEW q \in Projects, NEW above \in ItemIds \cup {NoItem}
        PROVE  Ordered(items, Siblings(q, above))'
    BY <1>0 DEF PlanningInv, OrderKept, Ordered, Siblings
  <2>2. ASSUME NEW q \in Projects, NEW s \in Statuses
        PROVE  Ordered(todos, TodosOf(q, s))'
    <3>1. \A k : k \in TodosOf(q, s)' <=> k \in TodosOf(q, s)
      BY <1>2 DEF TodosOf
    <3>2. CASE q = p /\ s = status
      BY <1>2, <3>1, <3>2 DEF Ordered
    <3>3. CASE ~ (q = p /\ s = status)
      <4>1. \A k \in TodosOf(q, s) : k \in DOMAIN todos \ S
        BY <3>3 DEF TodosOf
      <4>2. Ordered(todos, TodosOf(q, s))
        BY DEF PlanningInv, OrderKept
      <4> HIDE DEF S
      <4> QED BY <1>1, <3>1, <4>1, <4>2 DEF Ordered
    <3> QED BY <3>2, <3>3
  <2> QED BY <2>1, <2>2 DEF OrderKept
<1> QED BY <1>3, <1>4, <1>5, <1>6 DEF PlanningInv
-----------------------------------------------------------------------------
\* No call gives a stored item to another project (planning.py:167-191, 313-341).
SameProject ==
  \A i \in DOMAIN items \cap DOMAIN items' : items'[i].project = items[i].project

LEMMA ProjectsKept ==
  ASSUME PlanningInv
  PROVE  /\ \A v, n, given : CreateItem(v, n, given) => SameProject
         /\ \A p, i : DeleteItem(p, i) => SameProject
         /\ \A p, parent, order : ReorderItems(p, parent, order) => SameProject
         /\ \A i, parent, n : MoveItem(i, parent, n) => SameProject
<1>1. \A i \in DOMAIN items : items[i] \in Item
  BY DEF PlanningInv, TypeOK
<1>2. ASSUME NEW v, NEW n, NEW given, CreateItem(v, n, given) PROVE SameProject
  BY <1>2 DEF CreateItem, Put, SameProject
<1>3. ASSUME NEW p, NEW i, DeleteItem(p, i) PROVE SameProject
  <2>1. \A j \in DOMAIN items' : items'[j] = items[j]
    BY <1>3, DropRow DEF DeleteItem
  <2>2. QED
    BY <2>1 DEF SameProject
<1>4. ASSUME NEW p, NEW parent, NEW order, ReorderItems(p, parent, order) PROVE SameProject
  BY <1>1, <1>4 DEF ReorderItems, Reordered, Placed, Item, SameProject
<1>5. ASSUME NEW i, NEW parent, NEW n, MoveItem(i, parent, n) PROVE SameProject
  <2>1. CASE items' = items
    BY <2>1 DEF SameProject
  <2>2. CASE items' = [items EXCEPT ![i] = [Placed(@, n) EXCEPT !.parent = parent]]
    <3>1. i \in DOMAIN items => items[i] \in Item
      BY <1>1
    <3>2. i \in DOMAIN items => [Placed(items[i], n) EXCEPT !.parent = parent].project = items[i].project
      BY <3>1 DEF Placed, Item
    <3>3. QED
      BY <2>2, <3>2 DEF SameProject
  <2>3. QED
    BY <1>5, <2>1, <2>2 DEF MoveItem
<1>6. QED
  BY <1>2, <1>3, <1>4, <1>5

LEMMA NextKeepsProjects ==
  ASSUME PlanningInv, Next
  PROVE  SameProject
<1>1. CASE Roadmap
  BY <1>1, ProjectsKept DEF Roadmap
<1>2. CASE TodoList
  <2>1. items' = items
    <3>1. ASSUME NEW v, NEW n, NEW given, CreateTodo(v, n, given) PROVE items' = items
      BY <3>1 DEF CreateTodo
    <3>2. ASSUME NEW d, NEW status, NEW item, NEW n, UpdateTodo(d, status, item, n)
          PROVE  items' = items
      BY <3>2 DEF UpdateTodo
    <3>3. ASSUME NEW p, NEW d, DeleteTodo(p, d) PROVE items' = items
      BY <3>3 DEF DeleteTodo
    <3>4. ASSUME NEW p, NEW status, NEW order, ReorderTodos(p, status, order)
          PROVE  items' = items
      BY <3>4 DEF ReorderTodos
    <3>5. QED
      BY <1>2, <3>1, <3>2, <3>3, <3>4 DEF TodoList
  <2>2. QED
    BY <2>1 DEF SameProject
<1>3. QED
  BY <1>1, <1>2 DEF Next

-----------------------------------------------------------------------------
\* Every call of the planning store keeps the invariant.
LEMMA NextInv == PlanningInv /\ [Next]_planningVars => PlanningInv'
<1> SUFFICES ASSUME PlanningInv, [Next]_planningVars
             PROVE  PlanningInv'
  OBVIOUS
<1>1. CASE Roadmap
  BY <1>1, PlanningAssumption, CreateItemInv, MoveItemInv, DeleteItemInv, ReorderItemsInv DEF Roadmap
<1>2. CASE TodoList
  BY <1>2, CreateTodoInv, UpdateTodoInv, DeleteTodoInv, ReorderTodosInv DEF TodoList
<1>3. CASE UNCHANGED planningVars
  BY <1>3 DEF planningVars, PlanningInv, TypeOK, TwoLevels, AttachmentsLocal, OrderKept,
              Ordered, Siblings, TodosOf
<1> QED BY <1>1, <1>2, <1>3 DEF Next

\* The inductive invariant holds in every reachable state of the planning
\* store (planning.py), for any number of projects, items and TODOs.
THEOREM PlanningCorrect == Spec => []PlanningInv
BY InitInv, NextInv, PTL DEF Spec

\* The tables of planning.py are well typed.
THEOREM PlanningTypes == Spec => []TypeOK
BY PlanningCorrect, PTL DEF PlanningInv

\* A project's roadmap is a forest of two levels (planning.py:167-191).
THEOREM RoadmapHasTwoLevels == Spec => []TwoLevels
BY PlanningCorrect, PTL DEF PlanningInv

\* A TODO is attached to a stored item of its own project or to none
\* (planning.py:420-428, schema.sql:237-238).
THEOREM AttachmentsStayLocal == Spec => []AttachmentsLocal
BY PlanningCorrect, PTL DEF PlanningInv

\* Siblings and TODOs of one status have distinct positions, unless a caller
\* chose one (planning.py:112-136).
THEOREM OrderIsKept == Spec => []OrderKept
BY PlanningCorrect, PTL DEF PlanningInv
=============================================================================
