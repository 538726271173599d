----------------------------- MODULE SubtaskTree -----------------------------
(***************************************************************************)
(* SubtaskService: the task hierarchy read with recursive queries.         *)
(*                                                                         *)
(* A task names its parent when it is created, never later (UpdateTaskDto  *)
(* has no parentTaskId); the foreign key only asks that the parent's row   *)
(* exists, deleted or not, in whatever workspace.  A request first checks  *)
(* the task and then, in a second statement, runs its query, so the table  *)
(* may change in between.  Tasks are numbered in the order of creation.    *)
(***************************************************************************)
EXTENDS Naturals, Sequences

CONSTANTS
  Reqs,        \* requests, each handled once
  Workspaces,
  Null,        \* JSON null, the tree whose root is gone; or no request yet
  MaxTasks     \* bound of the instance

ASSUME SubtaskAssumption == MaxTasks \in Nat /\ Workspaces # {}

VARIABLES
  task,    \* the tasks table; parent 0 is SQL NULL
  req,     \* what each request asks
  pc,      \* "idle", "fetch", "done"
  reply    \* what it was answered

vars == <<task, req, pc, reply>>

Ids == DOMAIN task
Ops == {"tree", "descendants", "ancestors"}

Live(i) == i \in Ids /\ ~task[i].deleted

---------------------------------------------------------------------------
(* The recursive queries *)

\* (defect) the recursive part forgets "deletedAt" IS NULL
ChildrenAll(S) == {i \in Ids : task[i].parent \in S}

\* The recursive part: INNER JOIN on t."parentTaskId" = st.id.
Children(S) == {i \in Ids : Live(i) /\ task[i].parent \in S}

\* WITH RECURSIVE ... UNION ALL: the working tables, from the seed down.
Levels(seed) ==
  LET level[n \in 0..Len(task)] == IF n = 0 THEN seed ELSE Children(level[n - 1])
  IN  level

Rows(seed) == UNION {Levels(seed)[n] : n \in 0..Len(task)}

Visible(t, w) == Live(t) /\ task[t].ws = w

TreeRows(t, w) == Rows({i \in {t} : Visible(t, w)})

DescendantRows(t, w) == Rows({i \in Children({t}) : task[i].ws = w})

\* The join of getAncestors: ta.id = t."parentTaskId".
AncestorRows(t, w) ==
  Rows({i \in Ids : Visible(t, w) /\ i = task[t].parent /\ Live(i)})

\* buildTree: each row with the rows that name it as parent; null without root.
BuildTree(rows, root) ==
  IF root \in rows
  THEN [i \in rows |-> {j \in rows : task[j].parent = i}]
  ELSE Null

---------------------------------------------------------------------------
Init ==
  /\ task = <<>>
  /\ req = [p \in Reqs |-> Null]
  /\ pc = [p \in Reqs |-> "idle"]
  /\ reply = [p \in Reqs |-> {}]

\* (defect) with an id the new task may be given
CreateUnder(parent, w) ==
  /\ Len(task) < MaxTasks
  /\ parent \in Ids \cup {0, Len(task) + 1}
  /\ task' = Append(task, [parent |-> parent, ws |-> w, deleted |-> FALSE])
  /\ UNCHANGED <<req, pc, reply>>

\* createTask; the database checks the foreign key.
Create(parent, w) ==
  /\ Len(task) < MaxTasks
  /\ parent \in Ids \cup {0}
  /\ task' = Append(task, [parent |-> parent, ws |-> w, deleted |-> FALSE])
  /\ UNCHANGED <<req, pc, reply>>

\* deleteTask; the subtasks stay.
Delete(i) ==
  /\ Live(i)
  /\ task' = [task EXCEPT ![i].deleted = TRUE]
  /\ UNCHANGED <<req, pc, reply>>

Check(p) ==
  /\ pc[p] = "idle"
  /\ \E op \in Ops, t \in 1..MaxTasks, w \in Workspaces :
       /\ req' = [req EXCEPT ![p] = [op |-> op, id |-> t, ws |-> w]]
       /\ IF Visible(t, w)
          THEN pc' = [pc EXCEPT ![p] = "fetch"] /\ UNCHANGED reply
          ELSE /\ pc' = [pc EXCEPT ![p] = "done"]
               /\ reply' = [reply EXCEPT ![p] = "notFound"]
  /\ UNCHANGED task

Answer(p, op, value) ==
  /\ pc[p] = "fetch" /\ req[p].op = op
  /\ pc' = [pc EXCEPT ![p] = "done"]
  /\ reply' = [reply EXCEPT ![p] = value]
  /\ UNCHANGED <<task, req>>

FetchTree(p) ==
  Answer(p, "tree", BuildTree(TreeRows(req[p].id, req[p].ws), req[p].id))
FetchDescendants(p) ==
  Answer(p, "descendants", DescendantRows(req[p].id, req[p].ws))
FetchAncestors(p) ==
  Answer(p, "ancestors", AncestorRows(req[p].id, req[p].ws))

\* The bound on tasks is reached, all are deleted and no request is left.
Over == /\ Len(task) = MaxTasks /\ \A i \in Ids : task[i].deleted
        /\ \A p \in Reqs : pc[p] = "done"
        /\ UNCHANGED vars

Next ==
  \/ \E parent \in 0..MaxTasks, w \in Workspaces : Create(parent, w)
  \/ \E i \in 1..MaxTasks : Delete(i)
  \/ \E p \in Reqs : \/ Check(p) \/ FetchTree(p) \/ FetchDescendants(p)
                     \/ FetchAncestors(p)
  \/ Over

Spec == Init /\ [][Next]_vars

---------------------------------------------------------------------------
(* Properties.  The reference is the chain of parents of a task. *)

\* The tasks above i, nearest first, up to the root.
Path(i) ==
  LET up[j \in 0..Len(task)] ==
        IF j = 0 \/ task[j].parent = 0 THEN <<>>
        ELSE <<task[j].parent>> \o up[task[j].parent]
  IN  up[i]

\* i lies below t and neither it nor a task between them is deleted.
Below(i, t) ==
  /\ Live(i)
  /\ \E n \in DOMAIN Path(i) : /\ Path(i)[n] = t
                               /\ \A k \in 1..(n - 1) : Live(Path(i)[k])

\* Types; a parent that is named exists.
TypeOK ==
  /\ \A i \in Ids : task[i].parent \in Ids \cup {0}
  /\ task \in Seq([parent : 0..MaxTasks, ws : Workspaces, deleted : BOOLEAN])
  /\ req \in [Reqs -> [op : Ops, id : 1..MaxTasks, ws : Workspaces] \cup {Null}]
  /\ pc \in [Reqs -> {"idle", "fetch", "done"}]

\* UNION ALL keeps duplicates and stops only when a working table is empty:
\* from every seed each row is returned once and the recursion ends.
RecursionEnds ==
  \A t \in Ids :
    LET level == Levels({t})
    IN  /\ Children(level[Len(task)]) = {}
        /\ \A m, n \in DOMAIN level : m # n => level[m] \cap level[n] = {}

\* The nested tree holds exactly the live tasks below the root, each under its
\* parent, and the root itself; it is null only when the root was deleted
\* after the check (getTaskTree, buildTree).
TreeIsSubtree ==
  [][\A p \in Reqs : FetchTree(p) =>
       LET t == req[p].id
           below == {i \in Ids : Below(i, t)}
       IN  IF Live(t)
           THEN /\ DOMAIN reply'[p] = below \cup {t}
                /\ \A i \in below : \E j \in DOMAIN reply'[p] :
                     i \in reply'[p][j] /\ Path(i)[1] = j
           ELSE reply'[p] = Null]_vars

\* getDescendants lists every live task below the one asked for whose topmost
\* link, the direct subtask, is in the request's workspace, and no other; its
\* first part does not look at the task again, so a task deleted after the
\* check still shows its subtasks.
DescendantsAreBelow ==
  [][\A p \in Reqs : FetchDescendants(p) =>
       LET t == req[p].id
       IN  reply'[p] = {i \in Ids : \E j \in Ids :
                          /\ task[j].parent = t /\ task[j].ws = req[p].ws
                          /\ Live(j) /\ (i = j \/ Below(i, j))}]_vars
=============================================================================
