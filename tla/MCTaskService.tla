--------------------------- MODULE MCTaskService ---------------------------
(* Instances of TaskService for TLC. *)
EXTENDS TaskService, TLC

CONSTANTS t1, t2, w1, w2, u1, u2, a, b

Dto0 == [content |-> Undef, status |-> Undef, assignedTo |-> Undef,
         version |-> Undef]
Ask(op, t, w, d) == [op |-> op, task |-> t, ws |-> w, user |-> u1, dto |-> d]
By(u, c) == [c EXCEPT !.user = u]

MCTasks == {t1, t2}
MCWorkspaces == {w1, w2}
MCUsers == {u1, u2}
MCContents == {a, b}

\* t1 is an open, unassigned task of workspace w1, created by u1.
Open == [ws |-> w1, content |-> a, status |-> "TODO", completedAt |-> Null,
         assignedTo |-> Null, createdBy |-> u1, version |-> 1,
         deleted |-> FALSE]
OneTask == [t \in {t1} |-> Open]

Get      == Ask("get", t1, w1, Dto0)
Foreign  == Ask("get", t1, w2, Dto0)
List     == Ask("list", t1, w1, Dto0)
ListW2   == Ask("list", t1, w2, Dto0)
Delete   == Ask("delete", t1, w1, Dto0)
New      == Ask("create", t2, w1, [Dto0 EXCEPT !.content = a])
NewFor2  == Ask("create", t2, w1, [Dto0 EXCEPT !.content = a, !.assignedTo = u2])
Edit     == Ask("update", t1, w1, [Dto0 EXCEPT !.content = b, !.version = 1])
Edit2    == Ask("update", t1, w1, [Dto0 EXCEPT !.content = a, !.version = 2])
Complete == By(u2, Ask("update", t1, w1, [Dto0 EXCEPT !.status = "DONE"]))
CompleteV == By(u2, Ask("update", t1, w1, [Dto0 EXCEPT !.status = "DONE", !.version = 1]))
Reopen   == Ask("update", t1, w1, [Dto0 EXCEPT !.status = "TODO"])
Assign   == Ask("update", t1, w1, [Dto0 EXCEPT !.assignedTo = u2])
Reassign == Ask("update", t1, w1, [Dto0 EXCEPT !.assignedTo = u1])
Unassign == Ask("update", t1, w1, [Dto0 EXCEPT !.assignedTo = Null])

MixedCalls == {Get, Foreign, List, NewFor2, Edit, Edit2, Complete, Reopen, Assign, Reassign,
               Delete}
AllCalls == {Get, Foreign, List, ListW2, New, Edit, Edit2, Complete, Reopen, Assign,
             Reassign, Unassign, Delete}
WriteCalls == {Get, Edit, CompleteV}

AllFaults == {"redis", "db", "queue", "crash"}
============================================================================
