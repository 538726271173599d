------------------------------ MODULE TaskData ------------------------------
(***************************************************************************)
(* The data of the task component: what a row of the "tasks" table holds   *)
(* (database/entities/task.entity.ts), what a client may ask of            *)
(* TaskService (modules/task/task.service.ts) and the constants that bound *)
(* an instance.                                                            *)
(*                                                                         *)
(* title, description, priority, dueDate, labels and attachments are       *)
(* treated alike by the service (assign when given) and are one abstract   *)
(* "content".  projectId is immutable and a workspace has one project, so  *)
(* a workspace names the list a task appears in.                           *)
(***************************************************************************)
EXTENDS Naturals

CONSTANTS
  Tasks,       \* task ids
  Reqs,        \* HTTP requests, each handled once
  Workspaces,  \* tenants
  Users,
  Contents,    \* values of the descriptive columns
  Undef,       \* a field the client's JSON leaves out
  Null,        \* SQL NULL, JSON null
  Past,        \* completion time of a task completed before the run
  Calls,       \* the requests clients may send
  Seed         \* the rows of the table when the run starts

Statuses == {"TODO", "IN_PROGRESS", "BLOCKED", "DONE"}

\* A completion time is named by the request that stamps it: every
\* new Date() of the code is a value of its own.
Stamps == Reqs \cup {Past, Null}

Row == [ws : Workspaces, content : Contents, status : Statuses,
        completedAt : Stamps, assignedTo : Users \cup {Null},
        createdBy : Users, version : Nat, deleted : BOOLEAN]

Dto == [content : Contents \cup {Undef}, status : Statuses \cup {Undef},
        assignedTo : Users \cup {Null, Undef}, version : Nat \cup {Undef}]

Ops == {"get", "list", "create", "update", "delete"}

Call == [op : Ops, task : Tasks, ws : Workspaces, user : Users, dto : Dto]

\* A list reply: the visible rows of one project.
Page == SUBSET [id : Tasks, val : Row]

\* A row is completed exactly when it carries a completion time.
CompletionMatches(r) == r.status = "DONE" <=> r.completedAt # Null

ASSUME DataAssumption ==
  /\ Calls \subseteq Call /\ Calls # {}
  /\ Undef \notin Nat \cup Users \cup Contents \cup Statuses \cup {Null}
  /\ Null \notin Users \cup Reqs \cup {Past} /\ Null \notin Row
  /\ Past \notin Reqs
  /\ DOMAIN Seed \subseteq Tasks /\ Seed \in [DOMAIN Seed -> Row]
  /\ \A t \in DOMAIN Seed : /\ ~Seed[t].deleted /\ CompletionMatches(Seed[t])
                            /\ Seed[t].completedAt \in {Past, Null}
  \* createTask takes content and perhaps an assignee, never a status
  /\ \A c \in Calls : c.op = "create" => /\ c.dto.content # Undef
                                         /\ c.dto.assignedTo # Null
                                         /\ c.dto.status = Undef

Given(value, default) == IF value = Undef THEN default ELSE value

\* The row createTask inserts for call c.
NewRow(c) == [ws |-> c.ws, content |-> c.dto.content, status |-> "TODO",
              completedAt |-> Null,
              assignedTo |-> Given(c.dto.assignedTo, Null),
              createdBy |-> c.user, version |-> 1, deleted |-> FALSE]

\* The row softRemove leaves.
Removed(r) == [r EXCEPT !.deleted = TRUE, !.version = @ + 1]

\* What an update promises: every given field is set, the completion time
\* follows the status, an unassigned task may be assigned, and the version
\* counts the updates that changed something.
Merged(r, d, p) ==
  LET n == [r EXCEPT !.content = Given(d.content, r.content),
                     !.status = Given(d.status, r.status),
                     !.completedAt = CASE d.status = "DONE" /\ r.status # "DONE" -> p
                                       [] d.status \in Statuses \ {"DONE"} -> Null
                                       [] OTHER -> r.completedAt,
                     !.assignedTo = IF r.assignedTo = Null
                                    THEN Given(d.assignedTo, Null)
                                    ELSE r.assignedTo]
  IN  IF n = r THEN r ELSE [n EXCEPT !.version = r.version + 1]
=============================================================================
