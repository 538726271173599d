------------------------------ MODULE Delivery ------------------------------
(***************************************************************************)
(* What follows a comment: CommentService.addComment stores it, enqueues   *)
(* the two log entries and notifies the people of the task one after the   *)
(* other; NotificationService stores each notification and enqueues a push *)
(* and a mail; the workers of the four queues run the jobs, which BullMQ   *)
(* attempts three times, and once more when their worker died.             *)
(***************************************************************************)
EXTENDS Integers, Sequences, FiniteSets

CONSTANTS
  Reqs,          \* requests that add a comment to one task
  Users,
  None,          \* no user
  Faults,        \* "database", "queue", "stall", "removal"
  MaxFaults      \* bound of the instance: how many faults happen

Attempts == 3      \* attempts: 3 of every add
MaxStalls == 1     \* BullMQ's default maxStalledCount

ASSUME DeliveryAssumption ==
  /\ None \notin Users /\ MaxFaults \in Nat
  /\ Faults \subseteq {"database", "queue", "stall", "removal"}

LogQueues == {"audit", "activity"}
SendQueues == {"notification", "email"}
Jobs == (LogQueues \X Reqs \X {None}) \cup (SendQueues \X Reqs \X Users)

VARIABLES
  people,      \* the task's assignee and creator, and the author of each comment
  live,        \* the task and its workspace are there
  comment,     \* the comments stored; their rows go with the task
  notes,       \* the notifications table: how many of each comment for each user
  job,         \* the four queues
  req,         \* what each request does
  faults       \* how many faults happened

vars == <<people, live, comment, notes, job, req, faults>>

NoJob == [at |-> "none", added |-> 0, tries |-> 0, stalls |-> 0, runs |-> 0]
Idle == [at |-> "idle", todo |-> <<>>, code |-> 0]

Step(c, from, r) == req[c].at = from /\ req' = [req EXCEPT ![c] = r]
GoTo(c, at) == [req[c] EXCEPT !.at = at]
Answer(c, code) == [req[c] EXCEPT !.at = "reply", !.code = code]

Fault(f) == f \in Faults /\ faults < MaxFaults /\ faults' = faults + 1

---------------------------------------------------------------------------
Init ==
  /\ people \in [assignedTo : Users \cup {None}, createdBy : Users,
                 author : [Reqs -> Users]]
  /\ live = TRUE /\ comment = {} /\ faults = 0
  /\ notes = [c \in Reqs |-> [u \in Users |-> 0]]
  /\ job = [j \in Jobs |-> NoJob]
  /\ req = [c \in Reqs |-> Idle]

\* Whom a comment concerns, in the order they are told.
Targets(c) ==
  LET a == people.assignedTo
      b == people.createdBy
      told(u) == u \notin {None, people.author[c]}
  IN  (IF told(a) THEN <<a>> ELSE <<>>) \o (IF told(b) /\ b # a THEN <<b>> ELSE <<>>)

---------------------------------------------------------------------------
(* CommentService.addComment *)

\* The task is looked up in its workspace.
Load(c) ==
  /\ Step(c, "idle", IF live THEN [at |-> "store", todo |-> Targets(c), code |-> 0]
                     ELSE Answer(c, 404))
  /\ UNCHANGED <<people, live, comment, notes, job, faults>>

\* (defect) a comment that cannot be stored is passed over.
StoreSwallowed(c) ==
  /\ Step(c, "store", GoTo(c, "audit"))
  /\ comment' = IF live THEN comment \cup {c} ELSE comment
  /\ UNCHANGED <<people, live, notes, job, faults>>

\* The foreign key refuses a comment on a task that was removed meanwhile.
Store(c) ==
  /\ IF live THEN Step(c, "store", GoTo(c, "audit")) /\ comment' = comment \cup {c}
     ELSE Step(c, "store", Answer(c, 500)) /\ UNCHANGED comment
  /\ UNCHANGED <<people, live, notes, job, faults>>

\* Queue.add
Added(j) == [job EXCEPT ![j] = [job[j] EXCEPT !.added = @ + 1, !.at = "waiting"]]

\* AuditService.log and ActivityService.log swallow the error of an add.
Log(c, q, next) ==
  /\ Step(c, q, GoTo(c, next))
  /\ \/ job' = Added(<<q, c, None>>) /\ UNCHANGED faults
     \/ Fault("queue") /\ UNCHANGED job
  /\ UNCHANGED <<people, live, comment, notes>>

Onward(c) == IF req[c].todo = <<>> THEN Answer(c, 201) ELSE GoTo(c, "note")

Audit(c) == Log(c, "audit", "activity")
Activity(c) == Log(c, "activity", "next")

\* for (const targetUserId of targets)
NextTarget(c) ==
  /\ Step(c, "next", Onward(c))
  /\ UNCHANGED <<people, live, comment, notes, job, faults>>

---------------------------------------------------------------------------
(* NotificationService.createAndSendNotification, which rethrows any error *)

\* The notification is stored, then emitted to the user's room.
Save(c) ==
  LET u == Head(req[c].todo)
  IN  /\ req[c].at = "note"
      /\ \/ /\ notes' = [notes EXCEPT ![c][u] = @ + 1]
            /\ Step(c, "note", GoTo(c, "notification"))
            /\ UNCHANGED faults
         \/ Fault("database") /\ Step(c, "note", Answer(c, 500)) /\ UNCHANGED notes
      /\ UNCHANGED <<people, live, comment, job>>

Enqueue(c, q, r) ==
  /\ req[c].at = q
  /\ \/ /\ job' = Added(<<q, c, Head(req[c].todo)>>)
        /\ Step(c, q, r) /\ UNCHANGED faults
     \/ Fault("queue") /\ Step(c, q, Answer(c, 500)) /\ UNCHANGED job
  /\ UNCHANGED <<people, live, comment, notes>>

Push(c) == Enqueue(c, "notification", GoTo(c, "email"))

\* (defect) the mail is sent to the next target only, as if todo had advanced.
MailSkipsTarget(c) ==
  /\ req[c].at = "email"
  /\ Step(c, "email", [GoTo(c, "next") EXCEPT !.todo = <<>>])
  /\ job' = Added(<<"email", c, Head(req[c].todo)>>)
  /\ UNCHANGED <<people, live, comment, notes, faults>>

Mail(c) == /\ req[c].at = "email"
           /\ Enqueue(c, "email", [GoTo(c, "next") EXCEPT !.todo = Tail(@)])

Reply(c) ==
  /\ Step(c, "reply", GoTo(c, "end"))
  /\ UNCHANGED <<people, live, comment, notes, job, faults>>

---------------------------------------------------------------------------
(* The workers: one process, one job of each queue at a time *)

Busy(q) == \E j \in Jobs : j[1] = q /\ job[j].at = "active"

Take(j) ==
  /\ job[j].at = "waiting" /\ ~Busy(j[1])
  /\ job' = [job EXCEPT ![j].at = "active"]
  /\ UNCHANGED <<people, live, comment, notes, req, faults>>

\* (defect) an error after the row is stored is one more attempt.
RunOrThrow(j) ==
  /\ job[j].at = "active" /\ (j[1] = "activity" => live)
  /\ \/ job' = [job EXCEPT ![j].at = "done", ![j].runs = @ + 1]
     \/ /\ job[j].tries + 1 < Attempts
        /\ job' = [job EXCEPT ![j].at = "waiting", ![j].tries = @ + 1, ![j].runs = @ + 1]
  /\ UNCHANGED <<people, live, comment, notes, req, faults>>

\* A row of the audit or activity log, a push or a mail; then the job is done.
\* The activity log has a foreign key to the workspace.
Run(j) ==
  /\ job[j].at = "active" /\ (j[1] = "activity" => live)
  /\ job' = [job EXCEPT ![j] = [job[j] EXCEPT !.at = "done", !.runs = @ + 1]]
  /\ UNCHANGED <<people, live, comment, notes, req, faults>>

CannotStore(j) ==
  /\ job[j].at = "active"
  /\ \/ j[1] \in LogQueues /\ Fault("database")
     \/ j[1] = "activity" /\ ~live /\ UNCHANGED faults
  /\ UNCHANGED <<people, live, comment, notes, req>>

\* (defect) attempts are not counted.
ThrowForever(j) == CannotStore(j) /\ job' = [job EXCEPT ![j].at = "waiting"]

\* The row cannot be stored: the worker throws.
Throw(j) ==
  /\ CannotStore(j)
  /\ job' = [job EXCEPT ![j] =
               [job[j] EXCEPT !.tries = @ + 1,
                              !.at = IF job[j].tries + 1 < Attempts THEN "waiting"
                                     ELSE "failed"]]

\* The worker dies, before or after its one await; BullMQ puts the stalled job
\* back, once.
Stall(j) ==
  /\ job[j].at = "active" /\ Fault("stall")
  /\ \E ran \in {0, 1} :
       /\ ran = 1 /\ j[1] = "activity" => live
       /\ job' = [job EXCEPT ![j] =
                    [job[j] EXCEPT !.stalls = @ + 1, !.runs = @ + ran,
                                   !.at = IF job[j].stalls < MaxStalls THEN "waiting"
                                          ELSE "failed"]]
  /\ UNCHANGED <<people, live, comment, notes, req>>

\* The workspace is removed: its tasks, their comments and its activities go.
Remove ==
  /\ live /\ Fault("removal")
  /\ live' = FALSE
  /\ UNCHANGED <<people, comment, notes, job, req>>

---------------------------------------------------------------------------
Request(c) == \/ Load(c) \/ Store(c) \/ Audit(c) \/ Activity(c) \/ NextTarget(c)
              \/ Save(c) \/ Push(c) \/ Mail(c) \/ Reply(c)
Process(j) == Take(j) \/ Run(j) \/ Throw(j)

Settled == /\ \A c \in Reqs : req[c].at = "end"
           /\ \A j \in Jobs : job[j].at \in {"none", "done", "failed"}

\* There is nothing left to do.
Over == Settled /\ UNCHANGED vars

Next == \/ \E c \in Reqs : Request(c)
        \/ \E j \in Jobs : Process(j) \/ Stall(j)
        \/ Remove \/ Over

Spec == Init /\ [][Next]_vars

Worker(q) == \E j \in Jobs : j[1] = q /\ Process(j)

\* Awaits settle, and the worker of a queue goes on with its job or takes one.
Fairness ==
  /\ \A c \in Reqs : WF_vars(Request(c))
  /\ \A q \in LogQueues \cup SendQueues : WF_vars(Worker(q))
FairSpec == Spec /\ Fairness

---------------------------------------------------------------------------
(* Properties *)

Places == {"idle", "store", "audit", "activity", "next", "note", "notification",
           "email", "reply", "end"}

\* Types: the tables, the queues and the places of requests.
TypeOK ==
  /\ people \in [assignedTo : Users \cup {None}, createdBy : Users,
                 author : [Reqs -> Users]]
  /\ live \in BOOLEAN /\ comment \in SUBSET Reqs /\ faults \in 0..MaxFaults
  /\ notes \in [Reqs -> [Users -> Nat]]
  /\ req \in [Reqs -> [at : Places, todo : Seq(Users), code : {0, 201, 404, 500}]]
  /\ job \in [Jobs -> [at : {"none", "waiting", "active", "done", "failed"},
                       added : Nat, tries : 0..Attempts, stalls : 0..MaxStalls + 1,
                       runs : Nat]]

\* Everyone a comment concerns is told in full and once, but its author, before
\* the request succeeds; when it fails, those before the failing target have been
\* told in full and those after it not at all. Nobody else is ever told
\* (addComment's loop over createAndSendNotification).
ToldInOrder == \A c \in Reqs :
  LET t == Targets(c)
      Row(i) == notes[c][t[i]]
      Pushed(i) == job[<<"notification", c, t[i]>>].added
      Mailed(i) == job[<<"email", c, t[i]>>].added
      Whole(i) == Row(i) = 1 /\ Pushed(i) = 1 /\ Mailed(i) = 1
      Nothing(i) == Row(i) = 0 /\ Pushed(i) = 0 /\ Mailed(i) = 0
  IN  /\ \A i \in DOMAIN t : /\ 1 >= Row(i) /\ Row(i) >= Pushed(i)
                             /\ Pushed(i) >= Mailed(i)
      /\ \A i, k \in DOMAIN t : i < k => Whole(i) \/ Nothing(k)
      /\ req[c].code = 201 => \A i \in DOMAIN t : Whole(i)
      /\ \A u \in Users : notes[c][u] > 0 => \E i \in DOMAIN t : t[i] = u

\* A log entry, push or mail is written before its job completes, once, and once
\* more at most for each time its worker died: never by an attempt that follows a
\* failed one. A job is given up only after three attempts or a second stall (the
\* workers of src/workers, and the attempts their queues are given).
LoggedOnce == \A j \in Jobs :
  /\ job[j].runs <= 1 + job[j].stalls
  /\ job[j].at = "done" => job[j].runs > 0
  /\ job[j].at = "failed" => job[j].tries = Attempts \/ job[j].stalls > MaxStalls

\* Nothing is told, logged or answered of a comment that was not stored first
\* (the order of addComment).
StoredFirst == \A c \in Reqs :
  \/ req[c].code = 201
  \/ \E u \in Users : notes[c][u] > 0
  \/ \E j \in Jobs : j[2] = c /\ job[j].added > 0
  => c \in comment

\* In the end every request is answered and every job settled (addComment, the
\* workers' attempts).
EverythingSettles == <>[]Settled
=============================================================================
