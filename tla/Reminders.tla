----------------------------- MODULE Reminders -----------------------------
(***************************************************************************)
(* Due-date reminders: SchedulerService.checkDueTasks, which scans the     *)
(* tasks every minute and creates reminder rows and queue jobs, and        *)
(* ReminderWorker, which BullMQ calls for each job until it succeeds or    *)
(* its attempts are used up.                                               *)
(*                                                                         *)
(* Time is counted in hours, the unit of the milestones and of the window  *)
(* a scan looks at; many scans fit in one hour.  A scan is not one step:   *)
(* each query, insert and enqueue is an await, a scan may overlap the next *)
(* one, and every process of the deployment runs its own.                  *)
(***************************************************************************)
EXTENDS Integers, Sequences

CONSTANTS
  Tasks,
  Scans,        \* scan runs that may be under way at once
  Workers,      \* worker slots; each processes one job at a time
  Milestones,   \* hours before the due date, in the order the scan tries them
  Versions,     \* the values a task's relevant columns may take
  First,        \* the tasks when the run starts
  Faults,       \* "enqueue", "notify", "scanCrash", "workerCrash"
  MaxNow, MaxReminders, MaxEdits, MaxCrashes    \* bounds of the instance

Attempts == 3      \* attempts: 3 of the job's options
MaxStalls == 1     \* BullMQ's default maxStalledCount

Ids == 1..MaxReminders

Task == [due : Int, open : BOOLEAN, assigned : BOOLEAN, deleted : BOOLEAN]

ASSUME RemindersAssumption ==
  /\ Tasks # {}
  /\ Milestones \in Seq(Nat \ {0}) /\ Milestones # <<>>
  /\ Versions \subseteq Task
  /\ First \in [Tasks -> Versions]
  /\ Faults \subseteq {"enqueue", "notify", "scanCrash", "workerCrash"}
  /\ MaxNow \in Nat /\ MaxReminders \in Nat
  /\ MaxEdits \in Nat /\ MaxCrashes \in Nat

VARIABLES
  now,        \* the clock
  task,       \* the columns of the tasks table a scan reads
  changed,    \* history: when each task last changed
  edits, crashes,  \* how many of the bounded events happened
  reminder,   \* the reminders table, by id
  job,        \* reminder.queue, by the id of the job's reminder
  notified,   \* notifications stored for each reminder
  scan,       \* each scan's place in checkDueTasks
  work,       \* each worker's place in process
  covered     \* a scan that began in this hour has completed

vars == <<now, task, changed, edits, crashes, reminder, job, notified, scan,
          work, covered>>

taskVars == <<task, changed, edits>>

NoRow == [task |-> CHOOSE t \in Tasks : TRUE, due |-> 0]
Off == [at |-> "off", i |-> 1, rows |-> {}, row |-> NoRow, id |-> 0, began |-> 0]
Rest == [at |-> "rest", id |-> 0]
NoJob == [state |-> "none", made |-> 0, stalls |-> 0, milestone |-> 0]

Remaining(t) == task[t].open /\ task[t].assigned /\ ~task[t].deleted

---------------------------------------------------------------------------
Init ==
  /\ now = 0
  /\ task = First
  /\ changed = [t \in Tasks |-> -1]
  /\ edits = 0 /\ crashes = 0
  /\ reminder = <<>>
  /\ job = [id \in Ids |-> NoJob]
  /\ notified = [id \in Ids |-> 0]
  /\ scan = [s \in Scans |-> Off]
  /\ work = [w \in Workers |-> Rest]
  /\ covered = FALSE

---------------------------------------------------------------------------
(* checkDueTasks *)

\* The cron fires; it does not wait for a scan under way.
Begin(s) ==
  /\ scan[s].at = "off"
  /\ scan' = [scan EXCEPT ![s] = [Off EXCEPT !.at = "select", !.began = now]]
  /\ UNCHANGED <<now, taskVars, crashes, reminder, job, notified, work, covered>>

\* (defect) the window is one hour late
InWindowLate(t, h) == task[t].due = now + h - 1

\* The tasks due between now + h - 1 and now + h hours.
InWindow(t, h) == task[t].due \in now + h - 1 .. now + h

Select(s) ==
  /\ scan[s].at = "select"
  /\ scan' = [scan EXCEPT
       ![s].at = "rows",
       ![s].rows = {[task |-> t, due |-> task[t].due] :
                      t \in {x \in Tasks : /\ InWindow(x, Milestones[scan[s].i])
                                           /\ Remaining(x)}}]
  /\ UNCHANGED <<now, taskVars, crashes, reminder, job, notified, work, covered>>

\* (defect) looks for the job instead of the row
RemindedByJob(t, due) ==
  \E id \in DOMAIN reminder : /\ reminder[id].task = t /\ reminder[id].due = due
                              /\ job[id].state # "none"

Reminded(t, due) ==
  \E id \in DOMAIN reminder : reminder[id].task = t /\ reminder[id].due = due

\* Count the reminders of the next row; an existing one, of any milestone and
\* any status, skips the row.
Count(s) ==
  /\ scan[s].at = "rows"
  /\ \E r \in scan[s].rows :
       scan' = IF Reminded(r.task, r.due)
               THEN [scan EXCEPT ![s].rows = @ \ {r}]
               ELSE [scan EXCEPT ![s].rows = @ \ {r}, ![s].at = "save",
                                 ![s].row = r]
  /\ UNCHANGED <<now, taskVars, crashes, reminder, job, notified, work, covered>>

Save(s) ==
  /\ scan[s].at = "save"
  /\ Len(reminder) < MaxReminders
  /\ reminder' = Append(reminder, [task |-> scan[s].row.task,
                                   due |-> scan[s].row.due,
                                   status |-> "PENDING"])
  /\ scan' = [scan EXCEPT ![s].at = "enqueue", ![s].row = NoRow,
                          ![s].id = Len(reminder) + 1]
  /\ UNCHANGED <<now, taskVars, crashes, job, notified, work, covered>>

Enqueue(s) ==
  /\ scan[s].at = "enqueue"
  /\ job' = [job EXCEPT ![scan[s].id] =
               [NoJob EXCEPT !.state = "waiting",
                             !.milestone = Milestones[scan[s].i]]]
  /\ scan' = [scan EXCEPT ![s].at = "rows", ![s].id = 0]
  /\ UNCHANGED <<now, taskVars, crashes, reminder, notified, work, covered>>

\* queue.add rejects: the exception ends the whole scan, the row just saved
\* stays PENDING.
EnqueueFails(s) ==
  /\ "enqueue" \in Faults /\ crashes < MaxCrashes
  /\ scan[s].at = "enqueue"
  /\ crashes' = crashes + 1
  /\ scan' = [scan EXCEPT ![s] = Off]
  /\ UNCHANGED <<now, taskVars, reminder, job, notified, work, covered>>

NextMilestone(s) ==
  /\ scan[s].at = "rows" /\ scan[s].rows = {}
  /\ IF scan[s].i < Len(Milestones)
     THEN /\ scan' = [scan EXCEPT ![s].at = "select", ![s].i = @ + 1]
          /\ UNCHANGED covered
     ELSE /\ scan' = [scan EXCEPT ![s] = Off]
          /\ covered' = (covered \/ scan[s].began = now)
  /\ UNCHANGED <<now, taskVars, crashes, reminder, job, notified, work>>

ScanCrash(s) ==
  /\ "scanCrash" \in Faults /\ crashes < MaxCrashes
  /\ scan[s].at # "off"
  /\ crashes' = crashes + 1
  /\ scan' = [scan EXCEPT ![s] = Off]
  /\ UNCHANGED <<now, taskVars, reminder, job, notified, work, covered>>

---------------------------------------------------------------------------
(* ReminderWorker.process, called by BullMQ *)

Take(w, id) ==
  /\ work[w].at = "rest" /\ job[id].state = "waiting"
  /\ job' = [job EXCEPT ![id].state = "active"]
  /\ work' = [work EXCEPT ![w] = [at |-> "load", id |-> id]]
  /\ UNCHANGED <<now, taskVars, crashes, reminder, notified, scan, covered>>

\* (defects) marks before it notifies; returns when the task is gone
LoadMarksFirst(w) ==
  /\ work[w].at = "load"
  /\ work' = [work EXCEPT ![w].at =
                IF task[reminder[work[w].id].task].deleted THEN "fail" ELSE "sent"]
  /\ UNCHANGED <<now, taskVars, crashes, reminder, job, notified, scan, covered>>

LoadReturns(w) ==
  /\ work[w].at = "load"
  /\ work' = [work EXCEPT ![w].at =
                IF task[reminder[work[w].id].task].deleted THEN "return" ELSE "notify"]
  /\ UNCHANGED <<now, taskVars, crashes, reminder, job, notified, scan, covered>>

\* findOne does not see a soft-deleted task; nothing else is checked.
Load(w) ==
  /\ work[w].at = "load"
  /\ work' = [work EXCEPT ![w].at =
                IF task[reminder[work[w].id].task].deleted THEN "fail"
                ELSE "notify"]
  /\ UNCHANGED <<now, taskVars, crashes, reminder, job, notified, scan, covered>>

\* createAndSendNotification stores the row first; an error before or after
\* that is rethrown.
Notify(w) ==
  LET id == work[w].id
  IN  /\ work[w].at = "notify"
      /\ \/ /\ notified' = [notified EXCEPT ![id] = @ + 1]
            /\ work' = [work EXCEPT ![w].at = "sent"]
         \/ /\ "notify" \in Faults
            /\ notified' \in {notified, [notified EXCEPT ![id] = @ + 1]}
            /\ work' = [work EXCEPT ![w].at = "fail"]
      /\ UNCHANGED <<now, taskVars, crashes, reminder, job, scan, covered>>

MarkSent(w) ==
  /\ work[w].at = "sent"
  /\ reminder' = [reminder EXCEPT ![work[w].id].status = "SENT"]
  /\ work' = [work EXCEPT ![w].at = "return"]
  /\ UNCHANGED <<now, taskVars, crashes, job, notified, scan, covered>>

Complete(w) ==
  /\ work[w].at = "return"
  /\ job' = [job EXCEPT ![work[w].id].state = "completed"]
  /\ work' = [work EXCEPT ![w] = Rest]
  /\ UNCHANGED <<now, taskVars, crashes, reminder, notified, scan, covered>>

\* (defect) rethrows without marking the row
MarkFailedSilently(w) ==
  /\ work[w].at = "fail"
  /\ work' = [work EXCEPT ![w].at = "throw"]
  /\ UNCHANGED <<now, taskVars, crashes, reminder, job, notified, scan, covered>>

MarkFailed(w) ==
  /\ work[w].at = "fail"
  /\ reminder' = [reminder EXCEPT ![work[w].id].status = "FAILED"]
  /\ work' = [work EXCEPT ![w].at = "throw"]
  /\ UNCHANGED <<now, taskVars, crashes, job, notified, scan, covered>>

\* The rethrown error: BullMQ retries the job until its attempts are used.
Retry(w) ==
  LET id == work[w].id
  IN  /\ work[w].at = "throw"
      /\ job' = [job EXCEPT
                   ![id].made = @ + 1,
                   ![id].state = IF job[id].made + 1 < Attempts THEN "waiting"
                                 ELSE "failed"]
      /\ work' = [work EXCEPT ![w] = Rest]
      /\ UNCHANGED <<now, taskVars, crashes, reminder, notified, scan, covered>>

\* A worker dies and its job stalls: BullMQ puts it back, or fails it when it
\* has stalled before.  process is not told.
WorkerCrash(w) ==
  LET id == work[w].id
  IN  /\ "workerCrash" \in Faults /\ crashes < MaxCrashes
      /\ work[w].at # "rest"
      /\ crashes' = crashes + 1
      /\ job' = [job EXCEPT
                   ![id].stalls = @ + 1,
                   ![id].state = IF job[id].stalls < MaxStalls THEN "waiting"
                                 ELSE "failed"]
      /\ work' = [work EXCEPT ![w] = Rest]
      /\ UNCHANGED <<now, taskVars, reminder, notified, scan, covered>>

---------------------------------------------------------------------------
(* Users edit tasks, and time passes *)

Edit(t) ==
  /\ edits < MaxEdits /\ ~task[t].deleted
  /\ \E v \in Versions \ {task[t]} : task' = [task EXCEPT ![t] = v]
  /\ changed' = [changed EXCEPT ![t] = now]
  /\ edits' = edits + 1
  /\ UNCHANGED <<now, crashes, reminder, job, notified, scan, work, covered>>

\* The cron runs every minute and a scan is short: in every hour one begins
\* and completes.
Tick ==
  /\ now < MaxNow /\ covered
  /\ now' = now + 1
  /\ covered' = FALSE
  /\ UNCHANGED <<taskVars, crashes, reminder, job, notified, scan, work>>

\* The bound on time is reached and nothing is under way.
Over == /\ now = MaxNow
        /\ \A s \in Scans : scan[s].at = "off"
        /\ UNCHANGED vars

Scan(s) == \/ Select(s) \/ Count(s) \/ Save(s) \/ Enqueue(s) \/ NextMilestone(s)
Process(w) == \/ \E id \in Ids : Take(w, id)
              \/ Load(w) \/ Notify(w) \/ MarkSent(w) \/ Complete(w)
              \/ MarkFailed(w) \/ Retry(w)

Next ==
  \/ \E s \in Scans : Begin(s) \/ Scan(s) \/ EnqueueFails(s) \/ ScanCrash(s)
  \/ \E w \in Workers : Process(w) \/ WorkerCrash(w)
  \/ \E t \in Tasks : Edit(t)
  \/ Tick
  \/ Over

\* Awaits settle, so a scan and a worker go on; a worker process runs
\* and takes waiting jobs.
Fairness == /\ \A s \in Scans : WF_vars(Scan(s))
            /\ \A w \in Workers : WF_vars(Process(w))

Spec == Init /\ [][Next]_vars
FairSpec == Spec /\ Fairness

---------------------------------------------------------------------------
(* Properties *)

DueRow == [task : Tasks, due : Int]

\* Types: the table, the queue and the places of scans and workers.
TypeOK ==
  /\ now \in 0..MaxNow /\ task \in [Tasks -> Versions]
  /\ changed \in [Tasks -> -1..MaxNow]
  /\ edits \in 0..MaxEdits /\ crashes \in 0..MaxCrashes
  /\ reminder \in Seq([task : Tasks, due : Int,
                       status : {"PENDING", "SENT", "FAILED"}])
  /\ job \in [Ids -> [state : {"none", "waiting", "active", "completed", "failed"},
                      made : 0..Attempts, stalls : 0..MaxStalls + 1,
                      milestone : Nat]]
  /\ notified \in [Ids -> Nat]
  /\ scan \in [Scans -> [at : {"off", "select", "rows", "save", "enqueue"},
                         i : 1..Len(Milestones), rows : SUBSET DueRow, row : DueRow,
                         id : 0..MaxReminders, began : Nat]]
  /\ work \in [Workers -> [at : {"rest", "load", "notify", "sent", "return",
                                 "fail", "throw"},
                           id : 0..MaxReminders]]
  /\ covered \in BOOLEAN

\* A due date of a task gets at most one reminder, so at most one job.
OneReminderPerDue ==
  \A a, b \in DOMAIN reminder :
    reminder[a].task = reminder[b].task /\ reminder[a].due = reminder[b].due
      => a = b

\* A SENT reminder was delivered; retries and stalls never deliver one more
\* often than BullMQ may run its job; every failed run used up an attempt.
DeliveryBounded ==
  \A id \in DOMAIN reminder :
    /\ reminder[id].status = "SENT" => notified[id] > 0
    /\ notified[id] <= Attempts + MaxStalls
    /\ job[id].state = "completed" => notified[id] > 0
    /\ job[id].state = "failed" =>
         job[id].made = Attempts \/ job[id].stalls > MaxStalls

\* The worker's last word on a job that finished without a crash is the row's
\* status: SENT when it completed, FAILED when its attempts were used up.
StatusMatchesJob ==
  \A id \in DOMAIN reminder : job[id].stalls = 0 =>
    /\ job[id].state = "completed" => reminder[id].status = "SENT"
    /\ job[id].state = "failed" => reminder[id].status = "FAILED"
    /\ job[id].state = "none" => reminder[id].status = "PENDING"

\* The time when milestone h of t's due date was to be noticed has passed, and
\* t has been due, open and assigned all along.
Noticeable(t, h) ==
  /\ Remaining(t)
  /\ now > task[t].due - h
  /\ task[t].due - h >= 0
  /\ changed[t] < task[t].due - h

\* A task that stayed open and assigned since before one of its milestones
\* has a reminder for its due date once the milestone is past.
RemindedInTime ==
  \A t \in Tasks : \A i \in DOMAIN Milestones :
    Noticeable(t, Milestones[i]) => Reminded(t, task[t].due)

\* A reminder whose job was enqueued is settled, SENT or FAILED, if its job
\* does not stall more often than BullMQ forgives.
Settled(id) == /\ id \in DOMAIN reminder
               /\ reminder[id].status # "PENDING" \/ job[id].stalls > MaxStalls

EveryReminderSettles == \A id \in Ids : job[id].state # "none" ~> Settled(id)

---------------------------------------------------------------------------
(* The inductive invariant behind DeliveryBounded and StatusMatchesJob: a   *)
(* job is run at most once more than it was put back, by one worker at a    *)
(* time, and each run notifies at most once.                                *)

\* A job that may still run has attempts and stalls left; one that is over
\* has notified at most once per run.
JobSound(id) ==
  /\ job[id].state = "none" =>
       job[id].made = 0 /\ job[id].stalls = 0 /\ notified[id] = 0
  /\ job[id].state \in {"waiting", "active", "completed"} =>
       job[id].made < Attempts /\ job[id].stalls <= MaxStalls
  /\ job[id].state = "failed" =>
       \/ job[id].made = Attempts /\ job[id].stalls <= MaxStalls
       \/ job[id].made < Attempts /\ job[id].stalls = MaxStalls + 1
  /\ notified[id] <= job[id].made + job[id].stalls +
                     (IF job[id].state \in {"active", "completed"} THEN 1 ELSE 0)
  /\ job[id].state = "completed" => notified[id] > 0

\* A worker's job is active and no other worker's; before it notifies it has
\* not, and where it is tells the status of the row.
WorkSound(w) == work[w].at # "rest" =>
  LET id == work[w].id
  IN  /\ id \in Ids /\ job[id].state = "active"
      /\ \A v \in Workers : work[v].at # "rest" /\ work[v].id = id => v = w
      /\ work[w].at \in {"load", "notify"} =>
           notified[id] <= job[id].made + job[id].stalls
      /\ work[w].at \in {"sent", "return"} => notified[id] > 0
      /\ work[w].at = "return" => reminder[id].status = "SENT"
      /\ work[w].at = "throw" => reminder[id].status = "FAILED"

\* What has a job is in the table; a scan enqueues its own, new reminder.
ScanSound ==
  /\ Len(reminder) <= MaxReminders
  /\ \A id \in Ids : job[id].state # "none" => id <= Len(reminder)
  /\ \A s \in Scans : scan[s].at = "enqueue" =>
       /\ scan[s].id \in 1..Len(reminder) /\ job[scan[s].id].state = "none"
       /\ \A r \in Scans : scan[r].at = "enqueue" /\ scan[r].id = scan[s].id => r = s

IInv == /\ TypeOK /\ ScanSound
        /\ \A id \in Ids : JobSound(id)
        /\ \A w \in Workers : WorkSound(w)
        /\ DeliveryBounded /\ StatusMatchesJob

\* With one scan at a time, what it is about to save has no reminder yet.
SaveFresh == \A s \in Scans :
  scan[s].at = "save" => ~Reminded(scan[s].row.task, scan[s].row.due)

(* The inductive invariant behind RemindedInTime *)

\* This is the hour to notice milestone h of t, which has not changed in it.
DueNow(t, h) == Remaining(t) /\ task[t].due = now + h /\ changed[t] < now

\* Scan s has the row of t's due date yet to do.
InHand(s, t) == LET r == [task |-> t, due |-> task[t].due]
                IN  r \in scan[s].rows \/ (scan[s].at = "save" /\ scan[s].row = r)

\* A scan of this hour has reminded of what it has passed; what its SELECT found
\* has a reminder or is still in its hands.
MissesNothing(s) == scan[s].at # "off" =>
  /\ scan[s].began <= now
  /\ scan[s].began = now =>
       \A t \in Tasks : \A i \in DOMAIN Milestones : DueNow(t, Milestones[i]) =>
         /\ i < scan[s].i => Reminded(t, task[t].due)
         /\ i = scan[s].i /\ scan[s].at # "select" =>
              Reminded(t, task[t].due) \/ InHand(s, t)

\* So when a scan of this hour has completed nothing of this hour is missed.
HourMissesNothing == covered =>
  \A t \in Tasks : \A i \in DOMAIN Milestones :
    DueNow(t, Milestones[i]) => Reminded(t, task[t].due)

NoticeInv == /\ \A s \in Scans : MissesNothing(s)
             /\ HourMissesNothing /\ RemindedInTime
=============================================================================
