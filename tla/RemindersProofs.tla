--------------------------- MODULE RemindersProofs ---------------------------
(***************************************************************************)
(* Proofs, for any number of tasks, scans, workers, milestones and faults, *)
(* that a reminder is delivered a bounded number of times and that its row *)
(* tells how its job ended; and, for one scan at a time, that a due date   *)
(* gets one reminder.                                                      *)
(***************************************************************************)
EXTENDS Reminders, SequenceTheorems, TLAPS

ReminderRow == [task : Tasks, due : Int, status : {"PENDING", "SENT", "FAILED"}]
JobRow == [state : {"none", "waiting", "active", "completed", "failed"},
           made : 0..Attempts, stalls : 0..MaxStalls + 1, milestone : Nat]

---------------------------------------------------------------------------
(* What a step does to the reminders table *)

\* Marking a row keeps the table's length and every other column.
LEMMA Marked ==
  ASSUME TypeOK, NEW id \in 1..Len(reminder),
         NEW st \in {"PENDING", "SENT", "FAILED"},
         reminder' = [reminder EXCEPT ![id].status = st]
  PROVE  /\ reminder' \in Seq(ReminderRow)
         /\ Len(reminder') = Len(reminder) /\ DOMAIN reminder' = DOMAIN reminder
         /\ \A i \in 1..Len(reminder) :
              /\ reminder'[i].task = reminder[i].task
              /\ reminder'[i].due = reminder[i].due
              /\ reminder'[i].status = IF i = id THEN st ELSE reminder[i].status
              /\ i # id => reminder'[i] = reminder[i]
<1> DEFINE row == [reminder[id] EXCEPT !.status = st]
<1>1. reminder \in Seq(ReminderRow)
  BY DEF TypeOK, ReminderRow
<1>2. \A i \in 1..Len(reminder) : reminder[i] \in ReminderRow
  BY <1>1, ElementOfSeq
<1>3. row \in ReminderRow /\ row.task = reminder[id].task
      /\ row.due = reminder[id].due /\ row.status = st
  BY <1>2 DEF ReminderRow
<1>4. reminder' = [reminder EXCEPT ![id] = row]
  BY <1>1
<1> HIDE DEF row
<1>5. /\ reminder' \in Seq(ReminderRow) /\ Len(reminder') = Len(reminder)
      /\ \A i \in 1..Len(reminder) : reminder'[i] = IF i = id THEN row ELSE reminder[i]
  BY <1>1, <1>3, <1>4, ExceptSeq
<1>6. DOMAIN reminder' = DOMAIN reminder
  BY <1>1, <1>4, LenProperties
<1>7. QED
  BY <1>3, <1>5, <1>6

\* Saving appends one PENDING row and keeps the others.
LEMMA Saved ==
  ASSUME TypeOK, NEW t \in Tasks, NEW d \in Int,
         reminder' = Append(reminder, [task |-> t, due |-> d, status |-> "PENDING"])
  PROVE  /\ reminder' \in Seq(ReminderRow)
         /\ Len(reminder') = Len(reminder) + 1
         /\ DOMAIN reminder = 1..Len(reminder)
         /\ DOMAIN reminder' = 1..(Len(reminder) + 1)
         /\ \A i \in 1..Len(reminder) : reminder'[i] = reminder[i]
         /\ reminder'[Len(reminder) + 1] = [task |-> t, due |-> d, status |-> "PENDING"]
<1> DEFINE row == [task |-> t, due |-> d, status |-> "PENDING"]
<1>1. reminder \in Seq(ReminderRow) /\ row \in ReminderRow
  BY DEF TypeOK, ReminderRow
<1>2. reminder' = Append(reminder, row)
  OBVIOUS
<1> HIDE DEF row
<1>3. /\ reminder' \in Seq(ReminderRow) /\ Len(reminder') = Len(reminder) + 1
      /\ \A i \in 1..Len(reminder) : reminder'[i] = reminder[i]
      /\ reminder'[Len(reminder) + 1] = row
  BY <1>1, <1>2, AppendProperties
<1>4. QED
  BY <1>1, <1>3, LenProperties DEF row

\* The invariant in terms of the ids of the table.
LEMMA TableDomain ==
  ASSUME TypeOK
  PROVE  DOMAIN reminder = 1..Len(reminder) /\ Len(reminder) \in Nat
BY LenProperties DEF TypeOK

---------------------------------------------------------------------------
(* The initial states *)

\* The invariant holds initially.
LEMMA InitIInv == Init => IInv
<1> SUFFICES ASSUME Init PROVE IInv
  OBVIOUS
<1>1. 1 \in 1..Len(Milestones)
  <2>1. Len(Milestones) \in Nat /\ Len(Milestones) # 0
    BY RemindersAssumption, LenProperties, EmptySeq
  <2>2. QED
    BY <2>1
<1>2. NoRow \in DueRow
  BY RemindersAssumption DEF NoRow, DueRow
<1>3. Off \in [at : {"off", "select", "rows", "save", "enqueue"},
               i : 1..Len(Milestones), rows : SUBSET DueRow, row : DueRow,
               id : 0..MaxReminders, began : Nat]
  BY <1>1, <1>2, RemindersAssumption DEF Off
<1>4. /\ reminder \in Seq(ReminderRow) /\ Len(reminder) = 0 /\ DOMAIN reminder = {}
  BY EmptySeq, LenProperties DEF Init
<1>5. TypeOK
  <2>1. /\ now \in 0..MaxNow /\ task \in [Tasks -> Versions]
        /\ edits \in 0..MaxEdits /\ crashes \in 0..MaxCrashes
        /\ changed \in [Tasks -> -1..MaxNow]
    BY RemindersAssumption DEF Init
  <2>7. covered \in BOOLEAN
    BY Zenon DEF Init
  <2>2. NoJob \in JobRow
    BY DEF NoJob, JobRow, Attempts, MaxStalls
  <2>3. job \in [Ids -> JobRow] /\ notified \in [Ids -> Nat]
    BY <2>2 DEF Init
  <2>4. scan \in [Scans -> [at : {"off", "select", "rows", "save", "enqueue"},
                            i : 1..Len(Milestones), rows : SUBSET DueRow,
                            row : DueRow, id : 0..MaxReminders, began : Nat]]
    BY <1>3 DEF Init
  <2>5. work \in [Workers -> [at : {"rest", "load", "notify", "sent", "return",
                                    "fail", "throw"}, id : 0..MaxReminders]]
    BY RemindersAssumption DEF Init, Rest
  <2>6. QED
    BY <1>4, <2>1, <2>3, <2>4, <2>5, <2>7 DEF TypeOK, ReminderRow, JobRow
<1>6. ScanSound
  BY <1>4, RemindersAssumption DEF Init, ScanSound, NoJob, Off
<1>7. \A id \in Ids : JobSound(id)
  BY DEF Init, JobSound, NoJob, Attempts, MaxStalls
<1>8. \A w \in Workers : WorkSound(w)
  BY DEF Init, WorkSound, Rest
<1>9. DeliveryBounded /\ StatusMatchesJob
  BY <1>4 DEF DeliveryBounded, StatusMatchesJob
<1>10. QED
  BY <1>5, <1>6, <1>7, <1>8, <1>9 DEF IInv

---------------------------------------------------------------------------
(* Steps that touch neither the table nor the queue nor a worker *)

\* Such a step only has to keep the types and what scans hold.
LEMMA Frame ==
  ASSUME IInv, UNCHANGED <<reminder, job, notified, work>>, TypeOK', ScanSound'
  PROVE  IInv'
<1>1. \A id \in Ids : JobSound(id)'
  BY DEF IInv, JobSound
<1>2. \A w \in Workers : WorkSound(w)'
  BY DEF IInv, WorkSound
<1>3. DeliveryBounded' /\ StatusMatchesJob'
  BY DEF IInv, DeliveryBounded, StatusMatchesJob
<1>4. QED
  BY <1>1, <1>2, <1>3 DEF IInv

\* What scans hold survives a step that puts none of them at "enqueue".
LEMMA ScanFrame ==
  ASSUME IInv, UNCHANGED <<reminder, job>>,
         \A s \in Scans : scan'[s].at = "enqueue" =>
           scan[s].at = "enqueue" /\ scan'[s].id = scan[s].id
  PROVE  ScanSound'
BY DEF IInv, ScanSound

\* A due date is an hour, so a scan's rows are.
LEMMA DueHours ==
  ASSUME TypeOK, NEW t \in Tasks
  PROVE  task[t].due \in Int
BY RemindersAssumption DEF TypeOK, Task

\* Beginning, reading, skipping, moving on and dying keep the invariant.
LEMMA ScanReads ==
  ASSUME IInv, NEW s \in Scans,
         \/ Begin(s) \/ Select(s) \/ Count(s) \/ NextMilestone(s)
         \/ EnqueueFails(s) \/ ScanCrash(s)
  PROVE  IInv'
<1> DEFINE Place == [at : {"off", "select", "rows", "save", "enqueue"},
                     i : 1..Len(Milestones), rows : SUBSET DueRow, row : DueRow,
                     id : 0..MaxReminders, began : Nat]
<1>1. TypeOK /\ ScanSound
  BY DEF IInv
<1>2. scan \in [Scans -> Place] /\ NoRow \in DueRow /\ now \in Nat
      /\ Len(Milestones) \in Nat /\ 1 \in 1..Len(Milestones)
  <2>1. Len(Milestones) \in Nat /\ Len(Milestones) # 0
    BY RemindersAssumption, LenProperties, EmptySeq
  <2>2. NoRow \in DueRow
    BY RemindersAssumption DEF NoRow, DueRow
  <2>3. QED
    BY <1>1, <2>1, <2>2, RemindersAssumption DEF TypeOK
<1>3. Off \in Place
  BY <1>2, RemindersAssumption DEF Off
<1>4. /\ scan' \in [Scans -> Place]
      /\ \A r \in Scans : scan'[r].at = "enqueue" =>
           scan[r].at = "enqueue" /\ scan'[r].id = scan[r].id
  <2>1. CASE Begin(s)
    <3>1. [Off EXCEPT !.at = "select", !.began = now] \in Place
      BY <1>2, <1>3
    <3>2. scan' = [scan EXCEPT ![s] = [Off EXCEPT !.at = "select", !.began = now]]
      BY <2>1 DEF Begin
    <3>3. [Off EXCEPT !.at = "select", !.began = now].at = "select"
      BY DEF Off
    <3> HIDE DEF Place
    <3>4. QED
      BY <1>2, <3>1, <3>2, <3>3
  <2>2. CASE Select(s)
    <3> DEFINE found == {[task |-> t, due |-> task[t].due] :
                           t \in {x \in Tasks : /\ InWindow(x, Milestones[scan[s].i])
                                                /\ Remaining(x)}}
    <3>1. found \in SUBSET DueRow
      BY <1>1, DueHours DEF DueRow
    <3>2. scan' = [scan EXCEPT ![s].at = "rows", ![s].rows = found]
      BY <2>2 DEF Select
    <3> HIDE DEF found
    <3>3. QED
      BY <1>2, <3>1, <3>2
  <2>3. CASE Count(s)
    <3>1. PICK r \in scan[s].rows :
            scan' = IF Reminded(r.task, r.due)
                    THEN [scan EXCEPT ![s].rows = @ \ {r}]
                    ELSE [scan EXCEPT ![s].rows = @ \ {r}, ![s].at = "save",
                                      ![s].row = r]
      BY <2>3 DEF Count
    <3> DEFINE rest == [scan[s] EXCEPT !.rows = @ \ {r}]
               hit == [scan[s] EXCEPT !.rows = @ \ {r}, !.at = "save", !.row = r]
    <3>2. r \in DueRow /\ scan[s].at = "rows" /\ scan[s] \in Place
      BY <1>2, <2>3 DEF Count
    <3>3. /\ rest \in Place /\ rest.at = "rows"
          /\ hit \in Place /\ hit.at = "save"
      BY <3>2
    <3>4. scan' = [scan EXCEPT ![s] = rest] \/ scan' = [scan EXCEPT ![s] = hit]
      <4>1. CASE Reminded(r.task, r.due)
        BY <3>1, <4>1
      <4>2. CASE ~Reminded(r.task, r.due)
        <5>1. scan' = [scan EXCEPT ![s].rows = @ \ {r}, ![s].at = "save",
                                   ![s].row = r]
          BY <3>1, <4>2
        <5>2. QED
          BY <1>2, <5>1
      <4>3. QED
        BY <4>1, <4>2
    <3> HIDE DEF Place, rest, hit
    <3>5. QED
      BY <1>2, <3>3, <3>4
  <2>4. CASE NextMilestone(s)
    <3>1. CASE scan[s].i < Len(Milestones)
      <4>1. scan' = [scan EXCEPT ![s].at = "select", ![s].i = @ + 1]
        BY <2>4, <3>1 DEF NextMilestone
      <4>2. scan[s].i + 1 \in 1..Len(Milestones)
        BY <1>2, <3>1
      <4>3. QED
        BY <1>2, <4>1, <4>2
    <3>2. CASE ~(scan[s].i < Len(Milestones))
      <4>1. scan' = [scan EXCEPT ![s] = Off] /\ Off.at = "off"
        BY <2>4, <3>2 DEF NextMilestone, Off
      <4> HIDE DEF Place
      <4>2. QED
        BY <1>2, <1>3, <4>1
    <3>3. QED
      BY <3>1, <3>2
  <2>5. CASE EnqueueFails(s) \/ ScanCrash(s)
    <3>1. scan' = [scan EXCEPT ![s] = Off] /\ Off.at = "off"
      BY <2>5 DEF EnqueueFails, ScanCrash, Off
    <3> HIDE DEF Place
    <3>2. QED
      BY <1>2, <1>3, <3>1
  <2>6. QED
    BY <2>1, <2>2, <2>3, <2>4, <2>5
<1>5. UNCHANGED <<now, task, changed, edits, reminder, job, notified, work>>
  BY DEF Begin, Select, Count, NextMilestone, EnqueueFails, ScanCrash, taskVars
<1>6. crashes' \in 0..MaxCrashes
  <2>1. crashes' = crashes \/ (crashes < MaxCrashes /\ crashes' = crashes + 1)
    BY DEF Begin, Select, Count, NextMilestone, EnqueueFails, ScanCrash
  <2>2. QED
    BY <1>1, <2>1, RemindersAssumption DEF TypeOK
<1>7. covered' \in BOOLEAN
  <2>1. CASE NextMilestone(s)
    <3>1. UNCHANGED covered \/ covered' = (covered \/ scan[s].began = now)
      BY <2>1, Zenon DEF NextMilestone
    <3>2. QED
      BY <1>1, <3>1, Zenon DEF TypeOK
  <2>2. CASE UNCHANGED covered
    BY <1>1, <2>2 DEF TypeOK
  <2>3. QED
    BY <2>1, <2>2 DEF Begin, Select, Count, EnqueueFails, ScanCrash
<1>8. TypeOK'
  BY <1>1, <1>4, <1>5, <1>6, <1>7 DEF TypeOK
<1>9. ScanSound'
  BY <1>4, <1>5, ScanFrame
<1>10. QED
  BY <1>5, <1>8, <1>9, Frame

\* Edits and the clock keep the invariant.
LEMMA Outside ==
  ASSUME IInv, (\E t \in Tasks : Edit(t)) \/ Tick \/ Over
  PROVE  IInv'
<1>1. TypeOK
  BY DEF IInv
<1>2. UNCHANGED <<crashes, reminder, job, notified, scan, work>>
  BY DEF Edit, Tick, Over, vars
<1>3. /\ now' \in 0..MaxNow /\ task' \in [Tasks -> Versions]
      /\ changed' \in [Tasks -> -1..MaxNow] /\ edits' \in 0..MaxEdits
  <2>1. CASE \E t \in Tasks : Edit(t)
    BY <1>1, <2>1, RemindersAssumption DEF TypeOK, Edit
  <2>2. CASE Tick
    BY <1>1, <2>2, RemindersAssumption DEF TypeOK, Tick, taskVars
  <2>3. CASE Over
    BY <1>1, <2>3 DEF TypeOK, Over, vars
  <2>4. QED
    BY <2>1, <2>2, <2>3
<1>4. covered' \in BOOLEAN
  BY <1>1, Zenon DEF TypeOK, Edit, Tick, Over, vars
<1>5. TypeOK'
  BY <1>1, <1>2, <1>3, <1>4 DEF TypeOK
<1>6. ScanSound'
  BY <1>2, ScanFrame
<1>7. QED
  BY <1>2, <1>5, <1>6, Frame

---------------------------------------------------------------------------
(* Steps of a scan that write *)

\* The row a scan is about to save is one it found.
LEMMA ScanPlace ==
  ASSUME TypeOK, NEW s \in Scans
  PROVE  /\ scan[s].row.task \in Tasks /\ scan[s].row.due \in Int
         /\ scan[s].i \in 1..Len(Milestones)
         /\ NoRow \in DueRow /\ Len(Milestones) \in Nat
         /\ Milestones[scan[s].i] \in Nat
<1>1. NoRow \in DueRow
  BY RemindersAssumption DEF NoRow, DueRow
<1>2. Len(Milestones) \in Nat
  BY RemindersAssumption, LenProperties
<1>3. scan[s].row \in DueRow /\ scan[s].i \in 1..Len(Milestones)
  BY DEF TypeOK
<1>4. Milestones[scan[s].i] \in Nat \ {0}
  BY <1>3, RemindersAssumption, ElementOfSeq
<1>5. QED
  BY <1>1, <1>2, <1>3, <1>4 DEF DueRow

\* What JobSound says of the bounds of DeliveryBounded.
LEMMA Bounds ==
  ASSUME NEW j \in JobRow, NEW n \in Nat,
         j.state = "none" => j.made = 0 /\ j.stalls = 0 /\ n = 0,
         j.state \in {"waiting", "active", "completed"} =>
           j.made < Attempts /\ j.stalls <= MaxStalls,
         j.state = "failed" =>
           \/ j.made = Attempts /\ j.stalls <= MaxStalls
           \/ j.made < Attempts /\ j.stalls = MaxStalls + 1,
         n <= j.made + j.stalls +
              (IF j.state \in {"active", "completed"} THEN 1 ELSE 0)
  PROVE  /\ n <= Attempts + MaxStalls
         /\ j.state = "failed" => j.made = Attempts \/ j.stalls > MaxStalls
BY DEF JobRow, Attempts, MaxStalls

\* Saving a row keeps the invariant: its id has no job yet.
LEMMA SaveKeeps ==
  ASSUME IInv, NEW s \in Scans, Save(s)
  PROVE  IInv'
<1> DEFINE n == Len(reminder) + 1
<1>1. TypeOK /\ ScanSound
  BY DEF IInv
<1>2. /\ reminder' \in Seq(ReminderRow) /\ Len(reminder') = n
      /\ DOMAIN reminder = 1..Len(reminder) /\ DOMAIN reminder' = 1..n
      /\ \A i \in 1..Len(reminder) : reminder'[i] = reminder[i]
      /\ reminder'[n].status = "PENDING"
  BY <1>1, ScanPlace, Saved DEF Save
<1>3. Len(reminder) \in Nat /\ n \in Ids
  BY <1>1, TableDomain, RemindersAssumption DEF Save, Ids
<1>4. UNCHANGED <<now, task, changed, edits, crashes, job, notified, work, covered>>
  BY DEF Save, taskVars
<1>5. job[n].state = "none"
  BY <1>1, <1>3 DEF ScanSound
<1>6. TypeOK'
  <2>1. n \in 0..MaxReminders
    BY <1>3, RemindersAssumption DEF Ids
  <2> DEFINE Place == [at : {"off", "select", "rows", "save", "enqueue"},
                       i : 1..Len(Milestones), rows : SUBSET DueRow,
                       row : DueRow, id : 0..MaxReminders, began : Nat]
             place == [scan[s] EXCEPT !.at = "enqueue", !.row = NoRow, !.id = n]
  <2> HIDE DEF n
  <2>2. scan[s] \in Place /\ scan \in [Scans -> Place] /\ NoRow \in DueRow
    BY <1>1, ScanPlace DEF TypeOK
  <2>5. place \in Place
    BY <2>1, <2>2
  <2>6. scan' = [scan EXCEPT ![s] = place]
    BY <2>2 DEF Save, n
  <2>3. scan' \in [Scans -> Place]
    <3> HIDE DEF Place, place
    <3>1. QED
      BY <2>2, <2>5, <2>6
  <2>4. QED
    BY <1>1, <1>2, <1>4, <2>3 DEF TypeOK, ReminderRow
<1>7. ScanSound'
  <2>1. /\ scan'[s].at = "enqueue" /\ scan'[s].id = n
        /\ \A r \in Scans : r # s => scan'[r] = scan[r]
    BY <1>1 DEF Save, TypeOK
  <2> HIDE DEF n
  <2>2. \A r \in Scans : r # s /\ scan'[r].at = "enqueue" =>
          scan[r].id \in 1..Len(reminder) /\ scan'[r].id = scan[r].id
    BY <1>1, <2>1 DEF ScanSound
  <2>3. \A r \in Scans : r # s /\ scan'[r].at = "enqueue" => scan'[r].id # n
    BY <1>3, <2>2 DEF n
  <2>4. Len(reminder') <= MaxReminders
    BY <1>2, <1>3 DEF Ids
  <2>5. \A id \in Ids : job'[id].state # "none" => id <= Len(reminder')
    BY <1>1, <1>2, <1>3, <1>4 DEF ScanSound, n, Ids
  <2>6. ASSUME NEW r \in Scans, scan'[r].at = "enqueue"
        PROVE  /\ scan'[r].id \in 1..n /\ job'[scan'[r].id].state = "none"
               /\ \A q \in Scans : scan'[q].at = "enqueue" /\ scan'[q].id = scan'[r].id
                    => q = r
    <3>1. CASE r = s
      BY <1>3, <1>4, <1>5, <2>1, <2>3, <3>1 DEF n
    <3>2. CASE r # s
      BY <1>1, <1>3, <1>4, <2>1, <2>2, <2>3, <2>6, <3>2 DEF ScanSound, n
    <3>3. QED
      BY <3>1, <3>2
  <2>7. QED
    BY <1>2, <2>4, <2>5, <2>6 DEF ScanSound
<1>8. \A id \in Ids : JobSound(id)'
  BY <1>4 DEF IInv, JobSound
<1>9. \A w \in Workers : WorkSound(w)'
  <2>1. \A id \in Ids : job[id].state = "active" => reminder'[id] = reminder[id]
    BY <1>1, <1>2, <1>3 DEF ScanSound, Ids
  <2>2. QED
    BY <1>4, <2>1 DEF IInv, WorkSound
<1>10. DeliveryBounded' /\ StatusMatchesJob'
  <2>1. JobSound(n)
    BY <1>3 DEF IInv
  <2>2. notified[n] = 0
    BY <1>5, <2>1 DEF JobSound
  <2>3. \A i \in DOMAIN reminder' : i = n \/ i \in DOMAIN reminder
    BY <1>2, <1>3
  <2> HIDE DEF n
  <2>4. DeliveryBounded'
    BY <1>2, <1>4, <1>5, <2>2, <2>3 DEF IInv, DeliveryBounded, Attempts, MaxStalls
  <2>5. StatusMatchesJob'
    BY <1>2, <1>4, <1>5, <2>3, Zenon DEF IInv, StatusMatchesJob
  <2>6. QED
    BY <2>4, <2>5
<1>11. QED
  BY <1>6, <1>7, <1>8, <1>9, <1>10 DEF IInv

\* Enqueuing a job keeps the invariant: the row had none.
LEMMA EnqueueKeeps ==
  ASSUME IInv, NEW s \in Scans, Enqueue(s)
  PROVE  IInv'
<1> DEFINE n == scan[s].id
           new == [NoJob EXCEPT !.state = "waiting",
                                !.milestone = Milestones[scan[s].i]]
<1>1. TypeOK /\ ScanSound
  BY DEF IInv
<1>2. /\ n \in 1..Len(reminder) /\ n \in Ids /\ job[n].state = "none"
      /\ \A r \in Scans : scan[r].at = "enqueue" /\ scan[r].id = n => r = s
  BY <1>1, TableDomain, RemindersAssumption DEF Enqueue, ScanSound, Ids
<1>3. UNCHANGED <<now, task, changed, edits, crashes, reminder, notified, work, covered>>
  BY DEF Enqueue, taskVars
<1>4. /\ new \in JobRow /\ new.state = "waiting" /\ new.made = 0 /\ new.stalls = 0
  <2>1. Milestones[scan[s].i] \in Nat
    BY <1>1, ScanPlace
  <2>2. NoJob \in JobRow /\ NoJob.made = 0 /\ NoJob.stalls = 0
    BY DEF NoJob, JobRow, Attempts, MaxStalls
  <2>3. QED
    BY <2>1, <2>2 DEF JobRow
<1>5. job' = [job EXCEPT ![n] = new]
  BY DEF Enqueue
<1>6. scan' = [scan EXCEPT ![s].at = "rows", ![s].id = 0]
  BY DEF Enqueue
<1> HIDE DEF n, new
<1>7. job \in [Ids -> JobRow]
  BY <1>1 DEF TypeOK, JobRow
<1>8. /\ job'[n] = new /\ \A i \in Ids : i # n => job'[i] = job[i]
      /\ job' \in [Ids -> JobRow]
  BY <1>2, <1>4, <1>5, <1>7
<1>9. TypeOK'
  <2> DEFINE Place == [at : {"off", "select", "rows", "save", "enqueue"},
                       i : 1..Len(Milestones), rows : SUBSET DueRow,
                       row : DueRow, id : 0..MaxReminders, began : Nat]
             place == [scan[s] EXCEPT !.at = "rows", !.id = 0]
  <2>3. scan[s] \in Place /\ scan \in [Scans -> Place] /\ 0 \in 0..MaxReminders
    BY <1>1, RemindersAssumption DEF TypeOK
  <2>4. place \in Place
    BY <2>3
  <2>5. scan' = [scan EXCEPT ![s] = place]
    BY <1>6, <2>3
  <2>1. scan' \in [Scans -> Place]
    <3> HIDE DEF Place, place
    <3>1. QED
      BY <2>3, <2>4, <2>5
  <2>2. QED
    BY <1>1, <1>3, <1>8, <2>1 DEF TypeOK, JobRow
<1>10. ScanSound'
  <2>1. /\ scan'[s].at = "rows"
        /\ \A r \in Scans : r # s => scan'[r] = scan[r]
    BY <1>1, <1>6 DEF TypeOK
  <2>2. \A i \in Ids : job'[i].state # "none" => i <= Len(reminder)
    BY <1>1, <1>2, <1>8, TableDomain DEF ScanSound
  <2>3. ASSUME NEW r \in Scans, scan'[r].at = "enqueue"
        PROVE  /\ scan'[r].id \in 1..Len(reminder) /\ job'[scan'[r].id].state = "none"
               /\ \A q \in Scans : scan'[q].at = "enqueue" /\ scan'[q].id = scan'[r].id
                    => q = r
    <3>1. r # s /\ scan[r].at = "enqueue" /\ scan[r].id # n /\ scan'[r] = scan[r]
      BY <1>2, <2>1, <2>3
    <3>2. scan[r].id \in 1..Len(reminder) /\ scan[r].id \in Ids
      BY <1>1, <3>1, TableDomain, RemindersAssumption DEF ScanSound, Ids
    <3>3. job'[scan[r].id] = job[scan[r].id]
      BY <1>8, <3>1, <3>2
    <3>4. QED
      BY <1>1, <2>1, <3>1, <3>2, <3>3 DEF ScanSound
  <2>4. QED
    BY <1>1, <1>3, <2>2, <2>3 DEF ScanSound
<1>11. ASSUME NEW i \in Ids PROVE JobSound(i)'
  <2>1. JobSound(i) /\ JobSound(n)
    BY <1>2 DEF IInv
  <2>2. CASE i = n
    BY <1>2, <1>3, <1>4, <1>8, <2>1, <2>2 DEF JobSound, Attempts, MaxStalls
  <2>3. CASE i # n
    BY <1>3, <1>8, <2>1, <2>3 DEF JobSound
  <2>4. QED
    BY <2>2, <2>3
<1>12. ASSUME NEW w \in Workers PROVE WorkSound(w)'
  <2>1. CASE work[w].at = "rest"
    BY <1>3, <2>1 DEF WorkSound
  <2>2. CASE work[w].at # "rest"
    <3>1. WorkSound(w) /\ work[w].id \in Ids /\ work[w].id # n
      BY <1>2, <2>2 DEF IInv, WorkSound
    <3>2. job'[work[w].id] = job[work[w].id]
      BY <1>8, <3>1
    <3>3. QED
      BY <1>3, <3>1, <3>2 DEF WorkSound
  <2>3. QED
    BY <2>1, <2>2
<1>13. DeliveryBounded' /\ StatusMatchesJob'
  <2>1. \A i \in DOMAIN reminder : i \in Ids
    BY <1>1, TableDomain, RemindersAssumption DEF ScanSound, Ids
  <2>2. JobSound(n)
    BY <1>2 DEF IInv
  <2>3. DeliveryBounded'
    BY <1>2, <1>3, <1>4, <1>8, <2>1 DEF IInv, DeliveryBounded
  <2>4. ASSUME NEW i \in DOMAIN reminder, job'[i].stalls = 0
        PROVE  /\ job'[i].state = "completed" => reminder[i].status = "SENT"
               /\ job'[i].state = "failed" => reminder[i].status = "FAILED"
               /\ job'[i].state = "none" => reminder[i].status = "PENDING"
    <3>1. CASE i = n
      BY <1>4, <1>8, <3>1
    <3>2. CASE i # n
      BY <1>8, <2>1, <2>4, <3>2 DEF IInv, StatusMatchesJob
    <3>3. QED
      BY <3>1, <3>2
  <2>5. QED
    BY <1>3, <2>3, <2>4 DEF StatusMatchesJob
<1>14. QED
  BY <1>9, <1>10, <1>11, <1>12, <1>13 DEF IInv

---------------------------------------------------------------------------
(* Steps of a worker *)

\* A step of worker w on job id leaves the other jobs, rows and workers
\* alone, so only its own have to be looked at.
LEMMA WorkerFrame ==
  ASSUME IInv, TypeOK', NEW w \in Workers, NEW id \in Ids,
         UNCHANGED scan,
         \A i \in Ids : i # id => job'[i] = job[i] /\ notified'[i] = notified[i],
         \A v \in Workers : v # w =>
           work'[v] = work[v] /\ (work[v].at # "rest" => work[v].id # id),
         work'[w].at # "rest" => work'[w].id = id,
         Len(reminder') = Len(reminder) /\ DOMAIN reminder' = DOMAIN reminder,
         \A i \in 1..Len(reminder) : i # id => reminder'[i] = reminder[i],
         job[id].state # "none" /\ job'[id].state # "none",
         JobSound(id)', WorkSound(w)',
         reminder'[id].status = "SENT" => notified'[id] > 0,
         job'[id].stalls = 0 =>
           /\ job'[id].state = "completed" => reminder'[id].status = "SENT"
           /\ job'[id].state = "failed" => reminder'[id].status = "FAILED"
  PROVE  IInv'
<1>1. TypeOK /\ ScanSound
  BY DEF IInv
<1>2. /\ DOMAIN reminder = 1..Len(reminder) /\ Len(reminder) \in Nat
      /\ \A i \in DOMAIN reminder : i \in Ids
  BY <1>1, TableDomain, RemindersAssumption DEF ScanSound, Ids
<1>3. ScanSound'
  <2>1. Len(reminder') <= MaxReminders
    BY <1>1 DEF ScanSound
  <2>2. \A i \in Ids : job'[i].state # "none" => i <= Len(reminder')
    BY <1>1 DEF ScanSound
  <2>3. ASSUME NEW s \in Scans, scan'[s].at = "enqueue"
        PROVE  /\ scan'[s].id \in 1..Len(reminder')
               /\ job'[scan'[s].id].state = "none"
               /\ \A r \in Scans : scan'[r].at = "enqueue" /\ scan'[r].id = scan'[s].id
                    => r = s
    <3>1. /\ scan[s].id \in 1..Len(reminder) /\ job[scan[s].id].state = "none"
          /\ \A r \in Scans : scan[r].at = "enqueue" /\ scan[r].id = scan[s].id
               => r = s
      BY <1>1, <2>3 DEF ScanSound
    <3>2. scan[s].id # id /\ scan[s].id \in Ids
      BY <1>2, <3>1
    <3>3. job'[scan[s].id] = job[scan[s].id]
      BY <3>2
    <3>4. QED
      BY <3>1, <3>3
  <2>4. QED
    BY <2>1, <2>2, <2>3 DEF ScanSound
<1>4. ASSUME NEW i \in Ids PROVE JobSound(i)'
  <2>1. CASE i = id
    BY <2>1
  <2>2. CASE i # id
    <3>1. JobSound(i)
      BY DEF IInv
    <3>2. QED
      BY <2>2, <3>1 DEF JobSound
  <2>3. QED
    BY <2>1, <2>2
<1>5. ASSUME NEW v \in Workers PROVE WorkSound(v)'
  <2>1. CASE v = w
    BY <2>1
  <2>2. CASE v # w /\ work[v].at = "rest"
    BY <2>2 DEF WorkSound
  <2>3. CASE v # w /\ work[v].at # "rest"
    <3> DEFINE n == work[v].id
    <3>1. /\ WorkSound(v) /\ work'[v] = work[v] /\ n # id
      BY <2>3 DEF IInv
    <3>2. /\ n \in Ids /\ job[n].state = "active" /\ n \in 1..Len(reminder)
      BY <1>1, <1>2, <2>3, <3>1 DEF WorkSound, ScanSound, Ids
    <3>3. /\ job'[n] = job[n] /\ notified'[n] = notified[n]
          /\ reminder'[n] = reminder[n]
      BY <3>1, <3>2
    <3>4. \A u \in Workers : work'[u].at # "rest" /\ work'[u].id = n => u = v
      <4>1. TAKE u \in Workers
      <4>2. CASE u = w
        BY <3>1, <4>2
      <4>3. CASE u # w
        BY <2>3, <3>1, <4>3 DEF WorkSound
      <4>4. QED
        BY <4>2, <4>3
    <3>5. QED
      BY <2>3, <3>1, <3>2, <3>3, <3>4 DEF WorkSound
  <2>4. QED
    BY <2>1, <2>2, <2>3
<1>6. DeliveryBounded'
  <2>1. ASSUME NEW i \in DOMAIN reminder
        PROVE  /\ reminder'[i].status = "SENT" => notified'[i] > 0
               /\ notified'[i] <= Attempts + MaxStalls
               /\ job'[i].state = "completed" => notified'[i] > 0
               /\ job'[i].state = "failed" =>
                    job'[i].made = Attempts \/ job'[i].stalls > MaxStalls
    <3>1. i \in Ids /\ JobSound(i)'
      BY <1>2, <1>4
    <3>2. job'[i] \in JobRow /\ notified'[i] \in Nat
      BY <3>1 DEF TypeOK, JobRow
    <3>3. /\ notified'[i] <= Attempts + MaxStalls
          /\ job'[i].state = "failed" =>
               job'[i].made = Attempts \/ job'[i].stalls > MaxStalls
      BY <3>1, <3>2, Bounds DEF JobSound
    <3>4. reminder'[i].status = "SENT" => notified'[i] > 0
      BY <1>2, <3>1 DEF IInv, DeliveryBounded
    <3>5. QED
      BY <3>1, <3>3, <3>4 DEF JobSound
  <2>2. QED
    BY <2>1 DEF DeliveryBounded
<1>7. StatusMatchesJob'
  <2>1. ASSUME NEW i \in DOMAIN reminder, job'[i].stalls = 0
        PROVE  /\ job'[i].state = "completed" => reminder'[i].status = "SENT"
               /\ job'[i].state = "failed" => reminder'[i].status = "FAILED"
               /\ job'[i].state = "none" => reminder'[i].status = "PENDING"
    <3>1. CASE i = id
      BY <2>1, <3>1
    <3>2. CASE i # id
      BY <1>2, <2>1, <3>2 DEF IInv, StatusMatchesJob
    <3>3. QED
      BY <3>1, <3>2
  <2>2. QED
    BY <2>1 DEF StatusMatchesJob
<1>8. QED
  BY <1>3, <1>4, <1>5, <1>6, <1>7 DEF IInv

\* A worker that is not at rest holds an active job that no other holds.
LEMMA Held ==
  ASSUME IInv, NEW w \in Workers, work[w].at # "rest"
  PROVE  /\ work[w].id \in Ids /\ work[w].id \in 1..Len(reminder)
         /\ job[work[w].id] \in JobRow /\ job[work[w].id].state = "active"
         /\ notified[work[w].id] \in Nat
         /\ \A v \in Workers : v # w =>
              (work[v].at # "rest" => work[v].id # work[w].id)
         /\ JobSound(work[w].id) /\ WorkSound(w)
         /\ reminder[work[w].id].status = "SENT" => notified[work[w].id] > 0
<1>1. TypeOK /\ ScanSound /\ WorkSound(w)
  BY DEF IInv
<1>2. work[w].id \in Ids /\ job[work[w].id].state = "active"
  BY <1>1 DEF WorkSound
<1>3. work[w].id \in 1..Len(reminder)
  BY <1>1, <1>2, TableDomain DEF ScanSound, Ids
<1>4. job[work[w].id] \in JobRow /\ notified[work[w].id] \in Nat
  BY <1>1, <1>2 DEF TypeOK, JobRow
<1>5. reminder[work[w].id].status = "SENT" => notified[work[w].id] > 0
  BY <1>1, <1>3, TableDomain DEF IInv, DeliveryBounded
<1>6. QED
  BY <1>1, <1>2, <1>3, <1>4, <1>5 DEF IInv, WorkSound

\* The types after a step of a worker.
LEMMA WorkerTypes ==
  ASSUME TypeOK, NEW w \in Workers,
         UNCHANGED <<now, taskVars, scan, covered>>,
         crashes' \in 0..MaxCrashes,
         reminder' \in Seq(ReminderRow), job' \in [Ids -> JobRow],
         notified' \in [Ids -> Nat],
         NEW a \in {"rest", "load", "notify", "sent", "return", "fail", "throw"},
         NEW n \in 0..MaxReminders,
         work' = [work EXCEPT ![w] = [at |-> a, id |-> n]]
  PROVE  TypeOK'
<1>1. work' \in [Workers -> [at : {"rest", "load", "notify", "sent", "return",
                                   "fail", "throw"}, id : 0..MaxReminders]]
  BY DEF TypeOK
<1>2. QED
  BY <1>1 DEF TypeOK, ReminderRow, JobRow, taskVars

\* Where a worker is is a record.
LEMMA WorkPlace ==
  ASSUME TypeOK, NEW w \in Workers
  PROVE  /\ work[w] \in [at : {"rest", "load", "notify", "sent", "return",
                               "fail", "throw"}, id : 0..MaxReminders]
         /\ job \in [Ids -> JobRow] /\ reminder \in Seq(ReminderRow)
         /\ notified \in [Ids -> Nat] /\ Workers = DOMAIN work
         /\ crashes \in 0..MaxCrashes /\ 0 \in 0..MaxReminders
BY RemindersAssumption DEF TypeOK, JobRow, ReminderRow

\* Changing only the place a worker is at keeps its job.
LEMMA Moved ==
  ASSUME TypeOK, NEW w \in Workers, NEW a, work' = [work EXCEPT ![w].at = a]
  PROVE  work' = [work EXCEPT ![w] = [at |-> a, id |-> work[w].id]]
<1> DEFINE p == work[w]
<1>1. p \in [at : {"rest", "load", "notify", "sent", "return", "fail", "throw"},
             id : 0..MaxReminders]
  BY WorkPlace
<1>2. [p EXCEPT !.at = a] = [at |-> a, id |-> p.id]
  <2> HIDE DEF p
  <2>1. QED
    BY <1>1
<1>3. QED
  BY <1>2

\* Taking a job keeps the invariant: a waiting job is no worker's.
LEMMA TakeKeeps ==
  ASSUME IInv, NEW w \in Workers, NEW id \in Ids, Take(w, id)
  PROVE  IInv'
<1>1. TypeOK /\ JobSound(id)
  BY DEF IInv
<1>2. /\ UNCHANGED <<now, taskVars, crashes, reminder, notified, scan, covered>>
      /\ job[id].state = "waiting" /\ job[id] \in JobRow
  BY <1>1 DEF Take, TypeOK, JobRow
<1>3. /\ job' = [job EXCEPT ![id] = [job[id] EXCEPT !.state = "active"]]
      /\ work' = [work EXCEPT ![w] = [at |-> "load", id |-> id]]
  BY <1>1, WorkPlace DEF Take
<1> DEFINE new == [job[id] EXCEPT !.state = "active"]
<1>4. /\ new \in JobRow /\ new.state = "active"
      /\ new.made = job[id].made /\ new.stalls = job[id].stalls
  BY <1>2 DEF JobRow
<1> HIDE DEF new
<1>5. /\ job' \in [Ids -> JobRow] /\ job'[id] = new
      /\ \A i \in Ids : i # id => job'[i] = job[i]
  BY <1>1, <1>3, <1>4, WorkPlace DEF new
<1>6. /\ work'[w].at = "load" /\ work'[w].id = id
      /\ \A v \in Workers : v # w => work'[v] = work[v]
  BY <1>1, <1>3, WorkPlace
<1>7. \A v \in Workers : work[v].at # "rest" => work[v].id # id
  BY <1>2 DEF IInv, WorkSound
<1>8. TypeOK'
  <2>1. id \in 0..MaxReminders
    BY RemindersAssumption DEF Ids
  <2>2. QED
    BY <1>1, <1>2, <1>3, <1>5, <2>1, WorkPlace, WorkerTypes
<1>9. notified[id] \in Nat /\ notified[id] <= job[id].made + job[id].stalls
  BY <1>1, <1>2, WorkPlace DEF JobSound, JobRow
<1>10. JobSound(id)'
  BY <1>1, <1>2, <1>4, <1>5, <1>9 DEF JobSound, JobRow
<1>11. WorkSound(w)'
  <2>1. \A v \in Workers : work'[v].at # "rest" /\ work'[v].id = id => v = w
    BY <1>6, <1>7
  <2>2. notified'[id] <= job'[id].made + job'[id].stalls
    BY <1>2, <1>4, <1>5, <1>9
  <2>3. QED
    BY <1>4, <1>5, <1>6, <2>1, <2>2 DEF WorkSound
<1>12. reminder[id].status = "SENT" => notified[id] > 0
  BY <1>1, <1>2, TableDomain DEF IInv, ScanSound, DeliveryBounded, Ids
<1>13. job'[id].state = "active"
  BY <1>4, <1>5
<1>14. QED
  BY <1>2, <1>5, <1>6, <1>7, <1>8, <1>10, <1>11, <1>12, <1>13, WorkerFrame

\* Loading the task keeps the invariant.
LEMMA LoadKeeps ==
  ASSUME IInv, NEW w \in Workers, Load(w)
  PROVE  IInv'
<1>1. TypeOK /\ work[w].at = "load"
  BY DEF IInv, Load
<1>2. UNCHANGED <<now, taskVars, crashes, reminder, job, notified, scan, covered>>
  BY DEF Load
<1>3. PICK id \in Ids : id = work[w].id
  BY <1>1, Held
<1>4. /\ id \in 1..Len(reminder) /\ job[id].state = "active"
      /\ \A v \in Workers : v # w => (work[v].at # "rest" => work[v].id # id)
      /\ JobSound(id) /\ WorkSound(w)
      /\ reminder[id].status = "SENT" => notified[id] > 0
  BY <1>1, <1>3, Held
<1>5. PICK a \in {"fail", "notify"} : work' = [work EXCEPT ![w].at = a]
  BY DEF Load
<1>6. work' = [work EXCEPT ![w] = [at |-> a, id |-> id]]
  BY <1>1, <1>3, <1>5, Moved
<1>7. /\ work'[w].at = a /\ work'[w].id = id
      /\ \A v \in Workers : v # w => work'[v] = work[v]
  BY <1>1, <1>6, WorkPlace
<1>8. TypeOK'
  <2>1. id \in 0..MaxReminders
    BY RemindersAssumption DEF Ids
  <2>2. QED
    BY <1>1, <1>2, <1>6, <2>1, WorkPlace, WorkerTypes
<1>9. JobSound(id)'
  BY <1>2, <1>4 DEF JobSound
<1>10. WorkSound(w)'
  <2>1. \A v \in Workers : work'[v].at # "rest" /\ work'[v].id = id => v = w
    BY <1>4, <1>7
  <2>2. notified[id] <= job[id].made + job[id].stalls
    BY <1>1, <1>3, <1>4 DEF WorkSound
  <2>3. QED
    BY <1>2, <1>4, <1>7, <2>1, <2>2 DEF WorkSound
<1>11. QED
  BY <1>2, <1>4, <1>7, <1>8, <1>9, <1>10, WorkerFrame

\* Notifying keeps the invariant: the run has not notified before.
LEMMA NotifyKeeps ==
  ASSUME IInv, NEW w \in Workers, Notify(w)
  PROVE  IInv'
<1>1. TypeOK /\ work[w].at = "notify"
  BY DEF IInv, Notify
<1>2. UNCHANGED <<now, taskVars, crashes, reminder, job, scan, covered>>
  BY DEF Notify
<1>3. PICK id \in Ids : id = work[w].id
  BY <1>1, Held
<1>4. /\ id \in 1..Len(reminder) /\ job[id].state = "active"
      /\ job[id] \in JobRow /\ notified[id] \in Nat
      /\ \A v \in Workers : v # w => (work[v].at # "rest" => work[v].id # id)
      /\ JobSound(id) /\ WorkSound(w)
      /\ reminder[id].status = "SENT" => notified[id] > 0
  BY <1>1, <1>3, Held
<1>5. PICK a \in {"sent", "fail"} :
        /\ work' = [work EXCEPT ![w].at = a]
        /\ notified' = [notified EXCEPT ![id] = @ + 1] \/ notified' = notified
        /\ a = "sent" => notified' = [notified EXCEPT ![id] = @ + 1]
  BY <1>3 DEF Notify
<1>6. work' = [work EXCEPT ![w] = [at |-> a, id |-> id]]
  BY <1>1, <1>3, <1>5, Moved
<1>7. /\ work'[w].at = a /\ work'[w].id = id
      /\ \A v \in Workers : v # w => work'[v] = work[v]
  BY <1>1, <1>6, WorkPlace
<1>8. /\ notified' \in [Ids -> Nat]
      /\ notified'[id] = notified[id] \/ notified'[id] = notified[id] + 1
      /\ a = "sent" => notified'[id] > 0
      /\ \A i \in Ids : i # id => notified'[i] = notified[i]
  BY <1>1, <1>4, <1>5, WorkPlace
<1>9. TypeOK'
  <2>1. id \in 0..MaxReminders
    BY RemindersAssumption DEF Ids
  <2>2. QED
    BY <1>1, <1>2, <1>6, <1>8, <2>1, WorkPlace, WorkerTypes
<1>10. notified[id] <= job[id].made + job[id].stalls
  BY <1>1, <1>3, <1>4 DEF WorkSound
<1>11. JobSound(id)'
  BY <1>2, <1>4, <1>8, <1>10 DEF JobSound, JobRow
<1>12. WorkSound(w)'
  <2>1. \A v \in Workers : work'[v].at # "rest" /\ work'[v].id = id => v = w
    BY <1>4, <1>7
  <2>2. QED
    BY <1>2, <1>4, <1>7, <1>8, <2>1 DEF WorkSound
<1>13. reminder[id].status = "SENT" => notified'[id] > 0
  BY <1>4, <1>8
<1>14. QED
  BY <1>2, <1>4, <1>7, <1>8, <1>9, <1>11, <1>12, <1>13, WorkerFrame

\* Marking a row keeps the invariant: its job is active.
LEMMA MarkKeeps ==
  ASSUME IInv, NEW w \in Workers, MarkSent(w) \/ MarkFailed(w)
  PROVE  IInv'
<1>1. TypeOK /\ work[w].at \in {"sent", "fail"}
  BY DEF IInv, MarkSent, MarkFailed
<1>2. UNCHANGED <<now, taskVars, crashes, job, notified, scan, covered>>
  BY DEF MarkSent, MarkFailed
<1>3. PICK id \in Ids : id = work[w].id
  BY <1>1, Held
<1>4. /\ id \in 1..Len(reminder) /\ job[id].state = "active"
      /\ notified[id] \in Nat
      /\ \A v \in Workers : v # w => (work[v].at # "rest" => work[v].id # id)
      /\ JobSound(id) /\ WorkSound(w)
  BY <1>1, <1>3, Held
<1>5. PICK a \in {"return", "throw"}, st \in {"SENT", "FAILED"} :
        /\ work' = [work EXCEPT ![w].at = a]
        /\ reminder' = [reminder EXCEPT ![id].status = st]
        /\ a = "return" <=> st = "SENT"
        /\ a = "return" <=> work[w].at = "sent"
  BY <1>3 DEF MarkSent, MarkFailed
<1>6. work' = [work EXCEPT ![w] = [at |-> a, id |-> id]]
  BY <1>1, <1>3, <1>5, Moved
<1>7. /\ work'[w].at = a /\ work'[w].id = id
      /\ \A v \in Workers : v # w => work'[v] = work[v]
  BY <1>1, <1>6, WorkPlace
<1>8. /\ reminder' \in Seq(ReminderRow) /\ reminder'[id].status = st
      /\ Len(reminder') = Len(reminder) /\ DOMAIN reminder' = DOMAIN reminder
      /\ \A i \in 1..Len(reminder) : i # id => reminder'[i] = reminder[i]
  <2>1. st \in {"PENDING", "SENT", "FAILED"}
    OBVIOUS
  <2>2. reminder' = [reminder EXCEPT ![id].status = st]
    BY <1>5
  <2>3. TypeOK /\ id \in 1..Len(reminder)
    BY <1>1, <1>4
  <2>4. \A i \in 1..Len(reminder) :
          /\ reminder'[i].status = IF i = id THEN st ELSE reminder[i].status
          /\ i # id => reminder'[i] = reminder[i]
    BY <2>1, <2>2, <2>3, Marked
  <2>5. /\ reminder' \in Seq(ReminderRow)
        /\ Len(reminder') = Len(reminder) /\ DOMAIN reminder' = DOMAIN reminder
    BY <2>1, <2>2, <2>3, Marked
  <2>6. QED
    BY <2>3, <2>4, <2>5
<1>10. TypeOK'
  <2>1. id \in 0..MaxReminders
    BY RemindersAssumption DEF Ids
  <2>2. QED
    BY <1>1, <1>2, <1>6, <1>8, <2>1, WorkPlace, WorkerTypes
<1>11. JobSound(id)'
  BY <1>2, <1>4 DEF JobSound
<1>12. a = "return" => notified[id] > 0
  BY <1>1, <1>3, <1>4, <1>5 DEF WorkSound
<1>13. WorkSound(w)'
  <2>1. \A v \in Workers : work'[v].at # "rest" /\ work'[v].id = id => v = w
    BY <1>4, <1>7
  <2>2. QED
    BY <1>2, <1>4, <1>5, <1>7, <1>8, <1>12, <2>1 DEF WorkSound
<1>14. reminder'[id].status = "SENT" => notified[id] > 0
  BY <1>5, <1>8, <1>12
<1>15. QED
  BY <1>2, <1>4, <1>7, <1>8, <1>10, <1>11, <1>13, <1>14, WorkerFrame

\* A job that is put back, fails or completes keeps the invariant: it leaves
\* its worker with what the worker knew of it.
LEMMA ReleaseKeeps ==
  ASSUME IInv, NEW w \in Workers, Complete(w) \/ Retry(w) \/ WorkerCrash(w)
  PROVE  IInv'
<1>1. TypeOK /\ work[w].at # "rest"
  BY DEF IInv, Complete, Retry, WorkerCrash
<1>2. UNCHANGED <<now, taskVars, reminder, notified, scan, covered>>
  BY DEF Complete, Retry, WorkerCrash
<1>3. PICK id \in Ids : id = work[w].id
  BY <1>1, Held
<1>4. /\ id \in 1..Len(reminder) /\ job[id].state = "active"
      /\ job[id] \in JobRow /\ notified[id] \in Nat
      /\ \A v \in Workers : v # w => (work[v].at # "rest" => work[v].id # id)
      /\ JobSound(id) /\ WorkSound(w)
      /\ reminder[id].status = "SENT" => notified[id] > 0
  BY <1>1, <1>3, Held
<1>5. /\ work' = [work EXCEPT ![w] = [at |-> "rest", id |-> 0]]
      /\ work'[w].at = "rest" /\ work'[w].id = 0
      /\ \A v \in Workers : v # w => work'[v] = work[v]
  BY <1>1, WorkPlace DEF Complete, Retry, WorkerCrash, Rest
<1>6. crashes' \in 0..MaxCrashes
  <2>1. crashes' = crashes \/ (crashes < MaxCrashes /\ crashes' = crashes + 1)
    BY DEF Complete, Retry, WorkerCrash
  <2>2. QED
    BY <1>1, <2>1, WorkPlace, RemindersAssumption
<1> DEFINE j == job[id]
<1>7. PICK new \in JobRow :
        /\ job' = [job EXCEPT ![id] = new]
        /\ \/ /\ work[w].at = "return" /\ new.state = "completed"
              /\ new.made = j.made /\ new.stalls = j.stalls
           \/ /\ work[w].at = "throw" /\ new.made = j.made + 1
              /\ new.stalls = j.stalls
              /\ new.state = IF j.made + 1 < Attempts THEN "waiting" ELSE "failed"
           \/ /\ new.made = j.made /\ new.stalls = j.stalls + 1
              /\ new.state = IF j.stalls < MaxStalls THEN "waiting" ELSE "failed"
  <2>1. j.made < Attempts /\ j.stalls <= MaxStalls
    BY <1>4 DEF JobSound
  <2>2. CASE Complete(w)
    <3> DEFINE new == [j EXCEPT !.state = "completed"]
    <3>1. /\ new \in JobRow /\ new.state = "completed"
          /\ new.made = j.made /\ new.stalls = j.stalls
      BY <1>4 DEF JobRow
    <3>2. job' = [job EXCEPT ![id] = new] /\ work[w].at = "return"
      BY <1>1, <1>3, <2>2, WorkPlace DEF Complete
    <3> HIDE DEF new
    <3>3. QED
      BY <3>1, <3>2
  <2>3. CASE Retry(w)
    <3> DEFINE st == IF j.made + 1 < Attempts THEN "waiting" ELSE "failed"
               new == [j EXCEPT !.made = @ + 1, !.state = st]
    <3> HIDE DEF st, j
    <3>4. j \in JobRow /\ st \in {"waiting", "failed"} /\ j.made + 1 \in 0..Attempts
      BY <1>4, <2>1 DEF st, j, JobRow, Attempts
    <3>1. /\ new \in JobRow /\ new.state = st
          /\ new.made = j.made + 1 /\ new.stalls = j.stalls
      BY <3>4 DEF JobRow
    <3>2. job' = [job EXCEPT ![id] = new] /\ work[w].at = "throw"
      BY <1>1, <1>3, <2>3, WorkPlace DEF Retry, st, j
    <3> HIDE DEF new
    <3>3. QED
      BY <3>1, <3>2 DEF st, j
  <2>4. CASE WorkerCrash(w)
    <3> DEFINE st == IF j.stalls < MaxStalls THEN "waiting" ELSE "failed"
               new == [j EXCEPT !.stalls = @ + 1, !.state = st]
    <3> HIDE DEF st, j
    <3>4. j \in JobRow /\ st \in {"waiting", "failed"} /\ j.stalls + 1 \in 0..MaxStalls + 1
      BY <1>4, <2>1 DEF st, j, JobRow, MaxStalls
    <3>1. /\ new \in JobRow /\ new.state = st
          /\ new.made = j.made /\ new.stalls = j.stalls + 1
      BY <3>4 DEF JobRow
    <3>2. job' = [job EXCEPT ![id] = new]
      BY <1>1, <1>3, <2>4, WorkPlace DEF WorkerCrash, st, j
    <3> HIDE DEF new
    <3>3. QED
      BY <3>1, <3>2 DEF st, j
  <2>5. QED
    BY <2>2, <2>3, <2>4
<1>8. /\ job' \in [Ids -> JobRow] /\ job'[id] = new
      /\ \A i \in Ids : i # id => job'[i] = job[i]
  BY <1>1, <1>7, WorkPlace
<1>9. TypeOK'
  BY <1>1, <1>2, <1>5, <1>6, <1>8, WorkPlace, WorkerTypes
<1>10. new.state \in {"waiting", "failed", "completed"}
  BY <1>7
<1>11. JobSound(id)'
  <2>1. /\ j.made < Attempts /\ j.stalls <= MaxStalls
        /\ notified[id] <= j.made + j.stalls + 1
    BY <1>4 DEF JobSound
  <2>2. work[w].at = "return" => notified[id] > 0
    BY <1>3, <1>4 DEF WorkSound
  <2>3. notified'[id] = notified[id]
    BY <1>2
  <2> HIDE DEF j
  <2>4. j \in JobRow
    BY <1>4 DEF j
  <2>5. QED
    BY <1>4, <1>7, <1>8, <2>1, <2>2, <2>3, <2>4 DEF JobSound, JobRow, Attempts, MaxStalls
<1>12. WorkSound(w)'
  BY <1>5 DEF WorkSound
<1>13. /\ work[w].at = "return" => reminder[id].status = "SENT"
       /\ work[w].at = "throw" => reminder[id].status = "FAILED"
  BY <1>3, <1>4 DEF WorkSound
<1>14. job'[id].stalls = 0 =>
         /\ job'[id].state = "completed" => reminder'[id].status = "SENT"
         /\ job'[id].state = "failed" => reminder'[id].status = "FAILED"
  BY <1>2, <1>4, <1>7, <1>8, <1>13 DEF JobRow
<1>15. QED
  BY <1>2, <1>4, <1>5, <1>8, <1>9, <1>10, <1>11, <1>12, <1>14, WorkerFrame

---------------------------------------------------------------------------
(* The theorems *)

\* Every step keeps the invariant.
LEMMA Step == IInv /\ [Next]_vars => IInv'
<1> SUFFICES ASSUME IInv, [Next]_vars PROVE IInv'
  OBVIOUS
<1>1. CASE \E s \in Scans : Begin(s) \/ Scan(s) \/ EnqueueFails(s) \/ ScanCrash(s)
  BY <1>1, ScanReads, SaveKeeps, EnqueueKeeps DEF Scan
<1>2. CASE \E w \in Workers : Process(w) \/ WorkerCrash(w)
  BY <1>2, TakeKeeps, LoadKeeps, NotifyKeeps, MarkKeeps, ReleaseKeeps DEF Process
<1>3. CASE (\E t \in Tasks : Edit(t)) \/ Tick \/ Over
  BY <1>3, Outside
<1>4. CASE UNCHANGED vars
  <2>1. TypeOK' /\ ScanSound'
    BY <1>4 DEF IInv, TypeOK, ScanSound, vars
  <2>2. QED
    BY <1>4, <2>1, Frame DEF vars
<1>5. QED
  BY <1>1, <1>2, <1>3, <1>4 DEF Next

\* IInv is an invariant of the reminders.
LEMMA Inductive == Spec => []IInv
BY InitIInv, Step, PTL DEF Spec

\* The table, the queue and the places of scans and workers keep their types:
\* no id runs past the table, no count past BullMQ's limits.
THEOREM RemindersTypeCorrect == Spec => []TypeOK
<1>1. IInv => TypeOK
  BY DEF IInv
<1>2. QED
  BY <1>1, Inductive, PTL

\* However many workers process the queue, and whatever fails, a reminder is
\* SENT only if it was delivered, is delivered at most Attempts + MaxStalls
\* times, and its job fails only when these are used up.
THEOREM DeliveriesBounded == Spec => []DeliveryBounded
<1>1. IInv => DeliveryBounded
  BY DEF IInv
<1>2. QED
  BY <1>1, Inductive, PTL

\* A job that no crash interrupted leaves its verdict in the reminder's row.
THEOREM StatusTellsJob == Spec => []StatusMatchesJob
<1>1. IInv => StatusMatchesJob
  BY DEF IInv
<1>2. QED
  BY <1>1, Inductive, PTL

---------------------------------------------------------------------------
(* One scan at a time *)

\* A step other than Save keeps what rows are about, so what is reminded.
LEMMA RowsKept ==
  ASSUME IInv, DOMAIN reminder' = DOMAIN reminder,
         \A i \in DOMAIN reminder : /\ reminder'[i].task = reminder[i].task
                                    /\ reminder'[i].due = reminder[i].due,
         SaveFresh, OneReminderPerDue,
         \A s \in Scans : scan'[s].at = "save" =>
           \/ scan[s].at = "save" /\ scan'[s].row = scan[s].row
           \/ ~Reminded(scan'[s].row.task, scan'[s].row.due)
  PROVE  SaveFresh' /\ OneReminderPerDue'
<1>1. OneReminderPerDue'
  BY DEF OneReminderPerDue
<1>2. ASSUME NEW s \in Scans, scan'[s].at = "save"
      PROVE  ~\E id \in DOMAIN reminder' : /\ reminder'[id].task = scan'[s].row.task
                                           /\ reminder'[id].due = scan'[s].row.due
  BY <1>2 DEF SaveFresh, Reminded
<1>3. QED
  BY <1>1, <1>2 DEF SaveFresh, Reminded

\* A scan comes to "save" only from "rows", when it found no reminder.
LEMMA SaveFound ==
  ASSUME IInv, [Next]_vars, NEW s \in Scans, scan'[s].at = "save"
  PROVE  \/ scan[s].at = "save" /\ scan'[s].row = scan[s].row
         \/ ~Reminded(scan'[s].row.task, scan'[s].row.due)
<1> DEFINE Place == [at : {"off", "select", "rows", "save", "enqueue"},
                     i : 1..Len(Milestones), rows : SUBSET DueRow, row : DueRow,
                     id : 0..MaxReminders, began : Nat]
<1>1. scan \in [Scans -> Place]
  BY DEF IInv, TypeOK
<1>2. CASE \E r \in Scans : Begin(r) \/ EnqueueFails(r) \/ ScanCrash(r)
  <2>1. PICK r \in Scans : Begin(r) \/ EnqueueFails(r) \/ ScanCrash(r)
    BY <1>2
  <2>2. PICK p : scan' = [scan EXCEPT ![r] = p] /\ p.at # "save"
    <3>1. Off.at = "off" /\ [Off EXCEPT !.at = "select", !.began = now].at = "select"
      BY DEF Off
    <3> HIDE DEF Place
    <3>2. QED
      BY <2>1, <3>1 DEF Begin, EnqueueFails, ScanCrash
  <2> HIDE DEF Place
  <2>3. QED
    BY <1>1, <2>2
<1>3. CASE \E r \in Scans : Select(r) \/ Save(r) \/ Enqueue(r)
  <2>1. PICK r \in Scans : Select(r) \/ Save(r) \/ Enqueue(r)
    BY <1>3
  <2>2. r # s
    BY <1>1, <2>1 DEF Select, Save, Enqueue
  <2>3. QED
    BY <1>1, <2>1, <2>2 DEF Select, Save, Enqueue
<1>4. CASE \E r \in Scans : NextMilestone(r)
  <2>1. PICK r \in Scans : NextMilestone(r)
    BY <1>4
  <2>2. PICK p : scan' = [scan EXCEPT ![r] = p] /\ p.at # "save"
    <3>1. Off.at = "off"
      BY DEF Off
    <3> DEFINE next == [scan[r] EXCEPT !.at = "select", !.i = @ + 1]
    <3>2. next.at = "select"
      BY <1>1
    <3>3. scan' = [scan EXCEPT ![r] = next] \/ scan' = [scan EXCEPT ![r] = Off]
      BY <1>1, <2>1 DEF NextMilestone
    <3> HIDE DEF Place, next
    <3>4. QED
      BY <3>1, <3>2, <3>3
  <2> HIDE DEF Place
  <2>3. QED
    BY <1>1, <2>2
<1>5. CASE \E r \in Scans : Count(r)
  <2>1. PICK r \in Scans : Count(r)
    BY <1>5
  <2>2. PICK d \in scan[r].rows :
          scan' = IF Reminded(d.task, d.due)
                  THEN [scan EXCEPT ![r].rows = @ \ {d}]
                  ELSE [scan EXCEPT ![r].rows = @ \ {d}, ![r].at = "save",
                                    ![r].row = d]
    BY <2>1 DEF Count
  <2>3. CASE Reminded(d.task, d.due)
    BY <1>1, <2>1, <2>2, <2>3 DEF Count
  <2>4. CASE ~Reminded(d.task, d.due)
    <3>1. CASE r = s
      <4>1. scan'[s].row = d
        BY <1>1, <2>2, <2>4, <3>1
      <4>2. QED
        BY <2>4, <4>1
    <3>2. CASE r # s
      BY <1>1, <2>2, <2>4, <3>2
    <3>3. QED
      BY <3>1, <3>2
  <2>5. QED
    BY <2>3, <2>4
<1>6. CASE UNCHANGED scan
  BY <1>6
<1>7. QED
  BY <1>2, <1>3, <1>4, <1>5, <1>6
     DEF Next, Scan, Process, Take, Load, Notify, MarkSent, Complete, MarkFailed,
         Retry, WorkerCrash, Edit, Tick, Over, vars

\* With one scan at a time a step keeps one reminder per due date.
LEMMA StepFresh ==
  ASSUME \A s, r \in Scans : s = r,
         IInv, SaveFresh, OneReminderPerDue, [Next]_vars
  PROVE  SaveFresh' /\ OneReminderPerDue'
<1>1. TypeOK
  BY DEF IInv
<1>2. CASE \E s \in Scans : Save(s)
  <2>1. PICK s \in Scans : Save(s)
    BY <1>2
  <2> DEFINE n == Len(reminder) + 1
             t == scan[s].row.task
             d == scan[s].row.due
  <2>2. t \in Tasks /\ d \in Int
    BY <1>1, ScanPlace
  <2>3. /\ DOMAIN reminder = 1..Len(reminder) /\ DOMAIN reminder' = 1..n
        /\ \A i \in 1..Len(reminder) : reminder'[i] = reminder[i]
        /\ reminder'[n].task = t /\ reminder'[n].due = d
    BY <1>1, <2>1, <2>2, Saved DEF Save
  <2>4. ~\E i \in 1..Len(reminder) : reminder[i].task = t /\ reminder[i].due = d
    BY <2>1, <2>3 DEF SaveFresh, Save, Reminded
  <2>5. \A i \in 1..n : i = n \/ i \in 1..Len(reminder)
    BY <1>1, TableDomain
  <2> HIDE DEF n, t, d
  <2>6. OneReminderPerDue'
    <3>1. \A a, b \in 1..n : reminder'[a].task = reminder'[b].task
                             /\ reminder'[a].due = reminder'[b].due => a = b
      <4>1. \A a, b \in 1..Len(reminder) :
              reminder[a].task = reminder[b].task /\ reminder[a].due = reminder[b].due
                => a = b
        BY <2>3 DEF OneReminderPerDue
      <4>2. QED
        BY <2>3, <2>4, <2>5, <4>1
    <3>2. QED
      BY <2>3, <3>1 DEF OneReminderPerDue
  <2>7. SaveFresh'
    <3>1. scan'[s].at = "enqueue"
      BY <1>1, <2>1 DEF Save, TypeOK
    <3>2. QED
      BY <3>1 DEF SaveFresh
  <2>8. QED
    BY <2>6, <2>7
<1>3. CASE ~\E s \in Scans : Save(s)
  <2>1. /\ DOMAIN reminder' = DOMAIN reminder
        /\ \A i \in DOMAIN reminder : /\ reminder'[i].task = reminder[i].task
                                      /\ reminder'[i].due = reminder[i].due
    <3>1. CASE \E w \in Workers : MarkSent(w) \/ MarkFailed(w)
      <4>1. PICK w \in Workers : MarkSent(w) \/ MarkFailed(w)
        BY <3>1
      <4>2. work[w].at # "rest"
        BY <4>1 DEF MarkSent, MarkFailed
      <4>3. PICK id \in 1..Len(reminder) : id = work[w].id
        BY <4>2, Held
      <4>4. PICK st \in {"PENDING", "SENT", "FAILED"} :
              reminder' = [reminder EXCEPT ![id].status = st]
        BY <4>1, <4>3 DEF MarkSent, MarkFailed
      <4>5. QED
        BY <1>1, <4>3, <4>4, Marked, TableDomain
    <3>2. CASE UNCHANGED reminder
      BY <3>2
    <3>3. QED
      BY <1>3, <3>1, <3>2
         DEF Next, Begin, Scan, Select, Count, Enqueue, NextMilestone, EnqueueFails,
             ScanCrash, Process, Take, Load, Notify, Complete, Retry, WorkerCrash,
             Edit, Tick, Over, vars
  <2>2. QED
    BY <2>1, SaveFound, RowsKept
<1>4. QED
  BY <1>2, <1>3

\* If scans do not overlap, a due date of a task gets one reminder, whatever
\* is edited, fails or crashes (overlapping scans both count none and
\* both create one).
THEOREM OneReminder ==
  ASSUME \A s, r \in Scans : s = r
  PROVE  Spec => []OneReminderPerDue
<1>1. Init => SaveFresh /\ OneReminderPerDue
  BY EmptySeq, LenProperties DEF Init, SaveFresh, OneReminderPerDue, Off
<1>2. IInv /\ SaveFresh /\ OneReminderPerDue /\ [Next]_vars
        => SaveFresh' /\ OneReminderPerDue'
  BY StepFresh
<1>3. QED
  BY <1>1, <1>2, Inductive, PTL DEF Spec

---------------------------------------------------------------------------
(* No milestone is missed *)

\* Reminded of the next state.
RemindedNext(t, d) ==
  \E id \in DOMAIN reminder' : reminder'[id].task = t /\ reminder'[id].due = d

\* No reminder is deleted or given to another due date.
LEMMA RemindersStay ==
  ASSUME IInv, [Next]_vars
  PROVE  \A t, d : Reminded(t, d) => RemindedNext(t, d)
<1> SUFFICES \A i \in DOMAIN reminder : /\ i \in DOMAIN reminder'
                                        /\ reminder'[i].task = reminder[i].task
                                        /\ reminder'[i].due = reminder[i].due
  BY DEF Reminded, RemindedNext
<1>1. TypeOK
  BY DEF IInv
<1>2. CASE \E s \in Scans : Save(s)
  <2>1. PICK s \in Scans : Save(s)
    BY <1>2
  <2>2. QED
    BY <1>1, <2>1, ScanPlace, Saved, TableDomain DEF Save
<1>3. CASE \E w \in Workers : MarkSent(w) \/ MarkFailed(w)
  <2>1. PICK w \in Workers : MarkSent(w) \/ MarkFailed(w)
    BY <1>3
  <2>2. work[w].at # "rest"
    BY <2>1 DEF MarkSent, MarkFailed
  <2>3. PICK id \in 1..Len(reminder) : id = work[w].id
    BY <2>2, Held
  <2>4. PICK st \in {"PENDING", "SENT", "FAILED"} :
          reminder' = [reminder EXCEPT ![id].status = st]
    BY <2>1, <2>3 DEF MarkSent, MarkFailed
  <2>5. QED
    BY <1>1, <2>3, <2>4, Marked, TableDomain
<1>4. CASE UNCHANGED reminder
  BY <1>4
<1>5. QED
  BY <1>2, <1>3, <1>4
     DEF Next, Begin, Scan, Select, Count, Enqueue, NextMilestone, EnqueueFails,
         ScanCrash, Process, Take, Load, Notify, Complete, Retry, WorkerCrash,
         Edit, Tick, Over, vars

\* Within the hour no task becomes due for a notice but by an edit, which
\* makes it one that changed in this hour.
Calm == /\ now' = now
        /\ \A t \in Tasks : \A h \in Nat :
             /\ DueNow(t, h)' => DueNow(t, h) /\ task'[t] = task[t]
             /\ Noticeable(t, h)' => Noticeable(t, h) /\ task'[t] = task[t]
        /\ \A t, d : Reminded(t, d) => RemindedNext(t, d)

\* Steps that edit no task leave them due as they are.
LEMMA TasksCalm ==
  ASSUME IInv, [Next]_vars, UNCHANGED <<now, task, changed>>
  PROVE  Calm
BY RemindersStay DEF Calm, DueNow, Noticeable, Remaining

\* So does an edit.
LEMMA EditCalm ==
  ASSUME IInv, NEW x \in Tasks, Edit(x)
  PROVE  Calm
<1>1. /\ TypeOK /\ now \in Nat /\ [Next]_vars
  BY RemindersAssumption DEF IInv, TypeOK, Next
<1>2. /\ now' = now /\ changed' = [changed EXCEPT ![x] = now]
      /\ task' \in [Tasks -> Versions] /\ changed'[x] = now
      /\ \A t \in Tasks : t # x => task'[t] = task[t] /\ changed'[t] = changed[t]
  BY <1>1 DEF Edit, TypeOK
<1>3. task'[x].due \in Int
  BY <1>2, RemindersAssumption DEF Task
<1>4. ASSUME NEW h \in Nat PROVE ~DueNow(x, h)' /\ ~Noticeable(x, h)'
  BY <1>1, <1>2, <1>3, <1>4 DEF DueNow, Noticeable
<1>5. ASSUME NEW t \in Tasks, t # x, NEW h \in Nat
      PROVE  /\ DueNow(t, h)' => DueNow(t, h) /\ task'[t] = task[t]
             /\ Noticeable(t, h)' => Noticeable(t, h) /\ task'[t] = task[t]
  BY <1>2, <1>5 DEF DueNow, Noticeable, Remaining
<1>6. QED
  BY <1>1, <1>2, <1>4, <1>5, RemindersStay DEF Calm

\* The milestones are numbers of hours.
LEMMA MilestoneHours ==
  \A i \in DOMAIN Milestones : Milestones[i] \in Nat /\ i \in 1..Len(Milestones)
BY RemindersAssumption, ElementOfSeq, LenProperties

\* A scan that does not move goes on missing nothing.
LEMMA StillMisses ==
  ASSUME Calm, NEW s \in Scans, scan'[s] = scan[s], MissesNothing(s)
  PROVE  MissesNothing(s)'
<1> SUFFICES ASSUME scan[s].at # "off", scan[s].began = now,
                    NEW t \in Tasks, NEW i \in DOMAIN Milestones,
                    DueNow(t, Milestones[i])'
             PROVE  /\ i < scan[s].i => RemindedNext(t, task'[t].due)
                    /\ i = scan[s].i /\ scan[s].at # "select" =>
                         RemindedNext(t, task'[t].due) \/ InHand(s, t)'
  BY DEF Calm, MissesNothing, Reminded, RemindedNext
<1>1. DueNow(t, Milestones[i]) /\ task'[t] = task[t]
  BY MilestoneHours DEF Calm
<1>2. InHand(s, t) => InHand(s, t)'
  BY <1>1 DEF InHand
<1>3. QED
  BY <1>1, <1>2 DEF Calm, MissesNothing

\* Where a scan is is a record.
ScanRow == [at : {"off", "select", "rows", "save", "enqueue"},
            i : 1..Len(Milestones), rows : SUBSET DueRow, row : DueRow,
            id : 0..MaxReminders, began : Nat]

\* A scan at a new place misses nothing if it began in the hour, what it has
\* passed has reminders, and what it selected has one or is in its hands.
LEMMA ScanAt ==
  ASSUME Calm, UNCHANGED <<task, changed>>, scan \in [Scans -> ScanRow],
         NEW s \in Scans, NEW STATE p, scan' = [scan EXCEPT ![s] = p],
         p.at # "off" =>
           /\ p.began <= now
           /\ p.began = now =>
                \A t \in Tasks : \A i \in DOMAIN Milestones : DueNow(t, Milestones[i]) =>
                  /\ i < p.i => RemindedNext(t, task[t].due)
                  /\ i = p.i /\ p.at # "select" =>
                       \/ RemindedNext(t, task[t].due)
                       \/ [task |-> t, due |-> task[t].due] \in p.rows
                       \/ p.at = "save" /\ p.row = [task |-> t, due |-> task[t].due]
  PROVE  MissesNothing(s)' /\ \A r \in Scans : r # s => scan'[r] = scan[r]
<1>1. scan'[s] = p /\ \A r \in Scans : r # s => scan'[r] = scan[r]
  OBVIOUS
<1>2. now' = now /\ task' = task /\ changed' = changed
  BY DEF Calm
<1>3. \A t, i : DueNow(t, Milestones[i])' <=> DueNow(t, Milestones[i])
  BY <1>2 DEF DueNow, Remaining
<1>4. QED
  BY <1>1, <1>2, <1>3 DEF MissesNothing, InHand, Reminded, RemindedNext

\* Begin, the SELECT, skipping and finding a row.
LEMMA ReadsMissNothing ==
  ASSUME IInv, [Next]_vars, NEW s \in Scans, MissesNothing(s),
         Begin(s) \/ Select(s) \/ Count(s)
  PROVE  Calm /\ MissesNothing(s)' /\ \A r \in Scans : r # s => scan'[r] = scan[r]
<1>0. UNCHANGED <<now, task, changed, reminder>>
  BY DEF Begin, Select, Count, taskVars
<1>1. /\ UNCHANGED <<now, task, changed, reminder>> /\ scan \in [Scans -> ScanRow]
      /\ now \in Nat
  BY <1>0, RemindersAssumption DEF IInv, TypeOK, ScanRow
<1>2. Calm /\ scan[s] \in ScanRow
  BY <1>1, TasksCalm
<1>3. CASE Begin(s)
  <2> DEFINE p == [Off EXCEPT !.at = "select", !.began = now]
  <2>1. p.at = "select" /\ p.began = now /\ p.i = 1
    BY DEF Off
  <2>2. scan' = [scan EXCEPT ![s] = p]
    BY <1>3 DEF Begin
  <2> HIDE DEF p
  <2>3. \A i \in DOMAIN Milestones : ~(i < 1)
    BY MilestoneHours
  <2>4. /\ p.began <= now
        /\ \A i \in DOMAIN Milestones : ~(i < p.i) /\ ~(p.at # "select")
    BY <1>1, <2>1, <2>3
  <2>5. QED
    BY <1>1, <1>2, <2>2, <2>4, ScanAt
<1>4. CASE Select(s)
  <2> DEFINE found == {[task |-> t, due |-> task[t].due] :
                         t \in {x \in Tasks : /\ InWindow(x, Milestones[scan[s].i])
                                              /\ Remaining(x)}}
             p == [scan[s] EXCEPT !.at = "rows", !.rows = found]
  <2>1. /\ p.at = "rows" /\ p.rows = found /\ p.i = scan[s].i
        /\ p.began = scan[s].began
    BY <1>2 DEF ScanRow
  <2>2. scan' = [scan EXCEPT ![s] = p] /\ scan[s].at = "select"
    BY <1>1, <1>4 DEF Select
  <2> HIDE DEF p
  <2>3. ASSUME NEW t \in Tasks, DueNow(t, Milestones[scan[s].i]),
               scan[s].i \in DOMAIN Milestones
        PROVE  [task |-> t, due |-> task[t].due] \in found
    <3>1. Milestones[scan[s].i] \in Nat
      BY <2>3, MilestoneHours
    <3>2. InWindow(t, Milestones[scan[s].i]) /\ Remaining(t)
      BY <1>1, <2>3, <3>1 DEF DueNow, InWindow
    <3>3. QED
      BY <3>2
  <2> HIDE DEF found
  <2>4. QED
    BY <1>1, <1>2, <2>1, <2>2, <2>3, ScanAt DEF MissesNothing, Calm
<1>5. CASE Count(s)
  <2>1. PICK r \in scan[s].rows :
          scan' = IF Reminded(r.task, r.due)
                  THEN [scan EXCEPT ![s].rows = @ \ {r}]
                  ELSE [scan EXCEPT ![s].rows = @ \ {r}, ![s].at = "save",
                                    ![s].row = r]
    BY <1>5 DEF Count
  <2> DEFINE rest == [scan[s] EXCEPT !.rows = @ \ {r}]
             hit == [scan[s] EXCEPT !.rows = @ \ {r}, !.at = "save", !.row = r]
  <2>2. /\ rest.at = "rows" /\ rest.rows = scan[s].rows \ {r}
        /\ rest.i = scan[s].i /\ rest.began = scan[s].began
        /\ hit.at = "save" /\ hit.rows = scan[s].rows \ {r} /\ hit.row = r
        /\ hit.i = scan[s].i /\ hit.began = scan[s].began
        /\ scan[s].at = "rows"
    BY <1>2, <1>5 DEF ScanRow, Count
  <2>3. CASE Reminded(r.task, r.due)
    <3>1. scan' = [scan EXCEPT ![s] = rest]
      BY <1>1, <2>1, <2>3
    <3>2. \A t : r = [task |-> t, due |-> task[t].due] => RemindedNext(t, task[t].due)
      BY <1>2, <2>3 DEF Calm
    <3> HIDE DEF rest, hit
    <3>3. ASSUME NEW t \in Tasks, InHand(s, t)
          PROVE  \/ RemindedNext(t, task[t].due)
                 \/ [task |-> t, due |-> task[t].due] \in rest.rows
      BY <2>2, <3>2, <3>3 DEF InHand
    <3>4. rest.at # "off" /\ rest.at # "select" /\ rest.began <= now
      BY <2>2 DEF MissesNothing
    <3>5. ASSUME NEW t \in Tasks, NEW i \in DOMAIN Milestones,
                 DueNow(t, Milestones[i]), rest.began = now
          PROVE  /\ i < rest.i => RemindedNext(t, task[t].due)
                 /\ i = rest.i =>
                      \/ RemindedNext(t, task[t].due)
                      \/ [task |-> t, due |-> task[t].due] \in rest.rows
                      \/ rest.at = "save" /\ rest.row = [task |-> t, due |-> task[t].due]
      <4>1. /\ i < scan[s].i => Reminded(t, task[t].due)
            /\ i = scan[s].i => Reminded(t, task[t].due) \/ InHand(s, t)
        BY <2>2, <3>5 DEF MissesNothing
      <4>2. Reminded(t, task[t].due) => RemindedNext(t, task[t].due)
        BY <1>2 DEF Calm
      <4>3. QED
        BY <2>2, <3>3, <4>1, <4>2
    <3>6. QED
      BY <1>1, <1>2, <3>1, <3>4, <3>5, ScanAt
  <2>4. CASE ~Reminded(r.task, r.due)
    <3>1. scan' = [scan EXCEPT ![s].rows = @ \ {r}, ![s].at = "save", ![s].row = r]
      BY <2>1, <2>4
    <3>2. scan' = [scan EXCEPT ![s] = hit]
      BY <1>1, <3>1
    <3> HIDE DEF rest, hit
    <3>3. ASSUME NEW t \in Tasks, InHand(s, t)
          PROVE  \/ [task |-> t, due |-> task[t].due] \in hit.rows
                 \/ hit.at = "save" /\ hit.row = [task |-> t, due |-> task[t].due]
      BY <2>2, <3>3 DEF InHand
    <3>4. hit.at # "off" /\ hit.at # "select" /\ hit.began <= now
      BY <2>2 DEF MissesNothing
    <3>5. ASSUME NEW t \in Tasks, NEW i \in DOMAIN Milestones,
                 DueNow(t, Milestones[i]), hit.began = now
          PROVE  /\ i < hit.i => RemindedNext(t, task[t].due)
                 /\ i = hit.i =>
                      \/ RemindedNext(t, task[t].due)
                      \/ [task |-> t, due |-> task[t].due] \in hit.rows
                      \/ hit.at = "save" /\ hit.row = [task |-> t, due |-> task[t].due]
      <4>1. /\ i < scan[s].i => Reminded(t, task[t].due)
            /\ i = scan[s].i => Reminded(t, task[t].due) \/ InHand(s, t)
        BY <2>2, <3>5 DEF MissesNothing
      <4>2. Reminded(t, task[t].due) => RemindedNext(t, task[t].due)
        BY <1>2 DEF Calm
      <4>3. QED
        BY <2>2, <3>3, <4>1, <4>2
    <3>6. QED
      BY <1>1, <1>2, <3>2, <3>4, <3>5, ScanAt
  <2>5. QED
    BY <2>3, <2>4
<1>6. QED
  BY <1>3, <1>4, <1>5

\* Saving and enqueuing a row, going on with the next milestone, ending.
LEMMA WritesMissNothing ==
  ASSUME IInv, [Next]_vars, NEW s \in Scans, MissesNothing(s),
         \/ Save(s) \/ Enqueue(s) \/ NextMilestone(s)
         \/ EnqueueFails(s) \/ ScanCrash(s)
  PROVE  Calm /\ MissesNothing(s)' /\ \A r \in Scans : r # s => scan'[r] = scan[r]
<1>0. UNCHANGED <<now, task, changed>>
  BY DEF Save, Enqueue, NextMilestone, EnqueueFails, ScanCrash, taskVars
<1>1. /\ UNCHANGED <<now, task, changed>> /\ scan \in [Scans -> ScanRow] /\ TypeOK
      /\ now \in Nat
  BY <1>0, RemindersAssumption DEF IInv, TypeOK, ScanRow
<1>2. Calm /\ scan[s] \in ScanRow
  BY <1>1, TasksCalm
<1>3. CASE Save(s)
  <2> DEFINE p == [scan[s] EXCEPT !.at = "enqueue", !.row = NoRow, !.id = Len(reminder) + 1]
  <2>1. /\ p.at = "enqueue" /\ p.rows = scan[s].rows /\ p.i = scan[s].i
        /\ p.began = scan[s].began
    BY <1>2 DEF ScanRow
  <2>2. scan' = [scan EXCEPT ![s] = p] /\ scan[s].at = "save"
    BY <1>1, <1>3 DEF Save
  <2> HIDE DEF p
  <2>3. RemindedNext(scan[s].row.task, scan[s].row.due)
    <3>1. /\ Len(reminder) + 1 \in DOMAIN reminder'
          /\ reminder'[Len(reminder) + 1].task = scan[s].row.task
          /\ reminder'[Len(reminder) + 1].due = scan[s].row.due
      BY <1>1, <1>3, ScanPlace, Saved, TableDomain DEF Save
    <3>2. QED
      BY <3>1 DEF RemindedNext
  <2>4. \A t : scan[s].row = [task |-> t, due |-> task[t].due]
                 => RemindedNext(t, task[t].due)
    BY <2>3
  <2>5. QED
    BY <1>1, <1>2, <2>1, <2>2, <2>4, ScanAt DEF MissesNothing, InHand, Calm
<1>4. CASE Enqueue(s)
  <2> DEFINE p == [scan[s] EXCEPT !.at = "rows", !.id = 0]
  <2>1. /\ p.at = "rows" /\ p.rows = scan[s].rows /\ p.i = scan[s].i
        /\ p.began = scan[s].began
    BY <1>2 DEF ScanRow
  <2>2. scan' = [scan EXCEPT ![s] = p] /\ scan[s].at = "enqueue"
    BY <1>1, <1>4 DEF Enqueue
  <2> HIDE DEF p
  <2>3. QED
    BY <1>1, <1>2, <2>1, <2>2, ScanAt DEF MissesNothing, InHand, Calm
<1>5. CASE NextMilestone(s) /\ scan[s].i < Len(Milestones)
  <2> DEFINE p == [scan[s] EXCEPT !.at = "select", !.i = @ + 1]
  <2>1. /\ p.at = "select" /\ p.i = scan[s].i + 1 /\ p.began = scan[s].began
    BY <1>2 DEF ScanRow
  <2>2. /\ scan' = [scan EXCEPT ![s] = p] /\ scan[s].at = "rows" /\ scan[s].rows = {}
    BY <1>1, <1>5 DEF NextMilestone
  <2> HIDE DEF p
  <2>3. \A i \in DOMAIN Milestones : i < scan[s].i + 1 => i < scan[s].i \/ i = scan[s].i
    BY <1>2, MilestoneHours DEF ScanRow
  <2>4. \A i \in DOMAIN Milestones : i = scan[s].i + 1 => ~(i < scan[s].i)
    BY <1>2, MilestoneHours DEF ScanRow
  <2>5. QED
    BY <1>1, <1>2, <2>1, <2>2, <2>3, ScanAt DEF MissesNothing, InHand, Calm
<1>6. CASE \/ NextMilestone(s) /\ ~(scan[s].i < Len(Milestones))
           \/ EnqueueFails(s) \/ ScanCrash(s)
  <2>1. scan' = [scan EXCEPT ![s] = Off] /\ Off.at = "off"
    BY <1>6 DEF NextMilestone, EnqueueFails, ScanCrash, Off
  <2> HIDE DEF Off
  <2>2. QED
    BY <1>1, <1>2, <2>1, ScanAt
<1>7. QED
  BY <1>3, <1>4, <1>5, <1>6

\* What was reminded in time stays so within the hour, and what the hour has
\* noticed too.
LEMMA CalmKeeps ==
  ASSUME Calm, RemindedInTime
  PROVE  /\ RemindedInTime'
         /\ covered' /\ covered /\ HourMissesNothing => HourMissesNothing'
<1>1. ASSUME NEW t \in Tasks, NEW i \in DOMAIN Milestones, Noticeable(t, Milestones[i])'
      PROVE  RemindedNext(t, task'[t].due)
  <2>1. Noticeable(t, Milestones[i]) /\ task'[t] = task[t]
    BY <1>1, MilestoneHours DEF Calm
  <2>2. QED
    BY <2>1 DEF Calm, RemindedInTime
<1>2. ASSUME covered, HourMissesNothing,
             NEW t \in Tasks, NEW i \in DOMAIN Milestones, DueNow(t, Milestones[i])'
      PROVE  RemindedNext(t, task'[t].due)
  <2>1. DueNow(t, Milestones[i]) /\ task'[t] = task[t]
    BY <1>2, MilestoneHours DEF Calm
  <2>2. QED
    BY <1>2, <2>1 DEF Calm, HourMissesNothing
<1>3. QED
  BY <1>1, <1>2 DEF RemindedInTime, HourMissesNothing, Reminded, RemindedNext

\* The end of a scan of this hour: it has passed every milestone.
LEMMA EndMissesNothing ==
  ASSUME IInv, [Next]_vars, NEW s \in Scans, MissesNothing(s), NextMilestone(s),
         ~covered, covered'
  PROVE  HourMissesNothing'
<1>1. /\ scan[s].at = "rows" /\ scan[s].rows = {} /\ ~(scan[s].i < Len(Milestones))
      /\ scan[s].began = now
  BY DEF NextMilestone
<1>2. scan[s].i \in 1..Len(Milestones) /\ Len(Milestones) \in Nat
  BY ScanPlace DEF IInv
<1>3. Calm
  BY TasksCalm DEF NextMilestone, taskVars
<1>4. ASSUME NEW t \in Tasks, NEW i \in DOMAIN Milestones, DueNow(t, Milestones[i])'
      PROVE  RemindedNext(t, task'[t].due)
  <2>1. DueNow(t, Milestones[i]) /\ task'[t] = task[t]
    BY <1>3, <1>4, MilestoneHours DEF Calm
  <2>2. i < scan[s].i \/ i = scan[s].i
    BY <1>1, <1>2, MilestoneHours
  <2>3. Reminded(t, task[t].due)
    BY <1>1, <2>1, <2>2 DEF MissesNothing, InHand
  <2>4. QED
    BY <1>3, <2>1, <2>3 DEF Calm
<1>5. QED
  BY <1>4 DEF HourMissesNothing, Reminded, RemindedNext

\* The clock moves on only when a scan of the hour has completed.
LEMMA TickMissesNothing ==
  ASSUME IInv, NoticeInv, Tick
  PROVE  NoticeInv'
<1>1. /\ now' = now + 1 /\ covered /\ covered' = FALSE /\ [Next]_vars
      /\ UNCHANGED <<task, changed, scan>> /\ now \in Nat
  BY RemindersAssumption DEF Tick, taskVars, IInv, TypeOK, Next
<1>2. ASSUME NEW s \in Scans PROVE MissesNothing(s)'
  <2>1. scan[s].began \in Nat
    BY DEF IInv, TypeOK
  <2>2. scan[s].at # "off" => scan[s].began <= now
    BY DEF NoticeInv, MissesNothing
  <2>3. scan'[s].at # "off" => scan'[s].began <= now' /\ scan'[s].began # now'
    BY <1>1, <2>1, <2>2
  <2>4. QED
    BY <2>3 DEF MissesNothing
<1>3. ASSUME NEW t \in Tasks, NEW i \in DOMAIN Milestones, Noticeable(t, Milestones[i])'
      PROVE  RemindedNext(t, task'[t].due)
  <2>1. task[t].due \in Int /\ Milestones[i] \in Nat
    BY DueHours, MilestoneHours DEF IInv
  <2>2. Noticeable(t, Milestones[i]) \/ DueNow(t, Milestones[i])
    BY <1>1, <1>3, <2>1 DEF Noticeable, DueNow, Remaining
  <2>3. Reminded(t, task[t].due)
    BY <1>1, <2>2 DEF NoticeInv, RemindedInTime, HourMissesNothing
  <2>4. QED
    BY <1>1, <2>3, RemindersStay
<1>4. QED
  BY <1>1, <1>2, <1>3
     DEF NoticeInv, HourMissesNothing, RemindedInTime, Reminded, RemindedNext

\* Every step keeps it.
LEMMA NextMissesNothing ==
  ASSUME IInv, NoticeInv, [Next]_vars
  PROVE  NoticeInv'
<1>0. (\A s \in Scans : MissesNothing(s)) /\ HourMissesNothing /\ RemindedInTime
  BY DEF NoticeInv
<1>1. CASE \E s \in Scans : Begin(s) \/ Scan(s) \/ EnqueueFails(s) \/ ScanCrash(s)
  <2>1. PICK s \in Scans : Begin(s) \/ Scan(s) \/ EnqueueFails(s) \/ ScanCrash(s)
    BY <1>1
  <2>2. Calm /\ MissesNothing(s)' /\ \A r \in Scans : r # s => scan'[r] = scan[r]
    BY <1>0, <2>1, ReadsMissNothing, WritesMissNothing DEF Scan
  <2>3. \A r \in Scans : MissesNothing(r)'
    BY <1>0, <2>2, StillMisses
  <2>4. HourMissesNothing'
    <3>1. CASE covered' /\ covered
      BY <1>0, <2>2, <3>1, CalmKeeps
    <3>2. CASE covered' /\ ~covered
      <4>1. NextMilestone(s)
        BY <2>1, <3>2 DEF Begin, Scan, Select, Count, Save, Enqueue, EnqueueFails,
           ScanCrash
      <4>2. QED
        BY <1>0, <3>2, <4>1, EndMissesNothing
    <3>3. CASE ~covered'
      BY <3>3 DEF HourMissesNothing
    <3>4. QED
      BY <3>1, <3>2, <3>3
  <2>5. QED
    BY <1>0, <2>2, <2>3, <2>4, CalmKeeps DEF NoticeInv
<1>2. CASE Calm /\ UNCHANGED <<scan, covered>>
  <2>1. \A r \in Scans : MissesNothing(r)'
    BY <1>0, <1>2, StillMisses
  <2>2. HourMissesNothing'
    <3>1. CASE covered
      BY <1>0, <1>2, <3>1, CalmKeeps
    <3>2. CASE ~covered
      BY <1>2, <3>2 DEF HourMissesNothing
    <3>3. QED
      BY <3>1, <3>2
  <2>3. QED
    BY <1>0, <1>2, <2>1, <2>2, CalmKeeps DEF NoticeInv
<1>3. CASE \E w \in Workers : Process(w) \/ WorkerCrash(w)
  <2>1. UNCHANGED <<now, task, changed, scan, covered>>
    BY <1>3 DEF Process, Take, Load, Notify, MarkSent, Complete, MarkFailed, Retry,
       WorkerCrash, taskVars
  <2>2. QED
    BY <1>2, <2>1, TasksCalm
<1>4. CASE \E t \in Tasks : Edit(t)
  BY <1>2, <1>4, EditCalm DEF Edit
<1>5. CASE Over \/ UNCHANGED vars
  BY <1>2, <1>5, TasksCalm DEF Over, vars
<1>6. QED
  BY <1>1, <1>3, <1>4, <1>5, TickMissesNothing DEF Next

\* A task that stays open and assigned from before a milestone has a reminder of
\* its due date once the milestone is past (checkDueTasks), for any milestones,
\* tasks, edits and overlapping scans, and whatever scans fail on the way: all it
\* takes is that in every hour some scan begins and completes.
THEOREM RemindersInTime == Spec => []RemindedInTime
<1>1. Init => NoticeInv
  <2> SUFFICES ASSUME Init PROVE NoticeInv
    OBVIOUS
  <2>1. \A s \in Scans : scan[s].at = "off"
    BY DEF Init, Off
  <2>2. ASSUME NEW t \in Tasks, NEW i \in DOMAIN Milestones
        PROVE  ~Noticeable(t, Milestones[i])
    <3>1. task[t].due \in Int /\ Milestones[i] \in Nat /\ now = 0
      BY InitIInv, DueHours, MilestoneHours DEF IInv, Init
    <3>2. QED
      BY <3>1 DEF Noticeable
  <2>3. QED
    BY <2>1, <2>2 DEF Init, NoticeInv, MissesNothing, HourMissesNothing, RemindedInTime
<1>2. IInv /\ NoticeInv /\ [Next]_vars => NoticeInv'
  BY NextMissesNothing
<1>3. NoticeInv => RemindedInTime
  BY DEF NoticeInv
<1>4. QED
  BY <1>1, <1>2, <1>3, Inductive, PTL DEF Spec
=============================================================================
