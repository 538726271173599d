--------------------------- MODULE DeliveryProofs ---------------------------
(***************************************************************************)
(* What comments promise, for any number of requests and users and any     *)
(* number of faults. The inductive invariant says, for each place of a     *)
(* request, which targets were told in full, which one in part and which   *)
(* not at all, and that a job added is a job that was not there before.    *)
(***************************************************************************)
EXTENDS Delivery, TLAPS

---------------------------------------------------------------------------
(* Targets and what they were told *)

Row(c, i) == notes[c][Targets(c)[i]]
Pushed(c, i) == job[<<"notification", c, Targets(c)[i]>>].added
Mailed(c, i) == job[<<"email", c, Targets(c)[i]>>].added

Stage(c, i, row, pushed, mailed) ==
  Row(c, i) = row /\ Pushed(c, i) = pushed /\ Mailed(c, i) = mailed
Whole(c, i) == Stage(c, i, 1, 1, 1)
Untold(c, i) == Stage(c, i, 0, 0, 0)

\* The targets before the one a request is at were told.
Done(c) == Len(Targets(c)) - Len(req[c].todo)
Places1 == {"idle", "store", "audit", "activity"}
Looping == {"next", "note", "notification", "email"}
Over1 == {"reply", "end"}

\* A request still holds the last of its targets.
Rest(c) ==
  /\ Len(req[c].todo) <= Len(Targets(c))
  /\ \A i \in 1..Len(req[c].todo) : req[c].todo[i] = Targets(c)[Done(c) + i]

Ordered(c) ==
  /\ \A i \in DOMAIN Targets(c) : /\ 1 >= Row(c, i) /\ Row(c, i) >= Pushed(c, i)
                                  /\ Pushed(c, i) >= Mailed(c, i)
  /\ \A i, k \in DOMAIN Targets(c) : i < k => Whole(c, i) \/ Untold(c, k)

\* The target a request is at.
Current(c) ==
  LET at == req[c].at
      k == Done(c) + 1
  IN  CASE at = "note" -> Untold(c, k)
        [] at = "notification" -> Stage(c, k, 1, 0, 0)
        [] at = "email" -> Stage(c, k, 1, 1, 0)
        [] OTHER -> TRUE

Tells(c) ==
  /\ req[c].at \in Places1 => \A i \in DOMAIN Targets(c) : Untold(c, i)
  /\ req[c].at \in {"store", "audit", "activity"} => req[c].todo = Targets(c)
  /\ req[c].at \in Looping =>
       /\ Rest(c)
       /\ \A i \in DOMAIN Targets(c) :
            /\ i <= Done(c) => Whole(c, i)
            /\ i > Done(c) + 1 \/ (i > Done(c) /\ req[c].at = "next") => Untold(c, i)
       /\ req[c].at # "next" => req[c].todo # <<>> /\ Current(c)
  /\ req[c].at \in Over1 <=> req[c].code # 0
  /\ req[c].at \in Over1 => Ordered(c)
  /\ req[c].code = 201 => \A i \in DOMAIN Targets(c) : Whole(c, i)
  /\ \A u \in Users : notes[c][u] > 0 => \E i \in DOMAIN Targets(c) : Targets(c)[i] = u

---------------------------------------------------------------------------
(* Comments and jobs *)

\* A comment that is not stored has not been told of.
Stored(c) ==
  c \notin comment =>
    /\ req[c].at \in {"idle", "store"} \/ req[c].code \in {404, 500}
    /\ \A u \in Users : notes[c][u] = 0
    /\ \A j \in Jobs : j[2] = c => job[j].added = 0

\* The entries a request has yet to log.
Unlogged(c) ==
  /\ req[c].at \in {"idle", "store", "audit"} => job[<<"audit", c, None>>].added = 0
  /\ req[c].at \in Places1 => job[<<"activity", c, None>>].added = 0

\* A job never added is nowhere, and how often one has run.
Runs(j) ==
  /\ job[j].at = "none" <=> job[j].added = 0
  /\ job[j].at = "none" => job[j] = NoJob
  /\ job[j].at \in {"waiting", "active"} =>
       /\ job[j].runs <= job[j].stalls /\ job[j].stalls <= MaxStalls
       /\ job[j].tries < Attempts
  /\ job[j].at = "done" => job[j].runs \in 1..(1 + job[j].stalls)
  /\ job[j].at = "failed" =>
       /\ job[j].runs <= job[j].stalls
       /\ job[j].tries = Attempts \/ job[j].stalls > MaxStalls

IInv == /\ TypeOK
        /\ \A c \in Reqs : Tells(c) /\ Stored(c) /\ Unlogged(c)
        /\ \A j \in Jobs : Runs(j)

---------------------------------------------------------------------------
(* The targets of a comment *)

ReqRecord == [at : Places, todo : Seq(Users), code : {0, 201, 404, 500}]
JobRecord == [at : {"none", "waiting", "active", "done", "failed"},
              added : Nat, tries : 0..Attempts, stalls : 0..MaxStalls + 1, runs : Nat]

LEMMA Joined ==
  ASSUME NEW a, NEW b
  PROVE  /\ <<a>> \o <<b>> \in Seq({a, b}) /\ Len(<<a>> \o <<b>>) = 2
         /\ (<<a>> \o <<b>>)[1] = a /\ (<<a>> \o <<b>>)[2] = b
         /\ <<a>> \o <<>> = <<a>>
<1>1. <<a>> \in Seq({a, b}) /\ <<b>> \in Seq({a, b})
  OBVIOUS
<1>2. <<a>> \o <<b>> \in Seq({a, b}) /\ Len(<<a>> \o <<b>>) = 2
  BY <1>1
<1>3. (<<a>> \o <<b>>)[1] = a /\ (<<a>> \o <<b>>)[2] = b
  BY <1>1
<1>4. <<a>> \o <<>> = <<a>>
  OBVIOUS
<1> QED
  BY <1>2, <1>3, <1>4

LEMMA TargetsAre ==
  ASSUME TypeOK, NEW c \in Reqs
  PROVE  /\ Targets(c) \in Seq(Users) /\ Len(Targets(c)) \in Nat
         /\ DOMAIN Targets(c) = 1..Len(Targets(c))
         /\ \A i \in DOMAIN Targets(c) :
              /\ Targets(c)[i] \in Users
              /\ <<"notification", c, Targets(c)[i]>> \in Jobs
              /\ <<"email", c, Targets(c)[i]>> \in Jobs
         /\ \A i, k \in DOMAIN Targets(c) : Targets(c)[i] = Targets(c)[k] => i = k
<1> DEFINE a == people.assignedTo
           b == people.createdBy
           told(u) == u \notin {None, people.author[c]}
           x == IF told(a) THEN <<a>> ELSE <<>>
           y == IF told(b) /\ b # a THEN <<b>> ELSE <<>>
<1>1. a \in Users \cup {None} /\ b \in Users
  BY DEF TypeOK
<1>2. Targets(c) = x \o y
  BY DEF Targets
<1> HIDE DEF x, y
<1>3. \/ Targets(c) = <<>>
      \/ Targets(c) = <<a>> /\ a \in Users
      \/ Targets(c) = <<b>>
      \/ Targets(c) = <<a>> \o <<b>> /\ a \in Users /\ a # b
  <2>1. told(a) => a \in Users
    BY <1>1
  <2>2. CASE told(a) /\ told(b) /\ b # a
    <3>1. x = <<a>> /\ y = <<b>>
      BY <2>2 DEF x, y
    <3> QED
      BY <1>2, <2>1, <2>2, <3>1, Joined
  <2>3. CASE told(a) /\ ~(told(b) /\ b # a)
    <3>1. x = <<a>> /\ y = <<>>
      BY <2>3 DEF x, y
    <3> QED
      BY <1>2, <2>1, <2>3, <3>1, Joined
  <2>4. CASE ~told(a) /\ told(b) /\ b # a
    <3>1. x = <<>> /\ y = <<b>>
      BY <2>4 DEF x, y
    <3>2. <<>> \o <<b>> = <<b>>
      OBVIOUS
    <3> QED
      BY Zenon, <1>2, <3>1, <3>2
  <2>5. CASE ~told(a) /\ ~(told(b) /\ b # a)
    <3>1. x = <<>> /\ y = <<>>
      BY <2>5 DEF x, y
    <3>2. <<>> \o <<>> = <<>>
      OBVIOUS
    <3> QED
      BY Zenon, <1>2, <3>1, <3>2
  <2> QED
    BY <2>2, <2>3, <2>4, <2>5
<1>5. /\ Targets(c) \in Seq(Users)
      /\ \A i, k \in DOMAIN Targets(c) : Targets(c)[i] = Targets(c)[k] => i = k
  <2>1. CASE Targets(c) = <<>>
    BY <2>1
  <2>2. CASE Targets(c) = <<a>> /\ a \in Users
    BY <2>2
  <2>3. CASE Targets(c) = <<b>>
    BY <1>1, <2>3
  <2>4. CASE Targets(c) = <<a>> \o <<b>> /\ a \in Users /\ a # b
    <3>1. /\ Targets(c) \in Seq({a, b}) /\ Len(Targets(c)) = 2
          /\ Targets(c)[1] = a /\ Targets(c)[2] = b
      BY <2>4, Joined
    <3>2. Targets(c) \in Seq(Users)
      BY <1>1, <2>4, <3>1
    <3> QED
      BY <2>4, <3>1, <3>2
  <2> QED
    BY <1>3, <2>1, <2>2, <2>3, <2>4
<1>6. DOMAIN Targets(c) = 1..Len(Targets(c)) /\ Len(Targets(c)) \in Nat
  BY <1>5
<1>7. ASSUME NEW i \in DOMAIN Targets(c)
      PROVE  /\ Targets(c)[i] \in Users
             /\ <<"notification", c, Targets(c)[i]>> \in Jobs
             /\ <<"email", c, Targets(c)[i]>> \in Jobs
  <2>1. Targets(c)[i] \in Users
    BY <1>5, <1>6, <1>7
  <2> QED
    BY <2>1 DEF Jobs, SendQueues
<1> QED
  BY <1>5, <1>6, <1>7

\* What a request takes from its targets.
LEMMA RestIs ==
  ASSUME NEW s \in Seq(Users), s # <<>>
  PROVE  /\ Len(s) >= 1 /\ Head(s) = s[1] /\ Head(s) \in Users /\ Tail(s) \in Seq(Users)
         /\ Len(Tail(s)) = Len(s) - 1
         /\ \A i \in 1..Len(Tail(s)) : Tail(s)[i] = s[i + 1]
  OBVIOUS

---------------------------------------------------------------------------
(* Steps of a job and steps of a request *)

\* What a request told stays when only jobs of others, or how far its jobs are,
\* change.
LEMMA Unmoved ==
  ASSUME TypeOK, NEW c \in Reqs, people' = people, req'[c] = req[c], notes'[c] = notes[c],
         c \in comment' <=> c \in comment, 
         \A j \in Jobs : j[2] = c => job'[j].added = job[j].added,
         Tells(c), Stored(c), Unlogged(c)
  PROVE  Tells(c)' /\ Stored(c)' /\ Unlogged(c)'
<1>1. Targets(c)' = Targets(c)
  BY DEF Targets
<1>2. \A i \in DOMAIN Targets(c) : /\ Row(c, i)' = Row(c, i) /\ Pushed(c, i)' = Pushed(c, i)
                                   /\ Mailed(c, i)' = Mailed(c, i)
  BY <1>1, TargetsAre DEF Row, Pushed, Mailed
<1>3. \A i \in DOMAIN Targets(c) : Whole(c, i)' = Whole(c, i) /\ Untold(c, i)' = Untold(c, i)
  BY <1>2 DEF Whole, Untold, Stage
<1>4. Done(c)' = Done(c) /\ Rest(c)' = Rest(c)
  BY <1>1 DEF Done, Rest
<1>5. Ordered(c)' = Ordered(c)
  BY <1>1, <1>2, <1>3 DEF Ordered
<1>6. req[c].at \in Looping /\ req[c].at # "next" => Current(c)'
  <2> SUFFICES ASSUME req[c].at \in Looping, req[c].at # "next"
               PROVE  Current(c)'
    OBVIOUS
  <2>1. Rest(c) /\ req[c].todo # <<>> /\ Current(c) /\ req[c].todo \in Seq(Users)
    BY DEF Tells, TypeOK
  <2>2. Done(c) + 1 \in DOMAIN Targets(c)
    <3>1. Len(req[c].todo) >= 1 /\ Len(req[c].todo) \in Nat
      BY <2>1
    <3>2. Len(Targets(c)) \in Nat /\ DOMAIN Targets(c) = 1..Len(Targets(c))
      BY TargetsAre
    <3> QED
      BY <2>1, <3>1, <3>2 DEF Rest, Done
  <2> QED
    BY <1>2, <1>3, <1>4, <2>1, <2>2 DEF Current, Stage
<1>7. Tells(c)'
  BY <1>1, <1>3, <1>4, <1>5, <1>6 DEF Tells
<1>8. Stored(c)'
  BY DEF Stored
<1>9. Unlogged(c)'
  BY DEF Unlogged, Jobs, LogQueues
<1> QED
  BY <1>7, <1>8, <1>9

LEMMA JobMoves ==
  ASSUME IInv, NEW j \in Jobs, job' \in [Jobs -> JobRecord], Runs(j)',
         \A i \in Jobs \ {j} : job'[i] = job[i], job'[j].added = job[j].added,
         UNCHANGED <<people, comment, notes, req>>, live' \in BOOLEAN, faults' \in 0..MaxFaults
  PROVE  IInv'
<1>1. TypeOK'
  BY DEF IInv, TypeOK, JobRecord
<1>2. \A c \in Reqs : Tells(c)' /\ Stored(c)' /\ Unlogged(c)'
  BY Unmoved DEF IInv, TypeOK
<1>3. \A i \in Jobs : Runs(i)'
  BY DEF IInv, Runs
<1> QED
  BY <1>1, <1>2, <1>3 DEF IInv

LEMMA ReqMoves ==
  ASSUME IInv, NEW c \in Reqs, NEW r \in ReqRecord, req' = [req EXCEPT ![c] = r],
         people' = people, live' = live, comment' \in SUBSET Reqs, faults' \in 0..MaxFaults,
         notes' \in [Reqs -> [Users -> Nat]], job' \in [Jobs -> JobRecord],
         \A d \in Reqs \ {c} : notes'[d] = notes[d] /\ (d \in comment' <=> d \in comment),
         \A j \in Jobs : j[2] # c => job'[j] = job[j],
         \A j \in Jobs : Runs(j)',
         Tells(c)', Stored(c)', Unlogged(c)'
  PROVE  IInv'
<1>1. req \in [Reqs -> ReqRecord] /\ req' \in [Reqs -> ReqRecord]
      /\ \A d \in Reqs \ {c} : req'[d] = req[d]
  BY DEF IInv, TypeOK, ReqRecord
<1>2. TypeOK'
  BY <1>1 DEF IInv, TypeOK, JobRecord, ReqRecord
<1>3. ASSUME NEW d \in Reqs, d # c
      PROVE  Tells(d)' /\ Stored(d)' /\ Unlogged(d)'
  BY <1>1, <1>3, Unmoved DEF IInv
<1> QED
  BY <1>2, <1>3 DEF IInv

---------------------------------------------------------------------------
(* Jobs *)

LEMMA EditAt ==
  ASSUME NEW o \in JobRecord, NEW at \in {"none", "waiting", "active", "done", "failed"}
  PROVE  LET r == [o EXCEPT !.at = at]
         IN  /\ r \in JobRecord /\ r.at = at /\ r.added = o.added /\ r.tries = o.tries
             /\ r.stalls = o.stalls /\ r.runs = o.runs
  BY DEF JobRecord

LEMMA EditAdded ==
  ASSUME NEW o \in JobRecord, NEW n \in Nat
  PROVE  LET r == [o EXCEPT !.added = n]
         IN  /\ r \in JobRecord /\ r.at = o.at /\ r.added = n /\ r.tries = o.tries
             /\ r.stalls = o.stalls /\ r.runs = o.runs
  BY DEF JobRecord

LEMMA EditRuns ==
  ASSUME NEW o \in JobRecord, NEW n \in Nat
  PROVE  LET r == [o EXCEPT !.runs = n]
         IN  /\ r \in JobRecord /\ r.at = o.at /\ r.added = o.added /\ r.tries = o.tries
             /\ r.stalls = o.stalls /\ r.runs = n
  BY DEF JobRecord

LEMMA EditTries ==
  ASSUME NEW o \in JobRecord, NEW n \in 0..Attempts
  PROVE  LET r == [o EXCEPT !.tries = n]
         IN  /\ r \in JobRecord /\ r.at = o.at /\ r.added = o.added /\ r.tries = n
             /\ r.stalls = o.stalls /\ r.runs = o.runs
  BY DEF JobRecord

LEMMA EditStalls ==
  ASSUME NEW o \in JobRecord, NEW n \in 0..MaxStalls + 1
  PROVE  LET r == [o EXCEPT !.stalls = n]
         IN  /\ r \in JobRecord /\ r.at = o.at /\ r.added = o.added /\ r.tries = o.tries
             /\ r.stalls = n /\ r.runs = o.runs
  BY DEF JobRecord

\* A change of one job.
LEMMA OneJob ==
  ASSUME IInv, NEW j \in Jobs, NEW r \in JobRecord, job' = [job EXCEPT ![j] = r]
  PROVE  /\ job' \in [Jobs -> JobRecord] /\ job'[j] = r
         /\ \A i \in Jobs \ {j} : job'[i] = job[i]
  BY DEF IInv, TypeOK, JobRecord

LEMMA AddedIs ==
  ASSUME IInv, NEW j \in Jobs, job[j].added = 0, job' = Added(j)
  PROVE  /\ job' \in [Jobs -> JobRecord] /\ job'[j].added = 1
         /\ \A i \in Jobs \ {j} : job'[i] = job[i]
         /\ \A i \in Jobs : Runs(i)'
<1> DEFINE o == job[j]
           g == [o EXCEPT !.added = 1]
           r == [g EXCEPT !.at = "waiting"]
<1>1. o \in JobRecord /\ o.added = 0 /\ Runs(j)
  BY DEF IInv, TypeOK, JobRecord
<1>2. o.tries = 0 /\ o.stalls = 0 /\ o.runs = 0
  BY <1>1 DEF Runs, NoJob
<1>3. job' = [job EXCEPT ![j] = r]
  <2>1. 0 + 1 = 1
    OBVIOUS
  <2>2. [o EXCEPT !.added = o.added + 1, !.at = "waiting"]
        = [[o EXCEPT !.added = o.added + 1] EXCEPT !.at = "waiting"]
    BY Zenon
  <2>3. r = [[o EXCEPT !.added = o.added + 1] EXCEPT !.at = "waiting"]
    BY Zenon, <1>1, <2>1
  <2> QED
    BY Zenon, <2>2, <2>3 DEF Added
<1>4. /\ g \in JobRecord /\ g.added = 1 /\ g.tries = o.tries /\ g.stalls = o.stalls
      /\ g.runs = o.runs
  BY <1>1, EditAdded
<1> HIDE DEF g
<1>5. /\ r \in JobRecord /\ r.at = "waiting" /\ r.added = 1 /\ r.tries = 0 /\ r.stalls = 0
      /\ r.runs = 0
  BY <1>2, <1>4, EditAt
<1> HIDE DEF r
<1>6. /\ job' \in [Jobs -> JobRecord] /\ job'[j] = r
      /\ \A i \in Jobs \ {j} : job'[i] = job[i]
  BY <1>3, <1>5, OneJob
<1>7. ASSUME NEW i \in Jobs
      PROVE  Runs(i)'
  <2>1. CASE i = j
    BY <1>5, <1>6, <2>1 DEF Runs, MaxStalls, Attempts
  <2>2. CASE i # j
    BY <1>6, <2>2 DEF IInv, Runs
  <2> QED
    BY <2>1, <2>2
<1> QED
  BY <1>5, <1>6, <1>7

LEMMA TakeKeeps ==
  ASSUME IInv, NEW j \in Jobs, Take(j)
  PROVE  IInv'
<1> DEFINE o == job[j]
           r == [o EXCEPT !.at = "active"]
<1>1. o \in JobRecord /\ Runs(j) /\ o.at = "waiting"
  BY DEF IInv, TypeOK, JobRecord, Take
<1>2. job' = [job EXCEPT ![j] = r]
  BY DEF Take
<1>3. /\ r \in JobRecord /\ r.at = "active" /\ r.added = o.added /\ r.tries = o.tries
      /\ r.stalls = o.stalls /\ r.runs = o.runs
  BY <1>1, EditAt
<1> HIDE DEF r
<1>4. /\ job' \in [Jobs -> JobRecord] /\ job'[j] = r
      /\ \A i \in Jobs \ {j} : job'[i] = job[i]
  BY <1>2, <1>3, OneJob
<1>5. Runs(j)'
  BY <1>1, <1>3, <1>4 DEF Runs
<1>6. /\ UNCHANGED <<people, comment, notes, req>> /\ live' \in BOOLEAN
      /\ faults' \in 0..MaxFaults
  BY DEF IInv, TypeOK, Take
<1> QED
  BY <1>3, <1>4, <1>5, <1>6, JobMoves

LEMMA RunKeeps ==
  ASSUME IInv, NEW j \in Jobs, Run(j)
  PROVE  IInv'
<1> DEFINE o == job[j]
           g == [o EXCEPT !.at = "done"]
           r == [g EXCEPT !.runs = o.runs + 1]
<1>1. o \in JobRecord /\ Runs(j) /\ o.at = "active"
  BY DEF IInv, TypeOK, JobRecord, Run
<1>2. /\ g \in JobRecord /\ g.at = "done" /\ g.added = o.added /\ g.tries = o.tries
      /\ g.stalls = o.stalls /\ g.runs = o.runs
  BY <1>1, EditAt
<1>3. job' = [job EXCEPT ![j] = r]
  <2>1. [o EXCEPT !.at = "done", !.runs = o.runs + 1]
        = [[o EXCEPT !.at = "done"] EXCEPT !.runs = o.runs + 1]
    BY Zenon, <1>2
  <2> QED
    BY Zenon, <2>1 DEF Run
<1> HIDE DEF g
<1>4. o.runs \in Nat /\ o.stalls \in Nat
  BY <1>1 DEF JobRecord
<1>5. /\ r \in JobRecord /\ r.at = "done" /\ r.added = o.added
      /\ r.stalls = o.stalls /\ r.runs = o.runs + 1
  BY <1>2, <1>4, EditRuns
<1> HIDE DEF r
<1>6. /\ job' \in [Jobs -> JobRecord] /\ job'[j] = r
      /\ \A i \in Jobs \ {j} : job'[i] = job[i]
  BY <1>3, <1>5, OneJob
<1>7. Runs(j)'
  BY <1>1, <1>4, <1>5, <1>6 DEF Runs
<1>8. /\ UNCHANGED <<people, comment, notes, req>> /\ live' \in BOOLEAN
      /\ faults' \in 0..MaxFaults
  BY DEF IInv, TypeOK, Run
<1> QED
  BY <1>5, <1>6, <1>7, <1>8, JobMoves

LEMMA FaultIs ==
  ASSUME IInv, NEW f, Fault(f)
  PROVE  faults' \in 0..MaxFaults
  BY DeliveryAssumption DEF IInv, TypeOK, Fault

LEMMA ThrowKeeps ==
  ASSUME IInv, NEW j \in Jobs, Throw(j)
  PROVE  IInv'
<1> DEFINE o == job[j]
           at == IF o.tries + 1 < Attempts THEN "waiting" ELSE "failed"
           g == [o EXCEPT !.tries = o.tries + 1]
           r == [g EXCEPT !.at = at]
<1>1. o \in JobRecord /\ Runs(j) /\ o.at = "active"
  BY DEF IInv, TypeOK, JobRecord, Throw, CannotStore
<1>2. /\ o.tries \in Nat /\ o.stalls \in Nat /\ o.runs \in Nat /\ o.tries + 1 \in 0..Attempts
      /\ o.tries < Attempts
  BY <1>1 DEF Runs, JobRecord, Attempts, MaxStalls
<1>3. /\ g \in JobRecord /\ g.at = "active" /\ g.added = o.added /\ g.tries = o.tries + 1
      /\ g.stalls = o.stalls /\ g.runs = o.runs
  BY <1>1, <1>2, EditTries
<1>4. job' = [job EXCEPT ![j] = r]
  <2>1. [o EXCEPT !.tries = o.tries + 1, !.at = at]
        = [[o EXCEPT !.tries = o.tries + 1] EXCEPT !.at = at]
    BY Zenon
  <2> QED
    BY Zenon, <2>1 DEF Throw
<1> HIDE DEF g
<1>5. at \in {"none", "waiting", "active", "done", "failed"}
  OBVIOUS
<1>6. /\ r \in JobRecord /\ r.at = at /\ r.added = o.added /\ r.tries = o.tries + 1
      /\ r.stalls = o.stalls /\ r.runs = o.runs
  BY <1>3, <1>5, EditAt
<1> HIDE DEF r
<1>7. /\ job' \in [Jobs -> JobRecord] /\ job'[j] = r
      /\ \A i \in Jobs \ {j} : job'[i] = job[i]
  BY <1>4, <1>6, OneJob
<1>8. Runs(j)'
  BY <1>1, <1>2, <1>6, <1>7 DEF Runs, Attempts
<1>9. /\ UNCHANGED <<people, comment, notes, req>> /\ live' \in BOOLEAN
      /\ faults' \in 0..MaxFaults
  <2>1. faults' = faults \/ faults' \in 0..MaxFaults
    BY FaultIs DEF Throw, CannotStore
  <2> QED
    BY <2>1 DEF IInv, TypeOK, Throw, CannotStore
<1> QED
  BY <1>6, <1>7, <1>8, <1>9, JobMoves

LEMMA StallKeeps ==
  ASSUME IInv, NEW j \in Jobs, Stall(j)
  PROVE  IInv'
<1> DEFINE o == job[j]
           at == IF o.stalls < MaxStalls THEN "waiting" ELSE "failed"
<1>1. o \in JobRecord /\ Runs(j) /\ o.at = "active"
  BY DEF IInv, TypeOK, JobRecord, Stall
<1>2. PICK ran \in {0, 1} :
        job' = [job EXCEPT ![j] = [o EXCEPT !.stalls = o.stalls + 1,
                                            !.runs = o.runs + ran, !.at = at]]
  BY Zenon DEF Stall
<1> DEFINE g == [o EXCEPT !.stalls = o.stalls + 1]
           h == [g EXCEPT !.runs = o.runs + ran]
           r == [h EXCEPT !.at = at]
<1>3. /\ o.stalls \in Nat /\ o.runs \in Nat /\ o.stalls + 1 \in 0..MaxStalls + 1
      /\ o.runs <= o.stalls /\ o.stalls <= MaxStalls /\ o.tries < Attempts
  BY <1>1 DEF Runs, JobRecord, MaxStalls
<1>4. /\ g \in JobRecord /\ g.at = "active" /\ g.added = o.added /\ g.tries = o.tries
      /\ g.stalls = o.stalls + 1 /\ g.runs = o.runs
  BY <1>1, <1>3, EditStalls
<1>5. job' = [job EXCEPT ![j] = r]
  <2>1. [o EXCEPT !.stalls = o.stalls + 1, !.runs = o.runs + ran, !.at = at]
        = [[[o EXCEPT !.stalls = o.stalls + 1] EXCEPT !.runs = o.runs + ran]
            EXCEPT !.at = at]
    BY Zenon
  <2> QED
    BY Zenon, <1>2, <2>1
<1> HIDE DEF g
<1>6. o.runs + ran \in Nat
  BY <1>3
<1>7. /\ h \in JobRecord /\ h.at = "active" /\ h.added = o.added /\ h.tries = o.tries
      /\ h.stalls = o.stalls + 1 /\ h.runs = o.runs + ran
  BY <1>4, <1>6, EditRuns
<1> HIDE DEF h
<1>8. at \in {"none", "waiting", "active", "done", "failed"}
  OBVIOUS
<1>9. /\ r \in JobRecord /\ r.at = at /\ r.added = o.added /\ r.tries = o.tries
      /\ r.stalls = o.stalls + 1 /\ r.runs = o.runs + ran
  BY <1>7, <1>8, EditAt
<1> HIDE DEF r
<1>10. /\ job' \in [Jobs -> JobRecord] /\ job'[j] = r
       /\ \A i \in Jobs \ {j} : job'[i] = job[i]
  BY <1>5, <1>9, OneJob
<1>11. Runs(j)'
  BY <1>1, <1>3, <1>9, <1>10 DEF Runs, MaxStalls
<1>12. /\ UNCHANGED <<people, comment, notes, req>> /\ live' \in BOOLEAN
       /\ faults' \in 0..MaxFaults
  BY FaultIs DEF IInv, TypeOK, Stall
<1> QED
  BY <1>9, <1>10, <1>11, <1>12, JobMoves

LEMMA RemoveKeeps ==
  ASSUME IInv, Remove
  PROVE  IInv'
<1>1. /\ people' = people /\ comment' = comment /\ notes' = notes /\ job' = job /\ req' = req
      /\ live' = FALSE /\ faults' \in 0..MaxFaults
  BY FaultIs DEF Remove
<1>2. TypeOK'
  BY <1>1 DEF IInv, TypeOK
<1>3. \A c \in Reqs : Tells(c)' /\ Stored(c)' /\ Unlogged(c)'
  BY <1>1, Unmoved DEF IInv
<1>4. \A j \in Jobs : Runs(j)'
  BY <1>1 DEF IInv, Runs
<1> QED
  BY <1>2, <1>3, <1>4 DEF IInv
---------------------------------------------------------------------------
(* Requests *)

LEMMA GoIs ==
  ASSUME TypeOK, NEW c \in Reqs, NEW at \in Places
  PROVE  /\ GoTo(c, at) \in ReqRecord /\ GoTo(c, at).at = at
         /\ GoTo(c, at).todo = req[c].todo /\ GoTo(c, at).code = req[c].code
<1>1. req[c] \in ReqRecord
  BY DEF TypeOK, ReqRecord
<1> QED
  BY <1>1 DEF GoTo, ReqRecord

LEMMA AnswerIs ==
  ASSUME TypeOK, NEW c \in Reqs, NEW code \in {201, 404, 500}
  PROVE  /\ Answer(c, code) \in ReqRecord /\ Answer(c, code).at = "reply"
         /\ Answer(c, code).todo = req[c].todo /\ Answer(c, code).code = code
<1> DEFINE o == req[c]
           g == [o EXCEPT !.at = "reply"]
           r == [g EXCEPT !.code = code]
<1>1. o \in ReqRecord
  BY DEF TypeOK, ReqRecord
<1>2. Answer(c, code) = r
  BY Zenon DEF Answer
<1>3. g \in ReqRecord /\ g.at = "reply" /\ g.todo = o.todo
  BY <1>1 DEF ReqRecord, Places
<1> HIDE DEF g
<1>4. r \in ReqRecord /\ r.at = "reply" /\ r.todo = o.todo /\ r.code = code
  BY <1>3 DEF ReqRecord
<1> QED
  BY Zenon, <1>2, <1>4

\* A change of one request.
LEMMA OneReq ==
  ASSUME TypeOK, NEW c \in Reqs, NEW r \in ReqRecord, req' = [req EXCEPT ![c] = r]
  PROVE  req'[c] = r
  BY DEF TypeOK

\* What is told of a comment is what its rows and its pushes and mails say.
LEMMA SameTold ==
  ASSUME TypeOK, NEW c \in Reqs, people' = people, notes'[c] = notes[c],
         \A j \in Jobs : j[1] \in SendQueues => job'[j].added = job[j].added
  PROVE  /\ Targets(c)' = Targets(c)
         /\ \A i \in DOMAIN Targets(c) : Whole(c, i)' = Whole(c, i)
         /\ \A i \in DOMAIN Targets(c) : Untold(c, i)' = Untold(c, i)
         /\ Ordered(c)' = Ordered(c)
<1>1. Targets(c)' = Targets(c)
  BY DEF Targets
<1>2. \A i \in DOMAIN Targets(c) : /\ Row(c, i)' = Row(c, i) /\ Pushed(c, i)' = Pushed(c, i)
                                   /\ Mailed(c, i)' = Mailed(c, i)
  BY <1>1, TargetsAre DEF Row, Pushed, Mailed, SendQueues
<1>3. \A i \in DOMAIN Targets(c) : Whole(c, i)' = Whole(c, i) /\ Untold(c, i)' = Untold(c, i)
  BY <1>2 DEF Whole, Untold, Stage
<1>4. Ordered(c)' = Ordered(c)
  BY <1>1, <1>2, <1>3 DEF Ordered
<1> QED
  BY <1>1, <1>3, <1>4

\* A request that goes on has stored its comment.
LEMMA WasStored ==
  ASSUME IInv, NEW c \in Reqs, req[c].at \in {"audit", "activity"} \cup Looping
  PROVE  c \in comment /\ req[c].code = 0 /\ Tells(c)
<1>1. Tells(c) /\ Stored(c)
  BY DEF IInv
<1>2. req[c].code = 0
  BY <1>1 DEF Tells, Over1, Looping
<1> QED
  BY <1>1, <1>2 DEF Stored, Looping

\* The target a request is at.
LEMMA AtTarget ==
  ASSUME IInv, NEW c \in Reqs, req[c].at \in Looping, req[c].todo # <<>>
  PROVE  /\ Done(c) \in Nat /\ Done(c) + 1 \in DOMAIN Targets(c)
         /\ Head(req[c].todo) = Targets(c)[Done(c) + 1]
         /\ Len(req[c].todo) \in Nat
<1>1. Rest(c) /\ req[c].todo \in Seq(Users)
  BY DEF IInv, Tells, TypeOK
<1>2. /\ Len(req[c].todo) \in Nat /\ Len(req[c].todo) >= 1
      /\ Head(req[c].todo) = req[c].todo[1]
  BY <1>1
<1>3. Len(Targets(c)) \in Nat /\ DOMAIN Targets(c) = 1..Len(Targets(c))
  BY TargetsAre DEF IInv
<1>4. Done(c) \in Nat /\ Done(c) + 1 \in DOMAIN Targets(c)
  BY <1>1, <1>2, <1>3 DEF Rest, Done
<1>5. 1 \in 1..Len(req[c].todo)
  BY <1>2
<1>6. req[c].todo[1] = Targets(c)[Done(c) + 1]
  BY <1>1, <1>5 DEF Rest
<1> QED
  BY Zenon, <1>2, <1>4, <1>6

LEMMA InOrder ==
  ASSUME IInv, NEW c \in Reqs, req[c].at \in {"note", "notification", "email"}
  PROVE  Ordered(c)
<1>1. /\ Tells(c) /\ req[c].at \in Looping /\ req[c].at # "next" /\ req[c].todo # <<>>
      /\ Current(c)
  BY DEF IInv, Tells, Looping
<1> DEFINE k == Done(c) + 1
<1>2. Done(c) \in Nat /\ k \in DOMAIN Targets(c) /\ DOMAIN Targets(c) \subseteq Nat
  BY <1>1, AtTarget, TargetsAre DEF IInv
<1>3. \/ Untold(c, k)
      \/ Stage(c, k, 1, 0, 0)
      \/ Stage(c, k, 1, 1, 0)
  BY <1>1 DEF Current
<1>4. \A i \in DOMAIN Targets(c) : /\ i < k => Whole(c, i)
                                   /\ i > k => Untold(c, i)
  BY <1>1, <1>2 DEF Tells
<1>5. \A i \in DOMAIN Targets(c) : i < k \/ i = k \/ i > k
  BY <1>2
<1>6. \A i \in DOMAIN Targets(c) : /\ 1 >= Row(c, i) /\ Row(c, i) >= Pushed(c, i)
                                   /\ Pushed(c, i) >= Mailed(c, i)
  BY <1>3, <1>4, <1>5 DEF Whole, Untold, Stage
<1>7. \A i, j \in DOMAIN Targets(c) : i < j => Whole(c, i) \/ Untold(c, j)
  BY <1>2, <1>4, <1>5
<1> QED
  BY <1>6, <1>7 DEF Ordered

\* A request that is answered here.
AnsweredHere(c, code) ==
  /\ req' = [req EXCEPT ![c] = Answer(c, code)]
  /\ UNCHANGED <<people, live, comment, notes, job>> /\ faults' \in 0..MaxFaults
  /\ Ordered(c)
  /\ code = 201 => c \in comment /\ \A i \in DOMAIN Targets(c) : Whole(c, i)

LEMMA AnswerKeeps ==
  ASSUME IInv, NEW c \in Reqs, NEW code \in {201, 404, 500}, AnsweredHere(c, code)
  PROVE  IInv'
<1>0. TypeOK
  BY DEF IInv
<1>1. PICK r \in ReqRecord : r = Answer(c, code) /\ r.at = "reply" /\ r.code = code
  BY <1>0, AnswerIs
<1>2. req' = [req EXCEPT ![c] = r]
  BY <1>1 DEF AnsweredHere
<1>3. req'[c] = r
  BY <1>0, <1>1, <1>2, OneReq
<1>4. /\ Targets(c)' = Targets(c) /\ Ordered(c)'
      /\ \A i \in DOMAIN Targets(c) : Whole(c, i)' = Whole(c, i)
  BY <1>0, SameTold DEF AnsweredHere
<1>5. Tells(c)'
  <2>1. \A u \in Users : notes'[c][u] > 0 => \E i \in DOMAIN Targets(c) : Targets(c)[i] = u
    BY DEF IInv, Tells, AnsweredHere
  <2> QED
    BY <1>1, <1>3, <1>4, <2>1 DEF AnsweredHere, Tells, Places1, Looping, Over1
<1>6. Stored(c)'
  BY <1>1, <1>3 DEF AnsweredHere, IInv, Stored
<1>7. Unlogged(c)'
  BY <1>1, <1>3 DEF Unlogged, Places1
<1>8. /\ comment' \in SUBSET Reqs /\ notes' \in [Reqs -> [Users -> Nat]]
      /\ job' \in [Jobs -> JobRecord] /\ \A j \in Jobs : Runs(j)'
  BY DEF AnsweredHere, IInv, TypeOK, JobRecord, Runs
<1> QED
  BY <1>1, <1>2, <1>5, <1>6, <1>7, <1>8, ReqMoves DEF AnsweredHere

\* Nothing said is in order.
LEMMA NothingInOrder ==
  ASSUME IInv, NEW c \in Reqs, req[c].at \in Places1
  PROVE  Ordered(c) /\ \A i \in DOMAIN Targets(c) : Untold(c, i)
<1>1. \A i \in DOMAIN Targets(c) : Untold(c, i)
  BY DEF IInv, Tells
<1> QED
  BY <1>1 DEF Ordered, Untold, Stage

LEMMA LoadKeeps ==
  ASSUME IInv, NEW c \in Reqs, Load(c)
  PROVE  IInv'
<1>0. TypeOK /\ faults' \in 0..MaxFaults /\ req[c].at = "idle" /\ req[c].at \in Places1
  BY DEF IInv, TypeOK, Load, Step, Places1
<1>1. CASE ~live
  <2>1. PICK code \in {201, 404, 500} : code = 404
    OBVIOUS
  <2>2. Ordered(c)
    BY <1>0, NothingInOrder
  <2>3. AnsweredHere(c, code)
    BY <1>0, <1>1, <2>1, <2>2 DEF AnsweredHere, Load, Step
  <2> QED
    BY <2>3, AnswerKeeps
<1>2. CASE live
  <2> DEFINE r == [at |-> "store", todo |-> Targets(c), code |-> 0]
  <2>1. req' = [req EXCEPT ![c] = r]
    BY <1>2 DEF Load, Step
  <2>2. r \in ReqRecord /\ r.at = "store" /\ r.todo = Targets(c) /\ r.code = 0
    <3>1. Targets(c) \in Seq(Users)
      BY <1>0, TargetsAre
    <3> QED
      BY <3>1 DEF ReqRecord, Places
  <2> HIDE DEF r
  <2>3. req'[c] = r
    BY <1>0, <2>1, <2>2, OneReq
  <2>4. /\ Targets(c)' = Targets(c)
        /\ \A i \in DOMAIN Targets(c) : Untold(c, i)' = Untold(c, i)
    BY <1>0, SameTold DEF Load
  <2>5. Tells(c)'
    <3>1. \A u \in Users : notes'[c][u] > 0 => \E i \in DOMAIN Targets(c) : Targets(c)[i] = u
      BY DEF IInv, Tells, Load
    <3> QED
      BY <1>0, <2>2, <2>3, <2>4, <3>1, NothingInOrder DEF Tells, Places1, Looping, Over1
  <2>6. Stored(c)' /\ Unlogged(c)'
    BY <1>0, <2>2, <2>3 DEF IInv, Stored, Unlogged, Places1, Load
  <2>7. /\ comment' \in SUBSET Reqs /\ notes' \in [Reqs -> [Users -> Nat]]
        /\ job' \in [Jobs -> JobRecord] /\ \A j \in Jobs : Runs(j)'
    BY DEF IInv, TypeOK, JobRecord, Runs, Load
  <2> QED
    BY <1>0, <2>1, <2>2, <2>5, <2>6, <2>7, ReqMoves DEF Load
<1> QED
  BY <1>1, <1>2

LEMMA StoreKeeps ==
  ASSUME IInv, NEW c \in Reqs, Store(c)
  PROVE  IInv'
<1>0. TypeOK /\ faults' \in 0..MaxFaults /\ req[c].at = "store" /\ req[c].at \in Places1
  BY DEF IInv, TypeOK, Store, Step, Places1
<1>1. CASE ~live
  <2>1. PICK code \in {201, 404, 500} : code = 500
    OBVIOUS
  <2>2. Ordered(c)
    BY <1>0, NothingInOrder
  <2>3. AnsweredHere(c, code)
    BY <1>0, <1>1, <2>1, <2>2 DEF AnsweredHere, Store, Step
  <2> QED
    BY <2>3, AnswerKeeps
<1>2. CASE live
  <2> DEFINE r == GoTo(c, "audit")
  <2>1. req' = [req EXCEPT ![c] = r] /\ comment' = comment \cup {c}
    BY <1>2 DEF Store, Step
  <2>2. r \in ReqRecord /\ r.at = "audit" /\ r.todo = req[c].todo /\ r.code = req[c].code
    BY <1>0, GoIs DEF Places
  <2> HIDE DEF r
  <2>3. req'[c] = r
    BY <1>0, <2>1, <2>2, OneReq
  <2>4. /\ Targets(c)' = Targets(c)
        /\ \A i \in DOMAIN Targets(c) : Untold(c, i)' = Untold(c, i)
    BY <1>0, SameTold DEF Store
  <2>5. req[c].todo = Targets(c) /\ req[c].code = 0
    BY <1>0 DEF IInv, Tells, Over1
  <2>6. Tells(c)'
    <3>1. \A u \in Users : notes'[c][u] > 0 => \E i \in DOMAIN Targets(c) : Targets(c)[i] = u
      BY DEF IInv, Tells, Store
    <3> QED
      BY <1>0, <2>2, <2>3, <2>4, <2>5, <3>1, NothingInOrder
      DEF Tells, Places1, Looping, Over1
  <2>7. Stored(c)' /\ Unlogged(c)'
    BY <1>0, <2>1, <2>2, <2>3 DEF IInv, Stored, Unlogged, Places1, Store
  <2>8. /\ comment' \in SUBSET Reqs /\ notes' \in [Reqs -> [Users -> Nat]]
        /\ job' \in [Jobs -> JobRecord] /\ \A j \in Jobs : Runs(j)'
        /\ \A d \in Reqs \ {c} : d \in comment' <=> d \in comment
    BY <2>1 DEF IInv, TypeOK, JobRecord, Runs, Store
  <2> QED
    BY <1>0, <2>1, <2>2, <2>6, <2>7, <2>8, ReqMoves DEF Store
<1> QED
  BY <1>1, <1>2
\* What every step of a request leaves alone.
RestMoves(c) ==
  /\ people' = people /\ live' = live /\ comment' \in SUBSET Reqs /\ faults' \in 0..MaxFaults
  /\ notes' \in [Reqs -> [Users -> Nat]] /\ job' \in [Jobs -> JobRecord]
  /\ \A d \in Reqs \ {c} : notes'[d] = notes[d] /\ (d \in comment' <=> d \in comment)
  /\ \A j \in Jobs : j[2] # c => job'[j] = job[j]
  /\ \A j \in Jobs : Runs(j)'

LEMMA Moves ==
  ASSUME IInv, NEW c \in Reqs, NEW r \in ReqRecord, req' = [req EXCEPT ![c] = r],
         RestMoves(c), Tells(c)', Stored(c)', Unlogged(c)'
  PROVE  IInv'
  BY ReqMoves DEF RestMoves

\* A job is added, or nothing but the count of faults changes.
LEMMA JobsMove ==
  ASSUME IInv, NEW c \in Reqs, NEW j \in Jobs, j[2] = c, job[j].added = 0,
         UNCHANGED <<people, live, comment, notes>>,
         \/ job' = Added(j) /\ faults' = faults
         \/ job' = job /\ Fault("queue")
  PROVE  /\ RestMoves(c)
         /\ \A i \in Jobs \ {j} : job'[i].added = job[i].added
         /\ job' = Added(j) => job'[j].added = 1
<1>1. faults' \in 0..MaxFaults
  BY FaultIs DEF IInv, TypeOK
<1>2. CASE job' = Added(j)
  <2>1. /\ job' \in [Jobs -> JobRecord] /\ job'[j].added = 1
        /\ \A i \in Jobs \ {j} : job'[i] = job[i]
        /\ \A i \in Jobs : Runs(i)'
    BY <1>2, AddedIs
  <2> QED
    BY <1>1, <2>1 DEF RestMoves, IInv, TypeOK
<1>3. CASE job' = job /\ job' # Added(j)
  BY <1>1, <1>3 DEF RestMoves, IInv, TypeOK, JobRecord, Runs
<1> QED
  BY <1>2, <1>3

LEMMA LogJobs ==
  ASSUME NEW c \in Reqs
  PROVE  /\ \A q \in LogQueues : <<q, c, None>> \in Jobs
         /\ \A u \in Users, q \in SendQueues : <<q, c, u>> \in Jobs
  BY DEF Jobs

LEMMA AuditKeeps ==
  ASSUME IInv, NEW c \in Reqs, Audit(c)
  PROVE  IInv'
<1> DEFINE r == GoTo(c, "activity")
           j == <<"audit", c, None>>
<1>0. TypeOK /\ req[c].at = "audit" /\ req[c].at \in Places1
  BY DEF IInv, Audit, Log, Step, Places1
<1>1. req' = [req EXCEPT ![c] = r]
  BY DEF Audit, Log, Step
<1>2. r \in ReqRecord /\ r.at = "activity" /\ r.todo = req[c].todo /\ r.code = req[c].code
  BY <1>0, GoIs DEF Places
<1> HIDE DEF r
<1>3. req'[c] = r
  BY <1>0, <1>1, <1>2, OneReq
<1>4. j \in Jobs /\ j[2] = c /\ j[1] = "audit" /\ job[j].added = 0
  BY <1>0, LogJobs DEF LogQueues, IInv, Unlogged
<1>5. \/ job' = Added(j) /\ faults' = faults
      \/ job' = job /\ Fault("queue")
  BY DEF Audit, Log
<1>6. RestMoves(c) /\ \A i \in Jobs \ {j} : job'[i].added = job[i].added
  BY <1>4, <1>5, JobsMove DEF Audit, Log
<1>7. c \in comment /\ req[c].code = 0 /\ Tells(c)
  BY <1>0, WasStored
<1>8. \A i \in Jobs : i[1] \in SendQueues => job'[i].added = job[i].added
  BY <1>4, <1>6 DEF SendQueues
<1>9. /\ Targets(c)' = Targets(c)
      /\ \A i \in DOMAIN Targets(c) : Untold(c, i)' = Untold(c, i)
  BY <1>0, <1>8, SameTold DEF Audit, Log
<1>10. Tells(c)'
  <2>1. \A u \in Users : notes'[c][u] > 0 => \E i \in DOMAIN Targets(c) : Targets(c)[i] = u
    BY DEF IInv, Tells, Audit, Log
  <2>2. req[c].todo = Targets(c)
    BY <1>0, <1>7 DEF Tells
  <2> QED
    BY <1>0, <1>2, <1>3, <1>7, <1>9, <2>1, <2>2, NothingInOrder
    DEF Tells, Places1, Looping, Over1
<1>11. Stored(c)'
  BY <1>7 DEF Stored, Audit, Log
<1>12. Unlogged(c)'
  <2>1. <<"activity", c, None>> \in Jobs \ {j}
    BY LogJobs DEF LogQueues
  <2> HIDE DEF j
  <2> QED
    BY <1>0, <1>2, <1>3, <1>6, <2>1 DEF Unlogged, IInv, Places1
<1> QED
  BY <1>1, <1>2, <1>6, <1>10, <1>11, <1>12, Moves

LEMMA ActivityKeeps ==
  ASSUME IInv, NEW c \in Reqs, Activity(c)
  PROVE  IInv'
<1> DEFINE r == GoTo(c, "next")
           j == <<"activity", c, None>>
<1>0. TypeOK /\ req[c].at = "activity" /\ req[c].at \in Places1
  BY DEF IInv, Activity, Log, Step, Places1
<1>1. req' = [req EXCEPT ![c] = r]
  BY DEF Activity, Log, Step
<1>2. r \in ReqRecord /\ r.at = "next" /\ r.todo = req[c].todo /\ r.code = req[c].code
  BY <1>0, GoIs DEF Places
<1> HIDE DEF r
<1>3. req'[c] = r
  BY <1>0, <1>1, <1>2, OneReq
<1>4. j \in Jobs /\ j[2] = c /\ j[1] = "activity" /\ job[j].added = 0
  BY <1>0, LogJobs DEF LogQueues, IInv, Unlogged
<1>5. \/ job' = Added(j) /\ faults' = faults
      \/ job' = job /\ Fault("queue")
  BY DEF Activity, Log
<1>6. RestMoves(c) /\ \A i \in Jobs \ {j} : job'[i].added = job[i].added
  BY <1>4, <1>5, JobsMove DEF Activity, Log
<1>7. c \in comment /\ req[c].code = 0 /\ Tells(c)
  BY <1>0, WasStored
<1>8. \A i \in Jobs : i[1] \in SendQueues => job'[i].added = job[i].added
  BY <1>4, <1>6 DEF SendQueues
<1>9. /\ Targets(c)' = Targets(c)
      /\ \A i \in DOMAIN Targets(c) : Untold(c, i)' = Untold(c, i)
  BY <1>0, <1>8, SameTold DEF Activity, Log
<1>10. Tells(c)'
  <2>1. \A u \in Users : notes'[c][u] > 0 => \E i \in DOMAIN Targets(c) : Targets(c)[i] = u
    BY DEF IInv, Tells, Activity, Log
  <2>2. req[c].todo = Targets(c) /\ \A i \in DOMAIN Targets(c) : Untold(c, i)
    BY <1>0, <1>7 DEF Tells
  <2>3. req'[c].todo = Targets(c) /\ req'[c].at = "next" /\ req'[c].code = 0
    BY <1>2, <1>3, <1>7, <2>2
  <2>4. Len(Targets(c)) \in Nat /\ DOMAIN Targets(c) = 1..Len(Targets(c))
    BY <1>0, TargetsAre
  <2>5. Done(c)' = 0 /\ Rest(c)'
    BY <1>9, <2>3, <2>4 DEF Done, Rest
  <2> QED
    BY <1>9, <2>1, <2>2, <2>3, <2>4, <2>5 DEF Tells, Places1, Looping, Over1
<1>11. Stored(c)'
  BY <1>7 DEF Stored, Activity, Log
<1>12. Unlogged(c)'
  BY <1>2, <1>3 DEF Unlogged, Places1
<1> QED
  BY <1>1, <1>2, <1>6, <1>10, <1>11, <1>12, Moves

LEMMA NextTargetKeeps ==
  ASSUME IInv, NEW c \in Reqs, NextTarget(c)
  PROVE  IInv'
<1>0. /\ TypeOK /\ req[c].at = "next" /\ req[c].at \in Looping /\ req[c].todo \in Seq(Users)
      /\ faults' \in 0..MaxFaults
  BY DEF IInv, TypeOK, NextTarget, Step, Looping
<1>1. c \in comment /\ req[c].code = 0 /\ Tells(c)
  BY <1>0, WasStored
<1>2. Len(Targets(c)) \in Nat /\ DOMAIN Targets(c) = 1..Len(Targets(c))
  BY <1>0, TargetsAre
<1>3. CASE req[c].todo = <<>>
  <2>1. PICK code \in {201, 404, 500} : code = 201
    OBVIOUS
  <2>2. Done(c) = Len(Targets(c))
    BY <1>2, <1>3 DEF Done
  <2>3. \A i \in DOMAIN Targets(c) : Whole(c, i)
    BY <1>0, <1>1, <1>2, <2>2 DEF Tells
  <2>4. Ordered(c)
    BY <2>3 DEF Ordered, Whole, Stage
  <2>5. AnsweredHere(c, code)
    BY <1>0, <1>1, <1>3, <2>1, <2>3, <2>4 DEF AnsweredHere, NextTarget, Step, Onward
  <2> QED
    BY <2>5, AnswerKeeps
<1>4. CASE req[c].todo # <<>>
  <2> DEFINE r == GoTo(c, "note")
  <2>1. req' = [req EXCEPT ![c] = r]
    BY <1>4 DEF NextTarget, Step, Onward
  <2>2. r \in ReqRecord /\ r.at = "note" /\ r.todo = req[c].todo /\ r.code = req[c].code
    BY <1>0, GoIs DEF Places
  <2> HIDE DEF r
  <2>3. req'[c] = r
    BY <1>0, <2>1, <2>2, OneReq
  <2>4. /\ Targets(c)' = Targets(c)
        /\ \A i \in DOMAIN Targets(c) : Whole(c, i)' = Whole(c, i)
        /\ \A i \in DOMAIN Targets(c) : Untold(c, i)' = Untold(c, i)
    BY <1>0, SameTold DEF NextTarget
  <2>5. Done(c)' = Done(c) /\ Rest(c)' = Rest(c)
    BY <2>2, <2>3, <2>4 DEF Done, Rest
  <2>6. Done(c) \in Nat /\ Done(c) + 1 \in DOMAIN Targets(c)
    BY <1>0, <1>4, AtTarget
  <2>7. Rest(c) /\ \A i \in DOMAIN Targets(c) : /\ i <= Done(c) => Whole(c, i)
                                                /\ i > Done(c) => Untold(c, i)
    BY <1>0, <1>1 DEF Tells
  <2>8. Current(c)'
    BY <2>2, <2>3, <2>4, <2>5, <2>6, <2>7 DEF Current
  <2>9. Tells(c)'
    <3>1. \A u \in Users : notes'[c][u] > 0 => \E i \in DOMAIN Targets(c) : Targets(c)[i] = u
      BY <1>1 DEF Tells, NextTarget
    <3>2. \A i \in DOMAIN Targets(c) : i > Done(c) + 1 => i > Done(c)
      BY <1>2, <2>6
    <3> QED
      BY <1>1, <1>4, <2>2, <2>3, <2>4, <2>5, <2>7, <2>8, <3>1, <3>2
      DEF Tells, Places1, Looping, Over1
  <2>10. Stored(c)' /\ Unlogged(c)'
    BY <1>1, <2>2, <2>3 DEF Stored, Unlogged, Places1, NextTarget
  <2>11. RestMoves(c)
    BY <1>0 DEF RestMoves, NextTarget, IInv, TypeOK, JobRecord, Runs
  <2> QED
    BY <2>1, <2>2, <2>9, <2>10, <2>11, Moves
<1> QED
  BY <1>3, <1>4

LEMMA ReplyKeeps ==
  ASSUME IInv, NEW c \in Reqs, Reply(c)
  PROVE  IInv'
<1> DEFINE r == GoTo(c, "end")
<1>0. /\ TypeOK /\ req[c].at = "reply" /\ Tells(c) /\ Stored(c)
      /\ faults' \in 0..MaxFaults
  BY DEF IInv, TypeOK, Reply, Step
<1>1. req' = [req EXCEPT ![c] = r]
  BY DEF Reply, Step
<1>2. r \in ReqRecord /\ r.at = "end" /\ r.todo = req[c].todo /\ r.code = req[c].code
  BY <1>0, GoIs DEF Places
<1> HIDE DEF r
<1>3. req'[c] = r
  BY <1>0, <1>1, <1>2, OneReq
<1>4. /\ Targets(c)' = Targets(c) /\ Ordered(c)' = Ordered(c)
      /\ \A i \in DOMAIN Targets(c) : Whole(c, i)' = Whole(c, i)
  BY <1>0, SameTold DEF Reply
<1>5. req[c].code # 0 /\ Ordered(c)
  BY <1>0 DEF Tells, Over1
<1>6. Tells(c)'
  <2>1. \A u \in Users : notes'[c][u] > 0 => \E i \in DOMAIN Targets(c) : Targets(c)[i] = u
    BY <1>0 DEF Tells, Reply
  <2>2. req'[c].code = 201 => \A i \in DOMAIN Targets(c) : Whole(c, i)
    BY <1>0, <1>2, <1>3 DEF Tells
  <2> QED
    BY <1>2, <1>3, <1>4, <1>5, <2>1, <2>2 DEF Tells, Places1, Looping, Over1
<1>7. Stored(c)' /\ Unlogged(c)'
  BY <1>0, <1>2, <1>3 DEF Stored, Unlogged, Places1, Reply
<1>8. RestMoves(c)
  BY <1>0 DEF RestMoves, Reply, IInv, TypeOK, JobRecord, Runs
<1> QED
  BY <1>1, <1>2, <1>6, <1>7, <1>8, Moves
---------------------------------------------------------------------------
(* One target *)

Telling == {"note", "notification", "email"}

LEMMA AtOne ==
  ASSUME IInv, NEW c \in Reqs, req[c].at \in Telling
  PROVE  LET k == Done(c) + 1
         IN  /\ TypeOK /\ Tells(c) /\ c \in comment /\ req[c].code = 0
             /\ req[c].todo # <<>> /\ req[c].todo \in Seq(Users) /\ Rest(c)
             /\ Done(c) \in Nat /\ k \in DOMAIN Targets(c)
             /\ Targets(c)[k] \in Users
             /\ Head(req[c].todo) = Targets(c)[k]
             /\ \A i \in DOMAIN Targets(c) : /\ i <= Done(c) => Whole(c, i)
                                             /\ i > k => Untold(c, i)
             /\ Current(c)
<1>1. req[c].at \in Looping /\ req[c].at # "next"
  BY DEF Telling, Looping
<1>2. TypeOK /\ Tells(c) /\ c \in comment /\ req[c].code = 0
  BY <1>1, WasStored DEF IInv
<1>3. req[c].todo # <<>> /\ req[c].todo \in Seq(Users) /\ Rest(c) /\ Current(c)
  BY <1>1, <1>2 DEF Tells, TypeOK
<1>4. /\ Done(c) \in Nat /\ Done(c) + 1 \in DOMAIN Targets(c)
      /\ Head(req[c].todo) = Targets(c)[Done(c) + 1]
  BY <1>1, <1>3, AtTarget
<1>5. Targets(c)[Done(c) + 1] \in Users
  BY <1>2, <1>4, TargetsAre
<1>6. \A i \in DOMAIN Targets(c) : /\ i <= Done(c) => Whole(c, i)
                                   /\ i > Done(c) + 1 => Untold(c, i)
  BY <1>1, <1>2 DEF Tells
<1> QED
  BY <1>2, <1>3, <1>4, <1>5, <1>6

\* A request that goes on with the target it is at.
LEMMA SameTarget ==
  ASSUME IInv, NEW c \in Reqs, req[c].at \in Telling,
         people' = people, req'[c].at \in Telling, req'[c].todo = req[c].todo,
         req'[c].code = req[c].code, Current(c)',
         \A i \in DOMAIN Targets(c) :
           i # Done(c) + 1 => /\ Whole(c, i)' = Whole(c, i)
                              /\ Untold(c, i)' = Untold(c, i),
         \A u \in Users : notes'[c][u] > 0 => \E i \in DOMAIN Targets(c) : Targets(c)[i] = u
  PROVE  Tells(c)'
<1>1. Targets(c)' = Targets(c)
  BY DEF Targets
<1>2. Done(c)' = Done(c) /\ Rest(c)' = Rest(c)
  BY <1>1 DEF Done, Rest
<1> DEFINE k == Done(c) + 1
<1>3. /\ TypeOK /\ req[c].todo # <<>> /\ Rest(c) /\ Done(c) \in Nat /\ k \in DOMAIN Targets(c)
      /\ req[c].code = 0
      /\ \A i \in DOMAIN Targets(c) : /\ i <= Done(c) => Whole(c, i)
                                      /\ i > k => Untold(c, i)
  BY AtOne
<1>4. DOMAIN Targets(c) \subseteq Nat
  BY <1>3, TargetsAre
<1>5. \A i \in DOMAIN Targets(c) : /\ i <= Done(c) => i # k /\ Whole(c, i)
                                   /\ i > k => i # k /\ Untold(c, i)
  BY <1>3, <1>4
<1>6. \A i \in DOMAIN Targets(c) : /\ i <= Done(c) => Whole(c, i)'
                                   /\ i > k => Untold(c, i)'
  BY <1>5
<1>7. req'[c].at \notin Places1 \cup {"next"} \cup Over1 /\ req'[c].code = 0
  BY <1>3 DEF Telling, Places1, Over1
<1> QED
  BY <1>1, <1>2, <1>3, <1>6, <1>7 DEF Tells, Places1

LEMMA LaterKeeps ==
  ASSUME NEW c \in Reqs, req'[c].at \in Telling \cup {"next"}, c \in comment, comment' = comment
  PROVE  Stored(c)' /\ Unlogged(c)'
  BY DEF Stored, Unlogged, Telling, Places1

\* A request that gives up at a target.
LEMMA GivesUp ==
  ASSUME IInv, NEW c \in Reqs, req[c].at \in Telling, NEW f, Fault(f),
         req' = [req EXCEPT ![c] = Answer(c, 500)],
         UNCHANGED <<people, live, comment, notes, job>>
  PROVE  IInv'
<1>1. PICK code \in {201, 404, 500} : code = 500
  OBVIOUS
<1>2. Ordered(c)
  BY InOrder DEF Telling
<1>3. faults' \in 0..MaxFaults
  BY FaultIs
<1>4. AnsweredHere(c, code)
  BY <1>1, <1>2, <1>3 DEF AnsweredHere
<1> QED
  BY <1>4, AnswerKeeps

LEMMA SaveKeeps ==
  ASSUME IInv, NEW c \in Reqs, Save(c)
  PROVE  IInv'
<1> DEFINE k == Done(c) + 1
           u == Targets(c)[k]
<1>0. /\ req[c].at = "note" /\ req[c].at \in Telling
      /\ UNCHANGED <<people, live, comment, job>>
  BY DEF Save, Telling
<1>1. /\ TypeOK /\ Tells(c) /\ c \in comment /\ u \in Users /\ Head(req[c].todo) = u
      /\ k \in DOMAIN Targets(c) /\ Current(c)
  BY <1>0, AtOne
<1>2. CASE Fault("database") /\ Step(c, "note", Answer(c, 500)) /\ UNCHANGED notes
  BY <1>0, <1>2, GivesUp DEF Step
<1>3. CASE /\ notes' = [notes EXCEPT ![c][u] = @ + 1]
           /\ Step(c, "note", GoTo(c, "notification")) /\ faults' = faults
  <2> DEFINE r == GoTo(c, "notification")
  <2>1. req' = [req EXCEPT ![c] = r]
    BY <1>3 DEF Step
  <2>2. /\ r \in ReqRecord /\ r.at = "notification" /\ r.todo = req[c].todo
        /\ r.code = req[c].code
    BY <1>1, GoIs DEF Places
  <2> HIDE DEF r
  <2>3. req'[c] = r
    BY <1>1, <2>1, <2>2, OneReq
  <2>4. Untold(c, k)
    BY <1>0, <1>1 DEF Current
  <2>5. notes[c][u] = 0 /\ notes \in [Reqs -> [Users -> Nat]]
    BY <1>1, <2>4 DEF Untold, Stage, Row, TypeOK
  <2>6. /\ notes' \in [Reqs -> [Users -> Nat]] /\ notes'[c][u] = 1
        /\ \A v \in Users \ {u} : notes'[c][v] = notes[c][v]
        /\ \A d \in Reqs \ {c} : notes'[d] = notes[d]
    BY <1>1, <1>3, <2>5
  <2> HIDE DEF u
  <2>7. Targets(c)' = Targets(c) /\ Done(c)' = Done(c)
    BY <1>0, <2>2, <2>3 DEF Targets, Done
  <2>8. \A i \in DOMAIN Targets(c) \ {k} : Targets(c)[i] \in Users \ {u}
    BY <1>1, TargetsAre DEF u
  <2>9. \A i \in DOMAIN Targets(c) :
          i # k => Whole(c, i)' = Whole(c, i) /\ Untold(c, i)' = Untold(c, i)
    BY <1>0, <2>6, <2>7, <2>8 DEF Whole, Untold, Stage, Row, Pushed, Mailed
  <2>10. Stage(c, k, 1, 0, 0)'
    BY <1>0, <2>4, <2>6, <2>7 DEF Untold, Stage, Row, Pushed, Mailed, u
  <2>11. Current(c)'
    BY <2>2, <2>3, <2>7, <2>10 DEF Current
  <2>12. \A v \in Users : notes'[c][v] > 0 => \E i \in DOMAIN Targets(c) : Targets(c)[i] = v
    <3>1. \A v \in Users : notes[c][v] > 0 => \E i \in DOMAIN Targets(c) : Targets(c)[i] = v
      BY <1>1 DEF Tells
    <3>2. Targets(c)[k] = u
      BY DEF u
    <3> QED
      BY <1>1, <2>6, <3>1, <3>2
  <2>13. Tells(c)'
    BY <1>0, <2>2, <2>3, <2>9, <2>11, <2>12, SameTarget DEF Telling
  <2>14. Stored(c)' /\ Unlogged(c)'
    BY <1>0, <1>1, <2>2, <2>3, LaterKeeps DEF Telling
  <2>15. RestMoves(c)
    BY <1>0, <1>3, <2>6 DEF RestMoves, IInv, TypeOK, JobRecord, Runs
  <2> QED
    BY <2>1, <2>2, <2>13, <2>14, <2>15, Moves
<1> QED
  BY <1>1, <1>2, <1>3 DEF Save

LEMMA PushKeeps ==
  ASSUME IInv, NEW c \in Reqs, Push(c)
  PROVE  IInv'
<1> DEFINE k == Done(c) + 1
           u == Targets(c)[k]
           j == <<"notification", c, u>>
<1>0. /\ req[c].at = "notification" /\ req[c].at \in Telling
      /\ UNCHANGED <<people, live, comment, notes>>
  BY DEF Push, Enqueue, Telling
<1>1. /\ TypeOK /\ Tells(c) /\ c \in comment /\ u \in Users /\ Head(req[c].todo) = u
      /\ k \in DOMAIN Targets(c) /\ Current(c)
  BY <1>0, AtOne
<1>2. CASE Fault("queue") /\ Step(c, "notification", Answer(c, 500)) /\ UNCHANGED job
  BY <1>0, <1>2, GivesUp DEF Step
<1>3. CASE /\ job' = Added(j)
           /\ Step(c, "notification", GoTo(c, "email")) /\ faults' = faults
  <2> DEFINE r == GoTo(c, "email")
  <2>1. req' = [req EXCEPT ![c] = r]
    BY <1>3 DEF Step
  <2>2. r \in ReqRecord /\ r.at = "email" /\ r.todo = req[c].todo /\ r.code = req[c].code
    BY <1>1, GoIs DEF Places
  <2> HIDE DEF r
  <2>3. req'[c] = r
    BY <1>1, <2>1, <2>2, OneReq
  <2>4. Stage(c, k, 1, 0, 0)
    BY <1>0, <1>1 DEF Current
  <2>5. j \in Jobs /\ j[2] = c /\ job[j].added = 0
    BY <1>1, <2>4, LogJobs DEF Stage, Pushed, SendQueues
  <2>6. /\ RestMoves(c) /\ \A i \in Jobs \ {j} : job'[i].added = job[i].added
        /\ job'[j].added = 1
    BY <1>0, <1>3, <2>5, JobsMove
  <2>7. Targets(c)' = Targets(c) /\ Done(c)' = Done(c)
    BY <1>0, <2>2, <2>3 DEF Targets, Done
  <2>8. \A i \in DOMAIN Targets(c) :
          /\ <<"email", c, Targets(c)[i]>> \in Jobs \ {j}
          /\ i # k => <<"notification", c, Targets(c)[i]>> \in Jobs \ {j}
    BY <1>1, TargetsAre
  <2> HIDE DEF j
  <2>9. \A i \in DOMAIN Targets(c) :
          i # k => Whole(c, i)' = Whole(c, i) /\ Untold(c, i)' = Untold(c, i)
    BY <1>0, <2>6, <2>7, <2>8 DEF Whole, Untold, Stage, Row, Pushed, Mailed
  <2>10. Stage(c, k, 1, 1, 0)'
    BY <1>0, <1>1, <2>4, <2>6, <2>7, <2>8 DEF Stage, Row, Pushed, Mailed, j
  <2>11. Current(c)'
    BY <2>2, <2>3, <2>7, <2>10 DEF Current
  <2>12. \A v \in Users : notes'[c][v] > 0 => \E i \in DOMAIN Targets(c) : Targets(c)[i] = v
    BY <1>0, <1>1 DEF Tells
  <2>13. Tells(c)'
    BY <1>0, <2>2, <2>3, <2>9, <2>11, <2>12, SameTarget DEF Telling
  <2>14. Stored(c)' /\ Unlogged(c)'
    BY <1>0, <1>1, <2>2, <2>3, LaterKeeps DEF Telling
  <2> QED
    BY <2>1, <2>2, <2>6, <2>13, <2>14, Moves
<1> QED
  BY <1>1, <1>2, <1>3 DEF Push, Enqueue

LEMMA EditTodo ==
  ASSUME NEW o \in ReqRecord, NEW t \in Seq(Users)
  PROVE  LET r == [o EXCEPT !.todo = t]
         IN  r \in ReqRecord /\ r.at = o.at /\ r.todo = t /\ r.code = o.code
  BY DEF ReqRecord

LEMMA OneLess ==
  ASSUME NEW a \in Nat, NEW b \in Nat, NEW d, d = b - 1
  PROVE  a - d = (a - b) + 1
  OBVIOUS

LEMMA MailKeeps ==
  ASSUME IInv, NEW c \in Reqs, Mail(c)
  PROVE  IInv'
<1>0. /\ req[c].at = "email" /\ req[c].at \in Telling
      /\ UNCHANGED <<people, live, comment, notes>>
  BY DEF Mail, Enqueue, Telling
<1>t. PICK k \in DOMAIN Targets(c) : k = Done(c) + 1
  BY <1>0, AtOne
<1> DEFINE u == Targets(c)[k]
           j == <<"email", c, u>>
           g == GoTo(c, "next")
           r == [g EXCEPT !.todo = Tail(g.todo)]
<1>1. /\ TypeOK /\ Tells(c) /\ c \in comment /\ u \in Users /\ Head(req[c].todo) = u
      /\ k \in DOMAIN Targets(c) /\ Current(c) /\ req[c].code = 0
      /\ req[c].todo # <<>> /\ req[c].todo \in Seq(Users) /\ Rest(c) /\ Done(c) \in Nat
      /\ \A i \in DOMAIN Targets(c) : /\ i <= Done(c) => Whole(c, i)
                                      /\ i > k => Untold(c, i)
      /\ k = Done(c) + 1
  BY <1>0, <1>t, AtOne
<1>2. CASE Fault("queue") /\ Step(c, "email", Answer(c, 500)) /\ UNCHANGED job
  BY <1>0, <1>2, GivesUp DEF Step
<1>3. CASE job' = Added(j) /\ Step(c, "email", r) /\ faults' = faults
  <2>1. req' = [req EXCEPT ![c] = r]
    BY <1>3 DEF Step
  <2>2. g \in ReqRecord /\ g.at = "next" /\ g.todo = req[c].todo /\ g.code = req[c].code
    BY <1>1, GoIs DEF Places
  <2>3. /\ Tail(req[c].todo) \in Seq(Users) /\ Len(Tail(req[c].todo)) = Len(req[c].todo) - 1
        /\ Len(req[c].todo) \in Nat /\ Len(req[c].todo) >= 1
        /\ \A i \in 1..Len(Tail(req[c].todo)) : Tail(req[c].todo)[i] = req[c].todo[i + 1]
    BY <1>1, RestIs
  <2> HIDE DEF g
  <2>4. r \in ReqRecord /\ r.at = "next" /\ r.todo = Tail(req[c].todo) /\ r.code = 0
    <3> DEFINE t == Tail(req[c].todo)
    <3>1. r = [g EXCEPT !.todo = t] /\ t \in Seq(Users)
      BY <2>2, <2>3
    <3> HIDE DEF t, r
    <3>2. r \in ReqRecord /\ r.at = g.at /\ r.todo = t /\ r.code = g.code
      BY <2>2, <3>1, EditTodo
    <3> QED
      BY <1>1, <2>2, <3>2 DEF t
  <2> HIDE DEF r
  <2>5. req'[c] = r
    BY <1>1, <2>1, <2>4, OneReq
  <2>6. Stage(c, k, 1, 1, 0)
    BY <1>0, <1>1 DEF Current
  <2>7. j \in Jobs /\ j[2] = c /\ job[j].added = 0
    BY <1>1, <2>6, LogJobs DEF Stage, Mailed, SendQueues
  <2>8. /\ RestMoves(c) /\ \A i \in Jobs \ {j} : job'[i].added = job[i].added
        /\ job'[j].added = 1
    BY <1>0, <1>3, <2>7, JobsMove
  <2>9. Targets(c)' = Targets(c)
    BY <1>0 DEF Targets
  <2>10. Len(Targets(c)) \in Nat /\ DOMAIN Targets(c) = 1..Len(Targets(c))
    BY <1>1, TargetsAre
  <2>11. Done(c)' = Done(c) + 1
    <3>1. Done(c)' = Len(Targets(c)) - Len(Tail(req[c].todo))
      BY <2>4, <2>5, <2>9 DEF Done
    <3>2. Len(Targets(c)) - Len(Tail(req[c].todo))
          = (Len(Targets(c)) - Len(req[c].todo)) + 1
      BY <2>3, <2>10, OneLess
    <3>3. Done(c) = Len(Targets(c)) - Len(req[c].todo)
      BY DEF Done
    <3> QED
      BY <3>1, <3>2, <3>3
  <2>12. \A i \in DOMAIN Targets(c) :
           /\ <<"notification", c, Targets(c)[i]>> \in Jobs \ {j}
           /\ i # k => <<"email", c, Targets(c)[i]>> \in Jobs \ {j}
    BY <1>1, TargetsAre
  <2> HIDE DEF j
  <2>13. \A i \in DOMAIN Targets(c) :
           i # k => Whole(c, i)' = Whole(c, i) /\ Untold(c, i)' = Untold(c, i)
    BY <1>0, <2>8, <2>9, <2>12 DEF Whole, Untold, Stage, Row, Pushed, Mailed
  <2>14. Whole(c, k)'
    <3>1. Row(c, k)' = 1
      BY <1>0, <2>6, <2>9 DEF Stage, Row
    <3>2. Pushed(c, k)' = 1
      BY <1>1, <2>6, <2>8, <2>9, <2>12 DEF Stage, Pushed
    <3>3. Mailed(c, k)' = 1
      BY <2>8, <2>9 DEF Mailed, j
    <3> QED
      BY <3>1, <3>2, <3>3 DEF Whole, Stage
  <2>15. \A i \in DOMAIN Targets(c) : /\ i <= k => Whole(c, i)'
                                      /\ i > k => Untold(c, i)'
    <3>1. \A i \in DOMAIN Targets(c) : /\ i <= k => i = k \/ (i # k /\ i <= Done(c))
                                       /\ i > k => i # k
      BY <1>1, <2>10
    <3>2. ASSUME NEW i \in DOMAIN Targets(c), i <= k
          PROVE  Whole(c, i)'
      <4>1. CASE i = k
        BY <2>14, <4>1
      <4>2. CASE i # k /\ i <= Done(c)
        BY <1>1, <2>13, <4>2
      <4> QED
        BY <3>1, <3>2, <4>1, <4>2
    <3>3. ASSUME NEW i \in DOMAIN Targets(c), i > k
          PROVE  Untold(c, i)'
      BY <1>1, <2>13, <3>1, <3>3
    <3> QED
      BY <3>2, <3>3
  <2>16. Rest(c)'
    <3>1. Len(Tail(req[c].todo)) <= Len(Targets(c))
      BY <1>1, <2>3, <2>10 DEF Rest
    <3>2. \A i \in 1..Len(Tail(req[c].todo)) :
            /\ i + 1 \in 1..Len(req[c].todo)
            /\ Done(c) + (i + 1) = (Done(c) + 1) + i
      <4>1. Len(Tail(req[c].todo)) \in Nat
        BY <2>3
      <4> QED
        BY <1>1, <2>3, <4>1
    <3>3. \A i \in 1..Len(Tail(req[c].todo)) :
            Tail(req[c].todo)[i] = Targets(c)[(Done(c) + 1) + i]
      BY <1>1, <2>3, <3>2 DEF Rest
    <3> QED
      BY <2>4, <2>5, <2>9, <2>11, <3>1, <3>3 DEF Rest
  <2>17. Tells(c)'
    <3>1. \A v \in Users : notes'[c][v] > 0 => \E i \in DOMAIN Targets(c) : Targets(c)[i] = v
      BY <1>0, <1>1 DEF Tells
    <3>2. Done(c)' = k
      BY <1>1, <2>11
    <3>3. \A i \in DOMAIN Targets(c) : i > k + 1 => i > k
      BY <2>10
    <3>4. \A i \in DOMAIN Targets(c) :
            /\ i <= Done(c)' => Whole(c, i)'
            /\ i > Done(c)' + 1 \/ i > Done(c)' => Untold(c, i)'
      BY <2>15, <3>2, <3>3
    <3> QED
      BY <2>4, <2>5, <2>9, <2>16, <3>1, <3>4
      DEF Tells, Places1, Looping, Over1
  <2>18. Stored(c)' /\ Unlogged(c)'
    BY <1>0, <1>1, <2>4, <2>5, LaterKeeps
  <2> QED
    BY <2>1, <2>4, <2>8, <2>17, <2>18, Moves
<1> QED
  BY <1>1, <1>2, <1>3 DEF Mail, Enqueue
---------------------------------------------------------------------------
(* The invariant *)

LEMMA InitHolds ==
  ASSUME Init
  PROVE  IInv
<1>1. TypeOK
  BY DeliveryAssumption DEF Init, TypeOK, Idle, NoJob, Places, MaxStalls, Attempts
<1>2. ASSUME NEW c \in Reqs
      PROVE  Tells(c) /\ Stored(c) /\ Unlogged(c)
  <2>1. /\ \A i \in DOMAIN Targets(c) : Untold(c, i)
        /\ req[c].at = "idle" /\ req[c].code = 0
    BY <1>1, TargetsAre DEF Init, Untold, Stage, Row, Pushed, Mailed, Idle, NoJob
  <2>2. \A u \in Users : notes[c][u] = 0
    BY DEF Init
  <2>3. Tells(c)
    BY <2>1, <2>2 DEF Tells, Places1, Looping, Over1
  <2>4. Stored(c)
    BY <2>1, <2>2 DEF Init, Stored, NoJob
  <2>5. Unlogged(c)
    BY LogJobs DEF Init, Unlogged, NoJob, LogQueues
  <2> QED
    BY <2>3, <2>4, <2>5
<1>3. \A j \in Jobs : Runs(j)
  BY DEF Init, Runs, NoJob
<1> QED
  BY <1>1, <1>2, <1>3 DEF IInv

LEMMA NextKeeps ==
  ASSUME IInv, [Next]_vars
  PROVE  IInv'
<1>1. ASSUME NEW c \in Reqs, Request(c)
      PROVE  IInv'
  BY <1>1, LoadKeeps, StoreKeeps, AuditKeeps, ActivityKeeps, NextTargetKeeps, SaveKeeps,
     PushKeeps, MailKeeps, ReplyKeeps DEF Request
<1>2. ASSUME NEW j \in Jobs, Process(j) \/ Stall(j)
      PROVE  IInv'
  BY <1>2, TakeKeeps, RunKeeps, ThrowKeeps, StallKeeps DEF Process
<1>3. CASE Remove
  BY <1>3, RemoveKeeps
<1>4. CASE UNCHANGED vars
  <2>1. \A c \in Reqs : Tells(c)' /\ Stored(c)' /\ Unlogged(c)'
    BY <1>4, Unmoved DEF IInv, vars
  <2>2. TypeOK' /\ \A j \in Jobs : Runs(j)'
    BY <1>4 DEF IInv, TypeOK, Runs, vars
  <2> QED
    BY <2>1, <2>2 DEF IInv
<1> QED
  BY <1>1, <1>2, <1>3, <1>4 DEF Next, Over

THEOREM Invariance == Spec => []IInv
<1>1. Init => IInv
  BY InitHolds
<1>2. IInv /\ [Next]_vars => IInv'
  BY NextKeeps
<1> QED
  BY <1>1, <1>2, PTL DEF Spec

---------------------------------------------------------------------------
(* What comments promise *)

\* The tables, the queues and the places of requests keep their types.
THEOREM DeliveryTypeCorrect == Spec => []TypeOK
<1>1. IInv => TypeOK
  BY DEF IInv
<1> QED
  BY <1>1, Invariance, PTL

\* The targets of a comment are told in full and in their order, whatever fails
\* in NotificationService.createAndSendNotification.
THEOREM AlwaysToldInOrder == Spec => []ToldInOrder
<1>1. ASSUME IInv, NEW c \in Reqs
      PROVE  /\ Ordered(c)
             /\ req[c].code = 201 => \A i \in DOMAIN Targets(c) : Whole(c, i)
             /\ \A u \in Users : notes[c][u] > 0 => \E i \in DOMAIN Targets(c) : Targets(c)[i] = u
  <2>1. Tells(c) /\ TypeOK
    BY <1>1 DEF IInv
  <2>2. Ordered(c)
    <3>1. CASE req[c].at \in Places1
      BY <1>1, <3>1, NothingInOrder
    <3>2. CASE req[c].at \in Telling
      BY <1>1, <3>2, InOrder DEF Telling
    <3>3. CASE req[c].at = "next"
      <4>1. /\ DOMAIN Targets(c) = 1..Len(Targets(c)) /\ Len(Targets(c)) \in Nat
            /\ req[c].todo \in Seq(Users)
        BY <2>1, TargetsAre DEF TypeOK
      <4>2. Done(c) \in Int
        BY <4>1 DEF Done
      <4>3. \A i \in DOMAIN Targets(c) : Whole(c, i) \/ Untold(c, i)
        BY <2>1, <3>3, <4>1, <4>2 DEF Tells, Looping
      <4>4. \A i, k \in DOMAIN Targets(c) : i < k => Whole(c, i) \/ Untold(c, k)
        BY <2>1, <3>3, <4>1, <4>2 DEF Tells, Looping
      <4> QED
        BY <4>3, <4>4 DEF Ordered, Whole, Untold, Stage
    <3>4. CASE req[c].at \in Over1
      BY <2>1, <3>4 DEF Tells
    <3>5. req[c].at \in Places
      BY <2>1 DEF TypeOK
    <3> QED
      BY <3>1, <3>2, <3>3, <3>4, <3>5 DEF Places, Places1, Telling, Over1
  <2> QED
    BY <2>1, <2>2 DEF Tells
<1>2. IInv => ToldInOrder
  BY <1>1 DEF ToldInOrder, Ordered, Whole, Untold, Stage, Row, Pushed, Mailed
<1> QED
  BY <1>2, Invariance, PTL

\* A worker writes what its job says once, and once more when it died.
THEOREM AlwaysLoggedOnce == Spec => []LoggedOnce
<1>1. ASSUME IInv, NEW j \in Jobs
      PROVE  /\ job[j].runs <= 1 + job[j].stalls
             /\ job[j].at = "done" => job[j].runs > 0
             /\ job[j].at = "failed" => job[j].tries = Attempts \/ job[j].stalls > MaxStalls
  <2>1. Runs(j) /\ job[j] \in JobRecord
    BY <1>1 DEF IInv, TypeOK, JobRecord
  <2>2. /\ job[j].runs \in Nat /\ job[j].stalls \in Nat
        /\ job[j].at \in {"none", "waiting", "active", "done", "failed"}
    BY <2>1 DEF JobRecord, MaxStalls
  <2> QED
    BY <2>1, <2>2 DEF Runs, NoJob
<1>2. IInv => LoggedOnce
  BY <1>1 DEF LoggedOnce
<1> QED
  BY <1>2, Invariance, PTL

\* CommentService.addComment stores the comment before it logs, tells or answers.
THEOREM AlwaysStoredFirst == Spec => []StoredFirst
<1>1. ASSUME IInv, NEW c \in Reqs, c \notin comment
      PROVE  /\ req[c].code # 201
             /\ \A u \in Users : ~(notes[c][u] > 0)
             /\ \A j \in Jobs : j[2] = c => ~(job[j].added > 0)
  <2>1. Tells(c) /\ Stored(c)
    BY <1>1 DEF IInv
  <2> QED
    BY <1>1, <2>1 DEF Stored, Tells, Over1
<1>2. IInv => StoredFirst
  BY <1>1 DEF StoredFirst
<1> QED
  BY <1>2, Invariance, PTL

=============================================================================
