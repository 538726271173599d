----------------------------- MODULE AtomicTask -----------------------------
(***************************************************************************)
(* What the task component promises its clients: a table of tasks on which *)
(* every request takes effect at one instant between its arrival and its   *)
(* answer.  There is no cache, no ORM and no entity in memory.             *)
(***************************************************************************)
EXTENDS TaskData

VARIABLES
  row,      \* the table
  call,     \* the request being served
  phase,    \* "idle", "called", "effected"
  outcome,  \* what the client is, or will be, answered
  seen,     \* the task a get returned
  listed    \* the page a list returned

vars == <<row, call, phase, outcome, seen, listed>>

Visible(t, w) == t \in DOMAIN row /\ row[t].ws = w /\ ~row[t].deleted

Init ==
  /\ row = Seed
  /\ call = [p \in Reqs |-> CHOOSE c \in Calls : TRUE]
  /\ phase = [p \in Reqs |-> "idle"]
  /\ outcome = [p \in Reqs |-> "none"]
  /\ seen = [p \in Reqs |-> Null]
  /\ listed = [p \in Reqs |-> {}]

Invoke(p) ==
  /\ phase[p] = "idle"
  /\ call' \in {[call EXCEPT ![p] = c] : c \in Calls}
  /\ phase' = [phase EXCEPT ![p] = "called"]
  /\ UNCHANGED <<row, outcome, seen, listed>>

\* The request takes effect and its outcome is settled.
Effect(p, out) ==
  /\ phase[p] = "called"
  /\ phase' = [phase EXCEPT ![p] = "effected"]
  /\ outcome' = [outcome EXCEPT ![p] = out]
  /\ UNCHANGED call

Found(p) == Visible(call[p].task, call[p].ws)

Missing(p) ==
  /\ call[p].op \in {"get", "update", "delete"} /\ ~Found(p)
  /\ Effect(p, "notFound")
  /\ UNCHANGED <<row, seen, listed>>

Get(p) ==
  /\ call[p].op = "get" /\ Found(p)
  /\ Effect(p, "ok")
  /\ seen' = [seen EXCEPT ![p] = row[call[p].task]]
  /\ UNCHANGED <<row, listed>>

List(p) ==
  /\ call[p].op = "list"
  /\ Effect(p, "ok")
  /\ listed' = [listed EXCEPT ![p] =
                  {[id |-> t, val |-> row[t]] :
                     t \in {x \in DOMAIN row : Visible(x, call[p].ws)}}]
  /\ UNCHANGED <<row, seen>>

Create(p) ==
  LET t == call[p].task
  IN  /\ call[p].op = "create" /\ t \notin DOMAIN row
      /\ Effect(p, "ok")
      /\ row' = [x \in DOMAIN row \cup {t} |->
                   IF x = t THEN NewRow(call[p]) ELSE row[x]]
      /\ UNCHANGED <<seen, listed>>

UpToDate(p) == call[p].dto.version \in {Undef, row[call[p].task].version}

Update(p) ==
  LET t == call[p].task
  IN  /\ call[p].op = "update" /\ Found(p) /\ UpToDate(p)
      /\ Effect(p, "ok")
      /\ row' = [row EXCEPT ![t] = Merged(@, call[p].dto, p)]
      /\ UNCHANGED <<seen, listed>>

Refuse(p) ==
  /\ call[p].op = "update" /\ Found(p) /\ ~UpToDate(p)
  /\ Effect(p, "conflict")
  /\ UNCHANGED <<row, seen, listed>>

Delete(p) ==
  LET t == call[p].task
  IN  /\ call[p].op = "delete" /\ Found(p)
      /\ Effect(p, "ok")
      /\ row' = [row EXCEPT ![t] = Removed(@)]
      /\ UNCHANGED <<seen, listed>>

Next ==
  \E p \in Reqs : \/ Invoke(p) \/ Missing(p) \/ Get(p) \/ List(p) \/ Create(p)
                  \/ Update(p) \/ Refuse(p) \/ Delete(p)

Spec == Init /\ [][Next]_vars

=============================================================================
