---------------------------- MODULE TaskService ----------------------------
(***************************************************************************)
(* TaskService: the CRUD handlers over the "tasks" table and the           *)
(* cache-aside Redis cache in front of it.  One action per stretch of a    *)
(* handler between two awaits; requests interleave at every await and may  *)
(* run in different processes.                                             *)
(*                                                                         *)
(* The cache holds one entry per task id (key task:id:<id>, no tenant in   *)
(* the key) and one page per project list.  Updates go through TypeORM's   *)
(* Repository.save: a SELECT of the row outside any transaction, a diff of *)
(* the entity in memory against it, and an UPDATE of the differing columns *)
(* by primary key.  The version column is bumped by that UPDATE but is     *)
(* never part of its WHERE clause.                                         *)
(***************************************************************************)
EXTENDS TaskData, Functions

CONSTANTS
  Serial,      \* TRUE: a client waits for an answer before the next request
  Faults       \* which parts may fail: "redis", "db", "queue", "crash"

ASSUME ServiceAssumption ==
  /\ Serial \in BOOLEAN
  /\ Faults \subseteq {"redis", "db", "queue", "crash"}

VARIABLES
  row,         \* the table: task id -> row, soft-deleted rows included
  cache,       \* Redis: task id -> entity
  lists,       \* Redis: workspace -> page
  call,        \* the request a handler serves
  pc,          \* the await each handler is at
  ent,         \* the entity findById gave the handler
  page,        \* the page a list handler holds
  diff,        \* the columns save() found changed
  reply,       \* what the client was answered
  heard,       \* requests whose change was broadcast to the workspace
  told,        \* whom the handler notified, Null if nobody
  raced,       \* history: a commit overlapped what the handler holds
  wrote,       \* history: requests that changed the table
  loose,       \* history: entries a race or a lost delete may leave stale
  looseLists   \* history: likewise for pages

vars == <<row, cache, lists, call, pc, ent, page, diff, reply, heard, told,
          raced, wrote, loose, looseLists>>

dbVars    == <<row, wrote>>
cacheVars == <<cache, loose>>
listVars  == <<lists, looseLists>>
outVars   == <<heard, told>>

Columns == {"content", "status", "completedAt", "assignedTo", "version",
            "deleted"}

Steps == {"idle", "lookup", "query", "fill", "load", "store", "remove",
          "insert", "drop", "dropList", "publish", "listLookup",
          "listQuery", "listFill", "done"}
Replies == {"none", "ok", "notFound", "conflict", "error", "lost"}

Busy(p) == pc[p] \notin {"idle", "done"}

\* At these awaits a handler holds an entity it is going to use.
Holding == {"fill", "load", "store", "remove"}

Target(p) == call[p].task

---------------------------------------------------------------------------
(* The entity as save() sees it, and what save() makes of it. *)

\* (defect) a reopened task keeps its completion time
AssignedKeepsTime(e, d, p) ==
  [e EXCEPT
     !.content     = Given(d.content, @),
     !.status      = Given(d.status, @),
     !.completedAt = IF d.status = "DONE" /\ e.status # "DONE" THEN p ELSE @,
     !.assignedTo  = IF @ # Null THEN @ ELSE Given(d.assignedTo, @)]

\* What updateTask sets before save: completedAt by the status transition,
\* the rest when given.  The entity carries the assignee relation findById
\* loaded; when it is not null save() takes the foreign key from it and
\* ignores the assignedTo column the handler assigned.
Assigned(e, d, p) ==
  [e EXCEPT
     !.content     = Given(d.content, @),
     !.status      = Given(d.status, @),
     !.completedAt = IF d.status = "DONE" /\ e.status # "DONE" THEN p
                     ELSE IF d.status \notin {Undef, "DONE"} THEN Null
                     ELSE @,
     !.assignedTo  = IF @ # Null THEN @ ELSE Given(d.assignedTo, @)]

Changed(e, r) == {c \in Columns : e[c] # r[c]}

\* UPDATE tasks SET <the columns in cols> WHERE id: a version that is not
\* among them is incremented, a stale one is written as it is.
Written(r, e, cols) ==
  [r EXCEPT
     !.content     = IF "content" \in cols THEN e.content ELSE @,
     !.status      = IF "status" \in cols THEN e.status ELSE @,
     !.completedAt = IF "completedAt" \in cols THEN e.completedAt ELSE @,
     !.assignedTo  = IF "assignedTo" \in cols THEN e.assignedTo ELSE @,
     !.deleted     = IF "deleted" \in cols THEN e.deleted ELSE @,
     !.version     = IF cols = {} THEN @
                     ELSE IF "version" \in cols THEN e.version ELSE @ + 1]

Visible(t, w) == t \in DOMAIN row /\ row[t].ws = w /\ ~row[t].deleted

VisiblePage(w) == {[id |-> t, val |-> row[t]] : t \in {x \in Tasks : Visible(x, w)}}

Put(f, k, v) == [x \in DOMAIN f \cup {k} |-> IF x = k THEN v ELSE f[x]]
Without(f, k) == Restrict(f, DOMAIN f \ {k})

---------------------------------------------------------------------------
Goto(p, step) == pc' = [pc EXCEPT ![p] = step] /\ UNCHANGED reply

Answer(p, r) == /\ pc' = [pc EXCEPT ![p] = "done"]
                /\ reply' = [reply EXCEPT ![p] = r]

\* A commit on p's task: every other handler that holds the entity, or a
\* page it would appear on, now holds something older than the table.
Overlap(p) ==
  raced' = [q \in Reqs |->
              \/ raced[q]
              \/ /\ q # p
                 /\ \/ pc[q] \in Holding /\ Target(q) = Target(p)
                    \/ pc[q] = "listFill" /\ call[q].ws = call[p].ws]

---------------------------------------------------------------------------
Init ==
  /\ row = Seed
  /\ cache = [t \in {} |-> Null]
  /\ lists = [w \in {} |-> {}]
  /\ call = [p \in Reqs |-> CHOOSE c \in Calls : TRUE]
  /\ pc = [p \in Reqs |-> "idle"]
  /\ ent = [p \in Reqs |-> Null]
  /\ page = [p \in Reqs |-> {}]
  /\ diff = [p \in Reqs |-> {}]
  /\ reply = [p \in Reqs |-> "none"]
  /\ heard = {}
  /\ told = [p \in Reqs |-> Null]
  /\ raced = [p \in Reqs |-> FALSE]
  /\ wrote = {}
  /\ loose = {}
  /\ looseLists = {}

---------------------------------------------------------------------------
(* A request arrives.  The id createTask gives a row is a fresh UUID. *)

FreshId(t) == /\ t \notin DOMAIN row
              /\ \A q \in Reqs : Busy(q) /\ call[q].op = "create" => Target(q) # t

FirstStep(op) == CASE op \in {"get", "update", "delete"} -> "lookup"
                   [] op = "list" -> "listLookup"
                   [] op = "create" -> "insert"

Start(p) ==
  /\ pc[p] = "idle"
  /\ Serial => \A q \in Reqs : ~Busy(q)
  /\ \E c \in Calls :
       /\ c.op = "create" => FreshId(c.task)
       /\ call' = [call EXCEPT ![p] = c]
       /\ Goto(p, FirstStep(c.op))
  /\ UNCHANGED <<dbVars, cacheVars, listVars, outVars, ent, page, diff, raced>>

---------------------------------------------------------------------------
(* findById and what each caller does with the entity before its next await *)

\* (defect) the check is left out
VersionUnchecked(e, d) == FALSE

\* dto.version !== undefined && task.version !== dto.version
VersionMismatch(e, d) == d.version # Undef /\ d.version # e.version

Proceed(p, e) ==
  LET c == call[p]
  IN  \/ c.op = "get" /\ Answer(p, "ok")
      \/ c.op = "delete" /\ Goto(p, "remove")
      \/ c.op = "update" /\ VersionMismatch(e, c.dto) /\ Answer(p, "conflict")
      \/ c.op = "update" /\ ~VersionMismatch(e, c.dto) /\ Goto(p, "load")

\* (defect) the entry's workspace is not compared
HitAnyWorkspace(p) == Target(p) \in DOMAIN cache

\* A cached entity is used only by a request of its own workspace.
HitAllowed(p) == Target(p) \in DOMAIN cache /\ cache[Target(p)].ws = call[p].ws

LookupHit(p) ==
  LET t == Target(p)
  IN  /\ pc[p] = "lookup"
      /\ HitAllowed(p)
      /\ ent' = [ent EXCEPT ![p] = cache[t]]
      /\ raced' = [raced EXCEPT ![p] = cache[t] # row[t]]
      /\ Proceed(p, cache[t])
      /\ UNCHANGED <<dbVars, cacheVars, listVars, outVars, call, page, diff>>

\* No entry, an entry of another workspace, or a Redis error (get returns null).
LookupMiss(p) ==
  /\ pc[p] = "lookup"
  /\ ~HitAllowed(p) \/ "redis" \in Faults
  /\ Goto(p, "query")
  /\ UNCHANGED <<dbVars, cacheVars, listVars, outVars, call, ent, page, diff, raced>>

Query(p) ==
  LET t == Target(p)
  IN  /\ pc[p] = "query"
      /\ IF Visible(t, call[p].ws)
         THEN /\ ent' = [ent EXCEPT ![p] = row[t]]
              /\ raced' = [raced EXCEPT ![p] = FALSE]
              /\ Goto(p, "fill")
         ELSE /\ Answer(p, "notFound")
              /\ UNCHANGED <<ent, raced>>
      /\ UNCHANGED <<dbVars, cacheVars, listVars, outVars, call, page, diff>>

\* cacheService.set swallows a Redis error.
Fill(p) ==
  LET t == Target(p)
  IN  /\ pc[p] = "fill"
      /\ \/ /\ cache' = Put(cache, t, ent[p])
            /\ loose' = IF raced[p] THEN loose \cup {t} ELSE loose \ {t}
         \/ "redis" \in Faults /\ UNCHANGED cacheVars
      /\ Proceed(p, ent[p])
      /\ UNCHANGED <<dbVars, listVars, outVars, call, ent, page, diff, raced>>

---------------------------------------------------------------------------
(* updateTask: Repository.save *)

\* save() first SELECTs the row, soft-deleted or not, and diffs.
SaveLoad(p) ==
  /\ pc[p] = "load"
  /\ diff' = [diff EXCEPT ![p] =
                Changed(Assigned(ent[p], call[p].dto, p), row[Target(p)])]
  /\ Goto(p, "store")
  /\ UNCHANGED <<dbVars, cacheVars, listVars, outVars, call, ent, page, raced>>

\* It then UPDATEs the columns of the diff; an empty diff writes nothing.
SaveUpdate(p) ==
  /\ pc[p] = "store"
  /\ row' = [row EXCEPT ![Target(p)] =
               Written(@, Assigned(ent[p], call[p].dto, p), diff[p])]
  /\ IF diff[p] = {} THEN UNCHANGED <<wrote, raced>>
     ELSE wrote' = wrote \cup {p} /\ Overlap(p)
  /\ Goto(p, "drop")
  /\ UNCHANGED <<cacheVars, listVars, outVars, call, ent, page, diff>>

(* deleteTask: softRemove sets deletedAt by primary key *)
Remove(p) ==
  /\ pc[p] = "remove"
  /\ row' = [row EXCEPT ![Target(p)] = Removed(@)]
  /\ wrote' = wrote \cup {p}
  /\ Overlap(p)
  /\ Goto(p, "drop")
  /\ UNCHANGED <<cacheVars, listVars, outVars, call, ent, page, diff>>

(* (defect) a create that does not invalidate the lists *)
InsertKeepsLists(p) ==
  /\ pc[p] = "insert"
  /\ row' = Put(row, Target(p), NewRow(call[p]))
  /\ wrote' = wrote \cup {p}
  /\ Overlap(p)
  /\ Goto(p, "publish")
  /\ UNCHANGED <<cacheVars, listVars, outVars, call, ent, page, diff>>

(* createTask *)
Insert(p) ==
  /\ pc[p] = "insert"
  /\ row' = Put(row, Target(p), NewRow(call[p]))
  /\ wrote' = wrote \cup {p}
  /\ Overlap(p)
  /\ Goto(p, "dropList")
  /\ UNCHANGED <<cacheVars, listVars, outVars, call, ent, page, diff>>

---------------------------------------------------------------------------
(* Invalidation; a Redis error is swallowed and the entry stays *)

\* (defects) the entry is not deleted; a failed delete repeats the save
DropNothing(p) ==
  /\ pc[p] = "drop"
  /\ Goto(p, "dropList")
  /\ UNCHANGED <<dbVars, cacheVars, listVars, outVars, call, ent, page, diff, raced>>

DropRepeats(p) ==
  /\ pc[p] = "drop"
  /\ \/ /\ cache' = Without(cache, Target(p)) /\ loose' = loose \ {Target(p)}
        /\ Goto(p, "dropList")
     \/ /\ "redis" \in Faults /\ call[p].op = "update"
        /\ Goto(p, "load")
        /\ UNCHANGED cacheVars
  /\ UNCHANGED <<dbVars, listVars, outVars, call, ent, page, diff, raced>>

Drop(p) ==
  LET t == Target(p)
  IN  /\ pc[p] = "drop"
      /\ \/ cache' = Without(cache, t) /\ loose' = loose \ {t}
         \/ /\ "redis" \in Faults
            /\ loose' = loose \cup {t}
            /\ UNCHANGED cache
      /\ Goto(p, "dropList")
      /\ UNCHANGED <<dbVars, listVars, outVars, call, ent, page, diff, raced>>

DropList(p) ==
  LET w == call[p].ws
  IN  /\ pc[p] = "dropList"
      /\ \/ lists' = Without(lists, w) /\ looseLists' = looseLists \ {w}
         \/ /\ "redis" \in Faults
            /\ looseLists' = looseLists \cup {w}
            /\ UNCHANGED lists
      /\ Goto(p, "publish")
      /\ UNCHANGED <<dbVars, cacheVars, outVars, call, ent, page, diff, raced>>

---------------------------------------------------------------------------
(* Audit and activity logs (which swallow their errors), the notification  *)
(* and the workspace broadcast                                             *)

Completes(p) == call[p].dto.status = "DONE" /\ ent[p].status # "DONE"
Reassigns(p) == call[p].dto.assignedTo \notin {Undef, Null, ent[p].assignedTo}

Recipient(p) ==
  LET c == call[p]
  IN  CASE c.op = "create" -> Given(c.dto.assignedTo, Null)
        [] c.op = "update" /\ Completes(p) ->
             IF ent[p].createdBy # c.user THEN ent[p].createdBy ELSE Null
        [] c.op = "update" /\ ~Completes(p) /\ Reassigns(p) -> c.dto.assignedTo
        [] OTHER -> Null

\* (defect) the broadcast is left out
PublishSilently(p) ==
  /\ pc[p] = "publish"
  /\ told' = [told EXCEPT ![p] = Recipient(p)]
  /\ Answer(p, "ok")
  /\ UNCHANGED <<dbVars, cacheVars, listVars, heard, call, ent, page, diff, raced>>

Publish(p) ==
  /\ pc[p] = "publish"
  /\ \/ /\ told' = [told EXCEPT ![p] = Recipient(p)]
        /\ heard' = heard \cup {p}
        /\ Answer(p, "ok")
     \* createAndSendNotification throws, before or after its row is saved:
     \* the change is committed and the client gets an error.  createTask has
     \* broadcast by then, updateTask has not and will not.
     \/ /\ "queue" \in Faults /\ Recipient(p) # Null
        /\ \E whom \in {Null, Recipient(p)} : told' = [told EXCEPT ![p] = whom]
        /\ heard' = IF call[p].op = "create" THEN heard \cup {p} ELSE heard
        /\ Answer(p, "error")
  /\ UNCHANGED <<dbVars, cacheVars, listVars, call, ent, page, diff, raced>>

---------------------------------------------------------------------------
(* getTasks *)

ListHit(p) ==
  /\ pc[p] = "listLookup"
  /\ call[p].ws \in DOMAIN lists
  /\ page' = [page EXCEPT ![p] = lists[call[p].ws]]
  /\ Answer(p, "ok")
  /\ UNCHANGED <<dbVars, cacheVars, listVars, outVars, call, ent, diff, raced>>

ListMiss(p) ==
  /\ pc[p] = "listLookup"
  /\ call[p].ws \notin DOMAIN lists \/ "redis" \in Faults
  /\ Goto(p, "listQuery")
  /\ UNCHANGED <<dbVars, cacheVars, listVars, outVars, call, ent, page, diff, raced>>

ListQuery(p) ==
  /\ pc[p] = "listQuery"
  /\ page' = [page EXCEPT ![p] = VisiblePage(call[p].ws)]
  /\ raced' = [raced EXCEPT ![p] = FALSE]
  /\ Goto(p, "listFill")
  /\ UNCHANGED <<dbVars, cacheVars, listVars, outVars, call, ent, diff>>

ListFill(p) ==
  LET w == call[p].ws
  IN  /\ pc[p] = "listFill"
      /\ \/ /\ lists' = Put(lists, w, page[p])
            /\ looseLists' = IF raced[p] THEN looseLists \cup {w}
                             ELSE looseLists \ {w}
         \/ "redis" \in Faults /\ UNCHANGED listVars
      /\ Answer(p, "ok")
      /\ UNCHANGED <<dbVars, cacheVars, outVars, call, ent, page, diff, raced>>

---------------------------------------------------------------------------
(* The environment *)

\* A statement fails; the handler rethrows and nothing was written.
DbError(p) ==
  /\ "db" \in Faults
  /\ pc[p] \in {"query", "load", "store", "remove", "insert", "listQuery"}
  /\ Answer(p, "error")
  /\ UNCHANGED <<dbVars, cacheVars, listVars, outVars, call, ent, page, diff, raced>>

\* The process serving p dies; what p had not yet done is never done.
Crash(p) ==
  /\ "crash" \in Faults
  /\ Busy(p)
  /\ Answer(p, "lost")
  /\ loose' = IF pc[p] = "drop" THEN loose \cup {Target(p)} ELSE loose
  /\ looseLists' = IF pc[p] \in {"drop", "dropList"}
                   THEN looseLists \cup {call[p].ws} ELSE looseLists
  /\ UNCHANGED <<dbVars, cache, lists, outVars, call, ent, page, diff, raced>>

\* (defect) set without a time-to-live
ExpireNever(t) == t \in DOMAIN cache /\ UNCHANGED vars

\* The 300 second time-to-live runs out.
Expire(t) ==
  /\ t \in DOMAIN cache
  /\ cache' = Without(cache, t)
  /\ loose' = loose \ {t}
  /\ UNCHANGED <<dbVars, listVars, outVars, call, pc, ent, page, diff, reply, raced>>

ExpireList(w) ==
  /\ w \in DOMAIN lists
  /\ lists' = Without(lists, w)
  /\ looseLists' = looseLists \ {w}
  /\ UNCHANGED <<dbVars, cacheVars, outVars, call, pc, ent, page, diff, reply, raced>>

\* Every request was answered and every entry has expired.
Quiet == /\ \A p \in Reqs : pc[p] = "done"
         /\ DOMAIN cache = {} /\ DOMAIN lists = {}
         /\ UNCHANGED vars

Handle(p) ==
  \/ LookupHit(p) \/ LookupMiss(p) \/ Query(p) \/ Fill(p)
  \/ SaveLoad(p) \/ SaveUpdate(p) \/ Remove(p) \/ Insert(p)
  \/ Drop(p) \/ DropList(p) \/ Publish(p)
  \/ ListHit(p) \/ ListMiss(p) \/ ListQuery(p) \/ ListFill(p)

Next ==
  \/ \E p \in Reqs : Start(p) \/ Handle(p) \/ DbError(p) \/ Crash(p)
  \/ \E t \in Tasks : Expire(t)
  \/ \E w \in Workspaces : ExpireList(w)
  \/ Quiet

\* The event loop resumes a handler whose await has settled, and the Redis and
\* PostgreSQL drivers settle every call; Redis expires what setex stored.
Fairness ==
  /\ \A p \in Reqs : WF_vars(Handle(p))
  /\ \A t \in Tasks : WF_vars(Expire(t))
  /\ \A w \in Workspaces : WF_vars(ExpireList(w))

Spec == Init /\ [][Next]_vars
FairSpec == Spec /\ Fairness

---------------------------------------------------------------------------
(* Properties *)

StoresType ==
  /\ DOMAIN row \subseteq Tasks /\ row \in [DOMAIN row -> Row]
  /\ DOMAIN cache \subseteq DOMAIN row /\ cache \in [DOMAIN cache -> Row]
  /\ DOMAIN lists \subseteq Workspaces /\ lists \in [DOMAIN lists -> Page]
  /\ loose \subseteq Tasks
  /\ looseLists \subseteq Workspaces

HandlersType ==
  /\ call \in [Reqs -> Calls]
  /\ pc \in [Reqs -> Steps]
  /\ ent \in [Reqs -> Row \cup {Null}]
  /\ page \in [Reqs -> Page]
  /\ diff \in [Reqs -> SUBSET Columns]
  /\ reply \in [Reqs -> Replies]
  /\ heard \subseteq Reqs
  /\ told \in [Reqs -> Users \cup {Null}]
  /\ raced \in [Reqs -> BOOLEAN]
  /\ wrote \subseteq Reqs

\* Types: the table and the caches hold rows of known tasks, handlers the
\* entities, pages and answers of the code.
TypeOK == StoresType /\ HandlersType

\* A cached entity differs from the row only while the delete that follows
\* the commit is still to come, or when a fill that overlapped a commit
\* stored it or the delete was lost (cacheService.del after save, lines
\* 276-279): no other path leaves a stale entity behind.
EntryFresh ==
  \A t \in DOMAIN cache :
    \/ cache[t] = row[t]
    \/ t \in loose
    \/ \E p \in Reqs : pc[p] = "drop" /\ Target(p) = t

\* Likewise for the cached page of a project, which every create, update and
\* delete of one of its tasks must invalidate (delPattern).
ListFresh ==
  \A w \in DOMAIN lists :
    \/ lists[w] = VisiblePage(w)
    \/ w \in looseLists
    \/ \E p \in Reqs : pc[p] \in {"drop", "dropList"} /\ call[p].ws = w

\* Although the key of an entity does not name its workspace, no request is
\* ever served, through the cache or not, a task of another workspace.
TenantOnly ==
  \A p \in Reqs : /\ ent[p] # Null => ent[p].ws = call[p].ws
                  /\ \A item \in page[p] : item.val.ws = call[p].ws

\* An update that no commit overlapped since it read the task, and that read
\* it fresh, commits what an atomic update of the current row would, on a row
\* that is not deleted and has the version the client named.
CleanUpdateIsAtomic ==
  [][\A p \in Reqs : SaveUpdate(p) /\ ~raced[p] =>
       LET t == Target(p)
           d == call[p].dto
       IN  /\ ~row[t].deleted
           /\ d.version \in {Undef, row[t].version}
           /\ row'[t] = Merged(row[t], d, p)]_vars

\* The handler announces its assignment of a task although save() ignored the
\* column, or diffed an older entity against what another request wrote.
MayMisinform(p) ==
  /\ call[p].op = "update" /\ ~Completes(p)
  /\ ent[p].assignedTo # Null \/ raced[p]

\* 404 and 409 are answered only by requests that changed nothing; a change
\* answered ok was broadcast; a change answered with an error had somebody to
\* notify, and an update is then never broadcast; nobody is told of a creation
\* or a completion that was not made.  An assignment may be announced that was
\* not: where the task had an assignee already, or another commit overlapped.
ReplyTellsOutcome ==
  \A p \in Reqs :
    /\ reply[p] \in {"notFound", "conflict"} => p \notin wrote
    /\ p \in wrote /\ reply[p] = "ok" => p \in heard
    /\ p \in wrote /\ reply[p] = "error" =>
         Recipient(p) # Null /\ (p \in heard => call[p].op = "create")
    /\ p \in heard => pc[p] = "done" /\ call[p].op \notin {"get", "list"}
    /\ told[p] # Null => p \in wrote \/ MayMisinform(p)

\* Of the updates that name the same version of a task at most one changes it.
NoLostUpdate ==
  \A p, q \in wrote :
    (/\ p # q
     /\ call[p].op = "update" /\ call[q].op = "update"
     /\ Target(p) = Target(q)
     /\ call[p].dto.version # Undef) => call[p].dto.version # call[q].dto.version

\* A task carries a completion time exactly when it is DONE: updateTask sets
\* it on the transition to DONE and clears it on the way back, whatever
\* sequence of completions, reopenings and edits a task goes through.
CompletionConsistent == \A t \in DOMAIN row : CompletionMatches(row[t])

\* Every request that arrives is answered.
EventuallyAnswered == \A p \in Reqs : Busy(p) ~> pc[p] = "done"

\* Whatever raced or was lost, the time-to-live removes a stale entry: once
\* the requests are over the cache agrees with the table and stays so.
CachesHeal ==
  <>[]/\ \A t \in DOMAIN cache : cache[t] = row[t]
      /\ \A w \in DOMAIN lists : lists[w] = VisiblePage(w)

---------------------------------------------------------------------------
(* The inductive invariant behind EntryFresh, ListFresh, TenantOnly and    *)
(* CleanUpdateIsAtomic: what a handler knows at each await                 *)

\* An entity in the cache is one its task had, of the task's workspace.
\* A cached page shows tasks of its workspace only.
CacheSound ==
  /\ \A t \in DOMAIN cache : cache[t].ws = row[t].ws /\ ~cache[t].deleted
  /\ \A w \in DOMAIN lists : \A item \in lists[w] : item.val.ws = w

\* A handler past findById works on a task of its own workspace.
Knows(p) ==
  /\ pc[p] = "idle" => ent[p] = Null /\ page[p] = {}
  /\ pc[p] \in Holding \cup {"drop"} =>
       /\ Target(p) \in DOMAIN row
       /\ row[Target(p)].ws = call[p].ws
  /\ pc[p] \in Holding => ent[p] # Null /\ ~ent[p].deleted
  /\ pc[p] \in {"drop", "dropList", "publish"} /\ call[p].op = "update" =>
       ent[p] # Null
  /\ pc[p] \in {"load", "store"} =>
       call[p].op = "update" /\ ~VersionMismatch(ent[p], call[p].dto)

HolderSound == \A p \in Reqs : Knows(p)

\* Two creates never insert the same id, nor one that is taken.
IdsFresh ==
  \A p \in Reqs : pc[p] = "insert" =>
    /\ call[p].op = "create"
    /\ Target(p) \notin DOMAIN row
    /\ \A q \in Reqs : pc[q] = "insert" /\ Target(q) = Target(p) => q = p

\* Until a commit overlaps it, what a handler holds is the current row, its
\* diff is against the current row and its page is the current page.
Current(p) ==
  /\ pc[p] \in Holding => ent[p] = row[Target(p)]
  /\ pc[p] = "store" =>
       diff[p] = Changed(Assigned(ent[p], call[p].dto, p), row[Target(p)])
  /\ pc[p] = "listFill" => page[p] = VisiblePage(call[p].ws)

HeldFresh == \A p \in Reqs : raced[p] \/ Current(p)

IInv == TypeOK /\ CacheSound /\ HolderSound /\ IdsFresh /\ TenantOnly
        /\ HeldFresh /\ EntryFresh /\ ListFresh

(* What it takes for ReplyTellsOutcome: at each await, what the request has *)
(* changed and told                                                        *)

\* A completion time names a request that wrote it, wherever it is read from.
StampsTell ==
  LET Known(r) == r.completedAt \in wrote \cup {Past, Null}
  IN  /\ \A t \in DOMAIN row : Known(row[t])
      /\ \A t \in DOMAIN cache : Known(cache[t])
      /\ \A p \in Reqs : ent[p] # Null => Known(ent[p])

\* The awaits of the read paths, of findById, of save() and of what follows a
\* commit belong to the operations that have them.
InPlace(p) ==
  /\ pc[p] \in {"lookup", "query", "fill"} => call[p].op \in {"get", "update", "delete"}
  /\ pc[p] \in {"listLookup", "listQuery", "listFill"} => call[p].op = "list"
  /\ pc[p] = "remove" => call[p].op = "delete"
  /\ pc[p] = "drop" => call[p].op \in {"update", "delete"}
  /\ pc[p] \in {"dropList", "publish"} => call[p].op \in {"create", "update", "delete"}

\* After its save a request has changed the table, unless the diff was empty:
\* then it has nothing to tell but an assignment that is not one.
Unchanged(p) == /\ call[p].op = "update" /\ ~Completes(p)
                /\ Reassigns(p) => ent[p].assignedTo # Null \/ raced[p]

Outcome(p) ==
  /\ pc[p] # "done" => reply[p] = "none" /\ told[p] = Null /\ p \notin heard
  /\ pc[p] \notin {"drop", "dropList", "publish", "done"} => p \notin wrote
  /\ pc[p] = "store" /\ Completes(p) => diff[p] # {}
  /\ pc[p] \in {"drop", "dropList", "publish"} => p \in wrote \/ Unchanged(p)

OutcomeInv == /\ StampsTell /\ ReplyTellsOutcome
              /\ \A p \in Reqs : InPlace(p) /\ Outcome(p)

(* One request at a time *)

\* At most one handler is at work; a diff is against the row it will update.
Alone ==
  /\ \A p, q \in Reqs : Busy(p) /\ Busy(q) => p = q
  /\ \A p \in Reqs : pc[p] = "store" =>
       diff[p] = Changed(Assigned(ent[p], call[p].dto, p), row[Target(p)])

\* Whatever an update may start from has a completion time when it is DONE.
CompletionsHeld ==
  /\ CompletionConsistent
  /\ \A t \in DOMAIN cache : CompletionMatches(cache[t])
  /\ \A p \in Reqs : ent[p] # Null => CompletionMatches(ent[p])

\* Without faults nothing is ever stale.
Undisturbed == /\ \A p \in Reqs : ~raced[p]
               /\ loose = {} /\ looseLists = {}

---------------------------------------------------------------------------
(* With one request at a time and no fault the handlers implement the      *)
(* atomic tasks of AtomicTask: an update takes effect when save commits it, *)
(* a read when it is answered.                                             *)

Effected(p) == pc[p] \in {"drop", "dropList", "publish", "done"}

Phase == [p \in Reqs |-> IF pc[p] = "idle" THEN "idle"
                         ELSE IF Effected(p) THEN "effected" ELSE "called"]
Settled == [p \in Reqs |-> IF Effected(p) /\ pc[p] # "done" THEN "ok" ELSE reply[p]]
Seen == [p \in Reqs |-> IF call[p].op = "get" /\ reply[p] = "ok"
                        THEN ent[p] ELSE Null]
Listed == [p \in Reqs |-> IF call[p].op = "list" /\ reply[p] = "ok"
                          THEN page[p] ELSE {}]

Atomic == INSTANCE AtomicTask WITH
  phase <- Phase, outcome <- Settled, seen <- Seen, listed <- Listed

AtomicTasks == Atomic!Spec
=============================================================================
