----------------------------- MODULE Workspaces -----------------------------
(***************************************************************************)
(* Workspaces, their members and projects: the guards, WorkspaceService    *)
(* and ProjectService. One action per stretch of a handler between two     *)
(* awaits; requests interleave at every await.                             *)
(*                                                                         *)
(* No request changes a name: the validation pipe answers 400 to every     *)
(* body of the two update endpoints but the empty one, so a workspace row  *)
(* is its slug, which never changes, and a project row its workspace.      *)
(***************************************************************************)
EXTENDS Integers, FiniteSets

CONSTANTS
  Reqs,          \* handlers that may run at once
  Users, Ids, Slugs, Projects,
  None,          \* no value
  Free, Gone,    \* no row: never inserted, removed
  Faults         \* "redis", "queue", "crash"

Entity == [id : Ids, slug : Slugs]

ASSUME WorkspaceAssumption ==
  /\ Ids \cap Slugs = {} /\ Free # Gone
  /\ {Free, Gone, None} \cap (Ids \cup Slugs \cup Users \cup Projects) = {}
  /\ None \notin Entity /\ \A S \in SUBSET Projects : S # None
  /\ Faults \subseteq {"redis", "queue", "crash"}

VARIABLES
  slugOf,      \* the workspaces table: the slug of each
  role,        \* workspace_members: the role of each user in each workspace
  projectOf,   \* the projects table: the workspace of each
  cache,       \* Redis: a workspace under its id and under its slug
  listKey,     \* Redis: the project list of each workspace
  req,         \* what each handler does
  late,        \* history: keys filled with, or left holding, a removed workspace
  lateLists,   \* history: list keys filled with, or left holding, an old list
  demoted      \* history: members whose role an invitation overwrote

tables == <<slugOf, role, projectOf>>
redis == <<cache, listKey>>
history == <<late, lateLists, demoted>>
vars == <<tables, redis, req, history>>

Roles == {"ADMIN", "MEMBER"}
MemberOps == {"byId", "bySlug", "list", "add", "edit"}
GuardedOps == MemberOps \cup {"update", "remove", "invite", "drop"}

\* Which operations a role admits to: the permissions their routes require.
Allowed == [ADMIN |-> GuardedOps, MEMBER |-> MemberOps, none |-> {}]

Exists(w) == slugOf[w] \in Slugs
ProjectsOf(w) == {x \in Projects : projectOf[x] = w}

\* A request as it arrives: who is the user invited, proj the project meant.
Asked(at, op, u, w, s, x, g, pr) ==
  [at |-> at, op |-> op, user |-> u, ws |-> w, slug |-> s, who |-> x, role |-> g,
   proj |-> pr, ent |-> None, page |-> {}, raced |-> FALSE, wrote |-> FALSE, code |-> 0]

Idle == Asked("idle", "none", None, None, None, None, "none", None)

---------------------------------------------------------------------------
(* How a handler goes on *)

Step(p, from, r) == req[p].at = from /\ req' = [req EXCEPT ![p] = r]
Answer(r, code) == [r EXCEPT !.at = "reply", !.code = code]
GoTo(r, at) == [r EXCEPT !.at = at]
Wrote(r, at) == [r EXCEPT !.at = at, !.wrote = TRUE]

\* p changes a membership, or removes a project, that the handlers of old
\* have read about before, and goes on as r.
Overtake(p, old, r) ==
  req' = [q \in Reqs |-> IF q = p THEN r
                         ELSE [req[q] EXCEPT !.raced = @ \/ q \in old]]

\* Invitations of the same user that found no membership.
Inviting == {"selectMember", "insertMember", "updateMember"}
Inviters(w, u) == {q \in Reqs : /\ req[q].at \in Inviting
                                /\ req[q].ws = w /\ req[q].who = u}
\* Updates of one of these projects that have loaded it.
Editors(xs) == {q \in Reqs : req[q].at \in {"selectProject", "reinsert"}
                             /\ req[q].proj \in xs}

\* get answers null when Redis fails, set and del swallow the error.
Redis(op, otherwise) == op \/ ("redis" \in Faults /\ otherwise)

---------------------------------------------------------------------------
\* A database in which each workspace has its creator as ADMIN.
Init ==
  /\ slugOf \in [Ids -> Slugs \cup {Free}]
  /\ \A v, w \in Ids : slugOf[v] = slugOf[w] /\ slugOf[v] # Free => v = w
  /\ role \in [Ids -> [Users -> Roles \cup {"none"}]]
  /\ \A w \in Ids : IF slugOf[w] = Free THEN \A u \in Users : role[w][u] = "none"
                    ELSE \E u \in Users : role[w][u] = "ADMIN"
  /\ projectOf \in [Projects -> Ids \cup {Free}]
  /\ \A x \in Projects : projectOf[x] # Free => slugOf[projectOf[x]] # Free
  /\ cache = [k \in Ids \cup Slugs |-> None]
  /\ listKey = [w \in Ids |-> None]
  /\ req = [p \in Reqs |-> Idle]
  /\ late = {} /\ lateLists = {} /\ demoted = {}

\* Requests: who = None is an email nobody registered.
Requests ==
  {Asked("unique", "create", u, None, s, None, "none", None) : u \in Users, s \in Slugs}
  \cup {Asked("resolve", "bySlug", u, None, s, None, "none", None) : u \in Users, s \in Slugs}
  \cup {Asked("guard", op, u, w, None, None, "none", None) :
          op \in {"byId", "update", "remove", "list", "add"}, u \in Users, w \in Ids}
  \cup {Asked("guard", "invite", u, w, None, x, g, None) :
          u \in Users, w \in Ids, x \in Users \cup {None}, g \in Roles}
  \cup {Asked("guard", op, u, w, None, None, "none", pr) :
          op \in {"edit", "drop"}, u \in Users, w \in Ids, pr \in Projects}

Start(p) == /\ \E r \in Requests : Step(p, "idle", r)
            /\ UNCHANGED <<tables, redis, history>>

---------------------------------------------------------------------------
(* RoleGuard and PermissionGuard *)

\* The workspace of a slug; when there is none the guard lets the request by.
Resolve(p) ==
  /\ IF \E w \in Ids : slugOf[w] = req[p].slug
     THEN \E w \in Ids : /\ slugOf[w] = req[p].slug
                         /\ Step(p, "resolve", [GoTo(req[p], "guard") EXCEPT !.ws = w])
     ELSE Step(p, "resolve", GoTo(req[p], "find"))
  /\ UNCHANGED <<tables, redis, history>>

\* PermissionGuard takes the membership that RoleGuard read.
Permits(member, op) == op \in Allowed[member]

\* (defect) only the membership is looked at, not what its role permits.
GuardMembersOnly(p) ==
  LET r == req[p]
  IN  /\ Step(p, "guard",
           IF role[r.ws][r.user] = "none" THEN Answer(r, 403)
           ELSE GoTo(r, CASE r.op = "list" -> "getList"
                          [] r.op = "add" -> "insertProject"
                          [] r.op \in {"edit", "drop"} -> "load"
                          [] OTHER -> "find"))
      /\ UNCHANGED <<tables, redis, history>>

Guard(p) ==
  LET r == req[p]
  IN  /\ Step(p, "guard",
           IF \/ role[r.ws][r.user] = "none"
              \/ ~Permits(role[r.ws][r.user], r.op)
           THEN Answer(r, 403)
           ELSE GoTo(r, CASE r.op = "list" -> "getList"
                          [] r.op = "add" -> "insertProject"
                          [] r.op \in {"edit", "drop"} -> "load"
                          [] OTHER -> "find"))
      /\ UNCHANGED <<tables, redis, history>>

---------------------------------------------------------------------------
(* WorkspaceService *)

\* createWorkspace looks for the slug, then inserts; the column is unique.
CheckSlug(p) ==
  /\ Step(p, "unique", IF \E w \in Ids : slugOf[w] = req[p].slug
                       THEN Answer(req[p], 409) ELSE GoTo(req[p], "insert"))
  /\ UNCHANGED <<tables, redis, history>>

\* (defect) the column is not unique: the check before is all there is.
InsertDuplicate(p) ==
  LET r == req[p]
  IN  /\ r.at = "insert"
      /\ \E w \in Ids :
           /\ slugOf[w] = Free
           /\ slugOf' = [slugOf EXCEPT ![w] = r.slug]
           /\ role' = [role EXCEPT ![w][r.user] = "ADMIN"]
      /\ Step(p, "insert", Answer(Wrote(r, "reply"), 200))
      /\ UNCHANGED <<projectOf, redis, history>>

\* (defect) the creator becomes an ordinary member.
InsertMemberless(p) ==
  LET r == req[p]
  IN  /\ r.at = "insert"
      /\ IF \E v \in Ids : slugOf[v] = r.slug
         THEN Step(p, "insert", Answer(r, 500)) /\ UNCHANGED <<slugOf, role>>
         ELSE /\ \E w \in Ids :
                   /\ slugOf[w] = Free
                   /\ slugOf' = [slugOf EXCEPT ![w] = r.slug]
                   /\ role' = [role EXCEPT ![w][r.user] = "MEMBER"]
              /\ Step(p, "insert", Answer(Wrote(r, "reply"), 200))
      /\ UNCHANGED <<projectOf, redis, history>>

\* One transaction inserts the workspace and its first member.
Insert(p) ==
  LET r == req[p]
  IN  /\ r.at = "insert"
      /\ IF \E v \in Ids : slugOf[v] = r.slug
         THEN Step(p, "insert", Answer(r, 500)) /\ UNCHANGED <<slugOf, role>>
         ELSE /\ \E w \in Ids :
                   /\ slugOf[w] = Free
                   /\ slugOf' = [slugOf EXCEPT ![w] = r.slug]
                   /\ role' = [role EXCEPT ![w][r.user] = "ADMIN"]
              /\ Step(p, "insert", Answer(Wrote(r, "reply"), 200))
      /\ UNCHANGED <<projectOf, redis, history>>

\* findById and findBySlug
Key(r) == IF r.op = "bySlug" THEN r.slug ELSE r.ws
Found(r, e) ==
  [r EXCEPT !.ent = e, !.code = 200,
            !.at = CASE r.op = "update" -> "selectRow" [] r.op = "remove" -> "delete"
                     [] r.op = "invite" -> "member" [] OTHER -> "reply"]

Hit(p) ==
  /\ req[p].at = "find" /\ cache[Key(req[p])] # None
  /\ Step(p, "find", Found(req[p], cache[Key(req[p])]))
  /\ UNCHANGED <<tables, redis, history>>

Miss(p) ==
  /\ req[p].at = "find" /\ Redis(cache[Key(req[p])] = None, TRUE)
  /\ Step(p, "find", GoTo(req[p], "query"))
  /\ UNCHANGED <<tables, redis, history>>

Query(p) ==
  LET r == req[p]
      rows == {w \in Ids : IF r.op = "bySlug" THEN slugOf[w] = r.slug
                           ELSE w = r.ws /\ Exists(w)}
  IN  /\ r.at = "query"
      /\ \/ rows = {} /\ Step(p, "query", Answer(r, 404))
         \/ \E w \in rows : Step(p, "query", [GoTo(r, "fill") EXCEPT
                                                !.ent = [id |-> w, slug |-> slugOf[w]]])
      /\ UNCHANGED <<tables, redis, history>>

Fill(p) ==
  LET r == req[p]
  IN  /\ r.at = "fill"
      /\ Step(p, "fill", Found(r, r.ent))
      /\ Redis(/\ cache' = [cache EXCEPT ![Key(r)] = r.ent]
               /\ late' = IF Exists(r.ent.id) THEN late \ {Key(r)}
                          ELSE late \cup {Key(r)},
               UNCHANGED <<cache, late>>)
      /\ UNCHANGED <<tables, listKey, lateLists, demoted>>

\* updateWorkspace of an empty body: nothing differs, or, when the row is
\* gone, an insertion without a name is refused.
SelectRow(p) ==
  /\ Step(p, "selectRow", IF Exists(req[p].ws) THEN GoTo(req[p], "dropId")
                          ELSE Answer(req[p], 500))
  /\ UNCHANGED <<tables, redis, history>>

\* deleteWorkspace: the foreign keys cascade to members and projects; a row
\* already gone is no error.
Delete(p) ==
  LET r == req[p]
  IN  /\ r.at = "delete"
      /\ slugOf' = [slugOf EXCEPT ![r.ws] = Gone]
      /\ role' = [role EXCEPT ![r.ws] = [u \in Users |-> "none"]]
      /\ projectOf' = [x \in Projects |-> IF projectOf[x] = r.ws THEN Gone
                                          ELSE projectOf[x]]
      /\ Overtake(p, Editors(ProjectsOf(r.ws)), Wrote(r, "dropId"))
      /\ UNCHANGED <<redis, history>>

\* The two keys are deleted one after the other.
Drop(p, at, k, next) ==
  /\ Step(p, at, next)
  /\ Redis(cache' = [cache EXCEPT ![k] = None] /\ late' = late \ {k},
           UNCHANGED cache /\ late' = late \cup {k})
  /\ UNCHANGED <<tables, listKey, lateLists, demoted>>

DropId(p) == req[p].at = "dropId" /\ Drop(p, "dropId", req[p].ws, GoTo(req[p], "dropSlug"))

\* (defect) only the key of the id is deleted.
DropSlugForgotten(p) ==
  /\ Step(p, "dropSlug", Answer(req[p], 200))
  /\ UNCHANGED <<tables, redis, history>>

DropSlug(p) == /\ req[p].at = "dropSlug"
               /\ Drop(p, "dropSlug", req[p].ent.slug, Answer(req[p], 200))

\* (defect) an existing member is invited again.
CheckMemberAgain(p) ==
  /\ Step(p, "member", IF req[p].who = None THEN Answer(req[p], 404)
                       ELSE GoTo(req[p], "selectMember"))
  /\ UNCHANGED <<tables, redis, history>>

\* inviteMember: the user, the membership, then save, which looks again by
\* the composite key and inserts, or writes the role.
CheckMember(p) ==
  LET r == req[p]
  IN  /\ Step(p, "member", IF r.who = None THEN Answer(r, 404)
                           ELSE IF role[r.ws][r.who] # "none" THEN Answer(r, 409)
                           ELSE GoTo(r, "selectMember"))
      /\ UNCHANGED <<tables, redis, history>>

SelectMember(p) ==
  LET r == req[p]
  IN  /\ Step(p, "selectMember",
           GoTo(r, CASE role[r.ws][r.who] = "none" -> "insertMember"
                     [] role[r.ws][r.who] = r.role -> "notify"
                     [] OTHER -> "updateMember"))
      /\ UNCHANGED <<tables, redis, history>>

InsertMember(p) ==
  LET r == req[p]
  IN  /\ r.at = "insertMember"
      /\ IF Exists(r.ws) /\ role[r.ws][r.who] = "none"
         THEN /\ role' = [role EXCEPT ![r.ws][r.who] = r.role]
              /\ Overtake(p, Inviters(r.ws, r.who), Wrote(r, "notify"))
         ELSE Step(p, "insertMember", Answer(r, 500)) /\ UNCHANGED role
      /\ UNCHANGED <<slugOf, projectOf, redis, history>>

UpdateMember(p) ==
  LET r == req[p]
      found == role[r.ws][r.who] # "none"
  IN  /\ r.at = "updateMember"
      /\ role' = IF found THEN [role EXCEPT ![r.ws][r.who] = r.role] ELSE role
      /\ demoted' = IF found THEN demoted \cup {<<r.ws, r.who>>} ELSE demoted
      /\ Overtake(p, IF found THEN Inviters(r.ws, r.who) ELSE {},
                  [GoTo(r, "notify") EXCEPT !.wrote = found])
      /\ UNCHANGED <<slugOf, projectOf, redis, late, lateLists>>

\* The new member is announced and notified; a notification that cannot be
\* enqueued fails the request, and the membership stays.
Notify(p) ==
  /\ \/ Step(p, "notify", Answer(req[p], 200))
     \/ "queue" \in Faults /\ Step(p, "notify", Answer(req[p], 500))
  /\ UNCHANGED <<tables, redis, history>>

---------------------------------------------------------------------------
(* ProjectService *)

GetList(p) ==
  LET r == req[p]
  IN  /\ r.at = "getList"
      /\ \/ /\ listKey[r.ws] # None
            /\ Step(p, "getList", [Answer(r, 200) EXCEPT !.page = listKey[r.ws]])
         \/ Redis(listKey[r.ws] = None, TRUE) /\ Step(p, "getList", GoTo(r, "select"))
      /\ UNCHANGED <<tables, redis, history>>

SelectList(p) ==
  /\ Step(p, "select", [GoTo(req[p], "fillList") EXCEPT !.page = ProjectsOf(req[p].ws)])
  /\ UNCHANGED <<tables, redis, history>>

FillList(p) ==
  LET r == req[p]
  IN  /\ Step(p, "fillList", Answer(r, 200))
      /\ Redis(/\ listKey' = [listKey EXCEPT ![r.ws] = r.page]
               /\ lateLists' = IF r.page = ProjectsOf(r.ws) THEN lateLists \ {r.ws}
                               ELSE lateLists \cup {r.ws},
               UNCHANGED <<listKey, lateLists>>)
      /\ UNCHANGED <<tables, cache, late, demoted>>

\* (defect) an insertion that fails is passed over.
InsertProjectSwallowed(p) ==
  LET r == req[p]
  IN  /\ r.at = "insertProject"
      /\ IF Exists(r.ws)
         THEN /\ \E x \in Projects : /\ projectOf[x] = Free
                                     /\ projectOf' = [projectOf EXCEPT ![x] = r.ws]
              /\ Step(p, "insertProject", Wrote(r, "dropList"))
         ELSE Step(p, "insertProject", GoTo(r, "dropList")) /\ UNCHANGED projectOf
      /\ UNCHANGED <<slugOf, role, redis, history>>

InsertProject(p) ==
  LET r == req[p]
  IN  /\ r.at = "insertProject"
      /\ IF Exists(r.ws)
         THEN /\ \E x \in Projects : /\ projectOf[x] = Free
                                     /\ projectOf' = [projectOf EXCEPT ![x] = r.ws]
              /\ Step(p, "insertProject", Wrote(r, "dropList"))
         ELSE Step(p, "insertProject", Answer(r, 500)) /\ UNCHANGED projectOf
      /\ UNCHANGED <<slugOf, role, redis, history>>

\* (defect) a project that is not found is not an error.
LoadUnchecked(p) ==
  /\ Step(p, "load", GoTo(req[p], IF req[p].op = "edit" THEN "selectProject"
                                  ELSE "deleteProject"))
  /\ UNCHANGED <<tables, redis, history>>

\* findById, for an update or a removal.
Load(p) ==
  LET r == req[p]
  IN  /\ Step(p, "load", IF projectOf[r.proj] # r.ws THEN Answer(r, 404)
                         ELSE GoTo(r, IF r.op = "edit" THEN "selectProject"
                                      ELSE "deleteProject"))
      /\ UNCHANGED <<tables, redis, history>>

\* save of a project as it was loaded: nothing differs, or, when the row is
\* gone, the project is inserted again.
SelectProject(p) ==
  /\ Step(p, "selectProject", GoTo(req[p], IF projectOf[req[p].proj] \in Ids
                                           THEN "dropList" ELSE "reinsert"))
  /\ UNCHANGED <<tables, redis, history>>

Reinsert(p) ==
  LET r == req[p]
  IN  /\ r.at = "reinsert"
      /\ IF Exists(r.ws) /\ projectOf[r.proj] \notin Ids
         THEN /\ projectOf' = [projectOf EXCEPT ![r.proj] = r.ws]
              /\ Step(p, "reinsert", Wrote(r, "dropList"))
         ELSE Step(p, "reinsert", Answer(r, 500)) /\ UNCHANGED projectOf
      /\ UNCHANGED <<slugOf, role, redis, history>>

DeleteProject(p) ==
  LET r == req[p]
  IN  /\ r.at = "deleteProject"
      /\ projectOf' = [projectOf EXCEPT ![r.proj] = Gone]
      /\ Overtake(p, Editors({r.proj}), Wrote(r, "dropList"))
      /\ UNCHANGED <<slugOf, role, redis, history>>

\* (defect) the list stays in the cache.
DropListForgotten(p) ==
  /\ Step(p, "dropList", Answer(req[p], 200))
  /\ UNCHANGED <<tables, redis, history>>

DropList(p) ==
  LET w == req[p].ws
  IN  /\ Step(p, "dropList", Answer(req[p], 200))
      /\ Redis(listKey' = [listKey EXCEPT ![w] = None] /\ lateLists' = lateLists \ {w},
               UNCHANGED listKey /\ lateLists' = lateLists \cup {w})
      /\ UNCHANGED <<tables, cache, late, demoted>>

---------------------------------------------------------------------------
Reply(p) == Step(p, "reply", Idle) /\ UNCHANGED <<tables, redis, history>>

\* Keys a handler is still going to delete.
Dropping(r) == CASE r.op \in {"remove", "update"} /\ r.at = "dropId" -> {r.ws, r.ent.slug}
                 [] r.op \in {"remove", "update"} /\ r.at = "dropSlug" -> {r.ent.slug}
                 [] OTHER -> {}

\* The process dies or a statement fails; keys not yet deleted stay.
Crash(p) ==
  /\ "crash" \in Faults /\ Step(p, req[p].at, Idle) /\ req[p].at # "idle"
  /\ late' = late \cup Dropping(req[p])
  /\ lateLists' = IF req[p].at = "dropList" THEN lateLists \cup {req[p].ws} ELSE lateLists
  /\ UNCHANGED <<tables, redis, demoted>>

\* setex: an hour for a workspace, five minutes for a list.
Expire ==
  /\ \/ \E k \in DOMAIN cache : /\ cache[k] # None
                                /\ cache' = [cache EXCEPT ![k] = None]
                                /\ late' = late \ {k}
                                /\ UNCHANGED <<listKey, lateLists>>
     \/ \E w \in Ids : /\ listKey[w] # None
                       /\ listKey' = [listKey EXCEPT ![w] = None]
                       /\ lateLists' = lateLists \ {w}
                       /\ UNCHANGED <<cache, late>>
  /\ UNCHANGED <<tables, req, demoted>>

Handle(p) ==
  \/ Start(p) \/ Resolve(p) \/ Guard(p) \/ CheckSlug(p) \/ Insert(p)
  \/ Hit(p) \/ Miss(p) \/ Query(p) \/ Fill(p) \/ SelectRow(p) \/ Delete(p)
  \/ DropId(p) \/ DropSlug(p) \/ CheckMember(p) \/ SelectMember(p)
  \/ InsertMember(p) \/ UpdateMember(p) \/ Notify(p)
  \/ GetList(p) \/ SelectList(p) \/ FillList(p) \/ InsertProject(p) \/ Load(p)
  \/ SelectProject(p) \/ Reinsert(p) \/ DeleteProject(p) \/ DropList(p)
  \/ Reply(p)

Next == (\E p \in Reqs : Handle(p) \/ Crash(p)) \/ Expire

Spec == Init /\ [][Next]_vars

---------------------------------------------------------------------------
(* Properties *)

Steps == {"idle", "resolve", "guard", "unique", "insert", "find", "query", "fill",
          "selectRow", "delete", "dropId", "dropSlug", "member", "selectMember",
          "insertMember", "updateMember", "notify", "getList", "select", "fillList",
          "insertProject", "load", "selectProject", "reinsert", "deleteProject",
          "dropList", "reply"}

Handler == [at : Steps, op : GuardedOps \cup {"none", "create"},
            user : Users \cup {None}, ws : Ids \cup {None},
            slug : Slugs \cup {None}, who : Users \cup {None},
            role : Roles \cup {"none"}, proj : Projects \cup {None},
            ent : Entity \cup {None}, page : SUBSET Projects,
            raced : BOOLEAN, wrote : BOOLEAN, code : {0, 200, 403, 404, 409, 500}]

\* Types: the tables, the keys and the places of handlers.
TypeOK ==
  /\ slugOf \in [Ids -> Slugs \cup {Free, Gone}]
  /\ role \in [Ids -> [Users -> Roles \cup {"none"}]]
  /\ projectOf \in [Projects -> Ids \cup {Free, Gone}]
  /\ cache \in [Ids \cup Slugs -> Entity \cup {None}]
  /\ listKey \in [Ids -> {None} \cup SUBSET Projects]
  /\ req \in [Reqs -> Handler]
  /\ late \in SUBSET (Ids \cup Slugs) /\ lateLists \in SUBSET Ids
  /\ demoted \in SUBSET (Ids \X Users)

\* A workspace is never without an ADMIN, although invitations that race may
\* overwrite the role another has just given (createWorkspace stores the creator as
\* ADMIN; inviteMember's save may find a row its check did not).
AdminPresent == \A w \in Ids : Exists(w) => \E u \in Users : role[w][u] = "ADMIN"

\* A member's role changes only when two invitations of that user overlapped:
\* the second had looked for the membership before the first stored it (inviteMember).
RolesHold == [][\A w \in Ids, u \in Users :
  role[w][u] # "none" /\ role'[w][u] \notin {role[w][u], "none"} =>
    \E p \in Reqs : /\ req[p].raced /\ req'[p].at = "notify"
                    /\ req[p].at = "updateMember"
                    /\ req[p].ws = w /\ req[p].who = u]_vars

\* p writes something of workspace w.
WritesIn(p, w) ==
  /\ req'[p].at # req[p].at /\ req[p].at # "idle" /\ req'[p].at # "idle"
  /\ \/ slugOf'[w] # slugOf[w] \/ role'[w] # role[w]
     \/ \E x \in Projects : w \in {projectOf[x], projectOf'[x]}
                            /\ projectOf'[x] # projectOf[x]

\* Between the guard and the write the requester keeps what the guard found:
\* whoever changes a workspace, its members or its projects is at that moment a
\* member whose role permits it, unless invitations raced over that role (RoleGuard,
\* PermissionGuard, which run before every handler).
WritesPermitted == [][\A p \in Reqs, w \in Ids :
  WritesIn(p, w) /\ Exists(w) =>
    \/ Permits(role[w][req[p].user], req[p].op)
    \/ <<w, req[p].user>> \in demoted]_vars

\* A removed project comes back only with an update that had loaded it before
\* the removal (updateProject's save of a project deleted meanwhile).
RemovalsHold == [][\A x \in Projects :
  projectOf[x] = Gone /\ projectOf'[x] \in Ids =>
    \E p \in Reqs : /\ req[p].op = "edit" /\ req[p].proj = x
                    /\ req[p].raced /\ req[p].at = "reinsert"]_vars

\* A request by slug is answered with the workspace the guard checked the
\* membership of, however slugs are freed and taken meanwhile: two workspaces
\* that both exist are not confused (findBySlug, after RoleGuard).
SlugAnswersOwn == \A p \in Reqs :
  LET r == req[p]
  IN  r.op = "bySlug" /\ r.at = "reply" /\ r.code = 200 /\ r.ws # None
        /\ Exists(r.ws) /\ Exists(r.ent.id) => r.ent.id = r.ws

\* A cached workspace exists, and a cached list is the list, unless a handler
\* is about to delete the key, or the key was filled after the removal from a
\* row read before it, or its deletion failed (findById, findBySlug, getProjects
\* and the deletions of updateWorkspace, deleteWorkspace and the project handlers).
KeysExplained ==
  /\ \A k \in Ids \cup Slugs :
       cache[k] # None =>
         \/ slugOf[cache[k].id] = cache[k].slug
         \/ k \in late
         \/ \E p \in Reqs : k \in Dropping(req[p])
  /\ \A w \in Ids :
       Exists(w) /\ listKey[w] # None =>
         \/ listKey[w] = ProjectsOf(w)
         \/ w \in lateLists
         \/ \E p \in Reqs : req[p].at = "dropList" /\ req[p].ws = w

\* An answer of the 400s means that the request changed nothing, and a success
\* that it did what it was asked: so a membership or a project can be left
\* behind only by an answer of 500 or by none (the errors of WorkspaceService and
\* ProjectService, and the notification inviteMember awaits last).
AnswersTell == \A p \in Reqs :
  LET r == req[p]
  IN  r.at = "reply" =>
        /\ r.code \in {403, 404, 409} => ~r.wrote
        /\ r.code = 200 /\ r.op \in {"create", "add", "remove", "drop"} => r.wrote
        /\ r.code = 200 /\ r.op = "invite" =>
             r.wrote \/ r.raced \/ ~Exists(r.ws)
=============================================================================
