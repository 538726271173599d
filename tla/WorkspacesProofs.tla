-------------------------- MODULE WorkspacesProofs --------------------------
(***************************************************************************)
(* Members, slugs, projects and keys of workspaces for any number of       *)
(* requests, users and workspaces and any faults. The inductive invariant  *)
(* says what a handler knows at each await, that a workspace has an ADMIN  *)
(* no running invitation may overwrite, and why a key is what it is.       *)
(***************************************************************************)
EXTENDS Workspaces, TLAPS

---------------------------------------------------------------------------
(* What a handler is at each of its steps *)

Lookup == {"find", "query", "fill"}
Holding == {"fill", "selectRow", "delete", "dropId", "dropSlug"}
Invited == Inviting \cup {"notify"}
Loaded == {"selectProject", "reinsert", "deleteProject"}
Listing == {"getList", "select", "fillList"}

\* The steps of each operation after its guard.
Beyond == Lookup \cup Holding \cup Invited \cup Loaded \cup Listing
          \cup {"member", "insertProject", "load", "dropList"}

\* The fields an operation uses, and the steps it takes.
Fits(r) ==
  /\ r \in Handler
  /\ r.op = "none" <=> r.at = "idle"
  /\ r.op # "none" => r.user \in Users
  /\ r.op \in {"create", "bySlug"} => r.slug \in Slugs
  /\ r.op \in GuardedOps \ {"bySlug"} => r.ws \in Ids
  /\ r.op \in {"edit", "drop"} => r.proj \in Projects
  /\ r.op = "invite" => r.role \in Roles
  /\ r.at \in {"unique", "insert"} => r.op = "create"
  /\ r.at = "resolve" => r.op = "bySlug" /\ r.ws = None
  /\ r.at = "guard" => r.op \in GuardedOps /\ r.ws \in Ids
  /\ r.at \in Lookup => r.op \in {"byId", "bySlug", "update", "remove", "invite"}
  /\ r.at = "selectRow" => r.op = "update"
  /\ r.at = "delete" => r.op = "remove"
  /\ r.at \in {"dropId", "dropSlug"} => r.op \in {"update", "remove"}
  /\ r.at \in {"member"} \cup Invited => r.op = "invite"
  /\ r.at \in Invited => r.who \in Users
  /\ r.at \in Listing => r.op = "list"
  /\ r.at = "insertProject" => r.op = "add"
  /\ r.at \in {"load"} \cup Loaded => r.op \in {"edit", "drop"}
  /\ r.at \in {"selectProject", "reinsert"} => r.op = "edit"
  /\ r.at = "deleteProject" => r.op = "drop"
  /\ r.at = "dropList" => r.op \in {"add", "edit", "drop"}

\* An entity is the row it was read from, or that row is gone.
Faithful(e) == e \in Entity /\ slugOf[e.id] \in {e.slug, Gone}

\* The entity a handler holds is the one it asked for.
KnowsEntity(r) ==
  r.at \in Holding \/ (r.at = "reply" /\ r.op = "bySlug" /\ r.code = 200) =>
    /\ Faithful(r.ent)
    /\ IF r.op = "bySlug" THEN r.ent.slug = r.slug ELSE r.ent.id = r.ws

\* The workspace of a slug, and the membership the guard found.
KnowsSlug(r) ==
  r.op = "bySlug" /\ r.ws # None => r.ws \in Ids /\ slugOf[r.ws] \in {r.slug, Gone}

KnowsRole(r) ==
  r.at \in Beyond /\ r.ws \in Ids =>
    /\ slugOf[r.ws] # Free
    /\ \/ ~Exists(r.ws)
       \/ Permits(role[r.ws][r.user], r.op)
       \/ <<r.ws, r.user>> \in demoted

\* An invitation that finds a member was overtaken by another.
KnowsInvited(r) ==
  /\ r.at \in Inviting /\ role[r.ws][r.who] # "none" => r.raced
  /\ r.at = "updateMember" => r.raced

\* A project that was loaded is where it was, or was removed in between.
KnowsProject(r) ==
  r.at \in Loaded =>
    /\ projectOf[r.proj] \in {r.ws, Gone}
    /\ r.at # "deleteProject" /\ projectOf[r.proj] = Gone => r.raced

\* Whether a handler has written.
KnowsWrote(r) ==
  /\ r.wrote => \/ r.at \in {"dropId", "dropSlug", "notify", "dropList"}
                \/ r.at = "reply" /\ r.code \in {200, 500}
  /\ r.op = "remove" /\ r.at \in {"dropId", "dropSlug"} => r.wrote
  /\ r.op \in {"add", "drop"} /\ r.at = "dropList" => r.wrote
  /\ r.at = "notify" => r.wrote \/ r.raced
  /\ r.at = "reply" /\ r.code = 200 =>
       /\ r.op \in {"create", "add", "remove", "drop"} => r.wrote
       /\ r.op = "invite" => r.wrote \/ r.raced

Knows(r) == /\ Fits(r) /\ KnowsEntity(r) /\ KnowsSlug(r) /\ KnowsRole(r)
            /\ KnowsInvited(r) /\ KnowsProject(r) /\ KnowsWrote(r)

---------------------------------------------------------------------------
(* The tables and the keys *)

Tables ==
  /\ \A v, w \in Ids : Exists(v) /\ slugOf[v] = slugOf[w] => v = w
  /\ \A w \in Ids, u \in Users : role[w][u] # "none" => Exists(w)
  /\ \A x \in Projects : projectOf[x] \in Ids => Exists(projectOf[x])

\* Some ADMIN no running invitation is past its check for.
AdminSafe ==
  \A w \in Ids : Exists(w) =>
    \E u \in Users : role[w][u] = "ADMIN" /\ Inviters(w, u) = {}

\* Handlers that loaded the same project found it in the same workspace.
OneHome ==
  \A p, q \in Reqs :
    req[p].at \in Loaded /\ req[q].at \in Loaded /\ req[p].proj = req[q].proj =>
      req[p].ws = req[q].ws

Keys ==
  /\ \A k \in Ids \cup Slugs : cache[k] # None =>
       Faithful(cache[k]) /\ k \in {cache[k].id, cache[k].slug}
  /\ \A w \in Ids : listKey[w] # None => slugOf[w] # Free

IInv == /\ TypeOK /\ Tables /\ AdminSafe /\ OneHome /\ Keys /\ KeysExplained
        /\ \A p \in Reqs : Knows(req[p])

---------------------------------------------------------------------------
(* A handler that moves while the tables stay *)

\* What a move must not disturb: the ADMINs that are safe, and the home of a
\* project.
Aside(p, r) ==
  /\ r.at \in Inviting =>
       \/ role[r.ws][r.who] = "none"
       \/ req[p].at \in Inviting /\ req[p].ws = r.ws /\ req[p].who = r.who
  /\ r.at \in Loaded =>
       \/ projectOf[r.proj] = r.ws
       \/ req[p].at \in Loaded /\ req[p].ws = r.ws /\ req[p].proj = r.proj

LEMMA Moved ==
  ASSUME IInv, NEW p \in Reqs, NEW r \in Handler, req' = [req EXCEPT ![p] = r]
  PROVE  /\ req' \in [Reqs -> Handler]
         /\ \A q \in Reqs : req'[q] = IF q = p THEN r ELSE req[q]
  BY DEF IInv, TypeOK

LEMMA HandlerMoves ==
  ASSUME IInv, NEW p \in Reqs, NEW r \in Handler, Knows(r), Aside(p, r),
         req' = [req EXCEPT ![p] = r], UNCHANGED <<tables, demoted>>
  PROVE  /\ Tables' /\ AdminSafe' /\ OneHome'
         /\ \A q \in Reqs : Knows(req[q])'
<1>1. /\ \A q \in Reqs : req'[q] = IF q = p THEN r ELSE req[q]
      /\ slugOf' = slugOf /\ role' = role /\ projectOf' = projectOf /\ demoted' = demoted
  BY Moved DEF tables
<1>2. Tables'
  BY <1>1 DEF IInv, Tables, Exists
<1>3. AdminSafe'
  <2> SUFFICES ASSUME NEW w \in Ids, Exists(w)
               PROVE  \E u \in Users : role[w][u] = "ADMIN" /\ Inviters(w, u)' = {}
    BY <1>1 DEF AdminSafe, Exists
  <2>1. PICK u \in Users : role[w][u] = "ADMIN" /\ Inviters(w, u) = {}
    BY DEF IInv, AdminSafe
  <2>2. Inviters(w, u)' = {}
    BY <1>1, <2>1 DEF Inviters, Aside
  <2> QED
    BY <2>1, <2>2
<1>4. OneHome'
  <2> SUFFICES ASSUME NEW q \in Reqs, NEW s \in Reqs,
                      req'[q].at \in Loaded, req'[s].at \in Loaded,
                      req'[q].proj = req'[s].proj
               PROVE  req'[q].ws = req'[s].ws
    BY DEF OneHome
  <2>1. ASSUME NEW t \in Reqs, req[t].at \in Loaded
        PROVE  projectOf[req[t].proj] \in {req[t].ws, Gone} /\ req[t].ws \in Ids
    BY <2>1 DEF IInv, Knows, KnowsProject, Fits, Loaded, GuardedOps, MemberOps
  <2>2. Gone \notin Ids
    BY WorkspaceAssumption
  <2>3. r.at \in Loaded => r.ws \in Ids
    BY DEF Knows, Fits, Loaded, GuardedOps, MemberOps
  <2> QED
    BY <1>1, <2>1, <2>2, <2>3 DEF IInv, OneHome, Aside
<1>5. ASSUME NEW q \in Reqs PROVE Knows(req[q])'
  <2>1. Knows(req'[q])
    BY <1>1 DEF IInv
  <2> QED
    BY <1>1, <2>1 DEF Knows, Fits, KnowsEntity, KnowsSlug, KnowsRole, KnowsInvited,
         KnowsProject, KnowsWrote, Faithful, Exists
<1> QED
  BY <1>2, <1>3, <1>4, <1>5

LEMMA MoveKeeps ==
  ASSUME IInv, NEW p \in Reqs, NEW r \in Handler, Knows(r), Aside(p, r),
         req[p].at \notin {"dropId", "dropSlug", "dropList"},
         req' = [req EXCEPT ![p] = r], UNCHANGED <<tables, redis, history>>
  PROVE  IInv'
<1>1. /\ \A q \in Reqs : req'[q] = IF q = p THEN r ELSE req[q]
      /\ req' \in [Reqs -> Handler]
      /\ slugOf' = slugOf /\ role' = role /\ projectOf' = projectOf
      /\ cache' = cache /\ listKey' = listKey
      /\ late' = late /\ lateLists' = lateLists /\ demoted' = demoted
  BY Moved DEF tables, redis, history
<1>2. TypeOK' /\ Keys'
  <2>1. TypeOK'
    BY <1>1 DEF IInv, TypeOK
  <2>2. Keys'
    BY <1>1 DEF IInv, Keys, Faithful
  <2> QED
    BY <2>1, <2>2
<1>3. /\ Tables' /\ AdminSafe' /\ OneHome'
      /\ \A q \in Reqs : Knows(req[q])'
  BY HandlerMoves DEF history
<1>4. KeysExplained'
  <2>1. \A q \in Reqs, k \in Ids \cup Slugs :
          k \in Dropping(req[q]) => q # p
    BY DEF Dropping
  <2>2. \A q \in Reqs : q # p => Dropping(req[q])' = Dropping(req[q])
    BY <1>1 DEF Dropping
  <2> QED
    BY <1>1, <2>1, <2>2 DEF IInv, KeysExplained, ProjectsOf, Exists
<1> QED
  BY <1>2, <1>3, <1>4 DEF IInv

---------------------------------------------------------------------------
(* What an edit of a handler leaves alone *)

Codes == {0, 200, 403, 404, 409, 500}

\* What no step of a handler changes.
Same(r, o) == /\ r.op = o.op /\ r.user = o.user /\ r.slug = o.slug /\ r.who = o.who
              /\ r.role = o.role /\ r.proj = o.proj

LEMMA EditAt ==
  ASSUME NEW o \in Handler, NEW at \in Steps
  PROVE  LET r == GoTo(o, at)
         IN  /\ r \in Handler /\ Same(r, o) /\ r.at = at /\ r.ws = o.ws /\ r.ent = o.ent
             /\ r.page = o.page /\ r.raced = o.raced /\ r.wrote = o.wrote /\ r.code = o.code
  BY DEF Handler, GoTo, Same

LEMMA EditCode ==
  ASSUME NEW o \in Handler, NEW code \in Codes
  PROVE  LET r == [o EXCEPT !.code = code]
         IN  /\ r \in Handler /\ Same(r, o) /\ r.at = o.at /\ r.ws = o.ws /\ r.ent = o.ent
             /\ r.page = o.page /\ r.raced = o.raced /\ r.wrote = o.wrote /\ r.code = code
  BY DEF Handler, Same, Codes

LEMMA EditWrote ==
  ASSUME NEW o \in Handler, NEW b \in BOOLEAN
  PROVE  LET r == [o EXCEPT !.wrote = b]
         IN  /\ r \in Handler /\ Same(r, o) /\ r.at = o.at /\ r.ws = o.ws /\ r.ent = o.ent
             /\ r.page = o.page /\ r.raced = o.raced /\ (r.wrote <=> b) /\ r.code = o.code
  BY DEF Handler, Same

LEMMA EditRaced ==
  ASSUME NEW o \in Handler, NEW b \in BOOLEAN
  PROVE  LET r == [o EXCEPT !.raced = b]
         IN  /\ r \in Handler /\ Same(r, o) /\ r.at = o.at /\ r.ws = o.ws /\ r.ent = o.ent
             /\ r.page = o.page /\ (r.raced <=> b) /\ r.wrote = o.wrote /\ r.code = o.code
  BY DEF Handler, Same

LEMMA EditEnt ==
  ASSUME NEW o \in Handler, NEW e \in Entity
  PROVE  LET r == [o EXCEPT !.ent = e]
         IN  /\ r \in Handler /\ Same(r, o) /\ r.at = o.at /\ r.ws = o.ws /\ r.ent = e
             /\ r.page = o.page /\ r.raced = o.raced /\ r.wrote = o.wrote /\ r.code = o.code
  BY DEF Handler, Same

LEMMA EditPage ==
  ASSUME NEW o \in Handler, NEW e \in SUBSET Projects
  PROVE  LET r == [o EXCEPT !.page = e]
         IN  /\ r \in Handler /\ Same(r, o) /\ r.at = o.at /\ r.ws = o.ws /\ r.ent = o.ent
             /\ r.page = e /\ r.raced = o.raced /\ r.wrote = o.wrote /\ r.code = o.code
  BY DEF Handler, Same

LEMMA EditWs ==
  ASSUME NEW o \in Handler, NEW w \in Ids
  PROVE  LET r == [o EXCEPT !.ws = w]
         IN  /\ r \in Handler /\ Same(r, o) /\ r.at = o.at /\ r.ws = w /\ r.ent = o.ent
             /\ r.page = o.page /\ r.raced = o.raced /\ r.wrote = o.wrote /\ r.code = o.code
  BY DEF Handler, Same

LEMMA AnswerIs ==
  ASSUME NEW o \in Handler, NEW code \in Codes
  PROVE  LET r == Answer(o, code)
         IN  /\ r \in Handler /\ Same(r, o) /\ r.at = "reply" /\ r.ws = o.ws /\ r.ent = o.ent
             /\ r.page = o.page /\ r.raced = o.raced /\ r.wrote = o.wrote /\ r.code = code
<1>1. Answer(o, code) = [GoTo(o, "reply") EXCEPT !.code = code]
  BY Zenon DEF Answer, GoTo
<1>2. "reply" \in Steps
  BY DEF Steps
<1>3. GoTo(o, "reply") \in Handler
  BY <1>2, EditAt
<1> QED
  BY <1>1, <1>2, <1>3, EditAt, EditCode DEF Same

LEMMA WroteIs ==
  ASSUME NEW o \in Handler, NEW at \in Steps
  PROVE  LET r == Wrote(o, at)
         IN  /\ r \in Handler /\ Same(r, o) /\ r.at = at /\ r.ws = o.ws /\ r.ent = o.ent
             /\ r.page = o.page /\ r.raced = o.raced /\ r.wrote /\ r.code = o.code
<1> DEFINE g == GoTo(o, at)
           r == [g EXCEPT !.wrote = TRUE]
<1>1. Wrote(o, at) = r
  BY Zenon DEF Wrote, GoTo
<1>2. /\ g \in Handler /\ Same(g, o) /\ g.at = at /\ g.ws = o.ws /\ g.ent = o.ent
      /\ g.page = o.page /\ g.raced = o.raced /\ g.wrote = o.wrote /\ g.code = o.code
  BY EditAt
<1> HIDE DEF g
<1>3. TRUE \in BOOLEAN
  OBVIOUS
<1>4. /\ r \in Handler /\ Same(r, g) /\ r.at = g.at /\ r.ws = g.ws /\ r.ent = g.ent
      /\ r.page = g.page /\ r.raced = g.raced /\ (r.wrote <=> TRUE) /\ r.code = g.code
  BY <1>2, <1>3, EditWrote
<1> HIDE DEF r
<1>5. Same(r, o)
  BY <1>2, <1>4 DEF Same
<1> QED
  BY Zenon, <1>1, <1>2, <1>4, <1>5

LEMMA FoundIs ==
  ASSUME NEW o \in Handler, NEW e \in Entity
  PROVE  LET r == Found(o, e)
         IN  /\ r \in Handler /\ Same(r, o) /\ r.ws = o.ws /\ r.ent = e
             /\ r.at = CASE o.op = "update" -> "selectRow" [] o.op = "remove" -> "delete"
                         [] o.op = "invite" -> "member" [] OTHER -> "reply"
             /\ r.page = o.page /\ r.raced = o.raced /\ r.wrote = o.wrote /\ r.code = 200
<1> DEFINE at == CASE o.op = "update" -> "selectRow" [] o.op = "remove" -> "delete"
                   [] o.op = "invite" -> "member" [] OTHER -> "reply"
           c == [o EXCEPT !.ent = e]
           d == [c EXCEPT !.code = 200]
           r == GoTo(d, at)
<1>1. at \in Steps /\ 200 \in Codes
  BY DEF Steps, Codes
<1>2. /\ c \in Handler /\ Same(c, o) /\ c.at = o.at /\ c.ws = o.ws /\ c.ent = e
      /\ c.page = o.page /\ c.raced = o.raced /\ c.wrote = o.wrote /\ c.code = o.code
  BY EditEnt
<1>3. Found(o, e) = r
  BY Zenon DEF Found, GoTo
<1> HIDE DEF c
<1>4. /\ d \in Handler /\ Same(d, c) /\ d.at = c.at /\ d.ws = c.ws /\ d.ent = c.ent
      /\ d.page = c.page /\ d.raced = c.raced /\ d.wrote = c.wrote /\ d.code = 200
  BY <1>1, <1>2, EditCode
<1> HIDE DEF d, at
<1>5. /\ r \in Handler /\ Same(r, d) /\ r.at = at /\ r.ws = d.ws /\ r.ent = d.ent
      /\ r.page = d.page /\ r.raced = d.raced /\ r.wrote = d.wrote /\ r.code = d.code
  BY <1>1, <1>4, EditAt
<1> HIDE DEF r
<1>6. Same(r, o)
  BY <1>2, <1>4, <1>5 DEF Same
<1> QED
  BY <1>2, <1>3, <1>4, <1>5, <1>6 DEF at

---------------------------------------------------------------------------
(* The moves one by one *)

\* An answer.
LEMMA Replying ==
  ASSUME NEW p \in Reqs, NEW o, Knows(o), o.at # "idle",
         NEW r \in Handler, Same(r, o), r.at = "reply", r.ws = o.ws,
         r.wrote => r.code \in {200, 500},
         r.code = 200 /\ r.op = "bySlug" => Faithful(r.ent) /\ r.ent.slug = r.slug,
         r.code = 200 /\ r.op \in {"create", "add", "remove", "drop"} => r.wrote,
         r.code = 200 /\ r.op = "invite" => r.wrote \/ r.raced
  PROVE  Knows(r) /\ Aside(p, r)
<1>1. Fits(r)
  BY DEF Knows, Fits, Same, Lookup, Listing, Loaded, Invited, Inviting
<1>2. KnowsSlug(r) /\ KnowsEntity(r) /\ KnowsWrote(r)
  BY DEF Knows, KnowsSlug, KnowsEntity, KnowsWrote, Same, Holding
<1>3. KnowsRole(r) /\ KnowsInvited(r) /\ KnowsProject(r) /\ Aside(p, r)
  BY DEF KnowsRole, KnowsInvited, KnowsProject, Aside, Beyond, Lookup, Holding, Invited,
         Inviting, Loaded, Listing
<1> QED
  BY <1>1, <1>2, <1>3 DEF Knows

\* The answer of a handler that has written nothing and does not succeed.
LEMMA Refused ==
  ASSUME IInv, NEW p \in Reqs, NEW code \in {403, 404, 409, 500}, req[p].at # "idle",
         ~req[p].wrote
  PROVE  LET r == Answer(req[p], code)
         IN  r \in Handler /\ Knows(r) /\ Aside(p, r)
<1> DEFINE o == req[p]
           r == Answer(o, code)
<1>1. o \in Handler /\ Knows(o) /\ code \in Codes /\ code # 200
  BY DEF IInv, TypeOK, Codes
<1>2. /\ r \in Handler /\ Same(r, o) /\ r.at = "reply" /\ r.ws = o.ws /\ r.wrote = o.wrote
      /\ r.code = code
  BY <1>1, AnswerIs
<1> HIDE DEF r
<1>3. Knows(r) /\ Aside(p, r)
  BY <1>1, <1>2, Replying
<1> QED
  BY <1>2, <1>3 DEF r

\* A handler that goes on without having written.
Onwards(o, r) == /\ r \in Handler /\ Same(r, o) /\ r.ws = o.ws /\ r.raced = o.raced
                 /\ r.wrote = o.wrote

LEMMA StartKeeps ==
  ASSUME IInv, NEW p \in Reqs, Start(p)
  PROVE  IInv'
<1>1. PICK r \in Requests : Step(p, "idle", r)
  BY DEF Start
<1>2. /\ r \in Handler /\ r.op # "none" /\ r.user \in Users
      /\ ~r.wrote /\ ~r.raced
      /\ \/ r.op = "create" /\ r.at = "unique" /\ r.slug \in Slugs /\ r.ws = None
         \/ r.op = "bySlug" /\ r.at = "resolve" /\ r.slug \in Slugs /\ r.ws = None
         \/ /\ r.op \in GuardedOps \ {"bySlug"} /\ r.at = "guard" /\ r.ws \in Ids
            /\ r.op \in {"edit", "drop"} => r.proj \in Projects
            /\ r.op = "invite" => r.role \in Roles
  <2>1. CASE \E u \in Users, s \in Slugs :
               r = Asked("unique", "create", u, None, s, None, "none", None)
    BY <2>1 DEF Asked, Handler, Steps
  <2>2. CASE \E u \in Users, s \in Slugs :
               r = Asked("resolve", "bySlug", u, None, s, None, "none", None)
    BY <2>2 DEF Asked, Handler, Steps, GuardedOps, MemberOps
  <2>3. CASE \E op \in {"byId", "update", "remove", "list", "add"}, u \in Users, w \in Ids :
               r = Asked("guard", op, u, w, None, None, "none", None)
    BY <2>3 DEF Asked, Handler, Steps, GuardedOps, MemberOps
  <2>4. CASE \E u \in Users, w \in Ids, x \in Users \cup {None}, g \in Roles :
               r = Asked("guard", "invite", u, w, None, x, g, None)
    BY <2>4 DEF Asked, Handler, Steps, GuardedOps, MemberOps
  <2>5. CASE \E op \in {"edit", "drop"}, u \in Users, w \in Ids, pr \in Projects :
               r = Asked("guard", op, u, w, None, None, "none", pr)
    BY <2>5 DEF Asked, Handler, Steps, GuardedOps, MemberOps
  <2> QED
    BY <2>1, <2>2, <2>3, <2>4, <2>5 DEF Requests
<1>3. Fits(r)
  BY <1>2 DEF Fits, GuardedOps, MemberOps, Lookup, Invited, Inviting, Listing, Loaded
<1>4. Knows(r) /\ Aside(p, r)
  BY <1>2, <1>3, WorkspaceAssumption
     DEF Knows, KnowsEntity, KnowsSlug, KnowsRole, KnowsInvited, KnowsProject, KnowsWrote,
         Aside, Beyond, Lookup, Holding, Invited, Inviting, Loaded, Listing
<1> QED
  BY <1>1, <1>2, <1>4, MoveKeeps DEF Start, Step

LEMMA ResolveKeeps ==
  ASSUME IInv, NEW p \in Reqs, Resolve(p)
  PROVE  IInv'
<1> DEFINE o == req[p]
<1>1. o \in Handler /\ Knows(o) /\ o.at = "resolve" /\ "guard" \in Steps /\ "find" \in Steps
  BY DEF IInv, TypeOK, Resolve, Step, Steps
<1>2. ASSUME NEW w \in Ids, slugOf[w] = o.slug,
             Step(p, "resolve", [GoTo(o, "guard") EXCEPT !.ws = w])
      PROVE  IInv'
  <2> DEFINE g == GoTo(o, "guard")
             r == [g EXCEPT !.ws = w]
  <2>1. g \in Handler /\ Same(g, o) /\ g.at = "guard" /\ g.wrote = o.wrote
    BY <1>1, EditAt
  <2> HIDE DEF g
  <2>2. r \in Handler /\ Same(r, g) /\ r.at = g.at /\ r.ws = w /\ r.wrote = g.wrote
    BY <1>1, <2>1, EditWs
  <2> HIDE DEF r
  <2>3. Fits(r)
    BY <1>1, <2>1, <2>2 DEF Same, Knows, Fits, GuardedOps, MemberOps, Lookup, Invited, Inviting,
                      Listing, Loaded
  <2>4. Knows(r) /\ Aside(p, r)
    BY <1>1, <1>2, <2>1, <2>2, <2>3
       DEF Same, Knows, KnowsEntity, KnowsSlug, KnowsRole, KnowsInvited, KnowsProject,
           KnowsWrote, Aside, Beyond, Lookup, Holding, Invited, Inviting, Loaded, Listing
  <2> QED
    BY <1>1, <1>2, <2>2, <2>4, MoveKeeps DEF Resolve, Step, r, g
<1>3. ASSUME Step(p, "resolve", GoTo(o, "find"))
      PROVE  IInv'
  <2> DEFINE r == GoTo(o, "find")
  <2>1. r \in Handler /\ Same(r, o) /\ r.at = "find" /\ r.ws = o.ws /\ r.wrote = o.wrote
    BY <1>1, EditAt
  <2> HIDE DEF r
  <2>2. Fits(r)
    BY <1>1, <2>1 DEF Same, Knows, Fits, GuardedOps, MemberOps, Lookup, Invited, Inviting,
                      Listing, Loaded
  <2>3. Knows(r) /\ Aside(p, r)
    BY <1>1, <2>1, <2>2, WorkspaceAssumption
       DEF Same, Knows, Fits, KnowsEntity, KnowsSlug, KnowsRole, KnowsInvited, KnowsProject,
           KnowsWrote, Aside, Beyond, Lookup, Holding, Invited, Inviting, Loaded, Listing
  <2> QED
    BY <1>1, <1>3, <2>1, <2>3, MoveKeeps DEF Resolve, Step, r
<1> QED
  BY <1>2, <1>3 DEF Resolve

LEMMA GuardKeeps ==
  ASSUME IInv, NEW p \in Reqs, Guard(p)
  PROVE  IInv'
<1> DEFINE o == req[p]
           at == CASE o.op = "list" -> "getList"
                   [] o.op = "add" -> "insertProject"
                   [] o.op \in {"edit", "drop"} -> "load"
                   [] OTHER -> "find"
           r == GoTo(o, at)
<1>1. o \in Handler /\ Knows(o) /\ o.at = "guard" /\ o.op \in GuardedOps /\ o.ws \in Ids
  BY DEF IInv, TypeOK, Guard, Step, Knows, Fits
<1>2. ~o.wrote /\ o.user \in Users
  BY <1>1 DEF Knows, KnowsWrote, Fits
<1>3. CASE role[o.ws][o.user] = "none" \/ ~Permits(role[o.ws][o.user], o.op)
  <2>1. req' = [req EXCEPT ![p] = Answer(o, 403)] /\ UNCHANGED <<tables, redis, history>>
    BY <1>3 DEF Guard, Step
  <2>2. /\ Answer(o, 403) \in Handler /\ Knows(Answer(o, 403)) /\ Aside(p, Answer(o, 403))
    BY <1>1, <1>2, Refused
  <2> QED
    BY <1>1, <2>1, <2>2, MoveKeeps
<1>4. CASE role[o.ws][o.user] # "none" /\ Permits(role[o.ws][o.user], o.op)
  <2>1. req' = [req EXCEPT ![p] = r] /\ UNCHANGED <<tables, redis, history>>
    BY <1>4 DEF Guard, Step
  <2>2. at \in {"getList", "insertProject", "load", "find"} /\ at \in Steps
    BY DEF Steps
  <2>3. /\ at = "getList" => o.op = "list"
        /\ at = "insertProject" => o.op = "add"
        /\ at = "load" => o.op \in {"edit", "drop"}
        /\ at = "find" => o.op \in {"byId", "bySlug", "update", "remove", "invite"}
    BY <1>1 DEF GuardedOps, MemberOps
  <2> HIDE DEF at
  <2>4. r \in Handler /\ Same(r, o) /\ r.at = at /\ r.ws = o.ws /\ r.wrote = o.wrote
    BY <1>1, <2>2, EditAt
  <2> HIDE DEF r
  <2>5. slugOf[o.ws] # Free
    BY <1>1, <1>2, <1>4, WorkspaceAssumption DEF IInv, Tables, Exists
  <2>6. Fits(r)
    BY <1>1, <2>2, <2>3, <2>4
       DEF Same, Knows, Fits, Lookup, Invited, Inviting, Listing, Loaded
  <2>7. Knows(r) /\ Aside(p, r)
    BY <1>1, <1>2, <1>4, <2>2, <2>4, <2>5, <2>6
       DEF Same, Knows, KnowsEntity, KnowsSlug, KnowsRole, KnowsInvited, KnowsProject,
           KnowsWrote, Aside, Holding, Inviting, Loaded
  <2> QED
    BY <1>1, <2>1, <2>4, <2>7, MoveKeeps
<1> QED
  BY <1>3, <1>4

LEMMA CheckSlugKeeps ==
  ASSUME IInv, NEW p \in Reqs, CheckSlug(p)
  PROVE  IInv'
<1> DEFINE o == req[p]
           r == GoTo(o, "insert")
<1>1. o \in Handler /\ Knows(o) /\ o.at = "unique" /\ "insert" \in Steps
  BY DEF IInv, TypeOK, CheckSlug, Step, Steps
<1>2. o.op = "create" /\ ~o.wrote
  BY <1>1 DEF Knows, Fits, KnowsWrote
<1>3. Answer(o, 409) \in Handler /\ Knows(Answer(o, 409)) /\ Aside(p, Answer(o, 409))
  BY <1>1, <1>2, Refused
<1>4. r \in Handler /\ Same(r, o) /\ r.at = "insert" /\ r.ws = o.ws /\ r.wrote = o.wrote
  BY <1>1, EditAt
<1>5. (\/ req' = [req EXCEPT ![p] = Answer(o, 409)]
       \/ req' = [req EXCEPT ![p] = r]) /\ UNCHANGED <<tables, redis, history>>
  BY DEF CheckSlug, Step
<1> HIDE DEF r
<1>6. Knows(r) /\ Aside(p, r)
  <2>1. Fits(r)
    BY <1>1, <1>2, <1>4
       DEF Same, Knows, Fits, Lookup, Invited, Inviting, Listing, Loaded, GuardedOps, MemberOps
  <2> QED
    BY <1>1, <1>2, <1>4, <2>1
       DEF Same, Knows, KnowsEntity, KnowsSlug, KnowsRole, KnowsInvited, KnowsProject,
           KnowsWrote, Aside, Beyond, Lookup, Holding, Invited, Inviting, Loaded, Listing
<1> QED
  BY <1>1, <1>3, <1>4, <1>5, <1>6, MoveKeeps

\* A handler that has found its workspace.
LEMMA FoundKnows ==
  ASSUME IInv, NEW p \in Reqs, req[p].at \in Lookup, NEW e \in Entity, Faithful(e),
         IF req[p].op = "bySlug" THEN e.slug = req[p].slug ELSE e.id = req[p].ws
  PROVE  LET r == Found(req[p], e) IN r \in Handler /\ Knows(r) /\ Aside(p, r)
<1> DEFINE o == req[p]
           r == Found(o, e)
<1>1. o \in Handler /\ Knows(o)
  BY DEF IInv, TypeOK
<1>2. ~o.wrote /\ o.op \in {"byId", "bySlug", "update", "remove", "invite"} /\ o.at # "idle"
  BY <1>1 DEF Knows, Fits, KnowsWrote, Lookup
<1>3. /\ r \in Handler /\ Same(r, o) /\ r.ws = o.ws /\ r.ent = e
      /\ r.at = CASE o.op = "update" -> "selectRow" [] o.op = "remove" -> "delete"
                  [] o.op = "invite" -> "member" [] OTHER -> "reply"
      /\ r.raced = o.raced /\ r.wrote = o.wrote /\ r.code = 200
  BY <1>1, FoundIs
<1> HIDE DEF r
<1>4. CASE r.at = "reply"
  <2>1. r.op \in {"byId", "bySlug"}
    BY <1>2, <1>3, <1>4 DEF Same
  <2>2. Knows(r) /\ Aside(p, r)
    BY <1>1, <1>2, <1>3, <1>4, <2>1, Replying DEF Same
  <2> QED
    BY <1>3, <2>2 DEF r
<1>5. CASE r.at # "reply"
  <2>1. /\ r.at \in {"selectRow", "delete", "member"}
        /\ r.at = "selectRow" => r.op = "update"
        /\ r.at = "delete" => r.op = "remove"
        /\ r.at = "member" => r.op = "invite"
    BY <1>2, <1>3, <1>5 DEF Same
  <2>2. Fits(r)
    BY <1>1, <1>2, <1>3, <2>1
       DEF Same, Knows, Fits, Lookup, Invited, Inviting, Listing, Loaded, GuardedOps, MemberOps
  <2>3. KnowsEntity(r) /\ KnowsSlug(r) /\ KnowsInvited(r) /\ KnowsProject(r) /\ KnowsWrote(r)
        /\ Aside(p, r)
    BY <1>1, <1>2, <1>3, <2>1
       DEF Same, Knows, KnowsEntity, KnowsSlug, KnowsInvited, KnowsProject, KnowsWrote, Aside,
           Inviting, Loaded
  <2>4. KnowsRole(r)
    BY <1>1, <1>2, <1>3, <2>1 DEF Same, Knows, KnowsRole, Beyond, Lookup
  <2> QED
    BY <1>3, <2>2, <2>3, <2>4 DEF Knows, r
<1> QED
  BY <1>4, <1>5

LEMMA HitKeeps ==
  ASSUME IInv, NEW p \in Reqs, Hit(p)
  PROVE  IInv'
<1> DEFINE o == req[p]
           e == cache[Key(o)]
<1>1. Knows(o) /\ o.at = "find" /\ o.at \in Lookup /\ e # None
  BY DEF IInv, Hit, Lookup
<1>2. /\ Key(o) \in Ids \cup Slugs
      /\ o.op = "bySlug" => Key(o) = o.slug /\ o.slug \in Slugs
      /\ o.op # "bySlug" => Key(o) = o.ws /\ o.ws \in Ids
  BY <1>1 DEF Knows, Fits, Key, Lookup, GuardedOps, MemberOps
<1>3. Faithful(e) /\ e \in Entity /\ Key(o) \in {e.id, e.slug}
  BY <1>1, <1>2 DEF IInv, Keys, Faithful
<1>4. e.id \in Ids /\ e.slug \in Slugs
  BY <1>3 DEF Entity
<1>5. IF o.op = "bySlug" THEN e.slug = o.slug ELSE e.id = o.ws
  BY <1>2, <1>3, <1>4, WorkspaceAssumption
<1>6. req' = [req EXCEPT ![p] = Found(o, e)] /\ UNCHANGED <<tables, redis, history>>
  BY DEF Hit, Step
<1> HIDE DEF e
<1>7. Found(o, e) \in Handler /\ Knows(Found(o, e)) /\ Aside(p, Found(o, e))
  BY <1>1, <1>3, <1>5, FoundKnows
<1> QED
  BY <1>1, <1>6, <1>7, MoveKeeps

LEMMA MissKeeps ==
  ASSUME IInv, NEW p \in Reqs, Miss(p)
  PROVE  IInv'
<1> DEFINE o == req[p]
           r == GoTo(o, "query")
<1>1. o \in Handler /\ Knows(o) /\ o.at = "find" /\ "query" \in Steps
  BY DEF IInv, TypeOK, Miss, Steps
<1>2. r \in Handler /\ Same(r, o) /\ r.at = "query" /\ r.ws = o.ws /\ r.wrote = o.wrote
  BY <1>1, EditAt
<1>3. req' = [req EXCEPT ![p] = r] /\ UNCHANGED <<tables, redis, history>>
  BY DEF Miss, Step
<1> HIDE DEF r
<1>4. Knows(r) /\ Aside(p, r)
  <2>1. Fits(r)
    BY <1>1, <1>2
       DEF Same, Knows, Fits, Lookup, Invited, Inviting, Listing, Loaded, GuardedOps, MemberOps
  <2> QED
    BY <1>1, <1>2, <2>1
       DEF Same, Knows, KnowsEntity, KnowsSlug, KnowsRole, KnowsInvited, KnowsProject,
           KnowsWrote, Aside, Beyond, Lookup, Holding, Inviting, Loaded
<1> QED
  BY <1>1, <1>2, <1>3, <1>4, MoveKeeps

LEMMA QueryKeeps ==
  ASSUME IInv, NEW p \in Reqs, Query(p)
  PROVE  IInv'
<1> DEFINE o == req[p]
           g == GoTo(o, "fill")
           rows == {w \in Ids : IF o.op = "bySlug" THEN slugOf[w] = o.slug
                                ELSE w = o.ws /\ Exists(w)}
<1>1. o \in Handler /\ Knows(o) /\ o.at = "query" /\ "fill" \in Steps
  BY DEF IInv, TypeOK, Query, Steps
<1>2. ~o.wrote /\ o.op \in {"byId", "bySlug", "update", "remove", "invite"}
      /\ (o.op = "bySlug" => o.slug \in Slugs)
  BY <1>1 DEF Knows, Fits, KnowsWrote, Lookup
<1>3. Answer(o, 404) \in Handler /\ Knows(Answer(o, 404)) /\ Aside(p, Answer(o, 404))
  BY <1>1, <1>2, Refused
<1>4. g \in Handler /\ Same(g, o) /\ g.at = "fill" /\ g.ws = o.ws /\ g.wrote = o.wrote
  BY <1>1, EditAt
<1> HIDE DEF g
<1>5. ASSUME NEW w \in rows,
             req' = [req EXCEPT ![p] = [g EXCEPT !.ent = [id |-> w, slug |-> slugOf[w]]]],
             UNCHANGED <<tables, redis, history>>
      PROVE  IInv'
  <2> DEFINE e == [id |-> w, slug |-> slugOf[w]]
             r == [g EXCEPT !.ent = e]
  <2>1. e \in Entity /\ e.id = w /\ slugOf[w] = e.slug
    BY <1>2 DEF Entity, Exists
  <2>2. Faithful(e) /\ IF o.op = "bySlug" THEN e.slug = o.slug ELSE e.id = o.ws
    BY <2>1 DEF Faithful
  <2> HIDE DEF e
  <2>3. /\ r \in Handler /\ Same(r, g) /\ r.at = g.at /\ r.ws = g.ws /\ r.ent = e
        /\ r.wrote = g.wrote
    BY <1>4, <2>1, EditEnt
  <2> HIDE DEF r
  <2>4. Fits(r)
    BY <1>1, <1>4, <2>3
       DEF Same, Knows, Fits, Lookup, Invited, Inviting, Listing, Loaded, GuardedOps, MemberOps
  <2>5. Knows(r) /\ Aside(p, r)
    BY <1>1, <1>2, <1>4, <2>2, <2>3, <2>4
       DEF Same, Knows, KnowsEntity, KnowsSlug, KnowsRole, KnowsInvited, KnowsProject,
           KnowsWrote, Aside, Beyond, Lookup, Holding, Inviting, Loaded
  <2> QED
    BY <1>1, <1>5, <2>3, <2>5, MoveKeeps DEF r, e
<1> QED
  BY <1>1, <1>3, <1>5, MoveKeeps DEF Query, Step, g

LEMMA SelectRowKeeps ==
  ASSUME IInv, NEW p \in Reqs, SelectRow(p)
  PROVE  IInv'
<1> DEFINE o == req[p]
           r == GoTo(o, "dropId")
<1>1. o \in Handler /\ Knows(o) /\ o.at = "selectRow" /\ "dropId" \in Steps
  BY DEF IInv, TypeOK, SelectRow, Step, Steps
<1>2. ~o.wrote /\ o.op = "update"
  BY <1>1 DEF Knows, Fits, KnowsWrote
<1>3. Answer(o, 500) \in Handler /\ Knows(Answer(o, 500)) /\ Aside(p, Answer(o, 500))
  BY <1>1, <1>2, Refused
<1>4. /\ r \in Handler /\ Same(r, o) /\ r.at = "dropId" /\ r.ws = o.ws /\ r.wrote = o.wrote
      /\ r.ent = o.ent
  BY <1>1, EditAt
<1>5. (\/ req' = [req EXCEPT ![p] = Answer(o, 500)]
       \/ req' = [req EXCEPT ![p] = r]) /\ UNCHANGED <<tables, redis, history>>
  BY DEF SelectRow, Step
<1> HIDE DEF r
<1>6. Knows(r) /\ Aside(p, r)
  <2>1. Fits(r)
    BY <1>1, <1>2, <1>4
       DEF Same, Knows, Fits, Lookup, Invited, Inviting, Listing, Loaded, GuardedOps, MemberOps
  <2> QED
    BY <1>1, <1>2, <1>4, <2>1
       DEF Same, Knows, KnowsEntity, KnowsSlug, KnowsRole, KnowsInvited, KnowsProject,
           KnowsWrote, Aside, Beyond, Lookup, Holding, Inviting, Loaded
<1> QED
  BY <1>1, <1>3, <1>4, <1>5, <1>6, MoveKeeps

LEMMA CheckMemberKeeps ==
  ASSUME IInv, NEW p \in Reqs, CheckMember(p)
  PROVE  IInv'
<1> DEFINE o == req[p]
           r == GoTo(o, "selectMember")
<1>1. o \in Handler /\ Knows(o) /\ o.at = "member" /\ "selectMember" \in Steps
  BY DEF IInv, TypeOK, CheckMember, Step, Steps
<1>2. ~o.wrote /\ o.op = "invite"
  BY <1>1 DEF Knows, Fits, KnowsWrote
<1>3. ASSUME NEW code \in {404, 409},
             req' = [req EXCEPT ![p] = Answer(o, code)],
             UNCHANGED <<tables, redis, history>>
      PROVE  IInv'
  <2> DEFINE a == Answer(o, code)
  <2>1. a \in Handler /\ Knows(a) /\ Aside(p, a)
    BY <1>1, <1>2, Refused
  <2> HIDE DEF a
  <2>2. req' = [req EXCEPT ![p] = a]
    BY <1>3 DEF a
  <2> QED
    BY <1>1, <1>3, <2>1, <2>2, MoveKeeps
<1>4. ASSUME o.who # None, role[o.ws][o.who] = "none", req' = [req EXCEPT ![p] = r],
             UNCHANGED <<tables, redis, history>>
      PROVE  IInv'
  <2>1. /\ r \in Handler /\ Same(r, o) /\ r.at = "selectMember" /\ r.ws = o.ws
        /\ r.wrote = o.wrote
    BY <1>1, EditAt
  <2> HIDE DEF r
  <2>2. o.who \in Users
    BY <1>1, <1>4 DEF Handler
  <2>3. Fits(r)
    BY <1>1, <1>2, <2>1, <2>2
       DEF Same, Knows, Fits, Lookup, Invited, Inviting, Listing, Loaded, GuardedOps, MemberOps
  <2>4. Knows(r) /\ Aside(p, r)
    BY <1>1, <1>2, <1>4, <2>1, <2>3
       DEF Same, Knows, KnowsEntity, KnowsSlug, KnowsRole, KnowsInvited, KnowsProject,
           KnowsWrote, Aside, Beyond, Lookup, Holding, Invited, Inviting, Loaded
  <2> QED
    BY <1>1, <1>4, <2>1, <2>4, MoveKeeps
<1> QED
  BY <1>3, <1>4 DEF CheckMember, Step

LEMMA SelectMemberKeeps ==
  ASSUME IInv, NEW p \in Reqs, SelectMember(p)
  PROVE  IInv'
<1> DEFINE o == req[p]
           found == role[o.ws][o.who]
           at == CASE found = "none" -> "insertMember" [] found = o.role -> "notify"
                   [] OTHER -> "updateMember"
           r == GoTo(o, at)
<1>1. o \in Handler /\ Knows(o) /\ o.at = "selectMember"
  BY DEF IInv, TypeOK, SelectMember, Step
<1>2. /\ ~o.wrote /\ o.op = "invite" /\ o.who \in Users /\ o.role \in Roles
      /\ found # "none" => o.raced
  BY <1>1 DEF Knows, Fits, KnowsWrote, KnowsInvited, Inviting, Invited
<1>3. at \in {"insertMember", "notify", "updateMember"} /\ at \in Steps
      /\ (at # "insertMember" => found # "none")
  BY <1>2 DEF Steps, Roles
<1>4. req' = [req EXCEPT ![p] = r] /\ UNCHANGED <<tables, redis, history>>
  BY DEF SelectMember, Step
<1> HIDE DEF at
<1>5. /\ r \in Handler /\ Same(r, o) /\ r.at = at /\ r.ws = o.ws
      /\ r.wrote = o.wrote /\ r.raced = o.raced
  BY <1>1, <1>3, EditAt
<1> HIDE DEF r
<1>6. Fits(r)
  BY <1>1, <1>2, <1>3, <1>5
     DEF Same, Knows, Fits, Lookup, Invited, Inviting, Listing, Loaded, GuardedOps, MemberOps
<1>7. Knows(r) /\ Aside(p, r)
  BY <1>1, <1>2, <1>3, <1>5, <1>6
     DEF Same, Knows, KnowsEntity, KnowsSlug, KnowsRole, KnowsInvited, KnowsProject,
         KnowsWrote, Aside, Beyond, Lookup, Holding, Invited, Inviting, Loaded
<1> QED
  BY <1>1, <1>4, <1>5, <1>7, MoveKeeps

LEMMA NotifyKeeps ==
  ASSUME IInv, NEW p \in Reqs, Notify(p)
  PROVE  IInv'
<1> DEFINE o == req[p]
<1>1. o \in Handler /\ Knows(o) /\ o.at = "notify"
  BY DEF IInv, TypeOK, Notify, Step
<1>2. o.op = "invite" /\ (o.wrote \/ o.raced)
  BY <1>1 DEF Knows, Fits, KnowsWrote, Invited
<1>3. ASSUME NEW code \in {200, 500},
             req' = [req EXCEPT ![p] = Answer(o, code)],
             UNCHANGED <<tables, redis, history>>
      PROVE  IInv'
  <2> DEFINE r == Answer(o, code)
  <2>1. /\ r \in Handler /\ Same(r, o) /\ r.at = "reply" /\ r.ws = o.ws /\ r.ent = o.ent
        /\ r.raced = o.raced /\ r.wrote = o.wrote /\ r.code = code
    BY <1>1, AnswerIs DEF Codes
  <2> HIDE DEF r
  <2>2. Knows(r) /\ Aside(p, r)
    BY <1>1, <1>2, <2>1, Replying DEF Same
  <2> QED
    BY <1>1, <1>3, <2>1, <2>2, MoveKeeps DEF r
<1> QED
  BY <1>3 DEF Notify, Step

LEMMA GetListKeeps ==
  ASSUME IInv, NEW p \in Reqs, GetList(p)
  PROVE  IInv'
<1> DEFINE o == req[p]
           g == Answer(o, 200)
           r == GoTo(o, "select")
<1>1. o \in Handler /\ Knows(o) /\ o.at = "getList" /\ "select" \in Steps /\ 200 \in Codes
  BY DEF IInv, TypeOK, GetList, Steps, Codes
<1>2. ~o.wrote /\ o.op = "list" /\ o.ws \in Ids
  BY <1>1 DEF Knows, Fits, KnowsWrote, Listing, GuardedOps, MemberOps
<1>3. ASSUME listKey[o.ws] # None, req' = [req EXCEPT ![p] = [g EXCEPT !.page = listKey[o.ws]]],
             UNCHANGED <<tables, redis, history>>
      PROVE  IInv'
  <2> DEFINE a == [g EXCEPT !.page = listKey[o.ws]]
  <2>1. listKey[o.ws] \in SUBSET Projects
    BY <1>2, <1>3 DEF IInv, TypeOK
  <2>2. /\ g \in Handler /\ Same(g, o) /\ g.at = "reply" /\ g.ws = o.ws /\ g.wrote = o.wrote
        /\ g.code = 200
    BY <1>1, AnswerIs
  <2> HIDE DEF g
  <2>3. /\ a \in Handler /\ Same(a, g) /\ a.at = g.at /\ a.ws = g.ws /\ a.wrote = g.wrote
        /\ a.code = g.code
    BY <2>1, <2>2, EditPage
  <2> HIDE DEF a
  <2>4. Same(a, o) /\ a.op = "list"
    BY <1>2, <2>2, <2>3 DEF Same
  <2>5. Knows(a) /\ Aside(p, a)
    BY <1>1, <1>2, <2>2, <2>3, <2>4, Replying
  <2> QED
    BY <1>1, <1>3, <2>3, <2>5, MoveKeeps DEF a
<1>4. ASSUME req' = [req EXCEPT ![p] = r], UNCHANGED <<tables, redis, history>>
      PROVE  IInv'
  <2>1. r \in Handler /\ Same(r, o) /\ r.at = "select" /\ r.ws = o.ws /\ r.wrote = o.wrote
    BY <1>1, EditAt
  <2> HIDE DEF r
  <2>2. Fits(r)
    BY <1>1, <1>2, <2>1
       DEF Same, Knows, Fits, Lookup, Invited, Inviting, Listing, Loaded, GuardedOps, MemberOps
  <2>3. Knows(r) /\ Aside(p, r)
    BY <1>1, <1>2, <2>1, <2>2
       DEF Same, Knows, KnowsEntity, KnowsSlug, KnowsRole, KnowsInvited, KnowsProject,
           KnowsWrote, Aside, Beyond, Listing, Holding, Inviting, Loaded
  <2> QED
    BY <1>1, <1>4, <2>1, <2>3, MoveKeeps
<1> QED
  BY <1>3, <1>4 DEF GetList, Step

LEMMA SelectListKeeps ==
  ASSUME IInv, NEW p \in Reqs, SelectList(p)
  PROVE  IInv'
<1> DEFINE o == req[p]
           g == GoTo(o, "fillList")
           r == [g EXCEPT !.page = ProjectsOf(o.ws)]
<1>1. o \in Handler /\ Knows(o) /\ o.at = "select" /\ "fillList" \in Steps
      /\ ProjectsOf(o.ws) \in SUBSET Projects
  BY DEF IInv, TypeOK, SelectList, Step, Steps, ProjectsOf
<1>2. ~o.wrote /\ o.op = "list"
  BY <1>1 DEF Knows, Fits, KnowsWrote, Listing
<1>3. g \in Handler /\ Same(g, o) /\ g.at = "fillList" /\ g.ws = o.ws /\ g.wrote = o.wrote
  BY <1>1, EditAt
<1>4. req' = [req EXCEPT ![p] = r] /\ UNCHANGED <<tables, redis, history>>
  BY DEF SelectList, Step
<1> HIDE DEF g
<1>5. r \in Handler /\ Same(r, g) /\ r.at = g.at /\ r.ws = g.ws /\ r.wrote = g.wrote
  BY <1>1, <1>3, EditPage
<1> HIDE DEF r
<1>6. Fits(r)
  BY <1>1, <1>2, <1>3, <1>5
     DEF Same, Knows, Fits, Lookup, Invited, Inviting, Listing, Loaded, GuardedOps, MemberOps
<1>7. Knows(r) /\ Aside(p, r)
  BY <1>1, <1>2, <1>3, <1>5, <1>6
     DEF Same, Knows, KnowsEntity, KnowsSlug, KnowsRole, KnowsInvited, KnowsProject,
         KnowsWrote, Aside, Beyond, Listing, Holding, Inviting, Loaded
<1> QED
  BY <1>1, <1>4, <1>5, <1>7, MoveKeeps

LEMMA LoadKeeps ==
  ASSUME IInv, NEW p \in Reqs, Load(p)
  PROVE  IInv'
<1> DEFINE o == req[p]
           at == IF o.op = "edit" THEN "selectProject" ELSE "deleteProject"
           r == GoTo(o, at)
<1>1. o \in Handler /\ Knows(o) /\ o.at = "load" /\ at \in Steps
      /\ at \in {"selectProject", "deleteProject"}
      /\ (at = "selectProject" <=> o.op = "edit")
  BY DEF IInv, TypeOK, Load, Step, Steps
<1>2. ~o.wrote /\ o.op \in {"edit", "drop"} /\ o.ws \in Ids /\ o.proj \in Projects
  BY <1>1 DEF Knows, Fits, KnowsWrote, GuardedOps, MemberOps
<1>3. CASE projectOf[o.proj] # o.ws
  <2>1. req' = [req EXCEPT ![p] = Answer(o, 404)] /\ UNCHANGED <<tables, redis, history>>
    BY <1>3 DEF Load, Step
  <2>2. Answer(o, 404) \in Handler /\ Knows(Answer(o, 404)) /\ Aside(p, Answer(o, 404))
    BY <1>1, <1>2, Refused
  <2> QED
    BY <1>1, <2>1, <2>2, MoveKeeps
<1>4. CASE projectOf[o.proj] = o.ws
  <2>1. req' = [req EXCEPT ![p] = r] /\ UNCHANGED <<tables, redis, history>>
    BY <1>4 DEF Load, Step
  <2> HIDE DEF at
  <2>2. r \in Handler /\ Same(r, o) /\ r.at = at /\ r.ws = o.ws /\ r.wrote = o.wrote
    BY <1>1, EditAt
  <2> HIDE DEF r
  <2>3. Gone # o.ws
    BY <1>2, WorkspaceAssumption
  <2>4. Fits(r)
    BY <1>1, <1>2, <2>2
       DEF Same, Knows, Fits, Lookup, Invited, Inviting, Listing, Loaded, GuardedOps, MemberOps
  <2>5. Knows(r) /\ Aside(p, r)
    BY <1>1, <1>2, <1>4, <2>2, <2>3, <2>4
       DEF Same, Knows, KnowsEntity, KnowsSlug, KnowsRole, KnowsInvited, KnowsProject,
           KnowsWrote, Aside, Beyond, Holding, Inviting, Loaded
  <2> QED
    BY <1>1, <2>1, <2>2, <2>5, MoveKeeps
<1> QED
  BY <1>3, <1>4

LEMMA SelectProjectKeeps ==
  ASSUME IInv, NEW p \in Reqs, SelectProject(p)
  PROVE  IInv'
<1> DEFINE o == req[p]
           at == IF projectOf[o.proj] \in Ids THEN "dropList" ELSE "reinsert"
           r == GoTo(o, at)
<1>1. o \in Handler /\ Knows(o) /\ o.at = "selectProject" /\ at \in Steps
      /\ at \in {"dropList", "reinsert"}
  BY DEF IInv, TypeOK, SelectProject, Step, Steps
<1>2. ~o.wrote /\ o.op = "edit" /\ KnowsProject(o)
  BY <1>1 DEF Knows, Fits, KnowsWrote
<1>3. req' = [req EXCEPT ![p] = r] /\ UNCHANGED <<tables, redis, history>>
  BY DEF SelectProject, Step
<1> HIDE DEF at
<1>4. /\ r \in Handler /\ Same(r, o) /\ r.at = at /\ r.ws = o.ws /\ r.wrote = o.wrote
      /\ r.raced = o.raced
  BY <1>1, EditAt
<1> HIDE DEF r
<1>5. Fits(r)
  BY <1>1, <1>2, <1>4
     DEF Same, Knows, Fits, Lookup, Invited, Inviting, Listing, Loaded, GuardedOps, MemberOps
<1>6. Knows(r) /\ Aside(p, r)
  BY <1>1, <1>2, <1>4, <1>5
     DEF Same, Knows, KnowsEntity, KnowsSlug, KnowsRole, KnowsInvited, KnowsProject,
         KnowsWrote, Aside, Beyond, Holding, Inviting, Loaded
<1> QED
  BY <1>1, <1>3, <1>4, <1>6, MoveKeeps

LEMMA ReplyKeeps ==
  ASSUME IInv, NEW p \in Reqs, Reply(p)
  PROVE  IInv'
<1>1. /\ Idle \in Handler /\ Idle.at = "idle" /\ Idle.op = "none" /\ ~Idle.wrote
  BY DEF Idle, Asked, Handler, Steps
<1>2. Fits(Idle)
  BY <1>1 DEF Fits, Lookup, Invited, Inviting, Listing, Loaded, GuardedOps, MemberOps
<1>3. Knows(Idle) /\ Aside(p, Idle)
  BY <1>1, <1>2
     DEF Knows, KnowsEntity, KnowsSlug, KnowsRole, KnowsInvited, KnowsProject, KnowsWrote,
         Aside, Beyond, Lookup, Holding, Invited, Inviting, Loaded, Listing
<1> QED
  BY <1>1, <1>3, MoveKeeps DEF Reply, Step

---------------------------------------------------------------------------
(* Moves that change the keys *)

LEMMA DroppingIs ==
  ASSUME NEW r, NEW k
  PROVE  k \in Dropping(r) <=>
           /\ r.op \in {"remove", "update"}
           /\ \/ r.at = "dropId" /\ k \in {r.ws, r.ent.slug}
              \/ r.at = "dropSlug" /\ k = r.ent.slug
<1>1. CASE r.op \in {"remove", "update"} /\ r.at = "dropId"
  BY Zenon, <1>1 DEF Dropping
<1>2. CASE r.op \in {"remove", "update"} /\ r.at = "dropSlug"
  BY Zenon, <1>2 DEF Dropping
<1>3. CASE r.op \notin {"remove", "update"} \/ r.at \notin {"dropId", "dropSlug"}
  BY Zenon, <1>3 DEF Dropping
<1> QED
  BY <1>1, <1>2, <1>3

\* A key is left alone, or filled with what there is, or what is wrong with it
\* is noted.
LEMMA KeysMove ==
  ASSUME IInv, NEW p \in Reqs, NEW r \in Handler, Knows(r), Aside(p, r),
         req' = [req EXCEPT ![p] = r], UNCHANGED <<tables, demoted>>,
         cache' \in [Ids \cup Slugs -> Entity \cup {None}],
         listKey' \in [Ids -> {None} \cup SUBSET Projects],
         late' \in SUBSET (Ids \cup Slugs), lateLists' \in SUBSET Ids,
         \A k \in Ids \cup Slugs : cache'[k] # None =>
           \/ /\ cache'[k] = cache[k]
              /\ k \in late \/ k \in Dropping(req[p]) => k \in late' \/ k \in Dropping(r)
           \/ /\ Faithful(cache'[k]) /\ k \in {cache'[k].id, cache'[k].slug}
              /\ Exists(cache'[k].id) \/ k \in late',
         \A w \in Ids : listKey'[w] # None =>
           \/ /\ listKey'[w] = listKey[w]
              /\ w \in lateLists \/ (req[p].at = "dropList" /\ req[p].ws = w)
                   => w \in lateLists'
           \/ /\ slugOf[w] # Free
              /\ listKey'[w] = ProjectsOf(w) \/ w \in lateLists'
  PROVE  IInv'
<1>1. /\ \A q \in Reqs : req'[q] = IF q = p THEN r ELSE req[q]
      /\ req' \in [Reqs -> Handler]
      /\ slugOf' = slugOf /\ role' = role /\ projectOf' = projectOf /\ demoted' = demoted
  BY Moved DEF tables
<1>2. TypeOK'
  BY <1>1 DEF IInv, TypeOK
<1>3. Keys'
  <2>1. ASSUME NEW k \in Ids \cup Slugs, cache'[k] # None
        PROVE  /\ cache'[k] \in Entity /\ slugOf'[cache'[k].id] \in {cache'[k].slug, Gone}
               /\ k \in {cache'[k].id, cache'[k].slug}
    BY <1>1, <2>1 DEF IInv, Keys, Faithful
  <2>2. ASSUME NEW w \in Ids, listKey'[w] # None
        PROVE  slugOf'[w] # Free
    BY <1>1, <2>2 DEF IInv, Keys
  <2> QED
    BY <2>1, <2>2 DEF Keys, Faithful
<1>4. KeysExplained'
  <2>1. ASSUME NEW k \in Ids \cup Slugs, cache'[k] # None
        PROVE  \/ slugOf[cache'[k].id] = cache'[k].slug
               \/ k \in late'
               \/ \E q \in Reqs : k \in Dropping(req'[q])
    <3>1. CASE /\ cache'[k] = cache[k]
               /\ k \in late \/ k \in Dropping(req[p]) => k \in late' \/ k \in Dropping(r)
      <4>1. CASE slugOf[cache[k].id] = cache[k].slug
        BY <3>1, <4>1
      <4>2. CASE k \in late
        BY <1>1, <3>1, <4>2
      <4>3. CASE \E q \in Reqs : k \in Dropping(req[q])
        BY <1>1, <3>1, <4>3
      <4> QED
        BY <2>1, <3>1, <4>1, <4>2, <4>3 DEF IInv, KeysExplained
    <3>2. CASE /\ Faithful(cache'[k]) /\ k \in {cache'[k].id, cache'[k].slug}
               /\ Exists(cache'[k].id) \/ k \in late'
      BY <3>2, WorkspaceAssumption DEF Faithful, Exists
    <3> QED
      BY <2>1, <3>1, <3>2
  <2>2. ASSUME NEW w \in Ids, Exists(w), listKey'[w] # None
        PROVE  \/ listKey'[w] = ProjectsOf(w)
               \/ w \in lateLists'
               \/ \E q \in Reqs : req'[q].at = "dropList" /\ req'[q].ws = w
    BY <1>1, <2>2 DEF IInv, KeysExplained
  <2>3. \A k : (\E q \in Reqs : k \in Dropping(req'[q])) =>
               (\E q \in Reqs : k \in Dropping(req[q])')
    BY Zenon DEF Dropping
  <2> QED
    BY <1>1, <2>1, <2>2, <2>3 DEF KeysExplained, ProjectsOf, Exists
<1>5. /\ Tables' /\ AdminSafe' /\ OneHome'
      /\ \A q \in Reqs : Knows(req[q])'
  BY HandlerMoves
<1> QED
  BY <1>2, <1>3, <1>4, <1>5 DEF IInv

LEMMA FillKeeps ==
  ASSUME IInv, NEW p \in Reqs, Fill(p)
  PROVE  IInv'
<1> DEFINE o == req[p]
           k == Key(o)
           r == Found(o, o.ent)
<1>1. o \in Handler /\ Knows(o) /\ o.at = "fill" /\ o.at \in Lookup
  BY DEF IInv, TypeOK, Fill, Lookup
<1>2. /\ k \in Ids \cup Slugs
      /\ o.op = "bySlug" => k = o.slug
      /\ o.op # "bySlug" => k = o.ws
  BY <1>1 DEF Knows, Fits, Key, Lookup, GuardedOps, MemberOps
<1>3. /\ Faithful(o.ent) /\ o.ent \in Entity
      /\ IF o.op = "bySlug" THEN o.ent.slug = o.slug ELSE o.ent.id = o.ws
  BY <1>1 DEF Knows, KnowsEntity, Holding, Faithful
<1>4. k \in {o.ent.id, o.ent.slug}
  BY <1>2, <1>3
<1>5. r \in Handler /\ Knows(r) /\ Aside(p, r)
  BY <1>1, <1>3, FoundKnows
<1>6. /\ req' = [req EXCEPT ![p] = r]
      /\ UNCHANGED <<tables, demoted>> /\ listKey' = listKey /\ lateLists' = lateLists
  BY DEF Fill, Step
<1>7. ~(\E j : j \in Dropping(o)) /\ o.at # "dropList"
  BY <1>1, DroppingIs
<1>8. /\ cache \in [Ids \cup Slugs -> Entity \cup {None}]
      /\ listKey \in [Ids -> {None} \cup SUBSET Projects]
      /\ late \in SUBSET (Ids \cup Slugs) /\ lateLists \in SUBSET Ids
  BY DEF IInv, TypeOK
<1> HIDE DEF r, k
<1>9. CASE /\ cache' = [cache EXCEPT ![k] = o.ent]
           /\ late' = IF Exists(o.ent.id) THEN late \ {k} ELSE late \cup {k}
  <2>1. /\ cache' \in [Ids \cup Slugs -> Entity \cup {None}]
        /\ \A j \in Ids \cup Slugs : cache'[j] = IF j = k THEN o.ent ELSE cache[j]
    BY <1>2, <1>3, <1>8, <1>9
  <2>2. late' \in SUBSET (Ids \cup Slugs)
    BY <1>2, <1>8, <1>9
  <2>3. ASSUME NEW j \in Ids \cup Slugs, cache'[j] # None
        PROVE  \/ /\ cache'[j] = cache[j]
                  /\ j \in late \/ j \in Dropping(o) => j \in late' \/ j \in Dropping(r)
               \/ /\ Faithful(cache'[j]) /\ j \in {cache'[j].id, cache'[j].slug}
                  /\ Exists(cache'[j].id) \/ j \in late'
    BY <1>3, <1>4, <1>7, <1>9, <2>1, <2>3
  <2>4. ASSUME NEW w \in Ids, listKey'[w] # None
        PROVE  /\ listKey'[w] = listKey[w]
               /\ w \in lateLists \/ (o.at = "dropList" /\ o.ws = w) => w \in lateLists'
    BY <1>6, <1>7
  <2> QED
    BY <1>5, <1>6, <1>8, <2>1, <2>2, <2>3, <2>4, KeysMove
<1>10. CASE UNCHANGED <<cache, late>>
  BY <1>1, <1>5, <1>6, <1>10, MoveKeeps DEF redis, history
<1> QED
  BY <1>9, <1>10 DEF Fill, Redis, k

\* A key of a workspace is deleted, or its deletion fails and is noted.
LEMMA KeyDropped ==
  ASSUME IInv, NEW p \in Reqs, NEW r \in Handler, Knows(r), Aside(p, r),
         req[p].at \in {"dropId", "dropSlug"}, req' = [req EXCEPT ![p] = r],
         UNCHANGED <<tables, listKey, lateLists, demoted>>, NEW k \in Ids \cup Slugs,
         \/ cache' = [cache EXCEPT ![k] = None] /\ late' = late \ {k}
         \/ UNCHANGED cache /\ late' = late \cup {k},
         \A j : j \in Dropping(req[p]) => j = k \/ j \in Dropping(r)
  PROVE  IInv'
<1>1. /\ cache \in [Ids \cup Slugs -> Entity \cup {None}]
      /\ listKey \in [Ids -> {None} \cup SUBSET Projects]
      /\ late \in SUBSET (Ids \cup Slugs) /\ lateLists \in SUBSET Ids
  BY DEF IInv, TypeOK
<1>2. cache' \in [Ids \cup Slugs -> Entity \cup {None}] /\ late' \in SUBSET (Ids \cup Slugs)
  BY <1>1
<1>3. ASSUME NEW j \in Ids \cup Slugs, cache'[j] # None
      PROVE  /\ cache'[j] = cache[j]
             /\ j \in late \/ j \in Dropping(req[p]) => j \in late' \/ j \in Dropping(r)
  BY <1>1, <1>3
<1>4. ASSUME NEW w \in Ids, listKey'[w] # None
      PROVE  /\ listKey'[w] = listKey[w]
             /\ w \in lateLists \/ (req[p].at = "dropList" /\ req[p].ws = w)
                  => w \in lateLists'
  OBVIOUS
<1> QED
  BY <1>1, <1>2, <1>3, <1>4, KeysMove

LEMMA DropIdKeeps ==
  ASSUME IInv, NEW p \in Reqs, DropId(p)
  PROVE  IInv'
<1> DEFINE o == req[p]
           r == GoTo(o, "dropSlug")
<1>1. o \in Handler /\ Knows(o) /\ o.at = "dropId" /\ "dropSlug" \in Steps
  BY DEF IInv, TypeOK, DropId, Steps
<1>2. o.op \in {"update", "remove"} /\ o.ws \in Ids
  BY <1>1 DEF Knows, Fits, GuardedOps, MemberOps
<1>3. /\ r \in Handler /\ Same(r, o) /\ r.at = "dropSlug" /\ r.ws = o.ws
      /\ r.wrote = o.wrote /\ r.ent = o.ent
  BY <1>1, EditAt
<1>4. /\ req' = [req EXCEPT ![p] = r] /\ UNCHANGED <<tables, listKey, lateLists, demoted>>
      /\ \/ cache' = [cache EXCEPT ![o.ws] = None] /\ late' = late \ {o.ws}
         \/ UNCHANGED cache /\ late' = late \cup {o.ws}
  BY DEF DropId, Drop, Step, Redis
<1> HIDE DEF r
<1>5. Fits(r)
  BY <1>1, <1>2, <1>3
     DEF Same, Knows, Fits, Lookup, Invited, Inviting, Listing, Loaded, GuardedOps, MemberOps
<1>6. Knows(r) /\ Aside(p, r)
  BY <1>1, <1>2, <1>3, <1>5
     DEF Same, Knows, KnowsEntity, KnowsSlug, KnowsRole, KnowsInvited, KnowsProject,
         KnowsWrote, Aside, Beyond, Holding, Inviting, Loaded
<1>7. \A j : j \in Dropping(o) => j = o.ws \/ j \in Dropping(r)
  BY <1>1, <1>2, <1>3, DroppingIs DEF Same
<1>8. o.ws \in Ids \cup Slugs
  BY <1>2
<1> QED
  BY <1>1, <1>3, <1>4, <1>6, <1>7, <1>8, KeyDropped

LEMMA DropSlugKeeps ==
  ASSUME IInv, NEW p \in Reqs, DropSlug(p)
  PROVE  IInv'
<1> DEFINE o == req[p]
           k == o.ent.slug
           r == Answer(o, 200)
<1>1. o \in Handler /\ Knows(o) /\ o.at = "dropSlug" /\ 200 \in Codes
  BY DEF IInv, TypeOK, DropSlug, Codes
<1>2. /\ o.op \in {"update", "remove"} /\ (o.op = "remove" => o.wrote)
      /\ k \in Ids \cup Slugs
  BY <1>1 DEF Knows, Fits, KnowsWrote, KnowsEntity, Faithful, Entity, Holding
<1>3. /\ r \in Handler /\ Same(r, o) /\ r.at = "reply" /\ r.ws = o.ws
      /\ r.wrote = o.wrote /\ r.code = 200
  BY <1>1, AnswerIs
<1>4. /\ req' = [req EXCEPT ![p] = r] /\ UNCHANGED <<tables, listKey, lateLists, demoted>>
      /\ \/ cache' = [cache EXCEPT ![k] = None] /\ late' = late \ {k}
         \/ UNCHANGED cache /\ late' = late \cup {k}
  BY DEF DropSlug, Drop, Step, Redis
<1> HIDE DEF r
<1>5. Knows(r) /\ Aside(p, r)
  BY <1>1, <1>2, <1>3, Replying DEF Same
<1>6. \A j : j \in Dropping(o) => j = k \/ j \in Dropping(r)
  BY <1>1, <1>2, DroppingIs
<1> HIDE DEF k
<1> QED
  BY <1>1, <1>2, <1>3, <1>4, <1>5, <1>6, KeyDropped

\* A list is filled or deleted, or what is wrong with it is noted.
LEMMA ListMoves ==
  ASSUME IInv, NEW p \in Reqs, NEW r \in Handler, Knows(r), Aside(p, r),
         req[p].at \notin {"dropId", "dropSlug"}, req' = [req EXCEPT ![p] = r],
         UNCHANGED <<tables, cache, late, demoted>>,
         listKey' \in [Ids -> {None} \cup SUBSET Projects], lateLists' \in SUBSET Ids,
         \A w \in Ids : listKey'[w] # None =>
           \/ /\ listKey'[w] = listKey[w]
              /\ w \in lateLists \/ (req[p].at = "dropList" /\ req[p].ws = w)
                   => w \in lateLists'
           \/ /\ slugOf[w] # Free
              /\ listKey'[w] = ProjectsOf(w) \/ w \in lateLists'
  PROVE  IInv'
<1>1. /\ cache \in [Ids \cup Slugs -> Entity \cup {None}]
      /\ late \in SUBSET (Ids \cup Slugs)
  BY DEF IInv, TypeOK
<1>2. ASSUME NEW j \in Ids \cup Slugs, cache'[j] # None
      PROVE  /\ cache'[j] = cache[j]
             /\ j \in late \/ j \in Dropping(req[p]) => j \in late' \/ j \in Dropping(r)
  BY DroppingIs
<1> QED
  BY <1>1, <1>2, KeysMove

LEMMA FillListKeeps ==
  ASSUME IInv, NEW p \in Reqs, FillList(p)
  PROVE  IInv'
<1> DEFINE o == req[p]
           r == Answer(o, 200)
<1>1. o \in Handler /\ Knows(o) /\ o.at = "fillList" /\ 200 \in Codes
  BY DEF IInv, TypeOK, FillList, Step, Codes
<1>2. /\ ~o.wrote /\ o.op = "list" /\ o.ws \in Ids /\ o.page \in SUBSET Projects
      /\ slugOf[o.ws] # Free
  BY <1>1 DEF Knows, Fits, KnowsWrote, KnowsRole, Beyond, Listing, GuardedOps, MemberOps, Handler
<1>3. /\ r \in Handler /\ Same(r, o) /\ r.at = "reply" /\ r.ws = o.ws
      /\ r.wrote = o.wrote /\ r.code = 200
  BY <1>1, AnswerIs
<1>4. req' = [req EXCEPT ![p] = r] /\ UNCHANGED <<tables, cache, late, demoted>>
  BY DEF FillList, Step
<1> HIDE DEF r
<1>5. Knows(r) /\ Aside(p, r)
  BY <1>1, <1>2, <1>3, Replying DEF Same
<1>6. /\ listKey \in [Ids -> {None} \cup SUBSET Projects] /\ lateLists \in SUBSET Ids
  BY DEF IInv, TypeOK
<1>7. CASE /\ listKey' = [listKey EXCEPT ![o.ws] = o.page]
           /\ lateLists' = IF o.page = ProjectsOf(o.ws) THEN lateLists \ {o.ws}
                           ELSE lateLists \cup {o.ws}
  <2>1. /\ listKey' \in [Ids -> {None} \cup SUBSET Projects]
        /\ \A w \in Ids : listKey'[w] = IF w = o.ws THEN o.page ELSE listKey[w]
    BY <1>2, <1>6, <1>7
  <2>2. lateLists' \in SUBSET Ids
    BY <1>2, <1>6, <1>7
  <2>3. ASSUME NEW w \in Ids, listKey'[w] # None
        PROVE  \/ /\ listKey'[w] = listKey[w]
                  /\ w \in lateLists \/ (o.at = "dropList" /\ o.ws = w) => w \in lateLists'
               \/ /\ slugOf[w] # Free
                  /\ listKey'[w] = ProjectsOf(w) \/ w \in lateLists'
    BY <1>1, <1>2, <1>7, <2>1
  <2> QED
    BY <1>1, <1>3, <1>4, <1>5, <2>1, <2>2, <2>3, ListMoves
<1>8. CASE UNCHANGED <<listKey, lateLists>>
  BY <1>1, <1>3, <1>4, <1>5, <1>8, MoveKeeps DEF redis, history
<1> QED
  BY <1>7, <1>8 DEF FillList, Redis

LEMMA DropListKeeps ==
  ASSUME IInv, NEW p \in Reqs, DropList(p)
  PROVE  IInv'
<1> DEFINE o == req[p]
           w == o.ws
           r == Answer(o, 200)
<1>1. o \in Handler /\ Knows(o) /\ o.at = "dropList" /\ 200 \in Codes
  BY DEF IInv, TypeOK, DropList, Step, Codes
<1>2. /\ o.op \in {"add", "edit", "drop"} /\ w \in Ids
      /\ o.op \in {"add", "drop"} => o.wrote
  BY <1>1 DEF Knows, Fits, KnowsWrote, GuardedOps, MemberOps
<1>3. /\ r \in Handler /\ Same(r, o) /\ r.at = "reply" /\ r.ws = o.ws
      /\ r.wrote = o.wrote /\ r.code = 200
  BY <1>1, AnswerIs
<1>4. /\ req' = [req EXCEPT ![p] = r] /\ UNCHANGED <<tables, cache, late, demoted>>
      /\ \/ listKey' = [listKey EXCEPT ![w] = None] /\ lateLists' = lateLists \ {w}
         \/ UNCHANGED listKey /\ lateLists' = lateLists \cup {w}
  BY DEF DropList, Step, Redis
<1> HIDE DEF r
<1>5. Knows(r) /\ Aside(p, r)
  BY <1>1, <1>2, <1>3, Replying DEF Same
<1>6. /\ listKey \in [Ids -> {None} \cup SUBSET Projects] /\ lateLists \in SUBSET Ids
  BY DEF IInv, TypeOK
<1>7. listKey' \in [Ids -> {None} \cup SUBSET Projects] /\ lateLists' \in SUBSET Ids
  BY <1>2, <1>4, <1>6
<1>8. ASSUME NEW v \in Ids, listKey'[v] # None
      PROVE  /\ listKey'[v] = listKey[v]
             /\ v \in lateLists \/ (o.at = "dropList" /\ o.ws = v) => v \in lateLists'
  BY <1>2, <1>4, <1>6, <1>8
<1> QED
  BY <1>1, <1>3, <1>4, <1>5, <1>7, <1>8, ListMoves

LEMMA CrashKeeps ==
  ASSUME IInv, NEW p \in Reqs, Crash(p)
  PROVE  IInv'
<1> DEFINE o == req[p]
<1>1. /\ Idle \in Handler /\ Idle.at = "idle" /\ Idle.op = "none" /\ ~Idle.wrote
  BY DEF Idle, Asked, Handler, Steps
<1>2. Fits(Idle)
  BY <1>1 DEF Fits, Lookup, Invited, Inviting, Listing, Loaded, GuardedOps, MemberOps
<1>3. Knows(Idle) /\ Aside(p, Idle)
  BY <1>1, <1>2
     DEF Knows, KnowsEntity, KnowsSlug, KnowsRole, KnowsInvited, KnowsProject, KnowsWrote,
         Aside, Beyond, Lookup, Holding, Invited, Inviting, Loaded, Listing
<1>4. /\ req' = [req EXCEPT ![p] = Idle]
      /\ UNCHANGED <<tables, demoted>> /\ cache' = cache /\ listKey' = listKey
      /\ late' = late \cup Dropping(o)
      /\ lateLists' = IF o.at = "dropList" THEN lateLists \cup {o.ws} ELSE lateLists
  BY DEF Crash, Step, redis
<1>5. /\ cache \in [Ids \cup Slugs -> Entity \cup {None}]
      /\ listKey \in [Ids -> {None} \cup SUBSET Projects]
      /\ late \in SUBSET (Ids \cup Slugs) /\ lateLists \in SUBSET Ids
      /\ o \in Handler /\ Knows(o)
  BY DEF IInv, TypeOK
<1>6. ASSUME NEW k, k \in Dropping(o)
      PROVE  k \in Ids \cup Slugs
  <2>1. o.at \in {"dropId", "dropSlug"} /\ k \in {o.ws, o.ent.slug}
        /\ o.op \in {"remove", "update"}
    BY <1>6, DroppingIs
  <2>2. o.ws \in Ids /\ o.ent.slug \in Slugs
    BY <1>5, <2>1 DEF Knows, Fits, KnowsEntity, Faithful, Entity, Holding, GuardedOps, MemberOps
  <2> QED
    BY <2>1, <2>2
<1>7. late' \in SUBSET (Ids \cup Slugs)
  BY <1>4, <1>5, <1>6
<1>8. lateLists' \in SUBSET Ids
  <2>1. o.at = "dropList" => o.ws \in Ids
    BY <1>5 DEF Knows, Fits, GuardedOps, MemberOps
  <2> QED
    BY <1>4, <1>5, <2>1
<1>9. ASSUME NEW k \in Ids \cup Slugs
      PROVE  /\ cache'[k] = cache[k]
             /\ k \in late \/ k \in Dropping(o) => k \in late'
  BY <1>4
<1>10. ASSUME NEW w \in Ids
       PROVE  /\ listKey'[w] = listKey[w]
              /\ w \in lateLists \/ (o.at = "dropList" /\ o.ws = w) => w \in lateLists'
  BY <1>4
<1> QED
  BY <1>1, <1>3, <1>4, <1>5, <1>7, <1>8, <1>9, <1>10, KeysMove

LEMMA ExpireKeeps ==
  ASSUME IInv, Expire
  PROVE  IInv'
<1>1. /\ req' = req /\ slugOf' = slugOf /\ role' = role /\ projectOf' = projectOf
      /\ demoted' = demoted
  BY DEF Expire, tables
<1>2. /\ cache \in [Ids \cup Slugs -> Entity \cup {None}]
      /\ listKey \in [Ids -> {None} \cup SUBSET Projects]
      /\ late \in SUBSET (Ids \cup Slugs) /\ lateLists \in SUBSET Ids
  BY DEF IInv, TypeOK
<1>3. /\ cache' \in [Ids \cup Slugs -> Entity \cup {None}]
      /\ listKey' \in [Ids -> {None} \cup SUBSET Projects]
      /\ late' \in SUBSET (Ids \cup Slugs) /\ lateLists' \in SUBSET Ids
      /\ \A k \in Ids \cup Slugs : cache'[k] # None =>
           cache'[k] = cache[k] /\ (k \in late => k \in late')
      /\ \A w \in Ids : listKey'[w] # None =>
           listKey'[w] = listKey[w] /\ (w \in lateLists => w \in lateLists')
  <2>1. CASE \E k \in DOMAIN cache : /\ cache[k] # None
                                     /\ cache' = [cache EXCEPT ![k] = None]
                                     /\ late' = late \ {k}
                                     /\ UNCHANGED <<listKey, lateLists>>
    BY <1>2, <2>1
  <2>2. CASE \E w \in Ids : /\ listKey[w] # None
                            /\ listKey' = [listKey EXCEPT ![w] = None]
                            /\ lateLists' = lateLists \ {w}
                            /\ UNCHANGED <<cache, late>>
    BY <1>2, <2>2
  <2> QED
    BY <2>1, <2>2 DEF Expire
<1>4. TypeOK'
  BY <1>1, <1>3 DEF IInv, TypeOK
<1>5. Keys'
  BY <1>1, <1>3 DEF IInv, Keys, Faithful
<1>6. KeysExplained'
  <2>1. \A q \in Reqs : Dropping(req[q])' = Dropping(req[q])
    BY <1>1 DEF Dropping
  <2> QED
    BY <1>1, <1>3, <2>1 DEF IInv, KeysExplained, ProjectsOf, Exists
<1>7. /\ Tables' /\ AdminSafe' /\ OneHome'
      /\ \A q \in Reqs : Knows(req[q])'
  BY <1>1 DEF IInv, Tables, AdminSafe, OneHome, Inviters, Knows, Fits, KnowsEntity, KnowsSlug,
       KnowsRole, KnowsInvited, KnowsProject, KnowsWrote, Faithful, Exists
<1> QED
  BY <1>4, <1>5, <1>6, <1>7 DEF IInv

---------------------------------------------------------------------------
(* Moves that change the tables *)

\* A handler that another has overtaken at most.
Alike(s, o) == /\ Same(s, o) /\ s.at = o.at /\ s.ws = o.ws /\ s.ent = o.ent
               /\ s.wrote = o.wrote /\ s.code = o.code /\ (o.raced => s.raced)

Others(p, r) == /\ req' \in [Reqs -> Handler] /\ req'[p] = r
                /\ \A q \in Reqs \ {p} : Alike(req'[q], req[q])

LEMMA MovesAlike ==
  ASSUME IInv, NEW p \in Reqs, NEW r \in Handler, req' = [req EXCEPT ![p] = r]
  PROVE  Others(p, r)
  BY Moved DEF Others, Alike, Same

LEMMA Overtaken ==
  ASSUME IInv, NEW p \in Reqs, NEW r \in Handler, NEW old, Overtake(p, old, r)
  PROVE  Others(p, r) /\ \A q \in Reqs \ {p} : q \in old => req'[q].raced
<1>1. ASSUME NEW q \in Reqs, q # p
      PROVE  /\ req'[q] \in Handler /\ Alike(req'[q], req[q])
             /\ q \in old => req'[q].raced
  <2> DEFINE b == req[q].raced \/ q \in old
  <2>1. req'[q] = [req[q] EXCEPT !.raced = b]
    BY <1>1 DEF Overtake
  <2>2. req[q] \in Handler
    BY DEF IInv, TypeOK
  <2>3. b \in BOOLEAN
    OBVIOUS
  <2>4. /\ req'[q] \in Handler /\ Same(req'[q], req[q]) /\ req'[q].at = req[q].at
        /\ req'[q].ws = req[q].ws /\ req'[q].ent = req[q].ent /\ (req'[q].raced <=> b)
        /\ req'[q].wrote = req[q].wrote /\ req'[q].code = req[q].code
    BY <2>1, <2>2, <2>3, EditRaced
  <2> QED
    BY <2>4 DEF Alike
<1>2. req'[p] = r /\ req' \in [Reqs -> Handler]
  <2>1. req'[p] = r /\ \A q \in Reqs : req'[q] \in Handler
    BY <1>1 DEF Overtake
  <2> QED
    BY <2>1 DEF Overtake
<1> QED
  BY <1>1, <1>2 DEF Others

\* What the other handlers know still holds.
LEMMA OthersKnow ==
  ASSUME IInv, NEW q \in Reqs, req'[q] \in Handler, Alike(req'[q], req[q]),
         slugOf' \in [Ids -> Slugs \cup {Free, Gone}],
         \A w \in Ids : slugOf[w] # Free => slugOf'[w] \in {slugOf[w], Gone},
         \A w \in Ids, u \in Users : role[w][u] # "none" =>
           role'[w][u] = role[w][u] \/ ~Exists(w)' \/ <<w, u>> \in demoted',
         demoted \subseteq demoted',
         req[q].at \in Inviting /\ role'[req[q].ws][req[q].who] # "none" =>
           role[req[q].ws][req[q].who] # "none" \/ req'[q].raced,
         req[q].at \in Loaded =>
           /\ projectOf'[req[q].proj] \in {projectOf[req[q].proj], Gone, req[q].ws}
           /\ projectOf'[req[q].proj] = Gone /\ req[q].at # "deleteProject" =>
                projectOf[req[q].proj] = Gone \/ req'[q].raced
  PROVE  Knows(req[q])'
<1> DEFINE o == req[q]
           s == req'[q]
<1>1. Knows(o) /\ o \in Handler
  BY DEF IInv, TypeOK
<1>2. Fits(s)
  BY <1>1 DEF Knows, Fits, Alike, Same
<1>3. \A e : Faithful(e) => e \in Entity /\ slugOf'[e.id] \in {e.slug, Gone}
  BY WorkspaceAssumption DEF Faithful, Entity
<1>4. KnowsEntity(req[q])'
  BY <1>1, <1>3 DEF Knows, KnowsEntity, Faithful, Alike, Same
<1>5. KnowsSlug(req[q])'
  <2>1. o.op = "bySlug" /\ o.ws # None => o.ws \in Ids /\ slugOf[o.ws] \in {o.slug, Gone}
                                          /\ o.slug \in Slugs
    BY <1>1 DEF Knows, KnowsSlug, Fits
  <2>2. s.op = o.op /\ s.ws = o.ws /\ s.slug = o.slug
    BY DEF Alike, Same
  <2> QED
    BY <2>1, <2>2, WorkspaceAssumption DEF KnowsSlug
<1>6. KnowsRole(req[q])'
  <2>1. s.op = o.op /\ s.ws = o.ws /\ s.user = o.user /\ s.at = o.at
    BY DEF Alike, Same
  <2> SUFFICES ASSUME o.at \in Beyond, o.ws \in Ids
               PROVE  /\ slugOf'[o.ws] # Free
                      /\ \/ slugOf'[o.ws] \notin Slugs
                         \/ Permits(role'[o.ws][o.user], o.op)
                         \/ <<o.ws, o.user>> \in demoted'
    BY <2>1 DEF KnowsRole, Exists, Permits
  <2>2. /\ slugOf[o.ws] # Free
        /\ ~Exists(o.ws) \/ Permits(role[o.ws][o.user], o.op) \/ <<o.ws, o.user>> \in demoted
    BY <1>1 DEF Knows, KnowsRole
  <2>3. slugOf'[o.ws] \in {slugOf[o.ws], Gone} /\ slugOf'[o.ws] # Free
    BY <2>2, WorkspaceAssumption
  <2>4. ~Exists(o.ws) => slugOf'[o.ws] \notin Slugs
    BY <2>3, WorkspaceAssumption DEF Exists, IInv, TypeOK
  <2>5. o.user \in Users
    <3>1. o.op # "none"
      BY <1>1 DEF Knows, Fits, Beyond, Lookup, Holding, Invited, Inviting, Loaded, Listing
    <3> QED
      BY <1>1, <3>1 DEF Knows, Fits
  <2>6. Permits(role[o.ws][o.user], o.op) =>
          \/ slugOf'[o.ws] \notin Slugs
          \/ Permits(role'[o.ws][o.user], o.op)
          \/ <<o.ws, o.user>> \in demoted'
    <3>1. Permits(role[o.ws][o.user], o.op) => role[o.ws][o.user] # "none"
      BY DEF Permits, Allowed
    <3> QED
      BY <2>5, <3>1 DEF Permits, Exists
  <2>7. /\ ~Exists(o.ws) => slugOf'[o.ws] \notin Slugs
        /\ <<o.ws, o.user>> \in demoted => <<o.ws, o.user>> \in demoted'
    BY <2>4 DEF Exists
  <2> QED
    BY <2>2, <2>3, <2>6, <2>7
<1>7. KnowsInvited(req[q])'
  BY <1>1 DEF Knows, KnowsInvited, Alike, Same
<1>8. KnowsProject(req[q])'
  BY <1>1 DEF Knows, KnowsProject, Alike, Same
<1>9. KnowsWrote(req[q])'
  BY <1>1 DEF Knows, KnowsWrote, Alike, Same
<1> QED
  BY <1>2, <1>4, <1>5, <1>6, <1>7, <1>8, <1>9 DEF Knows, Fits

\* A workspace that was inserted stays what it is until it is removed.
SlugsMove == \A w \in Ids : slugOf[w] # Free => slugOf'[w] \in {slugOf[w], Gone}

\* A membership changes only where it is noted and no other invitation finds
\* out unaware; an ADMIN nobody is inviting stays.
MembersMove(p) ==
  /\ demoted \subseteq demoted'
  /\ \A w \in Ids, u \in Users : role[w][u] # "none" =>
       role'[w][u] = role[w][u] \/ ~Exists(w)' \/ <<w, u>> \in demoted'
  /\ \A q \in Reqs \ {p} :
       req[q].at \in Inviting /\ role'[req[q].ws][req[q].who] # "none" =>
         role[req[q].ws][req[q].who] # "none" \/ req'[q].raced
  /\ \A w \in Ids : Exists(w)' =>
       \/ /\ Exists(w)
          /\ \A u \in Users : role[w][u] = "ADMIN" /\ Inviters(w, u) = {} =>
               role'[w][u] = "ADMIN"
       \/ slugOf[w] = Free /\ \E u \in Users : role'[w][u] = "ADMIN"

\* A project that another has loaded stays, or its removal is noted.
ProjectsMove(p) ==
  \A q \in Reqs \ {p} :
    req[q].at \in Loaded =>
      /\ projectOf'[req[q].proj] \in {projectOf[req[q].proj], Gone, req[q].ws}
      /\ projectOf'[req[q].proj] = Gone /\ req[q].at # "deleteProject" =>
           projectOf[req[q].proj] = Gone \/ req'[q].raced

\* The keys are still right, or the handler is about to delete them.
KeysStay(r) ==
  /\ \A k \in Ids \cup Slugs : cache[k] # None =>
       slugOf'[cache[k].id] = slugOf[cache[k].id] \/ k \in Dropping(r)
  /\ \A w \in Ids : Exists(w)' /\ listKey[w] # None =>
       \/ Exists(w) /\ ProjectsOf(w)' = ProjectsOf(w)
       \/ r.at = "dropList" /\ r.ws = w

TypesMove ==
  /\ slugOf' \in [Ids -> Slugs \cup {Free, Gone}]
  /\ role' \in [Ids -> [Users -> Roles \cup {"none"}]]
  /\ projectOf' \in [Projects -> Ids \cup {Free, Gone}]
  /\ demoted' \in SUBSET (Ids \X Users)

\* A change of the tables by a handler that goes on as r.
LEMMA TableMoves ==
  ASSUME IInv, NEW p \in Reqs, NEW r \in Handler, Others(p, r), Knows(r)',
         r.at \notin Inviting, r.at \notin Loaded,
         req[p].at \notin {"dropId", "dropSlug", "dropList"},
         UNCHANGED <<redis, late, lateLists>>,
         TypesMove, Tables', SlugsMove, MembersMove(p), ProjectsMove(p), KeysStay(r)
  PROVE  IInv'
<1>1. /\ req' \in [Reqs -> Handler] /\ req'[p] = r
      /\ \A q \in Reqs \ {p} : Alike(req'[q], req[q])
      /\ cache' = cache /\ listKey' = listKey /\ late' = late /\ lateLists' = lateLists
  BY DEF Others, redis
<1>2. TypeOK'
  BY <1>1 DEF IInv, TypeOK, TypesMove
<1>3. ASSUME NEW q \in Reqs
      PROVE  Knows(req[q])'
  <2>1. CASE q = p
    BY <1>1, <2>1 DEF Knows, Fits, KnowsEntity, KnowsSlug, KnowsRole, KnowsInvited, KnowsProject,
         KnowsWrote, Faithful, Exists
  <2>2. CASE q # p
    <3>1. req'[q] \in Handler /\ Alike(req'[q], req[q])
      BY <1>1, <2>2
    <3> QED
      BY <2>2, <3>1, OthersKnow DEF TypesMove, SlugsMove, MembersMove, ProjectsMove
  <2> QED
    BY <2>1, <2>2
<1>4. AdminSafe'
  <2> SUFFICES ASSUME NEW w \in Ids, Exists(w)'
               PROVE  \E u \in Users : role'[w][u] = "ADMIN" /\ Inviters(w, u)' = {}
    BY DEF AdminSafe
  <2>a. \/ /\ Exists(w)
           /\ \A u \in Users : role[w][u] = "ADMIN" /\ Inviters(w, u) = {} =>
                role'[w][u] = "ADMIN"
        \/ slugOf[w] = Free /\ \E u \in Users : role'[w][u] = "ADMIN"
    BY DEF MembersMove
  <2>1. CASE Exists(w) /\ \A u \in Users : role[w][u] = "ADMIN" /\ Inviters(w, u) = {} =>
                                             role'[w][u] = "ADMIN"
    <3>1. PICK u \in Users : role[w][u] = "ADMIN" /\ Inviters(w, u) = {}
      BY <2>1 DEF IInv, AdminSafe
    <3>2. Inviters(w, u)' = {}
      BY <1>1, <3>1 DEF Inviters, Alike, Same
    <3> QED
      BY <2>1, <3>1, <3>2
  <2>2. CASE slugOf[w] = Free /\ \E u \in Users : role'[w][u] = "ADMIN"
    <3>1. ASSUME NEW q \in Reqs \ {p}, req[q].at \in Inviting, req[q].ws = w
          PROVE  FALSE
      BY <2>2, <3>1 DEF IInv, Knows, KnowsRole, Beyond, Invited
    <3>2. \A u \in Users : Inviters(w, u)' = {}
      BY <1>1, <3>1 DEF Inviters, Alike, Same
    <3> QED
      BY <2>2, <3>2
  <2> QED
    BY <2>a, <2>1, <2>2
<1>5. OneHome'
  BY <1>1 DEF IInv, OneHome, Alike, Same
<1>6. Keys'
  <2>1. ASSUME NEW k \in Ids \cup Slugs, cache[k] # None
        PROVE  /\ cache[k] \in Entity /\ slugOf'[cache[k].id] \in {cache[k].slug, Gone}
               /\ k \in {cache[k].id, cache[k].slug}
    <3>1. /\ cache[k] \in Entity /\ slugOf[cache[k].id] \in {cache[k].slug, Gone}
          /\ k \in {cache[k].id, cache[k].slug}
      BY <2>1 DEF IInv, Keys, Faithful
    <3>2. cache[k].id \in Ids /\ slugOf[cache[k].id] # Free
      BY <3>1, WorkspaceAssumption DEF Entity
    <3> QED
      BY <3>1, <3>2 DEF SlugsMove
  <2>2. ASSUME NEW w \in Ids, listKey[w] # None
        PROVE  slugOf'[w] # Free
    BY <2>2, WorkspaceAssumption DEF IInv, Keys, SlugsMove
  <2> QED
    BY <1>1, <2>1, <2>2 DEF Keys, Faithful
<1>7. KeysExplained'
  <2>1. ASSUME NEW k \in Ids \cup Slugs, cache[k] # None
        PROVE  \/ slugOf'[cache[k].id] = cache[k].slug
               \/ k \in late
               \/ \E q \in Reqs : k \in Dropping(req'[q])
    <3>1. CASE slugOf[cache[k].id] = cache[k].slug
      BY <1>1, <2>1, <3>1 DEF KeysStay
    <3>2. CASE k \in late
      BY <3>2
    <3>3. ASSUME NEW q \in Reqs, k \in Dropping(req[q])
          PROVE  k \in Dropping(req'[q])
      <4>1. q # p
        BY <3>3, DroppingIs
      <4>2. Alike(req'[q], req[q])
        BY <1>1, <4>1
      <4> QED
        BY <3>3, <4>2, DroppingIs DEF Alike, Same
    <3> QED
      BY <2>1, <3>1, <3>2, <3>3 DEF IInv, KeysExplained
  <2>2. ASSUME NEW w \in Ids, Exists(w)', listKey[w] # None
        PROVE  \/ listKey[w] = ProjectsOf(w)'
               \/ w \in lateLists
               \/ \E q \in Reqs : req'[q].at = "dropList" /\ req'[q].ws = w
    BY <1>1, <2>2 DEF IInv, KeysExplained, KeysStay, Alike
  <2>3. \A k : (\E q \in Reqs : k \in Dropping(req'[q])) =>
               (\E q \in Reqs : k \in Dropping(req[q])')
    BY Zenon DEF Dropping
  <2> QED
    BY <1>1, <2>1, <2>2, <2>3 DEF KeysExplained
<1> QED
  BY <1>2, <1>3, <1>4, <1>5, <1>6, <1>7 DEF IInv

\* A write that is refused.
LEMMA FailedKeeps ==
  ASSUME IInv, NEW p \in Reqs, req[p].at \in {"insert", "insertMember", "insertProject", "reinsert"},
         req' = [req EXCEPT ![p] = Answer(req[p], 500)], UNCHANGED <<tables, redis, history>>
  PROVE  IInv'
<1> DEFINE o == req[p]
           a == Answer(o, 500)
<1>1. o \in Handler /\ Knows(o)
  BY DEF IInv, TypeOK
<1>2. ~o.wrote
  BY <1>1 DEF Knows, KnowsWrote
<1>3. a \in Handler /\ Knows(a) /\ Aside(p, a)
  BY <1>2, Refused
<1> HIDE DEF a
<1>4. req' = [req EXCEPT ![p] = a]
  BY DEF a
<1> QED
  BY <1>3, <1>4, MoveKeeps

LEMMA InsertKeeps ==
  ASSUME IInv, NEW p \in Reqs, Insert(p)
  PROVE  IInv'
<1> DEFINE o == req[p]
           g == Wrote(o, "reply")
<1>1. o \in Handler /\ Knows(o) /\ o.at = "insert" /\ "reply" \in Steps /\ 200 \in Codes
  BY DEF IInv, TypeOK, Insert, Steps, Codes
<1>2. o.op = "create" /\ o.slug \in Slugs /\ o.user \in Users
  BY <1>1 DEF Knows, Fits
<1>3. CASE \E v \in Ids : slugOf[v] = o.slug
  <2>1. req' = [req EXCEPT ![p] = Answer(o, 500)] /\ UNCHANGED <<tables, redis, history>>
    BY <1>3 DEF Insert, Step, tables
  <2> QED
    BY <1>1, <2>1, FailedKeeps
<1>4. CASE ~\E v \in Ids : slugOf[v] = o.slug
  <2>1. PICK w \in Ids : /\ slugOf[w] = Free
                         /\ slugOf' = [slugOf EXCEPT ![w] = o.slug]
                         /\ role' = [role EXCEPT ![w][o.user] = "ADMIN"]
    BY <1>4 DEF Insert
  <2>2. PICK r : r = Answer(g, 200)
    OBVIOUS
  <2>3. /\ req' = [req EXCEPT ![p] = r] /\ projectOf' = projectOf /\ demoted' = demoted
        /\ UNCHANGED <<redis, late, lateLists>>
    BY <1>4, <2>2 DEF Insert, Step, history
  <2>4. g \in Handler /\ Same(g, o) /\ g.at = "reply" /\ g.ws = o.ws /\ g.wrote
    BY <1>1, WroteIs
  <2> HIDE DEF g
  <2>5. /\ r \in Handler /\ Same(r, g) /\ r.at = "reply" /\ r.ws = g.ws
        /\ r.wrote = g.wrote /\ r.code = 200
    <3> DEFINE h == Answer(g, 200)
    <3>1. 200 \in Codes /\ g \in Handler
      BY <1>1, <2>4
    <3>2. /\ h \in Handler /\ Same(h, g) /\ h.at = "reply" /\ h.ws = g.ws
          /\ h.wrote = g.wrote /\ h.code = 200
      BY <3>1, AnswerIs
    <3> HIDE DEF h
    <3>3. r = h
      BY <2>2 DEF h
    <3> QED
      BY <3>2, <3>3
  <2>6. Knows(r)'
    <3>1. Same(r, o) /\ r.op = "create"
      BY <1>2, <2>4, <2>5 DEF Same
    <3>2. Knows(r)
      BY <1>1, <2>4, <2>5, <3>1, Replying
    <3> QED
      BY <2>5, <3>1, <3>2
         DEF Knows, Fits, KnowsEntity, KnowsSlug, KnowsRole, KnowsInvited, KnowsProject,
             KnowsWrote, Holding, Beyond, Lookup, Invited, Inviting, Loaded, Listing
  <2>7. /\ slugOf \in [Ids -> Slugs \cup {Free, Gone}]
        /\ role \in [Ids -> [Users -> Roles \cup {"none"}]]
        /\ projectOf \in [Projects -> Ids \cup {Free, Gone}] /\ demoted \in SUBSET (Ids \X Users)
    BY DEF IInv, TypeOK
  <2>8. /\ slugOf' \in [Ids -> Slugs \cup {Free, Gone}]
        /\ \A v \in Ids : slugOf'[v] = IF v = w THEN o.slug ELSE slugOf[v]
        /\ role' \in [Ids -> [Users -> Roles \cup {"none"}]]
        /\ \A v \in Ids, u \in Users :
             role'[v][u] = IF v = w /\ u = o.user THEN "ADMIN" ELSE role[v][u]
    BY <1>2, <2>1, <2>7 DEF Roles
  <2>9. ~Exists(w) /\ o.slug # Free
    BY <1>2, <2>1, WorkspaceAssumption DEF Exists
  <2>10. Tables'
    <3>1. ASSUME NEW x \in Ids, NEW y \in Ids, slugOf'[x] \in Slugs, slugOf'[x] = slugOf'[y]
          PROVE  x = y
      BY <1>4, <2>8, <3>1 DEF IInv, Tables, Exists
    <3>2. ASSUME NEW x \in Ids, NEW u \in Users, role'[x][u] # "none"
          PROVE  slugOf'[x] \in Slugs
      BY <1>2, <2>8, <3>2 DEF IInv, Tables, Exists
    <3>3. ASSUME NEW x \in Projects, projectOf'[x] \in Ids
          PROVE  slugOf'[projectOf'[x]] \in Slugs
      BY <1>2, <2>3, <2>8, <3>3 DEF IInv, Tables, Exists
    <3> QED
      BY <3>1, <3>2, <3>3 DEF Tables, Exists
  <2>a. TypesMove
    BY <2>3, <2>7, <2>8 DEF TypesMove
  <2>11. \A v \in Ids, u \in Users : role[v][u] # "none" => role'[v][u] = role[v][u]
    BY <2>8, <2>9 DEF IInv, Tables
  <2>12. \A q \in Reqs : req[q].at \in Inviting =>
           req[q].ws \in Ids /\ req[q].who \in Users /\ req[q].ws # w
    BY <2>1 DEF IInv, Knows, Fits, KnowsRole, Inviting, Invited, Beyond, GuardedOps, MemberOps
  <2>13. \A v \in Ids : Exists(v)' =>
           \/ Exists(v) /\ \A u \in Users : role[v][u] = "ADMIN" => role'[v][u] = "ADMIN"
           \/ slugOf[v] = Free /\ \E u \in Users : role'[v][u] = "ADMIN"
    BY <1>2, <2>1, <2>8, <2>11 DEF Exists
  <2>14. \A k \in Ids \cup Slugs : cache[k] # None =>
           slugOf'[cache[k].id] = slugOf[cache[k].id]
    <3> SUFFICES ASSUME NEW k \in Ids \cup Slugs, cache[k] # None
                 PROVE  slugOf'[cache[k].id] = slugOf[cache[k].id]
      OBVIOUS
    <3>1. cache[k].id \in Ids /\ slugOf[cache[k].id] # Free
      BY WorkspaceAssumption DEF IInv, Keys, Faithful, Entity
    <3> QED
      BY <2>1, <2>8, <3>1
  <2>15. \A v \in Ids : Exists(v)' /\ listKey[v] # None =>
           Exists(v) /\ ProjectsOf(v)' = ProjectsOf(v)
    <3>1. \A v \in Ids : listKey[v] # None => slugOf[v] # Free
      BY DEF IInv, Keys
    <3> QED
      BY <2>1, <2>3, <2>8, <3>1 DEF Exists, ProjectsOf
  <2>16. Others(p, r)
    BY <2>3, <2>5, MovesAlike
  <2>17. SlugsMove
    BY <2>1, <2>8 DEF SlugsMove
  <2>18. MembersMove(p)
    BY <2>3, <2>8, <2>11, <2>12, <2>13 DEF MembersMove
  <2>19. ProjectsMove(p)
    BY <2>3 DEF ProjectsMove
  <2>20. KeysStay(r)
    BY <2>14, <2>15 DEF KeysStay
  <2>21. r.at \notin Inviting /\ r.at \notin Loaded
    BY <2>5 DEF Inviting, Loaded
  <2> QED
    BY <1>1, <2>3, <2>5, <2>6, <2>a, <2>10, <2>16, <2>17, <2>18, <2>19, <2>20, <2>21, TableMoves
<1> QED
  BY <1>3, <1>4

LEMMA DeleteKeeps ==
  ASSUME IInv, NEW p \in Reqs, Delete(p)
  PROVE  IInv'
<1> DEFINE o == req[p]
           w == o.ws
<1>1. o \in Handler /\ Knows(o) /\ o.at = "delete" /\ "dropId" \in Steps
  BY DEF IInv, TypeOK, Delete, Steps
<1>2. /\ o.op = "remove" /\ w \in Ids /\ slugOf[w] # Free
      /\ Faithful(o.ent) /\ o.ent.id = w
  BY <1>1 DEF Knows, Fits, KnowsRole, KnowsEntity, Holding, Beyond, GuardedOps, MemberOps
<1>3. PICK r : r = Wrote(o, "dropId")
  OBVIOUS
<1>4. /\ slugOf' = [slugOf EXCEPT ![w] = Gone]
      /\ role' = [role EXCEPT ![w] = [u \in Users |-> "none"]]
      /\ projectOf' = [x \in Projects |-> IF projectOf[x] = w THEN Gone ELSE projectOf[x]]
      /\ Overtake(p, Editors(ProjectsOf(w)), r)
      /\ demoted' = demoted /\ UNCHANGED <<redis, late, lateLists>>
  BY <1>3 DEF Delete, history
<1>5. /\ r \in Handler /\ Same(r, o) /\ r.at = "dropId" /\ r.ws = w /\ r.ent = o.ent /\ r.wrote
  BY <1>1, <1>3, WroteIs
<1>6. Others(p, r) /\ \A q \in Reqs \ {p} : q \in Editors(ProjectsOf(w)) => req'[q].raced
  BY <1>4, <1>5, Overtaken
<1>7. /\ slugOf \in [Ids -> Slugs \cup {Free, Gone}]
      /\ role \in [Ids -> [Users -> Roles \cup {"none"}]]
      /\ projectOf \in [Projects -> Ids \cup {Free, Gone}] /\ demoted \in SUBSET (Ids \X Users)
  BY DEF IInv, TypeOK
<1>8. /\ \A v \in Ids : slugOf'[v] = IF v = w THEN Gone ELSE slugOf[v]
      /\ \A v \in Ids, u \in Users : role'[v][u] = IF v = w THEN "none" ELSE role[v][u]
      /\ \A x \in Projects : projectOf'[x] = IF projectOf[x] = w THEN Gone ELSE projectOf[x]
  BY <1>2, <1>4, <1>7
<1>9. TypesMove
  BY <1>2, <1>4, <1>7 DEF TypesMove
<1>10. Gone \notin Slugs /\ Gone \notin Ids /\ Gone # Free
  BY WorkspaceAssumption
<1>11. Knows(r)'
  <2>1. Fits(r)
    BY <1>1, <1>2, <1>5
       DEF Same, Knows, Fits, Lookup, Invited, Inviting, Listing, Loaded, GuardedOps, MemberOps
  <2>2. KnowsEntity(r)' /\ KnowsRole(r)'
    BY <1>2, <1>5, <1>8, <1>10 DEF Same, KnowsEntity, KnowsRole, Faithful, Exists, Entity
  <2>3. KnowsSlug(r)' /\ KnowsInvited(r)' /\ KnowsProject(r)' /\ KnowsWrote(r)'
    BY <1>2, <1>5 DEF Same, KnowsSlug, KnowsInvited, KnowsProject, KnowsWrote, Inviting, Loaded
  <2> QED
    BY <2>1, <2>2, <2>3 DEF Knows, Fits
<1>12. Tables'
  BY <1>7, <1>8, <1>10 DEF IInv, Tables, Exists
<1>13. SlugsMove
  BY <1>8 DEF SlugsMove
<1>14. MembersMove(p)
  <2>1. \A q \in Reqs : req[q].at \in Inviting => req[q].ws \in Ids /\ req[q].who \in Users
    BY DEF IInv, Knows, Fits, Inviting, Invited, GuardedOps, MemberOps
  <2> QED
    BY <1>4, <1>8, <1>10, <2>1 DEF MembersMove, Exists
<1>15. ProjectsMove(p)
  <2> SUFFICES ASSUME NEW q \in Reqs \ {p}, req[q].at \in Loaded
               PROVE  /\ projectOf'[req[q].proj] \in {projectOf[req[q].proj], Gone}
                      /\ projectOf'[req[q].proj] = Gone /\ req[q].at # "deleteProject" =>
                           projectOf[req[q].proj] = Gone \/ req'[q].raced
    BY DEF ProjectsMove
  <2>1. req[q].proj \in Projects
    BY DEF IInv, Knows, Fits, Loaded
  <2> QED
    BY <1>6, <1>8, <2>1 DEF Editors, ProjectsOf, Loaded
<1>16. KeysStay(r)
  <2>1. ASSUME NEW k \in Ids \cup Slugs, cache[k] # None
        PROVE  slugOf'[cache[k].id] = slugOf[cache[k].id] \/ k \in Dropping(r)
    <3>1. /\ Faithful(cache[k]) /\ k \in {cache[k].id, cache[k].slug} /\ cache[k].id \in Ids
          /\ cache[k].slug \in Slugs /\ o.ent.slug \in Slugs
      BY <1>2, <2>1 DEF IInv, Keys, Faithful, Entity
    <3>2. CASE cache[k].id # w
      BY <1>8, <3>1, <3>2
    <3>3. CASE slugOf[w] = Gone
      BY <1>8, <3>1, <3>3
    <3>4. CASE cache[k].id = w /\ slugOf[w] # Gone
      <4>1. k \in {w, o.ent.slug}
        BY <1>2, <3>1, <3>4 DEF Faithful
      <4> QED
        BY <1>2, <1>5, <4>1, DroppingIs DEF Same
    <3> QED
      BY <3>2, <3>3, <3>4
  <2>2. ASSUME NEW v \in Ids, Exists(v)'
        PROVE  Exists(v) /\ ProjectsOf(v)' = ProjectsOf(v)
    BY <1>8, <1>10, <2>2 DEF Exists, ProjectsOf
  <2> QED
    BY <2>1, <2>2 DEF KeysStay
<1>17. r.at \notin Inviting /\ r.at \notin Loaded
  BY <1>5 DEF Inviting, Loaded
<1> QED
  BY <1>1, <1>4, <1>5, <1>6, <1>9, <1>11, <1>12, <1>13, <1>14, <1>15, <1>16, <1>17, TableMoves

\* A membership is stored: no workspace, project or key is touched.
LEMMA InvitationStored ==
  ASSUME IInv, NEW p \in Reqs, req[p].at \in {"insertMember", "updateMember"},
         NEW r \in Handler, Same(r, req[p]), r.at = "notify", r.ws = req[p].ws,
         r.wrote \/ r.raced, NEW old, Overtake(p, old, r), Inviters(r.ws, r.who) \subseteq old,
         role' = [role EXCEPT ![r.ws][r.who] = r.role],
         slugOf' = slugOf, projectOf' = projectOf, UNCHANGED <<redis, late, lateLists>>,
         Exists(r.ws), demoted \subseteq demoted', demoted' \in SUBSET (Ids \X Users),
         role[r.ws][r.who] = "none" \/ <<r.ws, r.who>> \in demoted'
  PROVE  IInv'
<1> DEFINE o == req[p]
<1>1. o \in Handler /\ Knows(o)
  BY DEF IInv, TypeOK
<1>2. /\ o.op = "invite" /\ r.ws \in Ids /\ r.who \in Users /\ r.role \in Roles
      /\ o.who = r.who /\ o.at \in Inviting /\ o.user \in Users /\ r.op = o.op
  BY <1>1 DEF Knows, Fits, Same, Inviting, Invited, GuardedOps, MemberOps
<1>3. Others(p, r) /\ \A q \in Reqs \ {p} : q \in old => req'[q].raced
  BY Overtaken
<1>4. /\ slugOf \in [Ids -> Slugs \cup {Free, Gone}]
      /\ role \in [Ids -> [Users -> Roles \cup {"none"}]]
      /\ projectOf \in [Projects -> Ids \cup {Free, Gone}]
  BY DEF IInv, TypeOK
<1>5. /\ role' \in [Ids -> [Users -> Roles \cup {"none"}]]
      /\ \A v \in Ids, u \in Users :
           role'[v][u] = IF v = r.ws /\ u = r.who THEN r.role ELSE role[v][u]
  BY <1>2, <1>4
<1>6. TypesMove
  BY <1>4, <1>5 DEF TypesMove
<1>7. Tables'
  BY <1>2, <1>5 DEF IInv, Tables, Exists
<1>8. Knows(r)'
  <2>1. Fits(r)
    BY <1>1, <1>2
       DEF Same, Knows, Fits, Lookup, Invited, Inviting, Listing, Loaded, GuardedOps, MemberOps
  <2>2. KnowsRole(r)'
    <3>1. /\ slugOf[o.ws] # Free /\ r.user = o.user /\ o.op = "invite"
          /\ ~Exists(o.ws) \/ Permits(role[o.ws][o.user], "invite") \/ <<o.ws, o.user>> \in demoted
      BY <1>1, <1>2 DEF Same, Knows, KnowsRole, Beyond, Invited
    <3>2. Permits(role[o.ws][o.user], "invite") => role[o.ws][o.user] # "none"
      BY DEF Permits, Allowed
    <3> QED
      BY <1>2, <1>5, <3>1, <3>2 DEF KnowsRole, Permits, Exists
  <2>3. KnowsEntity(r)' /\ KnowsSlug(r)' /\ KnowsInvited(r)' /\ KnowsProject(r)' /\ KnowsWrote(r)'
    BY <1>2
       DEF KnowsEntity, KnowsSlug, KnowsInvited, KnowsProject, KnowsWrote, Inviting, Loaded, Holding
  <2> QED
    BY <2>1, <2>2, <2>3 DEF Knows, Fits
<1>9. SlugsMove /\ ProjectsMove(p)
  BY DEF SlugsMove, ProjectsMove
<1>10. MembersMove(p)
  <2>1. \A q \in Reqs : req[q].at \in Inviting => req[q].ws \in Ids /\ req[q].who \in Users
    BY DEF IInv, Knows, Fits, Inviting, Invited, GuardedOps, MemberOps
  <2>2. \A v \in Ids, u \in Users : role[v][u] # "none" =>
          role'[v][u] = role[v][u] \/ <<v, u>> \in demoted'
    BY <1>5
  <2>3. \A q \in Reqs \ {p} :
          req[q].at \in Inviting /\ role'[req[q].ws][req[q].who] # "none" =>
            role[req[q].ws][req[q].who] # "none" \/ req'[q].raced
    BY <1>3, <1>5, <2>1 DEF Inviters
  <2>4. \A v \in Ids : Exists(v)' =>
          /\ Exists(v)
          /\ \A u \in Users : role[v][u] = "ADMIN" /\ Inviters(v, u) = {} =>
               role'[v][u] = "ADMIN"
    BY <1>2, <1>5 DEF Exists, Inviters
  <2> QED
    BY <2>2, <2>3, <2>4 DEF MembersMove
<1>11. KeysStay(r)
  BY DEF KeysStay, Exists, ProjectsOf
<1>12. r.at \notin Inviting /\ r.at \notin Loaded
  BY DEF Inviting, Loaded
<1> QED
  BY <1>3, <1>6, <1>7, <1>8, <1>9, <1>10, <1>11, <1>12, TableMoves

LEMMA InsertMemberKeeps ==
  ASSUME IInv, NEW p \in Reqs, InsertMember(p)
  PROVE  IInv'
<1> DEFINE o == req[p]
<1>1. o \in Handler /\ Knows(o) /\ o.at = "insertMember" /\ "notify" \in Steps
  BY DEF IInv, TypeOK, InsertMember, Steps
<1>2. CASE ~(Exists(o.ws) /\ role[o.ws][o.who] = "none")
  <2>1. req' = [req EXCEPT ![p] = Answer(o, 500)] /\ UNCHANGED <<tables, redis, history>>
    BY <1>2 DEF InsertMember, Step, tables
  <2> QED
    BY <1>1, <2>1, FailedKeeps
<1>3. CASE Exists(o.ws) /\ role[o.ws][o.who] = "none"
  <2>1. PICK r : r = Wrote(o, "notify")
    OBVIOUS
  <2>2. /\ r \in Handler /\ Same(r, o) /\ r.at = "notify" /\ r.ws = o.ws /\ r.wrote
    BY <1>1, <2>1, WroteIs
  <2>3. r.who = o.who /\ r.role = o.role
    BY <2>2 DEF Same
  <2>4. /\ role' = [role EXCEPT ![r.ws][r.who] = r.role]
        /\ Overtake(p, Inviters(r.ws, r.who), r)
        /\ slugOf' = slugOf /\ projectOf' = projectOf /\ demoted' = demoted
        /\ UNCHANGED <<redis, late, lateLists>>
    BY <1>3, <2>1, <2>2, <2>3 DEF InsertMember, history
  <2>5. demoted \in SUBSET (Ids \X Users)
    BY DEF IInv, TypeOK
  <2> QED
    BY <1>1, <1>3, <2>2, <2>3, <2>4, <2>5, InvitationStored
<1> QED
  BY <1>2, <1>3

LEMMA UpdateMemberKeeps ==
  ASSUME IInv, NEW p \in Reqs, UpdateMember(p)
  PROVE  IInv'
<1> DEFINE o == req[p]
           found == role[o.ws][o.who] # "none"
           g == GoTo(o, "notify")
<1>1. o \in Handler /\ Knows(o) /\ o.at = "updateMember" /\ "notify" \in Steps
  BY DEF IInv, TypeOK, UpdateMember, Steps
<1>2. /\ o.op = "invite" /\ o.raced /\ o.ws \in Ids /\ o.who \in Users
      /\ found \in BOOLEAN
  BY <1>1 DEF Knows, Fits, KnowsInvited, Invited, Inviting, GuardedOps, MemberOps
<1>3. PICK r : r = [g EXCEPT !.wrote = found]
  OBVIOUS
<1>4. g \in Handler /\ Same(g, o) /\ g.at = "notify" /\ g.ws = o.ws /\ g.raced = o.raced
  BY <1>1, EditAt
<1> HIDE DEF g
<1>5. r \in Handler /\ Same(r, g) /\ r.at = g.at /\ r.ws = g.ws /\ r.raced = g.raced
  BY <1>2, <1>3, <1>4, EditWrote
<1>6. Same(r, o) /\ r.at = "notify" /\ r.ws = o.ws /\ r.raced /\ r.who = o.who /\ r.role = o.role
  BY <1>2, <1>4, <1>5 DEF Same
<1>7. /\ role' = IF found THEN [role EXCEPT ![o.ws][o.who] = o.role] ELSE role
      /\ demoted' = IF found THEN demoted \cup {<<o.ws, o.who>>} ELSE demoted
      /\ Overtake(p, IF found THEN Inviters(o.ws, o.who) ELSE {}, r)
      /\ slugOf' = slugOf /\ projectOf' = projectOf /\ UNCHANGED <<redis, late, lateLists>>
  BY <1>3 DEF UpdateMember, g
<1>8. demoted \in SUBSET (Ids \X Users)
  BY DEF IInv, TypeOK
<1>9. CASE found
  <2>1. Exists(r.ws)
    BY <1>2, <1>6, <1>9 DEF IInv, Tables
  <2>2. /\ role' = [role EXCEPT ![r.ws][r.who] = r.role]
        /\ Overtake(p, Inviters(r.ws, r.who), r) /\ <<r.ws, r.who>> \in demoted'
        /\ demoted \subseteq demoted' /\ demoted' \in SUBSET (Ids \X Users)
    BY <1>2, <1>6, <1>7, <1>8, <1>9
  <2> QED
    BY <1>1, <1>5, <1>6, <1>7, <2>1, <2>2, InvitationStored
<1>10. CASE ~found
  <2>1. /\ role' = role /\ demoted' = demoted /\ Overtake(p, {}, r)
    BY <1>7, <1>10
  <2>2. Others(p, r)
    BY <1>5, <2>1, Overtaken
  <2>3. Knows(r)'
    <3>1. Fits(r)
      BY <1>1, <1>2, <1>5, <1>6
         DEF Same, Knows, Fits, Lookup, Invited, Inviting, Listing, Loaded, GuardedOps, MemberOps
    <3>2. KnowsRole(r)'
      BY <1>1, <1>6, <1>7, <2>1 DEF Same, Knows, KnowsRole, Beyond, Invited, Inviting, Exists
    <3>3. /\ KnowsEntity(r)' /\ KnowsSlug(r)' /\ KnowsInvited(r)' /\ KnowsProject(r)'
          /\ KnowsWrote(r)'
      BY <1>2, <1>6 DEF Same, KnowsEntity, KnowsSlug, KnowsInvited, KnowsProject, KnowsWrote,
                        Inviting, Loaded, Holding
    <3> QED
      BY <3>1, <3>2, <3>3 DEF Knows, Fits
  <2>4. TypesMove /\ Tables' /\ SlugsMove /\ ProjectsMove(p) /\ KeysStay(r)
    BY <1>7, <2>1
       DEF IInv, TypeOK, TypesMove, Tables, SlugsMove, ProjectsMove, KeysStay, Exists, ProjectsOf
  <2>5. MembersMove(p)
    BY <1>7, <2>1 DEF MembersMove, Exists
  <2>6. r.at \notin Inviting /\ r.at \notin Loaded
    BY <1>6 DEF Inviting, Loaded
  <2> QED
    BY <1>1, <1>5, <1>7, <2>2, <2>3, <2>4, <2>5, <2>6, TableMoves
<1> QED
  BY <1>9, <1>10

\* A project is stored or removed: the handler goes on to delete the list of its
\* workspace, the only one that changes.
LEMMA ProjectChanged ==
  ASSUME IInv, NEW p \in Reqs, req[p].at \in {"insertProject", "reinsert", "deleteProject"},
         NEW r \in Handler, Same(r, req[p]), r.at = "dropList", r.ws = req[p].ws, r.wrote,
         Others(p, r), NEW x \in Projects, NEW h \in {r.ws, Gone},
         projectOf' = [projectOf EXCEPT ![x] = h], h = r.ws => Exists(r.ws),
         projectOf[x] \in Ids => projectOf[x] = r.ws,
         slugOf' = slugOf, role' = role, demoted' = demoted, UNCHANGED <<redis, late, lateLists>>,
         ProjectsMove(p)
  PROVE  IInv'
<1> DEFINE o == req[p]
<1>1. o \in Handler /\ Knows(o)
  BY DEF IInv, TypeOK
<1>2. /\ o.op \in {"add", "edit", "drop"} /\ r.ws \in Ids /\ r.op = o.op /\ r.user = o.user
      /\ o.at \in Beyond
  BY <1>1 DEF Knows, Fits, Same, Loaded, GuardedOps, MemberOps, Beyond
<1>3. /\ projectOf \in [Projects -> Ids \cup {Free, Gone}] /\ slugOf \in [Ids -> Slugs \cup {Free, Gone}]
      /\ role \in [Ids -> [Users -> Roles \cup {"none"}]] /\ demoted \in SUBSET (Ids \X Users)
  BY DEF IInv, TypeOK
<1>4. /\ projectOf' \in [Projects -> Ids \cup {Free, Gone}]
      /\ \A y \in Projects : projectOf'[y] = IF y = x THEN h ELSE projectOf[y]
  BY <1>2, <1>3
<1>5. TypesMove
  BY <1>3, <1>4 DEF TypesMove
<1>6. Tables'
  BY <1>2, <1>4, WorkspaceAssumption DEF IInv, Tables, Exists
<1>7. Knows(r)'
  <2>1. Fits(r)
    BY <1>1, <1>2
       DEF Same, Knows, Fits, Lookup, Invited, Inviting, Listing, Loaded, GuardedOps, MemberOps
  <2>2. KnowsRole(r)'
    BY <1>1, <1>2 DEF Knows, KnowsRole, Exists
  <2>3. /\ KnowsEntity(r)' /\ KnowsSlug(r)' /\ KnowsInvited(r)' /\ KnowsProject(r)'
        /\ KnowsWrote(r)'
    BY <1>2 DEF KnowsEntity, KnowsSlug, KnowsInvited, KnowsProject, KnowsWrote, Inviting, Loaded,
                Holding
  <2> QED
    BY <2>1, <2>2, <2>3 DEF Knows, Fits
<1>8. SlugsMove /\ MembersMove(p)
  BY DEF SlugsMove, MembersMove, Exists
<1>9. KeysStay(r)
  <2>1. ASSUME NEW w \in Ids, w # r.ws
        PROVE  ProjectsOf(w)' = ProjectsOf(w)
    BY <1>4, <2>1, WorkspaceAssumption DEF ProjectsOf
  <2> QED
    BY <2>1 DEF KeysStay, Exists
<1>10. r.at \notin Inviting /\ r.at \notin Loaded
  BY DEF Inviting, Loaded
<1> QED
  BY <1>5, <1>6, <1>7, <1>8, <1>9, <1>10, TableMoves

LEMMA InsertProjectKeeps ==
  ASSUME IInv, NEW p \in Reqs, InsertProject(p)
  PROVE  IInv'
<1> DEFINE o == req[p]
<1>1. o \in Handler /\ Knows(o) /\ o.at = "insertProject" /\ "dropList" \in Steps
  BY DEF IInv, TypeOK, InsertProject, Steps
<1>2. CASE ~Exists(o.ws)
  <2>1. req' = [req EXCEPT ![p] = Answer(o, 500)] /\ UNCHANGED <<tables, redis, history>>
    BY <1>2 DEF InsertProject, Step, tables
  <2> QED
    BY <1>1, <2>1, FailedKeeps
<1>3. CASE Exists(o.ws)
  <2>1. PICK x \in Projects : /\ projectOf[x] = Free
                              /\ projectOf' = [projectOf EXCEPT ![x] = o.ws]
    BY <1>3 DEF InsertProject
  <2>2. PICK r : r = Wrote(o, "dropList")
    OBVIOUS
  <2>3. r \in Handler /\ Same(r, o) /\ r.at = "dropList" /\ r.ws = o.ws /\ r.wrote
    BY <1>1, <2>2, WroteIs
  <2>4. /\ req' = [req EXCEPT ![p] = r]
        /\ slugOf' = slugOf /\ role' = role /\ demoted' = demoted
        /\ UNCHANGED <<redis, late, lateLists>>
    BY <1>3, <2>2 DEF InsertProject, Step, history
  <2>5. Others(p, r)
    BY <2>3, <2>4, MovesAlike
  <2>6. Free \notin Ids /\ Free # Gone
    BY WorkspaceAssumption
  <2>7. ProjectsMove(p)
    <3>1. \A q \in Reqs : req[q].at \in Loaded =>
            /\ req[q].proj \in Projects /\ req[q].ws \in Ids
            /\ projectOf[req[q].proj] \in {req[q].ws, Gone}
      BY DEF IInv, Knows, Fits, KnowsProject, Loaded, GuardedOps, MemberOps
    <3>2. \A y \in Projects : y # x => projectOf'[y] = projectOf[y]
      BY <2>1 DEF IInv, TypeOK
    <3> QED
      BY <2>1, <2>6, <3>1, <3>2 DEF ProjectsMove
  <2> QED
    BY <1>1, <1>3, <2>1, <2>3, <2>4, <2>5, <2>6, <2>7, ProjectChanged
<1> QED
  BY <1>2, <1>3

LEMMA ReinsertKeeps ==
  ASSUME IInv, NEW p \in Reqs, Reinsert(p)
  PROVE  IInv'
<1> DEFINE o == req[p]
           x == o.proj
<1>1. o \in Handler /\ Knows(o) /\ o.at = "reinsert" /\ "dropList" \in Steps
  BY DEF IInv, TypeOK, Reinsert, Steps
<1>2. x \in Projects /\ o.ws \in Ids
  BY <1>1 DEF Knows, Fits, Loaded, GuardedOps, MemberOps
<1>3. CASE ~(Exists(o.ws) /\ projectOf[x] \notin Ids)
  <2>1. req' = [req EXCEPT ![p] = Answer(o, 500)] /\ UNCHANGED <<tables, redis, history>>
    BY <1>3 DEF Reinsert, Step, tables
  <2> QED
    BY <1>1, <2>1, FailedKeeps
<1>4. CASE Exists(o.ws) /\ projectOf[x] \notin Ids
  <2>1. projectOf' = [projectOf EXCEPT ![x] = o.ws]
    BY <1>4 DEF Reinsert
  <2>2. PICK r : r = Wrote(o, "dropList")
    OBVIOUS
  <2>3. r \in Handler /\ Same(r, o) /\ r.at = "dropList" /\ r.ws = o.ws /\ r.wrote
    BY <1>1, <2>2, WroteIs
  <2>4. /\ req' = [req EXCEPT ![p] = r]
        /\ slugOf' = slugOf /\ role' = role /\ demoted' = demoted
        /\ UNCHANGED <<redis, late, lateLists>>
    BY <1>4, <2>2 DEF Reinsert, Step, history
  <2>5. Others(p, r)
    BY <2>3, <2>4, MovesAlike
  <2>6. ProjectsMove(p)
    <3> SUFFICES ASSUME NEW q \in Reqs \ {p}, req[q].at \in Loaded
                 PROVE  /\ projectOf'[req[q].proj] \in {projectOf[req[q].proj], req[q].ws}
                        /\ projectOf'[req[q].proj] = Gone => projectOf[req[q].proj] = Gone
      BY DEF ProjectsMove
    <3>1. req[q].proj \in Projects
      BY DEF IInv, Knows, Fits, Loaded
    <3>2. projectOf'[req[q].proj] = IF req[q].proj = x THEN o.ws ELSE projectOf[req[q].proj]
      BY <2>1, <3>1 DEF IInv, TypeOK
    <3>3. req[q].proj = x => req[q].ws = o.ws
      BY <1>1 DEF IInv, OneHome, Loaded
    <3>4. o.ws # Gone
      BY <1>2, WorkspaceAssumption
    <3> QED
      BY <3>2, <3>3, <3>4
  <2>7. o.ws \in {r.ws, Gone}
    BY <2>3
  <2> QED
    BY <1>1, <1>2, <1>4, <2>1, <2>3, <2>4, <2>5, <2>6, <2>7, ProjectChanged
<1> QED
  BY <1>3, <1>4

LEMMA DeleteProjectKeeps ==
  ASSUME IInv, NEW p \in Reqs, DeleteProject(p)
  PROVE  IInv'
<1> DEFINE o == req[p]
           x == o.proj
<1>1. o \in Handler /\ Knows(o) /\ o.at = "deleteProject" /\ "dropList" \in Steps
  BY DEF IInv, TypeOK, DeleteProject, Steps
<1>2. x \in Projects /\ o.ws \in Ids /\ projectOf[x] \in {o.ws, Gone}
  BY <1>1 DEF Knows, Fits, KnowsProject, Loaded, GuardedOps, MemberOps
<1>3. PICK r : r = Wrote(o, "dropList")
  OBVIOUS
<1>4. r \in Handler /\ Same(r, o) /\ r.at = "dropList" /\ r.ws = o.ws /\ r.wrote
  BY <1>1, <1>3, WroteIs
<1>5. /\ projectOf' = [projectOf EXCEPT ![x] = Gone]
      /\ Overtake(p, Editors({x}), r)
      /\ slugOf' = slugOf /\ role' = role /\ demoted' = demoted
      /\ UNCHANGED <<redis, late, lateLists>>
  BY <1>3 DEF DeleteProject, history
<1>6. Others(p, r) /\ \A q \in Reqs \ {p} : q \in Editors({x}) => req'[q].raced
  BY <1>4, <1>5, Overtaken
<1>7. ProjectsMove(p)
  <2> SUFFICES ASSUME NEW q \in Reqs \ {p}, req[q].at \in Loaded
               PROVE  /\ projectOf'[req[q].proj] \in {projectOf[req[q].proj], Gone}
                      /\ projectOf'[req[q].proj] = Gone /\ req[q].at # "deleteProject" =>
                           projectOf[req[q].proj] = Gone \/ req'[q].raced
    BY DEF ProjectsMove
  <2>1. req[q].proj \in Projects
    BY DEF IInv, Knows, Fits, Loaded
  <2>2. projectOf'[req[q].proj] = IF req[q].proj = x THEN Gone ELSE projectOf[req[q].proj]
    BY <1>5, <2>1 DEF IInv, TypeOK
  <2> QED
    BY <1>6, <2>2 DEF Editors, Loaded
<1>8. Gone \notin Ids /\ Gone \in {r.ws, Gone} /\ Gone # r.ws
  BY <1>2, <1>4, WorkspaceAssumption
<1> QED
  BY <1>1, <1>2, <1>4, <1>5, <1>6, <1>7, <1>8, ProjectChanged

---------------------------------------------------------------------------
(* The invariant *)

LEMMA InitHolds == Init => IInv
<1> SUFFICES ASSUME Init PROVE IInv
  OBVIOUS
<1>1. /\ Idle \in Handler /\ Idle.at = "idle" /\ Idle.op = "none" /\ ~Idle.wrote
  BY DEF Idle, Asked, Handler, Steps
<1>2. \A p \in Reqs : req[p] = Idle
  BY DEF Init
<1>3. TypeOK
  BY <1>1 DEF Init, TypeOK
<1>4. Tables
  <2>1. \A v \in Ids : slugOf[v] \in Slugs \cup {Free}
    BY DEF Init
  <2>2. Free \notin Slugs /\ Free \notin Ids /\ Gone \notin Ids
    BY WorkspaceAssumption
  <2>3. \A v, w \in Ids : Exists(v) /\ slugOf[v] = slugOf[w] => v = w
    BY <2>2 DEF Init, Exists
  <2>4. \A w \in Ids, u \in Users : role[w][u] # "none" => Exists(w)
    BY <2>1 DEF Init, Exists
  <2>5. \A x \in Projects : projectOf[x] \in Ids => Exists(projectOf[x])
    BY <2>1, <2>2 DEF Init, Exists
  <2> QED
    BY <2>3, <2>4, <2>5 DEF Tables
<1>5. AdminSafe
  <2>1. \A w \in Ids, u \in Users : Inviters(w, u) = {}
    BY <1>1, <1>2 DEF Inviters, Inviting
  <2>2. \A w \in Ids : Exists(w) => \E u \in Users : role[w][u] = "ADMIN"
    BY WorkspaceAssumption DEF Init, Exists
  <2> QED
    BY <2>1, <2>2 DEF AdminSafe
<1>6. OneHome /\ Keys /\ KeysExplained
  BY <1>1, <1>2 DEF Init, OneHome, Keys, KeysExplained, Loaded
<1>7. Fits(Idle)
  BY <1>1 DEF Fits, Lookup, Invited, Inviting, Listing, Loaded, GuardedOps, MemberOps
<1>8. Knows(Idle)
  BY <1>1, <1>7
     DEF Knows, KnowsEntity, KnowsSlug, KnowsRole, KnowsInvited, KnowsProject, KnowsWrote,
         Beyond, Lookup, Holding, Invited, Inviting, Loaded, Listing
<1> QED
  BY <1>2, <1>3, <1>4, <1>5, <1>6, <1>8 DEF IInv

LEMMA NextKeeps == IInv /\ [Next]_vars => IInv'
<1> SUFFICES ASSUME IInv, [Next]_vars PROVE IInv'
  OBVIOUS
<1>1. ASSUME NEW p \in Reqs, Handle(p)
      PROVE  IInv'
  <2>1. CASE Start(p) \/ Resolve(p) \/ Guard(p) \/ CheckSlug(p) \/ Insert(p)
    BY <2>1, StartKeeps, ResolveKeeps, GuardKeeps, CheckSlugKeeps, InsertKeeps
  <2>2. CASE Hit(p) \/ Miss(p) \/ Query(p) \/ Fill(p) \/ SelectRow(p) \/ Delete(p)
    BY <2>2, HitKeeps, MissKeeps, QueryKeeps, FillKeeps, SelectRowKeeps, DeleteKeeps
  <2>3. CASE DropId(p) \/ DropSlug(p) \/ CheckMember(p) \/ SelectMember(p)
    BY <2>3, DropIdKeeps, DropSlugKeeps, CheckMemberKeeps, SelectMemberKeeps
  <2>4. CASE InsertMember(p) \/ UpdateMember(p) \/ Notify(p)
    BY <2>4, InsertMemberKeeps, UpdateMemberKeeps, NotifyKeeps
  <2>5. CASE GetList(p) \/ SelectList(p) \/ FillList(p) \/ InsertProject(p) \/ Load(p)
    BY <2>5, GetListKeeps, SelectListKeeps, FillListKeeps, InsertProjectKeeps, LoadKeeps
  <2>6. CASE SelectProject(p) \/ Reinsert(p) \/ DeleteProject(p) \/ DropList(p) \/ Reply(p)
    BY <2>6, SelectProjectKeeps, ReinsertKeeps, DeleteProjectKeeps, DropListKeeps, ReplyKeeps
  <2> QED
    BY <1>1, <2>1, <2>2, <2>3, <2>4, <2>5, <2>6 DEF Handle
<1>2. CASE UNCHANGED vars
  <2>1. /\ req' = req /\ slugOf' = slugOf /\ role' = role /\ projectOf' = projectOf
        /\ cache' = cache /\ listKey' = listKey
        /\ late' = late /\ lateLists' = lateLists /\ demoted' = demoted
    BY <1>2 DEF vars, tables, redis, history
  <2>2. TypeOK' /\ Tables' /\ AdminSafe' /\ OneHome' /\ Keys'
    BY <2>1 DEF IInv, TypeOK, Tables, AdminSafe, OneHome, Keys, Inviters, Faithful, Exists
  <2>3. KeysExplained'
    <3>1. \A q \in Reqs : Dropping(req[q])' = Dropping(req[q])
      BY <2>1 DEF Dropping
    <3> QED
      BY <2>1, <3>1 DEF IInv, KeysExplained, ProjectsOf, Exists
  <2>4. \A q \in Reqs : Knows(req[q])'
    BY <2>1 DEF IInv, Knows, Fits, KnowsEntity, KnowsSlug, KnowsRole, KnowsInvited, KnowsProject,
                KnowsWrote, Faithful, Exists
  <2> QED
    BY <2>2, <2>3, <2>4 DEF IInv
<1> QED
  BY <1>1, <1>2, CrashKeeps, ExpireKeeps DEF Next

LEMMA Invariance == Spec => []IInv
  BY InitHolds, NextKeeps, PTL DEF Spec

---------------------------------------------------------------------------
(* What it means for members, slugs, keys and answers *)

\* Type correctness of the tables, the cache and the handlers.
THEOREM WorkspaceTypeCorrect == Spec => []TypeOK
<1>1. IInv => TypeOK
  BY DEF IInv
<1> QED
  BY <1>1, Invariance, PTL

\* Members: no interleaving of invitations and removals leaves a workspace
\* without an ADMIN.
THEOREM AdminAlwaysPresent == Spec => []AdminPresent
<1>1. IInv => AdminPresent
  BY DEF IInv, AdminSafe, AdminPresent
<1> QED
  BY <1>1, Invariance, PTL

\* Slugs: the workspace answered is the one the guard asked about.
THEOREM SlugAlwaysAnswersOwn == Spec => []SlugAnswersOwn
<1>1. ASSUME IInv, NEW p \in Reqs, req[p].op = "bySlug", req[p].at = "reply",
             req[p].code = 200, req[p].ws # None, Exists(req[p].ws), Exists(req[p].ent.id)
      PROVE  req[p].ent.id = req[p].ws
  <2>1. KnowsEntity(req[p]) /\ KnowsSlug(req[p])
    BY <1>1 DEF IInv, Knows
  <2>2. /\ Faithful(req[p].ent) /\ req[p].ent.slug = req[p].slug
        /\ req[p].ws \in Ids /\ slugOf[req[p].ws] \in {req[p].slug, Gone}
    BY <1>1, <2>1 DEF KnowsEntity, KnowsSlug
  <2>3. slugOf[req[p].ent.id] = slugOf[req[p].ws] /\ req[p].ent.id \in Ids
    BY <1>1, <2>2, WorkspaceAssumption DEF Faithful, Exists, Entity
  <2> QED
    BY <1>1, <2>2, <2>3 DEF IInv, Tables
<1>2. IInv => SlugAnswersOwn
  BY <1>1 DEF SlugAnswersOwn
<1> QED
  BY <1>2, Invariance, PTL

\* Keys: every stale key is one the code has yet to delete, filled after the
\* removal or failed to delete.
THEOREM KeysAlwaysExplained == Spec => []KeysExplained
<1>1. IInv => KeysExplained
  BY DEF IInv
<1> QED
  BY <1>1, Invariance, PTL

\* Answers: what each code says about what was written.
THEOREM AnswersAlwaysTell == Spec => []AnswersTell
<1>1. IInv => AnswersTell
  BY DEF IInv, Knows, KnowsWrote, AnswersTell
<1> QED
  BY <1>1, Invariance, PTL

\* The handlers that write a table.
Writes(p) == \/ Insert(p) \/ Delete(p) \/ InsertMember(p) \/ UpdateMember(p)
             \/ InsertProject(p) \/ Reinsert(p) \/ DeleteProject(p)

LEMMA OnlyWrites == [Next]_vars => UNCHANGED tables \/ \E p \in Reqs : Writes(p)
<1>1. ASSUME NEW p \in Reqs, Handle(p) \/ Crash(p)
      PROVE  UNCHANGED tables \/ Writes(p)
  BY <1>1 DEF Handle, Crash, Writes, Start, Resolve, Guard, CheckSlug, Hit, Miss, Query, Fill,
              SelectRow, DropId, DropSlug, Drop, CheckMember, SelectMember, Notify, GetList,
              SelectList, FillList, Load, SelectProject, DropList, Reply
<1>2. Expire => UNCHANGED tables
  BY DEF Expire
<1>3. UNCHANGED vars => UNCHANGED tables
  BY DEF vars
<1> QED
  BY <1>1, <1>2, <1>3 DEF Next

\* What a writing handler writes, and where it goes on.
LEMMA WriteIs ==
  ASSUME IInv, NEW p \in Reqs, Writes(p)
  PROVE  /\ \A q \in Reqs \ {p} : req'[q].at = req[q].at
         /\ \A w \in Ids :
              \/ slugOf'[w] = slugOf[w] /\ role'[w] = role[w]
                 /\ \A x \in Projects : w \in {projectOf[x], projectOf'[x]} =>
                                          projectOf'[x] = projectOf[x]
              \/ ~Exists(w)
              \/ w = req[p].ws /\ req[p].at \in Beyond
         /\ \A w \in Ids, u \in Users :
              role[w][u] # "none" /\ role'[w][u] \notin {role[w][u], "none"} =>
                /\ req[p].raced /\ req'[p].at = "notify" /\ req[p].at = "updateMember"
                /\ req[p].ws = w /\ req[p].who = u
         /\ \A x \in Projects : projectOf[x] = Gone /\ projectOf'[x] \in Ids =>
              /\ req[p].op = "edit" /\ req[p].proj = x
              /\ req[p].raced /\ req[p].at = "reinsert"
<1> DEFINE o == req[p]
<1>1. o \in Handler /\ Knows(o)
  BY DEF IInv, TypeOK
<1>2. /\ slugOf \in [Ids -> Slugs \cup {Free, Gone}]
      /\ role \in [Ids -> [Users -> Roles \cup {"none"}]]
      /\ projectOf \in [Projects -> Ids \cup {Free, Gone}] /\ req \in [Reqs -> Handler]
  BY DEF IInv, TypeOK
<1>3. Free # Gone /\ Free \notin Ids /\ Gone \notin Ids /\ Free \notin Slugs
  BY WorkspaceAssumption
<1>4. ASSUME NEW r, NEW old, Overtake(p, old, r)
      PROVE  req'[p] = r /\ \A q \in Reqs \ {p} : req'[q].at = req[q].at
  <2>1. ASSUME NEW q \in Reqs \ {p}
        PROVE  req'[q].at = req[q].at
    <3>1. req'[q] = [req[q] EXCEPT !.raced = req[q].raced \/ q \in old]
      BY <1>4 DEF Overtake
    <3>2. req[q] \in Handler
      BY <1>2
    <3> QED
      BY <3>1, <3>2, EditRaced
  <2> QED
    BY <1>4, <2>1 DEF Overtake
<1>5. ASSUME NEW r, NEW at, Step(p, at, r)
      PROVE  req'[p] = r /\ \A q \in Reqs \ {p} : req'[q].at = req[q].at
  BY <1>2, <1>5 DEF Step
<1>6. CASE Insert(p)
  <2>1. \A q \in Reqs \ {p} : req'[q].at = req[q].at
    BY <1>5, <1>6 DEF Insert
  <2>2. projectOf' = projectOf
    BY <1>6 DEF Insert
  <2>3. \/ slugOf' = slugOf /\ role' = role
        \/ \E w \in Ids : /\ slugOf[w] = Free
                          /\ slugOf' = [slugOf EXCEPT ![w] = o.slug]
                          /\ role' = [role EXCEPT ![w][o.user] = "ADMIN"]
    BY <1>6 DEF Insert
  <2>4. \A w \in Ids : (slugOf'[w] = slugOf[w] /\ role'[w] = role[w]) \/ ~Exists(w)
    BY <1>2, <1>3, <2>3 DEF Exists
  <2>5. \A w \in Ids, u \in Users : role[w][u] # "none" => role'[w][u] = role[w][u]
    BY <2>4 DEF IInv, Tables
  <2> QED
    BY <1>3, <2>1, <2>2, <2>4, <2>5
<1>7. CASE Delete(p)
  <2>1. o.at = "delete" /\ o.at \in Beyond /\ o.ws \in Ids
    BY <1>1, <1>7 DEF Delete, Beyond, Holding, Knows, Fits, GuardedOps, MemberOps
  <2>2. \A q \in Reqs \ {p} : req'[q].at = req[q].at
    BY <1>4, <1>7 DEF Delete
  <2>3. /\ \A v \in Ids : v # o.ws => slugOf'[v] = slugOf[v] /\ role'[v] = role[v]
        /\ \A u \in Users : role'[o.ws][u] = "none"
        /\ \A x \in Projects : projectOf'[x] = IF projectOf[x] = o.ws THEN Gone ELSE projectOf[x]
    BY <1>2, <1>7, <2>1 DEF Delete
  <2> QED
    BY <1>3, <2>1, <2>2, <2>3
<1>8. CASE InsertMember(p)
  <2>1. /\ o.at = "insertMember" /\ o.at \in Beyond /\ o.ws \in Ids /\ o.who \in Users
    BY <1>1, <1>8
       DEF InsertMember, Beyond, Invited, Inviting, Knows, Fits, GuardedOps, MemberOps
  <2>2. \A q \in Reqs \ {p} : req'[q].at = req[q].at
    BY <1>4, <1>5, <1>8 DEF InsertMember
  <2>3. slugOf' = slugOf /\ projectOf' = projectOf
    BY <1>8 DEF InsertMember
  <2>4. \/ role' = role
        \/ role[o.ws][o.who] = "none" /\ role' = [role EXCEPT ![o.ws][o.who] = o.role]
    BY <1>8 DEF InsertMember
  <2>5. /\ \A w \in Ids : w # o.ws => role'[w] = role[w]
        /\ \A w \in Ids, u \in Users : role[w][u] # "none" => role'[w][u] = role[w][u]
    BY <1>2, <2>1, <2>4
  <2> QED
    BY <1>3, <2>1, <2>2, <2>3, <2>5
<1>9. CASE UpdateMember(p)
  <2>1. /\ o.at = "updateMember" /\ o.at \in Beyond /\ o.ws \in Ids /\ o.who \in Users /\ o.raced
    BY <1>1, <1>9
       DEF UpdateMember, Beyond, Invited, Inviting, Knows, Fits, KnowsInvited, GuardedOps, MemberOps
  <2>2. PICK found \in BOOLEAN :
          \E old : Overtake(p, old, [GoTo(o, "notify") EXCEPT !.wrote = found])
    <3>1. LET found == role[o.ws][o.who] # "none"
          IN  Overtake(p, IF found THEN Inviters(o.ws, o.who) ELSE {},
                       [GoTo(o, "notify") EXCEPT !.wrote = found])
      BY <1>9 DEF UpdateMember
    <3> QED
      BY <3>1
  <2>3. /\ \A q \in Reqs \ {p} : req'[q].at = req[q].at
        /\ req'[p] = [GoTo(o, "notify") EXCEPT !.wrote = found]
    BY <1>4, <2>2
  <2>4. req'[p].at = "notify"
    <3>1. "notify" \in Steps
      BY DEF Steps
    <3>2. GoTo(o, "notify") \in Handler /\ GoTo(o, "notify").at = "notify"
      BY <1>1, <3>1, EditAt
    <3> QED
      BY <2>3, <3>2, EditWrote
  <2>5. slugOf' = slugOf /\ projectOf' = projectOf
    BY <1>9 DEF UpdateMember
  <2>6. role' = role \/ role' = [role EXCEPT ![o.ws][o.who] = o.role]
    BY <1>9 DEF UpdateMember
  <2>7. /\ \A w \in Ids : w # o.ws => role'[w] = role[w]
        /\ \A w \in Ids, u \in Users : role'[w][u] # role[w][u] => w = o.ws /\ u = o.who
    BY <1>2, <2>1, <2>6
  <2> QED
    BY <1>3, <2>1, <2>3, <2>4, <2>5, <2>7
<1>10. CASE InsertProject(p)
  <2>1. o.at = "insertProject" /\ o.at \in Beyond /\ o.ws \in Ids
    BY <1>1, <1>10 DEF InsertProject, Beyond, Knows, Fits, GuardedOps, MemberOps
  <2>2. \A q \in Reqs \ {p} : req'[q].at = req[q].at
    BY <1>5, <1>10 DEF InsertProject
  <2>3. slugOf' = slugOf /\ role' = role
    BY <1>10 DEF InsertProject
  <2>4. \/ projectOf' = projectOf
        \/ \E x \in Projects : projectOf[x] = Free /\ projectOf' = [projectOf EXCEPT ![x] = o.ws]
    BY <1>10 DEF InsertProject
  <2>5. \A x \in Projects : projectOf'[x] # projectOf[x] =>
          projectOf[x] = Free /\ projectOf'[x] = o.ws
    BY <1>2, <2>4
  <2> QED
    BY <1>3, <2>1, <2>2, <2>3, <2>5
<1>11. CASE Reinsert(p)
  <2>1. /\ o.at = "reinsert" /\ o.at \in Beyond /\ o.ws \in Ids /\ o.op = "edit"
        /\ projectOf[o.proj] \in {o.ws, Gone} /\ (projectOf[o.proj] = Gone => o.raced)
    BY <1>1, <1>11
       DEF Reinsert, Beyond, Loaded, Knows, Fits, KnowsProject, GuardedOps, MemberOps
  <2>2. \A q \in Reqs \ {p} : req'[q].at = req[q].at
    BY <1>5, <1>11 DEF Reinsert
  <2>3. slugOf' = slugOf /\ role' = role
    BY <1>11 DEF Reinsert
  <2>4. projectOf' = projectOf \/ projectOf' = [projectOf EXCEPT ![o.proj] = o.ws]
    BY <1>11 DEF Reinsert
  <2>5. \A x \in Projects : projectOf'[x] # projectOf[x] =>
          x = o.proj /\ projectOf'[x] = o.ws
    BY <1>2, <2>4
  <2> QED
    BY <1>3, <2>1, <2>2, <2>3, <2>5
<1>12. CASE DeleteProject(p)
  <2>1. /\ o.at = "deleteProject" /\ o.at \in Beyond /\ o.ws \in Ids
        /\ projectOf[o.proj] \in {o.ws, Gone}
    BY <1>1, <1>12
       DEF DeleteProject, Beyond, Loaded, Knows, Fits, KnowsProject, GuardedOps, MemberOps
  <2>2. \A q \in Reqs \ {p} : req'[q].at = req[q].at
    BY <1>4, <1>12 DEF DeleteProject
  <2>3. slugOf' = slugOf /\ role' = role /\ projectOf' = [projectOf EXCEPT ![o.proj] = Gone]
    BY <1>12 DEF DeleteProject
  <2>4. \A x \in Projects : projectOf'[x] # projectOf[x] => x = o.proj /\ projectOf'[x] = Gone
    BY <1>2, <2>3
  <2> QED
    BY <1>3, <2>1, <2>2, <2>3, <2>4
<1> QED
  BY <1>6, <1>7, <1>8, <1>9, <1>10, <1>11, <1>12 DEF Writes

\* Members: a role changes only through invitations that overlapped.
THEOREM RolesAlwaysHold == Spec => RolesHold
<1>1. ASSUME IInv, [Next]_vars, NEW w \in Ids, NEW u \in Users,
             role[w][u] # "none", role'[w][u] \notin {role[w][u], "none"}
      PROVE  \E p \in Reqs : /\ req[p].raced /\ req'[p].at = "notify"
                             /\ req[p].at = "updateMember"
                             /\ req[p].ws = w /\ req[p].who = u
  <2>1. ~UNCHANGED tables
    BY <1>1 DEF tables
  <2>2. PICK p \in Reqs : Writes(p)
    BY <1>1, <2>1, OnlyWrites
  <2> QED
    BY <1>1, <2>2, WriteIs
<1>2. IInv /\ [Next]_vars =>
        [\A w \in Ids, u \in Users :
           role[w][u] # "none" /\ role'[w][u] \notin {role[w][u], "none"} =>
             \E p \in Reqs : /\ req[p].raced /\ req'[p].at = "notify"
                             /\ req[p].at = "updateMember"
                             /\ req[p].ws = w /\ req[p].who = u]_vars
  BY <1>1
<1> QED
  BY <1>2, Invariance, PTL DEF Spec, RolesHold

\* Guards: the permission checked before the first await still holds at the
\* write, or racing invitations changed it.
THEOREM WritesAlwaysPermitted == Spec => WritesPermitted
<1>1. ASSUME IInv, [Next]_vars, NEW p \in Reqs, NEW w \in Ids, WritesIn(p, w), Exists(w)
      PROVE  Permits(role[w][req[p].user], req[p].op) \/ <<w, req[p].user>> \in demoted
  <2>1. ~UNCHANGED tables
    BY <1>1 DEF WritesIn, tables
  <2>2. PICK q \in Reqs : Writes(q)
    BY <1>1, <2>1, OnlyWrites
  <2>3. q = p
    BY <1>1, <2>2, WriteIs DEF WritesIn
  <2>4. w = req[p].ws /\ req[p].at \in Beyond
    BY <1>1, <2>2, <2>3, WriteIs DEF WritesIn
  <2> QED
    BY <1>1, <2>4 DEF IInv, Knows, KnowsRole
<1>2. IInv /\ [Next]_vars =>
        [\A p \in Reqs, w \in Ids :
           WritesIn(p, w) /\ Exists(w) =>
             \/ Permits(role[w][req[p].user], req[p].op)
             \/ <<w, req[p].user>> \in demoted]_vars
  BY <1>1
<1> QED
  BY <1>2, Invariance, PTL DEF Spec, WritesPermitted

\* Projects: what brings a removed project back.
THEOREM RemovalsAlwaysHold == Spec => RemovalsHold
<1>1. ASSUME IInv, [Next]_vars, NEW x \in Projects, projectOf[x] = Gone, projectOf'[x] \in Ids
      PROVE  \E p \in Reqs : /\ req[p].op = "edit" /\ req[p].proj = x
                             /\ req[p].raced /\ req[p].at = "reinsert"
  <2>1. ~UNCHANGED tables
    BY <1>1, WorkspaceAssumption DEF tables
  <2>2. PICK p \in Reqs : Writes(p)
    BY <1>1, <2>1, OnlyWrites
  <2> QED
    BY <1>1, <2>2, WriteIs
<1>2. IInv /\ [Next]_vars =>
        [\A x \in Projects :
           projectOf[x] = Gone /\ projectOf'[x] \in Ids =>
             \E p \in Reqs : /\ req[p].op = "edit" /\ req[p].proj = x
                             /\ req[p].raced /\ req[p].at = "reinsert"]_vars
  BY <1>1
<1> QED
  BY <1>2, Invariance, PTL DEF Spec, RemovalsHold
=============================================================================
