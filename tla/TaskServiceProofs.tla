------------------------- MODULE TaskServiceProofs -------------------------
(***************************************************************************)
(* Proofs, for any number of tasks, requests, workspaces and users, of the *)
(* type invariant and the cache-consistency properties of TaskService.     *)
(***************************************************************************)
EXTENDS TaskService, TLAPS

---------------------------------------------------------------------------
(* What save() and createTask store is a row *)

\* Object.assign over an entity gives a row.
LEMMA AssignedType ==
  ASSUME NEW p \in Reqs, NEW e \in Row, NEW d \in Dto
  PROVE  Assigned(e, d, p) \in Row
BY DEF Assigned, Row, Dto, Given, Stamps, Statuses

\* The UPDATE of save() gives a row of the same workspace.
LEMMA WrittenType ==
  ASSUME NEW r \in Row, NEW e \in Row, NEW cols \in SUBSET Columns
  PROVE  /\ Written(r, e, cols) \in Row
         /\ Written(r, e, cols).ws = r.ws
<1> DEFINE co == IF "content" \in cols THEN e.content ELSE r.content
           st == IF "status" \in cols THEN e.status ELSE r.status
           ca == IF "completedAt" \in cols THEN e.completedAt ELSE r.completedAt
           as == IF "assignedTo" \in cols THEN e.assignedTo ELSE r.assignedTo
           de == IF "deleted" \in cols THEN e.deleted ELSE r.deleted
           ve == IF cols = {} THEN r.version
                 ELSE IF "version" \in cols THEN e.version ELSE r.version + 1
<1>1. /\ co \in Contents /\ st \in Statuses /\ ca \in Stamps
      /\ as \in Users \cup {Null} /\ ve \in Nat
  BY DEF Row
<1>2. de \in BOOLEAN
  BY DEF Row
<1>3. Written(r, e, cols) =
        [r EXCEPT !.content = co, !.status = st, !.completedAt = ca,
                  !.assignedTo = as, !.deleted = de, !.version = ve]
  BY DEF Written
<1> HIDE DEF co, st, ca, as, de, ve
<1>4. QED
  BY <1>1, <1>2, <1>3 DEF Row

\* An empty diff writes nothing.
LEMMA WrittenNothing ==
  ASSUME NEW r \in Row, NEW e \in Row
  PROVE  Written(r, e, {}) = r
BY DEF Written, Row

\* What createTask inserts is a row.
LEMMA NewRowType ==
  ASSUME NEW c \in Calls, c.op = "create"
  PROVE  NewRow(c) \in Row /\ NewRow(c).ws = c.ws
BY DataAssumption DEF NewRow, Row, Call, Dto, Given, Stamps, Statuses

\* A soft-deleted row is a row of the same workspace.
LEMMA RemovedType ==
  ASSUME NEW r \in Row
  PROVE  Removed(r) \in Row /\ Removed(r).ws = r.ws
<1> DEFINE v == r.version + 1
<1>1. v \in Nat
  BY DEF Row
<1>2. Removed(r) = [r EXCEPT !.deleted = TRUE, !.version = v]
  BY DEF Removed
<1> HIDE DEF v
<1>3. ASSUME NEW d \in BOOLEAN
      PROVE  [r EXCEPT !.deleted = d, !.version = v] \in Row
  BY <1>1 DEF Row
<1>4. [r EXCEPT !.deleted = TRUE, !.version = v].ws = r.ws
  BY DEF Row
<1>5. QED
  BY <1>2, <1>3, <1>4

\* Every request that can arrive is well-formed.
LEMMA CallsType == Calls \subseteq Call /\ \A c \in Calls : c.dto \in Dto
BY DataAssumption DEF Call

---------------------------------------------------------------------------
(* Type correctness *)

USE DEF Goto, Answer, Target, dbVars, cacheVars, listVars, outVars

\* The types hold initially.
LEMMA InitType == Init => TypeOK
<1> SUFFICES ASSUME Init PROVE TypeOK
  OBVIOUS
<1>1. StoresType
  BY DataAssumption DEF Init, StoresType, Page
<1>2. HandlersType
  BY DataAssumption DEF Init, HandlersType, Steps, Replies, Page, Columns
<1>3. QED
  BY <1>1, <1>2 DEF TypeOK

\* The steps of findById, and the start of a request, keep the types.
LEMMA LookupType ==
  ASSUME TypeOK, HolderSound, NEW p \in Reqs,
         \/ Start(p) \/ LookupHit(p) \/ LookupMiss(p) \/ Query(p) \/ Fill(p)
  PROVE  TypeOK'
<1> USE DEF TypeOK
<1>1. CASE Start(p)
  <2>1. StoresType'
    BY <1>1 DEF Start, StoresType
  <2>2. HandlersType'
    BY <1>1, CallsType DEF Start, HandlersType, FirstStep, Steps, Call, Ops
  <2>3. QED
    BY <2>1, <2>2
<1>2. CASE LookupHit(p)
  <2>1. StoresType'
    BY <1>2 DEF LookupHit, StoresType
  <2>2. HandlersType'
    BY <1>2 DEF LookupHit, HitAllowed, Proceed, StoresType, HandlersType,
                Steps, Replies
  <2>3. QED
    BY <2>1, <2>2
<1>3. CASE LookupMiss(p)
  BY <1>3 DEF LookupMiss, StoresType, HandlersType, Steps
<1>4. CASE Query(p)
  <2>1. StoresType'
    BY <1>4 DEF Query, StoresType
  <2>2. HandlersType'
    <3>1. CASE Visible(Target(p), call[p].ws)
      <4>1. row[Target(p)] \in Row
        BY <3>1 DEF Visible, StoresType
      <4>2. QED
        BY <1>4, <3>1, <4>1 DEF Query, HandlersType, Steps
    <3>2. CASE ~Visible(Target(p), call[p].ws)
      BY <1>4, <3>2 DEF Query, HandlersType, Steps, Replies
    <3>3. QED
      BY <3>1, <3>2
  <2>3. QED
    BY <2>1, <2>2
<1>5. CASE Fill(p)
  <2>1. ent[p] \in Row /\ call[p].task \in DOMAIN row
    BY <1>5 DEF Fill, HolderSound, Knows, Holding, HandlersType
  <2>2. DOMAIN cache' \subseteq DOMAIN row' /\ cache' \in [DOMAIN cache' -> Row]
    BY <1>5, <2>1 DEF Fill, StoresType, Put
  <2>3. loose' \subseteq Tasks
    BY <1>5, <2>1 DEF Fill, StoresType
  <2>4. StoresType'
    BY <1>5, <2>2, <2>3 DEF Fill, StoresType
  <2>5. HandlersType'
    BY <1>5 DEF Fill, Proceed, HandlersType, Steps, Replies
  <2>6. QED
    BY <2>4, <2>5
<1>6. QED
  BY <1>1, <1>2, <1>3, <1>4, <1>5

\* The steps that reach the table keep the types.
LEMMA WriteType ==
  ASSUME TypeOK, HolderSound, IdsFresh, NEW p \in Reqs,
         \/ SaveLoad(p) \/ SaveUpdate(p) \/ Remove(p) \/ Insert(p)
  PROVE  TypeOK'
<1> USE DEF TypeOK
<1> DEFINE t == Target(p)
<1>c. call[p] \in Calls /\ call[p].dto \in Dto
  BY CallsType DEF HandlersType
<1>r. ASSUME NEW s \in Tasks, NEW r \in Row, wrote' \subseteq Reqs,
             row' = [row EXCEPT ![s] = r] \/ row' = Put(row, s, r),
             UNCHANGED <<cacheVars, listVars>>
      PROVE  StoresType'
  BY <1>r DEF StoresType, Put
<1>o. ASSUME NEW step \in Steps, Goto(p, step), wrote' \subseteq Reqs,
             \/ UNCHANGED raced \/ Overlap(p),
             UNCHANGED <<outVars, call, ent, page, diff>>
      PROVE  HandlersType'
  <2>1. pc' \in [Reqs -> Steps] /\ reply' \in [Reqs -> Replies]
    BY <1>o DEF HandlersType
  <2>2. raced' \in [Reqs -> BOOLEAN]
    BY <1>o DEF HandlersType, Overlap
  <2>3. QED
    BY <1>o, <2>1, <2>2 DEF HandlersType
<1>1. CASE SaveLoad(p)
  <2>1. StoresType'
    BY <1>1 DEF SaveLoad, StoresType
  <2>2. HandlersType'
    BY <1>1 DEF SaveLoad, HandlersType, Changed, Steps
  <2>3. QED
    BY <2>1, <2>2
<1>2. CASE SaveUpdate(p)
  <2>1. t \in DOMAIN row /\ row[t] \in Row /\ ent[p] \in Row
    BY <1>2 DEF SaveUpdate, HolderSound, Knows, Holding, HandlersType, StoresType
  <2>2. Written(row[t], Assigned(ent[p], call[p].dto, p), diff[p]) \in Row
    BY <2>1, <1>c, AssignedType, WrittenType DEF HandlersType
  <2>3. wrote' \subseteq Reqs
    BY <1>2 DEF SaveUpdate, HandlersType
  <2>4. StoresType'
    BY <1>2, <1>r, <2>1, <2>2, <2>3 DEF SaveUpdate, StoresType
  <2>5. HandlersType'
    BY <1>2, <1>o, <2>3 DEF SaveUpdate, Steps
  <2>6. QED
    BY <2>4, <2>5
<1>3. CASE Remove(p)
  <2>1. t \in DOMAIN row /\ row[t] \in Row
    BY <1>3 DEF Remove, HolderSound, Knows, Holding, StoresType
  <2>2. Removed(row[t]) \in Row
    BY <2>1, RemovedType
  <2>3. wrote' \subseteq Reqs
    BY <1>3 DEF Remove, HandlersType
  <2>4. StoresType'
    BY <1>3, <1>r, <2>1, <2>2, <2>3 DEF Remove, StoresType
  <2>5. HandlersType'
    BY <1>3, <1>o, <2>3 DEF Remove, Steps
  <2>6. QED
    BY <2>4, <2>5
<1>4. CASE Insert(p)
  <2>1. NewRow(call[p]) \in Row
    BY <1>4, <1>c, NewRowType DEF Insert, IdsFresh
  <2>2. t \in Tasks
    BY <1>c, CallsType DEF Call
  <2>3. wrote' \subseteq Reqs
    BY <1>4 DEF Insert, HandlersType
  <2>4. StoresType'
    BY <1>4, <1>r, <2>1, <2>2, <2>3 DEF Insert
  <2>5. HandlersType'
    BY <1>4, <1>o, <2>3 DEF Insert, Steps
  <2>6. QED
    BY <2>4, <2>5
<1>5. QED
  BY <1>1, <1>2, <1>3, <1>4

\* Cache deletes, messages, lists, errors and crashes keep the types.
LEMMA OutputType ==
  ASSUME TypeOK, HolderSound, NEW p \in Reqs,
         \/ Drop(p) \/ DropList(p) \/ Publish(p)
         \/ ListHit(p) \/ ListMiss(p) \/ ListQuery(p) \/ ListFill(p)
         \/ DbError(p) \/ Crash(p)
  PROVE  TypeOK'
<1> USE DEF TypeOK, Steps, Replies
<1>c. /\ call[p] \in Calls /\ call[p].dto \in Dto /\ call[p].op \in Ops
      /\ Target(p) \in Tasks /\ call[p].ws \in Workspaces
  BY CallsType DEF HandlersType, Call
<1>1. CASE Drop(p)
  <2>1. StoresType'
    BY <1>1, <1>c DEF Drop, StoresType, Without, Restrict
  <2>2. QED
    BY <1>1, <2>1 DEF Drop, HandlersType
<1>2. CASE DropList(p)
  <2>1. StoresType'
    BY <1>2, <1>c DEF DropList, StoresType, Without, Restrict
  <2>2. QED
    BY <1>2, <2>1 DEF DropList, HandlersType
<1>3. CASE Publish(p)
  <2>1. Recipient(p) # Null => Recipient(p) \in Users
    <3>1. call[p].op = "create" =>
            Given(call[p].dto.assignedTo, Null) \in Users \cup {Null}
      BY <1>c DEF Dto, Given
    <3>2. call[p].op = "update" /\ Completes(p) =>
            ent[p].createdBy \in Users
      BY <1>3 DEF Publish, HolderSound, Knows, HandlersType, Row
    <3>3. call[p].op = "update" /\ Reassigns(p) =>
            call[p].dto.assignedTo \in Users
      BY <1>c DEF Reassigns, Dto
    <3>4. QED
      BY <3>1, <3>2, <3>3 DEF Recipient
  <2>2. told' \in [Reqs -> Users \cup {Null}]
    BY <1>3, <2>1 DEF Publish, HandlersType
  <2>3. heard' \subseteq Reqs
    BY <1>3 DEF Publish, HandlersType
  <2>4. pc' \in [Reqs -> Steps] /\ reply' \in [Reqs -> Replies]
    BY <1>3 DEF Publish, HandlersType
  <2>5. QED
    BY <1>3, <2>2, <2>3, <2>4 DEF Publish, HandlersType, StoresType
<1>4. CASE ListHit(p)
  <2>1. page' \in [Reqs -> Page]
    BY <1>4 DEF ListHit, StoresType, HandlersType
  <2>2. QED
    BY <1>4, <2>1 DEF ListHit, StoresType, HandlersType
<1>5. CASE ListMiss(p)
  BY <1>5 DEF ListMiss, StoresType, HandlersType
<1>6. CASE ListQuery(p)
  <2>1. VisiblePage(call[p].ws) \in Page
    BY DEF VisiblePage, Visible, Page, StoresType
  <2>2. page' \in [Reqs -> Page] /\ raced' \in [Reqs -> BOOLEAN]
    BY <1>6, <2>1 DEF ListQuery, HandlersType
  <2>3. QED
    BY <1>6, <2>2 DEF ListQuery, StoresType, HandlersType
<1>7. CASE ListFill(p)
  <2>1. StoresType'
    BY <1>7, <1>c DEF ListFill, StoresType, HandlersType, Put
  <2>2. QED
    BY <1>7, <2>1 DEF ListFill, HandlersType
<1>8. CASE DbError(p)
  BY <1>8 DEF DbError, StoresType, HandlersType
<1>9. CASE Crash(p)
  <2>1. StoresType'
    BY <1>9, <1>c DEF Crash, StoresType
  <2>2. QED
    BY <1>9, <2>1 DEF Crash, HandlersType
<1>10. QED
  BY <1>1, <1>2, <1>3, <1>4, <1>5, <1>6, <1>7, <1>8, <1>9

\* Expiring a cached entry or page keeps the types.
LEMMA ExpiryType ==
  ASSUME TypeOK,
         \/ \E t \in Tasks : Expire(t)
         \/ \E w \in Workspaces : ExpireList(w)
         \/ UNCHANGED vars
  PROVE  TypeOK'
<1> USE DEF TypeOK
<1>1. ASSUME NEW t \in Tasks, Expire(t) PROVE TypeOK'
  BY <1>1 DEF Expire, StoresType, HandlersType, Without, Restrict
<1>2. ASSUME NEW w \in Workspaces, ExpireList(w) PROVE TypeOK'
  BY <1>2 DEF ExpireList, StoresType, HandlersType, Without, Restrict
<1>3. CASE UNCHANGED vars
  BY <1>3 DEF vars, StoresType, HandlersType
<1>4. QED
  BY <1>1, <1>2, <1>3
---------------------------------------------------------------------------
(* What a step of handler p leaves alone *)

StepOf(p) == Start(p) \/ Handle(p) \/ DbError(p) \/ Crash(p)

Same(q) == /\ pc'[q] = pc[q] /\ call'[q] = call[q] /\ ent'[q] = ent[q]
           /\ page'[q] = page[q] /\ diff'[q] = diff[q]

\* No row disappears or changes its workspace; only the row a save or a
\* softRemove is about changes.
KeepsRows(p) ==
  /\ DOMAIN row \subseteq DOMAIN row'
  /\ \A t \in DOMAIN row : row'[t].ws = row[t].ws
  /\ \A t \in DOMAIN row : t # Target(p) => row'[t] = row[t]

\* A handler's step leaves the other handlers where they were.
LEMMA OthersSame ==
  ASSUME TypeOK, NEW p \in Reqs, StepOf(p), NEW q \in Reqs, q # p
  PROVE  Same(q)
<1> USE DEF TypeOK, HandlersType, Same
<1>1. CASE Start(p) \/ LookupHit(p) \/ LookupMiss(p) \/ Query(p) \/ Fill(p)
  BY <1>1 DEF Start, LookupHit, LookupMiss, Query, Fill, Proceed
<1>2. CASE SaveLoad(p) \/ SaveUpdate(p) \/ Remove(p) \/ Insert(p)
  BY <1>2 DEF SaveLoad, SaveUpdate, Remove, Insert
<1>3. CASE Drop(p) \/ DropList(p) \/ Publish(p) \/ DbError(p) \/ Crash(p)
  BY <1>3 DEF Drop, DropList, Publish, DbError, Crash
<1>4. CASE ListHit(p) \/ ListMiss(p) \/ ListQuery(p) \/ ListFill(p)
  BY <1>4 DEF ListHit, ListMiss, ListQuery, ListFill
<1>5. QED
  BY <1>1, <1>2, <1>3, <1>4 DEF StepOf, Handle

\* No step loses a task, moves one to another workspace, or writes to another
\* row than its target.
LEMMA RowsKept ==
  ASSUME TypeOK, HolderSound, IdsFresh, NEW p \in Reqs, StepOf(p)
  PROVE  KeepsRows(p)
<1> USE DEF TypeOK, KeepsRows
<1>1. CASE SaveUpdate(p)
  <2>1. Target(p) \in DOMAIN row /\ row[Target(p)] \in Row /\ ent[p] \in Row
    BY <1>1 DEF SaveUpdate, HolderSound, Knows, Holding, StoresType, HandlersType
  <2>2. Written(row[Target(p)], Assigned(ent[p], call[p].dto, p), diff[p]).ws
          = row[Target(p)].ws
    BY <2>1, CallsType, AssignedType, WrittenType DEF HandlersType
  <2>3. QED
    BY <1>1, <2>1, <2>2 DEF SaveUpdate, StoresType
<1>2. CASE Remove(p)
  <2>1. Target(p) \in DOMAIN row /\ row[Target(p)] \in Row
    BY <1>2 DEF Remove, HolderSound, Knows, Holding, StoresType
  <2>2. QED
    BY <1>2, <2>1, RemovedType DEF Remove, StoresType
<1>3. CASE Insert(p)
  BY <1>3 DEF Insert, IdsFresh, Put
<1>4. CASE Start(p) \/ LookupHit(p) \/ LookupMiss(p) \/ Query(p) \/ Fill(p)
           \/ SaveLoad(p)
  BY <1>4 DEF Start, LookupHit, LookupMiss, Query, Fill, SaveLoad
<1>5. CASE Drop(p) \/ DropList(p) \/ Publish(p) \/ DbError(p) \/ Crash(p)
           \/ ListHit(p) \/ ListMiss(p) \/ ListQuery(p) \/ ListFill(p)
  BY <1>5 DEF Drop, DropList, Publish, DbError, Crash, ListHit, ListMiss,
              ListQuery, ListFill
<1>6. QED
  BY <1>1, <1>2, <1>3, <1>4, <1>5 DEF StepOf, Handle
---------------------------------------------------------------------------
(* What a handler knows is preserved by its own steps and by the others' *)

Sound == TypeOK /\ CacheSound /\ HolderSound /\ IdsFresh /\ TenantOnly

\* What a handler knows of its task after a step of findById is true.
LEMMA KnowsAfterFindById ==
  ASSUME Sound, NEW p \in Reqs,
         LookupHit(p) \/ LookupMiss(p) \/ Query(p) \/ Fill(p)
  PROVE  Knows(p)'
<1> USE DEF Sound, TypeOK, HandlersType, StoresType, HolderSound, Holding
<1>1. CASE LookupHit(p)
  <2>1. /\ Target(p) \in DOMAIN row /\ row[Target(p)].ws = call[p].ws
        /\ cache[Target(p)] \in Row /\ ~cache[Target(p)].deleted
    BY <1>1 DEF LookupHit, HitAllowed, CacheSound
  <2>2. cache[Target(p)] # Null
    BY <2>1, DataAssumption
  <2>3. ent'[p] = cache[Target(p)] /\ UNCHANGED <<row, call>>
    BY <1>1 DEF LookupHit
  <2>4. pc'[p] \notin {"idle", "fill", "store", "drop", "dropList", "publish"}
    BY <1>1 DEF LookupHit, Proceed
  <2>5. pc'[p] = "load" => call[p].op = "update"
                           /\ ~VersionMismatch(cache[Target(p)], call[p].dto)
    BY <1>1 DEF LookupHit, Proceed
  <2>6. QED
    BY <2>1, <2>2, <2>3, <2>4, <2>5 DEF Knows, VersionMismatch
<1>2. CASE LookupMiss(p)
  BY <1>2 DEF LookupMiss, Knows
<1>3. CASE Query(p)
  <2>1. CASE Visible(Target(p), call[p].ws)
    <3>1. pc'[p] = "fill" /\ ent'[p] = row[Target(p)] /\ UNCHANGED <<row, call>>
      BY <1>3, <2>1 DEF Query
    <3>2. row[Target(p)] # Null
      BY <2>1, DataAssumption DEF Visible
    <3>3. QED
      BY <2>1, <3>1, <3>2 DEF Visible, Knows
  <2>2. CASE ~Visible(Target(p), call[p].ws)
    BY <1>3, <2>2 DEF Query, Knows
  <2>3. QED
    BY <2>1, <2>2
<1>4. CASE Fill(p)
  <2>1. /\ pc'[p] \notin {"idle", "fill", "store", "drop", "dropList", "publish"}
        /\ UNCHANGED <<row, call, ent>>
        /\ pc[p] = "fill"
    BY <1>4 DEF Fill, Proceed
  <2>2. pc'[p] = "load" => call[p].op = "update"
                           /\ ~VersionMismatch(ent[p], call[p].dto)
    BY <1>4 DEF Fill, Proceed
  <2>3. QED
    BY <2>1, <2>2 DEF Knows, VersionMismatch
<1>5. QED
  BY <1>1, <1>2, <1>3, <1>4

\* The same after any of its steps.
LEMMA KnowsAfterOwnStep ==
  ASSUME Sound, NEW p \in Reqs, StepOf(p)
  PROVE  Knows(p)'
<1> USE DEF Sound, TypeOK, HandlersType, StoresType, HolderSound, Holding
<1>r. KeepsRows(p)
  BY RowsKept
<1>1. CASE Start(p)
  <2>1. pc'[p] \in {"lookup", "listLookup", "insert"}
    BY <1>1, CallsType DEF Start, FirstStep, Call, Ops
  <2>2. QED
    BY <1>1, <2>1 DEF Knows
<1>2. CASE LookupHit(p) \/ LookupMiss(p) \/ Query(p) \/ Fill(p)
  BY <1>2, KnowsAfterFindById
<1>3. CASE SaveLoad(p)
  BY <1>3 DEF SaveLoad, Knows, VersionMismatch
<1>4. CASE SaveUpdate(p) \/ Remove(p)
  <2>1. /\ pc[p] \in Holding /\ pc'[p] = "drop" /\ UNCHANGED <<call, ent>>
    BY <1>4 DEF SaveUpdate, Remove
  <2>2. QED
    BY <1>r, <2>1 DEF Knows, KeepsRows
<1>5. CASE Insert(p)
  <2>1. pc'[p] = "dropList" /\ call'[p].op = "create"
    BY <1>5 DEF Insert, IdsFresh
  <2>2. QED
    BY <2>1 DEF Knows
<1>6. CASE Drop(p) \/ DropList(p)
  BY <1>6 DEF Drop, DropList, Knows
<1>7. CASE ListMiss(p) \/ ListQuery(p)
  BY <1>7 DEF ListMiss, ListQuery, Knows
<1>8. CASE Publish(p) \/ ListHit(p) \/ ListFill(p) \/ DbError(p) \/ Crash(p)
  <2>1. pc'[p] = "done"
    BY <1>8 DEF Publish, ListHit, ListFill, DbError, Crash
  <2>2. QED
    BY <2>1 DEF Knows
<1>9. QED
  BY <1>1, <1>2, <1>3, <1>4, <1>5, <1>6, <1>7, <1>8 DEF StepOf, Handle

\* What handlers know stays true through anyone's step.
LEMMA HoldersStaySound ==
  ASSUME Sound, NEW p \in Reqs, StepOf(p)
  PROVE  HolderSound'
<1> SUFFICES ASSUME NEW q \in Reqs PROVE Knows(q)'
  BY DEF HolderSound
<1>1. CASE q = p
  BY <1>1, KnowsAfterOwnStep
<1>2. CASE q # p
  <2>1. Same(q) /\ KeepsRows(p)
    BY <1>2, OthersSame, RowsKept DEF Sound
  <2>2. Knows(q)
    BY DEF Sound, HolderSound
  <2>3. QED
    BY <2>1, <2>2 DEF Same, KeepsRows, Knows, VersionMismatch
<1>3. QED
  BY <1>1, <1>2

\* The id a create has drawn stays unused and its own.
LEMMA IdsStayFresh ==
  ASSUME Sound, NEW p \in Reqs, StepOf(p)
  PROVE  IdsFresh'
<1> USE DEF Sound, TypeOK, HandlersType
<1>s. \A q \in Reqs : q # p => pc'[q] = pc[q] /\ call'[q] = call[q]
  BY OthersSame DEF Same
<1>1. CASE Start(p)
  <2>1. PICK c \in Calls : /\ c.op = "create" => FreshId(c.task)
                           /\ call' = [call EXCEPT ![p] = c]
                           /\ Goto(p, FirstStep(c.op))
    BY <1>1 DEF Start
  <2>2. c.op \in Ops
    BY CallsType DEF Call
  <2>3. pc'[p] = "insert" => c.op = "create"
    BY <2>1, <2>2 DEF FirstStep, Ops
  <2>4. pc[p] = "idle" /\ row' = row
    BY <1>1 DEF Start
  <2>5. ASSUME NEW q \in Reqs, pc[q] = "insert"
        PROVE  Busy(q) /\ call[q].op = "create"
    BY <2>5 DEF IdsFresh, Busy
  <2>6. QED
    BY <1>s, <2>1, <2>3, <2>4, <2>5 DEF IdsFresh, FreshId
<1>2. CASE Insert(p)
  <2>1. /\ DOMAIN row' = DOMAIN row \cup {Target(p)}
        /\ pc'[p] = "dropList" /\ UNCHANGED call
    BY <1>2 DEF Insert, Put
  <2>2. QED
    BY <1>2, <1>s, <2>1 DEF Insert, IdsFresh
<1>3. CASE StepOf(p) /\ ~Start(p) /\ ~Insert(p)
  <2>1. DOMAIN row' = DOMAIN row /\ UNCHANGED call
    BY <1>3 DEF StepOf, Handle, LookupHit, LookupMiss, Query, Fill, SaveLoad,
                SaveUpdate, Remove, Drop, DropList, Publish, ListHit,
                ListMiss, ListQuery, ListFill, DbError, Crash
  <2>2. pc'[p] # "insert"
    <3>1. CASE LookupHit(p) \/ LookupMiss(p) \/ Query(p) \/ Fill(p)
      BY <3>1 DEF LookupHit, LookupMiss, Query, Fill, Proceed
    <3>2. CASE SaveLoad(p) \/ SaveUpdate(p) \/ Remove(p) \/ Drop(p) \/ DropList(p)
      BY <3>2 DEF SaveLoad, SaveUpdate, Remove, Drop, DropList
    <3>3. CASE Publish(p) \/ ListHit(p) \/ ListMiss(p) \/ ListQuery(p)
               \/ ListFill(p) \/ DbError(p) \/ Crash(p)
      BY <3>3 DEF Publish, ListHit, ListMiss, ListQuery, ListFill, DbError, Crash
    <3>4. QED
      BY <1>3, <3>1, <3>2, <3>3 DEF StepOf, Handle
  <2>3. QED
    BY <1>s, <2>1, <2>2 DEF IdsFresh
<1>4. QED
  BY <1>1, <1>2, <1>3

\* What is cached stays of the workspace of its row.
LEMMA CachesStaySound ==
  ASSUME Sound, NEW p \in Reqs, StepOf(p)
  PROVE  CacheSound'
<1> USE DEF Sound, TypeOK, HandlersType, StoresType
<1>r. KeepsRows(p)
  BY RowsKept
<1>1. CASE Fill(p)
  <2>1. /\ Target(p) \in DOMAIN row /\ ent[p].ws = row[Target(p)].ws
        /\ ~ent[p].deleted
    <3>1. ent[p].ws = call[p].ws
      BY <1>1 DEF Fill, HolderSound, Knows, Holding, TenantOnly
    <3>2. QED
      BY <1>1, <3>1 DEF Fill, HolderSound, Knows, Holding
  <2>2. UNCHANGED <<row, lists>>
    BY <1>1 DEF Fill
  <2>3. cache' = Put(cache, Target(p), ent[p]) \/ cache' = cache
    BY <1>1 DEF Fill
  <2>4. QED
    BY <2>1, <2>2, <2>3 DEF CacheSound, Put
<1>2. CASE ListFill(p)
  <2>1. \A item \in page[p] : item.val.ws = call[p].ws
    BY DEF TenantOnly
  <2>2. /\ lists' = Put(lists, call[p].ws, page[p]) \/ lists' = lists
        /\ UNCHANGED <<row, cache>>
    BY <1>2 DEF ListFill
  <2>3. QED
    BY <2>1, <2>2 DEF CacheSound, Put
<1>3. CASE Drop(p) \/ DropList(p)
  BY <1>3 DEF Drop, DropList, CacheSound, Without, Restrict
<1>4. CASE StepOf(p) /\ UNCHANGED <<cache, lists>>
  BY <1>r, <1>4 DEF KeepsRows, CacheSound
<1>5. CASE Start(p) \/ LookupHit(p) \/ LookupMiss(p) \/ Query(p) \/ SaveLoad(p)
           \/ SaveUpdate(p) \/ Remove(p) \/ Insert(p) \/ Publish(p)
           \/ ListHit(p) \/ ListMiss(p) \/ ListQuery(p) \/ DbError(p) \/ Crash(p)
  BY <1>4, <1>5 DEF Start, LookupHit, LookupMiss, Query, SaveLoad, SaveUpdate,
                    Remove, Insert, Publish, ListHit, ListMiss, ListQuery,
                    DbError, Crash, StepOf, Handle
<1>6. QED
  BY <1>1, <1>2, <1>3, <1>5 DEF StepOf, Handle

TenantOK(q) == /\ ent[q] # Null => ent[q].ws = call[q].ws
               /\ \A item \in page[q] : item.val.ws = call[q].ws

\* What handlers hold stays of the workspace of their request.
LEMMA TenantsStayApart ==
  ASSUME Sound, NEW p \in Reqs, StepOf(p)
  PROVE  TenantOnly'
<1> USE DEF Sound, TypeOK, HandlersType, StoresType
<1> SUFFICES ASSUME NEW q \in Reqs PROVE TenantOK(q)'
  BY DEF TenantOnly, TenantOK
<1>t. TenantOK(q)
  BY DEF TenantOnly, TenantOK
<1>1. CASE q # p
  BY <1>1, <1>t, OthersSame DEF TenantOK, Same
<1>2. CASE q = p
  <2>1. CASE Start(p)
    <3>1. ent'[p] = Null /\ page'[p] = {}
      BY <2>1 DEF Start, HolderSound, Knows
    <3>2. QED
      BY <1>2, <3>1 DEF TenantOK
  <2>2. CASE LookupHit(p)
    <3>1. /\ ent'[p] = cache[Target(p)] /\ cache[Target(p)].ws = call[p].ws
          /\ UNCHANGED <<call, page>>
      BY <2>2 DEF LookupHit, HitAllowed
    <3>2. QED
      BY <1>2, <1>t, <3>1 DEF TenantOK
  <2>3. CASE Query(p)
    <3>1. \/ ent'[p] = ent[p]
          \/ ent'[p] = row[Target(p)] /\ row[Target(p)].ws = call[p].ws
      BY <2>3 DEF Query, Visible
    <3>2. UNCHANGED <<call, page>>
      BY <2>3 DEF Query
    <3>3. QED
      BY <1>2, <1>t, <3>1, <3>2 DEF TenantOK
  <2>4. CASE ListHit(p)
    <3>1. /\ call[p].ws \in DOMAIN lists /\ page'[p] = lists[call[p].ws]
          /\ UNCHANGED <<call, ent>>
      BY <2>4 DEF ListHit
    <3>2. QED
      BY <1>2, <1>t, <3>1 DEF TenantOK, CacheSound
  <2>5. CASE ListQuery(p)
    <3>1. /\ page'[p] = VisiblePage(call[p].ws)
          /\ UNCHANGED <<call, ent>>
      BY <2>5 DEF ListQuery
    <3>2. \A item \in VisiblePage(call[p].ws) : item.val.ws = call[p].ws
      BY DEF VisiblePage, Visible
    <3>3. QED
      BY <1>2, <1>t, <3>1, <3>2 DEF TenantOK
  <2>6. CASE LookupMiss(p) \/ Fill(p) \/ SaveLoad(p) \/ SaveUpdate(p) \/ Remove(p)
             \/ Insert(p) \/ Drop(p) \/ DropList(p) \/ Publish(p) \/ ListMiss(p)
             \/ ListFill(p) \/ DbError(p) \/ Crash(p)
    <3>1. UNCHANGED <<call, ent, page>>
      BY <2>6 DEF LookupMiss, Fill, SaveLoad, SaveUpdate, Remove, Insert, Drop,
                  DropList, Publish, ListMiss, ListFill, DbError, Crash
    <3>2. QED
      BY <1>t, <3>1 DEF TenantOK
  <2>7. QED
    BY <2>1, <2>2, <2>3, <2>4, <2>5, <2>6 DEF StepOf, Handle
<1>3. QED
  BY <1>1, <1>2

\* The typed part of the invariant holds initially.
LEMMA InitSound == Init => Sound
<1> SUFFICES ASSUME Init PROVE Sound
  OBVIOUS
<1>1. TypeOK
  BY InitType
<1>2. CacheSound /\ TenantOnly
  BY DEF Init, CacheSound, TenantOnly
<1>3. HolderSound /\ IdsFresh
  BY DEF Init, HolderSound, Knows, Holding, IdsFresh
<1>4. QED
  BY <1>1, <1>2, <1>3 DEF Sound

ExpiryStep == \/ \E t \in Tasks : Expire(t)
              \/ \E w \in Workspaces : ExpireList(w)
              \/ UNCHANGED vars

\* A step is a handler's, or an expiry, or changes nothing.
LEMMA StepCases ==
  ASSUME [Next]_vars
  PROVE  (\E p \in Reqs : StepOf(p)) \/ ExpiryStep
BY DEF Next, StepOf, ExpiryStep, Quiet

\* Expiry touches the caches only.
LEMMA ExpiryFrame ==
  ASSUME ExpiryStep
  PROVE  /\ UNCHANGED <<row, call, pc, ent, page, diff, raced>>
         /\ DOMAIN cache' \subseteq DOMAIN cache
         /\ \A t \in DOMAIN cache' : cache'[t] = cache[t]
         /\ DOMAIN lists' \subseteq DOMAIN lists
         /\ \A w \in DOMAIN lists' : lists'[w] = lists[w]
<1>1. ASSUME NEW t \in Tasks, Expire(t)
      PROVE  /\ UNCHANGED <<row, call, pc, ent, page, diff, raced, lists>>
             /\ cache' = Without(cache, t)
  BY <1>1 DEF Expire
<1>2. ASSUME NEW w \in Workspaces, ExpireList(w)
      PROVE  /\ UNCHANGED <<row, call, pc, ent, page, diff, raced, cache>>
             /\ lists' = Without(lists, w)
  BY <1>2 DEF ExpireList
<1>3. CASE UNCHANGED vars
  BY <1>3 DEF vars
<1>4. QED
  BY <1>1, <1>2, <1>3 DEF ExpiryStep, Without, Restrict

\* Every step keeps the typed part of the invariant.
LEMMA NextSound == Sound /\ [Next]_vars => Sound'
<1> SUFFICES ASSUME Sound, [Next]_vars PROVE Sound'
  OBVIOUS
<1>1. ASSUME NEW p \in Reqs, StepOf(p) PROVE Sound'
  <2>1. TypeOK'
    BY <1>1, LookupType, WriteType, OutputType DEF StepOf, Handle, Sound
  <2>2. QED
    BY <1>1, <2>1, HoldersStaySound, IdsStayFresh, CachesStaySound,
       TenantsStayApart DEF Sound
<1>2. CASE ExpiryStep
  <2>1. TypeOK'
    BY <1>2, ExpiryType DEF ExpiryStep, Sound
  <2>2. CacheSound'
    BY <1>2, ExpiryFrame DEF Sound, CacheSound
  <2>3. HolderSound' /\ IdsFresh' /\ TenantOnly'
    BY <1>2, ExpiryFrame
       DEF Sound, HolderSound, Knows, IdsFresh, TenantOnly, VersionMismatch
  <2>4. QED
    BY <2>1, <2>2, <2>3 DEF Sound
<1>3. QED
  BY <1>1, <1>2, StepCases

\* It is an invariant of the service.
LEMMA AlwaysSound == Spec => []Sound
BY InitSound, NextSound, PTL DEF Spec

\* The table, the caches and every handler hold values of the code's types.
THEOREM TypeCorrect == Spec => []TypeOK
BY AlwaysSound, PTL DEF Sound

\* No request, cached or not, is ever served a task of another workspace.
THEOREM TenantsIsolated == Spec => []TenantOnly
BY AlwaysSound, PTL DEF Sound
---------------------------------------------------------------------------
(* Commits and what they overlap *)

Commits(p) == (SaveUpdate(p) \/ Remove(p) \/ Insert(p)) /\ Overlap(p)

\* A step either commits, and then marks the handlers it overtakes, or leaves
\* the table and the other handlers' marks alone.
LEMMA CommitOrNot ==
  ASSUME Sound, NEW p \in Reqs, StepOf(p)
  PROVE  \/ Commits(p)
         \/ row' = row /\ \A q \in Reqs : q # p => raced'[q] = raced[q]
<1> USE DEF Sound, TypeOK, HandlersType, StoresType
<1>1. CASE SaveUpdate(p)
  <2>1. CASE diff[p] = {}
    <3>1. Target(p) \in DOMAIN row /\ row[Target(p)] \in Row /\ ent[p] \in Row
      BY <1>1 DEF SaveUpdate, HolderSound, Knows, Holding
    <3>2. Assigned(ent[p], call[p].dto, p) \in Row
      BY <3>1, CallsType, AssignedType
    <3>3. Written(row[Target(p)], Assigned(ent[p], call[p].dto, p), {})
            = row[Target(p)]
      BY <3>1, <3>2, WrittenNothing
    <3>4. row' = [row EXCEPT ![Target(p)] = row[Target(p)]]
      BY <1>1, <2>1, <3>3 DEF SaveUpdate
    <3>5. row' = row
      BY <3>1, <3>4
    <3>6. UNCHANGED raced
      BY <1>1, <2>1 DEF SaveUpdate
    <3>7. QED
      BY <3>5, <3>6
  <2>2. CASE diff[p] # {}
    BY <1>1, <2>2 DEF SaveUpdate, Commits
  <2>3. QED
    BY <2>1, <2>2
<1>2. CASE Remove(p) \/ Insert(p)
  BY <1>2 DEF Remove, Insert, Commits
<1>3. CASE Start(p) \/ LookupHit(p) \/ LookupMiss(p) \/ Query(p) \/ Fill(p)
           \/ SaveLoad(p)
  BY <1>3 DEF Start, LookupHit, LookupMiss, Query, Fill, SaveLoad
<1>4. CASE Drop(p) \/ DropList(p) \/ Publish(p) \/ DbError(p) \/ Crash(p)
           \/ ListHit(p) \/ ListMiss(p) \/ ListQuery(p) \/ ListFill(p)
  BY <1>4 DEF Drop, DropList, Publish, DbError, Crash, ListHit, ListMiss,
              ListQuery, ListFill
<1>5. QED
  BY <1>1, <1>2, <1>3, <1>4 DEF StepOf, Handle

\* Before and after a commit the row is of the handler's workspace.
LEMMA CommitInWorkspace ==
  ASSUME Sound, NEW p \in Reqs, Commits(p)
  PROVE  /\ Target(p) \in DOMAIN row => row[Target(p)].ws = call[p].ws
         /\ row'[Target(p)].ws = call[p].ws
         /\ DOMAIN row' = DOMAIN row \cup {Target(p)}
         /\ call' = call
<1> USE DEF Sound, TypeOK, HandlersType, StoresType
<1>k. KeepsRows(p)
  BY RowsKept DEF Commits, StepOf, Handle
<1>1. CASE SaveUpdate(p)
  <2>1. Target(p) \in DOMAIN row /\ row[Target(p)].ws = call[p].ws
    BY <1>1 DEF SaveUpdate, HolderSound, Knows, Holding
  <2>2. DOMAIN row' = DOMAIN row /\ call' = call
    BY <1>1 DEF SaveUpdate
  <2>3. QED
    BY <1>k, <2>1, <2>2 DEF KeepsRows
<1>2. CASE Remove(p)
  <2>1. Target(p) \in DOMAIN row /\ row[Target(p)].ws = call[p].ws
    BY <1>2 DEF Remove, HolderSound, Knows, Holding
  <2>2. DOMAIN row' = DOMAIN row /\ call' = call
    BY <1>2 DEF Remove
  <2>3. QED
    BY <1>k, <2>1, <2>2 DEF KeepsRows
<1>3. CASE Insert(p)
  <2>1. call[p].op = "create" /\ Target(p) \notin DOMAIN row
    BY <1>3 DEF Insert, IdsFresh
  <2>2. NewRow(call[p]).ws = call[p].ws
    BY <2>1, NewRowType
  <2>3. QED
    BY <1>3, <2>1, <2>2 DEF Insert, Put
<1>4. QED
  BY <1>1, <1>2, <1>3 DEF Commits

\* A commit shows on the pages of its own workspace only.
LEMMA PageOfOthers ==
  ASSUME Sound, NEW p \in Reqs, Commits(p), NEW w \in Workspaces, w # call[p].ws
  PROVE  VisiblePage(w)' = VisiblePage(w)
<1>1. KeepsRows(p)
  BY RowsKept DEF Commits, StepOf, Handle, Sound
<1>2. ASSUME NEW t \in Tasks
      PROVE  /\ Visible(t, w)' <=> Visible(t, w)
             /\ Visible(t, w) => row'[t] = row[t]
  <2>1. CASE t = Target(p)
    BY <2>1, CommitInWorkspace DEF Visible
  <2>2. CASE t # Target(p)
    BY <1>1, <2>2, CommitInWorkspace DEF Visible, KeepsRows
  <2>3. QED
    BY <2>1, <2>2
<1>3. QED
  BY <1>2 DEF VisiblePage
---------------------------------------------------------------------------
(* What an unmarked handler holds is current *)

\* A handler's own step keeps what it holds current, or marks it overtaken.
LEMMA OwnStaysCurrent ==
  ASSUME Sound, HeldFresh, NEW p \in Reqs, StepOf(p)
  PROVE  raced'[p] \/ Current(p)'
<1> USE DEF Sound, TypeOK, HandlersType, StoresType, Holding
<1>c. raced[p] \/ Current(p)
  BY DEF HeldFresh
<1>1. CASE LookupHit(p)
  <2>1. /\ raced'[p] = (cache[Target(p)] # row[Target(p)])
        /\ ent'[p] = cache[Target(p)]
        /\ pc'[p] \notin {"store", "listFill"}
        /\ UNCHANGED <<row, call>>
    BY <1>1 DEF LookupHit, Proceed
  <2>2. QED
    BY <2>1 DEF Current
<1>2. CASE Query(p)
  <2>1. CASE Visible(Target(p), call[p].ws)
    BY <1>2, <2>1 DEF Query, Current
  <2>2. CASE ~Visible(Target(p), call[p].ws)
    BY <1>2, <2>2 DEF Query, Current
  <2>3. QED
    BY <2>1, <2>2
<1>3. CASE Fill(p)
  <2>1. /\ pc[p] = "fill" /\ pc'[p] \notin {"store", "listFill"}
        /\ UNCHANGED <<row, call, ent, raced>>
    BY <1>3 DEF Fill, Proceed
  <2>2. QED
    BY <1>c, <2>1 DEF Current
<1>4. CASE SaveLoad(p)
  <2>1. /\ pc[p] = "load" /\ pc'[p] = "store"
        /\ UNCHANGED <<row, call, ent, raced>>
        /\ diff'[p] = Changed(Assigned(ent[p], call[p].dto, p), row[Target(p)])
    BY <1>4 DEF SaveLoad
  <2>2. QED
    BY <1>c, <2>1 DEF Current
<1>5. CASE ListQuery(p)
  <2>1. /\ pc'[p] = "listFill" /\ UNCHANGED <<row, call>>
        /\ page'[p] = VisiblePage(call[p].ws)
    BY <1>5 DEF ListQuery
  <2>2. VisiblePage(call[p].ws)' = VisiblePage(call[p].ws)
    BY <2>1 DEF VisiblePage, Visible
  <2>3. QED
    BY <2>1, <2>2 DEF Current
<1>6. CASE Start(p)
  <2>1. pc'[p] \in {"lookup", "listLookup", "insert"}
    BY <1>6, CallsType DEF Start, FirstStep, Call, Ops
  <2>2. QED
    BY <2>1 DEF Current
<1>7. CASE LookupMiss(p) \/ SaveUpdate(p) \/ Remove(p) \/ Insert(p) \/ Drop(p)
           \/ DropList(p) \/ Publish(p) \/ ListHit(p) \/ ListMiss(p)
           \/ ListFill(p) \/ DbError(p) \/ Crash(p)
  <2>1. pc'[p] \in {"query", "drop", "dropList", "publish", "listQuery", "done"}
    BY <1>7 DEF LookupMiss, SaveUpdate, Remove, Insert, Drop, DropList, Publish,
                ListHit, ListMiss, ListFill, DbError, Crash
  <2>2. QED
    BY <2>1 DEF Current
<1>8. QED
  BY <1>1, <1>2, <1>3, <1>4, <1>5, <1>6, <1>7 DEF StepOf, Handle

\* So does another handler's step.
LEMMA OthersStayCurrent ==
  ASSUME Sound, HeldFresh, NEW p \in Reqs, StepOf(p), NEW q \in Reqs, q # p
  PROVE  raced'[q] \/ Current(q)'
<1> USE DEF Sound, TypeOK, HandlersType, StoresType, Holding
<1>s. Same(q) /\ KeepsRows(p)
  BY OthersSame, RowsKept
<1>c. raced[q] \/ Current(q)
  BY DEF HeldFresh
<1>w. call[q].ws \in Workspaces
  BY CallsType DEF Call
<1>1. CASE Commits(p)
  <2>1. CASE \/ pc[q] \in Holding /\ Target(q) = Target(p)
             \/ pc[q] = "listFill" /\ call[q].ws = call[p].ws
             \/ raced[q]
    BY <1>1, <2>1 DEF Commits, Overlap
  <2>2. CASE pc[q] \in Holding /\ Target(q) # Target(p) /\ ~raced[q]
    <3>1. Target(q) \in DOMAIN row
      BY <2>2 DEF HolderSound, Knows
    <3>2. row'[Target(q)] = row[Target(q)]
      BY <1>s, <2>2, <3>1 DEF KeepsRows
    <3>3. QED
      BY <1>s, <1>c, <2>2, <3>2 DEF Current, Same
  <2>3. CASE pc[q] = "listFill" /\ call[q].ws # call[p].ws /\ ~raced[q]
    <3>1. VisiblePage(call[q].ws)' = VisiblePage(call[q].ws)
      <4>1. call'[q].ws = call[q].ws
        BY <1>s DEF Same
      <4>2. \A w \in Workspaces : w # call[p].ws =>
              VisiblePage(w)' = VisiblePage(w)
        BY <1>1, PageOfOthers
      <4>3. QED
        BY <1>w, <2>3, <4>1, <4>2 DEF VisiblePage, Visible
    <3>2. QED
      BY <1>s, <1>c, <2>3, <3>1 DEF Current, Same
  <2>4. CASE pc[q] \notin Holding \cup {"listFill"}
    BY <1>s, <2>4 DEF Current, Same
  <2>5. QED
    BY <2>1, <2>2, <2>3, <2>4
<1>2. CASE row' = row /\ raced'[q] = raced[q]
  <2>1. VisiblePage(call[q].ws)' = VisiblePage(call[q].ws)
    BY <1>2, <1>s DEF VisiblePage, Visible, Same
  <2>2. QED
    BY <1>2, <1>s, <1>c, <2>1 DEF Current, Same
<1>3. QED
  BY <1>1, <1>2, CommitOrNot

\* So does every step.
LEMMA NextHeldFresh == Sound /\ HeldFresh /\ [Next]_vars => HeldFresh'
<1> SUFFICES ASSUME Sound, HeldFresh, [Next]_vars, NEW q \in Reqs
             PROVE  raced'[q] \/ Current(q)'
  BY DEF HeldFresh
<1>1. ASSUME NEW p \in Reqs, StepOf(p) PROVE raced'[q] \/ Current(q)'
  BY <1>1, OwnStaysCurrent, OthersStayCurrent
<1>2. CASE ExpiryStep
  <2>1. UNCHANGED <<row, call, pc, ent, page, diff, raced>>
    BY <1>2, ExpiryFrame
  <2>2. raced[q] \/ Current(q)
    BY DEF HeldFresh
  <2>3. QED
    BY <2>1, <2>2 DEF Current, VisiblePage, Visible
<1>3. QED
  BY <1>1, <1>2, StepCases
---------------------------------------------------------------------------
(* Cached entities *)

EntryOK(t) == \/ cache[t] = row[t]
              \/ t \in loose
              \/ \E q \in Reqs : pc[q] = "drop" /\ Target(q) = t

\* A handler's step keeps cached entities fresh, or leaves a reason.
LEMMA StepEntryFresh ==
  ASSUME Sound, HeldFresh, EntryFresh, NEW p \in Reqs, StepOf(p),
         NEW t \in DOMAIN cache'
  PROVE  EntryOK(t)'
<1> USE DEF Sound, TypeOK, HandlersType, StoresType
<1>s. \A q \in Reqs : q # p => Same(q)
  BY OthersSame
<1>k. KeepsRows(p)
  BY RowsKept
<1>e. t \in DOMAIN cache => EntryOK(t)
  BY DEF EntryFresh, EntryOK
<1>1. CASE Fill(p)
  <2>1. row' = row /\ pc[p] = "fill" /\ UNCHANGED <<call, ent, raced>>
    BY <1>1 DEF Fill
  <2>2. CASE cache' = Put(cache, Target(p), ent[p])
             /\ loose' = IF raced[p] THEN loose \cup {Target(p)}
                         ELSE loose \ {Target(p)}
    <3>1. CASE t = Target(p)
      <4>1. raced[p] \/ ent[p] = row[t]
        BY <2>1, <3>1 DEF HeldFresh, Current, Holding
      <4>2. QED
        BY <2>1, <2>2, <3>1, <4>1 DEF Put, EntryOK
    <3>2. CASE t # Target(p)
      <4>1. t \in DOMAIN cache /\ cache'[t] = cache[t]
        BY <2>2, <3>2 DEF Put
      <4>2. CASE \E q \in Reqs : pc[q] = "drop" /\ Target(q) = t
        BY <4>2, <1>s, <2>1 DEF EntryOK, Same
      <4>3. QED
        BY <1>e, <2>1, <2>2, <3>2, <4>1, <4>2 DEF EntryOK
    <3>3. QED
      BY <3>1, <3>2
  <2>3. CASE UNCHANGED cacheVars
    <3>1. CASE \E q \in Reqs : pc[q] = "drop" /\ Target(q) = t
      BY <3>1, <1>s, <2>1 DEF EntryOK, Same
    <3>2. QED
      BY <1>e, <2>1, <2>3, <3>1 DEF EntryOK
  <2>4. QED
    BY <1>1, <2>2, <2>3 DEF Fill
<1>2. CASE Drop(p)
  <2>1. row' = row /\ call' = call
    BY <1>2 DEF Drop
  <2>2. /\ t \in DOMAIN cache /\ cache'[t] = cache[t]
        /\ t = Target(p) => t \in loose'
        /\ t # Target(p) /\ t \in loose => t \in loose'
    BY <1>2 DEF Drop, Without, Restrict
  <2>3. CASE t = Target(p)
    BY <2>2, <2>3 DEF EntryOK
  <2>4. CASE t # Target(p)
    <3>1. CASE \E q \in Reqs : pc[q] = "drop" /\ Target(q) = t
      BY <3>1, <1>s, <2>4 DEF EntryOK, Same
    <3>2. QED
      BY <1>e, <2>1, <2>2, <2>4, <3>1 DEF EntryOK
  <2>5. QED
    BY <2>3, <2>4
<1>3. CASE Crash(p)
  <2>1. UNCHANGED <<row, cache, call>> /\ loose \subseteq loose'
    BY <1>3 DEF Crash
  <2>2. CASE \E q \in Reqs : q # p /\ pc[q] = "drop" /\ Target(q) = t
    BY <2>2, <1>s DEF EntryOK, Same
  <2>3. CASE pc[p] = "drop" /\ Target(p) = t
    BY <1>3, <2>3 DEF Crash, EntryOK
  <2>4. QED
    BY <1>e, <2>1, <2>2, <2>3 DEF EntryOK
<1>4. CASE SaveUpdate(p) \/ Remove(p)
  <2>1. UNCHANGED <<cache, loose, call>> /\ pc'[p] = "drop"
    BY <1>4 DEF SaveUpdate, Remove
  <2>2. CASE t = Target(p)
    BY <2>1, <2>2 DEF EntryOK
  <2>3. CASE t # Target(p)
    <3>1. row'[t] = row[t]
      BY <1>k, <2>1, <2>3 DEF KeepsRows
    <3>2. CASE \E q \in Reqs : pc[q] = "drop" /\ Target(q) = t
      BY <3>2, <1>s, <2>3 DEF EntryOK, Same
    <3>3. QED
      BY <1>e, <2>1, <3>1, <3>2 DEF EntryOK
  <2>4. QED
    BY <2>2, <2>3
<1>5. CASE Insert(p)
  <2>1. UNCHANGED <<cache, loose, call>> /\ pc[p] = "insert"
    BY <1>5 DEF Insert
  <2>2. row'[t] = row[t]
    BY <1>k, <2>1 DEF KeepsRows, IdsFresh
  <2>3. CASE \E q \in Reqs : pc[q] = "drop" /\ Target(q) = t
    BY <2>1, <2>3, <1>s DEF EntryOK, Same
  <2>4. QED
    BY <1>e, <2>1, <2>2, <2>3 DEF EntryOK
<1>6. CASE Start(p) \/ LookupHit(p) \/ LookupMiss(p) \/ Query(p) \/ SaveLoad(p)
           \/ DropList(p) \/ Publish(p) \/ ListHit(p) \/ ListMiss(p)
           \/ ListQuery(p) \/ ListFill(p) \/ DbError(p)
  <2>1. UNCHANGED <<row, cache, loose>> /\ pc[p] # "drop"
    BY <1>6 DEF Start, LookupHit, LookupMiss, Query, SaveLoad, DropList, Publish,
                ListHit, ListMiss, ListQuery, ListFill, DbError
  <2>2. CASE \E q \in Reqs : pc[q] = "drop" /\ Target(q) = t
    BY <2>1, <2>2, <1>s DEF EntryOK, Same
  <2>3. QED
    BY <1>e, <2>1, <2>2 DEF EntryOK
<1>7. QED
  BY <1>1, <1>2, <1>3, <1>4, <1>5, <1>6 DEF StepOf, Handle

\* So does every step.
LEMMA NextEntryFresh ==
  Sound /\ HeldFresh /\ EntryFresh /\ [Next]_vars => EntryFresh'
<1> SUFFICES ASSUME Sound, HeldFresh, EntryFresh, [Next]_vars,
                    NEW t \in DOMAIN cache'
             PROVE  EntryOK(t)'
  BY DEF EntryFresh, EntryOK
<1>1. ASSUME NEW p \in Reqs, StepOf(p) PROVE EntryOK(t)'
  BY <1>1, StepEntryFresh
<1>2. CASE ExpiryStep
  <2>1. t \in DOMAIN cache /\ cache'[t] = cache[t] /\ UNCHANGED <<row, call, pc>>
    BY <1>2, ExpiryFrame
  <2>2. t \in loose => t \in loose'
    BY <1>2 DEF ExpiryStep, Expire, ExpireList, Without, Restrict, vars
  <2>3. QED
    BY <2>1, <2>2 DEF EntryFresh, EntryOK
<1>3. QED
  BY <1>1, <1>2, StepCases
---------------------------------------------------------------------------
(* Cached pages *)

Pending(q, w) == pc[q] \in {"drop", "dropList"} /\ call[q].ws = w

PageOK(w) == \/ lists[w] = VisiblePage(w)
             \/ w \in looseLists
             \/ \E q \in Reqs : Pending(q, w)

\* A handler's step keeps the cached page fresh, or leaves a reason.
LEMMA StepListFresh ==
  ASSUME Sound, HeldFresh, ListFresh, NEW p \in Reqs, StepOf(p),
         NEW w \in DOMAIN lists'
  PROVE  PageOK(w)'
<1> USE DEF Sound, TypeOK, HandlersType, StoresType
<1>s. \A q \in Reqs : q # p => Same(q)
  BY OthersSame
<1>e. w \in DOMAIN lists => PageOK(w)
  BY DEF ListFresh, PageOK, Pending
<1>o. ASSUME NEW q \in Reqs, q # p, Pending(q, w) PROVE PageOK(w)'
  BY <1>o, <1>s DEF PageOK, Pending, Same
<1>v. row' = row => VisiblePage(w)' = VisiblePage(w)
  BY DEF VisiblePage, Visible
<1>1. CASE ListFill(p)
  <2>1. row' = row /\ pc[p] = "listFill" /\ UNCHANGED <<call, page, raced>>
    BY <1>1 DEF ListFill
  <2>2. CASE lists' = Put(lists, call[p].ws, page[p])
             /\ looseLists' = IF raced[p] THEN looseLists \cup {call[p].ws}
                              ELSE looseLists \ {call[p].ws}
    <3>1. CASE w = call[p].ws
      <4>1. raced[p] \/ page[p] = VisiblePage(w)
        BY <2>1, <3>1 DEF HeldFresh, Current
      <4>2. lists'[w] = page[p] /\ (raced[p] => w \in looseLists')
        BY <2>2, <3>1 DEF Put
      <4>3. QED
        BY <1>v, <2>1, <4>1, <4>2 DEF PageOK
    <3>2. CASE w # call[p].ws
      <4>1. /\ w \in DOMAIN lists /\ lists'[w] = lists[w]
            /\ w \in looseLists => w \in looseLists'
        BY <2>2, <3>2 DEF Put
      <4>2. ~Pending(p, w)
        BY <2>1 DEF Pending
      <4>3. QED
        BY <1>e, <1>o, <1>v, <2>1, <4>1, <4>2 DEF PageOK
    <3>3. QED
      BY <3>1, <3>2
  <2>3. CASE UNCHANGED listVars
    <3>1. ~Pending(p, w)
      BY <2>1 DEF Pending
    <3>2. QED
      BY <1>e, <1>o, <1>v, <2>1, <2>3, <3>1 DEF PageOK
  <2>4. QED
    BY <1>1, <2>2, <2>3 DEF ListFill
<1>2. CASE DropList(p)
  <2>1. row' = row
    BY <1>2 DEF DropList
  <2>2. /\ w \in DOMAIN lists /\ lists'[w] = lists[w]
        /\ w = call[p].ws => w \in looseLists'
        /\ w # call[p].ws /\ w \in looseLists => w \in looseLists'
    BY <1>2 DEF DropList, Without, Restrict
  <2>3. CASE w = call[p].ws
    BY <2>2, <2>3 DEF PageOK
  <2>4. CASE w # call[p].ws
    BY <1>e, <1>o, <1>v, <2>1, <2>2, <2>4 DEF PageOK, Pending
  <2>5. QED
    BY <2>3, <2>4
<1>3. CASE Crash(p)
  <2>1. UNCHANGED <<row, lists>> /\ looseLists \subseteq looseLists'
    BY <1>3 DEF Crash
  <2>2. Pending(p, w) => w \in looseLists'
    BY <1>3 DEF Crash, Pending
  <2>3. QED
    BY <1>e, <1>o, <1>v, <2>1, <2>2 DEF PageOK
<1>4. CASE Commits(p)
  <2>1. UNCHANGED <<lists, looseLists, call>> /\ pc'[p] \in {"drop", "dropList"}
    BY <1>4 DEF Commits, SaveUpdate, Remove, Insert
  <2>2. CASE w = call[p].ws
    BY <2>1, <2>2 DEF PageOK, Pending
  <2>3. CASE w # call[p].ws
    <3>1. VisiblePage(w)' = VisiblePage(w)
      BY <1>4, <2>1, <2>3, PageOfOthers
    <3>2. ~Pending(p, w)
      BY <2>3 DEF Pending
    <3>3. QED
      BY <1>e, <1>o, <2>1, <3>1, <3>2 DEF PageOK
  <2>4. QED
    BY <2>2, <2>3
<1>5. CASE Drop(p) \/ (SaveUpdate(p) /\ row' = row)
  <2>1. UNCHANGED <<row, lists, looseLists, call>> /\ pc'[p] \in {"drop", "dropList"}
    BY <1>5 DEF Drop, SaveUpdate
  <2>2. Pending(p, w) => Pending(p, w)'
    BY <2>1 DEF Pending
  <2>3. Pending(p, w)' => PageOK(w)'
    BY DEF PageOK
  <2>4. QED
    BY <1>e, <1>o, <1>v, <2>1, <2>2, <2>3 DEF PageOK
<1>6. CASE Start(p) \/ LookupHit(p) \/ LookupMiss(p) \/ Query(p) \/ Fill(p)
           \/ SaveLoad(p) \/ Publish(p) \/ ListHit(p) \/ ListMiss(p)
           \/ ListQuery(p) \/ DbError(p)
  <2>1. /\ UNCHANGED <<row, lists, looseLists>>
        /\ pc[p] \notin {"drop", "dropList"}
    BY <1>6 DEF Start, LookupHit, LookupMiss, Query, Fill, SaveLoad, Publish,
                ListHit, ListMiss, ListQuery, DbError
  <2>2. ~Pending(p, w)
    BY <2>1 DEF Pending
  <2>3. QED
    BY <1>e, <1>o, <1>v, <2>1, <2>2 DEF PageOK
<1>7. SaveUpdate(p) => Commits(p) \/ row' = row
  BY CommitOrNot
<1>8. Remove(p) \/ Insert(p) => Commits(p)
  BY DEF Commits, Remove, Insert
<1>9. QED
  BY <1>1, <1>2, <1>3, <1>4, <1>5, <1>6, <1>7, <1>8 DEF StepOf, Handle

\* So does every step.
LEMMA NextListFresh ==
  Sound /\ HeldFresh /\ ListFresh /\ [Next]_vars => ListFresh'
<1> SUFFICES ASSUME Sound, HeldFresh, ListFresh, [Next]_vars,
                    NEW w \in DOMAIN lists'
             PROVE  PageOK(w)'
  BY DEF ListFresh, PageOK, Pending
<1>1. ASSUME NEW p \in Reqs, StepOf(p) PROVE PageOK(w)'
  BY <1>1, StepListFresh
<1>2. CASE ExpiryStep
  <2>1. w \in DOMAIN lists /\ lists'[w] = lists[w] /\ UNCHANGED <<row, call, pc>>
    BY <1>2, ExpiryFrame
  <2>2. w \in looseLists => w \in looseLists'
    BY <1>2 DEF ExpiryStep, Expire, ExpireList, Without, Restrict, vars
  <2>3. PageOK(w)
    BY <2>1 DEF ListFresh, PageOK, Pending
  <2>4. VisiblePage(w)' = VisiblePage(w)
    BY <2>1 DEF VisiblePage, Visible
  <2>5. QED
    BY <2>1, <2>2, <2>3, <2>4 DEF PageOK, Pending
<1>3. QED
  BY <1>1, <1>2, StepCases
---------------------------------------------------------------------------
(* Updates *)

\* Assigning the given fields, diffing against the row and writing the diff
\* is what an update promises, when entity and row agree.
LEMMA WrittenIsMerged ==
  ASSUME NEW r \in Row, NEW d \in Dto, NEW p \in Reqs
  PROVE  Written(r, Assigned(r, d, p), Changed(Assigned(r, d, p), r))
           = Merged(r, d, p)
<1> DEFINE n == Assigned(r, d, p)
           cols == Changed(n, r)
<1>1. n \in Row
  BY AssignedType
<1>2. /\ n.ws = r.ws /\ n.createdBy = r.createdBy
      /\ n.version = r.version /\ n.deleted = r.deleted
  BY DEF Assigned, Row
<1>3. Merged(r, d, p) = IF n = r THEN r ELSE [n EXCEPT !.version = r.version + 1]
  <2> DEFINE as1 == IF r.assignedTo # Null THEN r.assignedTo
                    ELSE Given(d.assignedTo, r.assignedTo)
             as2 == IF r.assignedTo = Null THEN Given(d.assignedTo, Null)
                    ELSE r.assignedTo
             ca1 == IF d.status = "DONE" /\ r.status # "DONE" THEN p
                    ELSE IF d.status \notin {Undef, "DONE"} THEN Null
                    ELSE r.completedAt
             ca2 == CASE d.status = "DONE" /\ r.status # "DONE" -> p
                      [] d.status \in Statuses \ {"DONE"} -> Null
                      [] OTHER -> r.completedAt
  <2>1. as1 = as2
    OBVIOUS
  <2>2. ca1 = ca2
    <3>1. d.status \notin {Undef, "DONE"} <=> d.status \in Statuses \ {"DONE"}
      BY DataAssumption DEF Dto
    <3>2. QED
      BY <3>1
  <2>3. n = [r EXCEPT !.content = Given(d.content, r.content),
                      !.status = Given(d.status, r.status),
                      !.completedAt = ca2, !.assignedTo = as2]
    BY <2>1, <2>2 DEF Assigned
  <2>4. QED
    BY <2>3 DEF Merged
<1>4. /\ "content" \in cols <=> n.content # r.content
      /\ "status" \in cols <=> n.status # r.status
      /\ "completedAt" \in cols <=> n.completedAt # r.completedAt
      /\ "assignedTo" \in cols <=> n.assignedTo # r.assignedTo
      /\ "deleted" \notin cols /\ "version" \notin cols
  BY <1>2 DEF Changed, Columns
<1>5. cols = {} <=> n = r
  <2>1. cols \subseteq {"content", "status", "completedAt", "assignedTo"}
    BY <1>4 DEF Changed, Columns
  <2>2. ASSUME cols = {} PROVE n = r
    BY <1>1, <1>2, <1>4, <2>2 DEF Row
  <2>3. ASSUME n = r PROVE cols = {}
    BY <1>4, <2>1, <2>3
  <2>4. QED
    BY <2>2, <2>3
<1> HIDE DEF n, cols
<1>6. Written(r, n, cols) =
        [r EXCEPT !.content = n.content, !.status = n.status,
                  !.completedAt = n.completedAt, !.assignedTo = n.assignedTo,
                  !.deleted = r.deleted,
                  !.version = IF cols = {} THEN r.version ELSE r.version + 1]
  BY <1>4 DEF Written
<1>7. CASE cols = {}
  BY <1>3, <1>5, <1>7, WrittenNothing, <1>1 DEF n, cols
<1>8. CASE cols # {}
  <2>1. [r EXCEPT !.content = n.content, !.status = n.status,
                  !.completedAt = n.completedAt, !.assignedTo = n.assignedTo,
                  !.deleted = r.deleted, !.version = r.version + 1]
          = [n EXCEPT !.version = r.version + 1]
    BY <1>1, <1>2 DEF Row
  <2>2. QED
    BY <1>3, <1>5, <1>6, <1>8, <2>1 DEF n, cols
<1>9. QED
  BY <1>7, <1>8 DEF n, cols

\* The commit of an update that nothing overtook is the atomic update.
LEMMA CleanCommit ==
  ASSUME Sound, HeldFresh, NEW p \in Reqs, SaveUpdate(p), ~raced[p]
  PROVE  /\ ~row[Target(p)].deleted
         /\ call[p].dto.version \in {Undef, row[Target(p)].version}
         /\ row'[Target(p)] = Merged(row[Target(p)], call[p].dto, p)
<1> USE DEF Sound, TypeOK, HandlersType, StoresType
<1> DEFINE t == Target(p)
<1>1. /\ pc[p] = "store" /\ t \in DOMAIN row /\ row[t] \in Row
      /\ call[p].dto \in Dto
      /\ ent[p] = row[t] /\ ~ent[p].deleted
      /\ ~VersionMismatch(ent[p], call[p].dto)
      /\ diff[p] = Changed(Assigned(ent[p], call[p].dto, p), row[t])
  BY CallsType DEF SaveUpdate, HolderSound, Knows, Holding, HeldFresh, Current
<1>2. row'[t] = Written(row[t], Assigned(ent[p], call[p].dto, p), diff[p])
  BY <1>1 DEF SaveUpdate
<1>3. row'[t] = Merged(row[t], call[p].dto, p)
  BY <1>1, <1>2, WrittenIsMerged
<1>4. QED
  BY <1>1, <1>3 DEF VersionMismatch

---------------------------------------------------------------------------
(* The theorems *)

\* The whole invariant holds initially.
LEMMA InitIInv == Init => IInv
<1> SUFFICES ASSUME Init PROVE IInv
  OBVIOUS
<1>1. Sound
  BY InitSound
<1>2. HeldFresh
  BY DEF Init, HeldFresh, Current, Holding
<1>3. EntryFresh /\ ListFresh
  BY DEF Init, EntryFresh, ListFresh
<1>4. QED
  BY <1>1, <1>2, <1>3 DEF IInv, Sound

\* Every step keeps it.
LEMMA NextIInv == IInv /\ [Next]_vars => IInv'
BY NextSound, NextHeldFresh, NextEntryFresh, NextListFresh DEF IInv, Sound

\* It is an invariant of the service.
LEMMA Inductive == Spec => []IInv
BY InitIInv, NextIInv, PTL DEF Spec

\* A cached entity is stale only while the delete after the commit is still to
\* come, or where a fill overlapped a commit or a delete was lost.
THEOREM EntriesFresh == Spec => []EntryFresh
BY Inductive, PTL DEF IInv

\* The same for the cached page of a project.
THEOREM ListsFresh == Spec => []ListFresh
BY Inductive, PTL DEF IInv

\* An update that read the task fresh and was not overlapped is atomic: it
\* commits the promised change of the current row, at the version the client
\* named.
THEOREM CleanUpdatesAtomic == Spec => CleanUpdateIsAtomic
<1> DEFINE Clean(p) ==
      SaveUpdate(p) /\ ~raced[p] =>
        LET t == Target(p)
            d == call[p].dto
        IN  /\ ~row[t].deleted
            /\ d.version \in {Undef, row[t].version}
            /\ row'[t] = Merged(row[t], d, p)
<1>1. IInv /\ [Next]_vars => [\A p \in Reqs : Clean(p)]_vars
  BY CleanCommit DEF IInv, Sound
<1>2. QED
  BY <1>1, Inductive, PTL DEF Spec, CleanUpdateIsAtomic
---------------------------------------------------------------------------
(* What is answered and told *)

StampKnown(r) == r.completedAt \in wrote \cup {Past, Null}

\* What a step of handler p leaves of the answers of another.
SameAnswer(q) == /\ reply'[q] = reply[q] /\ told'[q] = told[q]
                 /\ (q \in heard' <=> q \in heard)
                 /\ (q \in wrote' <=> q \in wrote)
                 /\ raced[q] => raced'[q]

\* A handler's step answers, tells and counts as a change for itself only.
LEMMA OthersAnswerSame ==
  ASSUME TypeOK, NEW p \in Reqs, StepOf(p), NEW q \in Reqs, q # p
  PROVE  SameAnswer(q)
<1> USE DEF TypeOK, HandlersType, SameAnswer
<1>1. CASE Start(p) \/ LookupHit(p) \/ LookupMiss(p) \/ Query(p) \/ Fill(p)
  BY <1>1 DEF Start, LookupHit, LookupMiss, Query, Fill, Proceed
<1>2. CASE SaveLoad(p) \/ SaveUpdate(p) \/ Remove(p) \/ Insert(p)
  BY <1>2 DEF SaveLoad, SaveUpdate, Remove, Insert, Overlap
<1>3. CASE Drop(p) \/ DropList(p) \/ Publish(p) \/ DbError(p) \/ Crash(p)
  BY <1>3 DEF Drop, DropList, Publish, DbError, Crash
<1>4. CASE ListHit(p) \/ ListMiss(p) \/ ListQuery(p) \/ ListFill(p)
  BY <1>4 DEF ListHit, ListMiss, ListQuery, ListFill
<1>5. QED
  BY <1>1, <1>2, <1>3, <1>4 DEF StepOf, Handle

\* The completion time of a row written by save() is that of the row, of the
\* entity, Null, or the request, which then has changed the row.
LEMMA WrittenStamp ==
  ASSUME NEW r \in Row, NEW e \in Row, NEW d \in Dto, NEW p \in Reqs,
         NEW cols \in SUBSET Columns
  PROVE  LET w == Written(r, Assigned(e, d, p), cols)
         IN  \/ w.completedAt \in {r.completedAt, e.completedAt, Null}
             \/ w.completedAt = p /\ cols # {}
<1>1. Written(r, Assigned(e, d, p), cols).completedAt =
        IF "completedAt" \in cols THEN Assigned(e, d, p).completedAt
        ELSE r.completedAt
  <2>1. ASSUME NEW n \in Row
        PROVE  Written(r, n, cols).completedAt =
                 IF "completedAt" \in cols THEN n.completedAt ELSE r.completedAt
    <3> DEFINE ca == IF "completedAt" \in cols THEN n.completedAt ELSE r.completedAt
               ve == IF cols = {} THEN r.version
                     ELSE IF "version" \in cols THEN n.version ELSE r.version + 1
               st == IF "status" \in cols THEN n.status ELSE r.status
               co == IF "content" \in cols THEN n.content ELSE r.content
               as == IF "assignedTo" \in cols THEN n.assignedTo ELSE r.assignedTo
               de == IF "deleted" \in cols THEN n.deleted ELSE r.deleted
    <3>1. Written(r, n, cols) =
            [r EXCEPT !.content = co, !.status = st, !.completedAt = ca,
                      !.assignedTo = as, !.deleted = de, !.version = ve]
      BY DEF Written
    <3> HIDE DEF ca, ve, st, co, as, de
    <3>2. Written(r, n, cols).completedAt = ca
      BY <3>1 DEF Row
    <3>3. QED
      BY <3>2 DEF ca
  <2>2. QED
    BY <2>1, AssignedType
<1>2. Assigned(e, d, p).completedAt \in {e.completedAt, Null, p}
  BY DEF Assigned, Row
<1>3. QED
  BY <1>1, <1>2

\* Every step keeps the completion times explained.
LEMMA StepStamps ==
  ASSUME Sound, StampsTell, NEW p \in Reqs, StepOf(p)
  PROVE  StampsTell'
<1> USE DEF Sound, TypeOK, HandlersType, StoresType
<1>a. /\ \A t \in DOMAIN row : StampKnown(row[t])
      /\ \A t \in DOMAIN cache : StampKnown(cache[t])
      /\ \A q \in Reqs : ent[q] # Null => StampKnown(ent[q])
  BY DEF StampsTell, StampKnown
<1> SUFFICES /\ \A t \in DOMAIN row' : StampKnown(row[t])'
             /\ \A t \in DOMAIN cache' : StampKnown(cache[t])'
             /\ \A q \in Reqs : ent'[q] # Null => StampKnown(ent[q])'
  BY DEF StampsTell, StampKnown
<1>1. CASE LookupHit(p)
  BY <1>1, <1>a DEF LookupHit, HitAllowed, StampKnown
<1>2. CASE Query(p)
  BY <1>2, <1>a DEF Query, Visible, StampKnown
<1>3. CASE Fill(p)
  <2>1. ent[p] # Null
    BY <1>3 DEF Fill, HolderSound, Knows, Holding
  <2>2. /\ cache' = Put(cache, Target(p), ent[p]) \/ cache' = cache
        /\ UNCHANGED <<row, wrote, ent>>
    BY <1>3 DEF Fill
  <2>3. QED
    BY <1>a, <2>1, <2>2 DEF Put, StampKnown
<1>4. CASE SaveUpdate(p)
  <2> DEFINE new == Written(row[Target(p)], Assigned(ent[p], call[p].dto, p), diff[p])
  <2>1. /\ Target(p) \in DOMAIN row /\ row[Target(p)] \in Row
        /\ ent[p] \in Row /\ ent[p] # Null /\ call[p].dto \in Dto
    BY <1>4, CallsType DEF SaveUpdate, HolderSound, Knows, Holding
  <2>2. \/ new.completedAt \in {row[Target(p)].completedAt, ent[p].completedAt, Null}
        \/ new.completedAt = p /\ diff[p] # {}
    BY <2>1, WrittenStamp
  <2>3. wrote \subseteq wrote' /\ (diff[p] # {} => p \in wrote')
    BY <1>4 DEF SaveUpdate
  <2>4. new.completedAt \in wrote' \cup {Past, Null}
    BY <1>a, <2>1, <2>2, <2>3 DEF StampKnown
  <2>5. row' = [row EXCEPT ![Target(p)] = new]
    BY <1>4 DEF SaveUpdate
  <2>6. UNCHANGED <<cache, ent>>
    BY <1>4 DEF SaveUpdate
  <2> HIDE DEF new
  <2>7. QED
    BY <1>a, <2>3, <2>4, <2>5, <2>6 DEF StampKnown
<1>5. CASE Remove(p)
  <2>1. Target(p) \in DOMAIN row /\ row[Target(p)] \in Row
    BY <1>5 DEF Remove, HolderSound, Knows, Holding
  <2>2. Removed(row[Target(p)]).completedAt = row[Target(p)].completedAt
    BY <2>1 DEF Removed, Row
  <2>3. /\ row' = [row EXCEPT ![Target(p)] = Removed(row[Target(p)])]
        /\ wrote \subseteq wrote' /\ UNCHANGED <<cache, ent>>
    BY <1>5 DEF Remove
  <2>4. QED
    BY <1>a, <2>1, <2>2, <2>3 DEF StampKnown
<1>6. CASE Insert(p)
  <2>1. /\ row' = Put(row, Target(p), NewRow(call[p]))
        /\ wrote \subseteq wrote' /\ UNCHANGED <<cache, ent>>
    BY <1>6 DEF Insert
  <2>2. NewRow(call[p]).completedAt = Null
    BY DEF NewRow
  <2>3. QED
    BY <1>a, <2>1, <2>2 DEF StampKnown, Put
<1>7. CASE Drop(p)
  BY <1>7, <1>a DEF Drop, Without, Restrict, StampKnown
<1>8. CASE Start(p) \/ LookupMiss(p) \/ SaveLoad(p) \/ DropList(p) \/ Publish(p)
           \/ DbError(p) \/ Crash(p) \/ ListHit(p) \/ ListMiss(p)
           \/ ListQuery(p) \/ ListFill(p)
  <2>1. UNCHANGED <<row, cache, ent, wrote>>
    BY <1>8 DEF Start, LookupMiss, SaveLoad, DropList, Publish, DbError, Crash,
                ListHit, ListMiss, ListQuery, ListFill
  <2>2. QED
    BY <1>a, <2>1 DEF StampKnown
<1>9. QED
  BY <1>1, <1>2, <1>3, <1>4, <1>5, <1>6, <1>7, <1>8 DEF StepOf, Handle

Tells(p) ==
  /\ reply[p] \in {"notFound", "conflict"} => p \notin wrote
  /\ p \in wrote /\ reply[p] = "ok" => p \in heard
  /\ p \in wrote /\ reply[p] = "error" =>
       Recipient(p) # Null /\ (p \in heard => call[p].op = "create")
  /\ p \in heard => pc[p] = "done" /\ call[p].op \notin {"get", "list"}
  /\ told[p] # Null => p \in wrote \/ MayMisinform(p)

Explained(p) == InPlace(p) /\ Outcome(p) /\ Tells(p)

\* Another handler's step changes nothing of this.
LEMMA OthersExplained ==
  ASSUME TypeOK, NEW p \in Reqs, StepOf(p), NEW q \in Reqs, q # p, Explained(q)
  PROVE  Explained(q)'
<1> USE DEF Explained
<1>1. Same(q) /\ SameAnswer(q)
  BY OthersSame, OthersAnswerSame
<1>2. /\ Recipient(q)' = Recipient(q) /\ (Completes(q)' <=> Completes(q))
      /\ (Reassigns(q)' <=> Reassigns(q))
  BY <1>1 DEF Same, Recipient, Completes, Reassigns
<1>3. InPlace(q)'
  BY <1>1 DEF Same, InPlace
<1>4. Outcome(q)'
  <2>1. Unchanged(q) => Unchanged(q)'
    BY <1>1, <1>2 DEF Same, SameAnswer, Unchanged
  <2>2. QED
    BY <1>1, <1>2, <2>1 DEF Same, SameAnswer, Outcome
<1>5. Tells(q)'
  <2>1. MayMisinform(q) => MayMisinform(q)'
    BY <1>1, <1>2 DEF Same, SameAnswer, MayMisinform
  <2>2. QED
    BY <1>1, <1>2, <2>1 DEF Same, SameAnswer, Tells
<1>6. QED
  BY <1>3, <1>4, <1>5

\* The steps that neither write nor answer keep a handler in place, with
\* nothing changed and nothing told.
LEMMA QuietExplained ==
  ASSUME Sound, NEW p \in Reqs, Explained(p), pc[p] # "done",
         UNCHANGED <<wrote, outVars>>, NEW step \in Steps, Goto(p, step),
         step \notin {"store", "done", "drop", "dropList", "publish"},
         pc[p] \notin {"drop", "dropList", "publish"}, InPlace(p)'
  PROVE  Explained(p)'
<1> USE DEF Sound, TypeOK, HandlersType, Explained
<1>1. pc'[p] = step /\ reply'[p] = reply[p]
  OBVIOUS
<1>2. Outcome(p)'
  BY <1>1 DEF Outcome
<1>3. Tells(p)'
  BY <1>1 DEF Outcome, Tells
<1>4. QED
  BY <1>2, <1>3

\* A request answered before it wrote anything has told nobody.
LEMMA AnsweredUnwritten ==
  ASSUME Sound, NEW p \in Reqs, Explained(p), pc[p] # "done",
         pc[p] \notin {"drop", "dropList", "publish"},
         UNCHANGED <<wrote, outVars>>, NEW r \in Replies, Answer(p, r)
  PROVE  Explained(p)'
<1> USE DEF Sound, TypeOK, HandlersType, Explained
<1>1. pc'[p] = "done" /\ reply'[p] = r
  OBVIOUS
<1>2. InPlace(p)' /\ Outcome(p)'
  BY <1>1 DEF InPlace, Outcome
<1>3. Tells(p)'
  BY <1>1 DEF Outcome, Tells
<1>4. QED
  BY <1>2, <1>3

\* save() finds a completion to be a change: its time is in no row yet.
LEMMA CompletionIsChange ==
  ASSUME Sound, StampsTell, NEW p \in Reqs, pc[p] = "load", p \notin wrote,
         Completes(p)
  PROVE  Changed(Assigned(ent[p], call[p].dto, p), row[Target(p)]) # {}
<1> USE DEF Sound, TypeOK, HandlersType, StoresType
<1>1. Target(p) \in DOMAIN row /\ ent[p] \in Row
  BY DEF HolderSound, Knows, Holding
<1>2. row[Target(p)].completedAt # p
  BY <1>1, DataAssumption DEF StampsTell
<1>3. Assigned(ent[p], call[p].dto, p).completedAt = p
  BY <1>1 DEF Assigned, Completes, Row
<1>4. QED
  BY <1>2, <1>3 DEF Changed, Columns

\* A save that found nothing to change has no completion to tell, and an
\* assignment only where the loaded assignee won or the entity was overtaken.
LEMMA EmptyDiff ==
  ASSUME Sound, HeldFresh, NEW p \in Reqs, pc[p] = "store", Outcome(p),
         diff[p] = {}
  PROVE  Unchanged(p)
<1> USE DEF Sound, TypeOK, HandlersType, StoresType
<1>1. ent[p] \in Row /\ call[p].op = "update"
  BY DEF HolderSound, Knows, Holding
<1>2. ~Completes(p)
  BY DEF Outcome
<1>3. ASSUME Reassigns(p), ent[p].assignedTo = Null, ~raced[p] PROVE FALSE
  <2>1. ent[p] = row[Target(p)] /\ Changed(Assigned(ent[p], call[p].dto, p), ent[p]) = {}
    BY <1>3 DEF HeldFresh, Current, Holding
  <2>2. Assigned(ent[p], call[p].dto, p).assignedTo = call[p].dto.assignedTo
    BY <1>1, <1>3 DEF Assigned, Reassigns, Given, Row
  <2>3. QED
    BY <1>3, <2>1, <2>2 DEF Changed, Columns, Reassigns
<1>4. QED
  BY <1>1, <1>2, <1>3 DEF Unchanged

\* A handler's own step keeps its answer explained.
LEMMA OwnExplained ==
  ASSUME Sound, HeldFresh, StampsTell, NEW p \in Reqs, StepOf(p), Explained(p)
  PROVE  Explained(p)'
<1> USE DEF Sound, TypeOK, HandlersType
<1>1. CASE Start(p)
  <2>1. PICK c \in Calls : call' = [call EXCEPT ![p] = c] /\ Goto(p, FirstStep(c.op))
    BY <1>1 DEF Start
  <2>2. c.op \in Ops
    BY CallsType DEF Call
  <2>3. /\ pc[p] = "idle" /\ UNCHANGED <<wrote, outVars>>
        /\ FirstStep(c.op) \in {"lookup", "listLookup", "insert"}
    BY <1>1, <2>2 DEF Start, FirstStep, Ops
  <2>4. InPlace(p)'
    BY <2>1, <2>2 DEF InPlace, FirstStep, Ops
  <2>5. QED
    BY <2>1, <2>3, <2>4, QuietExplained DEF Steps
<1>2. CASE LookupHit(p) \/ Fill(p)
  <2>1. PICK e : Proceed(p, e)
    BY <1>2 DEF LookupHit, Fill
  <2>2. /\ pc[p] \in {"lookup", "fill"} /\ UNCHANGED <<wrote, outVars, call>>
    BY <1>2 DEF LookupHit, Fill
  <2>3. CASE Goto(p, "remove") /\ call[p].op = "delete"
    <3>1. InPlace(p)'
      BY <2>2, <2>3 DEF InPlace
    <3>2. QED
      BY <2>2, <2>3, <3>1, QuietExplained DEF Steps
  <2>4. CASE Goto(p, "load") /\ call[p].op = "update"
    <3>1. InPlace(p)'
      BY <2>2, <2>4 DEF InPlace
    <3>2. QED
      BY <2>2, <2>4, <3>1, QuietExplained DEF Steps
  <2>5. CASE Answer(p, "ok") \/ Answer(p, "conflict")
    BY <2>2, <2>5, AnsweredUnwritten DEF Replies
  <2>6. QED
    BY <2>1, <2>3, <2>4, <2>5 DEF Proceed
<1>3. CASE LookupMiss(p) \/ ListMiss(p) \/ ListQuery(p)
  <2>1. PICK step \in {"query", "listQuery", "listFill"} :
           /\ Goto(p, step) /\ UNCHANGED <<wrote, outVars, call>>
           /\ \/ pc[p] = "lookup" /\ step = "query"
              \/ pc[p] \in {"listLookup", "listQuery"} /\ step # "query"
    BY <1>3 DEF LookupMiss, ListMiss, ListQuery
  <2>2. InPlace(p)'
    BY <2>1 DEF Explained, InPlace
  <2>3. QED
    BY <2>1, <2>2, QuietExplained DEF Steps
<1>4. CASE Query(p)
  <2>1. pc[p] = "query" /\ UNCHANGED <<wrote, outVars, call>>
    BY <1>4 DEF Query
  <2>2. CASE Goto(p, "fill")
    <3>1. InPlace(p)'
      BY <2>1, <2>2 DEF Explained, InPlace
    <3>2. QED
      BY <2>1, <2>2, <3>1, QuietExplained DEF Steps
  <2>3. CASE Answer(p, "notFound")
    BY <2>1, <2>3, AnsweredUnwritten DEF Replies
  <2>4. QED
    BY <1>4, <2>2, <2>3 DEF Query
<1>5. CASE ListHit(p) \/ ListFill(p)
  <2>1. /\ pc[p] \in {"listLookup", "listFill"} /\ UNCHANGED <<wrote, outVars>>
        /\ Answer(p, "ok")
    BY <1>5 DEF ListHit, ListFill
  <2>2. QED
    BY <2>1, AnsweredUnwritten DEF Replies
<1>6. CASE DbError(p)
  <2>1. /\ pc[p] \notin {"drop", "dropList", "publish", "done"}
        /\ UNCHANGED <<wrote, outVars>> /\ Answer(p, "error")
    BY <1>6 DEF DbError
  <2>2. QED
    BY <2>1, AnsweredUnwritten DEF Replies
<1>7. CASE SaveLoad(p)
  <2>1. /\ pc[p] = "load" /\ pc'[p] = "store" /\ reply'[p] = reply[p]
        /\ UNCHANGED <<wrote, outVars, call, ent>>
        /\ diff'[p] = Changed(Assigned(ent[p], call[p].dto, p), row[Target(p)])
    BY <1>7 DEF SaveLoad
  <2>2. p \notin wrote
    BY <2>1 DEF Explained, Outcome
  <2>3. Completes(p)' => diff'[p] # {}
    BY <2>1, <2>2, CompletionIsChange DEF Completes
  <2>4. InPlace(p)' /\ Outcome(p)'
    BY <2>1, <2>2, <2>3 DEF Explained, InPlace, Outcome
  <2>5. Tells(p)'
    BY <2>1 DEF Explained, Tells, Outcome
  <2>6. QED
    BY <2>4, <2>5 DEF Explained
<1>8. CASE SaveUpdate(p)
  <2>1. /\ pc[p] = "store" /\ pc'[p] = "drop" /\ reply'[p] = reply[p]
        /\ UNCHANGED <<outVars, call, ent>>
        /\ raced[p] => raced'[p]
    BY <1>8 DEF SaveUpdate, Overlap
  <2>2. call[p].op = "update"
    BY <2>1 DEF HolderSound, Knows
  <2>3. p \in wrote' \/ Unchanged(p)'
    <3>1. CASE diff[p] = {}
      <4>1. Unchanged(p)
        BY <2>1, <3>1, EmptyDiff DEF Explained
      <4>2. QED
        BY <2>1, <4>1 DEF Unchanged, Completes, Reassigns
    <3>2. CASE diff[p] # {}
      BY <1>8, <3>2 DEF SaveUpdate
    <3>3. QED
      BY <3>1, <3>2
  <2>4. InPlace(p)' /\ Outcome(p)'
    BY <2>1, <2>2, <2>3 DEF Explained, InPlace, Outcome
  <2>5. Tells(p)'
    BY <2>1 DEF Explained, Tells, Outcome
  <2>6. QED
    BY <2>4, <2>5 DEF Explained
<1>9. CASE Remove(p) \/ Insert(p)
  <2>1. /\ pc[p] \in {"remove", "insert"} /\ reply'[p] = reply[p]
        /\ UNCHANGED <<outVars, call>> /\ p \in wrote'
        /\ pc'[p] = IF pc[p] = "remove" THEN "drop" ELSE "dropList"
    BY <1>9 DEF Remove, Insert
  <2>2. call[p].op = IF pc[p] = "remove" THEN "delete" ELSE "create"
    BY <2>1 DEF Explained, InPlace, IdsFresh
  <2>3. InPlace(p)' /\ Outcome(p)'
    BY <2>1, <2>2 DEF Explained, InPlace, Outcome
  <2>4. Tells(p)'
    BY <2>1 DEF Explained, Tells, Outcome
  <2>5. QED
    BY <2>3, <2>4 DEF Explained
<1>10. CASE Drop(p) \/ DropList(p)
  <2>1. /\ pc[p] \in {"drop", "dropList"} /\ reply'[p] = reply[p]
        /\ UNCHANGED <<outVars, wrote, call, ent, raced>>
        /\ pc'[p] \in {"dropList", "publish"}
    BY <1>10 DEF Drop, DropList
  <2>2. InPlace(p)' /\ Outcome(p)'
    BY <2>1 DEF Explained, InPlace, Outcome, Unchanged, Completes, Reassigns
  <2>3. Tells(p)'
    BY <2>1 DEF Explained, Tells, Outcome
  <2>4. QED
    BY <2>2, <2>3 DEF Explained
<1>11. CASE Publish(p)
  <2>1. /\ pc[p] = "publish" /\ pc'[p] = "done"
        /\ UNCHANGED <<wrote, call, ent, raced>>
        /\ reply'[p] \in {"ok", "error"}
        /\ told'[p] \in {Null, Recipient(p)}
        /\ reply'[p] = "ok" => p \in heard'
        /\ reply'[p] = "error" => /\ Recipient(p) # Null
                                  /\ p \in heard' => p \in heard \/ call[p].op = "create"
    BY <1>11 DEF Publish
  <2>2. /\ p \notin heard /\ call[p].op \in {"create", "update", "delete"}
        /\ p \in wrote \/ Unchanged(p)
    BY <2>1 DEF Explained, InPlace, Outcome
  <2>3. Recipient(p)' = Recipient(p)
    BY <2>1 DEF Recipient, Completes, Reassigns
  <2>4. Recipient(p) # Null => p \in wrote \/ MayMisinform(p)
    BY <2>2 DEF Recipient, Unchanged, MayMisinform
  <2>5. MayMisinform(p) => MayMisinform(p)'
    BY <2>1 DEF MayMisinform, Completes
  <2>6. Tells(p)'
    BY <2>1, <2>2, <2>3, <2>4, <2>5 DEF Tells
  <2>7. InPlace(p)' /\ Outcome(p)'
    BY <2>1 DEF InPlace, Outcome
  <2>8. QED
    BY <2>6, <2>7 DEF Explained
<1>12. CASE Crash(p)
  <2>1. /\ pc[p] # "done" /\ pc'[p] = "done" /\ reply'[p] = "lost"
        /\ UNCHANGED <<wrote, outVars>>
    BY <1>12 DEF Crash, Busy
  <2>2. InPlace(p)' /\ Outcome(p)' /\ Tells(p)'
    BY <2>1 DEF Explained, InPlace, Outcome, Tells
  <2>3. QED
    BY <2>2 DEF Explained
<1>13. QED
  BY <1>1, <1>2, <1>3, <1>4, <1>5, <1>6, <1>7, <1>8, <1>9, <1>10, <1>11, <1>12
     DEF StepOf, Handle

\* Expiry touches no request.
LEMMA ExpiryExplained ==
  ASSUME ExpiryStep, NEW q \in Reqs, Explained(q)
  PROVE  Explained(q)'
<1>1. UNCHANGED <<call, pc, ent, diff, reply, raced, told, heard, wrote>>
  <2>1. UNCHANGED <<call, pc, ent, diff, raced>>
    BY ExpiryFrame
  <2>2. UNCHANGED <<reply, told, heard, wrote>>
    BY DEF ExpiryStep, Expire, ExpireList, vars
  <2>3. QED
    BY <2>1, <2>2
<1>2. QED
  BY <1>1 DEF Explained, InPlace, Outcome, Unchanged, Tells, MayMisinform,
              Recipient, Completes, Reassigns

\* Nor the times that completions bear.
LEMMA ExpiryStamps == ASSUME ExpiryStep, StampsTell PROVE StampsTell'
<1>1. UNCHANGED <<row, ent, wrote>> /\ DOMAIN cache' \subseteq DOMAIN cache
      /\ \A t \in DOMAIN cache' : cache'[t] = cache[t]
  BY ExpiryFrame DEF ExpiryStep, Expire, ExpireList, vars
<1>2. QED
  BY <1>1 DEF StampsTell

\* The invariant behind ReplyTellsOutcome holds initially.
LEMMA InitOutcome == Init => OutcomeInv
<1> SUFFICES ASSUME Init PROVE OutcomeInv
  OBVIOUS
<1>1. StampsTell
  BY DataAssumption DEF Init, StampsTell
<1>2. \A p \in Reqs : Explained(p)
  BY DEF Init, Explained, InPlace, Outcome, Tells
<1>3. QED
  BY <1>1, <1>2 DEF OutcomeInv, ReplyTellsOutcome, Explained, Tells

\* Every step keeps it.
LEMMA NextOutcome == IInv /\ OutcomeInv /\ [Next]_vars => OutcomeInv'
<1> SUFFICES ASSUME IInv, OutcomeInv, [Next]_vars PROVE OutcomeInv'
  OBVIOUS
<1>i. Sound /\ HeldFresh /\ TypeOK
  BY DEF IInv, Sound
<1>o. StampsTell /\ \A q \in Reqs : Explained(q)
  BY DEF OutcomeInv, ReplyTellsOutcome, Explained, Tells
<1>1. StampsTell' /\ \A q \in Reqs : Explained(q)'
  <2>1. ASSUME NEW p \in Reqs, StepOf(p)
        PROVE  StampsTell' /\ \A q \in Reqs : Explained(q)'
    BY <1>i, <1>o, <2>1, StepStamps, OwnExplained, OthersExplained
  <2>2. CASE ExpiryStep
    BY <1>o, <2>2, ExpiryExplained, ExpiryStamps
  <2>3. QED
    BY <2>1, <2>2, StepCases
<1>2. QED
  BY <1>1 DEF OutcomeInv, ReplyTellsOutcome, Explained, Tells

\* It is an invariant of the service.
LEMMA AlwaysOutcome == Spec => []OutcomeInv
BY InitOutcome, NextOutcome, Inductive, PTL DEF Spec

\* What a client is answered, and who is told, agrees with what its request
\* did to the table, whatever fails and whoever interferes.
THEOREM RepliesTell == Spec => []ReplyTellsOutcome
BY AlwaysOutcome, PTL DEF OutcomeInv
---------------------------------------------------------------------------
(* One request at a time *)

\* Assigning the fields of an update to an entity whose completion time
\* matches its status gives one that matches.
LEMMA AssignedMatches ==
  ASSUME NEW e \in Row, NEW d \in Dto, NEW p \in Reqs, CompletionMatches(e)
  PROVE  CompletionMatches(Assigned(e, d, p))
<1> DEFINE n == Assigned(e, d, p)
<1>1. /\ n.status = Given(d.status, e.status)
      /\ n.completedAt = IF d.status = "DONE" /\ e.status # "DONE" THEN p
                         ELSE IF d.status \notin {Undef, "DONE"} THEN Null
                         ELSE e.completedAt
  BY DEF Assigned, Row
<1>2. p # Null /\ Undef # "DONE"
  BY DataAssumption DEF Statuses
<1> HIDE DEF n
<1>3. CompletionMatches(n)
  BY <1>1, <1>2 DEF CompletionMatches, Given
<1>4. QED
  BY <1>3 DEF n

\* Writing every column in which an entity differs from the row makes the row
\* match when the entity does.
LEMMA WrittenMatches ==
  ASSUME NEW r \in Row, NEW n \in Row, CompletionMatches(n)
  PROVE  CompletionMatches(Written(r, n, Changed(n, r)))
<1> DEFINE cols == Changed(n, r)
           w == Written(r, n, cols)
<1>1. /\ "status" \notin cols => n.status = r.status
      /\ "completedAt" \notin cols => n.completedAt = r.completedAt
  BY DEF Changed, Columns
<1> HIDE DEF cols
<1>2. /\ w.status = IF "status" \in cols THEN n.status ELSE r.status
      /\ w.completedAt = IF "completedAt" \in cols THEN n.completedAt
                         ELSE r.completedAt
  <2> DEFINE ca == IF "completedAt" \in cols THEN n.completedAt ELSE r.completedAt
             ve == IF cols = {} THEN r.version
                   ELSE IF "version" \in cols THEN n.version ELSE r.version + 1
             st == IF "status" \in cols THEN n.status ELSE r.status
             co == IF "content" \in cols THEN n.content ELSE r.content
             as == IF "assignedTo" \in cols THEN n.assignedTo ELSE r.assignedTo
             de == IF "deleted" \in cols THEN n.deleted ELSE r.deleted
  <2>1. w = [r EXCEPT !.content = co, !.status = st, !.completedAt = ca,
                      !.assignedTo = as, !.deleted = de, !.version = ve]
    BY DEF Written
  <2> HIDE DEF ca, ve, st, co, as, de, w
  <2>2. w.completedAt = ca /\ w.status = st
    BY <2>1 DEF Row
  <2>3. QED
    BY <2>2 DEF ca, st
<1> HIDE DEF w
<1>3. w.status = n.status /\ w.completedAt = n.completedAt
  BY <1>1, <1>2
<1>4. CompletionMatches(w)
  BY <1>3 DEF CompletionMatches
<1>5. QED
  BY <1>4 DEF w, cols

\* While a handler is at work no other is; its diff stays against the row.
LEMMA StaysAlone ==
  ASSUME Serial, Sound, Alone, NEW p \in Reqs, StepOf(p)
  PROVE  Alone'
<1> USE DEF Sound, TypeOK, HandlersType, StoresType
<1>s. \A q \in Reqs : q # p => Same(q)
  BY OthersSame
<1>1. \A q \in Reqs : q # p => ~Busy(q)
  <2>1. CASE Start(p)
    BY <2>1 DEF Start, Busy
  <2>2. CASE ~Start(p)
    <3>1. Busy(p)
      <4>1. CASE LookupHit(p) \/ LookupMiss(p) \/ Query(p) \/ Fill(p)
        BY <4>1 DEF LookupHit, LookupMiss, Query, Fill, Busy
      <4>2. CASE SaveLoad(p) \/ SaveUpdate(p) \/ Remove(p) \/ Insert(p)
        BY <4>2 DEF SaveLoad, SaveUpdate, Remove, Insert, Busy
      <4>3. CASE Drop(p) \/ DropList(p) \/ Publish(p) \/ DbError(p) \/ Crash(p)
        BY <4>3 DEF Drop, DropList, Publish, DbError, Crash, Busy
      <4>4. CASE ListHit(p) \/ ListMiss(p) \/ ListQuery(p) \/ ListFill(p)
        BY <4>4 DEF ListHit, ListMiss, ListQuery, ListFill, Busy
      <4>5. QED
        BY <2>2, <4>1, <4>2, <4>3, <4>4 DEF StepOf, Handle
    <3>2. QED
      BY <3>1 DEF Alone
  <2>3. QED
    BY <2>1, <2>2
<1>2. \A q \in Reqs : q # p => ~Busy(q)' /\ pc'[q] # "store"
  BY <1>s, <1>1 DEF Same, Busy
<1>3. pc'[p] = "store" =>
        diff'[p] = Changed(Assigned(ent'[p], call'[p].dto, p), row'[Target(p)'])
  <2>1. CASE SaveLoad(p)
    BY <2>1 DEF SaveLoad
  <2>2. CASE Start(p)
    BY <2>2, CallsType DEF Start, FirstStep, Call, Ops
  <2>3. CASE LookupHit(p) \/ LookupMiss(p) \/ Query(p) \/ Fill(p)
    BY <2>3 DEF LookupHit, LookupMiss, Query, Fill, Proceed
  <2>4. CASE SaveUpdate(p) \/ Remove(p) \/ Insert(p) \/ Drop(p) \/ DropList(p)
    BY <2>4 DEF SaveUpdate, Remove, Insert, Drop, DropList
  <2>5. CASE Publish(p) \/ DbError(p) \/ Crash(p)
             \/ ListHit(p) \/ ListMiss(p) \/ ListQuery(p) \/ ListFill(p)
    BY <2>5 DEF Publish, DbError, Crash, ListHit, ListMiss, ListQuery, ListFill
  <2>6. QED
    BY <2>1, <2>2, <2>3, <2>4, <2>5 DEF StepOf, Handle
<1>4. QED
  BY <1>2, <1>3 DEF Alone

\* Whatever is stored, cached or held keeps a completion time that matches.
LEMMA CompletionsStayHeld ==
  ASSUME Sound, Alone, CompletionsHeld, NEW p \in Reqs, StepOf(p)
  PROVE  CompletionsHeld'
<1> USE DEF Sound, TypeOK, HandlersType, StoresType
<1>h. /\ \A t \in DOMAIN row : CompletionMatches(row[t])
      /\ \A t \in DOMAIN cache : CompletionMatches(cache[t])
      /\ \A q \in Reqs : ent[q] # Null => CompletionMatches(ent[q])
  BY DEF CompletionsHeld, CompletionConsistent
<1> SUFFICES /\ \A t \in DOMAIN row' : CompletionMatches(row'[t])
             /\ \A t \in DOMAIN cache' : CompletionMatches(cache'[t])
             /\ \A q \in Reqs : ent'[q] # Null => CompletionMatches(ent'[q])
  BY DEF CompletionsHeld, CompletionConsistent, CompletionMatches
<1>1. CASE LookupHit(p)
  BY <1>1, <1>h DEF LookupHit, HitAllowed
<1>2. CASE Query(p)
  BY <1>2, <1>h DEF Query, Visible
<1>3. CASE Fill(p)
  <2>1. ent[p] # Null
    BY <1>3 DEF Fill, HolderSound, Knows, Holding
  <2>2. /\ cache' = Put(cache, Target(p), ent[p]) \/ cache' = cache
        /\ UNCHANGED <<row, ent>>
    BY <1>3 DEF Fill
  <2>3. QED
    BY <1>h, <2>1, <2>2 DEF Put
<1>4. CASE SaveUpdate(p)
  <2> DEFINE n == Assigned(ent[p], call[p].dto, p)
  <2>1. /\ Target(p) \in DOMAIN row /\ row[Target(p)] \in Row
        /\ ent[p] \in Row /\ ent[p] # Null /\ call[p].dto \in Dto
        /\ diff[p] = Changed(n, row[Target(p)])
    BY <1>4, CallsType DEF SaveUpdate, HolderSound, Knows, Holding, Alone
  <2>2. n \in Row /\ CompletionMatches(n)
    BY <1>h, <2>1, AssignedType, AssignedMatches
  <2> HIDE DEF n
  <2>3. CompletionMatches(Written(row[Target(p)], n, diff[p]))
    BY <2>1, <2>2, WrittenMatches
  <2>4. /\ row' = [row EXCEPT ![Target(p)] = Written(row[Target(p)], n, diff[p])]
        /\ UNCHANGED <<cache, ent>>
    BY <1>4 DEF SaveUpdate, n
  <2>5. QED
    BY <1>h, <2>3, <2>4
<1>5. CASE Remove(p)
  <2>1. Target(p) \in DOMAIN row /\ row[Target(p)] \in Row
    BY <1>5 DEF Remove, HolderSound, Knows, Holding
  <2>2. CompletionMatches(Removed(row[Target(p)]))
    BY <1>h, <2>1 DEF Removed, Row, CompletionMatches
  <2>3. /\ row' = [row EXCEPT ![Target(p)] = Removed(row[Target(p)])]
        /\ UNCHANGED <<cache, ent>>
    BY <1>5 DEF Remove
  <2>4. QED
    BY <1>h, <2>1, <2>2, <2>3
<1>6. CASE Insert(p)
  <2>1. row' = Put(row, Target(p), NewRow(call[p])) /\ UNCHANGED <<cache, ent>>
    BY <1>6 DEF Insert
  <2>2. CompletionMatches(NewRow(call[p]))
    BY DEF NewRow, CompletionMatches
  <2>3. QED
    BY <1>h, <2>1, <2>2 DEF Put
<1>7. CASE Drop(p)
  BY <1>7, <1>h DEF Drop, Without, Restrict
<1>8. CASE Start(p) \/ LookupMiss(p) \/ SaveLoad(p) \/ DropList(p) \/ Publish(p)
           \/ DbError(p) \/ Crash(p) \/ ListHit(p) \/ ListMiss(p)
           \/ ListQuery(p) \/ ListFill(p)
  <2>1. UNCHANGED <<row, cache, ent>>
    BY <1>8 DEF Start, LookupMiss, SaveLoad, DropList, Publish, DbError, Crash,
                ListHit, ListMiss, ListQuery, ListFill
  <2>2. QED
    BY <1>h, <2>1
<1>9. QED
  BY <1>1, <1>2, <1>3, <1>4, <1>5, <1>6, <1>7, <1>8 DEF StepOf, Handle

SerialInv == Alone /\ CompletionsHeld

\* Both hold initially.
LEMMA InitSerial == Init => SerialInv
<1> SUFFICES ASSUME Init PROVE SerialInv
  OBVIOUS
<1>1. Alone
  BY DEF Init, Alone, Busy
<1>2. CompletionsHeld
  BY DataAssumption DEF Init, CompletionsHeld, CompletionConsistent
<1>3. QED
  BY <1>1, <1>2 DEF SerialInv

\* Every step keeps them when a client waits for its answer.
LEMMA NextSerial ==
  ASSUME Serial
  PROVE  IInv /\ SerialInv /\ [Next]_vars => SerialInv'
<1> SUFFICES ASSUME IInv, SerialInv, [Next]_vars PROVE SerialInv'
  OBVIOUS
<1>1. ASSUME NEW p \in Reqs, StepOf(p) PROVE SerialInv'
  BY <1>1, StaysAlone, CompletionsStayHeld DEF IInv, Sound, SerialInv
<1>2. CASE ExpiryStep
  <2>1. /\ UNCHANGED <<row, call, pc, ent, page, diff, raced>>
        /\ DOMAIN cache' \subseteq DOMAIN cache
        /\ \A t \in DOMAIN cache' : cache'[t] = cache[t]
    BY <1>2, ExpiryFrame
  <2>2. Alone'
    BY <2>1 DEF SerialInv, Alone, Busy
  <2>3. CompletionsHeld'
    BY <2>1 DEF SerialInv, CompletionsHeld, CompletionConsistent
  <2>4. QED
    BY <2>2, <2>3 DEF SerialInv
<1>3. QED
  BY <1>1, <1>2, StepCases

\* They are invariants of the service then.
LEMMA AlwaysSerial == ASSUME Serial PROVE Spec => []SerialInv
<1>1. IInv /\ SerialInv /\ [Next]_vars => SerialInv'
  BY NextSerial
<1>2. QED
  BY <1>1, InitSerial, Inductive, PTL DEF Spec

\* With requests one at a time, and whatever fails, a task carries a completion
\* time exactly when it is DONE.
THEOREM CompletionsAlwaysConsistent ==
  ASSUME Serial
  PROVE  Spec => []CompletionConsistent
<1>1. Spec => []SerialInv
  BY AlwaysSerial
<1>2. QED
  BY <1>1, PTL DEF SerialInv, CompletionsHeld
---------------------------------------------------------------------------
(* The refinement of AtomicTask *)

\* Without faults and with requests one at a time, nothing a handler finds in
\* the cache is stale.
LEMMA HitCurrent ==
  ASSUME IInv, Alone, Undisturbed, NEW p \in Reqs, LookupHit(p)
  PROVE  /\ Visible(Target(p), call[p].ws)
         /\ cache[Target(p)] = row[Target(p)]
<1> USE DEF IInv, TypeOK, HandlersType, StoresType
<1>1. /\ Target(p) \in DOMAIN cache /\ cache[Target(p)].ws = call[p].ws
      /\ Busy(p) /\ pc[p] = "lookup"
  BY DEF LookupHit, HitAllowed, Busy
<1>2. \A q \in Reqs : pc[q] # "drop"
  BY <1>1 DEF Alone, Busy
<1>3. cache[Target(p)] = row[Target(p)]
  BY <1>1, <1>2 DEF EntryFresh, Undisturbed
<1>4. Visible(Target(p), call[p].ws)
  BY <1>1, <1>3 DEF Visible, CacheSound
<1>5. QED
  BY <1>3, <1>4

\* The same of a page.
LEMMA PageHitCurrent ==
  ASSUME IInv, Alone, Undisturbed, NEW p \in Reqs, ListHit(p)
  PROVE  lists[call[p].ws] = VisiblePage(call[p].ws)
<1> USE DEF IInv, TypeOK, HandlersType, StoresType
<1>1. call[p].ws \in DOMAIN lists /\ Busy(p) /\ pc[p] = "listLookup"
  BY DEF ListHit, Busy
<1>2. \A q \in Reqs : pc[q] \notin {"drop", "dropList"}
  BY <1>1 DEF Alone, Busy
<1>3. QED
  BY <1>1, <1>2 DEF ListFresh, Undisturbed

\* Nothing is overtaken, nor left stale.
LEMMA StaysUndisturbed ==
  ASSUME Faults = {}, IInv, Alone, Alone', Undisturbed, NEW p \in Reqs, StepOf(p)
  PROVE  Undisturbed'
<1> USE DEF IInv, TypeOK, HandlersType, StoresType, Undisturbed
<1>o. ASSUME Overlap(p), Busy(p) PROVE \A q \in Reqs : ~raced'[q]
  BY <1>o DEF Overlap, Alone, Busy, Holding
<1>1. CASE LookupHit(p)
  BY <1>1, HitCurrent DEF LookupHit
<1>2. CASE Query(p) \/ ListQuery(p)
  BY <1>2 DEF Query, ListQuery
<1>3. CASE Fill(p) \/ ListFill(p)
  BY <1>3 DEF Fill, ListFill
<1>4. CASE SaveUpdate(p)
  BY <1>4, <1>o DEF SaveUpdate, Busy
<1>5. CASE Remove(p) \/ Insert(p)
  BY <1>5, <1>o DEF Remove, Insert, Busy
<1>6. CASE Drop(p) \/ DropList(p)
  BY <1>6 DEF Drop, DropList
<1>7. CASE Start(p) \/ LookupMiss(p) \/ SaveLoad(p) \/ Publish(p)
           \/ ListHit(p) \/ ListMiss(p) \/ DbError(p) \/ Crash(p)
  BY <1>7 DEF Start, LookupMiss, SaveLoad, Publish, ListHit, ListMiss, DbError, Crash
<1>8. QED
  BY <1>1, <1>2, <1>3, <1>4, <1>5, <1>6, <1>7 DEF StepOf, Handle

PhaseOf(p) == IF pc[p] = "idle" THEN "idle"
              ELSE IF Effected(p) THEN "effected" ELSE "called"
SettledOf(p) == IF Effected(p) /\ pc[p] # "done" THEN "ok" ELSE reply[p]
SeenOf(p) == IF call[p].op = "get" /\ reply[p] = "ok" THEN ent[p] ELSE Null
ListedOf(p) == IF call[p].op = "list" /\ reply[p] = "ok" THEN page[p] ELSE {}

\* A handler's step shows in the abstract state of its own request only.
LEMMA MappedFrame ==
  ASSUME TypeOK, NEW p \in Reqs, StepOf(p)
  PROVE  /\ Phase' = [Phase EXCEPT ![p] = PhaseOf(p)']
         /\ Settled' = [Settled EXCEPT ![p] = SettledOf(p)']
         /\ Seen' = [Seen EXCEPT ![p] = SeenOf(p)']
         /\ Listed' = [Listed EXCEPT ![p] = ListedOf(p)']
<1>1. ASSUME NEW q \in Reqs, q # p
      PROVE  /\ PhaseOf(q)' = PhaseOf(q) /\ SettledOf(q)' = SettledOf(q)
             /\ SeenOf(q)' = SeenOf(q) /\ ListedOf(q)' = ListedOf(q)
  <2>1. Same(q) /\ reply'[q] = reply[q]
    BY <1>1, OthersSame, OthersAnswerSame DEF SameAnswer
  <2>2. QED
    BY <2>1 DEF Same, PhaseOf, SettledOf, SeenOf, ListedOf, Effected
<1>2. Phase = [q \in Reqs |-> PhaseOf(q)] /\ Phase' = [q \in Reqs |-> PhaseOf(q)']
  BY DEF Phase, PhaseOf
<1>3. Settled = [q \in Reqs |-> SettledOf(q)] /\ Settled' = [q \in Reqs |-> SettledOf(q)']
  BY DEF Settled, SettledOf
<1>4. Seen = [q \in Reqs |-> SeenOf(q)] /\ Seen' = [q \in Reqs |-> SeenOf(q)']
  BY DEF Seen, SeenOf
<1>5. Listed = [q \in Reqs |-> ListedOf(q)] /\ Listed' = [q \in Reqs |-> ListedOf(q)']
  BY DEF Listed, ListedOf
<1>6. QED
  BY <1>1, <1>2, <1>3, <1>4, <1>5

\* A step that leaves the table, the calls and the mapped state of its own
\* request alone is invisible.
LEMMA Invisible ==
  ASSUME TypeOK, NEW p \in Reqs, StepOf(p), UNCHANGED <<row, call>>,
         PhaseOf(p)' = PhaseOf(p), SettledOf(p)' = SettledOf(p),
         SeenOf(p)' = SeenOf(p), ListedOf(p)' = ListedOf(p)
  PROVE  UNCHANGED Atomic!vars
<1>1. /\ Phase' = Phase /\ Settled' = Settled
      /\ Seen' = Seen /\ Listed' = Listed
  <2>1. Phase = [Phase EXCEPT ![p] = PhaseOf(p)]
    BY DEF Phase, PhaseOf
  <2>2. Settled = [Settled EXCEPT ![p] = SettledOf(p)]
    BY DEF Settled, SettledOf
  <2>3. Seen = [Seen EXCEPT ![p] = SeenOf(p)]
    BY DEF Seen, SeenOf
  <2>4. Listed = [Listed EXCEPT ![p] = ListedOf(p)]
    BY DEF Listed, ListedOf
  <2>5. QED
    BY <2>1, <2>2, <2>3, <2>4, MappedFrame
<1>2. QED
  BY <1>1 DEF Atomic!vars

\* The abstract operators on rows are those of the service.
LEMMA SameOperators ==
  /\ \A r, d, p : Atomic!Merged(r, d, p) = Merged(r, d, p)
  /\ \A r : Atomic!Removed(r) = Removed(r)
  /\ \A c : Atomic!NewRow(c) = NewRow(c)
  /\ \A t, w : Atomic!Visible(t, w) <=> Visible(t, w)
<1>1. \A r, d, p : Atomic!Merged(r, d, p) = Merged(r, d, p)
  BY DEF Atomic!Merged, Merged, Atomic!Given, Given, Atomic!Statuses, Statuses
<1>2. \A r : Atomic!Removed(r) = Removed(r)
  BY DEF Atomic!Removed, Removed
<1>3. \A c : Atomic!NewRow(c) = NewRow(c)
  BY DEF Atomic!NewRow, NewRow, Atomic!Given, Given
<1>4. \A t, w : Atomic!Visible(t, w) <=> Visible(t, w)
  BY DEF Atomic!Visible, Visible
<1>5. QED
  BY <1>1, <1>2, <1>3, <1>4

\* A step in which the request takes effect is an abstract effect.
LEMMA TakesEffect ==
  ASSUME TypeOK, NEW p \in Reqs, StepOf(p), NEW out,
         pc[p] # "idle", ~Effected(p), Effected(p)', SettledOf(p)' = out,
         UNCHANGED call
  PROVE  Atomic!Effect(p, out)
<1>1. Phase[p] = "called" /\ PhaseOf(p)' = "effected"
  BY DEF Phase, PhaseOf, Effected
<1>2. QED
  BY <1>1, MappedFrame DEF Atomic!Effect

\* What a get or a list shows is untouched by the other operations.
LEMMA SeenSame ==
  ASSUME TypeOK, NEW p \in Reqs, StepOf(p), SeenOf(p)' = SeenOf(p)
  PROVE  Seen' = Seen
<1>1. Seen = [Seen EXCEPT ![p] = SeenOf(p)]
  BY DEF Seen, SeenOf
<1>2. QED
  BY <1>1, MappedFrame

LEMMA ListedSame ==
  ASSUME TypeOK, NEW p \in Reqs, StepOf(p), ListedOf(p)' = ListedOf(p)
  PROVE  Listed' = Listed
<1>1. Listed = [Listed EXCEPT ![p] = ListedOf(p)]
  BY DEF Listed, ListedOf
<1>2. QED
  BY <1>1, MappedFrame

\* The start of a request is an abstract invocation.
LEMMA StartInvokes ==
  ASSUME IInv, OutcomeInv, NEW p \in Reqs, Start(p)
  PROVE  Atomic!Invoke(p)
<1> USE DEF IInv, TypeOK, HandlersType
<1>s. StepOf(p)
  BY DEF StepOf
<1>1. PICK c \in Calls : call' = [call EXCEPT ![p] = c] /\ Goto(p, FirstStep(c.op))
  BY DEF Start
<1>2. FirstStep(c.op) \in {"lookup", "listLookup", "insert"}
  BY CallsType DEF FirstStep, Call, Ops
<1>3. pc[p] = "idle" /\ reply[p] = "none" /\ reply' = reply /\ row' = row
  BY DEF Start, OutcomeInv, Outcome
<1>4. PhaseOf(p)' = "called" /\ Phase[p] = "idle"
  BY <1>1, <1>2, <1>3 DEF PhaseOf, Phase, Effected
<1>5. SettledOf(p)' = SettledOf(p)
  BY <1>1, <1>2, <1>3 DEF SettledOf, Effected
<1>6. Settled' = Settled
  <2>1. Settled = [Settled EXCEPT ![p] = SettledOf(p)]
    BY DEF Settled, SettledOf
  <2>2. QED
    BY <1>5, <1>s, <2>1, MappedFrame
<1>7. Seen' = Seen /\ Listed' = Listed
  BY <1>3, <1>s, SeenSame, ListedSame DEF SeenOf, ListedOf
<1>8. Phase' = [Phase EXCEPT ![p] = "called"]
  BY <1>4, <1>s, MappedFrame
<1>9. QED
  BY <1>1, <1>3, <1>4, <1>6, <1>7, <1>8 DEF Atomic!Invoke

\* findById, from the cache or from the table, answers or goes on as the
\* abstract get, refusal and lookup of a missing task do.
LEMMA FindByIdImplements ==
  ASSUME IInv, OutcomeInv, Alone, Undisturbed, NEW p \in Reqs, NEW e,
         LookupHit(p) \/ Fill(p), Proceed(p, e),
         e = row[Target(p)], ent'[p] = e, Visible(Target(p), call[p].ws),
         UNCHANGED <<row, call, page>>
  PROVE  Atomic!Next \/ UNCHANGED Atomic!vars
<1> USE DEF IInv, TypeOK, HandlersType
<1>s. StepOf(p)
  BY DEF StepOf, Handle
<1>p. pc[p] \in {"lookup", "fill"} /\ reply[p] = "none"
  BY DEF LookupHit, Fill, OutcomeInv, Outcome
<1>f. Atomic!Found(p)
  BY SameOperators DEF Atomic!Found
<1>1. CASE call[p].op = "get" /\ Answer(p, "ok")
  <2>1. Atomic!Effect(p, "ok")
    BY <1>1, <1>p, <1>s, TakesEffect DEF Effected, SettledOf
  <2>2. SeenOf(p)' = row[Target(p)] /\ ListedOf(p)' = ListedOf(p)
    BY <1>1, <1>p DEF SeenOf, ListedOf
  <2>3. Seen' = [Seen EXCEPT ![p] = row[Target(p)]] /\ Listed' = Listed
    BY <1>s, <2>2, MappedFrame, ListedSame
  <2>4. Atomic!Get(p)
    BY <1>1, <1>f, <2>1, <2>3 DEF Atomic!Get
  <2>5. QED
    BY <2>4 DEF Atomic!Next
<1>2. CASE call[p].op = "update" /\ VersionMismatch(e, call[p].dto) /\ Answer(p, "conflict")
  <2>1. Atomic!Effect(p, "conflict")
    BY <1>2, <1>p, <1>s, TakesEffect DEF Effected, SettledOf
  <2>2. SeenOf(p)' = SeenOf(p) /\ ListedOf(p)' = ListedOf(p)
    BY <1>2, <1>p DEF SeenOf, ListedOf
  <2>3. Seen' = Seen /\ Listed' = Listed
    BY <1>s, <2>2, SeenSame, ListedSame
  <2>4. ~Atomic!UpToDate(p)
    BY <1>2 DEF VersionMismatch, Atomic!UpToDate
  <2>5. Atomic!Refuse(p)
    BY <1>2, <1>f, <2>1, <2>3, <2>4 DEF Atomic!Refuse
  <2>6. QED
    BY <2>5 DEF Atomic!Next
<1>3. CASE Goto(p, "remove") \/ Goto(p, "load")
  <2>1. /\ PhaseOf(p)' = PhaseOf(p) /\ SettledOf(p)' = SettledOf(p)
        /\ SeenOf(p)' = SeenOf(p) /\ ListedOf(p)' = ListedOf(p)
    BY <1>3, <1>p DEF PhaseOf, SettledOf, SeenOf, ListedOf, Effected
  <2>2. QED
    BY <1>s, <2>1, Invisible
<1>4. QED
  BY <1>1, <1>2, <1>3 DEF Proceed

\* Every step of a handler is an abstract step, or invisible.
LEMMA StepImplements ==
  ASSUME Faults = {}, IInv, OutcomeInv, Alone, Undisturbed, NEW p \in Reqs, StepOf(p)
  PROVE  Atomic!Next \/ UNCHANGED Atomic!vars
<1> USE DEF IInv, TypeOK, HandlersType, StoresType
<1>u. ~raced[p] /\ Current(p)
  BY DEF Undisturbed, HeldFresh
<1>x. Explained(p)
  BY DEF OutcomeInv, ReplyTellsOutcome, Explained, Tells
<1>1. CASE Start(p)
  BY <1>1, StartInvokes DEF Atomic!Next
<1>2. CASE LookupHit(p)
  <2>1. /\ cache[Target(p)] = row[Target(p)] /\ Visible(Target(p), call[p].ws)
        /\ Proceed(p, cache[Target(p)]) /\ ent'[p] = cache[Target(p)]
        /\ UNCHANGED <<row, call, page>>
    BY <1>2, HitCurrent DEF LookupHit
  <2>2. QED
    BY <1>2, <2>1, FindByIdImplements
<1>3. CASE Fill(p)
  <2>1. /\ ent[p] = row[Target(p)] /\ Visible(Target(p), call[p].ws)
        /\ Proceed(p, ent[p]) /\ ent'[p] = ent[p]
        /\ UNCHANGED <<row, call, page>>
    BY <1>3, <1>u DEF Fill, Current, Holding, HolderSound, Knows, Visible
  <2>2. QED
    BY <1>3, <2>1, FindByIdImplements
<1>4. CASE Query(p)
  <2>1. /\ pc[p] = "query" /\ reply[p] = "none" /\ UNCHANGED <<row, call, page>>
        /\ call[p].op \in {"get", "update", "delete"}
    BY <1>4, <1>x DEF Query, Explained, Outcome, InPlace
  <2>2. CASE Goto(p, "fill")
    <3>1. /\ PhaseOf(p)' = PhaseOf(p) /\ SettledOf(p)' = SettledOf(p)
          /\ SeenOf(p)' = SeenOf(p) /\ ListedOf(p)' = ListedOf(p)
      BY <2>1, <2>2 DEF PhaseOf, SettledOf, SeenOf, ListedOf, Effected
    <3>2. QED
      BY <2>1, <3>1, Invisible
  <2>3. CASE ~Visible(Target(p), call[p].ws) /\ Answer(p, "notFound")
    <3>1. Atomic!Effect(p, "notFound")
      BY <2>1, <2>3, TakesEffect DEF Effected, SettledOf
    <3>2. Seen' = Seen /\ Listed' = Listed
      BY <2>1, <2>3, SeenSame, ListedSame DEF SeenOf, ListedOf
    <3>3. ~Atomic!Found(p)
      BY <2>3, SameOperators DEF Atomic!Found
    <3>4. Atomic!Missing(p)
      BY <2>1, <3>1, <3>2, <3>3 DEF Atomic!Missing
    <3>5. QED
      BY <3>4 DEF Atomic!Next
  <2>4. QED
    BY <1>4, <2>2, <2>3 DEF Query
<1>5. CASE SaveUpdate(p) \/ Remove(p) \/ Insert(p)
  <2>1. /\ pc[p] \in {"store", "remove", "insert"} /\ reply'[p] = "none"
        /\ reply[p] = "none" /\ pc'[p] \in {"drop", "dropList"}
        /\ UNCHANGED <<call, ent, page>>
    BY <1>5, <1>x DEF SaveUpdate, Remove, Insert, Explained, Outcome
  <2>2. Atomic!Effect(p, "ok")
    BY <2>1, TakesEffect DEF Effected, SettledOf
  <2>3. Seen' = Seen /\ Listed' = Listed
    BY <2>1, SeenSame, ListedSame DEF SeenOf, ListedOf
  <2>4. CASE SaveUpdate(p)
    <3>1. /\ Target(p) \in DOMAIN row /\ row[Target(p)].ws = call[p].ws
          /\ call[p].op = "update"
      BY <2>4 DEF SaveUpdate, HolderSound, Knows, Holding
    <3>2. /\ ~row[Target(p)].deleted
          /\ call[p].dto.version \in {Undef, row[Target(p)].version}
          /\ row'[Target(p)] = Merged(row[Target(p)], call[p].dto, p)
      BY <1>u, <2>4, CleanCommit DEF Sound
    <3>3. row' = [row EXCEPT ![Target(p)] = Merged(row[Target(p)], call[p].dto, p)]
      BY <2>4, <3>1, <3>2 DEF SaveUpdate
    <3>4. Atomic!Found(p) /\ Atomic!UpToDate(p)
      BY <3>1, <3>2, SameOperators DEF Atomic!Found, Atomic!UpToDate, Visible
    <3>5. Atomic!Update(p)
      BY <2>2, <2>3, <3>1, <3>3, <3>4, SameOperators DEF Atomic!Update
    <3>6. QED
      BY <3>5 DEF Atomic!Next
  <2>5. CASE Remove(p)
    <3>1. /\ Visible(Target(p), call[p].ws) /\ call[p].op = "delete"
      BY <1>u, <1>x, <2>5 DEF Remove, HolderSound, Knows, Holding, Current,
         Visible, Explained, InPlace
    <3>2. row' = [row EXCEPT ![Target(p)] = Removed(row[Target(p)])]
      BY <2>5 DEF Remove
    <3>3. Atomic!Delete(p)
      BY <2>2, <2>3, <3>1, <3>2, SameOperators DEF Atomic!Delete, Atomic!Found
    <3>4. QED
      BY <3>3 DEF Atomic!Next
  <2>6. CASE Insert(p)
    <3>1. call[p].op = "create" /\ Target(p) \notin DOMAIN row
      BY <2>6 DEF Insert, IdsFresh
    <3>2. row' = [x \in DOMAIN row \cup {Target(p)} |->
                    IF x = Target(p) THEN NewRow(call[p]) ELSE row[x]]
      BY <2>6 DEF Insert, Put
    <3>3. Atomic!Create(p)
      BY <2>2, <2>3, <3>1, <3>2, SameOperators DEF Atomic!Create
    <3>4. QED
      BY <3>3 DEF Atomic!Next
  <2>7. QED
    BY <1>5, <2>4, <2>5, <2>6
<1>6. CASE ListHit(p) \/ ListFill(p)
  <2>1. /\ pc[p] \in {"listLookup", "listFill"} /\ reply[p] = "none"
        /\ call[p].op = "list" /\ UNCHANGED <<row, call, ent>> /\ Answer(p, "ok")
    BY <1>6, <1>x DEF ListHit, ListFill, Explained, Outcome, InPlace
  <2>2. page'[p] = VisiblePage(call[p].ws)
    <3>1. CASE ListHit(p)
      BY <3>1, PageHitCurrent DEF ListHit
    <3>2. CASE ListFill(p)
      BY <1>u, <3>2 DEF ListFill, Current
    <3>3. QED
      BY <1>6, <3>1, <3>2
  <2>3. Atomic!Effect(p, "ok")
    BY <2>1, TakesEffect DEF Effected, SettledOf
  <2>4. ListedOf(p)' = VisiblePage(call[p].ws) /\ SeenOf(p)' = SeenOf(p)
    BY <2>1, <2>2 DEF ListedOf, SeenOf
  <2>5. VisiblePage(call[p].ws) =
          {[id |-> t, val |-> row[t]] :
             t \in {x \in DOMAIN row : Atomic!Visible(x, call[p].ws)}}
    <3>1. {x \in Tasks : Visible(x, call[p].ws)}
            = {x \in DOMAIN row : Atomic!Visible(x, call[p].ws)}
      BY SameOperators DEF Visible
    <3>2. QED
      BY <3>1 DEF VisiblePage
  <2>6. Listed' = [Listed EXCEPT ![p] = VisiblePage(call[p].ws)] /\ Seen' = Seen
    BY <2>4, MappedFrame, SeenSame
  <2>7. Atomic!List(p)
    BY <2>1, <2>3, <2>5, <2>6 DEF Atomic!List
  <2>8. QED
    BY <2>7 DEF Atomic!Next
<1>7. CASE LookupMiss(p) \/ SaveLoad(p) \/ ListMiss(p) \/ ListQuery(p)
  <2>1. /\ pc[p] \in {"lookup", "load", "listLookup", "listQuery"}
        /\ pc'[p] \in {"query", "store", "listQuery", "listFill"}
        /\ reply' = reply /\ reply[p] = "none" /\ UNCHANGED <<row, call, ent>>
    BY <1>7, <1>x DEF LookupMiss, SaveLoad, ListMiss, ListQuery, Explained, Outcome
  <2>2. /\ PhaseOf(p)' = PhaseOf(p) /\ SettledOf(p)' = SettledOf(p)
        /\ SeenOf(p)' = SeenOf(p) /\ ListedOf(p)' = ListedOf(p)
    BY <2>1 DEF PhaseOf, SettledOf, SeenOf, ListedOf, Effected
  <2>3. QED
    BY <2>1, <2>2, Invisible
<1>8. CASE Drop(p) \/ DropList(p) \/ Publish(p)
  <2>1. /\ pc[p] \in {"drop", "dropList", "publish"}
        /\ \/ pc'[p] \in {"dropList", "publish"} /\ reply'[p] = reply[p]
           \/ pc'[p] = "done" /\ reply'[p] = "ok"
        /\ call[p].op \in {"create", "update", "delete"}
        /\ UNCHANGED <<row, call, ent, page>>
    BY <1>8, <1>x DEF Drop, DropList, Publish, Explained, InPlace
  <2>2. /\ PhaseOf(p)' = PhaseOf(p) /\ SettledOf(p)' = SettledOf(p)
        /\ SeenOf(p)' = SeenOf(p) /\ ListedOf(p)' = ListedOf(p)
    BY <2>1 DEF PhaseOf, SettledOf, SeenOf, ListedOf, Effected
  <2>3. QED
    BY <2>1, <2>2, Invisible
<1>9. ~DbError(p) /\ ~Crash(p)
  BY DEF DbError, Crash
<1>10. QED
  BY <1>1, <1>2, <1>3, <1>4, <1>5, <1>6, <1>7, <1>8, <1>9 DEF StepOf, Handle

\* Nothing is stale at any time, when requests come one at a time and nothing
\* fails.
LEMMA AlwaysUndisturbed ==
  ASSUME Serial, Faults = {}
  PROVE  Spec => []Undisturbed
<1>1. Init => Undisturbed
  BY DEF Init, Undisturbed
<1>2. IInv /\ SerialInv /\ SerialInv' /\ Undisturbed /\ [Next]_vars => Undisturbed'
  <2> SUFFICES ASSUME IInv, SerialInv, SerialInv', Undisturbed, [Next]_vars
               PROVE  Undisturbed'
    OBVIOUS
  <2>1. ASSUME NEW p \in Reqs, StepOf(p) PROVE Undisturbed'
    BY <2>1, StaysUndisturbed DEF SerialInv
  <2>2. CASE ExpiryStep
    <3>1. UNCHANGED raced
      BY <2>2, ExpiryFrame
    <3>2. loose' = {} /\ looseLists' = {}
      BY <2>2 DEF ExpiryStep, Expire, ExpireList, vars, Undisturbed
    <3>3. QED
      BY <3>1, <3>2 DEF Undisturbed
  <2>3. QED
    BY <2>1, <2>2, StepCases
<1>3. Spec => []SerialInv
  BY AlwaysSerial
<1>4. QED
  BY <1>1, <1>2, <1>3, Inductive, PTL DEF Spec

\* With requests one at a time and no fault, the handlers with their cache, ORM
\* and awaits implement tasks that take effect at one instant each.
THEOREM ImplementsAtomicTask ==
  ASSUME Serial, Faults = {}
  PROVE  Spec => AtomicTasks
<1>1. Init => Atomic!Init
  BY DEF Init, Atomic!Init, Phase, Settled, Seen, Listed, Effected
<1>2. IInv /\ OutcomeInv /\ SerialInv /\ Undisturbed /\ [Next]_vars
        => [Atomic!Next]_(Atomic!vars)
  <2> SUFFICES ASSUME IInv, OutcomeInv, SerialInv, Undisturbed, [Next]_vars
               PROVE  Atomic!Next \/ UNCHANGED Atomic!vars
    OBVIOUS
  <2>1. ASSUME NEW p \in Reqs, StepOf(p)
        PROVE  Atomic!Next \/ UNCHANGED Atomic!vars
    BY <2>1, StepImplements DEF SerialInv
  <2>2. CASE ExpiryStep
    <3>1. UNCHANGED <<row, call, pc, ent, page, reply>>
      BY <2>2, ExpiryFrame DEF ExpiryStep, Expire, ExpireList, vars
    <3>2. QED
      BY <3>1 DEF Atomic!vars, Phase, Settled, Seen, Listed, Effected
  <2>3. QED
    BY <2>1, <2>2, StepCases
<1>3. Spec => []SerialInv
  BY AlwaysSerial
<1>4. Spec => []Undisturbed
  BY AlwaysUndisturbed
<1>5. QED
  BY <1>1, <1>2, <1>3, <1>4, Inductive, AlwaysOutcome, PTL
     DEF Spec, AtomicTasks, Atomic!Spec
=============================================================================
