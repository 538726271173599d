------------------------------- MODULE Browser -------------------------------
(***************************************************************************)
(* One open page of the front end: its query cache (endpoints over         *)
(* createApi), the board with its drawer and its drag and drop, the        *)
(* notification bell, and the socket that should tell it of the changes of *)
(* others.  Calls and their answers travel independently of each other.    *)
(* The server applies a call in one step (its own races are the subject of *)
(* TaskService): a task is its version, which every change increments, and *)
(* 0 before the task is created.                                           *)
(***************************************************************************)
EXTENDS Integers, FiniteSets

CONSTANTS
  Tasks, Notes,
  NoTask, NoData,
  MaxCalls,                          \* bound: mutations the page has under way at once
  MaxEvents                          \* bound: what the user and others do, and what fails

ASSUME BrowserAssumption ==
  /\ NoTask \notin Tasks /\ {"board", "notes"} \cap Tasks = {} /\ Tasks \cap Notes = {}
  /\ MaxCalls \in Nat /\ MaxEvents \in Nat

Keys == {"board", "notes"} \cup Tasks      \* getTasks, getNotifications, getTaskById
Calls == 1..MaxCalls

VARIABLES
  version,     \* the task table: the version of each task
  note,        \* the notifications of the user: none, unread or read
  query,       \* the cache: a query's state, its data, and the answer under way
  call,        \* the mutations under way
  tags,        \* pendingTagInvalidations
  selected,    \* selectedTaskId: the task whose drawer is open
  shown,       \* what the drawer's useGetTaskByIdQuery last returned as data
  socket,      \* none, connecting, connected, closed by the server
  rooms,       \* the rooms of the gateway the page's socket is in
  told,        \* history: the version of each task when the server last answered this page
  left         \* how much may still happen

vars == <<version, note, query, call, tags, selected, shown, socket, rooms, told, left>>
server == <<version, note>>
page == <<query, call, tags, selected, shown>>
wire == <<socket, rooms>>

NoQuery == [state |-> "none", data |-> NoData, answer |-> NoData]
NoCall == [state |-> "idle", op |-> "none", on |-> NoTask, version |-> 0, of |-> NoTask]
Sent(q) == [q EXCEPT !.state = "sent", !.answer = NoData]

Spend == left > 0 /\ left' = left - 1

---------------------------------------------------------------------------
(* The query cache *)

Tag(k) == IF k = "notes" THEN "Notification" ELSE "Task"
Subscribed(k, s) == k \in {"board", "notes", s}

Waiting(q, c) == \/ \E k \in Keys : q[k].state \in {"sent", "answered"}
                 \/ \E i \in Calls : c[i].state # "idle"

\* What a query invalidated becomes: it is sent again, or dropped when nobody shows it.
Refetched(q, k) ==
  IF q[k].state = "none" THEN q[k]
  ELSE IF Subscribed(k, selected) THEN Sent(q[k]) ELSE NoQuery

\* (defect) tags are applied at once, and a query already under way is not sent again.
Eagerly(q, c, t) ==
  /\ query' = [k \in Keys |-> IF Tag(k) \in t /\ q[k].state \notin {"sent", "answered"}
                              THEN Refetched(q, k) ELSE q[k]]
  /\ call' = c /\ tags' = {}

\* invalidationBehavior "delayed": tags wait until no query and no mutation is under way.
Invalidate(q, c, t) ==
  /\ call' = c
  /\ IF Waiting(q, c) THEN query' = q /\ tags' = t
     ELSE /\ query' = [k \in Keys |-> IF Tag(k) \in t THEN Refetched(q, k) ELSE q[k]]
          /\ tags' = {}

\* (defect) the drawer keeps the first task it was given.
LookOnce(s, q) ==
  IF s # NoTask /\ q[s].state = "done" /\ shown = <<>> THEN <<s, q[s].data>> ELSE shown

\* data of useQuery: that of the current argument when its last fetch succeeded, else
\* the data it returned before, be it of another task.
Look(s, q) == IF s # NoTask /\ q[s].state = "done" THEN <<s, q[s].data>> ELSE shown

\* (defect) the list leaves out what is unread.
RowOfRead(k) ==
  CASE k = "board" -> version
    [] k = "notes" -> [n \in Notes |-> IF note[n] = "read" THEN "read" ELSE "none"]
    [] OTHER -> version[k]

\* What the server answers to a query.
Row(k) == CASE k = "board" -> version [] k = "notes" -> note [] OTHER -> version[k]

\* The server answers a query, or the call fails on its way.
Answer(k) ==
  /\ query[k].state = "sent"
  /\ \E a \in {Row(k), NoData} :
       /\ query' = [query EXCEPT ![k] = [query[k] EXCEPT !.state = "answered", !.answer = a]]
       /\ IF a = NoData THEN Spend ELSE UNCHANGED left
  /\ UNCHANGED <<server, call, tags, selected, shown, wire, told>>

\* What the answer of query k makes of it: a failed one keeps the data of before.
Ended(k) ==
  IF query[k].answer = NoData THEN [query[k] EXCEPT !.state = "failed"]
  ELSE [state |-> "done", data |-> query[k].answer, answer |-> NoData]

\* The answer reaches the page.
Deliver(k) ==
  /\ query[k].state = "answered"
  /\ Invalidate([query EXCEPT ![k] = Ended(k)], call, tags)
  /\ shown' = Look(selected, [query EXCEPT ![k] = Ended(k)])
  /\ UNCHANGED <<server, selected, wire, told, left>>

\* keepUnusedDataFor: an entry nobody shows is dropped.
Evict(k) ==
  /\ ~Subscribed(k, selected) /\ query[k].state \in {"done", "failed"}
  /\ query' = [query EXCEPT ![k] = NoQuery]
  /\ UNCHANGED <<server, call, tags, selected, shown, wire, told, left>>

\* Navbar: pollingInterval 15000 of getNotifications.
Poll ==
  /\ query["notes"].state \in {"done", "failed"}
  /\ query' = [query EXCEPT !["notes"] = Sent(query["notes"])]
  /\ UNCHANGED <<server, call, tags, selected, shown, wire, told, left>>

---------------------------------------------------------------------------
(* The gateway *)

\* socketService.connect presents auth: { token } and a query that names the workspace.
Handshake == {"auth.token", "query.workspaceId"}

\* extractToken: from the authorization header, else from the query.
HasToken == Handshake \cap {"headers.authorization", "query.token"} # {}

\* io() connects, and connects again after a failure of the network.
Connected ==
  /\ socket = "connecting" /\ socket' = "connected"
  /\ UNCHANGED <<server, page, rooms, told, left>>

\* handleConnection: a socket without a token is disconnected, and one that the server
\* disconnected does not connect again by itself; any other joins its user's room.
HandleConnection ==
  /\ socket = "connected" /\ rooms = {}
  /\ IF HasToken THEN rooms' = {"user"} /\ UNCHANGED socket
     ELSE socket' = "closed" /\ UNCHANGED rooms
  /\ UNCHANGED <<server, page, told, left>>

Drop ==
  /\ socket = "connected" /\ socket' = "connecting" /\ rooms' = {} /\ Spend
  /\ UNCHANGED <<server, page, told>>

\* The effect of useSocket runs again for a new token: connect keeps a connected socket.
NewToken ==
  /\ socket' = IF socket = "connected" THEN socket ELSE "connecting"
  /\ Spend /\ UNCHANGED <<server, page, rooms, told>>

\* An event sent to room r: the listener of useSocket invalidates tag t.
Emit(r, t) == IF r \in rooms THEN Invalidate(query, call, tags \cup {t})
              ELSE UNCHANGED <<query, call, tags>>

---------------------------------------------------------------------------
(* The user of the page *)

Board == query["board"].data
OnBoard(t) == Board # NoData /\ Board[t] > 0

\* (defect) the board counts on the update before it is answered.
StartHopeful(i, op, x, v, t) ==
  /\ call[i].state = "idle" /\ (\A j \in 1..(i - 1) : call[j].state # "idle") /\ Spend
  /\ call' = [call EXCEPT ![i] = [state |-> "sent", op |-> op, on |-> x, version |-> v, of |-> t]]
  /\ query' = IF op = "update" THEN [query EXCEPT !["board"].data[x] = v + 1] ELSE query
  /\ UNCHANGED <<server, tags, selected, shown, wire, told>>

\* A mutation op on x, with version v of the data of task t, in the first free place.
Start(i, op, x, v, t) ==
  /\ call[i].state = "idle" /\ (\A j \in 1..(i - 1) : call[j].state # "idle") /\ Spend
  /\ call' = [call EXCEPT ![i] = [state |-> "sent", op |-> op, on |-> x, version |-> v, of |-> t]]
  /\ UNCHANGED <<server, query, tags, selected, shown, wire, told>>

\* A click on a card, a row or a subtask opens the drawer; its query is sent unless the
\* cache holds its answer or it is under way.
Select(t) ==
  /\ OnBoard(t) /\ selected # t
  /\ selected' = t
  /\ query' = IF query[t].data = NoData /\ query[t].state \in {"none", "failed"}
              THEN [query EXCEPT ![t] = Sent(query[t])] ELSE query
  /\ shown' = Look(t, query')
  /\ Spend /\ UNCHANGED <<server, call, tags, wire, told>>

Close ==
  /\ selected # NoTask /\ selected' = NoTask
  /\ UNCHANGED <<server, query, call, tags, shown, wire, told, left>>

\* handleDragEnd: a card dropped on another column, with the version of the board.
Drag(i, t) == selected = NoTask /\ OnBoard(t) /\ Start(i, "update", t, Board[t], t)

\* handleFieldChange: taskId from the selection, version from the data shown.
Edit(i) ==
  /\ selected # NoTask /\ shown # <<>>
  /\ Start(i, "update", selected, shown[2], shown[1])

\* handleCreateTask, and handleAddSubtask for a task that is shown.
Create(i) ==
  /\ IF selected = NoTask THEN Board # NoData ELSE shown # <<>>
  /\ Start(i, "create", NoTask, 0, NoTask)

List == query["notes"].data
Unread == IF List = NoData THEN {} ELSE {n \in Notes : List[n] = "unread"}

\* A click on an unread notification, or on "Mark all read".
MarkRead(i, n) == n \in Unread /\ Start(i, "read", n, 0, NoTask)
MarkAllRead(i) == Unread # {} /\ Start(i, "readAll", NoTask, 0, NoTask)

---------------------------------------------------------------------------
(* The server *)

\* A write is applied when its version is the row's, else refused; it leaves the row as it
\* is when the field has that value already, as one read from another task may.
Update(i) ==
  LET t == call[i].on
      as == IF call[i].version # version[t] THEN {version[t]}
            ELSE {version[t] + 1} \cup IF call[i].of = t THEN {} ELSE {version[t]}
  IN  /\ call[i].op = "update"
      /\ \E v \in as : version' = [version EXCEPT ![t] = v] /\ told' = [told EXCEPT ![t] = v]
      /\ UNCHANGED note

\* A new row; the server has room for the tasks of the instance only.
Insert(i) ==
  /\ call[i].op = "create"
  /\ \/ \E t \in Tasks : /\ version[t] = 0 /\ version' = [version EXCEPT ![t] = 1]
                          /\ told' = [told EXCEPT ![t] = 1]
     \/ (\A t \in Tasks : version[t] > 0) /\ UNCHANGED <<version, told>>
  /\ UNCHANGED note

\* NotificationService.markAsRead
Read(i) ==
  /\ call[i].op = "read"
  /\ note' = [note EXCEPT ![call[i].on] = "read"]
  /\ told' = [told EXCEPT ![call[i].on] = 1] /\ UNCHANGED version

\* NotificationService.markAllAsRead
ReadAll(i) ==
  /\ call[i].op = "readAll"
  /\ note' = [n \in Notes |-> IF note[n] = "none" THEN "none" ELSE "read"]
  /\ told' = [x \in Tasks \cup Notes |-> IF x \in Notes /\ note[x] # "none" THEN 1 ELSE told[x]]
  /\ UNCHANGED version

\* The server applies a mutation and emits what it changed.
Apply(i) ==
  /\ call[i].state = "sent"
  /\ \/ Update(i) \/ Insert(i) \/ Read(i) \/ ReadAll(i)
  /\ LET c == [call EXCEPT ![i] = [call[i] EXCEPT !.state = "answered"]]
     IN  IF version' # version /\ "workspace" \in rooms
         THEN Invalidate(query, c, tags \cup {"Task"})
         ELSE call' = c /\ UNCHANGED <<query, tags>>
  /\ UNCHANGED <<selected, shown, wire, left>>

\* The call fails before it reaches the server; the page gets an error.
Fail(i) ==
  /\ call[i].state = "sent" /\ Spend
  /\ call' = [call EXCEPT ![i] = [call[i] EXCEPT !.state = "answered"]]
  /\ UNCHANGED <<server, query, tags, selected, shown, wire, told>>

Invalidates(i) == IF call[i].op \in {"read", "readAll"} THEN "Notification" ELSE "Task"

\* The answer reaches the page, which invalidates whether or not the call succeeded.
Returned(i) ==
  /\ call[i].state = "answered"
  /\ Invalidate(query, [call EXCEPT ![i] = NoCall], tags \cup {Invalidates(i)})
  /\ UNCHANGED <<server, selected, shown, wire, told, left>>

\* Another user changes or creates a task.
Others(t) ==
  /\ version' = [version EXCEPT ![t] = @ + 1]
  /\ Emit("workspace", "Task")
  /\ Spend /\ UNCHANGED <<note, selected, shown, wire, told>>

\* NotificationService stores a notification for the user and emits it.
Notify(n) ==
  /\ note[n] = "none" /\ note' = [note EXCEPT ![n] = "unread"]
  /\ Emit("user", "Notification")
  /\ Spend /\ UNCHANGED <<version, selected, shown, wire, told>>

---------------------------------------------------------------------------
\* The page is mounted: its queries are sent and its socket connects.
Init ==
  /\ version \in [Tasks -> {0, 1}] /\ note = [n \in Notes |-> "none"]
  /\ query = [k \in Keys |-> IF k \in Tasks THEN NoQuery ELSE Sent(NoQuery)]
  /\ call = [i \in Calls |-> NoCall] /\ tags = {}
  /\ selected = NoTask /\ shown = <<>>
  /\ socket = "connecting" /\ rooms = {}
  /\ told = [x \in Tasks \cup Notes |-> 0]
  /\ left = MaxEvents

Cache == (\E k \in Keys : Answer(k) \/ Deliver(k) \/ Evict(k)) \/ Poll
Realtime == Connected \/ HandleConnection \/ Drop \/ NewToken
User ==
  \/ Close
  \/ \E t \in Tasks : Select(t)
  \/ \E i \in Calls :
        \/ Edit(i) \/ Create(i) \/ MarkAllRead(i)
        \/ \E t \in Tasks : Drag(i, t)
        \/ \E n \in Notes : MarkRead(i, n)
Server == \/ \E i \in Calls : Apply(i) \/ Fail(i) \/ Returned(i)
          \/ \E t \in Tasks : Others(t)
          \/ \E n \in Notes : Notify(n)

Next == Cache \/ Realtime \/ User \/ Server
Spec == Init /\ [][Next]_vars

\* Calls are answered and their answers arrive, timers fire, the network comes back.
Fairness ==
  /\ \A k \in Keys : WF_vars(Answer(k)) /\ WF_vars(Deliver(k))
  /\ \A i \in Calls : WF_vars(Apply(i)) /\ WF_vars(Returned(i))
  /\ WF_vars(Poll) /\ WF_vars(Connected) /\ WF_vars(HandleConnection)
FairSpec == Spec /\ Fairness

---------------------------------------------------------------------------
(* Properties *)

Rows == [Tasks -> Nat]
Lists == [Notes -> {"none", "unread", "read"}]
Datum(k) == {NoData} \cup (CASE k = "board" -> Rows [] k = "notes" -> Lists [] OTHER -> Nat)

\* Type correctness: each query holds data of its own kind.
TypeOK ==
  /\ version \in Rows /\ note \in Lists /\ told \in [Tasks \cup Notes -> Nat]
  /\ DOMAIN query = Keys
  /\ \A k \in Keys :
       query[k] \in [state : {"none", "sent", "answered", "done", "failed"},
                    data : Datum(k), answer : Datum(k)]
  /\ call \in [Calls -> [state : {"idle", "sent", "answered"},
                         op : {"none", "update", "create", "read", "readAll"},
                         on : Tasks \cup Notes \cup {NoTask}, version : Nat,
                         of : Tasks \cup {NoTask}]]
  /\ tags \subseteq {"Task", "Notification"}
  /\ selected \in Tasks \cup {NoTask} /\ shown \in {<<>>} \cup (Tasks \X Nat)
  /\ socket \in {"connecting", "connected", "closed"} /\ rooms \subseteq {"user", "workspace"}
  /\ left \in Nat

\* A page at rest shows, wherever its last fetch succeeded, at least what the server last
\* told it: the outcome of its own writes, and after a refused write what refused it
\* (invalidatesTags of every mutation, applied on errors too, and never while an older
\* answer is under way).
RestShowsTold ==
  ~Waiting(query, call) =>
    /\ tags = {}
    /\ query["board"].state = "done" => \A t \in Tasks : Board[t] >= told[t]
    /\ query["notes"].state = "done" => \A n \in Notes : told[n] = 1 => List[n] = "read"
    /\ \A t \in Tasks : query[t].state = "done" => query[t].data >= told[t]

\* The drawer shows another task than the selected one only while the answer for the
\* selected one is awaited or has failed; its writes may then carry a foreign version
\* (TaskDetailsDrawer: handleFieldChange).
ForeignOnlyWhileAwaited ==
  selected # NoTask /\ shown # <<>> /\ shown[1] # selected =>
    query[selected].state \in {"sent", "answered", "failed"}

\* What a query shows never goes back: a list or a task never gives way to an older
\* version of itself (one request per cache key at a time).
NeverBack ==
  [][/\ Board # NoData => \A t \in Tasks : Board'[t] >= Board[t]
     /\ List # NoData => \A n \in Notes : List[n] = "read" => List'[n] = "read"
     /\ \A t \in Tasks : query[t].data # NoData /\ query'[t].data # NoData
                           => query'[t].data >= query[t].data]_vars

\* Once the user, the others and the faults have stopped, every call ends, no tag is left
\* waiting, and the bell shows the notifications as stored, whatever was pushed
\* (pollingInterval of Navbar).
Settles ==
  <>[](tags = {} /\ List = note /\ \A i \in Calls : call[i].state = "idle")

\* The gateway's "Automatically join personal room" of the page's connection
\* (handleConnection, whose token comes from "handshakes auth or query parameters").
JoinsPersonalRoom == <>("user" \in rooms)
=============================================================================
