---------------------------- MODULE BrowserProofs ----------------------------
(***************************************************************************)
(* What an open page shows, for any tasks, notifications, calls and events *)
(* of the user, the others and the network. The inductive invariant says   *)
(* of each query that its answer is not older than its data and the row    *)
(* not older than either, and that what it shows tells the page's own      *)
(* writes unless it will be asked again: it is under way, its tag waits,   *)
(* or a mutation that will invalidate it does.                             *)
(***************************************************************************)
EXTENDS Browser, TLAPS

---------------------------------------------------------------------------
(* Data of a query: a is not newer than b, than the row, than what was told *)

Below(k, a, b) ==
  /\ k = "board" => \A t \in Tasks : a[t] <= b[t]
  /\ k = "notes" => \A n \in Notes : a[n] = "read" => b[n] = "read"
  /\ k \in Tasks => a <= b

BelowRow(k, a, v, m) ==
  /\ k = "board" => \A t \in Tasks : a[t] <= v[t]
  /\ k = "notes" => \A n \in Notes : a[n] = "read" => m[n] = "read"
  /\ k \in Tasks => a <= v[k]

Shows(k, a, w) ==
  /\ k = "board" => \A t \in Tasks : a[t] >= w[t]
  /\ k = "notes" => \A n \in Notes : w[n] = 1 => a[n] = "read"
  /\ k \in Tasks => a >= w[k]

Query(k) == [state : {"none", "sent", "answered", "done", "failed"},
             data : Datum(k), answer : Datum(k)]
Mutation == [state : {"idle", "sent", "answered"},
             op : {"none", "update", "create", "read", "readAll"},
             on : Tasks \cup Notes \cup {NoTask}, version : Nat, of : Tasks \cup {NoTask}]

\* A query never holds what is newer than the table v, m, nor data newer than its answer.
Sound(k, r, v, m) ==
  /\ r \in Query(k)
  /\ r.state = "done" => r.data # NoData
  /\ r.state = "none" => r.data = NoData
  /\ r.state = "sent" => r.answer = NoData
  /\ r.data # NoData => BelowRow(k, r.data, v, m)
  /\ r.answer # NoData => BelowRow(k, r.answer, v, m)
  /\ r.data # NoData /\ r.answer # NoData => Below(k, r.data, r.answer)

\* The tag a mutation invalidates.
Kind(o) == IF o.op \in {"read", "readAll"} THEN "Notification" ELSE "Task"

\* A query shows what the page was told, w, or will be asked again.
Cover(k, r, c, t, w) ==
  \/ r.state \in {"none", "sent", "failed"}
  \/ r.state = "done" /\ Shows(k, r.data, w)
  \/ r.state = "answered" /\ (r.answer = NoData \/ Shows(k, r.answer, w))
  \/ Tag(k) \in t
  \/ \E i \in Calls : c[i].state = "answered" /\ Kind(c[i]) = Tag(k)

\* What the page was told is not newer than the table.
Kept(v, m, w) == /\ \A t \in Tasks : w[t] <= v[t]
                 /\ \A n \in Notes : w[n] = 1 => m[n] = "read"

\* A mutation names what its kind is about.
Fits(o) == /\ o.op = "update" => o.on \in Tasks /\ o.of \in Tasks
           /\ o.op = "read" => o.on \in Notes

\* The drawer asked for the task it is open for, and shows it once it has its answer.
Looks(s, r, w) ==
  s # NoTask => /\ r[s].state # "none"
                /\ r[s].state = "done" => w # <<>> /\ w[1] = s

Sounds == \A k \in Keys : Sound(k, query[k], version, note)
Covers == \A k \in Keys : Cover(k, query[k], call, tags, told)
TagsWait == tags # {} => Waiting(query, call)

\* The types but those of the queries, which Sounds gives.
Typed ==
  /\ version \in Rows /\ note \in Lists /\ told \in [Tasks \cup Notes -> Nat]
  /\ DOMAIN query = Keys
  /\ call \in [Calls -> Mutation] /\ \A i \in Calls : Fits(call[i])
  /\ tags \subseteq {"Task", "Notification"}
  /\ selected \in Tasks \cup {NoTask} /\ shown \in {<<>>} \cup (Tasks \X Nat)
  /\ socket \in {"connecting", "connected", "closed"} /\ rooms \subseteq {"user", "workspace"}
  /\ left \in Nat

IInv == /\ Typed /\ Sounds /\ Covers /\ TagsWait
        /\ Kept(version, note, told) /\ Looks(selected, query, shown)

LEMMA TypesAre ==
  ASSUME IInv
  PROVE  TypeOK
  BY DEF IInv, Typed, Sounds, Sound, Query, Mutation, TypeOK

---------------------------------------------------------------------------
(* Keys, rows and data *)

LEMMA KeysAre ==
  /\ "board" \in Keys /\ "notes" \in Keys /\ "board" # "notes"
  /\ \A t \in Tasks : t \in Keys /\ t # "board" /\ t # "notes" /\ t # NoTask
  /\ \A k \in Keys : k = "board" \/ k = "notes" \/ k \in Tasks
  /\ \A k \in Keys : k # NoTask \/ k \in {"board", "notes"}
  BY BrowserAssumption DEF Keys

LEMMA DataAre ==
  /\ Datum("board") = {NoData} \cup Rows
  /\ Datum("notes") = {NoData} \cup Lists
  /\ \A t \in Tasks : Datum(t) = {NoData} \cup Nat
<1>1. Datum("board") = {NoData} \cup Rows
  BY Zenon DEF Datum
<1>2. Datum("notes") = {NoData} \cup Lists
  <2>1. "notes" # "board"
    OBVIOUS
  <2> QED
    BY <2>1 DEF Datum
<1>3. ASSUME NEW t \in Tasks
      PROVE  Datum(t) = {NoData} \cup Nat
  <2>1. t # "board" /\ t # "notes"
    BY KeysAre
  <2> QED
    BY <2>1 DEF Datum
<1> QED
  BY <1>1, <1>2, <1>3

LEMMA RowsAre ==
  /\ Row("board") = version /\ Row("notes") = note
  /\ \A t \in Tasks : Row(t) = version[t]
<1>1. Row("board") = version
  BY Zenon DEF Row
<1>2. Row("notes") = note
  <2>1. "notes" # "board"
    OBVIOUS
  <2> QED
    BY <2>1 DEF Row
<1>3. ASSUME NEW t \in Tasks
      PROVE  Row(t) = version[t]
  <2>1. t # "board" /\ t # "notes"
    BY KeysAre
  <2> QED
    BY <2>1 DEF Row
<1> QED
  BY <1>1, <1>2, <1>3

\* What the server answers is not older than what was answered or told before.
LEMMA RowTells ==
  ASSUME version \in Rows, note \in Lists, Kept(version, note, told), NEW k \in Keys
  PROVE  /\ Row(k) \in Datum(k) /\ BelowRow(k, Row(k), version, note)
         /\ Shows(k, Row(k), told)
         /\ \A a : BelowRow(k, a, version, note) => Below(k, a, Row(k))
<1>1. CASE k = "board"
  <2>1. Row(k) = version /\ Row(k) \in Datum(k) /\ k \notin Tasks /\ k # "notes"
    BY <1>1, KeysAre, RowsAre, DataAre
  <2>2. \A t \in Tasks : version[t] <= version[t] /\ version[t] >= told[t]
    BY DEF Rows, Kept
  <2> QED
    BY <2>1, <2>2 DEF Below, BelowRow, Shows
<1>2. CASE k = "notes"
  <2>1. Row(k) = note /\ Row(k) \in Datum(k) /\ k \notin Tasks /\ k # "board"
    BY <1>2, KeysAre, RowsAre, DataAre
  <2> QED
    BY <2>1 DEF Below, BelowRow, Shows, Kept
<1>3. CASE k \in Tasks
  <2>1. Row(k) = version[k] /\ k # "notes" /\ k # "board" /\ version[k] \in Nat
    BY <1>3, KeysAre, RowsAre DEF Rows
  <2>2. Row(k) \in Datum(k)
    BY <1>3, <2>1, DataAre
  <2>3. version[k] <= version[k] /\ version[k] >= told[k]
    BY <1>3, <2>1 DEF Kept
  <2> QED
    BY <2>1, <2>2, <2>3 DEF Below, BelowRow, Shows
<1> QED
  BY <1>1, <1>2, <1>3, KeysAre

---------------------------------------------------------------------------
(* Steps of one query *)

LEMMA SentIs ==
  ASSUME NEW k, NEW o \in Query(k)
  PROVE  /\ Sent(o) \in Query(k) /\ Sent(o).state = "sent" /\ Sent(o).data = o.data
         /\ Sent(o).answer = NoData
<1> DEFINE g == [o EXCEPT !.state = "sent"]
           h == [g EXCEPT !.answer = NoData]
<1>1. g \in Query(k) /\ g.state = "sent" /\ g.data = o.data
  BY DEF Query
<1> HIDE DEF g
<1>2. h \in Query(k) /\ h.state = "sent" /\ h.data = o.data /\ h.answer = NoData
  BY <1>1 DEF Query, Datum
<1>3. h = Sent(o)
  BY Zenon DEF g, Sent
<1> QED
  BY Zenon, <1>2, <1>3

LEMMA SentSound ==
  ASSUME NEW k, NEW o, NEW v, NEW m, Sound(k, o, v, m)
  PROVE  Sound(k, Sent(o), v, m)
<1>1. o \in Query(k)
  BY DEF Sound
<1>2. /\ Sent(o) \in Query(k) /\ Sent(o).state = "sent" /\ Sent(o).data = o.data
      /\ Sent(o).answer = NoData
  BY <1>1, SentIs
<1> QED
  BY <1>2 DEF Sound

LEMMA NoQuerySound ==
  ASSUME NEW k, NEW v, NEW m
  PROVE  Sound(k, NoQuery, v, m) /\ NoQuery.state = "none"
  BY DEF Sound, NoQuery, Query, Datum

LEMMA EndedSound ==
  ASSUME NEW k \in Keys, NEW v, NEW m, Sound(k, query[k], v, m), query[k].state = "answered"
  PROVE  /\ Sound(k, Ended(k), v, m) /\ Ended(k).state \in {"done", "failed"}
         /\ \A c, t, w : Cover(k, query[k], c, t, w) => Cover(k, Ended(k), c, t, w)
         /\ Ended(k).data \in {query[k].data, query[k].answer}
         /\ Ended(k).data # query[k].data => Ended(k).data # NoData
<1>1. query[k] \in Query(k)
  BY DEF Sound
<1>2. CASE query[k].answer = NoData
  <2>1. PICK s \in {"none", "sent", "answered", "done", "failed"} : s = "failed"
    OBVIOUS
  <2>2. Ended(k) = [query[k] EXCEPT !.state = s]
    BY <1>2, <2>1 DEF Ended
  <2>3. /\ Ended(k) \in Query(k) /\ Ended(k).state = "failed"
        /\ Ended(k).data = query[k].data /\ Ended(k).answer = query[k].answer
    BY <1>1, <2>1, <2>2 DEF Query
  <2> QED
    BY <2>3 DEF Sound, Cover
<1>3. CASE query[k].answer # NoData
  <2> DEFINE r == [state |-> "done", data |-> query[k].answer, answer |-> NoData]
  <2>1. Ended(k) = r
    BY <1>3 DEF Ended
  <2>2. NoData \in Datum(k) /\ query[k].answer \in Datum(k)
    BY <1>1 DEF Datum, Query
  <2>3. /\ r \in Query(k) /\ r.state = "done" /\ r.data = query[k].answer
        /\ r.answer = NoData
    BY <2>2 DEF Query
  <2> HIDE DEF r
  <2>4. Sound(k, r, v, m)
    BY <1>3, <2>3 DEF Sound
  <2>5. \A c, t, w : Cover(k, query[k], c, t, w) => Cover(k, r, c, t, w)
    BY <1>3, <2>3 DEF Cover
  <2> QED
    BY <1>3, <2>1, <2>3, <2>4, <2>5
<1> QED
  BY <1>2, <1>3

\* A query that is asked again, or forgotten, is covered.
LEMMA AskedAgain ==
  ASSUME NEW k, NEW o \in Query(k), NEW c, NEW t, NEW w
  PROVE  Cover(k, Sent(o), c, t, w) /\ Cover(k, NoQuery, c, t, w)
  BY SentIs DEF Cover, NoQuery
---------------------------------------------------------------------------
(* Invalidation *)

\* What becomes of a query: it stays, is asked again, or is forgotten when nobody shows it.
Stays(k, o) == \/ query'[k] = o
               \/ query'[k] = Sent(o)
               \/ query'[k] = NoQuery /\ ~Subscribed(k, selected)

LEMMA InvalidateIs ==
  ASSUME NEW q, NEW c, NEW t, NEW v, NEW m, NEW w, Invalidate(q, c, t), DOMAIN q = Keys,
         t \subseteq {"Task", "Notification"},
         \A k \in Keys : Sound(k, q[k], v, m) /\ Cover(k, q[k], c, t, w)
  PROVE  /\ DOMAIN query' = Keys /\ call' = c /\ tags' \subseteq {"Task", "Notification"}
         /\ \A k \in Keys : Sound(k, query'[k], v, m) /\ Cover(k, query'[k], c, tags', w)
         /\ tags' # {} => Waiting(query', c)
         /\ \A k \in Keys : Stays(k, q[k])
<1>1. call' = c
  BY DEF Invalidate
<1>2. CASE Waiting(q, c)
  <2>1. query' = q /\ tags' = t
    BY <1>2 DEF Invalidate
  <2> QED
    BY <1>1, <1>2, <2>1 DEF Stays
<1>3. CASE ~Waiting(q, c)
  <2>1. /\ query' = [k \in Keys |-> IF Tag(k) \in t THEN Refetched(q, k) ELSE q[k]]
        /\ tags' = {}
    BY <1>3 DEF Invalidate
  <2>2. DOMAIN query' = Keys
    BY <2>1
  <2>3. \A i \in Calls : c[i].state # "answered"
    BY <1>3 DEF Waiting
  <2>4. ASSUME NEW k \in Keys
        PROVE  /\ Sound(k, query'[k], v, m) /\ Cover(k, query'[k], c, tags', w)
               /\ Stays(k, q[k])
    <3>1. Sound(k, q[k], v, m) /\ q[k] \in Query(k) /\ Cover(k, q[k], c, t, w)
      BY DEF Sound
    <3>2. query'[k] = IF Tag(k) \in t THEN Refetched(q, k) ELSE q[k]
      BY <2>1
    <3>3. CASE Tag(k) \notin t
      <4>1. query'[k] = q[k]
        BY <3>2, <3>3
      <4>2. Cover(k, q[k], c, {}, w)
        BY <2>3, <3>1, <3>3 DEF Cover
      <4> QED
        BY <2>1, <3>1, <4>1, <4>2 DEF Stays
    <3>4. CASE Tag(k) \in t /\ q[k].state = "none"
      <4>1. query'[k] = q[k]
        BY <3>2, <3>4 DEF Refetched
      <4>2. Cover(k, q[k], c, {}, w)
        BY <3>4 DEF Cover
      <4> QED
        BY <2>1, <3>1, <4>1, <4>2 DEF Stays
    <3>5. CASE Tag(k) \in t /\ q[k].state # "none" /\ Subscribed(k, selected)
      <4>1. query'[k] = Sent(q[k])
        BY <3>2, <3>5 DEF Refetched
      <4> QED
        BY <3>1, <4>1, SentSound, AskedAgain DEF Stays
    <3>6. CASE Tag(k) \in t /\ q[k].state # "none" /\ ~Subscribed(k, selected)
      <4>1. query'[k] = NoQuery
        BY <3>2, <3>6 DEF Refetched
      <4> QED
        BY <3>1, <3>6, <4>1, NoQuerySound, AskedAgain DEF Stays
    <3> QED
      BY <3>3, <3>4, <3>5, <3>6
  <2> QED
    BY <1>1, <2>1, <2>2, <2>4
<1> QED
  BY <1>2, <1>3

\* The drawer of a page whose queries were invalidated.
LEMMA StaysLooking ==
  ASSUME IInv, NEW q, NEW w, Looks(selected, q, w), selected' = selected, shown' = w,
         \A k \in Keys : Stays(k, q[k]) /\ q[k] \in Query(k)
  PROVE  Looks(selected', query', shown')
<1> SUFFICES ASSUME selected # NoTask
             PROVE  /\ query'[selected].state # "none"
                    /\ query'[selected].state = "done" => shown' # <<>> /\ shown'[1] = selected
  BY DEF Looks
<1>1. selected \in Keys /\ Subscribed(selected, selected)
  BY KeysAre DEF IInv, Typed, Subscribed
<1>2. query'[selected] = q[selected] \/ query'[selected] = Sent(q[selected])
  BY <1>1 DEF Stays
<1>3. Sent(q[selected]).state = "sent"
  BY <1>1, SentIs
<1> QED
  BY <1>2, <1>3 DEF Looks

---------------------------------------------------------------------------
(* The cache *)

\* What an answer, an eviction and a poll leave alone.
LEMMA OneQuery ==
  ASSUME IInv, NEW k \in Keys, NEW r, query' = [query EXCEPT ![k] = r],
         Sound(k, r, version, note), Cover(k, r, call, tags, told),
         k = selected => r.state \notin {"none", "done"},
         r.state \in {"sent", "answered"} \/ query[k].state \in {"done", "failed"},
         UNCHANGED <<server, call, tags, selected, shown, wire, told>>, left' \in Nat
  PROVE  IInv'
<1>1. /\ DOMAIN query' = Keys /\ query'[k] = r
      /\ \A j \in Keys \ {k} : query'[j] = query[j]
  BY DEF IInv, Typed
<1>2. Typed'
  BY <1>1 DEF IInv, Typed, server, wire
<1>3. Sounds'
  BY <1>1 DEF IInv, Sounds, server
<1>4. Covers'
  BY <1>1 DEF IInv, Covers
<1>5. TagsWait'
  <2> SUFFICES ASSUME tags # {}
               PROVE  Waiting(query', call')
    BY DEF TagsWait
  <2>1. Waiting(query, call)
    BY DEF IInv, TagsWait
  <2>2. CASE \E i \in Calls : call[i].state # "idle"
    BY <2>2 DEF Waiting
  <2>3. CASE \E j \in Keys : query[j].state \in {"sent", "answered"}
    <3>1. PICK j \in Keys : query[j].state \in {"sent", "answered"}
      BY <2>3
    <3>2. \/ j = k /\ r.state \in {"sent", "answered"}
          \/ j # k
      BY <3>1
    <3>3. query'[j].state \in {"sent", "answered"}
      BY <1>1, <3>1, <3>2
    <3> QED
      BY <3>1, <3>3 DEF Waiting
  <2> QED
    BY <2>1, <2>2, <2>3 DEF Waiting
<1>6. Kept(version, note, told)'
  BY DEF IInv, server
<1>7. Looks(selected, query, shown)'
  <2>1. selected # NoTask => selected \in Keys
    BY KeysAre DEF IInv, Typed
  <2> QED
    BY <1>1, <2>1 DEF IInv, Looks
<1> QED
  BY <1>2, <1>3, <1>4, <1>5, <1>6, <1>7 DEF IInv
LEMMA LeftIs ==
  ASSUME IInv, Spend \/ left' = left
  PROVE  left' \in Nat
  BY DEF IInv, Typed, Spend

LEMMA AnswerKeeps ==
  ASSUME IInv, NEW k \in Keys, Answer(k)
  PROVE  IInv'
<1>1. PICK a \in {Row(k), NoData} :
        /\ query' = [query EXCEPT ![k] = [query[k] EXCEPT !.state = "answered", !.answer = a]]
        /\ IF a = NoData THEN Spend ELSE UNCHANGED left
  BY Zenon DEF Answer
<1> DEFINE o == query[k]
<1>2. /\ Sound(k, o, version, note) /\ o \in Query(k) /\ o.state = "sent"
      /\ version \in Rows /\ note \in Lists /\ Kept(version, note, told)
  BY DEF IInv, Sounds, Sound, Typed, Answer
<1>3. /\ Row(k) \in Datum(k) /\ BelowRow(k, Row(k), version, note) /\ Shows(k, Row(k), told)
      /\ \A b : BelowRow(k, b, version, note) => Below(k, b, Row(k))
  BY <1>2, RowTells
<1>4. a \in Datum(k)
  BY <1>1, <1>3 DEF Datum
<1> DEFINE g == [o EXCEPT !.state = "answered"]
           r == [g EXCEPT !.answer = a]
<1>5. query' = [query EXCEPT ![k] = r]
  <2>1. [o EXCEPT !.state = "answered", !.answer = a] = r
    BY Zenon
  <2> QED
    BY <1>1, <2>1
<1> HIDE DEF o
<1>e. g \in Query(k) /\ g.state = "answered" /\ g.data = o.data
  BY <1>2 DEF Query
<1> HIDE DEF g
<1>6. r \in Query(k) /\ r.state = "answered" /\ r.data = o.data /\ r.answer = a
  BY <1>4, <1>e DEF Query
<1> HIDE DEF r
<1>7. Sound(k, r, version, note)
  <2>1. CASE a = NoData
    BY <1>2, <1>6, <2>1 DEF Sound
  <2>2. CASE a = Row(k) /\ a # NoData
    BY <1>2, <1>3, <1>6, <2>2 DEF Sound
  <2> QED
    BY <1>1, <2>1, <2>2
<1>8. Cover(k, r, call, tags, told)
  BY <1>1, <1>3, <1>6 DEF Cover
<1>9. left' \in Nat
  BY <1>1, LeftIs
<1>10. UNCHANGED <<server, call, tags, selected, shown, wire, told>>
  BY DEF Answer
<1> QED
  BY <1>5, <1>6, <1>7, <1>8, <1>9, <1>10, OneQuery

LEMMA EvictKeeps ==
  ASSUME IInv, NEW k \in Keys, Evict(k)
  PROVE  IInv'
<1>1. PICK r : r = NoQuery
  OBVIOUS
<1>2. query' = [query EXCEPT ![k] = r]
  BY <1>1 DEF Evict
<1>3. Sound(k, r, version, note) /\ r.state = "none"
  BY <1>1, NoQuerySound
<1>4. Cover(k, r, call, tags, told)
  BY <1>3 DEF Cover
<1>5. k # selected /\ query[k].state \in {"done", "failed"}
  BY DEF Evict, Subscribed
<1>6. UNCHANGED <<server, call, tags, selected, shown, wire, told>> /\ left' \in Nat
  BY LeftIs DEF Evict
<1> QED
  BY <1>2, <1>3, <1>4, <1>5, <1>6, OneQuery

LEMMA PollKeeps ==
  ASSUME IInv, Poll
  PROVE  IInv'
<1>1. "notes" \in Keys
  BY KeysAre
<1>2. PICK k \in Keys : k = "notes"
  BY <1>1
<1>3. PICK r : r = Sent(query[k])
  OBVIOUS
<1>4. query' = [query EXCEPT ![k] = r]
  BY <1>2, <1>3 DEF Poll
<1>5. Sound(k, query[k], version, note) /\ query[k] \in Query(k)
  BY <1>2 DEF IInv, Sounds, Sound
<1>6. Sound(k, r, version, note) /\ r.state = "sent"
  BY <1>3, <1>5, SentIs, SentSound
<1>7. Cover(k, r, call, tags, told)
  BY <1>6 DEF Cover
<1>8. UNCHANGED <<server, call, tags, selected, shown, wire, told>> /\ left' \in Nat
  BY LeftIs DEF Poll
<1>9. k \in Keys
  BY <1>2
<1> QED
  BY <1>4, <1>6, <1>7, <1>8, <1>9, OneQuery

\* A step that invalidates: what the queries were just before, and what it leaves alone.
Before(q, c, t) ==
  /\ c \in [Calls -> Mutation] /\ DOMAIN q = Keys
  /\ t \subseteq {"Task", "Notification"} /\ \A i \in Calls : Fits(c[i])
  /\ \A k \in Keys : Sound(k, q[k], version', note') /\ Cover(k, q[k], c, t, told')
  /\ version' \in Rows /\ note' \in Lists /\ told' \in [Tasks \cup Notes -> Nat]
  /\ Kept(version', note', told') /\ selected' = selected
  /\ shown' \in {<<>>} \cup (Tasks \X Nat) /\ Looks(selected, q, shown')
  /\ UNCHANGED wire /\ left' \in Nat

LEMMA InvalidatingKeeps ==
  ASSUME IInv, NEW q, NEW c, NEW t, Invalidate(q, c, t), Before(q, c, t)
  PROVE  IInv'
<1>0. /\ c \in [Calls -> Mutation] /\ DOMAIN q = Keys
      /\ t \subseteq {"Task", "Notification"} /\ \A i \in Calls : Fits(c[i])
      /\ \A k \in Keys : Sound(k, q[k], version', note') /\ Cover(k, q[k], c, t, told')
      /\ version' \in Rows /\ note' \in Lists /\ told' \in [Tasks \cup Notes -> Nat]
      /\ Kept(version', note', told') /\ selected' = selected
      /\ shown' \in {<<>>} \cup (Tasks \X Nat) /\ Looks(selected, q, shown')
      /\ UNCHANGED wire /\ left' \in Nat
  BY DEF Before
<1>1. PICK v, m, w, s : v = version' /\ m = note' /\ w = told' /\ s = shown'
  OBVIOUS
<1>2. \A k \in Keys : Sound(k, q[k], v, m) /\ Cover(k, q[k], c, t, w)
  BY <1>0, <1>1
<1>3. /\ DOMAIN query' = Keys /\ call' = c /\ tags' \subseteq {"Task", "Notification"}
      /\ \A k \in Keys : Sound(k, query'[k], v, m) /\ Cover(k, query'[k], c, tags', w)
      /\ tags' # {} => Waiting(query', c)
      /\ \A k \in Keys : Stays(k, q[k])
  BY <1>0, <1>2, InvalidateIs
<1>4. Looks(selected', query', shown')
  <2>1. \A k \in Keys : q[k] \in Query(k)
    BY <1>0 DEF Sound
  <2>2. Looks(selected, q, s) /\ shown' = s
    BY <1>0, <1>1
  <2> QED
    BY <1>0, <1>3, <2>1, <2>2, StaysLooking
<1>5. Typed'
  BY <1>0, <1>3 DEF IInv, Typed, wire
<1>6. Sounds' /\ Covers' /\ TagsWait'
  BY <1>1, <1>3 DEF Sounds, Covers, TagsWait
<1> QED
  BY <1>0, <1>4, <1>5, <1>6 DEF IInv

LEMMA DeliverKeeps ==
  ASSUME IInv, NEW k \in Keys, Deliver(k)
  PROVE  IInv'
<1> DEFINE q == [query EXCEPT ![k] = Ended(k)]
<1>1. /\ DOMAIN q = Keys /\ q[k] = Ended(k)
      /\ \A j \in Keys \ {k} : q[j] = query[j]
  BY DEF IInv, Typed
<1>2. /\ Invalidate(q, call, tags) /\ shown' = Look(selected, q)
      /\ UNCHANGED <<server, selected, wire, told, left>> /\ query[k].state = "answered"
  BY DEF Deliver
<1> HIDE DEF q
<1>3. /\ Sound(k, query[k], version, note)
      /\ Cover(k, query[k], call, tags, told)
  BY DEF IInv, Sounds, Covers
<1>4. /\ Sound(k, Ended(k), version, note) /\ Ended(k).state \in {"done", "failed"}
      /\ Cover(k, Ended(k), call, tags, told)
  BY <1>2, <1>3, EndedSound
<1>5. \A j \in Keys : Sound(j, q[j], version, note) /\ Cover(j, q[j], call, tags, told)
  BY <1>1, <1>4 DEF IInv, Sounds, Covers
<1>6. version' = version /\ note' = note /\ told' = told /\ left' = left
  BY <1>2 DEF server
<1>7. selected # NoTask => selected \in Tasks /\ selected \in Keys
  BY KeysAre DEF IInv, Typed
<1>8. CASE selected # NoTask /\ q[selected].state = "done"
  <2>1. shown' = <<selected, q[selected].data>>
    BY <1>2, <1>8 DEF Look
  <2>2. q[selected].data \in Nat
    <3>1. q[selected] \in Query(selected) /\ q[selected].data # NoData
      BY <1>5, <1>7, <1>8 DEF Sound
    <3>2. Datum(selected) = {NoData} \cup Nat
      BY <1>7, <1>8, DataAre
    <3> QED
      BY <3>1, <3>2 DEF Query
  <2>3. shown' \in {<<>>} \cup (Tasks \X Nat) /\ Looks(selected, q, shown')
    BY <1>7, <1>8, <2>1, <2>2 DEF Looks
  <2> QED
    <3>1. Before(q, call, tags)
      BY <1>1, <1>2, <1>5, <1>6, <2>3 DEF IInv, Typed, Before
    <3> QED
      BY <1>2, <3>1, InvalidatingKeeps
<1>9. CASE ~(selected # NoTask /\ q[selected].state = "done")
  <2>1. shown' = shown
    BY <1>2, <1>9 DEF Look
  <2>2. Looks(selected, q, shown)
    BY <1>1, <1>4, <1>7, <1>9 DEF IInv, Looks
  <2> QED
    <3>1. Before(q, call, tags)
      BY <1>1, <1>2, <1>5, <1>6, <2>1, <2>2 DEF IInv, Typed, Before
    <3> QED
      BY <1>2, <3>1, InvalidatingKeeps
<1> QED
  BY <1>8, <1>9
---------------------------------------------------------------------------
(* The user and the socket *)

\* A step that leaves the queries, the tables and what was told alone.
LEMMA QuietKeeps ==
  ASSUME IInv, UNCHANGED <<server, query, tags, told>>, Typed', Covers', TagsWait',
         Looks(selected', query', shown')
  PROVE  IInv'
<1>1. version' = version /\ note' = note
  BY DEF server
<1>2. Sounds'
  BY <1>1 DEF IInv, Sounds
<1>3. Kept(version', note', told')
  BY <1>1 DEF IInv
<1> QED
  BY <1>2, <1>3 DEF IInv

LEMMA WireKeeps ==
  ASSUME IInv, Realtime
  PROVE  IInv'
<1>1. UNCHANGED <<server, page, told>>
  BY DEF Realtime, Connected, HandleConnection, Drop, NewToken
<1>2. left' \in Nat
  BY LeftIs DEF Realtime, Connected, HandleConnection, Drop, NewToken
<1>3. /\ socket' \in {"connecting", "connected", "closed"}
      /\ rooms' \subseteq {"user", "workspace"}
  BY DEF IInv, Typed, Realtime, Connected, HandleConnection, Drop, NewToken
<1>4. UNCHANGED <<version, note, query, call, tags, selected, shown, told>>
  BY <1>1 DEF server, page
<1>5. Typed'
  BY <1>2, <1>3, <1>4 DEF IInv, Typed
<1>6. Covers' /\ TagsWait' /\ Looks(selected', query', shown')
  BY <1>4 DEF IInv, Covers, TagsWait
<1> QED
  BY <1>4, <1>5, <1>6, QuietKeeps DEF server

LEMMA CloseKeeps ==
  ASSUME IInv, Close
  PROVE  IInv'
<1>1. /\ selected' = NoTask
      /\ UNCHANGED <<version, note, query, call, tags, shown, socket, rooms, told, left>>
  BY DEF Close, server, wire
<1>2. Typed'
  BY <1>1 DEF IInv, Typed
<1>3. Covers' /\ TagsWait' /\ Looks(selected', query', shown')
  BY <1>1 DEF IInv, Covers, TagsWait, Looks
<1> QED
  BY <1>1, <1>2, <1>3, QuietKeeps DEF server

LEMMA StartKeeps ==
  ASSUME IInv, NEW i \in Calls, NEW op \in {"update", "create", "read", "readAll"},
         NEW x \in Tasks \cup Notes \cup {NoTask}, NEW v \in Nat, NEW t \in Tasks \cup {NoTask},
         op = "update" => x \in Tasks /\ t \in Tasks, op = "read" => x \in Notes,
         Start(i, op, x, v, t)
  PROVE  IInv'
<1> DEFINE o == [state |-> "sent", op |-> op, on |-> x, version |-> v, of |-> t]
<1>1. o \in Mutation /\ Fits(o) /\ o.state = "sent"
  BY DEF Mutation, Fits
<1>2. /\ call' = [call EXCEPT ![i] = o] /\ call[i].state = "idle"
      /\ UNCHANGED <<version, note, query, tags, selected, shown, socket, rooms, told>>
      /\ left' \in Nat
  BY LeftIs DEF Start, server, wire
<1> HIDE DEF o
<1>3. /\ call' \in [Calls -> Mutation] /\ call'[i] = o
      /\ \A j \in Calls \ {i} : call'[j] = call[j]
  BY <1>1, <1>2 DEF IInv, Typed
<1>4. Typed'
  BY <1>1, <1>2, <1>3 DEF IInv, Typed
<1>5. TagsWait'
  BY <1>1, <1>3 DEF TagsWait, Waiting
<1>6. Covers'
  <2> SUFFICES ASSUME NEW k \in Keys
               PROVE  Cover(k, query[k], call', tags, told)
    BY <1>2 DEF Covers
  <2>1. Cover(k, query[k], call, tags, told)
    BY DEF IInv, Covers
  <2>2. \A j \in Calls : call[j].state = "answered" => call'[j] = call[j]
    BY <1>2, <1>3
  <2> QED
    BY <2>1, <2>2 DEF Cover
<1>7. Looks(selected', query', shown')
  BY <1>2 DEF IInv
<1> QED
  BY <1>2, <1>4, <1>5, <1>6, <1>7, QuietKeeps DEF server

LEMMA BoardIs ==
  ASSUME IInv, Board # NoData
  PROVE  Board \in Rows /\ \A t \in Tasks : Board[t] \in Nat
<1>1. query["board"] \in Query("board")
  BY KeysAre DEF IInv, Sounds, Sound
<1>2. Board \in Datum("board")
  BY <1>1 DEF Query, Board
<1> QED
  BY <1>2, DataAre DEF Rows

LEMMA MutationKeeps ==
  ASSUME IInv, NEW i \in Calls,
         \/ Edit(i)
         \/ Create(i)
         \/ MarkAllRead(i)
         \/ \E t \in Tasks : Drag(i, t)
         \/ \E n \in Notes : MarkRead(i, n)
  PROVE  IInv'
<1>0. PICK up, cr, re, ra, z : /\ up = "update" /\ cr = "create" /\ re = "read"
                               /\ ra = "readAll" /\ z = 0
  OBVIOUS
<1>1. CASE Edit(i)
  <2>1. selected \in Tasks /\ shown[1] \in Tasks /\ shown[2] \in Nat
    BY <1>1 DEF Edit, IInv, Typed
  <2>2. Start(i, up, selected, shown[2], shown[1])
    BY <1>0, <1>1 DEF Edit
  <2>3. PICK x \in Tasks, v \in Nat, t \in Tasks : x = selected /\ v = shown[2] /\ t = shown[1]
    BY <2>1
  <2>4. Start(i, up, x, v, t)
    BY <2>2, <2>3
  <2> QED
    BY <1>0, <2>3, <2>4, StartKeeps
<1>2. CASE Create(i)
  <2>1. Start(i, cr, NoTask, z, NoTask)
    BY <1>0, <1>2 DEF Create
  <2> QED
    BY <1>0, <2>1, StartKeeps
<1>3. CASE MarkAllRead(i)
  <2>1. Start(i, ra, NoTask, z, NoTask)
    BY <1>0, <1>3 DEF MarkAllRead
  <2> QED
    BY <1>0, <2>1, StartKeeps
<1>4. ASSUME NEW t \in Tasks, Drag(i, t)
      PROVE  IInv'
  <2>1. Board # NoData /\ Start(i, up, t, Board[t], t)
    BY <1>0, <1>4 DEF Drag, OnBoard
  <2>2. Board[t] \in Nat
    BY <2>1, BoardIs
  <2>3. PICK v \in Nat : v = Board[t]
    BY <2>2
  <2>4. Start(i, up, t, v, t) /\ v \in Nat
    BY <2>1, <2>3
  <2> QED
    BY <1>0, <2>4, StartKeeps
<1>5. ASSUME NEW n \in Notes, MarkRead(i, n)
      PROVE  IInv'
  <2>1. Start(i, re, n, z, NoTask)
    BY <1>0, <1>5 DEF MarkRead
  <2> QED
    BY <1>0, <2>1, StartKeeps
<1> QED
  BY <1>1, <1>2, <1>3, <1>4, <1>5

LEMMA SelectKeeps ==
  ASSUME IInv, NEW t \in Tasks, Select(t)
  PROVE  IInv'
<1> DEFINE o == query[t]
<1>1. /\ selected' = t /\ shown' = Look(t, query')
      /\ query' = IF o.data = NoData /\ o.state \in {"none", "failed"}
                  THEN [query EXCEPT ![t] = Sent(o)] ELSE query
      /\ UNCHANGED <<version, note, call, tags, socket, rooms, told>> /\ left' \in Nat
  BY LeftIs DEF Select, server, wire
<1>2. t \in Keys /\ t # NoTask /\ DOMAIN query = Keys
  BY KeysAre DEF IInv, Typed
<1>3. /\ Sound(t, o, version, note) /\ o \in Query(t)
      /\ Cover(t, o, call, tags, told)
  BY <1>2 DEF IInv, Sounds, Covers, Sound
<1>4. /\ Sound(t, Sent(o), version, note) /\ Sent(o).state = "sent"
      /\ Cover(t, Sent(o), call, tags, told)
  BY <1>3, SentSound, SentIs, AskedAgain
<1> HIDE DEF o
<1>5. /\ DOMAIN query' = Keys /\ \A k \in Keys \ {t} : query'[k] = query[k]
      /\ query'[t] \in {query[t], Sent(o)} /\ query'[t].state # "none"
  <2>1. CASE o.data = NoData /\ o.state \in {"none", "failed"}
    <3>1. query' = [query EXCEPT ![t] = Sent(o)]
      BY <1>1, <2>1
    <3> QED
      BY <1>2, <1>4, <3>1
  <2>2. CASE ~(o.data = NoData /\ o.state \in {"none", "failed"})
    <3>1. query' = query
      BY <1>1, <2>2
    <3>2. o.state # "none"
      BY <1>3, <2>2 DEF Sound
    <3> QED
      BY <1>2, <3>1, <3>2 DEF o
  <2> QED
    BY <2>1, <2>2
<1>6. Sounds' /\ Covers'
  BY <1>1, <1>3, <1>4, <1>5 DEF IInv, Sounds, Covers, o
<1>7. TagsWait'
  <2>1. CASE query' = query
    BY <1>1, <2>1 DEF IInv, TagsWait
  <2>2. CASE query' = [query EXCEPT ![t] = Sent(o)]
    <3>1. query'[t].state = "sent"
      BY <1>2, <1>4, <2>2
    <3> QED
      BY <1>2, <3>1 DEF TagsWait, Waiting
  <2> QED
    BY <1>1, <2>1, <2>2
<1>8. shown' \in {<<>>} \cup (Tasks \X Nat) /\ Looks(selected', query', shown')
  <2>1. CASE query'[t].state = "done"
    <3>1. shown' = <<t, query'[t].data>>
      BY <1>1, <1>2, <2>1 DEF Look
    <3>2. query'[t] \in Query(t) /\ query'[t].data # NoData
      BY <1>2, <1>6, <2>1 DEF Sounds, Sound
    <3>3. query'[t].data \in Nat
      BY <3>2, DataAre DEF Query
    <3> QED
      BY <1>1, <1>5, <3>1, <3>3 DEF Looks
  <2>2. CASE query'[t].state # "done"
    <3>1. shown' = shown
      BY <1>1, <2>2 DEF Look
    <3> QED
      BY <1>1, <1>5, <2>2, <3>1 DEF Looks, IInv, Typed
  <2> QED
    BY <2>1, <2>2
<1>9. Typed' /\ Kept(version', note', told')
  BY <1>1, <1>5, <1>8 DEF IInv, Typed
<1> QED
  BY <1>6, <1>7, <1>8, <1>9 DEF IInv
---------------------------------------------------------------------------
(* The server *)

\* What was read before the tables grew is not newer than the tables now.
LEMMA Grown ==
  ASSUME NEW k \in Keys, NEW r, NEW v \in Rows, NEW m, NEW v2 \in Rows, NEW m2,
         \A t \in Tasks : v[t] <= v2[t],
         \A n \in Notes : m[n] = "read" => m2[n] = "read",
         Sound(k, r, v, m)
  PROVE  Sound(k, r, v2, m2)
<1>1. r \in Query(k)
  BY DEF Sound
<1>2. ASSUME NEW a \in Datum(k), a # NoData, BelowRow(k, a, v, m)
      PROVE  BelowRow(k, a, v2, m2)
  <2>1. CASE k = "board"
    <3>1. a \in Rows /\ k # "notes" /\ k \notin Tasks
      BY <1>2, <2>1, DataAre, KeysAre
    <3>2. \A t \in Tasks : a[t] \in Nat /\ v[t] \in Nat /\ v2[t] \in Nat
      BY <3>1 DEF Rows
    <3> QED
      BY <1>2, <2>1, <3>1, <3>2 DEF BelowRow
  <2>2. CASE k = "notes"
    <3>1. k # "board" /\ k \notin Tasks
      BY <2>2, KeysAre
    <3> QED
      BY <1>2, <2>2, <3>1 DEF BelowRow
  <2>3. CASE k \in Tasks
    <3>1. a \in Nat /\ k # "notes" /\ k # "board"
      BY <1>2, <2>3, DataAre, KeysAre
    <3>2. v[k] \in Nat /\ v2[k] \in Nat
      BY <2>3 DEF Rows
    <3> QED
      BY <1>2, <2>3, <3>1, <3>2 DEF BelowRow
  <2> QED
    BY <2>1, <2>2, <2>3, KeysAre
<1>3. r.data \in Datum(k) /\ r.answer \in Datum(k)
  BY <1>1 DEF Query
<1> QED
  BY <1>2, <1>3 DEF Sound

\* What was told only of one kind leaves the queries of the other as they are.
LEMMA ToldOfOther ==
  ASSUME NEW k \in Keys, NEW r, NEW c, NEW t, NEW w, NEW w2,
         Tag(k) = "Task" => \A x \in Tasks : w2[x] = w[x],
         Tag(k) = "Notification" => \A x \in Notes : w2[x] = w[x],
         Cover(k, r, c, t, w)
  PROVE  Cover(k, r, c, t, w2)
<1>1. ASSUME NEW a, Shows(k, a, w)
      PROVE  Shows(k, a, w2)
  <2>1. CASE k = "notes"
    <3>1. Tag(k) = "Notification" /\ k # "board" /\ k \notin Tasks
      BY <2>1, KeysAre DEF Tag
    <3> QED
      BY <1>1, <2>1, <3>1 DEF Shows
  <2>2. CASE k # "notes"
    <3>1. Tag(k) = "Task"
      BY <2>2 DEF Tag
    <3> QED
      BY <1>1, <2>2, <3>1 DEF Shows
  <2> QED
    BY <2>1, <2>2
<1> QED
  BY <1>1 DEF Cover

LEMMA AnsweredIs ==
  ASSUME IInv, NEW i \in Calls, NEW c,
         c = [call EXCEPT ![i] = [call[i] EXCEPT !.state = "answered"]]
  PROVE  /\ c \in [Calls -> Mutation] /\ c[i].state = "answered" /\ Kind(c[i]) = Kind(call[i])
         /\ \A j \in Calls \ {i} : c[j] = call[j]
         /\ \A j \in Calls : Fits(c[j])
         /\ tags # {} => Waiting(query, c)
         /\ \A k \in Keys : Cover(k, query[k], c, tags, told)
<1> DEFINE o == call[i]
           r == [o EXCEPT !.state = "answered"]
<1>1. o \in Mutation /\ Fits(o)
  BY DEF IInv, Typed
<1>2. /\ r \in Mutation /\ r.state = "answered" /\ r.op = o.op /\ r.on = o.on
      /\ r.of = o.of
  BY <1>1 DEF Mutation
<1>3. c = [call EXCEPT ![i] = r]
  OBVIOUS
<1> HIDE DEF r
<1>4. c \in [Calls -> Mutation] /\ c[i] = r /\ \A j \in Calls \ {i} : c[j] = call[j]
  BY <1>2, <1>3 DEF IInv, Typed
<1>5. Fits(r) /\ Kind(r) = Kind(o)
  BY <1>1, <1>2 DEF Fits, Kind
<1>6. \A j \in Calls : Fits(c[j])
  BY <1>4, <1>5 DEF IInv, Typed
<1>7. Waiting(query, c)
  BY <1>2, <1>4 DEF Waiting
<1>8. ASSUME NEW k \in Keys
      PROVE  Cover(k, query[k], c, tags, told)
  <2>1. Cover(k, query[k], call, tags, told)
    BY DEF IInv, Covers
  <2>2. \A j \in Calls : call[j].state = "answered" =>
          c[j].state = "answered" /\ Kind(c[j]) = Kind(call[j])
    BY <1>2, <1>4, <1>5
  <2> QED
    BY <2>1, <2>2 DEF Cover
<1> QED
  BY <1>2, <1>4, <1>5, <1>6, <1>7, <1>8

\* A step whose events do not reach the page.
LEMMA UnheardKeeps ==
  ASSUME IInv, NEW c, Before(query, c, tags), call' = c, UNCHANGED <<query, tags>>,
         tags # {} => Waiting(query, c)
  PROVE  IInv'
<1>1. Typed'
  BY DEF IInv, Typed, Before, wire
<1>2. Sounds' /\ Covers' /\ TagsWait'
  BY DEF Before, Sounds, Covers, TagsWait
<1>3. Looks(selected', query', shown') /\ Kept(version', note', told')
  BY DEF Before
<1> QED
  BY <1>1, <1>2, <1>3 DEF IInv

LEMMA FailKeeps ==
  ASSUME IInv, NEW i \in Calls, Fail(i)
  PROVE  IInv'
<1>1. PICK c : c = [call EXCEPT ![i] = [call[i] EXCEPT !.state = "answered"]]
  OBVIOUS
<1>2. /\ c \in [Calls -> Mutation] /\ \A j \in Calls : Fits(c[j])
      /\ tags # {} => Waiting(query, c)
      /\ \A k \in Keys : Cover(k, query[k], c, tags, told)
  BY <1>1, AnsweredIs
<1>3. /\ call' = c /\ left' \in Nat
      /\ UNCHANGED <<version, note, query, tags, selected, shown, wire, told>>
  BY <1>1, LeftIs DEF Fail, server
<1>4. Before(query, c, tags)
  BY <1>2, <1>3 DEF IInv, Typed, Sounds, Before
<1> QED
  BY <1>2, <1>3, <1>4, UnheardKeeps

LEMMA ReturnedKeeps ==
  ASSUME IInv, NEW i \in Calls, Returned(i)
  PROVE  IInv'
<1>1. PICK c : c = [call EXCEPT ![i] = NoCall]
  OBVIOUS
<1>2. NoCall \in Mutation /\ Fits(NoCall) /\ NoCall.state = "idle"
  BY DEF NoCall, Mutation, Fits
<1>3. /\ c \in [Calls -> Mutation] /\ c[i] = NoCall
      /\ \A j \in Calls \ {i} : c[j] = call[j]
  BY <1>1, <1>2 DEF IInv, Typed
<1>4. \A j \in Calls : Fits(c[j])
  BY <1>2, <1>3 DEF IInv, Typed
<1>5. PICK t : t = tags \cup {Invalidates(i)}
  OBVIOUS
<1>6. Invalidates(i) = Kind(call[i]) /\ t \subseteq {"Task", "Notification"}
  BY <1>5 DEF Invalidates, Kind, IInv, Typed
<1>7. \A k \in Keys : Cover(k, query[k], c, t, told)
  <2> SUFFICES ASSUME NEW k \in Keys
               PROVE  Cover(k, query[k], c, t, told)
    OBVIOUS
  <2>1. Cover(k, query[k], call, tags, told)
    BY DEF IInv, Covers
  <2>2. \A j \in Calls : call[j].state = "answered" => c[j] = call[j] \/ Kind(call[j]) \in t
    BY <1>3, <1>5, <1>6
  <2>3. tags \subseteq t
    BY <1>5
  <2> QED
    BY <2>1, <2>2, <2>3 DEF Cover
<1>8. /\ Invalidate(query, c, t)
      /\ UNCHANGED <<version, note, selected, shown, wire, told, left>>
  BY <1>1, <1>5 DEF Returned, server
<1>9. Before(query, c, t)
  BY <1>3, <1>4, <1>6, <1>7, <1>8 DEF IInv, Typed, Sounds, Before
<1> QED
  BY <1>8, <1>9, InvalidatingKeeps
\* What an applied mutation makes of the tables and of what the page was told.
LEMMA ApplyIs ==
  ASSUME IInv, NEW i \in Calls,
         \/ Update(i)
         \/ Insert(i)
         \/ Read(i)
         \/ ReadAll(i)
  PROVE  /\ version' \in Rows /\ note' \in Lists /\ told' \in [Tasks \cup Notes -> Nat]
         /\ \A t \in Tasks : version[t] <= version'[t]
         /\ \A n \in Notes : note[n] = "read" => note'[n] = "read"
         /\ Kept(version', note', told')
         /\ Kind(call[i]) = "Task" => \A n \in Notes : told'[n] = told[n]
         /\ Kind(call[i]) = "Notification" => \A t \in Tasks : told'[t] = told[t]
<1>1. /\ version \in [Tasks -> Nat] /\ note \in [Notes -> {"none", "unread", "read"}]
      /\ told \in [Tasks \cup Notes -> Nat] /\ Fits(call[i]) /\ call[i] \in Mutation
      /\ Kept(version, note, told)
  BY DEF IInv, Typed, Rows, Lists
<1>2. \A t \in Tasks : t \notin Notes
  BY BrowserAssumption
<1>3. CASE Update(i)
  <2> DEFINE t == call[i].on
  <2>1. t \in Tasks /\ Kind(call[i]) = "Task"
    BY <1>1, <1>3 DEF Update, Fits, Kind
  <2>2. version[t] \in Nat /\ version[t] <= version[t] + 1 /\ version[t] <= version[t]
        /\ version[t] + 1 \in Nat
    BY <1>1, <2>1
  <2>3. PICK v \in {version[t], version[t] + 1} :
          /\ version' = [version EXCEPT ![t] = v] /\ told' = [told EXCEPT ![t] = v]
          /\ UNCHANGED note
    BY <1>3 DEF Update
  <2>4. v \in Nat /\ version[t] <= v
    BY <2>2, <2>3
  <2> HIDE DEF t
  <2>5. /\ version' \in [Tasks -> Nat] /\ version'[t] = v /\ told'[t] = v
        /\ told' \in [Tasks \cup Notes -> Nat]
        /\ \A x \in Tasks \ {t} : version'[x] = version[x] /\ told'[x] = told[x]
        /\ \A n \in Notes : told'[n] = told[n]
    BY <1>1, <1>2, <2>1, <2>3, <2>4
  <2>6. \A x \in Tasks : version[x] <= version'[x] /\ told'[x] <= version'[x]
    BY <1>1, <2>4, <2>5 DEF Kept
  <2> QED
    BY <1>1, <2>1, <2>3, <2>5, <2>6 DEF Kept, Rows, Lists
<1>4. CASE Insert(i)
  <2>1. Kind(call[i]) = "Task" /\ UNCHANGED note
    BY <1>4 DEF Insert, Kind
  <2>2. CASE \E t \in Tasks : /\ version[t] = 0 /\ version' = [version EXCEPT ![t] = 1]
                              /\ told' = [told EXCEPT ![t] = 1]
    <3>1. PICK t \in Tasks : /\ version[t] = 0 /\ version' = [version EXCEPT ![t] = 1]
                             /\ told' = [told EXCEPT ![t] = 1]
      BY <2>2
    <3>2. /\ version' \in [Tasks -> Nat] /\ version'[t] = 1 /\ told'[t] = 1
          /\ told' \in [Tasks \cup Notes -> Nat]
          /\ \A x \in Tasks \ {t} : version'[x] = version[x] /\ told'[x] = told[x]
          /\ \A n \in Notes : told'[n] = told[n]
      BY <1>1, <1>2, <3>1
    <3>3. \A x \in Tasks : version[x] <= version'[x] /\ told'[x] <= version'[x]
      BY <1>1, <3>1, <3>2 DEF Kept
    <3> QED
      BY <1>1, <2>1, <3>2, <3>3 DEF Kept, Rows, Lists
  <2>3. CASE UNCHANGED <<version, told>>
    BY <1>1, <2>1, <2>3 DEF Rows, Lists
  <2> QED
    BY <1>4, <2>2, <2>3 DEF Insert
<1>5. CASE Read(i)
  <2> DEFINE n == call[i].on
  <2>1. n \in Notes /\ Kind(call[i]) = "Notification"
    BY <1>1, <1>5 DEF Read, Fits, Kind
  <2>2. /\ note' = [note EXCEPT ![n] = "read"] /\ told' = [told EXCEPT ![n] = 1]
        /\ version' = version
    BY <1>5 DEF Read
  <2> HIDE DEF n
  <2>3. /\ note' \in [Notes -> {"none", "unread", "read"}] /\ note'[n] = "read"
        /\ told' \in [Tasks \cup Notes -> Nat]
        /\ \A x \in Notes \ {n} : note'[x] = note[x] /\ told'[x] = told[x]
        /\ \A t \in Tasks : told'[t] = told[t]
    BY <1>1, <1>2, <2>1, <2>2
  <2>4. \A x \in Notes : /\ note[x] = "read" => note'[x] = "read"
                         /\ told'[x] = 1 => note'[x] = "read"
    BY <1>1, <2>3 DEF Kept
  <2> QED
    BY <1>1, <2>1, <2>2, <2>3, <2>4 DEF Kept, Rows, Lists
<1>6. CASE ReadAll(i)
  <2>1. Kind(call[i]) = "Notification"
    BY <1>6 DEF ReadAll, Kind
  <2>2. /\ note' = [n \in Notes |-> IF note[n] = "none" THEN "none" ELSE "read"]
        /\ told' = [x \in Tasks \cup Notes |-> IF x \in Notes /\ note[x] # "none" THEN 1
                                               ELSE told[x]]
        /\ version' = version
    BY <1>6 DEF ReadAll
  <2>3. /\ note' \in [Notes -> {"none", "unread", "read"}]
        /\ told' \in [Tasks \cup Notes -> Nat]
        /\ \A t \in Tasks : told'[t] = told[t]
    BY <1>1, <1>2, <2>2
  <2>4. \A x \in Notes : /\ note[x] = "read" => note'[x] = "read"
                         /\ told'[x] = 1 => note'[x] = "read"
    BY <1>1, <2>2 DEF Kept
  <2> QED
    BY <1>1, <2>1, <2>2, <2>3, <2>4 DEF Kept, Rows, Lists
<1> QED
  BY <1>3, <1>4, <1>5, <1>6

LEMMA ApplyKeeps ==
  ASSUME IInv, NEW i \in Calls, Apply(i)
  PROVE  IInv'
<1>1. /\ version' \in Rows /\ note' \in Lists /\ told' \in [Tasks \cup Notes -> Nat]
      /\ \A t \in Tasks : version[t] <= version'[t]
      /\ \A n \in Notes : note[n] = "read" => note'[n] = "read"
      /\ Kept(version', note', told')
      /\ Kind(call[i]) = "Task" => \A n \in Notes : told'[n] = told[n]
      /\ Kind(call[i]) = "Notification" => \A t \in Tasks : told'[t] = told[t]
  BY ApplyIs DEF Apply
<1>2. PICK c : c = [call EXCEPT ![i] = [call[i] EXCEPT !.state = "answered"]]
  OBVIOUS
<1>3. /\ c \in [Calls -> Mutation] /\ \A j \in Calls : Fits(c[j])
      /\ tags # {} => Waiting(query, c)
      /\ c[i].state = "answered" /\ Kind(c[i]) = Kind(call[i])
      /\ \A k \in Keys : Cover(k, query[k], c, tags, told)
  BY <1>2, AnsweredIs
<1>4. PICK w, w2, v2, m2 : w = told /\ w2 = told' /\ v2 = version' /\ m2 = note'
  OBVIOUS
<1>5. \A k \in Keys : Cover(k, query[k], c, tags, told')
  <2> SUFFICES ASSUME NEW k \in Keys
               PROVE  Cover(k, query[k], c, tags, w2)
    BY <1>4
  <2>1. CASE Tag(k) = Kind(c[i])
    BY <1>3, <2>1 DEF Cover
  <2>2. CASE Tag(k) # Kind(c[i])
    <3>1. Cover(k, query[k], c, tags, w)
      BY <1>3, <1>4
    <3>2. /\ Tag(k) = "Task" => \A x \in Tasks : w2[x] = w[x]
          /\ Tag(k) = "Notification" => \A x \in Notes : w2[x] = w[x]
      BY <1>1, <1>3, <1>4, <2>2 DEF Tag, Kind
    <3> QED
      BY <3>1, <3>2, ToldOfOther
  <2> QED
    BY <2>1, <2>2
<1>6. \A k \in Keys : Sound(k, query[k], version', note')
  <2> SUFFICES ASSUME NEW k \in Keys
               PROVE  Sound(k, query[k], v2, m2)
    BY <1>4
  <2>1. version \in Rows /\ v2 \in Rows /\ Sound(k, query[k], version, note)
    BY <1>1, <1>4 DEF IInv, Typed, Sounds
  <2>2. /\ \A t \in Tasks : version[t] <= v2[t]
        /\ \A n \in Notes : note[n] = "read" => m2[n] = "read"
    BY <1>1, <1>4
  <2> QED
    BY <2>1, <2>2, Grown
<1>7. UNCHANGED <<selected, shown, wire, left>>
  BY DEF Apply
<1>8. Before(query, c, tags)
  BY <1>1, <1>3, <1>5, <1>6, <1>7 DEF IInv, Typed, Before
<1>9. CASE version' # version /\ "workspace" \in rooms
  <2>1. Invalidate(query, c, tags \cup {"Task"})
    BY <1>2, <1>9 DEF Apply
  <2>2. \A k \in Keys : Cover(k, query[k], c, tags \cup {"Task"}, told')
    BY <1>5 DEF Cover
  <2>3. PICK t : t = tags \cup {"Task"}
    OBVIOUS
  <2>4. Before(query, c, t)
    BY <1>8, <2>2, <2>3 DEF Before
  <2> QED
    BY <2>1, <2>3, <2>4, InvalidatingKeeps
<1>10. CASE ~(version' # version /\ "workspace" \in rooms)
  <2>1. call' = c /\ UNCHANGED <<query, tags>>
    BY <1>2, <1>10 DEF Apply
  <2> QED
    BY <1>3, <1>8, <2>1, UnheardKeeps
<1> QED
  BY <1>9, <1>10

\* An event, heard or not, of tables that grew.
LEMMA EmitKeeps ==
  ASSUME IInv, NEW r, NEW g \in {"Task", "Notification"}, Emit(r, g),
         version' \in Rows, note' \in Lists,
         \A t \in Tasks : version[t] <= version'[t],
         \A n \in Notes : note[n] = "read" => note'[n] = "read",
         UNCHANGED <<selected, shown, wire, told>>, left' \in Nat
  PROVE  IInv'
<1>1. Kept(version', note', told')
  <2>1. \A t \in Tasks : told[t] \in Nat /\ version[t] \in Nat /\ version'[t] \in Nat
    BY DEF IInv, Typed, Rows
  <2> QED
    BY <2>1 DEF IInv, Kept
<1>2. PICK v2, m2, c : v2 = version' /\ m2 = note' /\ c = call
  OBVIOUS
<1>3. \A k \in Keys : Sound(k, query[k], version', note')
  <2> SUFFICES ASSUME NEW k \in Keys
               PROVE  Sound(k, query[k], v2, m2)
    BY <1>2
  <2>1. version \in Rows /\ v2 \in Rows /\ Sound(k, query[k], version, note)
    BY <1>2 DEF IInv, Typed, Sounds
  <2>2. /\ \A t \in Tasks : version[t] <= v2[t]
        /\ \A n \in Notes : note[n] = "read" => m2[n] = "read"
    BY <1>2
  <2> QED
    BY <2>1, <2>2, Grown
<1>4. Before(query, c, tags)
  BY <1>1, <1>2, <1>3 DEF IInv, Typed, Covers, Before
<1>5. CASE r \in rooms
  <2>1. PICK t : t = tags \cup {g}
    OBVIOUS
  <2>2. Invalidate(query, c, t)
    BY <1>2, <1>5, <2>1 DEF Emit
  <2>3. \A k \in Keys : Cover(k, query[k], c, tags, told')
    BY <1>4 DEF Before
  <2>4. \A k \in Keys : Cover(k, query[k], c, t, told')
    BY <2>1, <2>3 DEF Cover
  <2>5. Before(query, c, t)
    BY <1>4, <2>1, <2>4 DEF Before
  <2> QED
    BY <2>2, <2>5, InvalidatingKeeps
<1>6. CASE r \notin rooms
  <2>1. call' = c /\ UNCHANGED <<query, tags>>
    BY <1>2, <1>6 DEF Emit
  <2>2. tags # {} => Waiting(query, c)
    BY <1>2 DEF IInv, TagsWait
  <2> QED
    BY <1>4, <2>1, <2>2, UnheardKeeps
<1> QED
  BY <1>5, <1>6

LEMMA OthersKeeps ==
  ASSUME IInv, NEW t \in Tasks, Others(t)
  PROVE  IInv'
<1>1. version \in [Tasks -> Nat] /\ version' = [version EXCEPT ![t] = version[t] + 1]
  BY DEF IInv, Typed, Rows, Others
<1>2. version' \in Rows /\ \A x \in Tasks : version[x] <= version'[x]
  <2>1. version[t] \in Nat /\ version[t] + 1 \in Nat /\ version[t] <= version[t] + 1
    BY <1>1
  <2>2. \A x \in Tasks : version[x] <= version[x]
    BY <1>1
  <2> QED
    BY <1>1, <2>1, <2>2 DEF Rows
<1>3. PICK r, g : r = "workspace" /\ g = "Task" /\ Emit(r, g)
  BY DEF Others
<1>4. note' = note /\ note \in Lists /\ UNCHANGED <<selected, shown, wire, told>>
      /\ left' \in Nat
  BY LeftIs DEF IInv, Typed, Others
<1> QED
  BY <1>2, <1>3, <1>4, EmitKeeps

LEMMA NotifyKeeps ==
  ASSUME IInv, NEW n \in Notes, Notify(n)
  PROVE  IInv'
<1>1. /\ note \in [Notes -> {"none", "unread", "read"}] /\ note[n] = "none"
      /\ note' = [note EXCEPT ![n] = "unread"]
  BY DEF IInv, Typed, Lists, Notify
<1>2. note' \in Lists /\ \A x \in Notes : note[x] = "read" => note'[x] = "read"
  BY <1>1 DEF Lists
<1>3. PICK r, g : r = "user" /\ g = "Notification" /\ Emit(r, g)
  BY DEF Notify
<1>4. /\ version' = version /\ version \in Rows /\ UNCHANGED <<selected, shown, wire, told>>
      /\ left' \in Nat
  BY LeftIs DEF IInv, Typed, Notify
<1>5. \A t \in Tasks : version[t] <= version'[t]
  BY <1>4 DEF Rows
<1> QED
  BY <1>2, <1>3, <1>4, <1>5, EmitKeeps
---------------------------------------------------------------------------
(* The invariant *)

LEMMA InitHolds ==
  ASSUME Init
  PROVE  IInv
<1>1. \A k \in Keys : query[k] = IF k \in Tasks THEN NoQuery ELSE Sent(NoQuery)
  BY DEF Init
<1>2. ASSUME NEW k \in Keys
      PROVE  /\ Sound(k, query[k], version, note) /\ query[k].state \in {"none", "sent"}
             /\ query[k].state = "none" => k \in Tasks
  <2>1. Sound(k, NoQuery, version, note) /\ NoQuery.state = "none"
    BY NoQuerySound
  <2>2. Sound(k, Sent(NoQuery), version, note) /\ Sent(NoQuery).state = "sent"
    <3>1. NoQuery \in Query(k)
      BY <2>1 DEF Sound
    <3> QED
      BY <2>1, <3>1, SentSound, SentIs
  <2> QED
    BY <1>1, <2>1, <2>2
<1>3. Typed
  BY BrowserAssumption DEF Init, Typed, Rows, Lists, Mutation, NoCall, Fits
<1>4. Covers
  BY <1>2 DEF Covers, Cover
<1>5. TagsWait /\ Looks(selected, query, shown)
  BY DEF Init, TagsWait, Looks
<1>6. Kept(version, note, told)
  BY DEF Init, Kept
<1> QED
  BY <1>2, <1>3, <1>4, <1>5, <1>6 DEF IInv, Sounds

LEMMA NextKeeps ==
  ASSUME IInv, [Next]_vars
  PROVE  IInv'
<1>1. CASE Cache
  BY <1>1, AnswerKeeps, DeliverKeeps, EvictKeeps, PollKeeps DEF Cache
<1>2. CASE Realtime
  BY <1>2, WireKeeps
<1>3. CASE User
  BY <1>3, CloseKeeps, SelectKeeps, MutationKeeps DEF User
<1>4. CASE Server
  BY <1>4, ApplyKeeps, FailKeeps, ReturnedKeeps, OthersKeeps, NotifyKeeps DEF Server
<1>5. CASE UNCHANGED vars
  <2>1. Typed' /\ Sounds' /\ Covers' /\ TagsWait'
    BY <1>5 DEF vars, IInv, Typed, Sounds, Covers, TagsWait
  <2>2. Kept(version', note', told') /\ Looks(selected', query', shown')
    BY <1>5 DEF vars, IInv
  <2> QED
    BY <2>1, <2>2 DEF IInv
<1> QED
  BY <1>1, <1>2, <1>3, <1>4, <1>5 DEF Next

THEOREM Invariance == Spec => []IInv
<1>1. Init => IInv
  BY InitHolds
<1>2. IInv /\ [Next]_vars => IInv'
  BY NextKeeps
<1> QED
  BY <1>1, <1>2, PTL DEF Spec

---------------------------------------------------------------------------
(* What the page shows *)

\* The query cache, the mutations and the tables keep their types.
THEOREM BrowserTypeCorrect == Spec => []TypeOK
<1>1. IInv => TypeOK
  BY TypesAre
<1> QED
  BY <1>1, Invariance, PTL

\* The drawer (TaskDetailsDrawer) shows a foreign task only while its own is awaited.
THEOREM AlwaysForeignWhileAwaited == Spec => []ForeignOnlyWhileAwaited
<1>1. ASSUME IInv, selected # NoTask
      PROVE  query[selected].state \in {"none", "sent", "answered", "done", "failed"}
  <2>1. selected \in Keys
    BY <1>1, KeysAre DEF IInv, Typed
  <2>2. query[selected] \in Query(selected)
    BY <1>1, <2>1 DEF IInv, Sounds, Sound
  <2> QED
    BY <2>2 DEF Query
<1>2. IInv => ForeignOnlyWhileAwaited
  BY <1>1 DEF IInv, Looks, ForeignOnlyWhileAwaited
<1> QED
  BY <1>2, Invariance, PTL

\* The mutations' invalidatesTags bring every outcome the page was told of back to it.
THEOREM AlwaysShowsTold == Spec => []RestShowsTold
<1>1. ASSUME IInv, ~Waiting(query, call)
      PROVE  /\ tags = {}
             /\ query["board"].state = "done" => \A t \in Tasks : Board[t] >= told[t]
             /\ query["notes"].state = "done" => \A n \in Notes : told[n] = 1 => List[n] = "read"
             /\ \A t \in Tasks : query[t].state = "done" => query[t].data >= told[t]
  <2>1. tags = {}
    BY <1>1 DEF IInv, TagsWait
  <2>2. ASSUME NEW k \in Keys, query[k].state = "done"
        PROVE  Shows(k, query[k].data, told)
    <3>1. Cover(k, query[k], call, tags, told)
      BY <1>1 DEF IInv, Covers
    <3>2. \A i \in Calls : call[i].state = "idle"
      BY <1>1 DEF Waiting
    <3> QED
      BY <2>1, <2>2, <3>1, <3>2 DEF Cover
  <2> QED
    BY <2>1, <2>2, KeysAre DEF Shows, Board, List
<1>2. IInv => RestShowsTold
  BY <1>1 DEF RestShowsTold
<1> QED
  BY <1>2, Invariance, PTL

\* What becomes of the data of a query in a step.
Follows(k) ==
  \/ query'[k].data = query[k].data
  \/ query'[k].data = query[k].answer /\ query[k].answer # NoData
  \/ query'[k].data = NoData /\ k \notin {"board", "notes"}

LEMMA StaysFollow ==
  ASSUME NEW q, NEW c, NEW t, NEW k \in Keys, Invalidate(q, c, t), q[k] \in Query(k)
  PROVE  \/ query'[k].data = q[k].data
         \/ query'[k].data = NoData /\ k \notin {"board", "notes"}
<1>1. Sent(q[k]).data = q[k].data /\ NoQuery.data = NoData
  BY SentIs DEF NoQuery
<1>2. query'[k] \in {q[k], Sent(q[k])} \/ (query'[k] = NoQuery /\ ~Subscribed(k, selected))
  BY DEF Invalidate, Refetched
<1> QED
  BY <1>1, <1>2 DEF Subscribed

LEMMA AllFollow ==
  ASSUME IInv, [Next]_vars, NEW k \in Keys
  PROVE  Follows(k)
<1>0. query[k] \in Query(k) /\ DOMAIN query = Keys /\ Sound(k, query[k], version, note)
  BY DEF IInv, Sounds, Sound, Typed
<1>1. CASE query' = query
  BY <1>1 DEF Follows
<1>2. ASSUME NEW c, NEW t, Invalidate(query, c, t)
      PROVE  Follows(k)
  BY <1>0, <1>2, StaysFollow DEF Follows
<1>3. ASSUME NEW j \in Keys, Answer(j)
      PROVE  Follows(k)
  <2>1. PICK a : query' = [query EXCEPT ![j] = [query[j] EXCEPT !.state = "answered",
                                                               !.answer = a]]
    BY <1>3 DEF Answer
  <2> DEFINE o == query[j]
             r == [o EXCEPT !.state = "answered", !.answer = a]
  <2>2. o \in Query(j)
    BY DEF IInv, Sounds, Sound
  <2>3. r.data = o.data
    BY <2>2 DEF Query
  <2>4. query'[k] = IF k = j THEN r ELSE query[k]
    BY <1>0, <2>1
  <2> HIDE DEF r
  <2> QED
    BY <2>3, <2>4 DEF Follows
<1>4. ASSUME NEW j \in Keys, Deliver(j)
      PROVE  Follows(k)
  <2> DEFINE q == [query EXCEPT ![j] = Ended(j)]
  <2>1. Invalidate(q, call, tags) /\ query[j].state = "answered"
    BY <1>4 DEF Deliver
  <2>2. q[k] = IF k = j THEN Ended(k) ELSE query[k]
    BY <1>0
  <2> HIDE DEF q
  <2>3. CASE k # j
    BY <1>0, <2>1, <2>2, <2>3, StaysFollow DEF Follows
  <2>4. CASE k = j
    <3>1. /\ Sound(k, Ended(k), version, note)
          /\ Ended(k).data \in {query[k].data, query[k].answer}
          /\ Ended(k).data # query[k].data => Ended(k).data # NoData
      BY <1>0, <2>1, <2>4, EndedSound
    <3>2. q[k] = Ended(k) /\ q[k] \in Query(k)
      BY <2>2, <2>4, <3>1 DEF Sound
    <3>3. \/ query'[k].data = q[k].data
          \/ query'[k].data = NoData /\ k \notin {"board", "notes"}
      BY <2>1, <3>2, StaysFollow
    <3> QED
      BY <3>1, <3>2, <3>3 DEF Follows
  <2> QED
    BY <2>3, <2>4
<1>5. ASSUME NEW j \in Keys, Evict(j)
      PROVE  Follows(k)
  <2>1. query'[k] = IF k = j THEN NoQuery ELSE query[k]
    BY <1>0, <1>5 DEF Evict
  <2>2. k = j => k \notin {"board", "notes"}
    BY <1>5 DEF Evict, Subscribed
  <2> QED
    BY <2>1, <2>2 DEF Follows, NoQuery
<1>6. CASE Poll
  <2>1. query'[k] = IF k = "notes" THEN Sent(query[k]) ELSE query[k]
    BY <1>0, <1>6 DEF Poll
  <2> QED
    BY <1>0, <2>1, SentIs DEF Follows
<1>7. ASSUME NEW x \in Tasks, Select(x)
      PROVE  Follows(k)
  <2>1. query' = query \/ query' = [query EXCEPT ![x] = Sent(query[x])]
    BY <1>7 DEF Select
  <2>2. query'[k] = query[k] \/ query'[k] = Sent(query[k])
    BY <1>0, <2>1
  <2> QED
    BY <1>0, <2>2, SentIs DEF Follows
<1>8. CASE Realtime
  BY <1>1, <1>8 DEF Realtime, Connected, HandleConnection, Drop, NewToken, page
<1>9. CASE User
  BY <1>1, <1>7, <1>9 DEF User, Close, Edit, Create, MarkAllRead, Drag, MarkRead, Start
<1>10. CASE Server
  <2>1. ASSUME NEW i \in Calls, Apply(i)
        PROVE  Follows(k)
    <3>1. \/ query' = query
          \/ \E c : Invalidate(query, c, tags \cup {"Task"})
      BY <2>1 DEF Apply
    <3> QED
      BY <1>1, <1>2, <3>1
  <2>2. ASSUME NEW r, NEW g, Emit(r, g)
        PROVE  Follows(k)
    BY <1>1, <1>2, <2>2 DEF Emit
  <2> QED
    BY <1>1, <1>2, <1>10, <2>1, <2>2 DEF Server, Fail, Returned, Others, Notify
<1>11. CASE UNCHANGED vars
  BY <1>1, <1>11 DEF vars
<1> QED
  BY <1>3, <1>4, <1>5, <1>6, <1>8, <1>9, <1>10, <1>11 DEF Next, Cache

\* An answer that is delivered is not older than what it replaces.
THEOREM AlwaysForward == Spec => NeverBack
<1>1. ASSUME IInv, [Next]_vars
      PROVE  /\ Board # NoData => \A t \in Tasks : Board'[t] >= Board[t]
             /\ List # NoData => \A n \in Notes : List[n] = "read" => List'[n] = "read"
             /\ \A t \in Tasks : query[t].data # NoData /\ query'[t].data # NoData
                                   => query'[t].data >= query[t].data
  <2>1. \A k \in Keys : Follows(k) /\ Sound(k, query[k], version, note)
    BY <1>1, AllFollow DEF IInv, Sounds
  <2>2. ASSUME NEW k \in Keys, query[k].data # NoData, query[k].answer # NoData
        PROVE  Below(k, query[k].data, query[k].answer)
    BY <2>1, <2>2 DEF Sound
  <2>3. ASSUME Board # NoData, NEW t \in Tasks
        PROVE  Board'[t] >= Board[t]
    <3>1. Board[t] \in Nat
      BY <1>1, <2>3, BoardIs
    <3>2. \/ Board' = Board
          \/ query["board"].answer # NoData /\ Board' = query["board"].answer
      BY <2>1, KeysAre DEF Follows, Board
    <3>3. CASE Board' = Board
      BY <3>1, <3>3
    <3>4. CASE query["board"].answer # NoData /\ Board' = query["board"].answer
      <4>1. query["board"].answer \in Rows
        BY <2>1, <3>4, KeysAre, DataAre DEF Sound, Query
      <4>2. Board[t] <= Board'[t] /\ Board'[t] \in Nat
        BY <2>2, <2>3, <3>4, <4>1, KeysAre DEF Below, Board, Rows
      <4> QED
        BY <3>1, <4>2
    <3> QED
      BY <3>2, <3>3, <3>4
  <2>4. ASSUME List # NoData, NEW n \in Notes, List[n] = "read"
        PROVE  List'[n] = "read"
    <3>1. \/ List' = List
          \/ query["notes"].answer # NoData /\ List' = query["notes"].answer
      BY <2>1, KeysAre DEF Follows, List
    <3> QED
      BY <2>2, <2>4, <3>1, KeysAre DEF Below, List
  <2>5. ASSUME NEW t \in Tasks, query[t].data # NoData, query'[t].data # NoData
        PROVE  query'[t].data >= query[t].data
    <3>1. query[t].data \in Nat
      BY <2>1, <2>5, KeysAre, DataAre DEF Sound, Query
    <3>2. \/ query'[t].data = query[t].data
          \/ query[t].answer # NoData /\ query'[t].data = query[t].answer
      BY <2>1, <2>5, KeysAre DEF Follows
    <3>3. query[t].answer # NoData =>
            query[t].answer \in Nat /\ query[t].data <= query[t].answer
      BY <2>1, <2>2, <2>5, KeysAre, DataAre DEF Sound, Query, Below
    <3> QED
      BY <3>1, <3>2, <3>3
  <2> QED
    BY <2>3, <2>4, <2>5
<1>2. IInv /\ [Next]_vars =>
        [/\ Board # NoData => \A t \in Tasks : Board'[t] >= Board[t]
         /\ List # NoData => \A n \in Notes : List[n] = "read" => List'[n] = "read"
         /\ \A t \in Tasks : query[t].data # NoData /\ query'[t].data # NoData
                               => query'[t].data >= query[t].data]_vars
  BY <1>1
<1> QED
  BY <1>2, Invariance, PTL DEF Spec, NeverBack

=============================================================================
