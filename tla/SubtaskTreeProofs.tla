-------------------------- MODULE SubtaskTreeProofs --------------------------
(***************************************************************************)
(* The tasks table under any sequence of creations and deletions: types,   *)
(* why no task can be its own ancestor, that the recursive queries end and *)
(* that they return the live subtree, for every depth and number of tasks. *)
(* The inductions over the table are searches for a least counterexample,  *)
(* since every parent is older than its subtasks.                          *)
(***************************************************************************)
EXTENDS SubtaskTree, SequenceTheorems, WellFoundedInduction, TLAPS

Row == [parent : 0..MaxTasks, ws : Workspaces, deleted : BOOLEAN]

\* A parent is older than its subtasks: the foreign key knows only rows that
\* are there, and no update changes a parent.
ParentsOlder == \A i \in Ids : task[i].parent < i

IInv == TypeOK /\ ParentsOlder /\ Len(task) <= MaxTasks

\* Rows after an insertion: the old ones, and the new one at the end.
LEMMA AppendRows ==
  ASSUME NEW s \in Seq(Row), NEW r \in Row
  PROVE  /\ Append(s, r) \in Seq(Row) /\ Len(Append(s, r)) = Len(s) + 1
         /\ DOMAIN Append(s, r) = DOMAIN s \cup {Len(s) + 1}
         /\ \A i \in DOMAIN s : Append(s, r)[i] = s[i]
         /\ Append(s, r)[Len(s) + 1] = r
  OBVIOUS

LEMMA InitIInv == Init => IInv
  BY SubtaskAssumption DEF Init, IInv, TypeOK, ParentsOlder, Ids, Row

LEMMA CreateKeeps ==
  ASSUME IInv, NEW parent \in 0..MaxTasks, NEW w \in Workspaces, Create(parent, w)
  PROVE  IInv'
<1> DEFINE r == [parent |-> parent, ws |-> w, deleted |-> FALSE]
<1>1. task \in Seq(Row) /\ r \in Row
  BY DEF IInv, TypeOK, Row
<1>2. /\ task' \in Seq(Row) /\ Len(task') = Len(task) + 1
      /\ DOMAIN task' = DOMAIN task \cup {Len(task) + 1}
      /\ \A i \in DOMAIN task : task'[i] = task[i]
      /\ task'[Len(task) + 1] = r
  BY <1>1, AppendRows DEF Create
<1>3. \A i \in DOMAIN task' : task'[i].parent \in DOMAIN task' \cup {0}
  BY <1>2 DEF Create, Ids, IInv, TypeOK
<1>4. \A i \in DOMAIN task' : task'[i].parent < i
  BY <1>1, <1>2 DEF Create, Ids, IInv, ParentsOlder
<1>5. Len(task') <= MaxTasks
  BY <1>1, <1>2, SubtaskAssumption DEF Create
<1> QED
  BY <1>2, <1>3, <1>4, <1>5 DEF Create, IInv, TypeOK, ParentsOlder, Ids, Row

LEMMA DeleteKeeps ==
  ASSUME IInv, NEW i \in 1..MaxTasks, Delete(i)
  PROVE  IInv'
<1>1. task \in Seq(Row) /\ i \in DOMAIN task
  BY DEF IInv, TypeOK, Row, Delete, Live, Ids
<1> DEFINE r == [task[i] EXCEPT !.deleted = TRUE]
<1>a. task[i] \in Row
  BY <1>1
<1>b. r \in Row /\ r.parent = task[i].parent
  BY <1>a DEF Row
<1> HIDE DEF r
<1>c. task' = [task EXCEPT ![i] = r]
  BY DEF Delete, r
<1>2. /\ task' \in Seq(Row) /\ DOMAIN task' = DOMAIN task /\ Len(task') = Len(task)
      /\ \A k \in DOMAIN task : task'[k].parent = task[k].parent
  BY <1>1, <1>b, <1>c
<1> QED
  BY <1>2 DEF Delete, IInv, TypeOK, ParentsOlder, Ids, Row

LEMMA NextKeeps == IInv /\ [Next]_vars => IInv'
<1> SUFFICES ASSUME IInv, [Next]_vars PROVE IInv'
  OBVIOUS
<1>1. ASSUME UNCHANGED vars PROVE IInv'
  BY <1>1 DEF vars, IInv, TypeOK, ParentsOlder, Ids
<1>2. ASSUME NEW p \in Reqs, Check(p) PROVE IInv'
  BY <1>2 DEF Check, IInv, TypeOK, ParentsOlder, Ids
<1>3. ASSUME NEW p \in Reqs, FetchTree(p) \/ FetchDescendants(p) \/ FetchAncestors(p)
      PROVE  IInv'
  <2>1. UNCHANGED <<task, req>> /\ pc' = [pc EXCEPT ![p] = "done"]
    BY <1>3 DEF FetchTree, FetchDescendants, FetchAncestors, Answer
  <2> QED
    BY <2>1 DEF IInv, TypeOK, ParentsOlder, Ids
<1> QED
  BY <1>1, <1>2, <1>3, CreateKeeps, DeleteKeeps DEF Next, Over

\* Every reachable state of the hierarchy has the declared types, and every
\* parent that is named exists (createTask's foreign key).
THEOREM SubtaskTypeCorrect == Spec => []TypeOK
<1>1. Init => IInv
  BY InitIInv
<1>2. IInv /\ [Next]_vars => IInv'
  BY NextKeeps
<1>3. IInv => TypeOK
  BY DEF IInv
<1> QED
  BY <1>1, <1>2, <1>3, PTL DEF Spec

\* No chain of parents ever turns back: a parent is always older than its
\* subtask, which is what lets the recursive queries end.
THEOREM ParentsAreOlder == Spec => []ParentsOlder
<1>1. Init => IInv
  BY InitIInv
<1>2. IInv /\ [Next]_vars => IInv'
  BY NextKeeps
<1>3. IInv => ParentsOlder
  BY DEF IInv
<1> QED
  BY <1>1, <1>2, <1>3, PTL DEF Spec

---------------------------------------------------------------------------
(* Induction, as the search for a least counterexample *)

\* A nonempty set of numbers has a least one.
LEMMA Least ==
  ASSUME NEW T \in SUBSET Nat, T # {}
  PROVE  \E n \in T : \A m \in T : n <= m
<1> DEFINE R == OpToRel(<, Nat)
<1>1. IsWellFoundedOn(R, Nat)
  BY NatLessThanWellFounded, Zenon
<1>2. \A x, y \in Nat : <<x, y>> \in R <=> x < y
  BY DEF OpToRel
<1> HIDE DEF R
<1>3. PICK n \in T : \A m \in T : ~(<<m, n>> \in R)
  BY <1>1, WFMin
<1>4. ASSUME NEW m \in T PROVE n <= m
  <2>1. ~(m < n)
    BY <1>2, <1>3
  <2>2. m \in Nat /\ n \in Nat
    OBVIOUS
  <2> QED
    BY <2>1, <2>2
<1> QED
  BY <1>4

\* What holds of 0, and of n + 1 if of n, holds of every number: the form in
\* which the recursions below use it.
LEMMA Induction ==
  ASSUME NEW Good, 0 \in Good, \A n \in Nat : n \in Good => n + 1 \in Good
  PROVE  Nat \subseteq Good
<1> SUFFICES ASSUME Nat \ Good # {} PROVE FALSE
  OBVIOUS
<1>1. PICK n \in Nat \ Good : \A m \in Nat \ Good : n <= m
  BY Least
<1>2. n \in Nat /\ n # 0 /\ n - 1 \in Nat /\ ~(n <= n - 1)
  BY <1>1
<1>3. n - 1 \in Good
  BY <1>1, <1>2
<1>4. (n - 1) + 1 \in Good
  BY <1>2, <1>3
<1> QED
  BY <1>1, <1>2, <1>4

\* What holds of a number if of all smaller ones holds of every number.
LEMMA StrongInduction ==
  ASSUME NEW Good, \A n \in Nat : (\A m \in Nat : m < n => m \in Good) => n \in Good
  PROVE  Nat \subseteq Good
<1> SUFFICES ASSUME Nat \ Good # {} PROVE FALSE
  OBVIOUS
<1>1. PICK n \in Nat \ Good : \A m \in Nat \ Good : n <= m
  BY Least
<1>2. \A m \in Nat : m < n => ~(n <= m)
  BY <1>1
<1>3. \A m \in Nat : m < n => m \in Good
  BY <1>1, <1>2
<1> QED
  BY <1>1, <1>3

---------------------------------------------------------------------------
(* The recursive definitions *)

\* The working tables exist and are what the query computes: the seed, then
\* the children of the table before.
LEMMA LevelsUnfold ==
  ASSUME NEW seed, Len(task) \in Nat
  PROVE  Levels(seed) = [n \in 0..Len(task) |->
                           IF n = 0 THEN seed ELSE Children(Levels(seed)[n - 1])]
<1> DEFINE Upto(k, f) == f = [n \in 0..k |-> IF n = 0 THEN seed ELSE Children(f[n - 1])]
           Good == {k \in Nat : \E f : Upto(k, f)}
<1>1. 0 \in Good
  <2>1. Upto(0, [n \in 0..0 |-> seed])
    OBVIOUS
  <2> QED
    BY <2>1
<1>2. ASSUME NEW k \in Nat, k \in Good PROVE k + 1 \in Good
  <2>1. PICK f : Upto(k, f)
    BY <1>2
  <2> DEFINE g == [n \in 0..k + 1 |-> IF n = k + 1 THEN Children(f[k]) ELSE f[n]]
  <2>2. \A n \in 0..k : g[n] = f[n]
    OBVIOUS
  <2>3. \A n \in 0..k + 1 : g[n] = IF n = 0 THEN seed ELSE Children(g[n - 1])
    <3> TAKE n \in 0..k + 1
    <3>1. CASE n = k + 1
      <4>1. g[n] = Children(f[k]) /\ n - 1 = k /\ n # 0 /\ g[k] = f[k]
        BY <3>1
      <4> QED
        BY <4>1
    <3>2. CASE n # k + 1
      <4>1. n \in 0..k /\ (n # 0 => n - 1 \in 0..k)
        BY <3>2
      <4>2. g[n] = f[n] /\ (n # 0 => g[n - 1] = f[n - 1])
        BY <2>2, <4>1
      <4> QED
        BY <2>1, <4>1, <4>2
    <3> QED
      BY <3>1, <3>2
  <2>4. g = [n \in 0..k + 1 |-> g[n]]
    OBVIOUS
  <2> HIDE DEF g
  <2>5. Upto(k + 1, g)
    BY <2>3, <2>4
  <2> QED
    BY <2>5
<1>3. Nat \subseteq Good
  <2> HIDE DEF Good
  <2> QED
    BY <1>1, <1>2, Induction
<1>4. \E f : Upto(Len(task), f)
  BY <1>3
<1> DEFINE P(f) == Upto(Len(task), f)
           level == CHOOSE f : f = [n \in 0..Len(task) |->
                                      IF n = 0 THEN seed ELSE Children(f[n - 1])]
<1>5. P(CHOOSE f : P(f))
  <2> HIDE DEF P
  <2>1. \E f : P(f)
    BY <1>4 DEF P
  <2> QED
    BY <2>1, Zenon
<1>6. Levels(seed) = level
  BY DEF Levels
<1> QED
  BY <1>5, <1>6

\* The tables one by one.
LEMMA LevelStep ==
  ASSUME NEW seed, Len(task) \in Nat
  PROVE  /\ DOMAIN Levels(seed) = 0..Len(task)
         /\ Levels(seed)[0] = seed
         /\ \A n \in 1..Len(task) : Levels(seed)[n] = Children(Levels(seed)[n - 1])
<1> DEFINE level == Levels(seed)
<1>1. level = [n \in 0..Len(task) |-> IF n = 0 THEN seed ELSE Children(level[n - 1])]
  BY LevelsUnfold
<1> HIDE DEF level
<1>2. /\ DOMAIN level = 0..Len(task) /\ level[0] = seed
      /\ \A n \in 1..Len(task) : level[n] = Children(level[n - 1])
  BY <1>1
<1> QED
  BY <1>2 DEF level

\* The rows, their numbers and their parents.
LEMMA Table ==
  ASSUME IInv
  PROVE  /\ Len(task) \in Nat /\ Ids = 1..Len(task) /\ Ids \subseteq Nat \ {0}
         /\ \A i \in Ids : /\ task[i].parent \in Ids \cup {0}
                           /\ task[i].parent \in Nat /\ task[i].parent < i
<1>1. task \in Seq(Row)
  BY DEF IInv, TypeOK, Row
<1>2. Len(task) \in Nat /\ Ids = 1..Len(task)
  BY <1>1 DEF Ids
<1>3. \A i \in Ids : task[i].parent \in Ids \cup {0} /\ task[i].parent < i
  BY DEF IInv, TypeOK, ParentsOlder
<1> QED
  BY <1>2, <1>3

\* The chain of parents of a task is defined: each is older than the one before.
LEMMA PathUnfold ==
  ASSUME IInv, NEW i \in Ids
  PROVE  Path(i) = IF task[i].parent = 0 THEN <<>>
                   ELSE <<task[i].parent>> \o Path(task[i].parent)
<1> DEFINE Upto(k, f) == f = [j \in 0..k |->
                                IF j = 0 \/ task[j].parent = 0 THEN <<>>
                                ELSE <<task[j].parent>> \o f[task[j].parent]]
           Good == {k \in Nat : k <= Len(task) => \E f : Upto(k, f)}
<1>0. /\ Len(task) \in Nat /\ i \in 1..Len(task)
      /\ \A j \in 1..Len(task) : task[j].parent \in Nat /\ task[j].parent < j
  BY Table
<1>1. 0 \in Good
  <2>1. Upto(0, [j \in 0..0 |-> <<>>])
    OBVIOUS
  <2> QED
    BY <2>1
<1>2. ASSUME NEW k \in Nat, k \in Good PROVE k + 1 \in Good
  <2> SUFFICES ASSUME k + 1 <= Len(task) PROVE \E f : Upto(k + 1, f)
    OBVIOUS
  <2>1. PICK f : Upto(k, f)
    <3> HIDE DEF Upto
    <3>1. k <= Len(task)
      BY <1>0
    <3> QED
      BY <1>2, <3>1
  <2> DEFINE last == IF task[k + 1].parent = 0 THEN <<>>
                     ELSE <<task[k + 1].parent>> \o f[task[k + 1].parent]
             g == [j \in 0..k + 1 |-> IF j = k + 1 THEN last ELSE f[j]]
  <2>2. /\ \A j \in 0..k : g[j] = f[j]
        /\ g[k + 1] = last
    OBVIOUS
  <2>3. \A j \in 1..k + 1 : task[j].parent \in 0..k
    <3>1. \A j \in 1..k + 1 : j \in 1..Len(task)
      BY <1>0
    <3> QED
      BY <1>0, <3>1
  <2>4. \A j \in 0..k + 1 : g[j] = IF j = 0 \/ task[j].parent = 0 THEN <<>>
                                   ELSE <<task[j].parent>> \o g[task[j].parent]
    <3> TAKE j \in 0..k + 1
    <3> HIDE DEF g
    <3>1. CASE j = k + 1
      <4>1. j # 0 /\ j \in 1..k + 1
        BY <3>1
      <4>2. g[task[j].parent] = f[task[j].parent]
        BY <2>2, <2>3, <4>1
      <4> QED
        BY <2>2, <3>1, <4>1, <4>2
    <3>2. CASE j \in 1..k
      <4>1. g[j] = f[j] /\ j # 0 /\ j \in 0..k /\ j \in 1..k + 1
        BY <2>2, <3>2
      <4>2. g[task[j].parent] = f[task[j].parent]
        BY <2>2, <2>3, <4>1
      <4>3. f[j] = IF j = 0 \/ task[j].parent = 0 THEN <<>>
                   ELSE <<task[j].parent>> \o f[task[j].parent]
        BY <2>1, <4>1
      <4> QED
        BY <4>1, <4>2, <4>3
    <3>3. CASE j = 0
      <4>1. g[0] = f[0] /\ 0 \in 0..k
        BY <2>2
      <4>2. f[0] = <<>>
        BY <2>1, <4>1
      <4> QED
        BY <3>3, <4>1, <4>2
    <3> QED
      BY <3>1, <3>2, <3>3
  <2>5. g = [j \in 0..k + 1 |-> g[j]]
    OBVIOUS
  <2> HIDE DEF g
  <2>6. Upto(k + 1, g)
    BY <2>4, <2>5
  <2> QED
    BY <2>6
<1>3. Nat \subseteq Good
  <2> HIDE DEF Good
  <2> QED
    BY <1>1, <1>2, Induction
<1>4. \E f : Upto(Len(task), f)
  <2> HIDE DEF Upto
  <2>1. Len(task) \in Good /\ Len(task) <= Len(task)
    BY <1>0, <1>3
  <2> QED
    BY <2>1
<1> DEFINE P(f) == Upto(Len(task), f)
           up == CHOOSE f : f = [j \in 0..Len(task) |->
                                   IF j = 0 \/ task[j].parent = 0 THEN <<>>
                                   ELSE <<task[j].parent>> \o f[task[j].parent]]
<1>5. P(CHOOSE f : P(f))
  <2> HIDE DEF P
  <2>1. \E f : P(f)
    BY <1>4 DEF P
  <2> QED
    BY <2>1, Zenon
<1>6. \A j : Path(j) = up[j]
  BY DEF Path
<1>7. up = [j \in 0..Len(task) |-> IF j = 0 \/ task[j].parent = 0 THEN <<>>
                                   ELSE <<task[j].parent>> \o up[task[j].parent]]
  BY <1>5
<1> HIDE DEF up
<1>8. i \in 0..Len(task) /\ i # 0
  BY <1>0
<1>9. up[i] = IF task[i].parent = 0 THEN <<>>
              ELSE <<task[i].parent>> \o up[task[i].parent]
  BY <1>7, <1>8
<1> QED
  BY <1>6, <1>9

\* It is a sequence of tasks.
LEMMA PathType ==
  ASSUME IInv
  PROVE  \A i \in Ids : Path(i) \in Seq(Ids)
<1> DEFINE Good == {k \in Nat : k \in Ids => Path(k) \in Seq(Ids)}
<1>1. ASSUME NEW k \in Nat, \A m \in Nat : m < k => m \in Good PROVE k \in Good
  <2> SUFFICES ASSUME k \in Ids PROVE Path(k) \in Seq(Ids)
    OBVIOUS
  <2>1. Path(k) = IF task[k].parent = 0 THEN <<>>
                  ELSE <<task[k].parent>> \o Path(task[k].parent)
    BY PathUnfold
  <2>2. CASE task[k].parent = 0
    BY <2>1, <2>2
  <2>3. CASE task[k].parent # 0
    <3>1. task[k].parent \in Ids /\ Path(task[k].parent) \in Seq(Ids)
      BY <1>1, <2>3, Table
    <3>2. <<task[k].parent>> \in Seq(Ids)
      BY <3>1
    <3> QED
      BY <2>1, <2>3, <3>1, <3>2, ConcatProperties
  <2> QED
    BY <2>2, <2>3
<1>2. Nat \subseteq Good
  <2> HIDE DEF Good
  <2> QED
    BY <1>1, StrongInduction
<1> QED
  BY <1>2, Table

\* A task is below t if its parent is t or is live and below t.
LEMMA BelowStep ==
  ASSUME IInv, NEW i \in Ids, NEW t
  PROVE  Below(i, t) <=> /\ Live(i) /\ task[i].parent # 0
                         /\ task[i].parent = t \/ Below(task[i].parent, t)
<1> DEFINE q == task[i].parent
<1>1. Path(i) \in Seq(Ids) /\ Path(i) = IF q = 0 THEN <<>> ELSE <<q>> \o Path(q)
  BY PathUnfold, PathType
<1>2. CASE q = 0
  <2>1. DOMAIN Path(i) = {}
    BY <1>1, <1>2
  <2> QED
    BY <1>2, <2>1 DEF Below
<1>3. CASE q # 0
  <2>1. q \in Ids /\ Path(q) \in Seq(Ids)
    BY <1>3, Table, PathType
  <2> DEFINE s == Path(q)
             l == Len(Path(q))
  <2>2. /\ l \in Nat /\ DOMAIN s = 1..l /\ DOMAIN Path(i) = 1..l + 1
        /\ Path(i)[1] = q
        /\ \A n \in 1..l : Path(i)[n + 1] = s[n]
    <3> HIDE DEF q
    <3>1. Path(i) = <<q>> \o s /\ <<q>> \in Seq(Ids) /\ Len(<<q>>) = 1 /\ <<q>>[1] = q
          /\ s \in Seq(Ids)
      BY <1>1, <1>3, <2>1
    <3>2. /\ Len(Path(i)) = 1 + l /\ l \in Nat
          /\ \A n \in 1..1 + l : Path(i)[n] = IF n <= 1 THEN <<q>>[n] ELSE s[n - 1]
      BY <3>1, ConcatProperties
    <3>3. DOMAIN Path(i) = 1..l + 1 /\ DOMAIN s = 1..l
      BY <1>1, <3>1, <3>2
    <3>4. Path(i)[1] = q
      BY <3>1, <3>2
    <3>5. ASSUME NEW n \in 1..l PROVE Path(i)[n + 1] = s[n]
      <4>1. n + 1 \in 1..1 + l /\ ~(n + 1 <= 1) /\ (n + 1) - 1 = n
        BY <3>2
      <4> QED
        BY <3>2, <4>1
    <3> QED
      BY <3>2, <3>3, <3>4, <3>5
  <2> HIDE DEF s, l, q
  <2>3. ASSUME Below(i, t), q # t PROVE Below(q, t)
    <3>1. PICK n \in 1..l + 1 : Path(i)[n] = t /\ \A k \in 1..(n - 1) : Live(Path(i)[k])
      BY <2>2, <2>3 DEF Below
    <3>2. n # 1
      BY <2>2, <2>3, <3>1
    <3>3. n - 1 \in 1..l /\ (n - 1) + 1 = n /\ 1 \in 1..(n - 1)
      BY <2>2, <3>2
    <3>4. s[n - 1] = t /\ Live(q)
      BY <2>2, <3>1, <3>3
    <3>5. ASSUME NEW k \in 1..((n - 1) - 1) PROVE Live(s[k])
      <4>1. k + 1 \in 1..(n - 1) /\ k \in 1..l
        BY <2>2, <3>3
      <4> QED
        BY <2>2, <3>1, <4>1
    <3> QED
      BY <2>2, <3>3, <3>4, <3>5 DEF Below, s
  <2>4. ASSUME Live(i), q = t PROVE Below(i, t)
    <3>1. 1 \in 1..l + 1 /\ 1..(1 - 1) = {}
      BY <2>2
    <3> QED
      BY <2>2, <2>4, <3>1 DEF Below
  <2>5. ASSUME Live(i), Below(q, t) PROVE Below(i, t)
    <3>1. PICK n \in 1..l : s[n] = t /\ \A k \in 1..(n - 1) : Live(s[k])
      BY <2>2, <2>5 DEF Below, s
    <3>2. n + 1 \in 1..l + 1 /\ Path(i)[n + 1] = t
      BY <2>2, <3>1
    <3>3. ASSUME NEW k \in 1..((n + 1) - 1) PROVE Live(Path(i)[k])
      <4>1. CASE k = 1
        BY <2>2, <2>5, <4>1 DEF Below
      <4>2. CASE k # 1
        <5>1. k - 1 \in 1..(n - 1) /\ k - 1 \in 1..l /\ (k - 1) + 1 = k
          BY <2>2, <4>2
        <5> QED
          BY <2>2, <3>1, <5>1
      <4> QED
        BY <4>1, <4>2
    <3> QED
      BY <2>2, <2>5, <3>2, <3>3 DEF Below
  <2>6. Below(i, t) => Live(i)
    BY DEF Below
  <2> QED
    BY <1>3, <2>3, <2>4, <2>5, <2>6 DEF q
<1> QED
  BY <1>2, <1>3

---------------------------------------------------------------------------
(* What the recursive queries return *)

\* Each working table is of tasks at least so many creations younger than the
\* seed.
LEMMA LevelBound ==
  ASSUME IInv, NEW seed \in SUBSET Ids, NEW b \in Nat, \A i \in seed : b <= i
  PROVE  \A n \in 0..Len(task) : /\ Levels(seed)[n] \subseteq Ids
                                 /\ \A i \in Levels(seed)[n] : b + n <= i
<1> DEFINE level == Levels(seed)
           Good == {n \in Nat : n <= Len(task) =>
                      level[n] \subseteq Ids /\ \A i \in level[n] : b + n <= i}
<1>0. /\ Len(task) \in Nat /\ Ids = 1..Len(task) /\ level[0] = seed
      /\ \A n \in 1..Len(task) : level[n] = Children(level[n - 1])
  BY Table, LevelStep
<1> HIDE DEF level
<1>1. 0 \in Good
  <2>1. \A i \in seed : b + 0 <= i
    BY <1>0
  <2> QED
    BY <1>0, <2>1
<1>2. ASSUME NEW n \in Nat, n \in Good PROVE n + 1 \in Good
  <2> SUFFICES ASSUME n + 1 <= Len(task), NEW i \in level[n + 1]
               PROVE  i \in Ids /\ b + (n + 1) <= i
    OBVIOUS
  <2>1. n <= Len(task) /\ level[n + 1] = Children(level[n])
    <3>1. n + 1 \in 1..Len(task) /\ (n + 1) - 1 = n
      BY <1>0
    <3> QED
      BY <1>0, <3>1
  <2>2. i \in Ids /\ task[i].parent \in level[n]
    BY <2>1 DEF Children
  <2>3. b + n <= task[i].parent
    BY <1>2, <2>1, <2>2
  <2>4. task[i].parent \in Nat /\ task[i].parent < i /\ i \in Nat
    BY <2>2, Table
  <2> QED
    BY <2>2, <2>3, <2>4
<1>3. Nat \subseteq Good
  <2> HIDE DEF Good
  <2> QED
    BY <1>1, <1>2, Induction
<1> QED
  BY <1>0, <1>3 DEF level

\* The last working table has no children: there are no more tasks.
LEMMA LevelsEnd ==
  ASSUME IInv, NEW seed \in SUBSET Ids
  PROVE  Levels(seed)[Len(task)] = {} \/ Len(task) = 0
<1>1. Len(task) \in Nat /\ Ids = 1..Len(task) /\ \A i \in seed : 1 <= i
  BY Table
<1>a. 1 \in Nat /\ Len(task) \in 0..Len(task)
  BY <1>1
<1>b. \A n \in 0..Len(task) : /\ Levels(seed)[n] \subseteq Ids
                              /\ \A i \in Levels(seed)[n] : 1 + n <= i
  BY <1>1, <1>a, LevelBound
<1>2. \A i \in Levels(seed)[Len(task)] : i \in 1..Len(task) /\ 1 + Len(task) <= i
  BY <1>1, <1>a, <1>b
<1>3. \A i \in 1..Len(task) : ~(1 + Len(task) <= i)
  BY <1>1
<1> QED
  BY <1>2, <1>3

\* Two working tables from one task share no row.
LEMMA LevelsDisjoint ==
  ASSUME IInv, NEW t \in Ids
  PROVE  \A m, n \in 0..Len(task) : m < n => Levels({t})[m] \cap Levels({t})[n] = {}
<1> DEFINE level == Levels({t})
           Good == {m \in Nat : \A n \in 0..Len(task) :
                      m < n => level[m] \cap level[n] = {}}
<1>0. /\ Len(task) \in Nat /\ Ids = 1..Len(task) /\ level[0] = {t} /\ t \in Nat
      /\ \A n \in 1..Len(task) : level[n] = Children(level[n - 1])
      /\ \A n \in 0..Len(task) : \A i \in level[n] : t + n <= i
  <2>1. Len(task) \in Nat /\ Ids = 1..Len(task) /\ t \in Nat /\ {t} \in SUBSET Ids
    BY Table
  <2>2. \A i \in {t} : t <= i
    BY <2>1
  <2>3. \A n \in 0..Len(task) : /\ Levels({t})[n] \subseteq Ids
                                /\ \A i \in Levels({t})[n] : t + n <= i
    BY <2>1, <2>2, LevelBound
  <2>4. /\ Levels({t})[0] = {t}
        /\ \A n \in 1..Len(task) : Levels({t})[n] = Children(Levels({t})[n - 1])
    BY <2>1, LevelStep
  <2> QED
    BY <2>1, <2>3, <2>4
<1> HIDE DEF level
<1>1. 0 \in Good
  <2>1. ASSUME NEW n \in 0..Len(task), 0 < n PROVE t \notin level[n]
    <3>1. ~(t + n <= t)
      BY <1>0, <2>1
    <3> QED
      BY <1>0, <2>1, <3>1
  <2> QED
    BY <1>0, <2>1
<1>2. ASSUME NEW m \in Nat, m \in Good PROVE m + 1 \in Good
  <2> SUFFICES ASSUME NEW n \in 0..Len(task), m + 1 < n,
                      NEW i, i \in level[m + 1], i \in level[n]
               PROVE  FALSE
    OBVIOUS
  <2>1. /\ m + 1 \in 1..Len(task) /\ (m + 1) - 1 = m /\ n \in 1..Len(task)
        /\ n - 1 \in 0..Len(task) /\ m < n - 1
    BY <1>0
  <2>2. task[i].parent \in level[m] /\ task[i].parent \in level[n - 1]
    BY <1>0, <2>1 DEF Children
  <2> QED
    BY <1>2, <2>1, <2>2
<1>3. Nat \subseteq Good
  <2> HIDE DEF Good
  <2> QED
    BY <1>1, <1>2, Induction
<1>4. ASSUME NEW m \in 0..Len(task), NEW n \in 0..Len(task), m < n
      PROVE  level[m] \cap level[n] = {}
  <2>1. m \in Good
    <3>1. m \in Nat
      BY <1>0
    <3> HIDE DEF Good
    <3> QED
      BY <1>3, <3>1
  <2> QED
    BY <1>4, <2>1
<1> HIDE DEF Good
<1> QED
  BY <1>4 DEF level

\* The recursive part returns exactly the live tasks below the seed.
LEMMA RowsBelow ==
  ASSUME IInv, NEW seed \in SUBSET Ids
  PROVE  \A i : i \in Rows(seed) <=>
                  i \in seed \/ (i \in Ids /\ \E j \in seed : Below(i, j))
<1> DEFINE level == Levels(seed)
           L == Len(task)
           Deep(i) == \E n \in 1..L : i \in level[n]
           Under(i) == \E j \in seed : Below(i, j)
           Good == {i \in Nat : i \in Ids => (Deep(i) <=> Under(i))}
<1>0. /\ L \in Nat /\ Ids = 1..L /\ level[0] = seed
      /\ \A n \in 1..L : level[n] = Children(level[n - 1])
      /\ \A n \in 0..L : level[n] \subseteq Ids
      /\ level[L] = {} \/ L = 0
  <2>1. \A i \in seed : 1 <= i
    BY Table
  <2> QED
    BY <2>1, Table, LevelStep, LevelBound, LevelsEnd
<1> HIDE DEF level, L
<1>1. ASSUME NEW i \in Nat, \A m \in Nat : m < i => m \in Good PROVE i \in Good
  <2> SUFFICES ASSUME i \in Ids PROVE Deep(i) <=> Under(i)
    OBVIOUS
  <2> DEFINE q == task[i].parent
  <2>1. q \in Ids \cup {0} /\ q \in Nat /\ q < i /\ Ids \subseteq Nat \ {0}
    BY Table
  <2>2. Deep(i) <=> Live(i) /\ \E n \in 1..L : q \in level[n - 1]
    BY <1>0 DEF Children
  <2>3. (\E n \in 1..L : q \in level[n - 1]) <=> q \in seed \/ Deep(q)
    <3> HIDE DEF q
    <3>1. ASSUME NEW n \in 1..L, q \in level[n - 1] PROVE q \in seed \/ Deep(q)
      <4>1. CASE n = 1
        BY <1>0, <3>1, <4>1
      <4>2. CASE n # 1
        <5>1. n - 1 \in 1..L
          BY <1>0, <4>2
        <5> QED
          BY <3>1, <5>1
      <4> QED
        BY <4>1, <4>2
    <3>2. ASSUME q \in seed PROVE \E n \in 1..L : q \in level[n - 1]
      <4>1. 1 \in 1..L /\ 1 - 1 = 0
        BY <1>0
      <4> QED
        BY <1>0, <3>2, <4>1
    <3>3. ASSUME Deep(q) PROVE \E n \in 1..L : q \in level[n - 1]
      <4>1. PICK n \in 1..L : q \in level[n]
        BY <3>3
      <4>2. n # L
        BY <1>0, <4>1
      <4>3. n + 1 \in 1..L /\ (n + 1) - 1 = n
        BY <1>0, <4>2
      <4> QED
        BY <4>1, <4>3
    <3> QED
      BY <3>1, <3>2, <3>3
  <2>4. q \in Ids => (Deep(q) <=> Under(q))
    BY <1>1, <2>1
  <2>5. q \notin Ids => ~Deep(q) /\ q \notin seed
    BY <1>0
  <2>6. Under(i) <=> Live(i) /\ q # 0 /\ (q \in seed \/ Under(q))
    <3>1. \A j : Below(i, j) <=> Live(i) /\ q # 0 /\ (q = j \/ Below(q, j))
      BY BelowStep
    <3> HIDE DEF q
    <3> QED
      BY <3>1
  <2> HIDE DEF q, Deep, Under
  <2> QED
    BY <2>1, <2>2, <2>3, <2>4, <2>5, <2>6
<1>2. Nat \subseteq Good
  <2> HIDE DEF Good
  <2> QED
    BY <1>1, StrongInduction
<1>3. \A i : i \in Rows(seed) <=> i \in seed \/ Deep(i)
  <2>1. \A i : i \in Rows(seed) <=> \E n \in 0..L : i \in level[n]
    BY DEF Rows, L, level
  <2>2. ASSUME NEW i, NEW n \in 0..L, i \in level[n] PROVE i \in seed \/ Deep(i)
    <3>1. n = 0 \/ n \in 1..L
      BY <1>0
    <3> QED
      BY <1>0, <2>2, <3>1
  <2>3. 0 \in 0..L /\ 1..L \subseteq 0..L
    BY <1>0
  <2> QED
    BY <1>0, <2>1, <2>2, <2>3
<1>4. \A i : Deep(i) => i \in Ids
  BY <1>0
<1>5. Ids \subseteq Nat
  BY Table
<1> HIDE DEF Deep, Under
<1>6. \A i \in Ids : Deep(i) <=> Under(i)
  BY <1>2, <1>5
<1>7. \A i : i \in Rows(seed) <=> i \in seed \/ (i \in Ids /\ Under(i))
  BY <1>3, <1>4, <1>6
<1> QED
  BY <1>7 DEF Under

\* The recursion ends: from one task the last working table has no children,
\* and no task is in two of them (getTaskTree's WITH RECURSIVE ... UNION ALL,
\* which keeps duplicates and would go on for ever round a cycle of parents).
THEOREM RecursionAlwaysEnds == Spec => []RecursionEnds
<1>1. Init => IInv
  BY InitIInv
<1>2. IInv /\ [Next]_vars => IInv'
  BY NextKeeps
<1>3. IInv => RecursionEnds
  <2> SUFFICES ASSUME IInv, NEW t \in Ids
               PROVE  /\ Children(Levels({t})[Len(task)]) = {}
                      /\ \A m, n \in DOMAIN Levels({t}) :
                           m # n => Levels({t})[m] \cap Levels({t})[n] = {}
    BY DEF RecursionEnds
  <2>1. /\ Len(task) \in Nat /\ Len(task) # 0 /\ {t} \in SUBSET Ids
        /\ DOMAIN Levels({t}) = 0..Len(task)
    <3>1. Len(task) \in Nat /\ Ids = 1..Len(task) /\ {t} \in SUBSET Ids
      BY Table
    <3> QED
      BY <3>1, LevelStep
  <2>2. Children(Levels({t})[Len(task)]) = {}
    <3>1. Levels({t})[Len(task)] = {}
      BY <2>1, LevelsEnd
    <3> QED
      BY <3>1 DEF Children
  <2>3. ASSUME NEW m \in 0..Len(task), NEW n \in 0..Len(task), m # n
        PROVE  Levels({t})[m] \cap Levels({t})[n] = {}
    <3>1. m < n \/ n < m
      BY <2>1, <2>3
    <3>2. \A k, l \in 0..Len(task) : k < l => Levels({t})[k] \cap Levels({t})[l] = {}
      BY LevelsDisjoint
    <3> QED
      BY <3>1, <3>2
  <2> QED
    BY <2>1, <2>2, <2>3
<1> QED
  BY <1>1, <1>2, <1>3, PTL DEF Spec

---------------------------------------------------------------------------
(* What a request is answered *)

\* A request about to run its query has checked its task, which may have been
\* deleted since but keeps its row and its workspace.
Asked == /\ DOMAIN reply = Reqs
         /\ \A p \in Reqs : pc[p] = "fetch" =>
              req[p].id \in Ids /\ task[req[p].id].ws = req[p].ws

AskedInv == IInv /\ Asked

LEMMA InitAsked == Init => AskedInv
  BY InitIInv DEF Init, AskedInv, Asked

LEMMA NextAsked == AskedInv /\ [Next]_vars => AskedInv'
<1> SUFFICES ASSUME AskedInv, [Next]_vars PROVE Asked'
  BY NextKeeps DEF AskedInv
<1> USE DEF AskedInv
<1>0. task \in Seq(Row) /\ pc \in [Reqs -> {"idle", "fetch", "done"}]
  BY DEF IInv, TypeOK, Row
<1>1. ASSUME UNCHANGED vars PROVE Asked'
  BY <1>1 DEF vars, Asked, Ids
<1>2. ASSUME NEW parent \in 0..MaxTasks, NEW w \in Workspaces, Create(parent, w)
      PROVE  Asked'
  <2> DEFINE r == [parent |-> parent, ws |-> w, deleted |-> FALSE]
  <2>1. r \in Row /\ task' = Append(task, r) /\ UNCHANGED <<req, pc, reply>>
    BY <1>2 DEF Create, Row
  <2> HIDE DEF r
  <2>2. DOMAIN task \subseteq DOMAIN task' /\ \A i \in DOMAIN task : task'[i] = task[i]
    BY <1>0, <2>1, AppendRows
  <2> QED
    BY <2>1, <2>2 DEF Asked, Ids
<1>3. ASSUME NEW i \in 1..MaxTasks, Delete(i) PROVE Asked'
  <2>1. DOMAIN task' = DOMAIN task /\ \A k \in DOMAIN task : task'[k].ws = task[k].ws
    <3>1. \A k \in DOMAIN task : task[k] \in Row
      BY <1>0
    <3>2. /\ DOMAIN task' = DOMAIN task
          /\ \A k \in DOMAIN task :
               task'[k] = IF k = i THEN [task[k] EXCEPT !.deleted = TRUE] ELSE task[k]
      BY <1>0, <1>3 DEF Delete
    <3> QED
      BY <3>1, <3>2 DEF Row
  <2> QED
    BY <1>3, <2>1 DEF Delete, Asked, Ids
<1>4. ASSUME NEW p \in Reqs, Check(p) PROVE Asked'
  <2>1. PICK op \in Ops, t \in 1..MaxTasks, w \in Workspaces :
          /\ req' = [req EXCEPT ![p] = [op |-> op, id |-> t, ws |-> w]]
          /\ IF Visible(t, w)
             THEN pc' = [pc EXCEPT ![p] = "fetch"] /\ UNCHANGED reply
             ELSE /\ pc' = [pc EXCEPT ![p] = "done"]
                  /\ reply' = [reply EXCEPT ![p] = "notFound"]
    BY <1>4 DEF Check
  <2>2. UNCHANGED task /\ req \in [Reqs -> [op : Ops, id : 1..MaxTasks, ws : Workspaces] \cup {Null}]
    BY <1>4 DEF Check, IInv, TypeOK
  <2>3. req'[p].id = t /\ req'[p].ws = w /\ \A k \in Reqs \ {p} : req'[k] = req[k]
    BY <2>1, <2>2
  <2>4. CASE Visible(t, w)
    BY <1>0, <2>1, <2>2, <2>3, <2>4 DEF Asked, Visible, Live, Ids
  <2>5. CASE ~Visible(t, w)
    BY <1>0, <2>1, <2>2, <2>3, <2>5 DEF Asked, Ids
  <2> QED
    BY <2>4, <2>5
<1>5. ASSUME NEW p \in Reqs, FetchTree(p) \/ FetchDescendants(p) \/ FetchAncestors(p)
      PROVE  Asked'
  <2>1. /\ UNCHANGED <<task, req>> /\ pc' = [pc EXCEPT ![p] = "done"]
        /\ DOMAIN reply' = DOMAIN reply
    BY <1>5 DEF FetchTree, FetchDescendants, FetchAncestors, Answer
  <2> QED
    BY <1>0, <2>1 DEF Asked, Ids
<1> QED
  BY <1>1, <1>2, <1>3, <1>4, <1>5 DEF Next, Over

\* The tree of a task that is there holds it and the tasks below it, each under
\* its parent; the tree of a deleted one is null.
LEMMA TreeHolds ==
  ASSUME IInv, NEW t \in Ids
  PROVE  LET tree == BuildTree(TreeRows(t, task[t].ws), t)
             below == {i \in Ids : Below(i, t)}
         IN  IF Live(t)
             THEN /\ DOMAIN tree = below \cup {t}
                  /\ \A i \in below : \E j \in DOMAIN tree : i \in tree[j] /\ Path(i)[1] = j
             ELSE tree = Null
<1> DEFINE seed == {i \in {t} : Visible(t, task[t].ws)}
           rows == TreeRows(t, task[t].ws)
           below == {i \in Ids : Below(i, t)}
<1>1. /\ seed \in SUBSET Ids /\ (Live(t) => seed = {t}) /\ (~Live(t) => seed = {})
      /\ rows = Rows(seed)
  BY DEF Visible, TreeRows
<1> HIDE DEF seed
<1>2. \A i : i \in rows <=> i \in seed \/ (i \in Ids /\ \E j \in seed : Below(i, j))
  BY <1>1, RowsBelow
<1> HIDE DEF rows
<1>3. CASE ~Live(t)
  <2>1. t \notin rows
    BY <1>1, <1>2, <1>3
  <2> QED
    BY <1>3, <2>1 DEF BuildTree, rows
<1>4. CASE Live(t)
  <2> DEFINE tree == BuildTree(rows, t)
  <2>1. rows = below \cup {t}
    BY <1>1, <1>2, <1>4
  <2>2. tree = [i \in rows |-> {j \in rows : task[j].parent = i}]
    BY <2>1 DEF BuildTree
  <2>3. ASSUME NEW i \in below
        PROVE  \E j \in DOMAIN tree : i \in tree[j] /\ Path(i)[1] = j
    <3> DEFINE q == task[i].parent
    <3>1. q \in Ids /\ q # 0 /\ (q = t \/ Below(q, t))
      BY BelowStep, Table
    <3>2. q \in rows /\ i \in rows
      BY <2>1, <3>1
    <3>3. Path(i) = <<q>> \o Path(q) /\ Path(q) \in Seq(Ids)
      BY <3>1, PathUnfold, PathType
    <3>4. Path(i)[1] = q
      <4> HIDE DEF q
      <4>1. <<q>> \in Seq(Ids) /\ Len(<<q>>) = 1 /\ <<q>>[1] = q /\ Len(Path(q)) \in Nat
        BY <3>1, <3>3
      <4>2. 1 \in 1..Len(<<q>>) + Len(Path(q))
        BY <4>1
      <4> QED
        BY <3>3, <4>1, <4>2, ConcatProperties
    <3>5. i \in tree[q] /\ q \in DOMAIN tree
      BY <2>2, <3>2
    <3> QED
      BY <3>4, <3>5
  <2>4. DOMAIN tree = below \cup {t}
    BY <2>1, <2>2
  <2> HIDE DEF tree, below
  <2> QED
    BY <1>4, <2>3, <2>4 DEF tree, rows, below
<1> QED
  BY <1>3, <1>4

\* getTaskTree answers with the live subtree, whatever was created and deleted
\* between the check and the query and however deep the hierarchy.
THEOREM TreesAreSubtrees == Spec => TreeIsSubtree
<1> DEFINE Right(p) == LET t == req[p].id
                           below == {i \in Ids : Below(i, t)}
                       IN  IF Live(t)
                           THEN /\ DOMAIN reply'[p] = below \cup {t}
                                /\ \A i \in below : \E j \in DOMAIN reply'[p] :
                                     i \in reply'[p][j] /\ Path(i)[1] = j
                           ELSE reply'[p] = Null
<1>1. AskedInv => \A p \in Reqs : FetchTree(p) => Right(p)
  <2> SUFFICES ASSUME AskedInv, NEW p \in Reqs, FetchTree(p) PROVE Right(p)
    OBVIOUS
  <2>1. IInv /\ req[p].id \in Ids /\ task[req[p].id].ws = req[p].ws
    BY DEF FetchTree, Answer, AskedInv, Asked
  <2>2. reply'[p] = BuildTree(TreeRows(req[p].id, task[req[p].id].ws), req[p].id)
    BY <2>1 DEF FetchTree, Answer, AskedInv, Asked
  <2> QED
    BY <2>1, <2>2, TreeHolds
<1>2. AskedInv => [\A p \in Reqs : FetchTree(p) => Right(p)]_vars
  BY <1>1
<1> HIDE DEF Right
<1>3. [][\A p \in Reqs : FetchTree(p) => Right(p)]_vars => TreeIsSubtree
  BY DEF TreeIsSubtree, Right
<1> QED
  BY <1>2, <1>3, InitAsked, NextAsked, PTL DEF Spec

\* getDescendants answers with the live tasks below, whatever was created and
\* deleted between the check and the query and however deep the hierarchy.
THEOREM DescendantsAreThoseBelow == Spec => DescendantsAreBelow
<1> DEFINE Listed(p) == LET t == req[p].id
                        IN  reply'[p] = {i \in Ids : \E j \in Ids :
                               /\ task[j].parent = t /\ task[j].ws = req[p].ws
                               /\ Live(j) /\ (i = j \/ Below(i, j))}
<1>1. AskedInv => \A p \in Reqs : FetchDescendants(p) => Listed(p)
  <2> SUFFICES ASSUME AskedInv, NEW p \in Reqs, FetchDescendants(p) PROVE Listed(p)
    OBVIOUS
  <2> DEFINE t == req[p].id
             w == req[p].ws
             seed == {i \in Children({t}) : task[i].ws = w}
  <2>1. IInv /\ reply'[p] = Rows(seed)
    BY DEF FetchDescendants, Answer, AskedInv, Asked, DescendantRows
  <2>2. /\ seed \in SUBSET Ids
        /\ \A j : j \in seed <=> /\ j \in Ids /\ task[j].parent = t
                                 /\ task[j].ws = w /\ Live(j)
    BY DEF Children
  <2> HIDE DEF seed, t, w
  <2>3. \A i : i \in Rows(seed) <=>
                 i \in seed \/ (i \in Ids /\ \E j \in seed : Below(i, j))
    BY <2>1, <2>2, RowsBelow
  <2>4. Rows(seed) = {i \in Ids : \E j \in Ids :
                        /\ task[j].parent = t /\ task[j].ws = w
                        /\ Live(j) /\ (i = j \/ Below(i, j))}
    BY <2>2, <2>3
  <2> QED
    BY <2>1, <2>4 DEF t, w
<1>2. AskedInv => [\A p \in Reqs : FetchDescendants(p) => Listed(p)]_vars
  BY <1>1
<1> HIDE DEF Listed
<1>3. [][\A p \in Reqs : FetchDescendants(p) => Listed(p)]_vars => DescendantsAreBelow
  BY DEF DescendantsAreBelow, Listed
<1> QED
  BY <1>2, <1>3, InitAsked, NextAsked, PTL DEF Spec

\* What getAncestors returns, although it is to "fetch all ancestors excluding
\* self": its join, ta.id = t."parentTaskId", walks down from the parent, so
\* the answer is the parent with every live task below it, the one asked for
\* included, and nothing above the parent.
AncestorsWalkDown ==
  [][\A p \in Reqs : FetchAncestors(p) =>
       LET t == req[p].id
           above == task[t].parent
       IN  reply'[p] = {i \in Ids : /\ Live(t) /\ Live(above)
                                    /\ i = above \/ Below(i, above)}]_vars

\* The answer of getAncestors is the live subtree of the parent, for every
\* hierarchy and whatever happened between the check and the query.
THEOREM AncestorsAlwaysWalkDown == Spec => AncestorsWalkDown
<1> DEFINE Down(p) == LET t == req[p].id
                          above == task[t].parent
                      IN  reply'[p] = {i \in Ids : /\ Live(t) /\ Live(above)
                                                   /\ i = above \/ Below(i, above)}
<1>1. AskedInv => \A p \in Reqs : FetchAncestors(p) => Down(p)
  <2> SUFFICES ASSUME AskedInv, NEW p \in Reqs, FetchAncestors(p) PROVE Down(p)
    OBVIOUS
  <2> DEFINE t == req[p].id
             above == task[t].parent
             seed == {i \in Ids : Visible(t, req[p].ws) /\ i = above /\ Live(i)}
  <2>1. IInv /\ reply'[p] = Rows(seed) /\ task[t].ws = req[p].ws
    BY DEF FetchAncestors, Answer, AskedInv, Asked, AncestorRows
  <2>2. /\ seed \in SUBSET Ids
        /\ \A j : j \in seed <=> Live(t) /\ Live(above) /\ j = above
    BY <2>1 DEF Visible, Live
  <2> HIDE DEF seed, above, t
  <2>3. \A i : i \in Rows(seed) <=>
                 i \in seed \/ (i \in Ids /\ \E j \in seed : Below(i, j))
    BY <2>1, <2>2, RowsBelow
  <2>4. Rows(seed) = {i \in Ids : /\ Live(t) /\ Live(above)
                                  /\ i = above \/ Below(i, above)}
    BY <2>2, <2>3
  <2> QED
    BY <2>1, <2>4 DEF t, above
<1>2. AskedInv => [\A p \in Reqs : FetchAncestors(p) => Down(p)]_vars
  BY <1>1
<1> HIDE DEF Down
<1>3. [][\A p \in Reqs : FetchAncestors(p) => Down(p)]_vars => AncestorsWalkDown
  BY DEF AncestorsWalkDown, Down
<1> QED
  BY <1>2, <1>3, InitAsked, NextAsked, PTL DEF Spec
=============================================================================
