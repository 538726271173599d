---------------------------- MODULE SessionProofs ----------------------------
(***************************************************************************)
(* What one browser may rely on, for any number of tabs, accounts, tokens, *)
(* refused requests and faults.  The inductive invariant says who holds    *)
(* which token: it is proved one action at a time, a part at a time.       *)
(***************************************************************************)
EXTENDS Session, TLAPS

Tokens == 0..Minted
Exchanging(i) == refresh[i].at # "none"

\* What the records of a tab say together.
Shape ==
  /\ \A i \in Tabs :
       /\ req[i].denied + req[i].await <= MaxReqs
       /\ refresh[i].at = "none" => refresh[i] = NoRefresh
       /\ refresh[i].at = "sent" => refresh[i].got = NoToken
       /\ Exchanging(i) => refresh[i].with # NoToken
       /\ store[i].token = NoToken => store[i].user = None
  /\ storage.access = NoToken => storage.user = None

\* A tab without a user that holds a token, or is about to get one, was logged
\* out during an exchange, or exchanged the token of another.
NobodyLate ==
  \/ "late" \in excuses
  \/ /\ \A i \in Tabs : store[i].user = None =>
          store[i].token = NoToken /\ ~Exchanging(i)
     /\ storage.user = None => storage.access = NoToken

\* The tokens somebody has, or is about to get.
Held(n) ==
  \/ n = storage.access
  \/ \E i \in Tabs : n \in {store[i].token, refresh[i].with, refresh[i].got}

OneOwner == \A m, n \in 1..Minted : Held(m) /\ Held(n) => owner[m] = owner[n]

UsersOwn ==
  /\ \A i \in Tabs : store[i].token # NoToken =>
       store[i].user \in {None, owner[store[i].token]}
  /\ storage.access # NoToken => storage.user \in {None, owner[storage.access]}

\* Until accounts are mixed all tokens held are of one account, and shown as its.
Unmixed == "mixed" \in excuses \/ (OneOwner /\ UsersOwn)

\* A user has one session.
OneSession == \A m, n \in active : owner[m] = owner[n] => m = n

\* No two tabs exchange the same token; the token of an exchange is good until the
\* server has answered it, the one it answered is good and nobody else has it yet,
\* and the stored one is good or already exchanged.
Orderly ==
  /\ \A i, j \in Tabs : Exchanging(i) /\ refresh[i].with = refresh[j].with => i = j
  /\ \A i \in Tabs :
       /\ refresh[i].at = "sent" => refresh[i].with \in active
       /\ refresh[i].got # NoToken =>
            /\ refresh[i].got \in active
            /\ refresh[i].got # storage.refresh
            /\ \A j \in Tabs : /\ refresh[j].with # refresh[i].got
                               /\ refresh[j].got = refresh[i].got => j = i
  /\ storage.refresh # NoToken =>
       \/ storage.refresh \in active
       \/ \E j \in Tabs : refresh[j].at = "answered" /\ refresh[j].with = storage.refresh

Excused == excuses \cap {"several", "raced", "lost"} # {}
Unconfused == Excused \/ (~alarm /\ OneSession /\ Orderly)

IInv == TypeOK /\ Shape /\ PairKept /\ AwaitsExchange /\ NobodyLate /\ Unmixed /\ Unconfused

---------------------------------------------------------------------------
(* Types *)

Requests == [denied : 0..MaxReqs, await : 0..MaxReqs]
Exchanges(n) == [at : {"none", "sent", "answered"}, with : 0..n, got : 0..n]
Stores(n) == [token : 0..n, user : AnyUser]
Storages(n) == [access : 0..n, refresh : 0..n, user : AnyUser]

\* One more token pair.
LEMMA OneMore ==
  ASSUME NEW s \in Seq(Users), NEW u \in Users
  PROVE  /\ Append(s, u) \in Seq(Users) /\ Len(Append(s, u)) = Len(s) + 1
         /\ \A n \in 1..Len(s) : Append(s, u)[n] = s[n]
         /\ Append(s, u)[Len(s) + 1] = u
         /\ Len(s) \in Nat
  OBVIOUS

LEMMA InitIInv == Init => IInv
<1> SUFFICES ASSUME Init PROVE IInv
  OBVIOUS
<1>0. owner \in Seq(Users) /\ Minted = 0
  BY DEF Init, Minted
<1>1. TypeOK
  <2>1. active \subseteq 1..Minted /\ excuses \subseteq {"several", "mixed", "late", "raced", "lost"}
    BY DEF Init
  <2>2. storage \in Storages(Minted) /\ store \in [Tabs -> Stores(Minted)]
    BY <1>0 DEF Init, Empty, LoggedOut, NoToken, AnyUser, Storages, Stores
  <2>3. refresh \in [Tabs -> Exchanges(Minted)] /\ req \in [Tabs -> Requests]
    BY <1>0, SessionAssumption DEF Init, NoRefresh, NoReqs, NoToken, Exchanges, Requests
  <2>4. Minted <= MaxTokens /\ faults \in 0..MaxFaults
    BY <1>0, SessionAssumption DEF Init
  <2>5. alarm \in BOOLEAN
    BY DEF Init
  <2> QED
    BY <1>0, <2>1, <2>2, <2>3, <2>4, <2>5 DEF TypeOK, Storages, Stores, Exchanges, Requests
<1>2. Shape /\ PairKept /\ AwaitsExchange /\ NobodyLate
  BY SessionAssumption
     DEF Init, Shape, PairKept, AwaitsExchange, NobodyLate, Exchanging,
         Empty, LoggedOut, NoRefresh, NoReqs, NoToken
<1>3. Unmixed /\ Unconfused
  BY <1>0 DEF Init, Unmixed, OneOwner, UsersOwn, Held, Unconfused, OneSession, Orderly,
         Exchanging, Empty, LoggedOut, NoRefresh, NoToken
<1> QED
  BY <1>1, <1>2, <1>3 DEF IInv

LEMMA LoginTypes ==
  ASSUME IInv, NEW i \in Tabs, NEW u \in Users, Login(i, u)
  PROVE  TypeOK' /\ Minted' = Minted + 1 /\ owner'[Minted + 1] = u
         /\ \A n \in 1..Minted : owner'[n] = owner[n]
<1>1. /\ owner' \in Seq(Users) /\ Minted' = Minted + 1 /\ owner'[Minted + 1] = u
      /\ \A n \in 1..Minted : owner'[n] = owner[n]
      /\ Minted \in Nat
  BY OneMore DEF IInv, TypeOK, Login, Minted
<1>2. Minted' <= MaxTokens /\ active' \subseteq 1..Minted'
  <2>1. Minted < MaxTokens /\ active' = active \cup {Minted + 1} /\ active \subseteq 1..Minted
    BY DEF IInv, TypeOK, Login
  <2> QED
    BY <1>1, <2>1, SessionAssumption
<1>3. storage' \in Storages(Minted') /\ store' \in [Tabs -> Stores(Minted')]
  BY <1>1 DEF IInv, TypeOK, Login, Credentials, Storages, Stores, AnyUser
<1>4. refresh' \in [Tabs -> Exchanges(Minted')]
  <2>1. Exchanges(Minted) \subseteq Exchanges(Minted')
    BY <1>1 DEF Exchanges
  <2> QED
    BY <2>1 DEF IInv, TypeOK, Login, Exchanges
<1>5. req' = req /\ alarm' = alarm /\ faults' = faults
  BY DEF Login
<1>6. excuses' \subseteq {"several", "mixed", "late", "raced", "lost"}
  <2>1. \A e \in excuses' : e \in excuses \cup {"several", "mixed"}
    BY DEF Login
  <2> QED
    BY <2>1 DEF IInv, TypeOK
<1> QED
  BY <1>1, <1>2, <1>3, <1>4, <1>5, <1>6 DEF IInv, TypeOK, Storages, Stores, Exchanges

---------------------------------------------------------------------------
(* Logging out: the three ways a tab clears its store and the storage *)

LEMMA ClearKeeps ==
  ASSUME IInv, NEW i \in Tabs, ClearCredentials(i), UNCHANGED <<server, faults>>,
         refresh' \in {refresh, [refresh EXCEPT ![i] = NoRefresh]},
         excuses' \in {excuses, excuses \cup {"late"}},
         Exchanging(i)' => "late" \in excuses',
         req' \in [Tabs -> Requests],
         \A j \in Tabs : req'[j].denied + req'[j].await <= MaxReqs,
         AwaitsExchange'
  PROVE  IInv'
<1>1. /\ owner' = owner /\ active' = active /\ alarm' = alarm /\ faults' = faults
      /\ Minted' = Minted /\ Minted \in Nat
      /\ storage' = Empty
  BY DEF ClearCredentials, server, Minted, IInv, TypeOK
<1>2. \A j \in Tabs : store'[j] = IF j = i THEN LoggedOut ELSE store[j]
  BY DEF ClearCredentials, IInv, TypeOK
<1>3. \A j \in Tabs : refresh'[j] \in {refresh[j], NoRefresh}
  BY DEF IInv, TypeOK
<1>4. refresh' \in [Tabs -> Exchanges(Minted)]
  <2>1. refresh \in [Tabs -> Exchanges(Minted)] /\ NoRefresh \in Exchanges(Minted)
    BY <1>1 DEF IInv, TypeOK, Exchanges, NoRefresh, NoToken
  <2> QED
    BY <2>1
<1>5. TypeOK'
  <2>1. storage' \in Storages(Minted) /\ store' \in [Tabs -> Stores(Minted)]
    BY <1>1 DEF ClearCredentials, IInv, TypeOK, Empty, LoggedOut, NoToken, AnyUser,
                Storages, Stores
  <2>2. excuses' \subseteq {"several", "mixed", "late", "raced", "lost"}
    BY DEF IInv, TypeOK
  <2> QED
    BY <1>1, <1>4, <2>1, <2>2 DEF IInv, TypeOK, Requests, Exchanges, Storages, Stores
<1>6. Shape'
  BY <1>1, <1>2, <1>3
     DEF IInv, Shape, Exchanging, Empty, LoggedOut, NoRefresh, NoToken
<1>7. PairKept'
  BY <1>1 DEF PairKept, Empty
<1>8. NobodyLate'
  <2>1. CASE "late" \in excuses'
    BY <2>1 DEF NobodyLate
  <2>2. CASE "late" \notin excuses'
    BY <2>2, <1>1, <1>2, <1>3
       DEF IInv, NobodyLate, Exchanging, Empty, LoggedOut, NoRefresh, NoToken
  <2> QED
    BY <2>1, <2>2
<1>9. Unmixed'
  <2>1. CASE "mixed" \in excuses
    BY <2>1 DEF Unmixed
  <2>2. CASE "mixed" \notin excuses
    <3>1. \A n \in 1..Minted : Held(n)' => Held(n)
      BY <1>1, <1>2, <1>3 DEF Held, Empty, LoggedOut, NoRefresh, NoToken
    <3>2. OneOwner /\ UsersOwn
      BY <2>2 DEF IInv, Unmixed
    <3>3. OneOwner'
      BY <1>1, <3>1, <3>2 DEF OneOwner
    <3>4. UsersOwn'
      BY <1>1, <1>2, <3>2 DEF UsersOwn, Empty, LoggedOut, NoToken
    <3> QED
      BY <3>3, <3>4 DEF Unmixed
  <2> QED
    BY <2>1, <2>2
<1>10. Unconfused'
  <2>1. CASE Excused
    BY <2>1 DEF Excused, Unconfused
  <2>2. CASE ~Excused
    <3>1. ~alarm /\ OneSession /\ Orderly
      BY <2>2 DEF IInv, Unconfused
    <3>2. OneSession'
      BY <1>1, <3>1 DEF OneSession
    <3>3. Orderly'
      BY <1>1, <1>3, <3>1
         DEF IInv, Shape, Orderly, Exchanging, Empty, NoRefresh, NoToken
    <3> QED
      BY <1>1, <3>1, <3>2, <3>3 DEF Unconfused
  <2> QED
    BY <2>1, <2>2
<1> QED
  BY <1>5, <1>6, <1>7, <1>8, <1>9, <1>10 DEF IInv

LEMMA LogoutKeeps ==
  ASSUME IInv, NEW i \in Tabs, Logout(i)
  PROVE  IInv'
<1>1. /\ ClearCredentials(i) /\ UNCHANGED <<server, refresh, req, faults>>
      /\ excuses' \in {excuses, excuses \cup {"late"}}
      /\ Exchanging(i)' => "late" \in excuses'
  BY DEF Logout, Exchanging, server
<1>2. /\ req' \in [Tabs -> Requests] /\ AwaitsExchange'
      /\ \A j \in Tabs : req'[j].denied + req'[j].await <= MaxReqs
  BY <1>1 DEF IInv, TypeOK, Requests, AwaitsExchange, Shape
<1> QED
  BY <1>1, <1>2, ClearKeeps

---------------------------------------------------------------------------
(* A login and a page load *)

LEMMA LoginKeeps ==
  ASSUME IInv, NEW i \in Tabs, NEW u \in Users, Login(i, u)
  PROVE  IInv'
<1> DEFINE n == Minted + 1
<1>1. /\ TypeOK' /\ Minted' = n /\ owner'[n] = u
      /\ \A m \in 1..Minted : owner'[m] = owner[m]
  BY LoginTypes
<1>2. /\ active' = active \cup {n} /\ alarm' = alarm /\ refresh' = refresh /\ req' = req
      /\ storage' = [access |-> n, refresh |-> n, user |-> u]
      /\ Minted \in Nat /\ excuses \subseteq excuses'
  BY DEF Login, Credentials, IInv, TypeOK, Minted
<1>3. /\ \A j \in Tabs : store'[j] = IF j = i THEN [token |-> n, user |-> u] ELSE store[j]
      /\ u # None /\ n # NoToken
  BY <1>2, SessionAssumption DEF Login, Credentials, IInv, TypeOK, NoToken
<1>4. \A j \in Tabs : /\ store[j].token \in Tokens /\ refresh[j].with \in Tokens
                      /\ refresh[j].got \in Tokens
                      /\ refresh[j].at = "none" => refresh[j] = NoRefresh
  BY DEF IInv, TypeOK, Tokens, Shape
<1>5. Shape' /\ PairKept' /\ AwaitsExchange'
  BY <1>2, <1>3 DEF IInv, Shape, PairKept, AwaitsExchange, Exchanging
<1>6. NobodyLate'
  BY <1>2, <1>3 DEF IInv, NobodyLate, Exchanging
<1>7. Unmixed'
  <2>1. CASE "mixed" \in excuses'
    BY <2>1 DEF Unmixed
  <2>2. CASE "mixed" \notin excuses'
    <3>1. /\ "mixed" \notin excuses
          /\ \A j \in Tabs : /\ refresh[j].at = "none"
                             /\ store[j].token # NoToken => owner[store[j].token] = u
      BY <2>2 DEF Login
    <3>2. \A m \in 1..n : Held(m)' => owner'[m] = u
      BY <3>1, <1>1, <1>2, <1>3, <1>4 DEF Held, NoRefresh, NoToken, Tokens
    <3>3. OneOwner'
      BY <3>2, <1>1 DEF OneOwner
    <3>4. UsersOwn'
      BY <3>1, <1>1, <1>2, <1>3, <1>4 DEF IInv, Unmixed, UsersOwn, Tokens, NoToken
    <3> QED
      BY <3>3, <3>4 DEF Unmixed
  <2> QED
    BY <2>1, <2>2
<1>8. Unconfused'
  <2>1. CASE Excused'
    BY <2>1 DEF Unconfused
  <2>2. CASE ~Excused'
    <3>1. ~Excused /\ SessionsOf(u) = {}
      BY <2>2 DEF Login, Excused
    <3>2. ~alarm /\ OneSession /\ Orderly
      BY <3>1 DEF IInv, Unconfused
    <3>3. active \subseteq 1..Minted /\ storage.refresh \in Tokens
      BY DEF IInv, TypeOK, Tokens
    <3>4. OneSession'
      BY <3>1, <3>2, <3>3, <1>1, <1>2 DEF OneSession, SessionsOf
    <3>5. Orderly'
      BY <3>2, <3>3, <1>2, <1>4 DEF Orderly, Exchanging, Tokens, NoToken
    <3> QED
      BY <1>2, <3>2, <3>4, <3>5 DEF Unconfused
  <2> QED
    BY <2>1, <2>2
<1> QED
  BY <1>1, <1>5, <1>6, <1>7, <1>8 DEF IInv

LEMMA LoadKeeps ==
  ASSUME IInv, NEW i \in Tabs, Load(i)
  PROVE  IInv'
<1> DEFINE s == [token |-> storage.access, user |-> storage.user]
<1>1. /\ owner' = owner /\ active' = active /\ alarm' = alarm /\ storage' = storage
      /\ Minted' = Minted /\ Minted \in Nat
      /\ faults < MaxFaults /\ faults' = faults + 1
      /\ excuses' = IF refresh[i].at = "answered" THEN excuses \cup {"lost"} ELSE excuses
  BY DEF Load, Fault, server, Minted, IInv, TypeOK
<1>2. /\ \A j \in Tabs : store'[j] = IF j = i THEN s ELSE store[j]
      /\ \A j \in Tabs : refresh'[j] = IF j = i THEN NoRefresh ELSE refresh[j]
      /\ \A j \in Tabs : req'[j] = IF j = i THEN NoReqs ELSE req[j]
  BY DEF Load, IInv, TypeOK
<1>3. TypeOK'
  <2>1. s \in Stores(Minted) /\ NoRefresh \in Exchanges(Minted) /\ NoReqs \in Requests
    BY <1>1, SessionAssumption
       DEF IInv, TypeOK, Stores, Exchanges, Requests, NoRefresh, NoReqs, NoToken
  <2>2. /\ store' \in [Tabs -> Stores(Minted)] /\ refresh' \in [Tabs -> Exchanges(Minted)]
        /\ req' \in [Tabs -> Requests]
    BY <2>1 DEF Load, IInv, TypeOK, Stores, Exchanges, Requests
  <2>3. excuses' \subseteq {"several", "mixed", "late", "raced", "lost"}
    BY <1>1 DEF IInv, TypeOK
  <2>4. faults' \in 0..MaxFaults
    BY <1>1, SessionAssumption DEF IInv, TypeOK
  <2> QED
    BY <1>1, <2>2, <2>3, <2>4 DEF IInv, TypeOK, Stores, Exchanges, Requests
<1>4. Shape' /\ PairKept' /\ AwaitsExchange'
  BY <1>1, <1>2, SessionAssumption
     DEF IInv, Shape, PairKept, AwaitsExchange, Exchanging, NoRefresh, NoReqs, NoToken
<1>5. NobodyLate'
  BY <1>1, <1>2 DEF IInv, NobodyLate, Exchanging, NoRefresh, NoToken
<1>6. Unmixed'
  <2>1. CASE "mixed" \in excuses
    BY <2>1, <1>1 DEF Unmixed
  <2>2. CASE "mixed" \notin excuses
    <3>1. \A n \in 1..Minted : Held(n)' => Held(n)
      BY <1>1, <1>2 DEF Held, NoRefresh, NoToken
    <3>2. OneOwner /\ UsersOwn
      BY <2>2 DEF IInv, Unmixed
    <3>3. OneOwner'
      BY <1>1, <3>1, <3>2 DEF OneOwner
    <3>4. UsersOwn'
      BY <1>1, <1>2, <3>2 DEF UsersOwn
    <3> QED
      BY <3>3, <3>4 DEF Unmixed
  <2> QED
    BY <2>1, <2>2
<1>7. Unconfused'
  <2>1. CASE Excused'
    BY <2>1 DEF Unconfused
  <2>2. CASE ~Excused'
    <3>1. ~Excused /\ refresh[i].at # "answered"
      BY <2>2, <1>1 DEF Excused
    <3>2. ~alarm /\ OneSession /\ Orderly
      BY <3>1 DEF IInv, Unconfused
    <3>3. OneSession'
      BY <1>1, <3>2 DEF OneSession
    <3>4. Orderly'
      BY <1>1, <1>2, <3>1, <3>2
         DEF IInv, Shape, Orderly, Exchanging, NoRefresh, NoToken
    <3> QED
      BY <1>1, <3>2, <3>3, <3>4 DEF Unconfused
  <2> QED
    BY <2>1, <2>2
<1> QED
  BY <1>3, <1>4, <1>5, <1>6, <1>7 DEF IInv

---------------------------------------------------------------------------
(* A refused request and the exchange it starts *)

LEMMA RefuseKeeps ==
  ASSUME IInv, NEW i \in Tabs, Refuse(i)
  PROVE  IInv'
<1>1. /\ UNCHANGED <<owner, active, alarm, storage, store, refresh, excuses, faults>>
      /\ Minted' = Minted
  BY DEF Refuse, server, Minted
<1>2. \A j \in Tabs : /\ req'[j].await = req[j].await
                      /\ req'[j].denied + req'[j].await <= MaxReqs
                      /\ req'[j] \in Requests
  <2> TAKE j \in Tabs
  <2>1. /\ req[j] \in Requests /\ req[j].denied + req[j].await <= MaxReqs
        /\ req' = [req EXCEPT ![i].denied = @ + 1]
        /\ req[i].denied + req[i].await < MaxReqs
    BY DEF Refuse, IInv, TypeOK, Shape, Requests
  <2>2. req'[j] = IF j = i THEN [req[j] EXCEPT !.denied = @ + 1] ELSE req[j]
    BY <2>1 DEF IInv, TypeOK
  <2> QED
    BY <2>1, <2>2, SessionAssumption DEF Requests
<1>3. req' \in [Tabs -> Requests]
  BY <1>2 DEF Refuse, IInv, TypeOK
<1>4. TypeOK' /\ Shape' /\ PairKept' /\ AwaitsExchange'
  <2>1. TypeOK'
    BY <1>1, <1>3 DEF IInv, TypeOK, Requests
  <2>2. Shape'
    BY <1>1, <1>2 DEF IInv, Shape, Exchanging
  <2> QED
    BY <1>1, <1>2, <2>1, <2>2 DEF IInv, PairKept, AwaitsExchange
<1>5. NobodyLate' /\ Unmixed'
  BY <1>1 DEF IInv, NobodyLate, Exchanging, Unmixed, OneOwner, UsersOwn, Held
<1>6. Unconfused'
  <2>1. Excused' = Excused /\ OneSession' = OneSession /\ Orderly' = Orderly
    BY <1>1 DEF Excused, OneSession, Orderly, Exchanging
  <2> QED
    BY <1>1, <2>1 DEF IInv, Unconfused
<1> QED
  BY <1>4, <1>5, <1>6 DEF IInv

LEMMA ReauthKeeps ==
  ASSUME IInv, NEW i \in Tabs, Reauth(i)
  PROVE  IInv'
<1>1. CASE storage.refresh = NoToken
  <2>1. /\ ClearCredentials(i) /\ UNCHANGED <<server, faults, refresh>>
        /\ excuses' \in {excuses, excuses \cup {"late"}}
        /\ Exchanging(i)' => "late" \in excuses'
        /\ req' = [req EXCEPT ![i].denied = @ - 1] /\ req[i].denied > 0
    BY <1>1 DEF Reauth, Exchanging, server
  <2>2. \A j \in Tabs : /\ req'[j].await = req[j].await
                        /\ req'[j].denied + req'[j].await <= MaxReqs
                        /\ req'[j] \in Requests
    <3> TAKE j \in Tabs
    <3>1. req[j] \in Requests /\ req[j].denied + req[j].await <= MaxReqs
      BY DEF IInv, TypeOK, Shape, Requests
    <3>2. req'[j] = IF j = i THEN [req[j] EXCEPT !.denied = @ - 1] ELSE req[j]
      BY <2>1 DEF IInv, TypeOK
    <3> QED
      BY <2>1, <3>1, <3>2, SessionAssumption DEF Requests
  <2>3. req' \in [Tabs -> Requests] /\ AwaitsExchange'
    BY <2>1, <2>2 DEF IInv, TypeOK, AwaitsExchange
  <2> QED
    BY <2>1, <2>2, <2>3, ClearKeeps
<1>2. CASE storage.refresh # NoToken
  <2> DEFINE x == ExchangeOf(i)
             new == [at |-> "sent", with |-> storage.refresh, got |-> NoToken]
  <2>1. /\ UNCHANGED <<owner, active, alarm, faults, storage, store>> /\ Minted' = Minted
        /\ req' = [req EXCEPT ![i] = [denied |-> @.denied - 1, await |-> @.await + 1]]
        /\ req[i].denied > 0
        /\ refresh' = [refresh EXCEPT ![i] = x]
        /\ excuses' = excuses
             \cup (IF refresh[i].at = "none" /\ \E j \in Tabs \ {i} :
                         refresh[j].at # "none" /\ refresh[j].with = storage.refresh
                   THEN {"raced"} ELSE {})
             \cup (IF store[i].token = NoToken THEN {"late"} ELSE {})
    BY <1>2 DEF Reauth, server, Minted
  <2>2. x = IF refresh[i].at = "none" THEN new ELSE refresh[i]
    BY DEF ExchangeOf
  <2> HIDE DEF x
  <2>3. \A j \in Tabs : refresh'[j] = IF j = i THEN x ELSE refresh[j]
    BY <2>1 DEF IInv, TypeOK
  <2>4. \A j \in Tabs : /\ req'[j].await = IF j = i THEN req[i].await + 1 ELSE req[j].await
                        /\ req'[j].denied + req'[j].await <= MaxReqs
                        /\ req'[j] \in Requests
    <3> TAKE j \in Tabs
    <3>1. req[j] \in Requests /\ req[j].denied + req[j].await <= MaxReqs
      BY DEF IInv, TypeOK, Shape, Requests
    <3>2. req'[j] = IF j = i THEN [denied |-> req[j].denied - 1, await |-> req[j].await + 1]
                    ELSE req[j]
      BY <2>1 DEF IInv, TypeOK
    <3> QED
      BY <2>1, <3>1, <3>2, SessionAssumption DEF Requests
  <2>5. TypeOK'
    <3>1. req' \in [Tabs -> Requests]
      BY <2>1, <2>4 DEF IInv, TypeOK
    <3>2. x \in Exchanges(Minted)
      <4>1. storage.refresh \in 0..Minted /\ Minted \in Nat
        BY DEF IInv, TypeOK, Minted
      <4>2. new \in Exchanges(Minted)
        BY <4>1 DEF Exchanges, NoToken
      <4>3. refresh[i] \in Exchanges(Minted)
        BY DEF IInv, TypeOK, Exchanges
      <4> QED
        BY <2>2, <4>2, <4>3
    <3>3. refresh' \in [Tabs -> Exchanges(Minted)]
      BY <2>1, <3>2 DEF IInv, TypeOK, Exchanges
    <3>4. \A e \in excuses' : e \in excuses \cup {"raced", "late"}
      BY <2>1
    <3>5. excuses' \subseteq {"several", "mixed", "late", "raced", "lost"}
      BY <3>4 DEF IInv, TypeOK
    <3> QED
      BY <2>1, <3>1, <3>3, <3>5 DEF IInv, TypeOK, Requests, Exchanges
  <2>6. Shape' /\ PairKept' /\ AwaitsExchange'
    <3>1. Shape'
      BY <1>2, <2>1, <2>2, <2>3, <2>4 DEF IInv, Shape, Exchanging
    <3>2. req[i].await \in Nat
      BY DEF IInv, TypeOK
    <3> QED
      BY <2>1, <2>2, <2>3, <2>4, <3>1, <3>2 DEF IInv, PairKept, AwaitsExchange, Exchanging
  <2>7. NobodyLate'
    <3>1. CASE "late" \in excuses'
      BY <3>1 DEF NobodyLate
    <3>2. CASE "late" \notin excuses'
      BY <3>2, <2>1, <2>2, <2>3 DEF IInv, NobodyLate, Exchanging
    <3> QED
      BY <3>1, <3>2
  <2>8. Unmixed'
    <3>1. CASE "mixed" \in excuses
      BY <3>1, <2>1 DEF Unmixed
    <3>2. CASE "mixed" \notin excuses
      <4>1. \A n \in 1..Minted : Held(n)' => Held(n)
        BY <2>1, <2>2, <2>3 DEF IInv, PairKept, Held, NoToken
      <4>2. OneOwner' /\ UsersOwn'
        BY <3>2, <2>1, <4>1 DEF IInv, Unmixed, OneOwner, UsersOwn
      <4> QED
        BY <4>2 DEF Unmixed
    <3> QED
      BY <3>1, <3>2
  <2>9. Unconfused'
    <3>1. CASE Excused'
      BY <3>1 DEF Unconfused
    <3>2. CASE ~Excused'
      <4>1. ~Excused
        BY <2>1, <3>2 DEF Excused
      <4>2. ~alarm /\ OneSession /\ Orderly
        BY <4>1 DEF IInv, Unconfused
      <4>3. CASE refresh[i].at # "none"
        <5>1. \A j \in Tabs : refresh'[j] = refresh[j]
          BY <4>3, <2>2, <2>3
        <5> QED
          BY <2>1, <4>2, <5>1 DEF Unconfused, OneSession, Orderly, Exchanging
      <4>4. CASE refresh[i].at = "none"
        <5>1. \A j \in Tabs \ {i} :
                refresh[j].at # "none" => refresh[j].with # storage.refresh
          BY <4>4, <2>1, <3>2 DEF Excused
        <5>2. storage.refresh \in active
          BY <1>2, <4>2, <4>4, <5>1 DEF Orderly
        <5>3. /\ refresh[i] = NoRefresh
              /\ \A j \in Tabs : refresh[j].at = "none" => refresh[j] = NoRefresh
          BY <4>4 DEF IInv, Shape
        <5>4. Orderly'
          BY <1>2, <2>1, <2>2, <2>3, <4>2, <4>4, <5>1, <5>2, <5>3
             DEF Orderly, Exchanging, NoRefresh, NoToken
        <5> QED
          BY <2>1, <4>2, <5>4 DEF Unconfused, OneSession
      <4> QED
        BY <4>3, <4>4
    <3> QED
      BY <3>1, <3>2
  <2> QED
    BY <2>5, <2>6, <2>7, <2>8, <2>9 DEF IInv
<1> QED
  BY <1>1, <1>2

---------------------------------------------------------------------------
(* The server answers, or its answer is lost *)

LEMMA AnswerTypes ==
  ASSUME IInv, NEW i \in Tabs, NEW n, Answered(i, n), refresh[i].at # "none"
  PROVE  /\ \A j \in Tabs :
              refresh'[j] = IF j = i THEN [at |-> "answered", with |-> refresh[i].with, got |-> n]
                            ELSE refresh[j]
         /\ \A N \in Nat : n \in 0..N /\ Minted <= N => refresh' \in [Tabs -> Exchanges(N)]
<1>1. refresh \in [Tabs -> Exchanges(Minted)] /\ Minted \in Nat
  BY DEF IInv, TypeOK, Exchanges, Minted
<1>2. \A j \in Tabs :
        refresh'[j] = IF j = i THEN [at |-> "answered", with |-> refresh[i].with, got |-> n]
                      ELSE refresh[j]
  <2> TAKE j \in Tabs
  <2>1. refresh'[j] = IF j = i THEN [refresh[j] EXCEPT !.at = "answered", !.got = n]
                      ELSE refresh[j]
    BY <1>1 DEF Answered
  <2>2. refresh[j] \in Exchanges(Minted)
    BY <1>1
  <2> QED
    BY <2>1, <2>2 DEF Exchanges
<1>3. ASSUME NEW N \in Nat, n \in 0..N, Minted <= N
      PROVE  refresh' \in [Tabs -> Exchanges(N)]
  <2>1. \A j \in Tabs : refresh'[j] \in Exchanges(N)
    BY <1>1, <1>2, <1>3 DEF Exchanges
  <2> QED
    BY <1>1, <2>1 DEF Answered
<1> QED
  BY <1>2, <1>3

\* An answer without tokens: the exchange was refused, not sent, or lost; if it had
\* minted a pair, this is excused.
LEMMA EmptyAnswerKeeps ==
  ASSUME IInv, NEW i \in Tabs, Answered(i, NoToken), refresh[i].at # "none",
         UNCHANGED <<owner, storage, store, req>>,
         active' \subseteq active, alarm' \in BOOLEAN, faults' \in 0..MaxFaults,
         excuses' \in {excuses, excuses \cup {"lost"}},
         Excused' \/ (/\ alarm' = alarm /\ active' = active /\ excuses' = excuses
                      /\ refresh[i].got = NoToken)
  PROVE  IInv'
<1>1. /\ Minted' = Minted /\ Minted \in Nat
      /\ \A j \in Tabs :
           refresh'[j] = IF j = i THEN [at |-> "answered", with |-> refresh[i].with,
                                        got |-> NoToken]
                         ELSE refresh[j]
      /\ refresh' \in [Tabs -> Exchanges(Minted)]
  <2>1. Minted' = Minted /\ Minted \in Nat
    BY DEF Minted, IInv, TypeOK
  <2>2. NoToken \in 0..Minted /\ Minted <= Minted
    BY <2>1 DEF NoToken
  <2> QED
    BY <2>1, <2>2, AnswerTypes
<1>2. TypeOK'
  BY <1>1 DEF IInv, TypeOK, Exchanges
<1>3. Shape' /\ PairKept' /\ AwaitsExchange'
  BY <1>1 DEF IInv, Shape, PairKept, AwaitsExchange, Exchanging
<1>4. NobodyLate'
  BY <1>1 DEF IInv, NobodyLate, Exchanging
<1>5. Unmixed'
  <2>1. CASE "mixed" \in excuses
    BY <2>1 DEF Unmixed
  <2>2. CASE "mixed" \notin excuses
    <3>1. \A n \in 1..Minted : Held(n)' => Held(n)
      BY <1>1 DEF Held, NoToken
    <3>2. OneOwner' /\ UsersOwn'
      BY <2>2, <1>1, <3>1 DEF IInv, Unmixed, OneOwner, UsersOwn
    <3> QED
      BY <3>2 DEF Unmixed
  <2> QED
    BY <2>1, <2>2
<1>6. Unconfused'
  <2>1. CASE Excused'
    BY <2>1 DEF Unconfused
  <2>2. CASE ~Excused'
    <3>1. /\ alarm' = alarm /\ active' = active /\ excuses' = excuses
          /\ refresh[i].got = NoToken
      BY <2>2
    <3>2. ~alarm /\ OneSession /\ Orderly
      BY <2>2, <3>1 DEF IInv, Unconfused, Excused
    <3>3. Orderly'
      BY <1>1, <3>1, <3>2 DEF Orderly, Exchanging, NoToken
    <3> QED
      BY <3>1, <3>2, <3>3 DEF Unconfused, OneSession
  <2> QED
    BY <2>1, <2>2
<1> QED
  BY <1>2, <1>3, <1>4, <1>5, <1>6 DEF IInv

LEMMA LoseKeeps ==
  ASSUME IInv, NEW i \in Tabs, Lose(i)
  PROVE  IInv'
<1>1. /\ Answered(i, NoToken) /\ refresh[i].at # "none"
      /\ UNCHANGED <<owner, active, alarm, storage, store, req>>
      /\ faults < MaxFaults /\ faults' = faults + 1
  BY DEF Lose, server, Fault
<1>2. /\ excuses' \in {excuses, excuses \cup {"lost"}}
      /\ \/ "lost" \in excuses'
         \/ excuses' = excuses /\ refresh[i].at = "sent"
  BY DEF Lose
<1>3. Excused' \/ (excuses' = excuses /\ refresh[i].got = NoToken)
  BY <1>2 DEF Excused, IInv, Shape
<1>4. alarm' \in BOOLEAN
  BY <1>1 DEF IInv, TypeOK
<1>5. faults' \in 0..MaxFaults
  BY <1>1, SessionAssumption DEF IInv, TypeOK
<1> QED
  BY <1>1, <1>2, <1>3, <1>4, <1>5, EmptyAnswerKeeps

LEMMA ExchangeKeeps ==
  ASSUME IInv, NEW i \in Tabs, Exchange(i)
  PROVE  IInv'
<1> DEFINE t == refresh[i].with
           mine == SessionsOf(owner[t])
           m == Minted + 1
<1>1. /\ refresh[i].at = "sent" /\ refresh[i].got = NoToken
      /\ UNCHANGED <<storage, store, req, excuses, faults>>
      /\ t \in 1..Minted /\ Minted \in Nat /\ owner \in Seq(Users) /\ owner[t] \in Users
  BY DEF Exchange, IInv, Shape, Exchanging, TypeOK, Minted, NoToken
<1>2. CASE mine = {} \/ Minted = MaxTokens
  <2>1. UNCHANGED <<owner, active, alarm>> /\ Answered(i, NoToken)
    BY <1>2 DEF Exchange
  <2>2. alarm' \in BOOLEAN
    BY <2>1 DEF IInv, TypeOK
  <2>3. faults' \in 0..MaxFaults
    BY <1>1 DEF IInv, TypeOK
  <2> QED
    BY <1>1, <2>1, <2>2, <2>3, EmptyAnswerKeeps
<1>3. ASSUME NEW n \in mine, n # t, active' = active \ mine, alarm' = TRUE,
             Answered(i, NoToken), UNCHANGED owner
      PROVE  IInv'
  <2>1. Excused
    BY <1>1, <1>3 DEF IInv, Unconfused, OneSession, Orderly, SessionsOf
  <2>2. Excused'
    BY <1>1, <2>1 DEF Excused
  <2>3. alarm' \in BOOLEAN
    BY <1>3
  <2>4. faults' \in 0..MaxFaults
    BY <1>1 DEF IInv, TypeOK
  <2> QED
    BY <1>1, <1>3, <2>2, <2>3, <2>4, EmptyAnswerKeeps
<1>4. ASSUME t \in mine, Minted # MaxTokens, owner' = Append(owner, owner[t]),
             active' = (active \ {t}) \cup {m}, Answered(i, m), UNCHANGED alarm
      PROVE  IInv'
  <2>1. /\ owner' \in Seq(Users) /\ Minted' = m /\ owner'[m] = owner[t]
        /\ \A k \in 1..Minted : owner'[k] = owner[k]
    BY <1>1, <1>4, OneMore DEF Minted
  <2>2. /\ \A j \in Tabs : refresh'[j] = IF j = i THEN [at |-> "answered", with |-> t, got |-> m]
                                         ELSE refresh[j]
        /\ refresh' \in [Tabs -> Exchanges(m)]
    BY <1>1, <1>4, AnswerTypes
  <2>3. \A j \in Tabs : /\ store[j].token \in Tokens /\ refresh[j].with \in Tokens
                        /\ refresh[j].got \in Tokens
                        /\ refresh[j].at = "none" => refresh[j] = NoRefresh
    BY DEF IInv, TypeOK, Tokens, Shape
  <2>4. storage.access \in Tokens /\ storage.refresh \in Tokens /\ active \subseteq 1..Minted
    BY DEF IInv, TypeOK, Tokens
  <2>5. TypeOK'
    <3>1. Minted' <= MaxTokens /\ active' \subseteq 1..Minted'
      <4>1. Minted <= MaxTokens
        BY DEF IInv, TypeOK
      <4>2. Minted' <= MaxTokens
        BY <1>1, <1>4, <2>1, <4>1, SessionAssumption
      <4>3. active' \subseteq 1..Minted'
        <5>1. active' \subseteq active \cup {m} /\ Minted \in Nat /\ Minted' = m
          BY <1>1, <1>4, <2>1
        <5>2. \A k \in active : k \in 1..m
          BY <1>1, <2>4
        <5>3. m \in 1..m
          BY <1>1
        <5> QED
          BY <5>1, <5>2, <5>3
      <4> QED
        BY <4>2, <4>3
    <3>2. storage' \in Storages(Minted') /\ store' \in [Tabs -> Stores(Minted')]
      <4>1. /\ Storages(Minted) \subseteq Storages(Minted')
            /\ Stores(Minted) \subseteq Stores(Minted')
        BY <1>1, <2>1 DEF Storages, Stores
      <4> QED
        BY <1>1, <4>1 DEF IInv, TypeOK, Storages, Stores
    <3>3. alarm' \in BOOLEAN
      BY <1>4 DEF IInv, TypeOK
    <3> QED
      BY <1>1, <2>1, <2>2, <3>1, <3>2, <3>3 DEF IInv, TypeOK, Storages, Stores, Exchanges
  <2>6. Shape' /\ PairKept' /\ AwaitsExchange'
    BY <1>1, <2>2 DEF IInv, Shape, PairKept, AwaitsExchange, Exchanging
  <2>7. NobodyLate'
    BY <1>1, <2>2 DEF IInv, NobodyLate, Exchanging
  <2>8. Unmixed'
    <3>1. CASE "mixed" \in excuses
      BY <1>1, <3>1 DEF Unmixed
    <3>2. CASE "mixed" \notin excuses
      <4>1. OneOwner /\ UsersOwn
        BY <3>2 DEF IInv, Unmixed
      <4>2. \A k \in 1..Minted : Held(k)' => Held(k)
        BY <1>1, <2>2 DEF Held
      <4>3. Held(t)
        BY DEF Held
      <4>4. \A k \in 1..Minted' : Held(k)' => owner'[k] = owner[t]
        <5>1. \A k \in 1..Minted : Held(k) => owner[k] = owner[t]
          BY <1>1, <4>1, <4>3 DEF OneOwner
        <5>2. \A k \in 1..Minted' : k \in 1..Minted \/ k = m
          BY <1>1, <2>1
        <5> QED
          BY <2>1, <4>2, <5>1, <5>2
      <4>5. OneOwner'
        BY <4>4 DEF OneOwner
      <4>6. UsersOwn'
        BY <1>1, <2>1, <2>3, <2>4, <4>1 DEF UsersOwn, Tokens, NoToken
      <4> QED
        BY <4>5, <4>6 DEF Unmixed
    <3> QED
      BY <3>1, <3>2
  <2>9. Unconfused'
    <3>1. CASE Excused
      BY <1>1, <3>1 DEF Unconfused, Excused
    <3>2. CASE ~Excused
      <4>1. ~alarm /\ OneSession /\ Orderly
        BY <3>2 DEF IInv, Unconfused
      <4>2. OneSession'
        <5>1. t \in active
          BY <1>4 DEF SessionsOf
        <5>2. \A k \in active' : IF k = m THEN owner'[k] = owner[t]
                                 ELSE k \in active /\ k # t /\ owner'[k] = owner[k]
          BY <1>1, <1>4, <2>1, <2>4
        <5> HIDE DEF t, m
        <5> QED
          BY <4>1, <5>1, <5>2 DEF OneSession
      <4>3. Orderly'
        <5>1. \A k, j \in Tabs : Exchanging(k)' /\ refresh'[k].with = refresh'[j].with => k = j
          BY <1>1, <2>2, <4>1 DEF Orderly, Exchanging
        <5>2. \A k \in Tabs : refresh'[k].at = "sent" => refresh'[k].with \in active'
          BY <1>1, <1>4, <2>2, <4>1 DEF Orderly, Exchanging
        <5>3. \A k \in Tabs : refresh'[k].got # NoToken =>
                /\ refresh'[k].got \in active' /\ refresh'[k].got # storage'.refresh
                /\ \A j \in Tabs : /\ refresh'[j].with # refresh'[k].got
                                   /\ refresh'[j].got = refresh'[k].got => j = k
          BY <1>1, <1>4, <2>2, <2>3, <2>4, <4>1 DEF Orderly, Tokens, NoToken
        <5>4. storage'.refresh # NoToken =>
                \/ storage'.refresh \in active'
                \/ \E j \in Tabs : refresh'[j].at = "answered" /\ refresh'[j].with = storage'.refresh
          BY <1>1, <1>4, <2>2, <4>1 DEF Orderly
        <5> QED
          BY <5>1, <5>2, <5>3, <5>4 DEF Orderly
      <4> QED
        BY <1>4, <4>1, <4>2, <4>3 DEF Unconfused
    <3> QED
      BY <3>1, <3>2
  <2> QED
    BY <2>5, <2>6, <2>7, <2>8, <2>9 DEF IInv
<1>5. CASE ~(mine = {} \/ Minted = MaxTokens)
  <2>1. PICK n \in mine :
          IF n = t
          THEN /\ owner' = Append(owner, owner[t])
               /\ active' = (active \ {t}) \cup {m}
               /\ Answered(i, m) /\ UNCHANGED alarm
          ELSE /\ active' = active \ mine /\ alarm' = TRUE
               /\ Answered(i, NoToken) /\ UNCHANGED owner
    BY <1>5 DEF Exchange
  <2>2. CASE n = t
    BY <2>1, <2>2, <1>4, <1>5
  <2>3. CASE n # t
    BY <2>1, <2>3, <1>3
  <2> QED
    BY <2>2, <2>3
<1> QED
  BY <1>2, <1>5

---------------------------------------------------------------------------
(* The exchange ends *)

LEMMA RefreshedKeeps ==
  ASSUME IInv, NEW i \in Tabs, Refreshed(i)
  PROVE  IInv'
<1> DEFINE n == refresh[i].got
           a == store[i].user
<1>1. /\ refresh[i].at = "answered" /\ UNCHANGED <<server, excuses, faults>>
      /\ refresh' = [refresh EXCEPT ![i] = NoRefresh]
      /\ req' = [req EXCEPT ![i].await = 0]
  BY DEF Refreshed, Resumed
<1>2. /\ \A j \in Tabs : refresh'[j] = IF j = i THEN NoRefresh ELSE refresh[j]
      /\ \A j \in Tabs : /\ req'[j] \in Requests
                         /\ req'[j].await = IF j = i THEN 0 ELSE req[j].await
                         /\ req'[j].denied + req'[j].await <= MaxReqs
  <2>1. \A j \in Tabs : refresh'[j] = IF j = i THEN NoRefresh ELSE refresh[j]
    BY <1>1 DEF IInv, TypeOK
  <2>2. ASSUME NEW j \in Tabs
        PROVE  /\ req'[j] \in Requests
               /\ req'[j].await = IF j = i THEN 0 ELSE req[j].await
               /\ req'[j].denied + req'[j].await <= MaxReqs
    <3>1. req[j] \in Requests /\ req[j].denied + req[j].await <= MaxReqs
      BY DEF IInv, TypeOK, Shape, Requests
    <3>2. req'[j] = IF j = i THEN [req[j] EXCEPT !.await = 0] ELSE req[j]
      BY <1>1 DEF IInv, TypeOK
    <3> QED
      BY <3>1, <3>2, SessionAssumption DEF Requests
  <2> QED
    BY <2>1, <2>2
<1>3. req' \in [Tabs -> Requests] /\ AwaitsExchange'
  <2>1. req' \in [Tabs -> Requests]
    BY <1>1, <1>2 DEF IInv, TypeOK
  <2>2. AwaitsExchange'
    BY <1>2 DEF IInv, AwaitsExchange, NoRefresh
  <2> QED
    BY <2>1, <2>2
<1>4. CASE n = NoToken
  <2>1. ClearCredentials(i) /\ ~Exchanging(i)'
    BY <1>2, <1>4 DEF Refreshed, Exchanging, NoRefresh
  <2> QED
    BY <1>1, <1>2, <1>3, <2>1, ClearKeeps
<1>5. CASE n # NoToken
  <2>1. /\ UNCHANGED <<owner, active, alarm, excuses, faults>> /\ Minted' = Minted
        /\ storage' = [access |-> n, refresh |-> n, user |-> a]
        /\ store' = [store EXCEPT ![i] = [token |-> n, user |-> a]]
        /\ Minted \in Nat /\ n \in 1..Minted /\ a \in AnyUser
    BY <1>1, <1>5 DEF Refreshed, Credentials, server, Minted, IInv, TypeOK, NoToken
  <2>2. \A j \in Tabs : store'[j] = IF j = i THEN [token |-> n, user |-> a] ELSE store[j]
    BY <2>1 DEF IInv, TypeOK
  <2>3. TypeOK'
    <3>1. storage' \in Storages(Minted)
      BY <2>1 DEF Storages
    <3>2. [token |-> n, user |-> a] \in Stores(Minted)
      BY <2>1 DEF Stores
    <3>3. store' \in [Tabs -> Stores(Minted)]
      BY <2>1, <3>2 DEF IInv, TypeOK, Stores
    <3>4. refresh \in [Tabs -> Exchanges(Minted)] /\ NoRefresh \in Exchanges(Minted)
      BY <2>1 DEF IInv, TypeOK, Exchanges, NoRefresh, NoToken
    <3>5. refresh' \in [Tabs -> Exchanges(Minted)]
      BY <1>1, <3>4
    <3> QED
      BY <1>3, <2>1, <3>1, <3>3, <3>5
         DEF IInv, TypeOK, Storages, Stores, Exchanges, Requests
  <2>4. Shape' /\ PairKept'
    BY <1>2, <1>5, <2>1, <2>2 DEF IInv, Shape, PairKept, Exchanging, NoRefresh, NoToken
  <2>5. NobodyLate'
    BY <1>1, <1>2, <1>5, <2>1, <2>2 DEF IInv, NobodyLate, Exchanging, NoRefresh, NoToken
  <2>6. Unmixed'
    <3>1. CASE "mixed" \in excuses
      BY <2>1, <3>1 DEF Unmixed
    <3>2. CASE "mixed" \notin excuses
      <4>1. OneOwner /\ UsersOwn
        BY <3>2 DEF IInv, Unmixed
      <4>2. \A k \in 1..Minted : Held(k)' => Held(k)
        BY <1>2, <2>1, <2>2 DEF Held, NoRefresh, NoToken
      <4>3. OneOwner'
        BY <2>1, <4>1, <4>2 DEF OneOwner
      <4>4. a \in {None, owner[n]}
        <5>1. CASE store[i].token = NoToken
          BY <5>1 DEF IInv, Shape
        <5>2. CASE store[i].token # NoToken
          <6>1. a \in {None, owner[store[i].token]}
            BY <4>1, <5>2 DEF UsersOwn
          <6>2. store[i].token \in 1..Minted /\ Held(store[i].token) /\ Held(n)
            BY <2>1, <5>2 DEF IInv, TypeOK, Held, NoToken
          <6>3. owner[store[i].token] = owner[n]
            BY <2>1, <4>1, <6>2 DEF OneOwner
          <6> QED
            BY <6>1, <6>3
        <5> QED
          BY <5>1, <5>2
      <4>5. UsersOwn'
        BY <2>1, <2>2, <4>1, <4>4 DEF UsersOwn
      <4> QED
        BY <4>3, <4>5 DEF Unmixed
    <3> QED
      BY <3>1, <3>2
  <2>7. Unconfused'
    <3>1. CASE Excused
      BY <2>1, <3>1 DEF Unconfused, Excused
    <3>2. CASE ~Excused
      <4>1. ~alarm /\ OneSession /\ Orderly
        BY <3>2 DEF IInv, Unconfused
      <4>2. Orderly'
        BY <1>1, <1>2, <1>5, <2>1, <4>1
           DEF IInv, Shape, Orderly, Exchanging, NoRefresh, NoToken
      <4> QED
        BY <2>1, <4>1, <4>2 DEF Unconfused, OneSession
    <3> QED
      BY <3>1, <3>2
  <2> QED
    BY <1>3, <2>3, <2>4, <2>5, <2>6, <2>7 DEF IInv
<1> QED
  BY <1>4, <1>5

---------------------------------------------------------------------------
LEMMA NextKeeps == IInv /\ [Next]_vars => IInv'
<1> SUFFICES ASSUME IInv, [Next]_vars PROVE IInv'
  OBVIOUS
<1>1. ASSUME UNCHANGED vars PROVE IInv'
  <2>1. /\ UNCHANGED <<owner, active, alarm, storage, store, refresh, req, excuses, faults>>
        /\ Minted' = Minted
    BY <1>1 DEF vars, Minted
  <2>2. TypeOK' /\ Shape' /\ PairKept' /\ AwaitsExchange' /\ NobodyLate'
    BY <2>1 DEF IInv, TypeOK, Shape, PairKept, AwaitsExchange, NobodyLate, Exchanging
  <2>3. Unmixed'
    BY <2>1 DEF IInv, Unmixed, OneOwner, UsersOwn, Held
  <2>4. Excused' = Excused /\ OneSession' = OneSession /\ Orderly' = Orderly
    BY <2>1 DEF Excused, OneSession, Orderly, Exchanging
  <2> QED
    BY <2>1, <2>2, <2>3, <2>4 DEF IInv, Unconfused
<1>2. ASSUME Next PROVE IInv'
  BY <1>2, LogoutKeeps, LoadKeeps, ExchangeKeeps, LoseKeeps, RefreshedKeeps, LoginKeeps,
     RefuseKeeps, ReauthKeeps DEF Next
<1> QED
  BY <1>1, <1>2

LEMMA Invariance == Spec => []IInv
<1>1. Init => IInv
  BY InitIInv
<1>2. IInv /\ [Next]_vars => IInv'
  BY NextKeeps
<1> QED
  BY <1>1, <1>2, PTL DEF Spec

\* Every reachable state of the tabs, the storage and the server's sessions has the
\* declared types, and names only tokens that were minted (apiSlice, authSlice).
THEOREM SessionTypeCorrect == Spec => []TypeOK
<1>1. IInv => TypeOK
  BY DEF IInv
<1> QED
  BY <1>1, Invariance, PTL

\* Whatever tabs, logins, losses and exchanges do, localStorage holds the two tokens of
\* one pair or neither (setCredentials and the refresh token stored beside it).
THEOREM PairAlwaysKept == Spec => []PairKept
<1>1. IInv => PairKept
  BY DEF IInv
<1> QED
  BY <1>1, Invariance, PTL

\* A tab awaits an exchange exactly while one is under way (refreshPromise).
THEOREM AwaitsAnExchange == Spec => []AwaitsExchange
<1>1. IInv => AwaitsExchange
  BY DEF IInv
<1> QED
  BY <1>1, Invariance, PTL

\* A tab acts for the user it shows unless accounts were mixed, and is without a user
\* only after a late exchange (setCredentials keeps the user of the store).
THEOREM IdentityAlwaysKept == Spec => []IdentityKept
<1>1. IInv => IdentityKept
  BY DEF IInv, Unmixed, UsersOwn, NobodyLate, IdentityKept
<1> QED
  BY <1>1, Invariance, PTL

\* An honest browser raises the reuse alarm of AuthService.refresh only when the user
\* has several sessions, two tabs exchange one token, or an answer was lost.
THEOREM AlarmAlwaysExplained == Spec => []AlarmExplained
<1>1. IInv => AlarmExplained
  BY DEF IInv, Unconfused, Excused, AlarmExplained
<1> QED
  BY <1>1, Invariance, PTL
=============================================================================
