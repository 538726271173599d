------------------------------- MODULE Session -------------------------------
(***************************************************************************)
(* The session of one browser: several tabs, each with its own store       *)
(* (authSlice) and its own refresh promise (apiSlice), share localStorage. *)
(* A request refused with 401 exchanges the stored refresh token, once per *)
(* tab however many requests wait for it, and is sent again.  Tokens are   *)
(* numbered in the order they are minted: n is both the access token and   *)
(* the refresh token of one login or one exchange.  AuthService answers in *)
(* one step; what its own steps do to each other is the subject of Auth.   *)
(***************************************************************************)
EXTENDS Integers, Sequences, FiniteSets

CONSTANTS
  Users, Tabs,
  None,                  \* no user
  MaxReqs,               \* bound: refused requests a tab has under way at once
  MaxTokens,             \* bound: how many token pairs the server mints
  MaxFaults              \* bound: how often a tab is loaded anew or an exchange is lost

ASSUME SessionAssumption ==
  None \notin Users /\ MaxReqs \in Nat /\ MaxTokens \in Nat /\ MaxFaults \in Nat

NoToken == 0

VARIABLES
  owner,      \* the user of each token pair minted
  active,     \* the tokens whose hash an active session holds
  alarm,      \* whether refresh took an exchange for the reuse of a token
  storage,    \* localStorage: access_token, refresh_token, user_info
  store,      \* the auth slice of each tab: token, user
  refresh,    \* refreshPromise of each tab: the exchange under way
  req,        \* how many requests of each tab were denied, and how many await refresh
  excuses,    \* history: what happened that may confuse tokens
  faults      \* how many faults happened

vars == <<owner, active, alarm, storage, store, refresh, req, excuses, faults>>
server == <<owner, active, alarm>>

LoggedOut == [token |-> NoToken, user |-> None]
NoRefresh == [at |-> "none", with |-> NoToken, got |-> NoToken]
NoReqs == [denied |-> 0, await |-> 0]
Empty == [access |-> NoToken, refresh |-> NoToken, user |-> None]

Minted == Len(owner)
SessionsOf(u) == {n \in active : owner[n] = u}
Fault == faults < MaxFaults /\ faults' = faults + 1

\* (defect) the refresh token of an exchange is not stored.
CredentialsOnly(i, n, u) ==
  /\ store' = [store EXCEPT ![i] = [token |-> n, user |-> u]]
  /\ storage' = [storage EXCEPT !.access = n, !.user = u]

\* setCredentials, with the refresh token its caller stores beside it.
Credentials(i, n, u) ==
  /\ store' = [store EXCEPT ![i] = [token |-> n, user |-> u]]
  /\ storage' = [access |-> n, refresh |-> n, user |-> u]

\* (defect) the store keeps the user that logs out.
ClearTokens(i) ==
  /\ store' = [store EXCEPT ![i].token = NoToken]
  /\ storage' = Empty

\* logout of authSlice: the store of this tab and the storage of all.
ClearCredentials(i) ==
  /\ store' = [store EXCEPT ![i] = LoggedOut]
  /\ storage' = Empty

---------------------------------------------------------------------------
(* The user *)

\* Login: a new session beside those the user has; the other tabs keep their store.
Login(i, u) ==
  /\ store[i].token = NoToken /\ Minted < MaxTokens
  /\ owner' = Append(owner, u) /\ active' = active \cup {Minted + 1}
  /\ Credentials(i, Minted + 1, u)
  /\ excuses' = excuses
       \cup (IF SessionsOf(u) # {} THEN {"several"} ELSE {})
       \cup (IF \E j \in Tabs : \/ refresh[j].at # "none"
                                \/ store[j].token # NoToken /\ owner[store[j].token] # u
             THEN {"mixed"} ELSE {})
  /\ UNCHANGED <<alarm, refresh, req, faults>>

\* Navbar handleLogout: the server is not told, and nothing under way is stopped.
Logout(i) ==
  /\ store[i].token # NoToken
  /\ ClearCredentials(i)
  /\ excuses' = IF refresh[i].at # "none" THEN excuses \cup {"late"} ELSE excuses
  /\ UNCHANGED <<server, refresh, req, faults>>

\* A tab is loaded: its store starts from localStorage, what was under way is forgotten.
Load(i) ==
  /\ Fault
  /\ store' = [store EXCEPT ![i] = [token |-> storage.access, user |-> storage.user]]
  /\ refresh' = [refresh EXCEPT ![i] = NoRefresh]
  /\ req' = [req EXCEPT ![i] = NoReqs]
  /\ excuses' = IF refresh[i].at = "answered" THEN excuses \cup {"lost"} ELSE excuses
  /\ UNCHANGED <<server, storage>>

---------------------------------------------------------------------------
(* baseQueryWithReauth *)

\* JwtAuthGuard refuses a request: the token of the store is missing, or expired by then.
\* A tab without one only sends logins, which are refused for a wrong password.  Any
\* other answer changes nothing here.
Refuse(i) ==
  /\ req[i].denied + req[i].await < MaxReqs
  /\ req' = [req EXCEPT ![i].denied = @ + 1]
  /\ UNCHANGED <<server, storage, store, refresh, excuses, faults>>

\* (defect) every refused request exchanges the token itself.
ExchangeAnew(i) == [at |-> "sent", with |-> storage.refresh, got |-> NoToken]

\* The exchange that is under way in the tab, or a new one of the stored token.
ExchangeOf(i) ==
  IF refresh[i].at = "none" THEN [at |-> "sent", with |-> storage.refresh, got |-> NoToken]
  ELSE refresh[i]

\* A 401 without a stored refresh token logs out; with one it awaits the exchange.
Reauth(i) ==
  /\ req[i].denied > 0
  /\ IF storage.refresh = NoToken
     THEN /\ ClearCredentials(i)
          /\ req' = [req EXCEPT ![i].denied = @ - 1]
          /\ excuses' = IF refresh[i].at # "none" THEN excuses \cup {"late"} ELSE excuses
          /\ UNCHANGED refresh
     ELSE /\ req' = [req EXCEPT ![i] = [denied |-> @.denied - 1, await |-> @.await + 1]]
          /\ refresh' = [refresh EXCEPT ![i] = ExchangeOf(i)]
          /\ excuses' = excuses
               \cup (IF refresh[i].at = "none" /\ \E j \in Tabs \ {i} :
                           refresh[j].at # "none" /\ refresh[j].with = storage.refresh
                     THEN {"raced"} ELSE {})
               \cup (IF store[i].token = NoToken THEN {"late"} ELSE {})
          /\ UNCHANGED <<storage, store>>
  /\ UNCHANGED <<server, faults>>

Answered(i, n) == refresh' = [refresh EXCEPT ![i].at = "answered", ![i].got = n]

\* AuthService.refresh takes any active session of the user: without one it refuses,
\* with another hash it revokes them all, with the hash presented it mints the next pair.
Exchange(i) ==
  LET t == refresh[i].with
      mine == SessionsOf(owner[t])
  IN  /\ refresh[i].at = "sent"
      /\ IF mine = {} \/ Minted = MaxTokens
         THEN UNCHANGED <<owner, active, alarm>> /\ Answered(i, NoToken)
         ELSE \E n \in mine :
                IF n = t
                THEN /\ owner' = Append(owner, owner[t])
                     /\ active' = (active \ {t}) \cup {Minted + 1}
                     /\ Answered(i, Minted + 1) /\ UNCHANGED alarm
                ELSE /\ active' = active \ mine /\ alarm' = TRUE
                     /\ Answered(i, NoToken) /\ UNCHANGED owner
      /\ UNCHANGED <<storage, store, req, excuses, faults>>

\* The exchange does not reach the server, or its answer is lost.
Lose(i) ==
  /\ refresh[i].at \in {"sent", "answered"} /\ Fault
  /\ refresh[i].at = "answered" => refresh[i].got # NoToken
  /\ Answered(i, NoToken)
  /\ excuses' = IF refresh[i].at = "answered" THEN excuses \cup {"lost"} ELSE excuses
  /\ UNCHANGED <<server, storage, store, req>>

\* The requests that waited are sent once more, or give up: their answer is the last.
Resumed(i) == req' = [req EXCEPT ![i].await = 0]

\* (defect) an exchange that failed is tried again, for ever.
RefreshedAgain(i) ==
  /\ refresh[i].at = "answered"
  /\ IF refresh[i].got # NoToken
     THEN /\ Credentials(i, refresh[i].got, store[i].user) /\ Resumed(i)
          /\ refresh' = [refresh EXCEPT ![i] = NoRefresh]
     ELSE UNCHANGED <<store, storage, req>> /\ refresh' = [refresh EXCEPT ![i].at = "sent"]
  /\ UNCHANGED <<server, excuses, faults>>

\* The exchange ends: its tokens are stored for the user of the store, whoever they
\* belong to, or the tab is logged out.
Refreshed(i) ==
  /\ refresh[i].at = "answered"
  /\ refresh' = [refresh EXCEPT ![i] = NoRefresh]
  /\ IF refresh[i].got # NoToken THEN Credentials(i, refresh[i].got, store[i].user)
     ELSE ClearCredentials(i)
  /\ Resumed(i)
  /\ UNCHANGED <<server, excuses, faults>>

---------------------------------------------------------------------------
Init ==
  /\ owner = <<>> /\ active = {} /\ alarm = FALSE
  /\ storage = Empty
  /\ store = [i \in Tabs |-> LoggedOut]
  /\ refresh = [i \in Tabs |-> NoRefresh]
  /\ req = [i \in Tabs |-> NoReqs]
  /\ excuses = {} /\ faults = 0

Next ==
  \E i \in Tabs :
    \/ Logout(i) \/ Load(i) \/ Exchange(i) \/ Lose(i) \/ Refreshed(i)
    \/ \E u \in Users : Login(i, u)
    \/ Refuse(i) \/ Reauth(i)

Spec == Init /\ [][Next]_vars

\* The server answers an exchange, and a tab goes on with the answers it gets.
Fairness ==
  \A i \in Tabs : WF_vars(Exchange(i)) /\ WF_vars(Refreshed(i)) /\ WF_vars(Reauth(i))
FairSpec == Spec /\ Fairness

---------------------------------------------------------------------------
(* Properties *)

AnyUser == Users \cup {None}

\* Type correctness: stores, storage and exchanges name tokens that were minted.
TypeOK ==
  /\ owner \in Seq(Users) /\ Minted <= MaxTokens
  /\ active \subseteq 1..Minted /\ alarm \in BOOLEAN
  /\ storage \in [access : 0..Minted, refresh : 0..Minted, user : AnyUser]
  /\ store \in [Tabs -> [token : 0..Minted, user : AnyUser]]
  /\ refresh \in [Tabs -> [at : {"none", "sent", "answered"}, with : 0..Minted, got : 0..Minted]]
  /\ req \in [Tabs -> [denied : 0..MaxReqs, await : 0..MaxReqs]]
  /\ excuses \subseteq {"several", "mixed", "late", "raced", "lost"}
  /\ faults \in 0..MaxFaults

\* The server takes an honest browser for a thief only when the user has several
\* sessions, two tabs exchange the same token, or an answer was lost (refreshPromise and
\* the refresh token stored after every exchange; AuthService.refresh).
AlarmExplained == alarm => excuses \cap {"several", "raced", "lost"} # {}

\* A tab acts for the user it shows, unless another account was logged in beside it or
\* before its exchange ended (setCredentials keeps the user of the store), and is logged
\* in without a user only after an exchange that ended in a tab logged out meanwhile, or
\* a refused login that exchanged another tab's token.
IdentityKept ==
  \A i \in Tabs : store[i].token # NoToken =>
    \/ store[i].user = owner[store[i].token]
    \/ IF store[i].user = None THEN "late" \in excuses ELSE "mixed" \in excuses

\* Whatever the tabs do to it, localStorage holds the two tokens of one pair or neither:
\* no tab leaves an access token that cannot be renewed, or renews another session.
PairKept == storage.access = storage.refresh

\* A tab awaits an exchange exactly while one is under way: no request is sent again
\* with an exchange nobody started, and none is left behind by one that ended.
AwaitsExchange == \A i \in Tabs : req[i].await > 0 <=> refresh[i].at # "none"

\* Every request that waits for an exchange is let go, whatever the exchange comes to
\* (the shared refreshPromise of baseQueryWithReauth).
NobodyWaits == \A i \in Tabs : req[i].await > 0 ~> req[i].await = 0
=============================================================================
