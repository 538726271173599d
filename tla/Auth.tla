-------------------------------- MODULE Auth --------------------------------
(***************************************************************************)
(* Accounts and sessions: AuthService and UsersService, for one user.      *)
(* One action per stretch of a handler between two awaits; requests        *)
(* interleave at every await.                                              *)
(*                                                                         *)
(* A refresh token is a JWT of the user and the second it is minted in:    *)
(* tokens of one second are equal, and a token stands for that second.     *)
(* Sessions and the account are changed by TypeORM's load, modify, save:   *)
(* save() reads the row again, and updates the columns in which the entity *)
(* in memory, loaded earlier, differs from it.                             *)
(***************************************************************************)
EXTENDS Integers, Sequences, FiniteSets

CONSTANTS
  Reqs,          \* handlers that may run at once
  Names, Passwords,
  None,          \* no account
  Life,          \* jwt.refreshExpiration, in seconds
  Faults,        \* "queue", "crash"
  MaxSessions, MaxNow     \* bounds of the instance

ASSUME AuthAssumption ==
  /\ Names \subseteq Nat /\ Passwords \subseteq Nat \ {0}
  /\ None \notin [name : Names, verified : BOOLEAN, password : Passwords]
  /\ Life \in Nat /\ MaxSessions \in Nat /\ MaxNow \in Nat
  /\ Faults \subseteq {"queue", "crash"}

VARIABLES
  now,       \* the clock, in seconds
  account,   \* the user's row, or None
  session,   \* the user_sessions table, by id
  issued,    \* refresh tokens a client was given
  req,       \* what each handler does
  spent,     \* history: tokens exchanged for a new one
  clash      \* history: a save wrote a session others had changed since its load

vars == <<now, account, session, issued, req, spent, clash>>
history == <<spent, clash>>

Tokens == 0..MaxNow
Account == [name : Names, verified : BOOLEAN, password : Passwords]
Session == [hash : Tokens, revoked : BOOLEAN]

AccountOps == {"verify", "profile", "reset"}
SessionOps == {"logout", "revoke", "refresh"}

Idle == [at |-> "idle", op |-> "none", arg |-> 0, sid |-> 0, ent |-> None,
         minted |-> 0, cols |-> {}, raced |-> FALSE, code |-> 0, gives |-> {}]

\* At these awaits a handler holds an entity it is going to save.
Holding == {"mint", "select", "update"}
Holders(sids) == {p \in Reqs : /\ req[p].op \in SessionOps
                               /\ req[p].at \in Holding /\ req[p].sid \in sids}
AccountHolders == {p \in Reqs : req[p].op \in AccountOps /\ req[p].at \in Holding}

Active == {s \in DOMAIN session : ~session[s].revoked}

---------------------------------------------------------------------------
(* How a handler goes on *)

Step(p, from, r) == req[p].at = from /\ req' = [req EXCEPT ![p] = r]
Answer(code) == [Idle EXCEPT !.at = "reply", !.code = code]
Give(token) == [Answer(200) EXCEPT !.gives = {token}]

\* The row a handler's entity was loaded from, without the password, which
\* no entity has.
RowOf(r, acc, sess) == IF r.op \in SessionOps THEN sess[r.sid]
                       ELSE [name |-> acc.name, verified |-> acc.verified]

\* p changes a row and goes on as r; the entities of old are out of date.
Overtake(p, old, r) ==
  req' = [q \in Reqs |-> IF q = p THEN r
                         ELSE [req[q] EXCEPT !.raced = @ \/ q \in old]]

---------------------------------------------------------------------------
Init ==
  /\ now = 0 /\ account = None /\ session = <<>>
  /\ issued = {} /\ spent = {} /\ clash = FALSE
  /\ req = [p \in Reqs |-> Idle]

\* Requests a client can make: 0 is a wrong password; it sends tokens it was
\* given, and ids of sessions that getSessions lists.
Requests == [op : {"signup", "login", "reset"}, arg : Passwords]
            \cup [op : {"login", "verify"}, arg : {0}]
            \cup [op : {"profile"}, arg : Names]
            \cup {[op |-> o, arg |-> t] : o \in {"refresh", "logout"}, t \in issued}
            \cup {[op |-> "revoke", arg |-> s] : s \in Active}

Start(p) == \E c \in Requests :
  /\ Step(p, "idle", [Idle EXCEPT !.at = "find", !.op = c.op, !.arg = c.arg])
  /\ UNCHANGED <<now, account, session, issued, history>>

---------------------------------------------------------------------------
(* UsersService *)

\* createUser looks for the email, then inserts; the column is unique.
FindEmail(p) ==
  /\ req[p].op = "signup"
  /\ Step(p, "find", IF account = None THEN [req[p] EXCEPT !.at = "insert"]
                     ELSE Answer(409))
  /\ UNCHANGED <<now, account, session, issued, history>>

InsertUser(p) ==
  /\ IF account = None
     THEN /\ \E n \in Names :
               account' = [name |-> n, verified |-> FALSE, password |-> req[p].arg]
          /\ Step(p, "insert", [req[p] EXCEPT !.at = "mail"])
     ELSE /\ Step(p, "insert", Answer(500))
          /\ UNCHANGED account
  /\ UNCHANGED <<now, session, issued, history>>

\* The verification mail is enqueued outside any try: the account stays.
Mail(p) ==
  /\ \/ Step(p, "mail", Answer(201))
     \/ "queue" \in Faults /\ Step(p, "mail", Answer(500))
  /\ UNCHANGED <<now, account, session, issued, history>>

\* (defect) only verifyEmail leaves a user verified.
LoadUserUnverifies(p) ==
  /\ req[p].op \in AccountOps
  /\ Step(p, "find",
       IF account = None THEN Answer(404)
       ELSE [req[p] EXCEPT
               !.at = "select",
               !.ent = [name |-> IF req[p].op = "profile" THEN req[p].arg
                                 ELSE account.name,
                        verified |-> req[p].op = "verify"]])
  /\ UNCHANGED <<now, account, session, issued, history>>

\* verifyEmail, updateProfile and resetPassword load the user and set fields.
LoadUser(p) ==
  /\ req[p].op \in AccountOps
  /\ Step(p, "find",
       IF account = None THEN Answer(404)
       ELSE [req[p] EXCEPT
               !.at = "select",
               !.ent = [name |-> IF req[p].op = "profile" THEN req[p].arg
                                 ELSE account.name,
                        verified |-> req[p].op = "verify" \/ account.verified]])
  /\ UNCHANGED <<now, account, session, issued, history>>

\* resetPassword writes the password after it has saved the profile.
SetPassword(p) ==
  /\ Step(p, "password", Answer(200))
  /\ account' = [account EXCEPT !.password = req[p].arg]
  /\ UNCHANGED <<now, session, issued, history>>

---------------------------------------------------------------------------
(* AuthService *)

Authenticate(p) ==
  /\ req[p].op = "login"
  /\ Step(p, "find", IF account # None /\ account.password = req[p].arg
                     THEN [req[p] EXCEPT !.at = "mint"]
                     ELSE Answer(401))
  /\ UNCHANGED <<now, account, session, issued, history>>

\* (defect) the session keeps the hash of the old token.
MintUnhashed(p) ==
  /\ Step(p, "mint", [req[p] EXCEPT
                        !.minted = now,
                        !.at = IF req[p].op = "login" THEN "insertSession"
                               ELSE "select"])
  /\ UNCHANGED <<now, account, session, issued, history>>

Mint(p) ==
  /\ Step(p, "mint", [req[p] EXCEPT
                        !.minted = now,
                        !.at = IF req[p].op = "login" THEN "insertSession"
                               ELSE "select",
                        !.ent = IF req[p].op = "login" THEN @
                                ELSE [hash |-> now, revoked |-> @.revoked]])
  /\ UNCHANGED <<now, account, session, issued, history>>

InsertSession(p) ==
  /\ Len(session) < MaxSessions
  /\ session' = Append(session, [hash |-> req[p].minted, revoked |-> FALSE])
  /\ Step(p, "insertSession", Give(req[p].minted))
  /\ UNCHANGED <<now, account, issued, history>>

\* logout: a session with the token's hash, revoked or not; none is fine.
LoadByToken(p) ==
  LET found == {s \in DOMAIN session : session[s].hash = req[p].arg}
  IN  /\ req[p].op = "logout"
      /\ \/ found = {} /\ Step(p, "find", Answer(200))
         \/ \E s \in found :
              Step(p, "find", [req[p] EXCEPT
                                 !.at = "select", !.sid = s,
                                 !.ent = [session[s] EXCEPT !.revoked = TRUE]])
      /\ UNCHANGED <<now, account, session, issued, history>>

\* (defect) the endpoint toggles the session.
LoadByIdToggles(p) ==
  /\ req[p].op = "revoke"
  /\ Step(p, "find", [req[p] EXCEPT
                        !.at = "select", !.sid = req[p].arg,
                        !.ent = [session[req[p].arg] EXCEPT !.revoked = ~@]])
  /\ UNCHANGED <<now, account, session, issued, history>>

LoadById(p) ==
  /\ req[p].op = "revoke"
  /\ Step(p, "find", [req[p] EXCEPT
                        !.at = "select", !.sid = req[p].arg,
                        !.ent = [session[req[p].arg] EXCEPT !.revoked = TRUE]])
  /\ UNCHANGED <<now, account, session, issued, history>>

\* (defect) sessions are found whether revoked or not.
LoadActiveRevoked(p) ==
  /\ req[p].op = "refresh"
  /\ \E s \in DOMAIN session :
       Step(p, "find", [req[p] EXCEPT
                          !.at = IF session[s].hash = req[p].arg THEN "mint"
                                 ELSE "alarm",
                          !.sid = s, !.ent = session[s]])
  /\ UNCHANGED <<now, account, session, issued, history>>

\* refresh takes any active session of the user and compares its hash.
LoadActive(p) ==
  /\ req[p].op = "refresh"
  /\ \/ /\ now >= req[p].arg + Life \/ Active = {}
        /\ Step(p, "find", Answer(401))
     \/ /\ now < req[p].arg + Life
        /\ \E s \in Active :
             Step(p, "find", [req[p] EXCEPT
                                !.at = IF session[s].hash = req[p].arg THEN "mint"
                                       ELSE "alarm",
                                !.sid = s, !.ent = session[s]])
  /\ UNCHANGED <<now, account, session, issued, history>>

\* "This token was already used or stolen": one UPDATE revokes all sessions.
RevokeAll(p) ==
  /\ req[p].at = "alarm"
  /\ session' = [s \in DOMAIN session |-> [session[s] EXCEPT !.revoked = TRUE]]
  /\ Overtake(p, Holders(Active), Answer(403))
  /\ UNCHANGED <<now, account, issued, history>>

---------------------------------------------------------------------------
(* Repository.save, of a session or of the account *)

Saved(p) ==
  LET r == req[p]
  IN  CASE r.op = "reset" -> [Idle EXCEPT !.at = "password", !.arg = r.arg]
        [] r.op = "refresh" -> Give(r.minted)
        [] OTHER -> Answer(200)

Differing(e, r) == {c \in DOMAIN e : e[c] # r[c]}
Overwritten(r, e, cols) == [c \in DOMAIN r |-> IF c \in cols THEN e[c] ELSE r[c]]

Select(p) ==
  LET cols == Differing(req[p].ent, RowOf(req[p], account, session))
  IN  /\ Step(p, "select", IF cols = {} THEN Saved(p)
                           ELSE [req[p] EXCEPT !.at = "update", !.cols = cols])
      /\ UNCHANGED <<now, account, session, issued, history>>

Update(p) ==
  LET r == req[p]
  IN  /\ r.at = "update"
      /\ clash' = (clash \/ (r.raced /\ r.op \in SessionOps))
      /\ IF r.op \in SessionOps
         THEN /\ session' = [session EXCEPT ![r.sid] = Overwritten(@, r.ent, r.cols)]
              /\ Overtake(p, Holders({r.sid}), Saved(p))
              /\ UNCHANGED account
         ELSE /\ account' = Overwritten(account, r.ent, r.cols)
              /\ Overtake(p, AccountHolders, Saved(p))
              /\ UNCHANGED session
      /\ spent' = IF r.op = "refresh" THEN spent \cup {r.arg} ELSE spent
      /\ UNCHANGED <<now, issued>>

---------------------------------------------------------------------------
\* The audit log never fails a request; then the client gets its answer.
Reply(p) ==
  /\ Step(p, "reply", Idle)
  /\ issued' = issued \cup req[p].gives
  /\ UNCHANGED <<now, account, session, history>>

\* The process dies, or the answer is lost.
Crash(p) ==
  /\ "crash" \in Faults /\ req[p].at # "idle"
  /\ req' = [req EXCEPT ![p] = Idle]
  /\ UNCHANGED <<now, account, session, issued, history>>

Tick ==
  /\ now < MaxNow
  /\ now' = now + 1
  /\ UNCHANGED <<account, session, issued, req, history>>

Handle(p) ==
  \/ Start(p) \/ FindEmail(p) \/ InsertUser(p) \/ Mail(p) \/ LoadUser(p)
  \/ SetPassword(p) \/ Authenticate(p) \/ Mint(p) \/ InsertSession(p)
  \/ LoadByToken(p) \/ LoadById(p) \/ LoadActive(p) \/ RevokeAll(p)
  \/ Select(p) \/ Update(p) \/ Reply(p)

Next == (\E p \in Reqs : Handle(p) \/ Crash(p)) \/ Tick

Spec == Init /\ [][Next]_vars

---------------------------------------------------------------------------
(* Properties *)

Profile == [name : Names, verified : BOOLEAN]
Entity == Session \cup Profile
Steps == {"idle", "find", "insert", "mail", "password", "mint", "insertSession",
          "alarm", "select", "update", "reply"}

Handler == [at : Steps, arg : Nat, sid : Nat, minted : Tokens,
            op : {"none", "signup", "login"} \cup AccountOps \cup SessionOps,
            ent : {None} \cup Entity, raced : BOOLEAN, code : Nat,
            gives : SUBSET Tokens,
            cols : SUBSET {"hash", "revoked", "name", "verified"}]

\* Types: the tables, the tokens and the places of handlers.
TypeOK ==
  /\ now \in 0..MaxNow
  /\ account \in {None} \cup Account
  /\ session \in Seq(Session)
  /\ issued \in SUBSET Tokens /\ spent \in SUBSET Tokens /\ clash \in BOOLEAN
  /\ req \in [Reqs -> Handler]

\* What handler r is to make of the row it loaded.
Meant(r, row) ==
  CASE r.op = "refresh" -> [hash |-> r.minted, revoked |-> FALSE]
    [] r.op \in {"logout", "revoke"} -> [row EXCEPT !.revoked = TRUE]
    [] r.op = "verify" -> [row EXCEPT !.verified = TRUE]
    [] r.op = "profile" -> [row EXCEPT !.name = r.arg]
    [] OTHER -> row

Writes(p) == req[p].at = "update" /\ req'[p].at \in {"password", "reply"}

\* A save whose row nobody changed since it was loaded does what the handler
\* meant and nothing else: a refresh exchanges the token of an active session
\* for the new one, a revocation or a profile change touches its column only.
CleanSaveIsAtomic == [][\A p \in Reqs :
  Writes(p) /\ ~req[p].raced =>
    IF req[p].op \in SessionOps
    THEN LET s == req[p].sid
         IN  /\ session' = [session EXCEPT ![s] = Meant(req[p], @)]
             /\ req[p].op = "refresh" => session[s] = [hash |-> req[p].arg,
                                                      revoked |-> FALSE]
    ELSE account' = Meant(req[p], account)]_vars

\* A revoked session comes back only with a refresh that had loaded it before.
RevocationHolds == [][\A s \in DOMAIN session :
  session[s].revoked /\ ~session'[s].revoked =>
    \E p \in Reqs : /\ Writes(p) /\ req[p].raced
                   /\ req[p].op = "refresh" /\ req[p].sid = s]_vars

\* A verified account is unverified only by a profile or password change that
\* had loaded it before.
VerificationHolds == [][
  account # None /\ account.verified /\ ~account'.verified =>
    \E p \in Reqs : /\ Writes(p) /\ req[p].raced
                   /\ req[p].op \in {"profile", "reset"}]_vars

\* A refresh token is taken for stolen only if it was spent, unless the user
\* has, or had, other sessions or saves clashed.
AlarmExplained == \A p \in Reqs :
  req[p].at = "alarm" => req[p].arg \in spent \/ Len(session) > 1 \/ clash

---------------------------------------------------------------------------
(* The inductive invariant behind CleanSaveIsAtomic, RevocationHolds,       *)
(* VerificationHolds and AlarmExplained: what a handler knows at each await *)

\* A handler at an await holds what the code gave it there: an entity of a
\* row that exists, in which a revocation is revoked, a refresh is not, and a
\* verification is verified.
Knows(r, acc, sess) ==
  /\ r.op \in {"signup", "reset"} => r.arg \in Passwords
  /\ r.op = "profile" => r.arg \in Names
  /\ r.op = "refresh" => r.arg \in Tokens
  /\ r.op = "revoke" => r.arg \in DOMAIN sess
  /\ r.at = "insert" => r.op = "signup"
  /\ r.at = "password" => acc # None /\ r.arg \in Passwords
  /\ r.at = "mint" => r.op \in {"login", "refresh"}
  /\ r.at \in {"select", "update"} => r.op \in AccountOps \cup SessionOps
  /\ r.at \in Holding /\ r.op \in SessionOps =>
       /\ r.sid \in DOMAIN sess /\ r.ent \in Session
       /\ r.ent.revoked = (r.op # "refresh")
  /\ r.at \in {"select", "update"} /\ r.op = "refresh" => r.ent.hash = r.minted
  /\ r.at \in Holding /\ r.op \in AccountOps =>
       /\ acc # None /\ r.ent \in Profile
       /\ r.op = "verify" => r.ent.verified

HolderSound == \A p \in Reqs : Knows(req[p], account, session)

\* Until it is raced, what a handler holds is the row and what it meant.
Current(r, acc, sess) ==
  /\ r.op = "refresh" => sess[r.sid] = [hash |-> r.arg, revoked |-> FALSE]
  /\ r.at \in {"select", "update"} => r.ent = Meant(r, RowOf(r, acc, sess))
  /\ r.at = "update" => r.cols = Differing(r.ent, RowOf(r, acc, sess))

HeldCurrent == \A p \in Reqs : req[p].at \in Holding /\ ~req[p].raced
                                => Current(req[p], account, session)

IInv == TypeOK /\ HolderSound /\ HeldCurrent

(* The further invariant behind AlarmExplained: where tokens come from       *)

\* The token is the one the lone session expects, or was exchanged.
Expected(t) == t \in spent \/ (Len(session) = 1 /\ t = session[1].hash)

\* Every token under way is: those clients have, those about to be answered,
\* and those brought to be exchanged.  Before the first session there is none.
TokensExpected ==
  /\ \A t \in issued : Expected(t)
  /\ \A p \in Reqs :
       /\ \A t \in req[p].gives : Expected(t)
       /\ req[p].op = "refresh" /\ req[p].at = "find" => Expected(req[p].arg)
       /\ req[p].at = "alarm" => req[p].arg \in spent

TokenInv == Len(session) > 1 \/ clash \/ TokensExpected
=============================================================================
