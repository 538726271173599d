----------------------------- MODULE AuthProofs -----------------------------
(***************************************************************************)
(* Theorems about Auth: types, and what saves may do to sessions and to    *)
(* the account. They rest on the inductive invariant IInv of Auth.         *)
(***************************************************************************)
EXTENDS Auth, TLAPS

USE DEF AccountOps, SessionOps, Holding

---------------------------------------------------------------------------
(* Facts about entities and rows *)

\* A save writes what the handler meant when the entity and the columns found
\* by its SELECT are those of the row (Repository.save of a session).
LEMMA WriteSession ==
  ASSUME NEW row \in Session, NEW e \in Session
  PROVE  Overwritten(row, e, Differing(e, row)) = e
  BY DEF Overwritten, Differing, Session

\* Likewise for the account, whose password no entity has.
LEMMA WriteAccount ==
  ASSUME NEW acc \in Account, NEW e \in Profile
  PROVE  Overwritten(acc, e, Differing(e, [name |-> acc.name, verified |-> acc.verified]))
           = [acc EXCEPT !.name = e.name, !.verified = e.verified]
<1> DEFINE cols == Differing(e, [name |-> acc.name, verified |-> acc.verified])
<1>1. /\ "name" \in cols <=> e.name # acc.name
      /\ "verified" \in cols <=> e.verified # acc.verified
      /\ "password" \notin cols
  BY DEF Differing, Profile
<1>2. /\ DOMAIN acc = {"name", "verified", "password"}
      /\ acc = [c \in {"name", "verified", "password"} |-> acc[c]]
  BY DEF Account
<1> HIDE DEF cols
<1>3. /\ Overwritten(acc, e, cols).name = e.name
      /\ Overwritten(acc, e, cols).verified = e.verified
      /\ Overwritten(acc, e, cols).password = acc.password
      /\ Overwritten(acc, e, cols)
           = [c \in {"name", "verified", "password"} |-> Overwritten(acc, e, cols)[c]]
  BY <1>1, <1>2 DEF Overwritten
<1>4. Overwritten(acc, e, cols) = [acc EXCEPT !.name = e.name, !.verified = e.verified]
  BY <1>2, <1>3
<1> QED  BY <1>4 DEF cols

\* Whatever columns it writes, a save leaves a row of the table's type.
LEMMA WriteType ==
  ASSUME NEW cols
  PROVE  /\ \A row \in Session, e \in Session : Overwritten(row, e, cols) \in Session
         /\ cols \subseteq {"hash", "revoked", "name", "verified"} =>
              \A acc \in Account, e \in Profile : Overwritten(acc, e, cols) \in Account
<1>1. ASSUME NEW row \in Session, NEW e \in Session
      PROVE  Overwritten(row, e, cols) \in Session
  BY DEF Overwritten, Session
<1>2. ASSUME "password" \notin cols, NEW acc \in Account, NEW e \in Profile
      PROVE  Overwritten(acc, e, cols) \in Account
  <2>1. DOMAIN acc = {"name", "verified", "password"} /\ acc.name \in Names
        /\ acc.verified \in BOOLEAN /\ acc.password \in Passwords
    BY DEF Account
  <2>2. e.name \in Names /\ e.verified \in BOOLEAN
    BY DEF Profile
  <2> QED  BY <1>2, <2>1, <2>2 DEF Overwritten, Account
<1> QED  BY <1>1, <1>2

\* What a handler knows stays known when the tables grow and others' writes
\* overtake it.
LEMMA KnowsKept ==
  ASSUME NEW r \in Handler, NEW acc, NEW acc2, NEW sess, NEW sess2,
         Knows(r, acc, sess), DOMAIN sess \subseteq DOMAIN sess2,
         acc # None => acc2 # None
  PROVE  /\ Knows(r, acc2, sess2)
         /\ Knows([r EXCEPT !.raced = TRUE], acc2, sess2)
  BY DEF Handler, Knows

\* What is current stays so while the handler's row does not change.
LEMMA CurrentKept ==
  ASSUME NEW r \in Handler, NEW acc, NEW acc2, NEW sess, NEW sess2,
         r.at \in Holding, Knows(r, acc, sess), Current(r, acc, sess),
         r.op \in SessionOps => sess2[r.sid] = sess[r.sid],
         r.op \in AccountOps => acc2.name = acc.name /\ acc2.verified = acc.verified
  PROVE  Current(r, acc2, sess2)
<1>1. r.op = "refresh" => sess2[r.sid] = [hash |-> r.arg, revoked |-> FALSE]
  BY DEF Current
<1>2. r.at \in {"select", "update"} => RowOf(r, acc2, sess2) = RowOf(r, acc, sess)
  BY DEF Knows, RowOf
<1> QED  BY <1>1, <1>2 DEF Current

---------------------------------------------------------------------------
(* A handler's step and the others *)

Untouched(q) == /\ req'[q] = req[q]
                /\ req[q].at \in Holding /\ req[q].op \in SessionOps =>
                     session'[req[q].sid] = session[req[q].sid]
                /\ req[q].at \in Holding /\ req[q].op \in AccountOps =>
                     account'.name = account.name /\ account'.verified = account.verified
Overtaken(q) == req'[q] = [req[q] EXCEPT !.raced = TRUE]

\* A step of p keeps what is known and current of the handlers if it does of
\* p and every other handler keeps its row or is marked as raced.
LEMMA Frame ==
  ASSUME TypeOK, HolderSound, HeldCurrent, NEW p \in Reqs,
         DOMAIN session \subseteq DOMAIN session', account # None => account' # None,
         \A q \in Reqs \ {p} : Untouched(q) \/ Overtaken(q),
         Knows(req'[p], account', session'),
         req'[p].at \in Holding /\ ~req'[p].raced
           => Current(req'[p], account', session')
  PROVE  HolderSound' /\ HeldCurrent'
<1>1. ASSUME NEW q \in Reqs \ {p}
      PROVE  /\ Knows(req'[q], account', session')
             /\ req'[q].at \in Holding /\ ~req'[q].raced
                  => Current(req'[q], account', session')
  <2>1. req[q] \in Handler /\ Knows(req[q], account, session)
    BY <1>1 DEF TypeOK, HolderSound
  <2>2. CASE Untouched(q)
    <3>1. Knows(req[q], account', session')
      BY <2>1, KnowsKept
    <3>2. ASSUME req[q].at \in Holding, ~req[q].raced
          PROVE  Current(req[q], account', session')
      <4>1. Current(req[q], account, session)
        BY <1>1, <3>2 DEF HeldCurrent
      <4> QED  BY <2>1, <2>2, <3>2, <4>1, CurrentKept DEF Untouched
    <3> QED  BY <2>2, <3>1, <3>2 DEF Untouched
  <2>3. CASE Overtaken(q)
    <3>1. Knows([req[q] EXCEPT !.raced = TRUE], account', session')
      BY <2>1, KnowsKept
    <3>2. [req[q] EXCEPT !.raced = TRUE].raced
      BY <2>1 DEF Handler
    <3> QED  BY <2>3, <3>1, <3>2 DEF Overtaken
  <2> QED  BY <1>1, <2>2, <2>3
<1> QED  BY <1>1 DEF HolderSound, HeldCurrent

\* The common case: p alone moves and the tables stay.
LEMMA OwnStep ==
  ASSUME IInv, NEW p \in Reqs, NEW STATE r, r \in Handler,
         req' = [req EXCEPT ![p] = r], UNCHANGED <<account, session>>,
         now' \in 0..MaxNow, issued' \subseteq Tokens,
         spent' \subseteq Tokens, clash' \in BOOLEAN,
         Knows(r, account, session),
         r.at \in Holding /\ ~r.raced => Current(r, account, session)
  PROVE  IInv'
<1>1. req'[p] = r /\ \A q \in Reqs \ {p} : Untouched(q)
  BY DEF IInv, TypeOK, Untouched
<1>2. TypeOK'
  BY DEF IInv, TypeOK
<1>3. HolderSound' /\ HeldCurrent'
  BY <1>1, Frame DEF IInv
<1> QED  BY <1>2, <1>3 DEF IInv

\* Answers know nothing.
LEMMA AnswersKnow ==
  ASSUME NEW code \in Nat, NEW token \in Tokens, NEW acc, NEW sess
  PROVE  /\ Idle \in Handler /\ Knows(Idle, acc, sess)
         /\ Answer(code) \in Handler /\ Knows(Answer(code), acc, sess)
         /\ Give(token) \in Handler /\ Knows(Give(token), acc, sess)
         /\ Idle.at = "idle" /\ Answer(code).at = "reply" /\ Give(token).at = "reply"
<1>1. 0 \in Tokens
  BY AuthAssumption DEF Tokens
<1> QED  BY <1>1 DEF Idle, Answer, Give, Handler, Knows, Steps

---------------------------------------------------------------------------
(* Steps of one handler that leave the tables alone *)

\* A request starts with nothing in hand.
LEMMA StartInv == ASSUME IInv, NEW p \in Reqs, Start(p) PROVE IInv'
<1> PICK c \in Requests : Step(p, "idle", [Idle EXCEPT !.at = "find", !.op = c.op,
                                                     !.arg = c.arg])
  BY DEF Start
<1> DEFINE r == [Idle EXCEPT !.at = "find", !.op = c.op, !.arg = c.arg]
<1>1. issued \subseteq Tokens /\ Tokens \subseteq Nat /\ 0 \in Tokens
  BY AuthAssumption DEF IInv, TypeOK, Tokens
<1>2. Active \subseteq DOMAIN session /\ DOMAIN session \subseteq Nat
  BY DEF IInv, TypeOK, Active
<1>3. /\ c.op \in {"signup", "login", "reset", "verify", "profile", "refresh",
                   "logout", "revoke"}
      /\ c.arg \in Nat
      /\ c.op \in {"signup", "reset"} => c.arg \in Passwords
      /\ c.op = "profile" => c.arg \in Names
      /\ c.op = "refresh" => c.arg \in Tokens
      /\ c.op = "revoke" => c.arg \in DOMAIN session
  BY <1>1, <1>2, AuthAssumption DEF Requests
<1>4. r \in Handler
  BY <1>1, <1>3 DEF Idle, Handler, Steps
<1>5. Knows(r, account, session) /\ r.at \notin Holding
  BY <1>3 DEF Idle, Knows
<1> HIDE DEF r
<1> QED  BY <1>4, <1>5, OwnStep DEF Start, Step, r, IInv, TypeOK, history

\* An answer ends what the handler knew.
LEMMA AnswerInv ==
  ASSUME IInv, NEW p \in Reqs, NEW code \in Nat, NEW from,
         Step(p, from, Answer(code)),
         UNCHANGED <<now, account, session, issued, history>>
  PROVE  IInv'
<1>1. /\ Answer(code) \in Handler /\ Knows(Answer(code), account, session)
      /\ Answer(code).at = "reply"
  BY AnswersKnow, AuthAssumption DEF Tokens
<1> QED  BY <1>1, OwnStep DEF Step, IInv, TypeOK, history

\* createUser finds the address free or answers.
LEMMA FindEmailInv == ASSUME IInv, NEW p \in Reqs, FindEmail(p) PROVE IInv'
<1>1. CASE account = None
  <2> DEFINE r == [req[p] EXCEPT !.at = "insert"]
  <2>1. req[p] \in Handler /\ Knows(req[p], account, session)
    BY DEF IInv, TypeOK, HolderSound
  <2>2. r \in Handler /\ Knows(r, account, session) /\ r.at \notin Holding
    BY <2>1 DEF Handler, Steps, Knows, FindEmail
  <2>3. req' = [req EXCEPT ![p] = r] /\ UNCHANGED <<now, account, session, issued, history>>
    BY <1>1 DEF FindEmail, Step
  <2> HIDE DEF r
  <2> QED  BY <2>2, <2>3, OwnStep DEF IInv, TypeOK, history
<1>2. CASE account # None
  BY <1>2, AnswerInv DEF FindEmail
<1> QED  BY <1>1, <1>2

\* The mail step only answers.
LEMMA MailInv == ASSUME IInv, NEW p \in Reqs, Mail(p) PROVE IInv'
  BY AnswerInv DEF Mail

\* The entity of the account, changed as the request asks.
LEMMA LoadUserInv == ASSUME IInv, NEW p \in Reqs, LoadUser(p) PROVE IInv'
<1>1. CASE account = None
  BY <1>1, AnswerInv DEF LoadUser
<1>2. CASE account # None
  <2> DEFINE e == [name |-> IF req[p].op = "profile" THEN req[p].arg ELSE account.name,
                   verified |-> req[p].op = "verify" \/ account.verified]
             r == [req[p] EXCEPT !.at = "select", !.ent = e]
  <2>1. req[p] \in Handler /\ Knows(req[p], account, session) /\ account \in Account
    BY <1>2 DEF IInv, TypeOK, HolderSound
  <2>2. req[p].op \in AccountOps /\ req' = [req EXCEPT ![p] = r]
    BY <1>2 DEF LoadUser, Step
  <2>3. account.name \in Names /\ account.verified \in BOOLEAN
    BY <2>1 DEF Account
  <2>4. e \in Profile /\ (req[p].op = "verify" => e.verified)
    BY <2>1, <2>2, <2>3 DEF Knows, Profile
  <2>5. r \in Handler
    BY <2>1, <2>4 DEF Handler, Entity, Steps
  <2>6. Knows(r, account, session)
    BY <1>2, <2>1, <2>2, <2>4 DEF Handler, Knows
  <2>7. Current(r, account, session)
    <3>1. e = Meant(r, [name |-> account.name, verified |-> account.verified])
      BY <2>1, <2>2, <2>3 DEF Handler, Meant
    <3> QED  BY <2>1, <2>2, <3>1 DEF Handler, Current, RowOf
  <2> HIDE DEF r
  <2> QED  BY <2>2, <2>5, <2>6, <2>7, OwnStep DEF LoadUser, IInv, TypeOK, history
<1> QED  BY <1>1, <1>2

\* A login checks the password.
LEMMA AuthenticateInv == ASSUME IInv, NEW p \in Reqs, Authenticate(p) PROVE IInv'
<1> DEFINE r == [req[p] EXCEPT !.at = "mint"]
<1>1. CASE req' = [req EXCEPT ![p] = r]
  <2>1. req[p] \in Handler /\ Knows(req[p], account, session) /\ req[p].op = "login"
    BY DEF IInv, TypeOK, HolderSound, Authenticate
  <2>2. r \in Handler /\ Knows(r, account, session) /\ Current(r, account, session)
    BY <2>1 DEF Handler, Steps, Knows, Current
  <2> HIDE DEF r
  <2> QED  BY <1>1, <2>2, OwnStep DEF Authenticate, IInv, TypeOK, history
<1>2. CASE Step(p, "find", Answer(401))
  BY <1>2, AnswerInv DEF Authenticate
<1> QED  BY <1>1, <1>2 DEF Authenticate, Step

\* A signing: the entity of a refresh takes the new hash.
LEMMA MintInv == ASSUME IInv, NEW p \in Reqs, Mint(p) PROVE IInv'
<1> DEFINE e == [hash |-> now, revoked |-> req[p].ent.revoked]
           r == [req[p] EXCEPT !.minted = now,
                   !.at = IF req[p].op = "login" THEN "insertSession" ELSE "select",
                   !.ent = IF req[p].op = "login" THEN @
                           ELSE [hash |-> now, revoked |-> @.revoked]]
<1>1. /\ req[p] \in Handler /\ Knows(req[p], account, session) /\ req[p].at = "mint"
      /\ now \in Tokens /\ req' = [req EXCEPT ![p] = r]
  BY DEF IInv, TypeOK, HolderSound, Mint, Step, Tokens
<1>2. CASE req[p].op = "login"
  <2>1. r \in Handler /\ Knows(r, account, session) /\ r.at \notin Holding
    BY <1>1, <1>2 DEF Handler, Steps, Knows
  <2> HIDE DEF r
  <2> QED  BY <1>1, <2>1, OwnStep DEF Mint, IInv, TypeOK, history
<1>3. CASE req[p].op = "refresh"
  <2>1. req[p].ent \in Session /\ req[p].ent.revoked = FALSE
    BY <1>1, <1>3 DEF Knows
  <2>2. e \in Session /\ e = [hash |-> now, revoked |-> FALSE]
    BY <1>1, <2>1 DEF Session
  <2>3. r = [req[p] EXCEPT !.minted = now, !.at = "select", !.ent = e]
    BY <1>1, <1>3 DEF Handler
  <2>4. r \in Handler /\ Knows(r, account, session)
    BY <1>1, <1>3, <2>2, <2>3 DEF Handler, Entity, Steps, Knows
  <2>5. ASSUME ~r.raced PROVE Current(r, account, session)
    <3>1. Current(req[p], account, session)
      BY <1>1, <2>3, <2>5 DEF Handler, IInv, HeldCurrent
    <3> QED  BY <1>1, <1>3, <2>2, <2>3, <3>1 DEF Handler, Current, Meant
  <2> HIDE DEF r
  <2> QED  BY <1>1, <2>4, <2>5, OwnStep DEF Mint, IInv, TypeOK, history
<1> QED  BY <1>1, <1>2, <1>3 DEF Knows

\* The client receives its token.
LEMMA ReplyInv == ASSUME IInv, NEW p \in Reqs, Reply(p) PROVE IInv'
<1>1. issued' \subseteq Tokens
  BY DEF Reply, IInv, TypeOK, Handler
<1>2. Idle \in Handler /\ Knows(Idle, account, session) /\ Idle.at = "idle"
  BY AnswersKnow, AuthAssumption DEF Tokens
<1> QED  BY <1>1, <1>2, OwnStep DEF Reply, Step, IInv, TypeOK, history

\* A lost handler forgets what it held.
LEMMA CrashInv == ASSUME IInv, NEW p \in Reqs, Crash(p) PROVE IInv'
<1>1. Idle \in Handler /\ Knows(Idle, account, session) /\ Idle.at = "idle"
  BY AnswersKnow, AuthAssumption DEF Tokens
<1> QED  BY <1>1, OwnStep DEF Crash, IInv, TypeOK, history

\* A handler loads a session it is to revoke.
LEMMA LoadSessionInv ==
  ASSUME IInv, NEW p \in Reqs, NEW s \in DOMAIN session,
         req[p].op \in {"logout", "revoke"},
         req' = [req EXCEPT ![p] =
                   [req[p] EXCEPT !.at = "select", !.sid = s,
                                  !.ent = [session[s] EXCEPT !.revoked = TRUE]]],
         UNCHANGED <<now, account, session, issued, history>>
  PROVE  IInv'
<1> DEFINE e == [session[s] EXCEPT !.revoked = TRUE]
           r == [req[p] EXCEPT !.at = "select", !.sid = s, !.ent = e]
<1>1. /\ req[p] \in Handler /\ Knows(req[p], account, session)
      /\ session[s] \in Session /\ s \in Nat
  BY DEF IInv, TypeOK, HolderSound
<1>2. e \in Session /\ e.revoked = TRUE
  BY <1>1 DEF Session
<1>3. r \in Handler /\ Knows(r, account, session)
  BY <1>1, <1>2 DEF Handler, Entity, Steps, Knows
<1>4. Current(r, account, session)
  BY <1>1 DEF Handler, Current, Meant, RowOf
<1> HIDE DEF r
<1> QED  BY <1>3, <1>4, OwnStep DEF r, IInv, TypeOK, history

\* logout finds a session of the token, or none.
LEMMA LoadByTokenInv == ASSUME IInv, NEW p \in Reqs, LoadByToken(p) PROVE IInv'
  BY AnswerInv, LoadSessionInv DEF LoadByToken, Step

\* revokeSession finds the session of the id.
LEMMA LoadByIdInv == ASSUME IInv, NEW p \in Reqs, LoadById(p) PROVE IInv'
<1>1. req[p].arg \in DOMAIN session
  BY DEF IInv, HolderSound, Knows, LoadById
<1> QED  BY <1>1, LoadSessionInv DEF LoadById, Step

\* refresh holds an active session whose hash is that of its token, or goes to the
\* alarm.
LEMMA LoadActiveInv == ASSUME IInv, NEW p \in Reqs, LoadActive(p) PROVE IInv'
<1>0. req[p].op = "refresh" /\ UNCHANGED <<now, account, session, issued, history>>
  BY DEF LoadActive
<1>1. CASE Step(p, "find", Answer(401))
  BY <1>0, <1>1, AnswerInv
<1>2. ASSUME NEW s \in Active,
             req' = [req EXCEPT ![p] =
               [req[p] EXCEPT !.at = IF session[s].hash = req[p].arg THEN "mint" ELSE "alarm",
                              !.sid = s, !.ent = session[s]]]
      PROVE  IInv'
  <2> DEFINE r == [req[p] EXCEPT
                     !.at = IF session[s].hash = req[p].arg THEN "mint" ELSE "alarm",
                     !.sid = s, !.ent = session[s]]
  <2>1. /\ req[p] \in Handler /\ Knows(req[p], account, session)
        /\ s \in DOMAIN session /\ s \in Nat /\ session[s] \in Session
        /\ session[s].revoked = FALSE /\ req[p].op = "refresh"
    <3>1. s \in DOMAIN session /\ ~session[s].revoked
      BY <1>2 DEF Active
    <3>2. s \in Nat /\ session[s] \in Session
      BY <3>1 DEF IInv, TypeOK
    <3>3. session[s].revoked = FALSE
      BY <3>1, <3>2 DEF Session
    <3> QED  BY <1>0, <3>1, <3>2, <3>3 DEF IInv, TypeOK, HolderSound
  <2>2. r \in Handler /\ Knows(r, account, session)
    BY <2>1 DEF Handler, Entity, Steps, Knows
  <2>3. r.at \in Holding => Current(r, account, session)
    BY <2>1 DEF Handler, Current, Session
  <2> HIDE DEF r
  <2> QED  BY <1>0, <1>2, <2>2, <2>3, OwnStep DEF r, IInv, TypeOK, history
<1> QED  BY <1>1, <1>2 DEF LoadActive, Step

\* What a handler goes on with after its save needs no entity.
LEMMA SavedKnows ==
  ASSUME IInv, NEW p \in Reqs, req[p].at \in {"select", "update"}, NEW sess
  PROVE  /\ Saved(p) \in Handler /\ Saved(p).at \notin Holding
         /\ req[p].op \in AccountOps => Knows(Saved(p), account, sess)
         /\ \A acc : req[p].op \in SessionOps => Knows(Saved(p), acc, sess)
         /\ \A acc : acc # None /\ req[p].op \in AccountOps => Knows(Saved(p), acc, sess)
<1>1. req[p] \in Handler /\ Knows(req[p], account, session)
  BY DEF IInv, TypeOK, HolderSound
<1>2. CASE req[p].op = "reset"
  <2>1. Saved(p) = [Idle EXCEPT !.at = "password", !.arg = req[p].arg]
    BY <1>2 DEF Saved
  <2>2. /\ account # None /\ req[p].arg \in Passwords /\ req[p].arg \in Nat
    BY <1>1, <1>2, AuthAssumption DEF Knows
  <2>3. 0 \in Tokens
    BY AuthAssumption DEF Tokens
  <2>4. \A n \in Nat : [Idle EXCEPT !.at = "password", !.arg = n]
          \in {r \in Handler : r.at = "password" /\ r.op = "none" /\ r.arg = n}
    BY <2>3 DEF Idle, Handler, Steps
  <2>5. \A acc, t : acc # None => Knows(Saved(p), acc, t)
    BY <2>1, <2>2, <2>4 DEF Knows
  <2> QED  BY <1>2, <2>1, <2>2, <2>4, <2>5
<1>3. CASE req[p].op = "refresh"
  <2>1. Saved(p) = Give(req[p].minted) /\ req[p].minted \in Tokens
    BY <1>1, <1>3 DEF Saved, Handler
  <2> QED  BY <2>1, AnswersKnow
<1>4. CASE req[p].op \notin {"reset", "refresh"}
  <2>1. Saved(p) = Answer(200) /\ 0 \in Tokens
    BY <1>4, AuthAssumption DEF Saved, Tokens
  <2> QED  BY <2>1, AnswersKnow
<1> QED  BY <1>2, <1>3, <1>4

\* The SELECT of a save computes the columns that differ.
LEMMA SelectInv == ASSUME IInv, NEW p \in Reqs, Select(p) PROVE IInv'
<1> DEFINE cols == Differing(req[p].ent, RowOf(req[p], account, session))
           r == [req[p] EXCEPT !.at = "update", !.cols = cols]
<1>1. /\ req[p] \in Handler /\ Knows(req[p], account, session) /\ req[p].at = "select"
  BY DEF IInv, TypeOK, HolderSound, Select, Step
<1>2. CASE req' = [req EXCEPT ![p] = Saved(p)]
  <2>1. req[p].op \in AccountOps \cup SessionOps
    BY <1>1 DEF Knows
  <2>2. Saved(p) \in Handler /\ Knows(Saved(p), account, session) /\ Saved(p).at \notin Holding
    BY <1>1, <2>1, SavedKnows
  <2> QED  BY <1>2, <2>2, OwnStep DEF Select, IInv, TypeOK, history
<1>3. CASE req' = [req EXCEPT ![p] = r]
  <2>1. req[p].ent \in Session \cup Profile
    BY <1>1 DEF Knows
  <2>2. cols \subseteq {"hash", "revoked", "name", "verified"}
    BY <2>1 DEF Differing, Session, Profile
  <2> HIDE DEF cols
  <2>3. r \in Handler /\ Knows(r, account, session)
    BY <1>1, <2>2 DEF Handler, Steps, Knows
  <2>4. ASSUME ~r.raced PROVE Current(r, account, session)
    <3>1. Current(req[p], account, session)
      BY <1>1, <2>4 DEF Handler, IInv, HeldCurrent
    <3>2. RowOf(r, account, session) = RowOf(req[p], account, session)
      BY <1>1 DEF Handler, RowOf
    <3>3. \A row : Meant(r, row) = Meant(req[p], row)
      BY <1>1 DEF Handler, Meant
    <3> QED  BY <1>1, <3>1, <3>2, <3>3 DEF Handler, Current, cols
  <2> HIDE DEF r
  <2> QED  BY <1>3, <2>3, <2>4, OwnStep DEF Select, IInv, TypeOK, history
<1> QED  BY <1>2, <1>3 DEF Select, Step

\* The clock.
LEMMA TickInv == ASSUME IInv, Tick PROVE IInv'
<1>1. TypeOK'
  BY AuthAssumption DEF Tick, IInv, TypeOK, history
<1>2. HolderSound' /\ HeldCurrent'
  BY DEF Tick, IInv, HolderSound, HeldCurrent
<1> QED  BY <1>1, <1>2 DEF IInv

---------------------------------------------------------------------------
(* Steps that change a table *)

\* The unique email: an account is inserted only where there is none, so no
\* handler holds one.
LEMMA InsertUserInv == ASSUME IInv, NEW p \in Reqs, InsertUser(p) PROVE IInv'
<1>1. CASE account # None
  <2>1. Step(p, "insert", Answer(500)) /\ UNCHANGED <<now, account, session, issued, history>>
    BY <1>1 DEF InsertUser
  <2> QED  BY <2>1, AnswerInv
<1>2. CASE account = None
  <2> DEFINE r == [req[p] EXCEPT !.at = "mail"]
  <2>1. /\ req[p] \in Handler /\ Knows(req[p], account, session) /\ req[p].at = "insert"
        /\ req' = [req EXCEPT ![p] = r] /\ UNCHANGED <<now, session, issued, history>>
    BY <1>2 DEF IInv, TypeOK, HolderSound, InsertUser, Step
  <2>2. account' \in Account /\ account' # None
    <3>1. req[p].arg \in Passwords
      BY <2>1 DEF Knows
    <3>2. PICK n \in Names : account' = [name |-> n, verified |-> FALSE,
                                        password |-> req[p].arg]
      BY <1>2 DEF InsertUser
    <3>3. account' \in Account
      BY <3>1, <3>2 DEF Account
    <3> QED  BY <3>3, AuthAssumption DEF Account
  <2>3. r \in Handler /\ Knows(r, account', session') /\ r.at \notin Holding
    BY <2>1 DEF Handler, Steps, Knows
  <2> HIDE DEF r
  <2>4. TypeOK'
    BY <2>1, <2>2, <2>3 DEF IInv, TypeOK, history
  <2>5. \A q \in Reqs \ {p} : Untouched(q)
    BY <1>2, <2>1 DEF IInv, TypeOK, HolderSound, Knows, Untouched
  <2>6. req'[p] = r
    BY <2>1 DEF IInv, TypeOK
  <2> QED  BY <1>2, <2>1, <2>3, <2>4, <2>5, <2>6, Frame DEF IInv
<1> QED  BY <1>1, <1>2

\* The password is in no entity, so nobody is overtaken.
LEMMA SetPasswordInv == ASSUME IInv, NEW p \in Reqs, SetPassword(p) PROVE IInv'
<1>1. /\ Knows(req[p], account, session) /\ req[p].at = "password"
      /\ req' = [req EXCEPT ![p] = Answer(200)] /\ UNCHANGED <<now, session, issued, history>>
      /\ account' = [account EXCEPT !.password = req[p].arg]
  BY DEF IInv, HolderSound, SetPassword, Step
<1>2. account \in Account /\ account # None /\ req[p].arg \in Passwords
  BY <1>1 DEF IInv, TypeOK, Knows
<1>3. /\ account' \in Account /\ account'.name = account.name
      /\ account'.verified = account.verified
  BY <1>1, <1>2 DEF Account
<1>4. account' # None
  BY <1>3, AuthAssumption DEF Account
<1>5. Answer(200) \in Handler /\ Knows(Answer(200), account', session')
      /\ Answer(200).at \notin Holding
  BY AnswersKnow, AuthAssumption DEF Tokens
<1>6. TypeOK'
  BY <1>1, <1>3, <1>5 DEF IInv, TypeOK, history
<1>7. req'[p] = Answer(200) /\ \A q \in Reqs \ {p} : Untouched(q)
  BY <1>1, <1>3 DEF IInv, TypeOK, Untouched
<1> QED  BY <1>1, <1>4, <1>5, <1>6, <1>7, Frame DEF IInv

\* A new session is nobody's yet.
LEMMA InsertSessionInv == ASSUME IInv, NEW p \in Reqs, InsertSession(p) PROVE IInv'
<1> DEFINE r == Give(req[p].minted)
           row == [hash |-> req[p].minted, revoked |-> FALSE]
<1>1. /\ req[p].minted \in Tokens /\ session \in Seq(Session)
      /\ session' = Append(session, row)
      /\ req' = [req EXCEPT ![p] = r] /\ UNCHANGED <<now, account, issued, history>>
  BY DEF IInv, TypeOK, Handler, InsertSession, Step
<1>2. row \in Session
  BY <1>1 DEF Session
<1> HIDE DEF row
<1>3. /\ session' \in Seq(Session) /\ DOMAIN session \subseteq DOMAIN session'
      /\ \A s \in DOMAIN session : session'[s] = session[s]
  BY <1>1, <1>2
<1>4. r \in Handler /\ Knows(r, account', session') /\ r.at \notin Holding
  BY <1>1, AnswersKnow
<1> HIDE DEF r
<1>5. TypeOK'
  BY <1>1, <1>3, <1>4 DEF IInv, TypeOK, history
<1>6. \A q \in Reqs \ {p} : Untouched(q)
  BY <1>1, <1>3 DEF IInv, TypeOK, HolderSound, Knows, Untouched
<1>7. req'[p] = r
  BY <1>1 DEF IInv, TypeOK
<1> QED  BY <1>1, <1>3, <1>4, <1>5, <1>6, <1>7, Frame DEF IInv

\* Overtake gives p its next place and marks the handlers of old, whose rows
\* it may have changed.
LEMMA OvertakeInv ==
  ASSUME IInv, NEW p \in Reqs, NEW STATE r, NEW STATE old, Overtake(p, old, r),
         r \in Handler, r.at \notin Holding, Knows(r, account', session'),
         session' \in Seq(Session), DOMAIN session' = DOMAIN session,
         account' \in {None} \cup Account, account # None => account' # None,
         spent' \subseteq Tokens, clash' \in BOOLEAN, UNCHANGED <<now, issued>>,
         \A q \in Reqs \ ({p} \cup old) : req[q].at \in Holding =>
            /\ req[q].op \in SessionOps => session'[req[q].sid] = session[req[q].sid]
            /\ req[q].op \in AccountOps => /\ account'.name = account.name
                                           /\ account'.verified = account.verified
  PROVE  IInv'
<1>1. req'[p] = r
  BY DEF Overtake
<1>2. ASSUME NEW q \in Reqs \ {p}, q \in old PROVE Overtaken(q)
  BY <1>2 DEF Overtake, Overtaken
<1>3. ASSUME NEW q \in Reqs \ {p}, q \notin old PROVE Untouched(q)
  <2>1. req'[q] = [req[q] EXCEPT !.raced = req[q].raced \/ FALSE] /\ req[q] \in Handler
    BY <1>3 DEF Overtake, IInv, TypeOK
  <2>2. req'[q] = req[q]
    BY <2>1 DEF Handler
  <2> QED  BY <1>3, <2>2 DEF Untouched
<1>4. req' \in [Reqs -> Handler]
  <2>1. ASSUME NEW q \in Reqs PROVE req'[q] \in Handler
    <3>1. req[q] \in Handler
      BY DEF IInv, TypeOK
    <3>2. CASE q \in old /\ q # p
      <4>1. req'[q] = [req[q] EXCEPT !.raced = TRUE]
        BY <1>2, <3>2 DEF Overtaken
      <4> QED  BY <3>1, <4>1 DEF Handler
    <3>3. CASE q \notin old /\ q # p
      BY <1>3, <3>1, <3>3 DEF Untouched
    <3> QED  BY <1>1, <3>2, <3>3
  <2> QED  BY <2>1 DEF Overtake
<1>5. TypeOK'
  BY <1>4 DEF IInv, TypeOK
<1>6. HolderSound' /\ HeldCurrent'
  BY <1>1, <1>2, <1>3, Frame DEF IInv
<1> QED  BY <1>5, <1>6 DEF IInv

\* One UPDATE revokes every session and overtakes those who hold an active one.
LEMMA RevokeAllInv == ASSUME IInv, NEW p \in Reqs, RevokeAll(p) PROVE IInv'
<1>1. /\ session \in Seq(Session)
      /\ session' = [s \in DOMAIN session |-> [session[s] EXCEPT !.revoked = TRUE]]
      /\ Overtake(p, Holders(Active), Answer(403))
      /\ UNCHANGED <<now, account, issued, history>>
  BY DEF RevokeAll, IInv, TypeOK
<1>2. \A s \in DOMAIN session : session[s] \in Session
  BY <1>1
<1>3. \A s \in DOMAIN session : [session[s] EXCEPT !.revoked = TRUE] \in Session
  BY <1>2 DEF Session
<1>4. session' \in Seq(Session) /\ DOMAIN session' = DOMAIN session
  BY <1>1, <1>3
<1>5. \A s \in DOMAIN session \ Active : session'[s] = session[s]
  <2>1. ASSUME NEW s \in DOMAIN session \ Active PROVE session'[s] = session[s]
    <3>1. session[s] \in Session /\ session[s].revoked
      BY <1>2, <2>1 DEF Active
    <3>2. [session[s] EXCEPT !.revoked = TRUE] = session[s]
      BY <3>1 DEF Session
    <3> QED  BY <1>1, <3>2
  <2> QED  BY <2>1
<1>6. \A q \in Reqs \ ({p} \cup Holders(Active)) :
        req[q].at \in Holding /\ req[q].op \in SessionOps =>
          session'[req[q].sid] = session[req[q].sid]
  <2>1. ASSUME NEW q \in Reqs, q \notin Holders(Active), req[q].at \in Holding,
               req[q].op \in SessionOps
        PROVE  req[q].sid \in DOMAIN session \ Active
    <3>1. req[q].sid \in DOMAIN session
      BY <2>1 DEF IInv, HolderSound, Knows
    <3> QED  BY <2>1, <3>1 DEF Holders
  <2> QED  BY <1>5, <2>1
<1>7. Answer(403) \in Handler /\ Knows(Answer(403), account', session')
      /\ Answer(403).at \notin Holding
  BY AnswersKnow, AuthAssumption DEF Tokens
<1>8. /\ account' \in {None} \cup Account /\ account' = account
      /\ spent' \subseteq Tokens /\ clash' \in BOOLEAN
  BY <1>1 DEF IInv, TypeOK, history
<1>9. \A q \in Reqs \ ({p} \cup Holders(Active)) : req[q].at \in Holding =>
        /\ req[q].op \in SessionOps => session'[req[q].sid] = session[req[q].sid]
        /\ req[q].op \in AccountOps => /\ account'.name = account.name
                                       /\ account'.verified = account.verified
  BY <1>6, <1>8
<1>10. (account # None => account' # None) /\ UNCHANGED <<now, issued>>
  BY <1>1, <1>8
<1> DEFINE old == Holders(Active)
           r == Answer(403)
<1>11. /\ Overtake(p, old, r) /\ r \in Handler /\ r.at \notin Holding
       /\ Knows(r, account', session') /\ session' \in Seq(Session)
       /\ DOMAIN session' = DOMAIN session
       /\ \A q \in Reqs \ ({p} \cup old) : req[q].at \in Holding =>
            /\ req[q].op \in SessionOps => session'[req[q].sid] = session[req[q].sid]
            /\ req[q].op \in AccountOps => /\ account'.name = account.name
                                           /\ account'.verified = account.verified
  BY <1>1, <1>4, <1>7, <1>9
<1> HIDE DEF old, r
<1> QED  BY <1>8, <1>10, <1>11, OvertakeInv

\* What Update does to a session.
LEMMA UpdateSession ==
  ASSUME IInv, NEW p \in Reqs, Update(p), req[p].op \in SessionOps
  PROVE  /\ req[p].sid \in DOMAIN session /\ req[p].ent \in Session
         /\ session[req[p].sid] \in Session
         /\ session' = [session EXCEPT ![req[p].sid] =
                          Overwritten(session[req[p].sid], req[p].ent, req[p].cols)]
         /\ session' \in Seq(Session) /\ DOMAIN session' = DOMAIN session
         /\ UNCHANGED <<now, issued, account>>
         /\ Overtake(p, Holders({req[p].sid}), Saved(p))
<1>1. /\ req[p].at = "update" /\ Knows(req[p], account, session)
      /\ session \in Seq(Session)
  BY DEF Update, IInv, TypeOK, HolderSound
<1>2. /\ req[p].sid \in DOMAIN session /\ req[p].ent \in Session
  BY <1>1 DEF Knows
<1>3. session[req[p].sid] \in Session
  BY <1>1, <1>2
<1>4. session' = [session EXCEPT ![req[p].sid] =
                    Overwritten(session[req[p].sid], req[p].ent, req[p].cols)]
      /\ UNCHANGED <<now, issued, account>>
      /\ Overtake(p, Holders({req[p].sid}), Saved(p))
  BY DEF Update
<1>5. Overwritten(session[req[p].sid], req[p].ent, req[p].cols) \in Session
  BY <1>2, <1>3, WriteType
<1> QED  BY <1>1, <1>2, <1>3, <1>4, <1>5

\* What Update does to the account.
LEMMA UpdateAccount ==
  ASSUME IInv, NEW p \in Reqs, Update(p), req[p].op \notin SessionOps
  PROVE  /\ req[p].op \in AccountOps /\ account \in Account /\ req[p].ent \in Profile
         /\ account' = Overwritten(account, req[p].ent, req[p].cols)
         /\ account' \in Account /\ account' # None
         /\ UNCHANGED <<now, issued, session>>
         /\ Overtake(p, AccountHolders, Saved(p))
<1>1. /\ req[p].at = "update" /\ Knows(req[p], account, session) /\ req[p] \in Handler
      /\ account \in {None} \cup Account
  BY DEF Update, IInv, TypeOK, HolderSound
<1>2. /\ req[p].op \in AccountOps /\ account # None /\ req[p].ent \in Profile
  BY <1>1 DEF Knows
<1>3. /\ account' = Overwritten(account, req[p].ent, req[p].cols)
      /\ UNCHANGED <<now, issued, session>>
      /\ Overtake(p, AccountHolders, Saved(p))
  BY DEF Update
<1>4. account' \in Account
  <2>1. req[p].cols \subseteq {"hash", "revoked", "name", "verified"}
    BY <1>1 DEF Handler
  <2> QED  BY <1>1, <1>2, <1>3, <2>1, WriteType
<1>5. account' # None
  BY <1>4, AuthAssumption DEF Account
<1> QED  BY <1>1, <1>2, <1>3, <1>4, <1>5

\* The UPDATE of a save overtakes those who hold the same row.
LEMMA UpdateInv == ASSUME IInv, NEW p \in Reqs, Update(p) PROVE IInv'
<1> DEFINE r == Saved(p)
<1>1. /\ req[p].at = "update" /\ req[p] \in Handler /\ Knows(req[p], account, session)
  BY DEF Update, IInv, TypeOK, HolderSound
<1>2. spent' \subseteq Tokens /\ clash' \in BOOLEAN
  <2>1. spent \subseteq Tokens /\ clash \in BOOLEAN /\ req[p].raced \in BOOLEAN
    BY <1>1 DEF IInv, TypeOK, Handler
  <2>2. req[p].op = "refresh" => req[p].arg \in Tokens
    BY <1>1 DEF Knows
  <2>3. /\ clash' = (clash \/ (req[p].raced /\ req[p].op \in SessionOps))
        /\ spent' = IF req[p].op = "refresh" THEN spent \cup {req[p].arg} ELSE spent
    BY DEF Update
  <2>4. clash' \in BOOLEAN
    BY <2>3
  <2> QED  BY <2>1, <2>2, <2>3, <2>4
<1>3. CASE req[p].op \in SessionOps
  <2> DEFINE old == Holders({req[p].sid})
  <2>1. r \in Handler /\ r.at \notin Holding /\ Knows(r, account', session')
    BY <1>1, <1>3, SavedKnows
  <2>2. \A q \in Reqs \ ({p} \cup old) : req[q].at \in Holding =>
            /\ req[q].op \in SessionOps => session'[req[q].sid] = session[req[q].sid]
            /\ req[q].op \in AccountOps => /\ account'.name = account.name
                                           /\ account'.verified = account.verified
    <3>1. \A s \in DOMAIN session \ {req[p].sid} : session'[s] = session[s]
      BY <1>3, UpdateSession
    <3>2. ASSUME NEW q \in Reqs, q \notin old, req[q].at \in Holding,
                 req[q].op \in SessionOps
          PROVE  req[q].sid \in DOMAIN session \ {req[p].sid}
      BY <3>2 DEF Holders, IInv, HolderSound, Knows
    <3>3. account' = account
      BY <1>3, UpdateSession
    <3> QED  BY <3>1, <3>2, <3>3
  <2>3. /\ session' \in Seq(Session) /\ DOMAIN session' = DOMAIN session
        /\ account' \in {None} \cup Account /\ (account # None => account' # None)
        /\ UNCHANGED <<now, issued>> /\ Overtake(p, old, r)
    BY <1>3, UpdateSession DEF IInv, TypeOK
  <2> HIDE DEF old, r
  <2> QED  BY <1>2, <2>1, <2>2, <2>3, OvertakeInv
<1>4. CASE req[p].op \notin SessionOps
  <2> DEFINE old == AccountHolders
  <2>1. /\ req[p].op \in AccountOps /\ account' \in Account /\ account' # None
        /\ UNCHANGED <<now, issued, session>> /\ Overtake(p, old, r)
    BY <1>4, UpdateAccount
  <2>2. r \in Handler /\ r.at \notin Holding /\ Knows(r, account', session')
    BY <1>1, <2>1, SavedKnows
  <2>3. \A q \in Reqs \ ({p} \cup old) : req[q].at \in Holding =>
            /\ req[q].op \in SessionOps => session'[req[q].sid] = session[req[q].sid]
            /\ req[q].op \in AccountOps => /\ account'.name = account.name
                                           /\ account'.verified = account.verified
    BY <2>1 DEF AccountHolders
  <2>4. session' \in Seq(Session) /\ DOMAIN session' = DOMAIN session
    BY <2>1 DEF IInv, TypeOK
  <2> HIDE DEF old, r
  <2> QED  BY <1>2, <2>1, <2>2, <2>3, <2>4, OvertakeInv
<1> QED  BY <1>3, <1>4

---------------------------------------------------------------------------
(* The invariant *)

\* Nothing is held at first.
LEMMA InitInv == ASSUME Init PROVE IInv
<1>1. 0 \in Tokens /\ 0 \in 0..MaxNow
  BY AuthAssumption DEF Tokens
<1>2. Idle \in Handler /\ Knows(Idle, account, session) /\ Idle.at = "idle"
  BY <1>1, AnswersKnow
<1>3. TypeOK
  <2>1. req \in [Reqs -> Handler]
    BY <1>2 DEF Init
  <2>2. session \in Seq(Session)
    BY DEF Init
  <2> QED  BY <1>1, <2>1, <2>2 DEF Init, TypeOK
<1> QED  BY <1>2, <1>3 DEF Init, IInv, HolderSound, HeldCurrent

\* Every step keeps the invariant.
LEMMA NextInv == ASSUME IInv, [Next]_vars PROVE IInv'
<1>1. ASSUME NEW p \in Reqs, Handle(p) \/ Crash(p) PROVE IInv'
  BY <1>1, StartInv, FindEmailInv, InsertUserInv, MailInv, LoadUserInv, SetPasswordInv,
     AuthenticateInv, MintInv, InsertSessionInv, LoadByTokenInv, LoadByIdInv,
     LoadActiveInv, RevokeAllInv, SelectInv, UpdateInv, ReplyInv, CrashInv DEF Handle
<1>2. ASSUME UNCHANGED vars PROVE IInv'
  BY <1>2 DEF vars, IInv, TypeOK, HolderSound, HeldCurrent
<1> QED  BY <1>1, <1>2, TickInv DEF Next

\* The invariant holds.
LEMMA Invariance == Spec => []IInv
<1>1. Init => IInv
  BY InitInv
<1>2. IInv /\ [Next]_vars => IInv'
  BY NextInv
<1> QED  BY <1>1, <1>2, PTL DEF Spec

\* The tables and handlers keep their types, for any clients, clock and faults.
THEOREM AuthTypeCorrect == Spec => []TypeOK
<1>1. IInv => TypeOK
  BY DEF IInv
<1> QED  BY <1>1, Invariance, PTL

---------------------------------------------------------------------------
(* What a save may do *)

\* Where a handler goes after its save.
LEMMA SavedAt ==
  ASSUME NEW p
  PROVE  Saved(p).at \in {"password", "reply"}
  BY DEF Saved, Idle, Give, Answer

\* A handler moves only by its own steps.
LEMMA OthersStay ==
  ASSUME IInv, NEW p \in Reqs, NEW q \in Reqs, p # q, Handle(q) \/ Crash(q)
  PROVE  req'[p].at = req[p].at
<1>1. ASSUME NEW r, req' = [req EXCEPT ![q] = r] PROVE req'[p].at = req[p].at
  BY <1>1 DEF IInv, TypeOK
<1>2. ASSUME NEW STATE old, NEW STATE r, Overtake(q, old, r) PROVE req'[p].at = req[p].at
  <2>1. req'[p] = [req[p] EXCEPT !.raced = @ \/ p \in old] /\ req[p] \in Handler
    BY <1>2 DEF Overtake, IInv, TypeOK
  <2> QED  BY <2>1 DEF Handler
<1>3. CASE Update(q)
  BY <1>2, <1>3 DEF Update
<1>4. CASE RevokeAll(q)
  BY <1>2, <1>4 DEF RevokeAll
<1>5. CASE Crash(q)
  BY <1>1, <1>5 DEF Crash
<1>6. CASE Start(q) \/ FindEmail(q) \/ InsertUser(q) \/ Mail(q) \/ LoadUser(q)
           \/ SetPassword(q) \/ Authenticate(q) \/ Mint(q)
  BY <1>1, <1>6 DEF Start, FindEmail, InsertUser, Mail, LoadUser, SetPassword,
     Authenticate, Mint, Step
<1>7. CASE InsertSession(q) \/ LoadByToken(q) \/ LoadById(q) \/ LoadActive(q)
           \/ Select(q) \/ Reply(q)
  BY <1>1, <1>7 DEF InsertSession, LoadByToken, LoadById, LoadActive, Select, Reply, Step
<1> QED  BY <1>3, <1>4, <1>5, <1>6, <1>7 DEF Handle

\* Writes is the UPDATE of a save.
LEMMA WritesIsUpdate ==
  ASSUME IInv, [Next]_vars, NEW p \in Reqs, Writes(p)
  PROVE  Update(p)
<1>1. req[p].at = "update" /\ req'[p].at # req[p].at
  BY DEF Writes
<1>2. CASE UNCHANGED vars \/ Tick
  BY <1>1, <1>2 DEF vars, Tick
<1>3. ASSUME NEW q \in Reqs, Handle(q) \/ Crash(q) PROVE Update(p)
  <2>1. q = p
    BY <1>1, <1>3, OthersStay
  <2>2. ~Crash(p)
    BY AnswersKnow, AuthAssumption DEF Crash, Writes, IInv, TypeOK, Idle
  <2>3. /\ ~Start(p) /\ ~FindEmail(p) /\ ~InsertUser(p) /\ ~Mail(p) /\ ~LoadUser(p)
        /\ ~SetPassword(p) /\ ~Authenticate(p) /\ ~Mint(p)
    BY <1>1 DEF Start, FindEmail, InsertUser, Mail, LoadUser, SetPassword,
       Authenticate, Mint, Step
  <2>4. /\ ~InsertSession(p) /\ ~LoadByToken(p) /\ ~LoadById(p) /\ ~LoadActive(p)
        /\ ~Select(p) /\ ~Reply(p) /\ ~RevokeAll(p)
    BY <1>1 DEF InsertSession, LoadByToken, LoadById, LoadActive, Select, Reply,
       RevokeAll, Step
  <2> QED  BY <1>3, <2>1, <2>2, <2>3, <2>4 DEF Handle
<1> QED  BY <1>2, <1>3 DEF Next

\* An Update is a write.
LEMMA UpdateWrites ==
  ASSUME IInv, NEW p \in Reqs, Update(p)
  PROVE  Writes(p)
<1>1. req[p].at = "update" /\ req'[p] = Saved(p)
  BY DEF Update, Overtake
<1> QED  BY <1>1, SavedAt DEF Writes

\* What an undisturbed Update writes.
LEMMA CleanUpdate ==
  ASSUME IInv, NEW p \in Reqs, Update(p), ~req[p].raced
  PROVE  IF req[p].op \in SessionOps
         THEN LET s == req[p].sid
              IN  /\ session' = [session EXCEPT ![s] = Meant(req[p], @)]
                  /\ req[p].op = "refresh" => session[s] = [hash |-> req[p].arg,
                                                           revoked |-> FALSE]
         ELSE account' = Meant(req[p], account)
<1>1. /\ req[p].at = "update" /\ Current(req[p], account, session)
      /\ Knows(req[p], account, session)
  BY DEF Update, IInv, HeldCurrent, HolderSound
<1>2. CASE req[p].op \in SessionOps
  <2> DEFINE s == req[p].sid
             row == session[s]
  <2>1. /\ s \in DOMAIN session /\ row \in Session /\ req[p].ent \in Session
        /\ session' = [session EXCEPT ![s] = Overwritten(row, req[p].ent, req[p].cols)]
    BY <1>2, UpdateSession
  <2>2. req[p].ent = Meant(req[p], row) /\ req[p].cols = Differing(req[p].ent, row)
    BY <1>1, <1>2 DEF Current, RowOf
  <2>3. Overwritten(row, req[p].ent, req[p].cols) = Meant(req[p], row)
    BY <2>1, <2>2, WriteSession
  <2>4. req[p].op = "refresh" => row = [hash |-> req[p].arg, revoked |-> FALSE]
    BY <1>1 DEF Current
  <2> QED  BY <1>2, <2>1, <2>3, <2>4
<1>3. CASE req[p].op \notin SessionOps
  <2> DEFINE e == req[p].ent
             row == [name |-> account.name, verified |-> account.verified]
  <2>1. /\ req[p].op \in AccountOps /\ account \in Account /\ e \in Profile
        /\ account' = Overwritten(account, e, req[p].cols)
    BY <1>3, UpdateAccount
  <2>2. e = Meant(req[p], row) /\ req[p].cols = Differing(e, row)
    BY <1>1, <1>3 DEF Current, RowOf
  <2>3. account' = [account EXCEPT !.name = e.name, !.verified = e.verified]
    BY <2>1, <2>2, WriteAccount
  <2>4. [account EXCEPT !.name = e.name, !.verified = e.verified] = Meant(req[p], account)
    <3>1. /\ account = [name |-> account.name, verified |-> account.verified,
                        password |-> account.password]
          /\ account \in Account
      BY <2>1 DEF Account
    <3>2. CASE req[p].op = "verify"
      <4>1. e.name = account.name /\ e.verified = TRUE
        BY <2>2, <3>2 DEF Meant
      <4> QED  BY <3>1, <3>2, <4>1 DEF Meant, Account
    <3>3. CASE req[p].op = "profile"
      <4>1. e.name = req[p].arg /\ e.verified = account.verified
        BY <2>2, <3>3 DEF Meant
      <4> QED  BY <3>1, <3>3, <4>1 DEF Meant, Account
    <3>4. CASE req[p].op = "reset"
      <4>1. e.name = account.name /\ e.verified = account.verified
        BY <2>2, <3>4 DEF Meant
      <4> QED  BY <3>1, <3>4, <4>1 DEF Meant, Account
    <3> QED  BY <2>1, <3>2, <3>3, <3>4
  <2> QED  BY <1>3, <2>3, <2>4
<1> QED  BY <1>2, <1>3

\* The save of a session or of the account that nobody else changed meanwhile
\* is the atomic operation the handler stands for (refresh, logout,
\* revokeSession, verifyEmail, updateProfile, resetPassword).
THEOREM CleanSavesAtomic == Spec => CleanSaveIsAtomic
<1> DEFINE Clean == \A p \in Reqs :
      Writes(p) /\ ~req[p].raced =>
        IF req[p].op \in SessionOps
        THEN LET s == req[p].sid
             IN  /\ session' = [session EXCEPT ![s] = Meant(req[p], @)]
                 /\ req[p].op = "refresh" => session[s] = [hash |-> req[p].arg,
                                                          revoked |-> FALSE]
        ELSE account' = Meant(req[p], account)
<1>1. IInv /\ [Next]_vars => Clean
  BY WritesIsUpdate, CleanUpdate
<1>2. IInv /\ [Next]_vars => [Clean]_vars
  BY <1>1
<1> QED  BY <1>2, Invariance, PTL DEF Spec, CleanSaveIsAtomic

\* A revoked session comes back only through an Update of that session.
LEMMA RevivedByUpdate ==
  ASSUME IInv, [Next]_vars, NEW s \in DOMAIN session,
         session[s].revoked, ~session'[s].revoked
  PROVE  \E p \in Reqs : Update(p) /\ req[p].op \in SessionOps /\ req[p].sid = s
<1>1. session \in Seq(Session) /\ session' # session
  BY DEF IInv, TypeOK
<1>2. PICK q \in Reqs : Handle(q) \/ Crash(q)
  BY <1>1 DEF Next, Tick, vars
<1>3. \/ InsertSession(q) \/ RevokeAll(q) \/ Update(q)
  BY <1>1, <1>2 DEF Handle, Crash, Start, FindEmail, InsertUser, Mail, LoadUser,
     SetPassword, Authenticate, Mint, LoadByToken, LoadById, LoadActive, Select, Reply
<1>4. ~InsertSession(q)
  <2>1. ASSUME InsertSession(q) PROVE session'[s] = session[s]
    BY <1>1, <2>1 DEF InsertSession
  <2> QED  BY <2>1
<1>5. ~RevokeAll(q)
  <2>1. ASSUME RevokeAll(q) PROVE session'[s].revoked
    <3>1. session'[s] = [session[s] EXCEPT !.revoked = TRUE] /\ session[s] \in Session
      BY <1>1, <2>1 DEF RevokeAll
    <3> QED  BY <3>1 DEF Session
  <2> QED  BY <2>1
<1>6. Update(q)
  BY <1>3, <1>4, <1>5
<1>7. req[q].op \in SessionOps
  BY <1>1, <1>6, UpdateAccount
<1>8. req[q].sid = s
  BY <1>6, <1>7, UpdateSession
<1> QED  BY <1>6, <1>7, <1>8

\* A revocation is undone only by a refresh that loaded the session before it
\* (refresh keeps isRevoked in the entity it saves).
THEOREM RevocationsHold == Spec => RevocationHolds
<1> DEFINE A == \A s \in DOMAIN session :
      session[s].revoked /\ ~session'[s].revoked =>
        \E p \in Reqs : /\ Writes(p) /\ req[p].raced
                       /\ req[p].op = "refresh" /\ req[p].sid = s
<1>1. ASSUME IInv, [Next]_vars, NEW s \in DOMAIN session,
             session[s].revoked, ~session'[s].revoked
      PROVE  \E p \in Reqs : /\ Writes(p) /\ req[p].raced
                            /\ req[p].op = "refresh" /\ req[p].sid = s
  <2>1. PICK p \in Reqs : Update(p) /\ req[p].op \in SessionOps /\ req[p].sid = s
    BY <1>1, RevivedByUpdate
  <2>2. Writes(p)
    BY <1>1, <2>1, UpdateWrites
  <2>3. /\ Knows(req[p], account, session) /\ req[p].at = "update"
        /\ session[s] \in Session /\ req[p].ent \in Session
        /\ session'[s] = Overwritten(session[s], req[p].ent, req[p].cols)
    BY <1>1, <2>1, UpdateSession DEF IInv, HolderSound, Update
  <2>4. ~req[p].ent.revoked
    BY <1>1, <2>3 DEF Overwritten, Session
  <2>5. req[p].op = "refresh"
    BY <2>1, <2>3, <2>4 DEF Knows
  <2>6. req[p].raced
    <3>1. ASSUME ~req[p].raced PROVE session[s] = [hash |-> req[p].arg, revoked |-> FALSE]
      BY <1>1, <2>1, <2>5, <3>1, CleanUpdate
    <3> QED  BY <1>1, <3>1
  <2> QED  BY <2>1, <2>2, <2>5, <2>6
<1>2. IInv /\ [Next]_vars => [A]_vars
  BY <1>1
<1> QED  BY <1>2, Invariance, PTL DEF Spec, RevocationHolds

\* A verification is undone only by a profile or password change that loaded
\* the user before it (updateProfile keeps isVerified in the entity it saves).
THEOREM VerificationsHold == Spec => VerificationHolds
<1> DEFINE A == account # None /\ account.verified /\ ~account'.verified =>
      \E p \in Reqs : /\ Writes(p) /\ req[p].raced
                     /\ req[p].op \in {"profile", "reset"}
<1>1. ASSUME IInv, [Next]_vars, account # None, account.verified, ~account'.verified
      PROVE  \E p \in Reqs : /\ Writes(p) /\ req[p].raced
                            /\ req[p].op \in {"profile", "reset"}
  <2>1. account \in Account /\ account' # account
    BY <1>1 DEF IInv, TypeOK
  <2>2. PICK p \in Reqs : Handle(p) \/ Crash(p)
    BY <1>1, <2>1 DEF Next, Tick, vars
  <2>3. SetPassword(p) \/ Update(p)
    BY <1>1, <2>1, <2>2 DEF Handle, Crash, Start, FindEmail, InsertUser, Mail, LoadUser,
       InsertSession, Authenticate, Mint, LoadByToken, LoadById, LoadActive, RevokeAll,
       Select, Reply
  <2>4. Update(p)
    <3>1. ASSUME SetPassword(p) PROVE account'.verified = account.verified
      BY <2>1, <3>1 DEF SetPassword, Account
    <3> QED  BY <1>1, <2>3, <3>1
  <2>5. req[p].op \in AccountOps
    <3>1. req[p].op \notin SessionOps
      BY <1>1, <2>1, <2>4, UpdateSession
    <3> QED  BY <1>1, <2>4, <3>1, UpdateAccount
  <2>6. /\ Knows(req[p], account, session) /\ req[p].at = "update" /\ Writes(p)
        /\ req[p].ent \in Profile
        /\ account' = Overwritten(account, req[p].ent, req[p].cols)
    BY <1>1, <2>4, <2>5, UpdateAccount, UpdateWrites DEF IInv, HolderSound, Update
  <2>7. ~req[p].ent.verified
    BY <1>1, <2>1, <2>6 DEF Overwritten, Account
  <2>8. req[p].op # "verify"
    BY <2>6, <2>7 DEF Knows
  <2>9. req[p].raced
    <3>1. ASSUME ~req[p].raced PROVE account'.verified = account.verified
      <4>1. account' = Meant(req[p], account)
        BY <1>1, <2>4, <2>5, <3>1, CleanUpdate
      <4> QED  BY <2>1, <2>5, <2>8, <4>1 DEF Meant, Account
    <3> QED  BY <1>1, <3>1
  <2> QED  BY <2>5, <2>6, <2>8, <2>9
<1>2. IInv /\ [Next]_vars => [A]_vars
  BY <1>1
<1> QED  BY <1>2, Invariance, PTL DEF Spec, VerificationHolds

---------------------------------------------------------------------------
(* Where refresh tokens come from *)

\* Expected of the next state.
ExpectedNext(t) == t \in spent' \/ (Len(session') = 1 /\ t = session'[1].hash)

\* The tokens of the others are as expected as before, and p's step puts only
\* expected ones under way.
LEMMA TokensKept ==
  ASSUME IInv, TokensExpected, NEW p \in Reqs, NEW STATE r, req'[p] = r,
         \A q \in Reqs \ {p} : /\ req'[q].gives = req[q].gives /\ req'[q].op = req[q].op
                               /\ req'[q].at = req[q].at /\ req'[q].arg = req[q].arg,
         spent \subseteq spent', \A t : Expected(t) => ExpectedNext(t),
         issued' \subseteq issued \cup req[p].gives,
         \A t \in r.gives : ExpectedNext(t),
         r.op = "refresh" /\ r.at = "find" => ExpectedNext(r.arg),
         r.at = "alarm" => r.arg \in spent'
  PROVE  TokensExpected'
<1>1. \A t : ExpectedNext(t) <=> Expected(t)'
  BY DEF Expected, ExpectedNext
<1>2. \A t \in issued' : ExpectedNext(t)
  BY DEF TokensExpected
<1>3. ASSUME NEW q \in Reqs
      PROVE  /\ \A t \in req'[q].gives : ExpectedNext(t)
             /\ req'[q].op = "refresh" /\ req'[q].at = "find" => ExpectedNext(req'[q].arg)
             /\ req'[q].at = "alarm" => req'[q].arg \in spent'
  <2>1. CASE q = p
    BY <2>1
  <2>2. CASE q # p
    <3>1. /\ \A t \in req[q].gives : Expected(t)
          /\ req[q].op = "refresh" /\ req[q].at = "find" => Expected(req[q].arg)
          /\ req[q].at = "alarm" => req[q].arg \in spent
      BY DEF TokensExpected
    <3> QED  BY <2>2, <3>1
  <2> QED  BY <2>1, <2>2
<1> QED  BY <1>1, <1>2, <1>3 DEF TokensExpected, Expected, ExpectedNext

\* The common case: p alone moves, the sessions stay.
LEMMA OwnTokens ==
  ASSUME IInv, TokensExpected, NEW p \in Reqs, NEW STATE r,
         req' = [req EXCEPT ![p] = r], UNCHANGED <<session, spent>>,
         issued' \subseteq issued \cup req[p].gives,
         \A t \in r.gives : Expected(t),
         r.op = "refresh" /\ r.at = "find" => Expected(r.arg),
         r.at = "alarm" => r.arg \in spent
  PROVE  TokensExpected'
<1>1. \A t : Expected(t) <=> ExpectedNext(t)
  BY DEF Expected, ExpectedNext
<1>2. req'[p] = r /\ \A q \in Reqs \ {p} : req'[q] = req[q]
  BY DEF IInv, TypeOK
<1> QED  BY <1>1, <1>2, TokensKept

\* An answer without a token.
LEMMA AnswerTokens ==
  ASSUME IInv, TokensExpected, NEW p \in Reqs, NEW code, NEW from,
         Step(p, from, Answer(code)), UNCHANGED <<session, issued, spent>>
  PROVE  TokensExpected'
<1>1. Answer(code).gives = {} /\ Answer(code).at = "reply"
  BY DEF Answer, Idle
<1> QED  BY <1>1, OwnTokens DEF Step

\* A step that gives nothing, and brings or suspects no token.
LEMMA QuietTokens ==
  ASSUME IInv, TokensExpected, NEW p \in Reqs, NEW STATE r,
         req' = [req EXCEPT ![p] = r], UNCHANGED <<session, issued, spent>>,
         r.gives = {} \/ r.gives = req[p].gives, r.at \notin {"find", "alarm"}
  PROVE  TokensExpected'
<1>1. \A t \in r.gives : Expected(t)
  BY DEF TokensExpected
<1> QED  BY <1>1, OwnTokens

\* A client brings a token it was given (refresh is called with the cookie).
LEMMA StartTokens ==
  ASSUME IInv, TokensExpected, NEW p \in Reqs, Start(p) PROVE TokensExpected'
<1> PICK c \in Requests : req' = [req EXCEPT ![p] = [Idle EXCEPT !.at = "find",
                                                       !.op = c.op, !.arg = c.arg]]
  BY DEF Start, Step
<1> DEFINE r == [Idle EXCEPT !.at = "find", !.op = c.op, !.arg = c.arg]
<1>1. r.gives = {} /\ r.at = "find" /\ r.op = c.op /\ r.arg = c.arg
  BY DEF Idle
<1>2. c.op = "refresh" => c.arg \in issued
  BY DEF Requests
<1>3. c.op = "refresh" => Expected(c.arg)
  BY <1>2 DEF TokensExpected
<1> HIDE DEF r
<1> QED  BY <1>1, <1>3, OwnTokens DEF r, Start, history

\* The lone active session, if its hash is not the token's, has exchanged it.
LEMMA LoadActiveTokens ==
  ASSUME IInv, TokensExpected, NEW p \in Reqs, LoadActive(p), Len(session) <= 1
  PROVE  TokensExpected'
<1>0. req[p].op = "refresh" /\ UNCHANGED <<session, issued, spent>>
  BY DEF LoadActive, history
<1>1. CASE Step(p, "find", Answer(401))
  BY <1>0, <1>1, AnswerTokens
<1>2. ASSUME NEW s \in Active,
             Step(p, "find",
               [req[p] EXCEPT !.at = IF session[s].hash = req[p].arg THEN "mint" ELSE "alarm",
                              !.sid = s, !.ent = session[s]])
      PROVE  TokensExpected'
  <2> DEFINE r == [req[p] EXCEPT
                     !.at = IF session[s].hash = req[p].arg THEN "mint" ELSE "alarm",
                     !.sid = s, !.ent = session[s]]
  <2>1. req[p] \in Handler /\ req[p].at = "find" /\ req' = [req EXCEPT ![p] = r]
    BY <1>2 DEF IInv, TypeOK, Step
  <2>2. /\ r.gives = req[p].gives /\ r.arg = req[p].arg
        /\ r.at = IF session[s].hash = req[p].arg THEN "mint" ELSE "alarm"
    BY <2>1 DEF Handler
  <2>3. session[s].hash # req[p].arg => req[p].arg \in spent
    <3>1. Expected(req[p].arg)
      BY <1>0, <2>1 DEF TokensExpected
    <3>2. session \in Seq(Session) /\ s \in DOMAIN session
      BY <1>2 DEF IInv, TypeOK, Active
    <3>3. s = 1
      BY <3>2
    <3> QED  BY <3>1, <3>3 DEF Expected
  <2>4. \A t \in r.gives : Expected(t)
    BY <2>2 DEF TokensExpected
  <2> HIDE DEF r
  <2> QED  BY <1>0, <2>1, <2>2, <2>3, <2>4, OwnTokens
<1> QED  BY <1>1, <1>2 DEF LoadActive, Step

\* The handlers that deal in no token, until their save.
LEMMA OtherTokens ==
  ASSUME IInv, TokensExpected, NEW p \in Reqs,
         \/ FindEmail(p) \/ InsertUser(p) \/ Mail(p) \/ LoadUser(p) \/ SetPassword(p)
         \/ Authenticate(p) \/ Mint(p) \/ LoadByToken(p) \/ LoadById(p)
  PROVE  TokensExpected'
<1>0. req[p] \in Handler /\ UNCHANGED <<session, issued, spent>>
  BY DEF IInv, TypeOK, FindEmail, InsertUser, Mail, LoadUser, SetPassword, Authenticate,
     Mint, LoadByToken, LoadById, history
<1>1. ASSUME NEW code, NEW from, Step(p, from, Answer(code)) PROVE TokensExpected'
  BY <1>0, <1>1, AnswerTokens
<1>2. ASSUME NEW from, NEW at, at \notin {"find", "alarm"}, NEW STATE sid, NEW STATE ent,
             Step(p, from, [req[p] EXCEPT !.at = at, !.sid = sid, !.ent = ent])
      PROVE  TokensExpected'
  <2> DEFINE r == [req[p] EXCEPT !.at = at, !.sid = sid, !.ent = ent]
  <2>1. r.gives = req[p].gives /\ r.at = at
    BY <1>0 DEF Handler
  <2> HIDE DEF r
  <2> QED  BY <1>0, <1>2, <2>1, QuietTokens DEF Step, r
<1>3. ASSUME NEW from, NEW at, at \notin {"find", "alarm"},
             Step(p, from, [req[p] EXCEPT !.at = at])
      PROVE  TokensExpected'
  <2>1. [req[p] EXCEPT !.at = at].gives = req[p].gives /\ [req[p] EXCEPT !.at = at].at = at
    BY <1>0 DEF Handler
  <2> QED  BY <1>0, <1>3, <2>1, QuietTokens DEF Step
<1>4. CASE FindEmail(p) \/ InsertUser(p) \/ Mail(p) \/ SetPassword(p) \/ Authenticate(p)
  <2>1. CASE FindEmail(p)
    BY <1>1, <1>3, <2>1 DEF FindEmail
  <2>2. CASE InsertUser(p)
    BY <1>1, <1>3, <2>2 DEF InsertUser
  <2>3. CASE Mail(p) \/ SetPassword(p)
    BY <1>1, <2>3 DEF Mail, SetPassword
  <2>4. CASE Authenticate(p)
    BY <1>1, <1>3, <2>4 DEF Authenticate
  <2> QED  BY <1>4, <2>1, <2>2, <2>3, <2>4
<1>5. CASE LoadUser(p)
  <2>1. CASE account = None
    BY <1>1, <1>5, <2>1 DEF LoadUser
  <2>2. CASE account # None
    <3> DEFINE e == [name |-> IF req[p].op = "profile" THEN req[p].arg ELSE account.name,
                     verified |-> req[p].op = "verify" \/ account.verified]
               r == [req[p] EXCEPT !.at = "select", !.ent = e]
    <3>1. req' = [req EXCEPT ![p] = r]
      BY <1>5, <2>2 DEF LoadUser, Step
    <3>2. r.gives = req[p].gives /\ r.at = "select"
      BY <1>0 DEF Handler
    <3> HIDE DEF r
    <3> QED  BY <1>0, <3>1, <3>2, QuietTokens
  <2> QED  BY <2>1, <2>2
<1>6. CASE Mint(p)
  <2> DEFINE r == [req[p] EXCEPT !.minted = now,
                     !.at = IF req[p].op = "login" THEN "insertSession" ELSE "select",
                     !.ent = IF req[p].op = "login" THEN @
                             ELSE [hash |-> now, revoked |-> @.revoked]]
  <2>1. req' = [req EXCEPT ![p] = r]
    BY <1>6 DEF Mint, Step
  <2>2. r.gives = req[p].gives /\ r.at \in {"insertSession", "select"}
    BY <1>0 DEF Handler
  <2> HIDE DEF r
  <2> QED  BY <1>0, <2>1, <2>2, QuietTokens
<1>7. CASE LoadByToken(p)
  BY <1>1, <1>2, <1>7 DEF LoadByToken
<1>8. CASE LoadById(p)
  BY <1>2, <1>8 DEF LoadById
<1> QED  BY <1>4, <1>5, <1>6, <1>7, <1>8

\* login: the first session expects the token it was made with, and before it no
\* token was anyone's but the spent ones.
LEMMA InsertSessionTokens ==
  ASSUME IInv, TokensExpected, NEW p \in Reqs, InsertSession(p), Len(session') <= 1
  PROVE  TokensExpected'
<1> DEFINE row == [hash |-> req[p].minted, revoked |-> FALSE]
           r == Give(req[p].minted)
<1>1. /\ req[p] \in Handler /\ session \in Seq(Session)
      /\ session' = Append(session, row)
      /\ req' = [req EXCEPT ![p] = r] /\ UNCHANGED <<issued, spent>>
  BY DEF IInv, TypeOK, InsertSession, Step, history
<1>2. row \in Session
  BY <1>1 DEF Handler, Session
<1>3. row.hash = req[p].minted
  OBVIOUS
<1> HIDE DEF row
<1>4. Len(session') = Len(session) + 1
  BY <1>1, <1>2
<1>5. Len(session) = 0
  BY <1>1, <1>4
<1>6. Len(session') = 1 /\ session'[1] = row
  BY <1>1, <1>2, <1>4, <1>5
<1>7. \A t : Expected(t) => ExpectedNext(t)
  BY <1>1, <1>5 DEF Expected, ExpectedNext
<1>8. r.gives = {req[p].minted} /\ r.at = "reply"
  BY DEF Give, Answer, Idle
<1> HIDE DEF r
<1>9. \A t \in r.gives : ExpectedNext(t)
  BY <1>3, <1>6, <1>8 DEF ExpectedNext
<1>10. req'[p] = r /\ \A q \in Reqs \ {p} : req'[q] = req[q]
  BY <1>1 DEF IInv, TypeOK
<1> QED  BY <1>1, <1>7, <1>8, <1>9, <1>10, TokensKept

\* An overtaken handler keeps the tokens it has.
LEMMA OvertakeKeeps ==
  ASSUME IInv, NEW p \in Reqs, NEW STATE old, NEW STATE r, Overtake(p, old, r)
  PROVE  /\ req'[p] = r
         /\ \A q \in Reqs \ {p} : /\ req'[q].gives = req[q].gives /\ req'[q].op = req[q].op
                                  /\ req'[q].at = req[q].at /\ req'[q].arg = req[q].arg
<1>1. req'[p] = r
  BY DEF Overtake
<1>2. ASSUME NEW q \in Reqs \ {p}
      PROVE  /\ req'[q].gives = req[q].gives /\ req'[q].op = req[q].op
             /\ req'[q].at = req[q].at /\ req'[q].arg = req[q].arg
  <2>1. req'[q] = [req[q] EXCEPT !.raced = @ \/ q \in old] /\ req[q] \in Handler
    BY <1>2 DEF Overtake, IInv, TypeOK
  <2> QED  BY <2>1 DEF Handler
<1> QED  BY <1>1, <1>2

\* A revocation leaves the hashes.
LEMMA RevokeAllTokens ==
  ASSUME IInv, TokensExpected, NEW p \in Reqs, RevokeAll(p) PROVE TokensExpected'
<1>1. /\ session \in Seq(Session) /\ Overtake(p, Holders(Active), Answer(403))
      /\ session' = [s \in DOMAIN session |-> [session[s] EXCEPT !.revoked = TRUE]]
      /\ UNCHANGED <<issued, spent>>
  BY DEF IInv, TypeOK, RevokeAll, history
<1>2. \A s \in DOMAIN session : session'[s].hash = session[s].hash
  <2>1. ASSUME NEW s \in DOMAIN session PROVE session'[s].hash = session[s].hash
    <3>1. session[s] \in Session
      BY <1>1
    <3> QED  BY <1>1, <3>1 DEF Session
  <2> QED  BY <2>1
<1>3. Len(session') = Len(session)
  BY <1>1
<1>4. \A t : Expected(t) => ExpectedNext(t)
  BY <1>1, <1>2, <1>3 DEF Expected, ExpectedNext
<1> DEFINE r == Answer(403)
<1>5. r.gives = {} /\ r.at = "reply"
  BY DEF Answer, Idle
<1> HIDE DEF r
<1>6. /\ req'[p] = r
      /\ \A q \in Reqs \ {p} : /\ req'[q].gives = req[q].gives /\ req'[q].op = req[q].op
                               /\ req'[q].at = req[q].at /\ req'[q].arg = req[q].arg
  BY <1>1, OvertakeKeeps DEF r
<1> QED  BY <1>1, <1>4, <1>5, <1>6, TokensKept

\* Where a save ends, and with which token.
LEMMA SavedTokens ==
  ASSUME NEW p
  PROVE  /\ Saved(p).at \notin {"find", "alarm"}
         /\ Saved(p).gives = IF req[p].op = "refresh" THEN {req[p].minted} ELSE {}
  BY DEF Saved, Give, Answer, Idle

\* A save that finds nothing to write: a refresh then gives the token whose hash
\* the session has.
LEMMA SelectTokens ==
  ASSUME IInv, TokensExpected, NEW p \in Reqs, Select(p), Len(session) <= 1
  PROVE  TokensExpected'
<1> DEFINE cols == Differing(req[p].ent, RowOf(req[p], account, session))
           r == [req[p] EXCEPT !.at = "update", !.cols = cols]
<1>1. /\ req[p] \in Handler /\ Knows(req[p], account, session) /\ req[p].at = "select"
      /\ UNCHANGED <<session, issued, spent>> /\ session \in Seq(Session)
  BY DEF IInv, TypeOK, HolderSound, Select, Step, history
<1>2. CASE req' = [req EXCEPT ![p] = r]
  <2>1. r.gives = req[p].gives /\ r.at = "update"
    BY <1>1 DEF Handler
  <2> HIDE DEF r
  <2> QED  BY <1>1, <1>2, <2>1, QuietTokens
<1>3. CASE cols = {} /\ req' = [req EXCEPT ![p] = Saved(p)]
  <2>1. ASSUME req[p].op = "refresh" PROVE Expected(req[p].minted)
    <3>1. /\ req[p].sid \in DOMAIN session /\ req[p].ent \in Session
          /\ req[p].ent.hash = req[p].minted
      BY <1>1, <2>1 DEF Knows
    <3>2. req[p].ent.hash = session[req[p].sid].hash
      BY <1>3, <2>1, <3>1 DEF Differing, RowOf, Session
    <3>3. Len(session) \in Nat /\ req[p].sid \in 1..Len(session)
      BY <1>1, <3>1
    <3>4. \A n \in Nat : \A i \in 1..n : n <= 1 => i = 1 /\ n = 1
      OBVIOUS
    <3>5. req[p].sid = 1 /\ Len(session) = 1
      BY <3>3, <3>4
    <3> QED  BY <3>1, <3>2, <3>5 DEF Expected
  <2>2. \A t \in Saved(p).gives : Expected(t)
    BY <2>1, SavedTokens
  <2> QED  BY <1>1, <1>3, <2>2, SavedTokens, OwnTokens
<1> QED  BY <1>2, <1>3 DEF Select, Step

\* A save nobody overtook: a refresh spends the token the session expected and
\* makes it expect the one it gives; any other leaves the hash.
LEMMA UpdateTokens ==
  ASSUME IInv, TokensExpected, NEW p \in Reqs, Update(p), Len(session) <= 1, ~clash'
  PROVE  TokensExpected'
<1>1. /\ req[p] \in Handler /\ req[p].at = "update" /\ session \in Seq(Session)
      /\ Knows(req[p], account, session) /\ UNCHANGED issued
      /\ spent' = IF req[p].op = "refresh" THEN spent \cup {req[p].arg} ELSE spent
  BY DEF IInv, TypeOK, HolderSound, Update
<1>2. /\ req'[p] = Saved(p)
      /\ \A q \in Reqs \ {p} : /\ req'[q].gives = req[q].gives /\ req'[q].op = req[q].op
                               /\ req'[q].at = req[q].at /\ req'[q].arg = req[q].arg
  <2>1. Overtake(p, Holders({req[p].sid}), Saved(p)) \/ Overtake(p, AccountHolders, Saved(p))
    BY DEF Update
  <2> DEFINE r == Saved(p)
             h == Holders({req[p].sid})
  <2>2. Overtake(p, h, r) \/ Overtake(p, AccountHolders, r)
    BY <2>1
  <2> HIDE DEF r, h
  <2>3. /\ req'[p] = r
        /\ \A q \in Reqs \ {p} : /\ req'[q].gives = req[q].gives /\ req'[q].op = req[q].op
                                 /\ req'[q].at = req[q].at /\ req'[q].arg = req[q].arg
    BY <2>2, OvertakeKeeps
  <2> QED  BY <2>3 DEF r
<1>3. /\ \A t : Expected(t) => ExpectedNext(t)
      /\ req[p].op = "refresh" => ExpectedNext(req[p].minted)
  <2>1. CASE req[p].op \notin SessionOps
    <3>1. session' = session /\ spent' = spent
      BY <1>1, <2>1, UpdateAccount
    <3> QED  BY <2>1, <3>1 DEF Expected, ExpectedNext
  <2>2. CASE req[p].op \in SessionOps
    <3>1. ~req[p].raced
      BY <2>2 DEF Update
    <3>2. /\ req[p].sid \in DOMAIN session /\ session[req[p].sid] \in Session
          /\ DOMAIN session' = DOMAIN session /\ session' \in Seq(Session)
      BY <2>2, UpdateSession
    <3>3. Len(session) \in Nat /\ req[p].sid \in 1..Len(session)
          /\ Len(session') = Len(session)
      BY <1>1, <3>2
    <3>4. \A n \in Nat : \A i \in 1..n : n <= 1 => i = 1 /\ n = 1
      OBVIOUS
    <3>5. req[p].sid = 1 /\ Len(session) = 1 /\ Len(session') = 1
      BY <3>3, <3>4
    <3>6. session'[1] = Meant(req[p], session[1])
          /\ (req[p].op = "refresh" => session[1].hash = req[p].arg)
      <4>1. /\ session' = [session EXCEPT ![req[p].sid] = Meant(req[p], @)]
            /\ req[p].op = "refresh" => session[req[p].sid] = [hash |-> req[p].arg,
                                                               revoked |-> FALSE]
        BY <2>2, <3>1, CleanUpdate
      <4> QED  BY <3>2, <3>5, <4>1
    <3>7. CASE req[p].op = "refresh"
      <4>1. session'[1].hash = req[p].minted
        BY <3>6, <3>7 DEF Meant
      <4> QED  BY <1>1, <3>5, <3>6, <3>7, <4>1 DEF Expected, ExpectedNext
    <3>8. CASE req[p].op # "refresh"
      <4>1. session'[1].hash = session[1].hash
        BY <2>2, <3>2, <3>5, <3>6, <3>8 DEF Meant, Session
      <4> QED  BY <1>1, <3>5, <3>8, <4>1 DEF Expected, ExpectedNext
    <3> QED  BY <3>7, <3>8
  <2> QED  BY <2>1, <2>2
<1> DEFINE r == Saved(p)
<1>4. r.at \notin {"find", "alarm"} /\ \A t \in r.gives : ExpectedNext(t)
  BY <1>3, SavedTokens
<1>5. req'[p] = r
  BY <1>2
<1> HIDE DEF r
<1> QED  BY <1>1, <1>2, <1>3, <1>4, <1>5, TokensKept

\* The client receives what its answer gives.
LEMMA ReplyTokens ==
  ASSUME IInv, TokensExpected, NEW p \in Reqs, Reply(p) \/ Crash(p)
  PROVE  TokensExpected'
<1>1. req' = [req EXCEPT ![p] = Idle] /\ UNCHANGED <<session, spent>>
      /\ issued' \subseteq issued \cup req[p].gives
  BY DEF Reply, Crash, Step, history
<1>2. Idle.gives = {} /\ Idle.at = "idle"
  BY DEF Idle
<1> QED  BY <1>1, <1>2, OwnTokens

\* No session is deleted and a clash is not forgotten.
LEMMA OnlyMore ==
  ASSUME IInv, [Next]_vars
  PROVE  /\ Len(session) \in Nat /\ Len(session') \in Nat
         /\ Len(session) <= Len(session') /\ (clash => clash')
<1>0. IInv' /\ session \in Seq(Session) /\ session' \in Seq(Session)
  BY NextInv DEF IInv, TypeOK
<1>1. CASE session' = session /\ clash' = clash
  BY <1>0, <1>1
<1>2. ASSUME NEW p \in Reqs, InsertSession(p) PROVE Len(session) <= Len(session') /\ clash' = clash
  BY <1>0, <1>2 DEF InsertSession, history
<1>3. ASSUME NEW p \in Reqs, RevokeAll(p) PROVE Len(session) = Len(session') /\ clash' = clash
  BY <1>0, <1>3 DEF RevokeAll, history
<1>4. ASSUME NEW p \in Reqs, Update(p) PROVE Len(session) = Len(session') /\ (clash => clash')
  <2>1. DOMAIN session' = DOMAIN session
    BY <1>4, UpdateSession, UpdateAccount
  <2>2. Len(session) = Len(session')
    BY <1>0, <2>1
  <2> QED  BY <1>4, <2>2 DEF Update
<1>5. ASSUME NEW p \in Reqs, Handle(p) \/ Crash(p)
      PROVE  \/ session' = session /\ clash' = clash
             \/ InsertSession(p) \/ RevokeAll(p) \/ Update(p)
  BY <1>5 DEF Handle, Crash, Start, FindEmail, InsertUser, Mail, LoadUser, SetPassword,
     Authenticate, Mint, LoadByToken, LoadById, LoadActive, Select, Reply, history
<1>6. CASE Tick \/ UNCHANGED vars
  BY <1>0, <1>6 DEF Tick, vars, history
<1> QED  BY <1>0, <1>1, <1>2, <1>3, <1>4, <1>5, <1>6 DEF Next

\* Where every token comes from is an invariant of every step.
LEMMA NextTokens == ASSUME IInv, TokenInv, [Next]_vars PROVE TokenInv'
<1> SUFFICES ASSUME ~(Len(session') > 1), ~clash' PROVE TokensExpected'
  BY DEF TokenInv
<1>1. /\ Len(session) <= 1 /\ Len(session') <= 1 /\ ~clash /\ TokensExpected
  BY OnlyMore DEF TokenInv
<1>2. ASSUME NEW p \in Reqs, Handle(p) \/ Crash(p) PROVE TokensExpected'
  BY <1>1, <1>2, StartTokens, OtherTokens, InsertSessionTokens, LoadActiveTokens,
     RevokeAllTokens, SelectTokens, UpdateTokens, ReplyTokens DEF Handle
<1>3. CASE Tick \/ UNCHANGED vars
  BY <1>1, <1>3 DEF Tick, vars, history, TokensExpected, Expected
<1> QED  BY <1>2, <1>3 DEF Next

\* refresh cries theft ("This token was already used or stolen") only over a token
\* that was exchanged before, as long as the user never had a second session and
\* no save wrote a session that others had changed.
THEOREM AlarmsExplained == Spec => []AlarmExplained
<1>1. Init => TokenInv
  <2>1. ASSUME Init, NEW p \in Reqs PROVE req[p] = Idle
    BY <2>1 DEF Init
  <2> QED  BY <2>1 DEF Init, TokenInv, TokensExpected, Idle
<1>2. IInv /\ TokenInv /\ [Next]_vars => TokenInv'
  BY NextTokens
<1>3. TokenInv => AlarmExplained
  BY DEF TokenInv, TokensExpected, AlarmExplained
<1> QED  BY <1>1, <1>2, <1>3, Invariance, PTL DEF Spec
=============================================================================
