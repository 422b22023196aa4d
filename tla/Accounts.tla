------------------------------ MODULE Accounts ------------------------------
(***************************************************************************)
(* Accounts and sessions (internal/api/handlers.go over internal/store/    *)
(* db.go, and cmd/resetpassword): registration, login, the sliding session *)
(* behind every signed-in request, logout, account deletion, admin grants  *)
(* and the operator's password reset.                                      *)
(*                                                                         *)
(* A handler is a run of store calls, each one statement or one SQLite     *)
(* transaction, and the calls of concurrent requests interleave.  What a   *)
(* handler read in an earlier call it still believes in a later one: a     *)
(* password that was right, a session that was valid, an account that      *)
(* existed, a caller who was an admin.                                     *)
(*                                                                         *)
(* The rows an account owns are two sets of account ids: `text' for all    *)
(* that DeleteUserCascade clears (decks, sentences, occurrences, cards,    *)
(* parse sessions, feedback, known and ignored lemmas), `history' for      *)
(* review_log.                                                             *)
(***************************************************************************)
EXTENDS Integers

CONSTANTS
    MaxId,        \* bound on the account ids handed out
    Emails,       \* normalised addresses
    AdminEmails,  \* FINNESTDB_ADMIN_EMAILS
    Passwords,
    Tokens,       \* random session tokens, never drawn twice
    Requests,     \* request goroutines
    KeepSessions, \* choices of the operator's -keep-sessions flag
    Lifetime,     \* sessionLifetime, in clock ticks
    MaxNow        \* bound on the clock

Ids == 1..MaxId

ASSUME AccountAssumption ==
    /\ MaxId \in Nat /\ MaxNow \in Nat
    /\ Lifetime \in Nat \ {0}
    /\ AdminEmails \subseteq Emails
    /\ Emails # {} /\ Passwords # {}
    /\ KeepSessions \subseteq BOOLEAN

VARIABLES
    now,       \* the clock
    used,      \* sqlite_sequence of users: the last id handed out
    live,      \* ids with a users row
    email,     \* users.email
    password,  \* what users.password_hash verifies
    admins,    \* ids with is_admin = 1
    session,   \* user_sessions row of each token, NoSession where there is none
    text,      \* ids that own rows of the learning tables
    history,   \* ids that own rows of review_log
    request,   \* where each request stands and what it has read
    operator,  \* the same for a run of cmd/resetpassword
    ended      \* history: tokens logged out, revoked or deleted with their account

userVars == <<used, live, email, password, admins>>
rowVars == <<text, history>>
vars == <<now, userVars, session, rowVars, request, operator, ended>>

NoUser == 0
NoSession == [user |-> NoUser, expires |-> 0, revoked |-> FALSE]
Sessions == [user : Ids, expires : Nat, revoked : BOOLEAN] \cup {NoSession}

\* hashing  HandleRegister found the address free and hashes the password
\* issuing  the account exists, or the password was right: issueSession is next
\* found    GetUserBySessionTokenHash has selected a valid session
\* slid     ... and has moved its expiry
\* acting   getCurrentUser returned: the handler acts for this user
RequestStates ==
    [pc : {"idle"}]
        \cup [pc : {"hashing"}, email : Emails, password : Passwords]
        \cup [pc : {"issuing"}, user : Ids, password : Passwords]
        \cup [pc : {"found"}, user : Ids, token : Tokens, at : Nat]
        \cup [pc : {"slid"}, user : Ids]
        \cup [pc : {"acting"}, user : Ids, admin : BOOLEAN]

OperatorStates == [pc : {"idle"}] \cup [pc : {"revoking"}, user : Ids]

Idle == [pc |-> "idle"]

TypeOK ==
    /\ now \in Nat
    /\ used \in 0..MaxId
    /\ live \subseteq 1..used
    /\ email \in [Ids -> Emails]
    /\ password \in [Ids -> Passwords]
    /\ admins \subseteq live
    /\ session \in [Tokens -> Sessions]
    /\ text \subseteq Ids /\ history \subseteq Ids
    /\ request \in [Requests -> RequestStates]
    /\ operator \in OperatorStates
    /\ ended \subseteq Tokens

Init ==
    /\ now = 0
    /\ used = 0
    /\ live = {}
    /\ email = [i \in Ids |-> CHOOSE e \in Emails : TRUE]
    /\ password = [i \in Ids |-> CHOOSE p \in Passwords : TRUE]
    /\ admins = {}
    /\ session = [k \in Tokens |-> NoSession]
    /\ text = {} /\ history = {}
    /\ request = [r \in Requests |-> Idle]
    /\ operator = Idle
    /\ ended = {}

-----------------------------------------------------------------------------

Become(r, state) == request' = [request EXCEPT ![r] = state]

Taken(e) == \E i \in live : email[i] = e

\* A session row with another expiry, and one with revoked_at set.
Expiring(s, t) == [user |-> s.user, expires |-> t, revoked |-> s.revoked]
Revoked(s) == [user |-> s.user, expires |-> s.expires, revoked |-> TRUE]

TokensOf(u) == {k \in Tokens : session[k].user = u}

\* Mutant of InsertUser: no UNIQUE constraint behind the handler's own check.
InsertUserUnchecked(e, p) ==
    /\ used < MaxId
    /\ used' = used + 1
    /\ live' = live \cup {used + 1}
    /\ email' = [email EXCEPT ![used + 1] = e]
    /\ password' = [password EXCEPT ![used + 1] = p]
    /\ admins' = IF e \in AdminEmails THEN admins \cup {used + 1} ELSE admins

\* Mutant of InsertUser: INTEGER PRIMARY KEY without AUTOINCREMENT, which
\* hands out the largest id in the table plus one.
InsertUserReusesId(e, p) ==
    LET top == CHOOSE i \in 0..MaxId :
                   i \in live \cup {0} /\ \A j \in live : j <= i IN
    /\ ~Taken(e)
    /\ top < MaxId
    /\ used' = top + 1
    /\ live' = live \cup {top + 1}
    /\ email' = [email EXCEPT ![top + 1] = e]
    /\ password' = [password EXCEPT ![top + 1] = p]
    /\ admins' = IF e \in AdminEmails THEN admins \cup {top + 1} ELSE admins

(* createUser: an INSERT under UNIQUE(email) and AUTOINCREMENT.  The        *)
(* allowlist makes an admin of whoever registers the address.              *)
InsertUser(e, p) ==
    /\ ~Taken(e)
    /\ used < MaxId
    /\ used' = used + 1
    /\ live' = live \cup {used + 1}
    /\ email' = [email EXCEPT ![used + 1] = e]
    /\ password' = [password EXCEPT ![used + 1] = p]
    /\ admins' = IF e \in AdminEmails THEN admins \cup {used + 1} ELSE admins

(* HandleRegister up to HashPassword, which takes a while. *)
RegisterCheck(r, e, p) ==
    /\ request[r].pc = "idle"
    /\ ~Taken(e)
    /\ Become(r, [pc |-> "hashing", email |-> e, password |-> p])
    /\ UNCHANGED <<now, userVars, session, rowVars, operator, ended>>

(* CreateUser; it fails when another request took the address meanwhile. *)
RegisterInsert(r) ==
    /\ request[r].pc = "hashing"
    /\ \/ /\ InsertUser(request[r].email, request[r].password)
          /\ Become(r, [pc |-> "issuing", user |-> used', password |-> request[r].password])
       \/ /\ Taken(request[r].email)
          /\ Become(r, Idle)
          /\ UNCHANGED userVars
    /\ UNCHANGED <<now, session, rowVars, operator, ended>>

(* HandleLogin up to VerifyPassword, on the row that GetUserByEmail read.  *)
LoginCheck(r, u, p) ==
    /\ request[r].pc = "idle"
    /\ u \in live
    /\ password[u] = p
    /\ Become(r, [pc |-> "issuing", user |-> u, password |-> p])
    /\ UNCHANGED <<now, userVars, session, rowVars, operator, ended>>

(* issueSession: a fresh token, for the user as it was read or created. *)
IssueSession(r, k) ==
    /\ request[r].pc = "issuing"
    /\ session[k] = NoSession /\ k \notin ended
    /\ session' = [session EXCEPT ![k] =
           [user |-> request[r].user, expires |-> now + Lifetime, revoked |-> FALSE]]
    /\ Become(r, Idle)
    /\ UNCHANGED <<now, userVars, rowVars, operator, ended>>

-----------------------------------------------------------------------------
(* getCurrentUser, in three statements. *)

Valid(k) ==
    session[k] # NoSession /\ ~session[k].revoked /\ session[k].expires > now

Lookup(r, k) ==
    /\ request[r].pc = "idle"
    /\ Valid(k)
    /\ Become(r, [pc |-> "found", user |-> session[k].user, token |-> k, at |-> now])
    /\ UNCHANGED <<now, userVars, session, rowVars, operator, ended>>

(* The UPDATE that slides the expiry matches on the token alone: it also   *)
(* reaches a session revoked or expired since the SELECT.                  *)
Slide(r) ==
    /\ request[r].pc = "found"
    /\ LET k == request[r].token IN
       session' = IF session[k] = NoSession THEN session
                  ELSE [session EXCEPT ![k] = Expiring(@, request[r].at + Lifetime)]
    /\ Become(r, [pc |-> "slid", user |-> request[r].user])
    /\ UNCHANGED <<now, userVars, rowVars, operator, ended>>

(* GetUserByID; a missing row is a 500. *)
LoadUser(r) ==
    /\ request[r].pc = "slid"
    /\ LET u == request[r].user IN
       Become(r, IF u \in live THEN [pc |-> "acting", user |-> u, admin |-> u \in admins]
                 ELSE Idle)
    /\ UNCHANGED <<now, userVars, session, rowVars, operator, ended>>

-----------------------------------------------------------------------------
(* What signed-in requests do. *)

(* A store call that inserts rows keyed on the caller's id: none of them   *)
(* looks the account up again.  Saving a deck makes two such calls, with   *)
(* the parser before the first.                                            *)
SaveRows(r, more) ==
    /\ request[r].pc = "acting"
    /\ text' = text \cup {request[r].user}
    /\ request' = IF more THEN request ELSE [request EXCEPT ![r] = Idle]
    /\ UNCHANGED <<now, userVars, session, history, operator, ended>>

(* RecordReviewAnswer, which logs the answer; without a card it is a 404. *)
AnswerReview(r) ==
    /\ request[r].pc = "acting"
    /\ history' = IF request[r].user \in text THEN history \cup {request[r].user} ELSE history
    /\ Become(r, Idle)
    /\ UNCHANGED <<now, userVars, session, text, operator, ended>>

(* DELETE /api/me: DeleteUserCascade, one transaction that is rolled back  *)
(* when the users row is gone already.                                     *)
DeleteAccount(r) ==
    /\ request[r].pc = "acting"
    /\ LET u == request[r].user IN
       \/ /\ u \in live
          /\ live' = live \ {u}
          /\ admins' = admins \ {u}
          /\ text' = text \ {u}
          /\ session' = [k \in Tokens |-> IF k \in TokensOf(u) THEN NoSession ELSE session[k]]
          /\ ended' = ended \cup TokensOf(u)
       \/ u \notin live /\ UNCHANGED <<live, admins, text, session, ended>>
    /\ Become(r, Idle)
    /\ UNCHANGED <<now, used, email, password, history, operator>>

(* PATCH /api/admin/users: the caller was an admin when the request was    *)
(* authenticated, and only a change of the caller's own flag is refused.   *)
SetUserAdmin(r, u, isAdmin) ==
    /\ request[r].pc = "acting"
    /\ request[r].admin
    /\ u = request[r].user => isAdmin
    /\ u \in live
    /\ admins' = IF isAdmin THEN admins \cup {u} ELSE admins \ {u}
    /\ Become(r, Idle)
    /\ UNCHANGED <<now, used, live, email, password, session, rowVars, operator, ended>>

(* Every other signed-in request, and refusals: nothing is written. *)
Respond(r) ==
    /\ request[r].pc = "acting"
    /\ Become(r, Idle)
    /\ UNCHANGED <<now, userVars, session, rowVars, operator, ended>>

\* Mutant of Revoke: a session is ended by moving its expiry to the present.
RevokeByExpiry(ks) ==
    /\ session' = [k \in Tokens |->
           IF k \in ks /\ session[k] # NoSession
           THEN Expiring(session[k], now) ELSE session[k]]
    /\ ended' = ended \cup {k \in ks : session[k] # NoSession}

Revoke(ks) ==
    /\ session' = [k \in Tokens |->
           IF k \in ks /\ session[k] # NoSession
           THEN Revoked(session[k]) ELSE session[k]]
    /\ ended' = ended \cup {k \in ks : session[k] # NoSession}

(* HandleLogout revokes the presented token, valid or not. *)
Logout(k) ==
    /\ session[k] # NoSession
    /\ Revoke({k})
    /\ UNCHANGED <<now, userVars, rowVars, request, operator>>

-----------------------------------------------------------------------------
(* cmd/resetpassword: one statement after the other, in its own process.   *)

OperatorSetPassword(u, p) ==
    /\ operator.pc = "idle"
    /\ u \in live
    /\ password' = [password EXCEPT ![u] = p]
    /\ operator' = [pc |-> "revoking", user |-> u]
    /\ UNCHANGED <<now, used, live, email, admins, session, rowVars, request, ended>>

(* With -create the account is pre-registered. *)
OperatorCreate(e, p) ==
    /\ operator.pc = "idle"
    /\ InsertUser(e, p)
    /\ operator' = [pc |-> "revoking", user |-> used']
    /\ UNCHANGED <<now, session, rowVars, request, ended>>

(* With -admin, between the two. *)
OperatorGrant ==
    /\ operator.pc = "revoking"
    /\ admins' = admins \cup ({operator.user} \cap live)
    /\ UNCHANGED <<now, used, live, email, password, session, rowVars, request, operator, ended>>

(* RevokeAllSessionsForUser, unless -keep-sessions. *)
OperatorRevoke(keep) ==
    /\ operator.pc = "revoking"
    /\ IF keep THEN UNCHANGED <<session, ended>> ELSE Revoke(TokensOf(operator.user))
    /\ operator' = Idle
    /\ UNCHANGED <<now, userVars, rowVars, request>>

Tick ==
    /\ now < MaxNow
    /\ now' = now + 1
    /\ UNCHANGED <<userVars, session, rowVars, request, operator, ended>>

RequestStep(r) ==
    \/ \E e \in Emails, p \in Passwords : RegisterCheck(r, e, p)
    \/ RegisterInsert(r)
    \/ \E u \in Ids, p \in Passwords : LoginCheck(r, u, p)
    \/ \E k \in Tokens : IssueSession(r, k) \/ Lookup(r, k)
    \/ Slide(r) \/ LoadUser(r)
    \/ \E more \in BOOLEAN : SaveRows(r, more)
    \/ AnswerReview(r) \/ DeleteAccount(r) \/ Respond(r)
    \/ \E u \in Ids, isAdmin \in BOOLEAN : SetUserAdmin(r, u, isAdmin)

OperatorStep ==
    \/ \E p \in Passwords :
          (\E u \in Ids : OperatorSetPassword(u, p)) \/ (\E e \in Emails : OperatorCreate(e, p))
    \/ OperatorGrant
    \/ \E keep \in KeepSessions : OperatorRevoke(keep)

Next ==
    \/ \E r \in Requests : RequestStep(r)
    \/ \E k \in Tokens : Logout(k)
    \/ OperatorStep
    \/ Tick

Spec == Init /\ [][Next]_vars

-----------------------------------------------------------------------------

\* The accounts a request or the operator holds in memory.
Remembered(state) == IF state.pc \in {"idle", "hashing"} THEN {} ELSE {state.user}

InFlight == (UNION {Remembered(request[r]) : r \in Requests}) \cup Remembered(operator)

(* A session that was logged out, revoked by a reset or deleted with its   *)
(* account never lets a request in again, although the statement that      *)
(* slides the expiry of a session runs after the one that found it valid   *)
(* and matches revoked rows too, and although a login in flight may open   *)
(* sessions for an account deleted meanwhile.                              *)
EndedStaysOut == \A k \in ended : ~Valid(k)

(* Two registrations of one address may both find it free; one account     *)
(* results.  Login and the password reset rely on it: they look the        *)
(* account up by address.                                                  *)
OneAccountPerEmail ==
    \A i, j \in live : email[i] = email[j] => i = j

(* A new account starts empty: nothing that an earlier account left        *)
(* behind, rows written by requests that outlived it included, is ever     *)
(* the property of a later one.                                            *)
NewAccountStartsEmpty ==
    [][\A u \in live' \ live :
           u \notin text \cup history \cup InFlight /\ TokensOf(u) = {}]_vars
=============================================================================
