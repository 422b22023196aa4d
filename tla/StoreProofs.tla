---------------------------- MODULE StoreProofs ----------------------------
(***************************************************************************)
(* What internal/store keeps: accounts, their sessions and settings.       *)
(*                                                                         *)
(* For any number of requests, tokens and accounts: the invariant adds two *)
(* facts to the types: an ended session has no row or a revoked one (a     *)
(* weaker EndedStaysOut would not survive Slide, which moves the expiry of *)
(* any row it finds), and no row, session or request mentions an id that   *)
(* has not been handed out yet.                                            *)
(***************************************************************************)
EXTENDS AccountSettings, FiniteSetTheorems, WellFoundedInduction, TLAPS

-----------------------------------------------------------------------------
(* Accounts, sessions and the operator's reset.                            *)

EndedHasNoWayBack ==
    \A k \in ended : session[k] = NoSession \/ session[k].revoked

\* The account a request or the operator remembers was created earlier.
MentionsHandedOut(state) ==
    state.pc \notin {"idle", "hashing"} => state.user <= used

OnlyHandedOutIds ==
    /\ text \subseteq 1..used
    /\ history \subseteq 1..used
    /\ \A k \in Tokens : session[k].user <= used
    /\ \A r \in Requests : MentionsHandedOut(request[r])
    /\ MentionsHandedOut(operator)

IInv == TypeOK /\ EndedHasNoWayBack /\ OnlyHandedOutIds

USE AccountAssumption

-----------------------------------------------------------------------------

(* No account, session or request exists at first. *)
LEMMA InitInvariant == Init => IInv
<1> SUFFICES ASSUME Init PROVE IInv
    OBVIOUS
<1>1. (CHOOSE e \in Emails : TRUE) \in Emails /\ (CHOOSE p \in Passwords : TRUE) \in Passwords
    OBVIOUS
<1>2. TypeOK
    BY <1>1 DEF Init, TypeOK, Ids, Sessions, NoSession, NoUser, RequestStates, OperatorStates, Idle
<1>3. EndedHasNoWayBack
    BY DEF Init, EndedHasNoWayBack
<1>4. OnlyHandedOutIds
    BY DEF Init, OnlyHandedOutIds, MentionsHandedOut, NoSession, NoUser, Idle
<1> QED
    BY <1>2, <1>3, <1>4 DEF IInv

(* One new account: it takes the next id, and its email was free. *)
LEMMA Inserted ==
    ASSUME TypeOK, NEW e \in Emails, NEW p \in Passwords, InsertUser(e, p)
    PROVE  /\ used' \in 0..MaxId /\ used' = used + 1 /\ used' \in Ids
           /\ live' = live \cup {used + 1} /\ live' \subseteq 1..used'
           /\ email' \in [Ids -> Emails] /\ password' \in [Ids -> Passwords]
           /\ admins' \subseteq live'
    BY DEF InsertUser, TypeOK, Ids

(* A step of a request moves only that request, to a state of its type. *)
LEMMA Moved ==
    ASSUME TypeOK, NEW r \in Requests, NEW state \in RequestStates, Become(r, state)
    PROVE  /\ request' \in [Requests -> RequestStates]
           /\ request'[r] = state
           /\ \A q \in Requests \ {r} : request'[q] = request[q]
    BY DEF TypeOK, Become

-----------------------------------------------------------------------------

(* Registration, whose insert may lose the race for its address. *)
LEMMA RegisterStep ==
    ASSUME IInv, NEW r \in Requests,
           (\E e \in Emails, p \in Passwords : RegisterCheck(r, e, p)) \/ RegisterInsert(r)
    PROVE  IInv'
<1> USE DEF IInv
<1>1. ASSUME NEW e \in Emails, NEW p \in Passwords, RegisterCheck(r, e, p) PROVE IInv'
  <2> DEFINE state == [pc |-> "hashing", email |-> e, password |-> p]
  <2>1. state \in RequestStates
      BY DEF RequestStates
  <2>2. Become(r, state)
      BY <1>1 DEF RegisterCheck
  <2>3. /\ request' \in [Requests -> RequestStates]
        /\ request'[r] = state
        /\ \A q \in Requests \ {r} : request'[q] = request[q]
      BY <2>1, <2>2, Moved
  <2>4. UNCHANGED <<now, used, live, email, password, admins, session, text, history, operator, ended>>
      BY <1>1 DEF RegisterCheck, userVars, rowVars
  <2>5. TypeOK'
      BY <2>3, <2>4 DEF TypeOK
  <2>6. EndedHasNoWayBack'
      BY <2>4 DEF EndedHasNoWayBack
  <2>7. OnlyHandedOutIds'
      BY <2>3, <2>4 DEF OnlyHandedOutIds, MentionsHandedOut
  <2> QED
      BY <2>5, <2>6, <2>7
<1>2. ASSUME RegisterInsert(r), Taken(request[r].email), UNCHANGED userVars, Become(r, Idle)
      PROVE  IInv'
  <2>1. Idle \in RequestStates
      BY DEF Idle, RequestStates
  <2>2. /\ request' \in [Requests -> RequestStates]
        /\ request'[r] = Idle
        /\ \A q \in Requests \ {r} : request'[q] = request[q]
      BY <1>2, <2>1, Moved
  <2>3. UNCHANGED <<now, used, live, email, password, admins, session, text, history, operator, ended>>
      BY <1>2 DEF RegisterInsert, userVars, rowVars
  <2>4. TypeOK'
      BY <2>2, <2>3 DEF TypeOK
  <2>5. EndedHasNoWayBack'
      BY <2>3 DEF EndedHasNoWayBack
  <2>6. OnlyHandedOutIds'
      BY <2>2, <2>3 DEF OnlyHandedOutIds, MentionsHandedOut, Idle
  <2> QED
      BY <2>4, <2>5, <2>6
<1>3. ASSUME RegisterInsert(r), InsertUser(request[r].email, request[r].password),
             Become(r, [pc |-> "issuing", user |-> used', password |-> request[r].password])
      PROVE  IInv'
  <2> DEFINE state == [pc |-> "issuing", user |-> used', password |-> request[r].password]
  <2>1. request[r].email \in Emails /\ request[r].password \in Passwords
      BY <1>3 DEF RegisterInsert, TypeOK, RequestStates
  <2>2. /\ used' \in 0..MaxId /\ used' = used + 1 /\ used' \in Ids
        /\ live' \subseteq 1..used'
        /\ email' \in [Ids -> Emails] /\ password' \in [Ids -> Passwords]
        /\ admins' \subseteq live'
      BY <1>3, <2>1, Inserted
  <2>3. state \in RequestStates
      BY <2>1, <2>2 DEF RequestStates
  <2>4. /\ request' \in [Requests -> RequestStates]
        /\ request'[r] = state
        /\ \A q \in Requests \ {r} : request'[q] = request[q]
      BY <1>3, <2>3, Moved
  <2>5. UNCHANGED <<now, session, text, history, operator, ended>>
      BY <1>3 DEF RegisterInsert, rowVars
  <2>6. TypeOK'
      BY <2>2, <2>4, <2>5 DEF TypeOK
  <2>7. EndedHasNoWayBack'
      BY <2>5 DEF EndedHasNoWayBack
  <2>8. used \in Int /\ used <= used'
      BY <2>2 DEF TypeOK
  <2>9. \A q \in Requests \ {r} : MentionsHandedOut(request[q])'
    <3> SUFFICES ASSUME NEW q \in Requests \ {r}, request[q].pc \notin {"idle", "hashing"}
                 PROVE  request[q].user <= used'
        BY <2>4 DEF MentionsHandedOut
    <3>1. request[q].user \in Ids /\ request[q].user <= used
        BY DEF TypeOK, RequestStates, OnlyHandedOutIds, MentionsHandedOut
    <3> QED
        BY <2>8, <2>2, <3>1 DEF Ids
  <2>10. MentionsHandedOut(request[r])'
      BY <2>4, <2>2 DEF MentionsHandedOut, Ids
  <2>11. MentionsHandedOut(operator)'
      BY <2>5, <2>2, <2>8 DEF MentionsHandedOut, OnlyHandedOutIds, TypeOK, OperatorStates, Ids
  <2>12. \A k \in Tokens : session'[k].user <= used'
      BY <2>5, <2>2, <2>8 DEF OnlyHandedOutIds, TypeOK, Sessions, NoSession, NoUser, Ids
  <2>13. text' \subseteq 1..used' /\ history' \subseteq 1..used'
      BY <2>5, <2>2, <2>8 DEF OnlyHandedOutIds, TypeOK
  <2>14. OnlyHandedOutIds'
      BY <2>9, <2>10, <2>11, <2>12, <2>13 DEF OnlyHandedOutIds
  <2> QED
      BY <2>6, <2>7, <2>14
<1> QED
    BY <1>1, <1>2, <1>3 DEF RegisterInsert

-----------------------------------------------------------------------------

(* A step of a request that hands out no id keeps what the invariant says  *)
(* of requests, provided the new state mentions only ids handed out.       *)
LEMMA MovedSafely ==
    ASSUME IInv, NEW r \in Requests, NEW state \in RequestStates, Become(r, state),
           state.pc \notin {"idle", "hashing"} => state.user <= used,
           UNCHANGED used
    PROVE  /\ request' \in [Requests -> RequestStates]
           /\ \A q \in Requests : MentionsHandedOut(request[q])'
<1>1. /\ request' \in [Requests -> RequestStates]
      /\ request'[r] = state
      /\ \A q \in Requests \ {r} : request'[q] = request[q]
    BY Moved DEF IInv
<1> QED
    BY <1>1 DEF IInv, OnlyHandedOutIds, MentionsHandedOut

(* A password found right. *)
LEMMA LoginStep ==
    ASSUME IInv, NEW r \in Requests, NEW u \in Ids, NEW p \in Passwords, LoginCheck(r, u, p)
    PROVE  IInv'
<1> USE DEF IInv
<1> DEFINE state == [pc |-> "issuing", user |-> u, password |-> p]
<1>1. state \in RequestStates
    BY DEF RequestStates
<1>2. u <= used
    BY DEF LoginCheck, TypeOK
<1>3. UNCHANGED <<now, used, live, email, password, admins, session, text, history, operator, ended>>
    BY DEF LoginCheck, userVars, rowVars
<1>4. /\ request' \in [Requests -> RequestStates]
      /\ \A q \in Requests : MentionsHandedOut(request[q])'
    BY <1>1, <1>2, <1>3, MovedSafely DEF LoginCheck
<1>5. TypeOK'
    BY <1>3, <1>4 DEF TypeOK
<1>6. EndedHasNoWayBack'
    BY <1>3 DEF EndedHasNoWayBack
<1>7. OnlyHandedOutIds'
    BY <1>3, <1>4 DEF OnlyHandedOutIds, MentionsHandedOut
<1> QED
    BY <1>5, <1>6, <1>7

(* A session opened, and a session found valid. *)
LEMMA SessionStep ==
    ASSUME IInv, NEW r \in Requests, NEW k \in Tokens, IssueSession(r, k) \/ Lookup(r, k)
    PROVE  IInv'
<1> USE DEF IInv
<1>1. ASSUME IssueSession(r, k) PROVE IInv'
  <2>1. Idle \in RequestStates /\ Idle.pc = "idle"
      BY DEF Idle, RequestStates
  <2>2. UNCHANGED <<now, used, live, email, password, admins, text, history, operator, ended>>
      BY <1>1 DEF IssueSession, userVars, rowVars
  <2>3. /\ request' \in [Requests -> RequestStates]
        /\ \A q \in Requests : MentionsHandedOut(request[q])'
      BY <1>1, <2>1, <2>2, MovedSafely DEF IssueSession
  <2>4. request[r].user \in Ids /\ request[r].user <= used
      BY <1>1 DEF IssueSession, TypeOK, RequestStates, OnlyHandedOutIds, MentionsHandedOut
  <2>5. now + Lifetime \in Nat
      BY DEF TypeOK
  <2>6. session' = [session EXCEPT ![k] =
            [user |-> request[r].user, expires |-> now + Lifetime, revoked |-> FALSE]]
      BY <1>1 DEF IssueSession
  <2>7. session' \in [Tokens -> Sessions]
      BY <2>4, <2>5, <2>6 DEF TypeOK, Sessions
  <2>8. TypeOK'
      BY <2>2, <2>3, <2>7 DEF TypeOK
  <2>9. EndedHasNoWayBack'
      BY <1>1, <2>2, <2>6 DEF IssueSession, EndedHasNoWayBack, TypeOK
  <2>10. \A j \in Tokens : session'[j].user <= used'
      BY <2>2, <2>4, <2>6 DEF TypeOK, OnlyHandedOutIds
  <2>11. OnlyHandedOutIds'
      BY <2>2, <2>3, <2>10 DEF OnlyHandedOutIds, MentionsHandedOut
  <2> QED
      BY <2>8, <2>9, <2>11
<1>2. ASSUME Lookup(r, k) PROVE IInv'
  <2> DEFINE state == [pc |-> "found", user |-> session[k].user, token |-> k, at |-> now]
  <2>1. session[k].user \in Ids /\ session[k].user <= used
      BY <1>2 DEF Lookup, Valid, TypeOK, Sessions, OnlyHandedOutIds
  <2>2. state \in RequestStates
      BY <2>1 DEF RequestStates, TypeOK
  <2>3. UNCHANGED <<now, used, live, email, password, admins, session, text, history, operator, ended>>
      BY <1>2 DEF Lookup, userVars, rowVars
  <2>4. /\ request' \in [Requests -> RequestStates]
        /\ \A q \in Requests : MentionsHandedOut(request[q])'
      BY <1>2, <2>1, <2>2, <2>3, MovedSafely DEF Lookup
  <2>5. TypeOK'
      BY <2>3, <2>4 DEF TypeOK
  <2>6. EndedHasNoWayBack'
      BY <2>3 DEF EndedHasNoWayBack
  <2>7. OnlyHandedOutIds'
      BY <2>3, <2>4 DEF OnlyHandedOutIds, MentionsHandedOut
  <2> QED
      BY <2>5, <2>6, <2>7
<1> QED
    BY <1>1, <1>2

(* The rest of getCurrentUser: the expiry moves, the revocation does not. *)
LEMMA GetCurrentUserStep ==
    ASSUME IInv, NEW r \in Requests, Slide(r) \/ LoadUser(r)
    PROVE  IInv'
<1> USE DEF IInv
<1>1. ASSUME Slide(r) PROVE IInv'
  <2> DEFINE state == [pc |-> "slid", user |-> request[r].user]
             token == request[r].token
  <2>1. /\ request[r].user \in Ids /\ request[r].user <= used
        /\ token \in Tokens
        /\ request[r].at + Lifetime \in Nat
      BY <1>1 DEF Slide, TypeOK, RequestStates, OnlyHandedOutIds, MentionsHandedOut
  <2>2. state \in RequestStates
      BY <2>1 DEF RequestStates
  <2>3. UNCHANGED <<now, used, live, email, password, admins, text, history, operator, ended>>
      BY <1>1 DEF Slide, userVars, rowVars
  <2>4. /\ request' \in [Requests -> RequestStates]
        /\ \A q \in Requests : MentionsHandedOut(request[q])'
      BY <1>1, <2>1, <2>2, <2>3, MovedSafely DEF Slide
  <2>5. \/ UNCHANGED session
        \/ /\ session[token] # NoSession
           /\ session' = [session EXCEPT ![token] = Expiring(session[token], request[r].at + Lifetime)]
      BY <1>1 DEF Slide
  <2>6. session' \in [Tokens -> Sessions]
      BY <2>1, <2>5 DEF TypeOK, Sessions, Expiring
  <2>7. \A k \in Tokens : /\ session'[k].user = session[k].user
                          /\ session'[k].revoked = session[k].revoked
                          /\ session[k] = NoSession => session'[k] = NoSession
      BY <2>5 DEF TypeOK, Expiring
  <2>8. TypeOK'
      BY <2>3, <2>4, <2>6 DEF TypeOK
  <2>9. EndedHasNoWayBack'
      BY <2>3, <2>7 DEF EndedHasNoWayBack, TypeOK
  <2>10. OnlyHandedOutIds'
      BY <2>3, <2>4, <2>7 DEF OnlyHandedOutIds, MentionsHandedOut
  <2> QED
      BY <2>8, <2>9, <2>10
<1>2. ASSUME LoadUser(r) PROVE IInv'
  <2> DEFINE u == request[r].user
             state == IF u \in live THEN [pc |-> "acting", user |-> u, admin |-> u \in admins]
                      ELSE Idle
  <2>1. u \in Ids /\ u <= used
      BY <1>2 DEF LoadUser, TypeOK, RequestStates, OnlyHandedOutIds, MentionsHandedOut
  <2>2. state \in RequestStates
      BY <2>1 DEF RequestStates, Idle
  <2>3. UNCHANGED <<now, used, live, email, password, admins, session, text, history, operator, ended>>
      BY <1>2 DEF LoadUser, userVars, rowVars
  <2>4. state.pc \notin {"idle", "hashing"} => state.user <= used
      BY <2>1 DEF Idle
  <2>5. /\ request' \in [Requests -> RequestStates]
        /\ \A q \in Requests : MentionsHandedOut(request[q])'
      BY <1>2, <2>2, <2>3, <2>4, MovedSafely DEF LoadUser
  <2>6. TypeOK'
      BY <2>3, <2>5 DEF TypeOK
  <2>7. EndedHasNoWayBack'
      BY <2>3 DEF EndedHasNoWayBack
  <2>8. OnlyHandedOutIds'
      BY <2>3, <2>5 DEF OnlyHandedOutIds, MentionsHandedOut
  <2> QED
      BY <2>6, <2>7, <2>8
<1> QED
    BY <1>1, <1>2

-----------------------------------------------------------------------------

(* Handlers that insert rows for their caller, or nothing. *)
LEMMA RowsStep ==
    ASSUME IInv, NEW r \in Requests,
           (\E more \in BOOLEAN : SaveRows(r, more)) \/ AnswerReview(r) \/ Respond(r)
    PROVE  IInv'
<1> USE DEF IInv
<1>1. request[r].user \in Ids /\ request[r].user <= used
    BY DEF SaveRows, AnswerReview, Respond, TypeOK, RequestStates,
           OnlyHandedOutIds, MentionsHandedOut
<1>2. UNCHANGED <<now, used, live, email, password, admins, session, operator, ended>>
    BY DEF SaveRows, AnswerReview, Respond, userVars, rowVars
<1>3. /\ text' \subseteq text \cup {request[r].user}
      /\ history' \subseteq history \cup {request[r].user}
    BY DEF SaveRows, AnswerReview, Respond, rowVars
<1>4. UNCHANGED request \/ Become(r, Idle)
    BY DEF SaveRows, AnswerReview, Respond, Become
<1>5. Idle \in RequestStates /\ Idle.pc = "idle"
    BY DEF Idle, RequestStates
<1>6. /\ request' \in [Requests -> RequestStates]
      /\ \A q \in Requests : MentionsHandedOut(request[q])'
  <2>1. CASE UNCHANGED request
      BY <2>1, <1>2 DEF TypeOK, OnlyHandedOutIds, MentionsHandedOut
  <2>2. CASE Become(r, Idle)
      BY <2>2, <1>2, <1>5, MovedSafely
  <2> QED
      BY <1>4, <2>1, <2>2
<1>7. TypeOK'
    BY <1>1, <1>2, <1>3, <1>6 DEF TypeOK
<1>8. EndedHasNoWayBack'
    BY <1>2 DEF EndedHasNoWayBack
<1>9. text' \subseteq 1..used /\ history' \subseteq 1..used
    BY <1>1, <1>3 DEF OnlyHandedOutIds, TypeOK, Ids
<1>10. OnlyHandedOutIds'
    BY <1>2, <1>6, <1>9 DEF OnlyHandedOutIds, MentionsHandedOut
<1> QED
    BY <1>7, <1>8, <1>10

(* Deletion ends the sessions it removes. *)
LEMMA DeleteStep ==
    ASSUME IInv, NEW r \in Requests, DeleteAccount(r)
    PROVE  IInv'
<1> USE DEF IInv
<1> DEFINE u == request[r].user
<1>1. UNCHANGED <<now, used, email, password, history, operator>> /\ Become(r, Idle)
    BY DEF DeleteAccount
<1>2. Idle \in RequestStates /\ Idle.pc = "idle"
    BY DEF Idle, RequestStates
<1>3. /\ request' \in [Requests -> RequestStates]
      /\ \A q \in Requests : MentionsHandedOut(request[q])'
    BY <1>1, <1>2, MovedSafely
<1>4. CASE UNCHANGED <<live, admins, text, session, ended>>
  <2>1. TypeOK'
      BY <1>1, <1>3, <1>4 DEF TypeOK
  <2>2. EndedHasNoWayBack'
      BY <1>4 DEF EndedHasNoWayBack
  <2>3. OnlyHandedOutIds'
      BY <1>1, <1>3, <1>4 DEF OnlyHandedOutIds, MentionsHandedOut
  <2> QED
      BY <2>1, <2>2, <2>3
<1>5. CASE /\ live' = live \ {u}
           /\ admins' = admins \ {u}
           /\ text' = text \ {u}
           /\ session' = [k \in Tokens |-> IF k \in TokensOf(u) THEN NoSession ELSE session[k]]
           /\ ended' = ended \cup TokensOf(u)
  <2>1. session' \in [Tokens -> Sessions]
      BY <1>5 DEF TypeOK, Sessions
  <2>2. TypeOK'
      BY <1>1, <1>3, <1>5, <2>1 DEF TypeOK, TokensOf
  <2>3. EndedHasNoWayBack'
      BY <1>5 DEF EndedHasNoWayBack, TypeOK, TokensOf
  <2>4. \A k \in Tokens : session'[k].user <= used
      BY <1>5 DEF OnlyHandedOutIds, NoSession, NoUser, TypeOK
  <2>5. OnlyHandedOutIds'
      BY <1>1, <1>3, <1>5, <2>4 DEF OnlyHandedOutIds, MentionsHandedOut
  <2> QED
      BY <2>2, <2>3, <2>5
<1> QED
    BY <1>4, <1>5 DEF DeleteAccount

(* A grant needs a live account. *)
LEMMA AdminStep ==
    ASSUME IInv, NEW r \in Requests, NEW v \in Ids, NEW isAdmin \in BOOLEAN,
           SetUserAdmin(r, v, isAdmin)
    PROVE  IInv'
<1> USE DEF IInv
<1>1. UNCHANGED <<now, used, live, email, password, session, text, history, operator, ended>>
    BY DEF SetUserAdmin, rowVars
<1>2. Idle \in RequestStates /\ Idle.pc = "idle"
    BY DEF Idle, RequestStates
<1>3. /\ request' \in [Requests -> RequestStates]
      /\ \A q \in Requests : MentionsHandedOut(request[q])'
    BY <1>1, <1>2, MovedSafely DEF SetUserAdmin
<1>4. admins' \subseteq live'
    BY <1>1 DEF SetUserAdmin, TypeOK
<1>5. TypeOK'
    BY <1>1, <1>3, <1>4 DEF TypeOK
<1>6. EndedHasNoWayBack'
    BY <1>1 DEF EndedHasNoWayBack
<1>7. OnlyHandedOutIds'
    BY <1>1, <1>3 DEF OnlyHandedOutIds, MentionsHandedOut
<1> QED
    BY <1>5, <1>6, <1>7

-----------------------------------------------------------------------------

(* Revoking keeps the invariant's facts about sessions. *)
LEMMA Revoking ==
    ASSUME IInv, NEW ks \in SUBSET Tokens, Revoke(ks)
    PROVE  /\ session' \in [Tokens -> Sessions]
           /\ ended' \subseteq Tokens
           /\ EndedHasNoWayBack'
           /\ \A k \in Tokens : session'[k].user = session[k].user
<1> USE DEF IInv
<1>1. /\ session' = [k \in Tokens |-> IF k \in ks /\ session[k] # NoSession
                                     THEN Revoked(session[k]) ELSE session[k]]
      /\ ended' = ended \cup {k \in ks : session[k] # NoSession}
    BY DEF Revoke
<1>2. \A k \in Tokens :
          session[k] # NoSession =>
              session[k] \in [user : Ids, expires : Nat, revoked : BOOLEAN]
    BY DEF TypeOK, Sessions
<1>3. session' \in [Tokens -> Sessions]
    BY <1>1, <1>2 DEF TypeOK, Sessions, Revoked
<1>4. EndedHasNoWayBack'
    BY <1>1 DEF EndedHasNoWayBack, TypeOK, Revoked
<1>5. \A k \in Tokens : session'[k].user = session[k].user
    BY <1>1 DEF Revoked
<1> QED
    BY <1>1, <1>3, <1>4, <1>5 DEF TypeOK

(* Logout revokes one session. *)
LEMMA LogoutStep ==
    ASSUME IInv, NEW k \in Tokens, Logout(k)
    PROVE  IInv'
<1>1. UNCHANGED <<now, used, live, email, password, admins, text, history, request, operator>>
    BY DEF Logout, userVars, rowVars
<1>2. /\ session' \in [Tokens -> Sessions]
      /\ ended' \subseteq Tokens
      /\ EndedHasNoWayBack'
      /\ \A j \in Tokens : session'[j].user = session[j].user
    BY Revoking DEF Logout
<1>3. TypeOK'
    BY <1>1, <1>2 DEF TypeOK, IInv
<1>4. OnlyHandedOutIds'
    BY <1>1, <1>2 DEF OnlyHandedOutIds, MentionsHandedOut, IInv
<1> QED
    BY <1>2, <1>3, <1>4 DEF IInv

(* The operator's statements, each on its own. *)
LEMMA OperatorKeeps ==
    ASSUME IInv, OperatorStep
    PROVE  IInv'
<1> USE DEF IInv
<1>1. ASSUME NEW u \in Ids, NEW p \in Passwords, OperatorSetPassword(u, p) PROVE IInv'
  <2>1. UNCHANGED <<now, used, live, email, admins, session, text, history, request, ended>>
      BY <1>1 DEF OperatorSetPassword, rowVars
  <2>2. /\ operator' = [pc |-> "revoking", user |-> u] /\ u \in live
        /\ password' = [password EXCEPT ![u] = p]
      BY <1>1 DEF OperatorSetPassword
  <2>3. TypeOK'
      BY <2>1, <2>2 DEF TypeOK, OperatorStates
  <2>4. EndedHasNoWayBack'
      BY <2>1 DEF EndedHasNoWayBack
  <2>5. OnlyHandedOutIds'
      BY <2>1, <2>2 DEF OnlyHandedOutIds, MentionsHandedOut, TypeOK
  <2> QED
      BY <2>3, <2>4, <2>5
<1>2. ASSUME NEW e \in Emails, NEW p \in Passwords, OperatorCreate(e, p) PROVE IInv'
  <2>1. UNCHANGED <<now, session, text, history, request, ended>>
      BY <1>2 DEF OperatorCreate, rowVars
  <2>2. /\ used' \in 0..MaxId /\ used' = used + 1 /\ used' \in Ids
        /\ live' \subseteq 1..used'
        /\ email' \in [Ids -> Emails] /\ password' \in [Ids -> Passwords]
        /\ admins' \subseteq live'
      BY <1>2, Inserted DEF OperatorCreate
  <2>3. operator' = [pc |-> "revoking", user |-> used']
      BY <1>2 DEF OperatorCreate
  <2>4. TypeOK'
      BY <2>1, <2>2, <2>3 DEF TypeOK, OperatorStates
  <2>5. EndedHasNoWayBack'
      BY <2>1 DEF EndedHasNoWayBack
  <2>6. used \in Int
      BY DEF TypeOK
  <2>7. \A q \in Requests : MentionsHandedOut(request[q])'
    <3> SUFFICES ASSUME NEW q \in Requests, request[q].pc \notin {"idle", "hashing"}
                 PROVE  request[q].user <= used'
        BY <2>1 DEF MentionsHandedOut
    <3>1. request[q].user \in Ids /\ request[q].user <= used
        BY DEF TypeOK, RequestStates, OnlyHandedOutIds, MentionsHandedOut
    <3> QED
        BY <2>2, <2>6, <3>1 DEF Ids
  <2>8. \A k \in Tokens : session'[k].user <= used'
      BY <2>1, <2>2, <2>6 DEF OnlyHandedOutIds, TypeOK, Sessions, NoSession, NoUser, Ids
  <2>9. text' \subseteq 1..used' /\ history' \subseteq 1..used'
      BY <2>1, <2>2, <2>6 DEF OnlyHandedOutIds, TypeOK
  <2>10. MentionsHandedOut(operator)'
      BY <2>2, <2>3 DEF MentionsHandedOut, Ids
  <2>11. OnlyHandedOutIds'
      BY <2>7, <2>8, <2>9, <2>10 DEF OnlyHandedOutIds
  <2> QED
      BY <2>4, <2>5, <2>11
<1>3. ASSUME OperatorGrant PROVE IInv'
  <2>1. UNCHANGED <<now, used, live, email, password, session, text, history, request, operator, ended>>
      BY <1>3 DEF OperatorGrant, rowVars
  <2>2. admins' \subseteq live'
      BY <1>3, <2>1 DEF OperatorGrant, TypeOK
  <2>3. TypeOK'
      BY <2>1, <2>2 DEF TypeOK
  <2>4. EndedHasNoWayBack'
      BY <2>1 DEF EndedHasNoWayBack
  <2>5. OnlyHandedOutIds'
      BY <2>1 DEF OnlyHandedOutIds, MentionsHandedOut
  <2> QED
      BY <2>3, <2>4, <2>5
<1>4. ASSUME NEW keep \in KeepSessions, OperatorRevoke(keep) PROVE IInv'
  <2>1. UNCHANGED <<now, used, live, email, password, admins, text, history, request>>
        /\ operator' = Idle
      BY <1>4 DEF OperatorRevoke, userVars, rowVars
  <2>2. UNCHANGED <<session, ended>> \/ Revoke(TokensOf(operator.user))
      BY <1>4 DEF OperatorRevoke
  <2>3. TokensOf(operator.user) \in SUBSET Tokens
      BY DEF TokensOf
  <2>4. /\ session' \in [Tokens -> Sessions]
        /\ ended' \subseteq Tokens
        /\ EndedHasNoWayBack'
        /\ \A k \in Tokens : session'[k].user = session[k].user
    <3>1. CASE UNCHANGED <<session, ended>>
        BY <3>1 DEF TypeOK, EndedHasNoWayBack
    <3>2. CASE Revoke(TokensOf(operator.user))
        BY <3>2, <2>3, Revoking
    <3> QED
        BY <2>2, <3>1, <3>2
  <2>5. TypeOK'
      BY <2>1, <2>4 DEF TypeOK, OperatorStates, Idle
  <2>6. OnlyHandedOutIds'
      BY <2>1, <2>4 DEF OnlyHandedOutIds, MentionsHandedOut, Idle
  <2> QED
      BY <2>4, <2>5, <2>6
<1> QED
    BY <1>1, <1>2, <1>3, <1>4 DEF OperatorStep

(* Every step keeps the invariant. *)
LEMMA NextInvariant == IInv /\ [Next]_vars => IInv'
<1> SUFFICES ASSUME IInv, [Next]_vars PROVE IInv'
    OBVIOUS
<1>1. CASE UNCHANGED vars
    BY <1>1 DEF IInv, TypeOK, EndedHasNoWayBack, OnlyHandedOutIds, MentionsHandedOut,
                vars, userVars, rowVars
<1>2. CASE Tick
  <2>1. UNCHANGED <<used, live, email, password, admins, session, text, history,
                    request, operator, ended>> /\ now' = now + 1
      BY <1>2 DEF Tick, userVars, rowVars
  <2> QED
      BY <2>1 DEF IInv, TypeOK, EndedHasNoWayBack, OnlyHandedOutIds, MentionsHandedOut
<1>3. ASSUME NEW r \in Requests, RequestStep(r) PROVE IInv'
    BY <1>3, RegisterStep, LoginStep, SessionStep, GetCurrentUserStep, RowsStep,
       DeleteStep, AdminStep DEF RequestStep
<1> QED
    BY <1>1, <1>2, <1>3, LogoutStep, OperatorKeeps DEF Next

(* Types, and both other parts of the invariant, hold in every reachable   *)
(* state.                                                                  *)
THEOREM Invariant == Spec => []IInv
  BY InitInvariant, NextInvariant, PTL DEF Spec

-----------------------------------------------------------------------------

(* TypeOK of any number of accounts, sessions and requests: in particular  *)
(* no admin flag survives its account.                                     *)
THEOREM TypeCorrect == Spec => []TypeOK
<1>1. IInv => TypeOK
    BY DEF IInv
<1> QED
    BY <1>1, Invariant, PTL

(* A session ended by logout, reset or deletion never lets a request in    *)
(* again, however its expiry is slid by requests already past their check. *)
THEOREM SessionsStayEnded == Spec => []EndedStaysOut
<1>1. IInv => EndedStaysOut
    BY DEF IInv, EndedHasNoWayBack, EndedStaysOut, Valid
<1> QED
    BY <1>1, Invariant, PTL

(* Only an insert adds an account or changes an address. *)
LEMMA EmailsStayUnique ==
    ASSUME TypeOK, OneAccountPerEmail, [Next]_vars
    PROVE  OneAccountPerEmail'
<1>1. ASSUME NEW e \in Emails, NEW p \in Passwords, InsertUser(e, p) PROVE OneAccountPerEmail'
  <2>1. /\ live' = live \cup {used + 1} /\ used + 1 \notin live /\ used + 1 \in Ids
        /\ email' = [email EXCEPT ![used + 1] = e]
        /\ \A i \in live : email[i] # e
      BY <1>1 DEF InsertUser, Taken, TypeOK, Ids
  <2>2. live \subseteq Ids
      BY DEF TypeOK, Ids
  <2> QED
      BY <2>1, <2>2 DEF OneAccountPerEmail, TypeOK
<1>2. ASSUME live' \subseteq live, email' = email PROVE OneAccountPerEmail'
    BY <1>2 DEF OneAccountPerEmail
<1>3. ASSUME NEW r \in Requests, RegisterInsert(r) PROVE OneAccountPerEmail'
  <2>1. request[r].email \in Emails /\ request[r].password \in Passwords
      BY <1>3 DEF RegisterInsert, TypeOK, RequestStates
  <2> QED
      BY <1>1, <1>2, <1>3, <2>1 DEF RegisterInsert, userVars
<1>4. ASSUME NEW r \in Requests, RequestStep(r), ~RegisterInsert(r) PROVE OneAccountPerEmail'
  <2>1. live' \subseteq live /\ email' = email
      BY <1>4 DEF RequestStep, RegisterCheck, LoginCheck, IssueSession, Lookup, Slide, LoadUser,
             SaveRows, AnswerReview, DeleteAccount, SetUserAdmin, Respond, userVars
  <2> QED
      BY <1>2, <2>1
<1>5. ASSUME NEW k \in Tokens, Logout(k) PROVE OneAccountPerEmail'
    BY <1>2, <1>5 DEF Logout, userVars
<1>6. ASSUME OperatorStep PROVE OneAccountPerEmail'
  <2>1. ASSUME NEW e \in Emails, NEW p \in Passwords, OperatorCreate(e, p)
        PROVE  OneAccountPerEmail'
      BY <1>1, <2>1 DEF OperatorCreate
  <2>2. ASSUME NEW u \in Ids, NEW p \in Passwords, OperatorSetPassword(u, p)
        PROVE  OneAccountPerEmail'
      BY <1>2, <2>2 DEF OperatorSetPassword
  <2>3. ASSUME OperatorGrant PROVE OneAccountPerEmail'
      BY <1>2, <2>3 DEF OperatorGrant
  <2>4. ASSUME NEW keep \in KeepSessions, OperatorRevoke(keep) PROVE OneAccountPerEmail'
      BY <1>2, <2>4 DEF OperatorRevoke, userVars
  <2> QED
      BY <1>6, <2>1, <2>2, <2>3, <2>4 DEF OperatorStep
<1>7. CASE Tick \/ UNCHANGED vars
    BY <1>2, <1>7 DEF Tick, vars, userVars
<1> QED
    BY <1>3, <1>4, <1>5, <1>6, <1>7 DEF Next

(* One address never has two accounts, however registrations, deletions    *)
(* and the operator's pre-registration interleave.                         *)
THEOREM EmailsUnique == Spec => []OneAccountPerEmail
<1>1. Init => OneAccountPerEmail
    BY DEF Init, OneAccountPerEmail
<1>2. TypeOK /\ OneAccountPerEmail /\ [Next]_vars => OneAccountPerEmail'
    BY EmailsStayUnique
<1> QED
    BY <1>1, <1>2, TypeCorrect, PTL DEF Spec

-----------------------------------------------------------------------------

(* An account appears only under the id after the last one handed out. *)
LEMMA OnlyNextIdAppears ==
    ASSUME TypeOK, [Next]_vars
    PROVE  live' \subseteq live \cup {used + 1}
<1>1. ASSUME NEW r \in Requests, RequestStep(r) PROVE live' \subseteq live \cup {used + 1}
    BY <1>1 DEF RequestStep, RegisterCheck, RegisterInsert, InsertUser, LoginCheck, IssueSession,
           Lookup, Slide, LoadUser, SaveRows, AnswerReview, DeleteAccount, SetUserAdmin,
           Respond, userVars
<1>2. ASSUME OperatorStep PROVE live' \subseteq live \cup {used + 1}
    BY <1>2 DEF OperatorStep, OperatorSetPassword, OperatorCreate, InsertUser, OperatorGrant,
           OperatorRevoke, userVars
<1> QED
    BY <1>1, <1>2 DEF Next, Logout, Tick, vars, userVars

(* Nothing refers to that id yet. *)
LEMMA NextIdIsUnused ==
    ASSUME IInv
    PROVE  used + 1 \notin text \cup history \cup InFlight /\ TokensOf(used + 1) = {}
<1>1. used \in Nat
    BY DEF IInv, TypeOK
<1>2. used + 1 \notin text \cup history
    BY <1>1 DEF IInv, OnlyHandedOutIds
<1>3. TokensOf(used + 1) = {}
    BY <1>1 DEF IInv, OnlyHandedOutIds, TokensOf
<1>4. \A r \in Requests : used + 1 \notin Remembered(request[r])
    BY <1>1 DEF IInv, OnlyHandedOutIds, MentionsHandedOut, Remembered
<1>5. used + 1 \notin Remembered(operator)
    BY <1>1 DEF IInv, OnlyHandedOutIds, MentionsHandedOut, Remembered
<1> QED
    BY <1>2, <1>3, <1>4, <1>5 DEF InFlight

(* A new account starts empty: an id is never handed out twice, so rows    *)
(* written by requests that outlived their account stay orphans and never  *)
(* become somebody else's.                                                 *)
THEOREM NewAccountsEmpty == Spec => NewAccountStartsEmpty
<1> DEFINE Fresh == \A u \in live' \ live :
                        u \notin text \cup history \cup InFlight /\ TokensOf(u) = {}
<1>1. IInv /\ [Next]_vars => [Fresh]_vars
    BY OnlyNextIdAppears, NextIdIsUnused DEF IInv
<1> QED
    BY <1>1, Invariant, PTL DEF Spec, NewAccountStartsEmpty

-----------------------------------------------------------------------------

(* With the language settings beside them the accounts behave as before:   *)
(* a request that patches settings is one that answers without effect.     *)
THEOREM SettingsRefineAccounts == SettingsSpec => Spec
<1>1. SettingsInit => Init
    BY DEF SettingsInit
<1>2. [SettingsNext]_settingsVars => [Next]_vars
  <2> SUFFICES ASSUME [SettingsNext]_settingsVars PROVE [Next]_vars
      OBVIOUS
  <2>1. CASE AccountStep
      BY <2>1 DEF AccountStep
  <2>2. ASSUME NEW r \in Requests, NEW list, NEW lang, ReadLanguages(r, list, lang)
        PROVE UNCHANGED vars
      BY <2>2 DEF ReadLanguages
  <2>3. ASSUME NEW r \in Requests, WriteLanguages(r) PROVE Next
    <3>1. RequestStep(r)
        BY <2>3 DEF WriteLanguages, RequestStep
    <3> QED
        BY <3>1 DEF Next
  <2>4. CASE UNCHANGED settingsVars
      BY <2>4 DEF settingsVars
  <2> QED
      BY <2>1, <2>2, <2>3, <2>4 DEF SettingsNext
<1> QED
    BY <1>1, <1>2, PTL DEF SettingsSpec, Spec

-----------------------------------------------------------------------------
(* The lists of the language settings.  What the loops of UserLanguages     *)
(* and UpdateUserLanguages leave is shown by induction over positions; the *)
(* library's induction theorems take a predicate, which the provers cannot *)
(* instantiate, so InductionOnSet takes a set.                             *)

(* A set of naturals has a least element. *)
LEMMA LeastOf ==
    ASSUME NEW T \in SUBSET Nat, T # {}
    PROVE  \E x \in T : \A y \in T : x <= y
<1> DEFINE less == {p \in Nat \X Nat : p[1] < p[2]}
<1>1. less = OpToRel(<, Nat)
    BY DEF OpToRel
<1>2. IsWellFoundedOn(less, Nat)
    BY <1>1, NatLessThanWellFounded, Zenon
<1>3. \A a, b \in Nat : a < b => <<a, b>> \in less
    OBVIOUS
<1> HIDE DEF less
<1>4. PICK x \in T : \A y \in T : <<y, x>> \notin less
    BY <1>2, WFMin, Zenon
<1>5. ASSUME NEW y \in T PROVE x <= y
  <2>1. x \in Nat /\ y \in Nat /\ ~(y < x)
      BY <1>3, <1>4
  <2> QED
      BY <2>1
<1> QED
    BY <1>5

(* Induction on the naturals, stated for sets. *)
LEMMA InductionOnSet ==
    ASSUME NEW T, 0 \in T, \A n \in Nat : n \in T => n + 1 \in T
    PROVE  Nat \subseteq T
<1> DEFINE rest == Nat \ T
<1>1. SUFFICES ASSUME rest # {} PROVE FALSE
    OBVIOUS
<1>2. PICK n \in rest : \A m \in rest : n <= m
    BY <1>1, LeastOf
<1>3. n # 0 /\ n - 1 \in Nat /\ n - 1 \notin rest
    BY <1>2
<1>4. n = (n - 1) + 1
    BY <1>2
<1> QED
    BY <1>2, <1>3, <1>4

(* The run of a loop over n positions. *)
IsRun(h, n, D, base, F) ==
    /\ h \in [0..n -> D] /\ h[0] = base
    /\ \A k \in 1..n : h[k] = F[<<h[k - 1], k>>]

(* A loop over n positions has a run: it has one over the first m of them,  *)
(* for every m.                                                            *)
LEMMA SomeRun ==
    ASSUME NEW n \in Nat, NEW D, NEW base \in D, NEW F \in [D \X (1..n) -> D]
    PROVE  \E h : IsRun(h, n, D, base, F)
<1> DEFINE R == {m \in Nat : \E h \in [0..n -> D] :
                     h[0] = base /\ \A k \in 1..n : k <= m => h[k] = F[<<h[k - 1], k>>]}
<1>1. 0 \in R
  <2> DEFINE h == [k \in 0..n |-> base]
  <2>1. h \in [0..n -> D] /\ h[0] = base
      OBVIOUS
  <2>2. \A k \in 1..n : k <= 0 => h[k] = F[<<h[k - 1], k>>]
      OBVIOUS
  <2> HIDE DEF h
  <2> QED
      BY <2>1, <2>2
<1>2. ASSUME NEW m \in Nat, m \in R PROVE m + 1 \in R
  <2>1. PICK g \in [0..n -> D] :
            g[0] = base /\ \A k \in 1..n : k <= m => g[k] = F[<<g[k - 1], k>>]
      BY <1>2
  <2> DEFINE h == [k \in 0..n |-> IF k <= m THEN g[k] ELSE IF k = 0 THEN base
                                  ELSE F[<<g[k - 1], k>>]]
  <2>2. h \in [0..n -> D]
    <3>1. ASSUME NEW k \in 0..n PROVE h[k] \in D
      <4>1. CASE k <= m
          BY <4>1
      <4>2. CASE ~(k <= m)
        <5>1. k \in 1..n /\ k - 1 \in 0..n
            BY <4>2
        <5>2. <<g[k - 1], k>> \in D \X (1..n)
            BY <5>1
        <5> QED
            BY <4>2, <5>1, <5>2
      <4> QED
          BY <4>1, <4>2
    <3> QED
        BY <3>1
  <2>3. h[0] = base
      BY <2>1
  <2>4. ASSUME NEW k \in 1..n, k <= m + 1 PROVE h[k] = F[<<h[k - 1], k>>]
    <3>1. k - 1 \in 0..n /\ k - 1 <= m
        BY <2>4
    <3>2. h[k - 1] = g[k - 1]
        BY <3>1
    <3>3. h[k] = F[<<g[k - 1], k>>]
      <4>1. CASE k <= m
          BY <2>1, <4>1
      <4>2. CASE ~(k <= m)
          BY <4>2
      <4> QED
          BY <4>1, <4>2
    <3> QED
        BY <3>2, <3>3
  <2> HIDE DEF h
  <2> QED
      BY <2>2, <2>3, <2>4
<1>3. n \in R
  <2> HIDE DEF R
  <2> QED
      BY <1>1, <1>2, InductionOnSet
<1>4. PICK h \in [0..n -> D] : h[0] = base /\ \A k \in 1..n : k <= n => h[k] = F[<<h[k - 1], k>>]
    BY <1>3
<1>5. IsRun(h, n, D, base, F)
    BY <1>4 DEF IsRun
<1> QED
    BY <1>5

(* Picked runs through the list in order: what holds of the empty list and  *)
(* survives each position holds of what is left at the end.                *)
LEMMA PickedRun ==
    ASSUME NEW X, NEW list \in Seq(X), NEW kept, NEW T, <<>> \in T[0],
           \A k \in 1..Len(list) : \A p \in T[k - 1] :
               (IF k \in kept THEN Append(p, list[k]) ELSE p) \in T[k]
    PROVE  Picked(list, kept) \in T[Len(list)]
<1> DEFINE n == Len(list)
           D == Seq(X)
           Body(g, i) == IF i = 0 THEN <<>>
                         ELSE IF i \in kept THEN Append(g[i - 1], list[i]) ELSE g[i - 1]
           f == CHOOSE g : g = [i \in 0..n |-> Body(g, i)]
           F == [p \in D \X (1..n) |-> IF p[2] \in kept THEN Append(p[1], list[p[2]]) ELSE p[1]]
<1>1. Picked(list, kept) = f[n]
    BY Zenon DEF Picked
<1>2. n \in Nat /\ \A k \in 1..n : list[k] \in X
    OBVIOUS
<1>3. F \in [D \X (1..n) -> D]
    BY <1>2
<1>4. \E g : g = [i \in 0..n |-> Body(g, i)]
  <2>0. PICK h : IsRun(h, n, D, <<>>, F)
    <3>1. <<>> \in D
        OBVIOUS
    <3>2. n \in Nat
        BY <1>2
    <3> HIDE DEF F, D, n
    <3> QED
        BY <1>3, <3>1, <3>2, SomeRun
  <2>1. h \in [0..n -> D] /\ h[0] = <<>> /\ \A k \in 1..n : h[k] = F[<<h[k - 1], k>>]
      BY <2>0 DEF IsRun
  <2>2. ASSUME NEW i \in 0..n PROVE h[i] = Body(h, i)
    <3>1. CASE i = 0
        BY <2>1, <3>1
    <3>2. CASE i # 0
      <4>1. i \in 1..n /\ i - 1 \in 0..n
          BY <1>2, <3>2
      <4>2. <<h[i - 1], i>> \in D \X (1..n)
          BY <2>1, <4>1
      <4> QED
          BY <2>1, <3>2, <4>1, <4>2
    <3> QED
        BY <3>1, <3>2
  <2> HIDE DEF Body
  <2>3. h = [i \in 0..n |-> Body(h, i)]
    <3>1. h = [i \in 0..n |-> h[i]]
        BY <2>1
    <3> QED
        BY <2>2, <3>1
  <2> QED
      BY <2>3
<1>5. f = [i \in 0..n |-> Body(f, i)]
  <2> HIDE DEF Body
  <2> QED
      BY <1>4, Zenon
<1> HIDE DEF f
<1> DEFINE R == {k \in Nat : k <= n => f[k] \in T[k]}
<1>6. 0 \in R
    BY <1>2, <1>5
<1>7. ASSUME NEW k \in Nat, k \in R PROVE k + 1 \in R
  <2>1. SUFFICES ASSUME k + 1 <= n PROVE f[k + 1] \in T[k + 1]
      OBVIOUS
  <2>2. f[k] \in T[k]
      BY <1>2, <1>7, <2>1
  <2>3. k + 1 \in 1..n /\ (k + 1) - 1 = k /\ k + 1 # 0 /\ k + 1 \in 0..n
      BY <1>2, <2>1
  <2>4. f[k + 1] = IF k + 1 \in kept THEN Append(f[k], list[k + 1]) ELSE f[k]
      BY <1>5, <2>3
  <2>5. (IF k + 1 \in kept THEN Append(f[k], list[k + 1]) ELSE f[k]) \in T[k + 1]
      BY <2>2, <2>3
  <2> QED
      BY <2>4, <2>5
<1> HIDE DEF R
<1>8. n \in R
    BY <1>2, <1>6, <1>7, InductionOnSet
<1> QED
    BY <1>1, <1>2, <1>8 DEF R

(* A list all of whose positions are kept stays as it is. *)
LEMMA PickedAll ==
    ASSUME NEW X, NEW list \in Seq(X)
    PROVE  Picked(list, DOMAIN list) = list
<1> DEFINE upTo(k) == [j \in 1..k |-> list[j]]
           T == [k \in 0..Len(list) |-> {upTo(k)}]
<1>1. Len(list) \in Nat /\ DOMAIN list = 1..Len(list)
    OBVIOUS
<1>2. upTo(0) = <<>>
    OBVIOUS
<1>3. ASSUME NEW k \in 1..Len(list) PROVE Append(upTo(k - 1), list[k]) = upTo(k)
  <2>1. upTo(k - 1) \in Seq(X) /\ Len(upTo(k - 1)) = k - 1
      BY <1>1
  <2> QED
      BY <1>1, <2>1
<1>4. <<>> \in T[0]
    BY <1>1, <1>2
<1>5. ASSUME NEW k \in 1..Len(list), NEW p \in T[k - 1]
      PROVE  (IF k \in DOMAIN list THEN Append(p, list[k]) ELSE p) \in T[k]
  <2>1. k \in DOMAIN list /\ k \in 0..Len(list) /\ k - 1 \in 0..Len(list)
      BY <1>1
  <2> HIDE DEF upTo
  <2>2. p = upTo(k - 1) /\ T[k] = {upTo(k)}
      BY <1>5, <2>1
  <2> HIDE DEF T
  <2> QED
      BY <1>3, <2>1, <2>2
<1>6. T[Len(list)] = {list}
    BY <1>1
<1> HIDE DEF T
<1>7. Picked(list, DOMAIN list) \in T[Len(list)]
    BY <1>4, <1>5, PickedRun
<1> QED
    BY <1>6, <1>7

(* What is left of a list are the entries at the positions kept. *)
LEMMA PickedEntries ==
    ASSUME NEW X, NEW list \in Seq(X), NEW kept \in SUBSET DOMAIN list
    PROVE  /\ Picked(list, kept) \in Seq(X)
           /\ Range(Picked(list, kept)) = {list[i] : i \in kept}
<1> DEFINE T == [k \in 0..Len(list) |-> {p \in Seq(X) : Range(p) = {list[i] : i \in kept \cap (1..k)}}]
<1>1. Len(list) \in Nat /\ DOMAIN list = 1..Len(list)
    OBVIOUS
<1>2. <<>> \in T[0]
    BY <1>1 DEF Range
<1>3. ASSUME NEW k \in 1..Len(list), NEW p \in T[k - 1]
      PROVE  (IF k \in kept THEN Append(p, list[k]) ELSE p) \in T[k]
  <2>1. p \in Seq(X) /\ Range(p) = {list[i] : i \in kept \cap (1..(k - 1))} /\ list[k] \in X
      BY <1>1, <1>3
  <2>2. CASE k \in kept
    <3>1. Append(p, list[k]) \in Seq(X) /\ Range(Append(p, list[k])) = Range(p) \cup {list[k]}
      <4> DEFINE q == Append(p, list[k])
      <4>1. /\ q \in Seq(X) /\ DOMAIN p = 1..Len(p) /\ Len(p) \in Nat
            /\ DOMAIN q = (1..Len(p)) \cup {Len(p) + 1}
            /\ q[Len(p) + 1] = list[k] /\ \A i \in 1..Len(p) : q[i] = p[i]
          BY <2>1
      <4> HIDE DEF q
      <4>2. Range(q) = Range(p) \cup {list[k]}
          BY <4>1 DEF Range
      <4> QED
          BY <4>1, <4>2 DEF q
    <3>2. kept \cap (1..k) = (kept \cap (1..(k - 1))) \cup {k}
        BY <1>1, <2>2
    <3>3. {list[i] : i \in kept \cap (1..k)} = {list[i] : i \in kept \cap (1..(k - 1))} \cup {list[k]}
        BY <3>2
    <3> QED
        BY <1>1, <2>1, <2>2, <3>1, <3>3
  <2>3. CASE k \notin kept
    <3>1. kept \cap (1..k) = kept \cap (1..(k - 1))
        BY <1>1, <2>3
    <3> QED
        BY <1>1, <2>1, <2>3, <3>1
  <2> QED
      BY <2>2, <2>3
<1>4. kept \cap (1..Len(list)) = kept
    BY <1>1
<1>5. Picked(list, kept) \in T[Len(list)]
  <2> HIDE DEF T
  <2> QED
      BY <1>2, <1>3, PickedRun
<1> QED
    BY <1>1, <1>4, <1>5

(* UpdateUserLanguages drops repetitions only. *)
LEMMA CleanedEntries ==
    ASSUME NEW X, NEW list \in Seq(X)
    PROVE  Cleaned(list) \in Seq(X) /\ Range(Cleaned(list)) = Range(list)
<1> DEFINE first == {i \in DOMAIN list : \A j \in 1..(i - 1) : list[j] # list[i]}
<1>1. DOMAIN list = 1..Len(list) /\ Len(list) \in Nat
    OBVIOUS
<1>2. ASSUME NEW i \in DOMAIN list PROVE \E j \in first : list[j] = list[i]
  <2> DEFINE same == {j \in DOMAIN list : list[j] = list[i]}
  <2>1. same \in SUBSET Nat /\ i \in same
      BY <1>1
  <2>2. PICK j \in same : \A k \in same : j <= k
    <3> HIDE DEF same
    <3> QED
        BY <2>1, LeastOf
  <2>3. j \in first
      BY <1>1, <2>2
  <2> QED
      BY <2>3
<1>3. {list[j] : j \in first} = Range(list)
    BY <1>2 DEF Range
<1>4. Cleaned(list) = Picked(list, first)
    BY DEF Cleaned
<1>5. first \in SUBSET DOMAIN list
    OBVIOUS
<1> HIDE DEF first
<1> QED
    BY <1>3, <1>4, <1>5, PickedEntries

(* UserLanguages returns stored settings as they are when they are sound.   *)
LEMMA SoundSettings ==
    ASSUME NEW s \in Stored, s.learning # <<>>, s.active \in Range(s.learning)
    PROVE  UserLanguages(s) = s
<1>1. s.learning \in Seq(Languages) /\ s.active \in Languages
    BY DEF Stored
<1>2. {i \in DOMAIN s.learning : s.learning[i] \in Languages} = DOMAIN s.learning
    BY <1>1
<1>3. Picked(s.learning, {i \in DOMAIN s.learning : s.learning[i] \in Languages}) = s.learning
    BY <1>1, <1>2, PickedAll
<1>4. UserLanguages(s) = [learning |-> s.learning, active |-> s.active]
    BY <1>3 DEF UserLanguages
<1> QED
    BY <1>4 DEF Stored

(* A live account has an id that was handed out. *)
LEMMA LiveIds == ASSUME TypeOK PROVE live \subseteq Ids
<1>1. used \in 0..MaxId /\ live \subseteq 1..used /\ MaxId \in Nat
    BY DEF TypeOK
<1>2. 1..used \subseteq 1..MaxId
    BY <1>1
<1> QED
    BY <1>1, <1>2 DEF Ids

(* The column default is sound. *)
LEMMA DefaultIsSound ==
    /\ DefaultSettings \in Stored
    /\ DefaultSettings.learning # <<>>
    /\ DefaultSettings.active \in Range(DefaultSettings.learning)
<1>1. Supported \in Seq(Languages) /\ Supported # <<>>
    BY SettingsAssumption
<1>2. 1 \in DOMAIN Supported
    BY <1>1
<1>3. Supported[1] \in Range(Supported) /\ Supported[1] \in Languages
    BY <1>1, <1>2 DEF Range
<1> QED
    BY <1>1, <1>3 DEF DefaultSettings, Stored

(* The settings of the accounts' rows to come are the column default. *)
LEMMA InitSettings == SettingsInit => SettingsInv
<1> SUFFICES ASSUME SettingsInit PROVE SettingsInv
    OBVIOUS
<1>1. TypeOK
    BY InitInvariant DEF SettingsInit, IInv
<1> QED
    BY <1>1, DefaultIsSound DEF SettingsInit, SettingsInv, SettingsTypeOK

(* Both fields are written together, after the check. *)
LEMMA StepSettings ==
    ASSUME TypeOK, TypeOK', SettingsInv, [SettingsNext]_settingsVars
    PROVE  SettingsInv'
<1> DEFINE Sound(s) == s \in Stored /\ s.learning # <<>> /\ s.active \in Range(s.learning)
           SettingsSound == settings \in [Ids -> Stored] /\ \A i \in Ids : Sound(settings[i])
           PatchOK == /\ DOMAIN patch = Requests
                      /\ \A r \in Requests :
                          patch[r] # NoPatch =>
                              /\ request[r].pc = "acting"
                              /\ patch[r].learning \in Seq(Languages \cup {"other"})
                              /\ patch[r].active \in Languages
<1>1. SettingsInv <=> TypeOK /\ SettingsSound /\ PatchOK
    BY DEF SettingsInv, SettingsTypeOK
<1>2. SettingsInv' <=> TypeOK' /\ SettingsSound' /\ PatchOK'
    BY DEF SettingsInv, SettingsTypeOK
<1>3. Sound(DefaultSettings)
    BY DefaultIsSound
<1>4. CASE AccountStep
  <2>1. SettingsSound'
    <3>1. settings' = [i \in Ids |-> IF i \in live \cap live' THEN settings[i] ELSE DefaultSettings]
        BY <1>4 DEF AccountStep
    <3> QED
        BY <1>1, <1>3, <3>1
  <2>2. PatchOK'
      BY <1>1, <1>4 DEF AccountStep
  <2> QED
      BY <1>2, <2>1, <2>2
<1>5. ASSUME NEW r \in Requests, NEW list \in Lists \cup {Unchanged},
             NEW lang \in Languages \cup {"unchanged"}, ReadLanguages(r, list, lang)
      PROVE  SettingsInv'
  <2> DEFINE u == request[r].user
             current == UserLanguages(settings[u])
             learning == IF list = Unchanged THEN current.learning ELSE list
             active == IF lang = "unchanged" THEN current.active ELSE lang
  <2>1. u \in Ids
      BY <1>5, LiveIds DEF ReadLanguages
  <2>2. current = settings[u] /\ Sound(current)
      BY <1>1, <2>1, SoundSettings
  <2>3. current.learning \in Seq(Languages) /\ current.active \in Languages
      BY <2>2 DEF Stored
  <2> HIDE DEF current
  <2>4. learning \in Seq(Languages \cup {"other"})
    <3>1. CASE list = Unchanged
        BY <2>3, <3>1
    <3>2. CASE list # Unchanged
        BY <3>2, SettingsAssumption
    <3> QED
        BY <3>1, <3>2
  <2>5. active \in Languages
      BY <2>3
  <2>6. patch' = [patch EXCEPT ![r] = [pc |-> "read", learning |-> learning, active |-> active]]
      BY <1>5 DEF ReadLanguages, current
  <2>7. UNCHANGED <<vars, settings>> /\ request[r].pc = "acting"
      BY <1>5 DEF ReadLanguages
  <2>8. SettingsSound'
      BY <1>1, <2>7
  <2> HIDE DEF learning, active
  <2>9. PatchOK'
      BY <1>1, <2>4, <2>5, <2>6, <2>7 DEF vars
  <2> QED
      BY <1>2, <2>8, <2>9
<1>6. ASSUME NEW r \in Requests, WriteLanguages(r) PROVE SettingsInv'
  <2> DEFINE u == request[r].user
             p == patch[r]
             new == [learning |-> Cleaned(p.learning), active |-> p.active]
  <2>1. PatchOK'
    <3>1. patch' = [patch EXCEPT ![r] = NoPatch] /\ request' = [request EXCEPT ![r] = Idle]
        BY <1>6 DEF WriteLanguages, Respond, Become
    <3> QED
        BY <1>1, <3>1 DEF TypeOK
  <2>2. CASE settings' = settings
      BY <1>1, <1>2, <2>1, <2>2
  <2>3. CASE settings' # settings
    <3>1. /\ u \in live /\ p.learning # <<>> /\ Range(p.learning) \subseteq Languages
          /\ p.active \in Range(p.learning)
          /\ settings' = [settings EXCEPT ![u] = new]
        BY <1>6, <2>3, Zenon DEF WriteLanguages, UpdateUserLanguages
    <3>2. p.learning \in Seq(Languages)
      <4>1. p.learning \in Seq(Languages \cup {"other"})
          BY <1>1, <1>6 DEF WriteLanguages
      <4>2. \A i \in 1..Len(p.learning) : p.learning[i] \in Languages
          BY <3>1, <4>1 DEF Range
      <4> HIDE DEF p
      <4> QED
          BY <4>1, <4>2
    <3>3. Cleaned(p.learning) \in Seq(Languages) /\ Range(Cleaned(p.learning)) = Range(p.learning)
        BY <3>2, CleanedEntries
    <3>4. Cleaned(p.learning) # <<>>
      <4>1. Range(<<>>) = {}
          BY DEF Range
      <4> HIDE DEF p
      <4> QED
          BY <3>1, <3>3, <4>1
    <3>5. new \in Stored /\ new.learning # <<>> /\ new.active \in Range(new.learning)
        BY <3>1, <3>3, <3>4 DEF Stored
    <3> HIDE DEF new
    <3>6. u \in Ids
        BY <3>1, LiveIds
    <3>7. SettingsSound'
        BY <1>1, <3>1, <3>5, <3>6
    <3> QED
        BY <1>2, <2>1, <3>7
  <2> QED
      BY <2>2, <2>3
<1>7. CASE UNCHANGED settingsVars
    BY <1>1, <1>2, <1>7 DEF settingsVars, vars
<1> QED
    BY <1>4, <1>5, <1>6, <1>7 DEF SettingsNext

(* What is stored of the language settings is sound, whatever overlaps.     *)
THEOREM SettingsInvariant == SettingsSpec => []SettingsInv
<1>1. SettingsSpec => []TypeOK
    BY SettingsRefineAccounts, TypeCorrect, PTL
<1>2. TypeOK /\ TypeOK' /\ SettingsInv /\ [SettingsNext]_settingsVars => SettingsInv'
    BY StepSettings
<1> QED
    BY <1>1, <1>2, InitSettings, PTL DEF SettingsSpec

(* Two requests that read the settings before either writes, or the         *)
(* deletion of the account between read and write, never leave an account  *)
(* whose active language it does not learn.                                *)
THEOREM LanguagesAgree == SettingsSpec => []ActiveIsLearned
<1>1. SettingsInv => ActiveIsLearned
  <2> SUFFICES ASSUME SettingsInv, NEW u \in live PROVE UserLanguages(settings[u]) = settings[u]
      BY DEF ActiveIsLearned
  <2>1. u \in Ids
      BY LiveIds DEF SettingsInv, SettingsTypeOK
  <2>2. settings[u] \in Stored /\ settings[u].learning # <<>>
        /\ settings[u].active \in Range(settings[u].learning)
      BY <2>1 DEF SettingsInv, SettingsTypeOK
  <2> QED
      BY <2>2, SoundSettings
<1> QED
    BY <1>1, SettingsInvariant, PTL

HIDE AccountAssumption

=============================================================================
