-------------------------- MODULE CorrectionIssues --------------------------
(***************************************************************************)
(* Parser feedback and the global correction ledger (internal/store/       *)
(* correction_issues.go, the feedback section of db.go, and the feedback,  *)
(* history and admin handlers of internal/api/handlers.go).                *)
(*                                                                         *)
(* A learner's report is attributed to a parse session in one store call   *)
(* and filed in the next; filing groups it into the issue of its scope.    *)
(* Administrators triage, quarantine and restore issues, each in several   *)
(* statements; a quarantined issue hides every study item in its scope.    *)
(* Meanwhile learners delete single sessions, their whole history or their *)
(* account, and the reports go with them.                                  *)
(*                                                                         *)
(* One language and one parser; lemma and part of speech are one `sense'.  *)
(* Both are empty (a flag-only report) or neither is: the handler sees to  *)
(* it.  SQLite does not enforce foreign keys here (db.go, above            *)
(* DeleteUserCascade).                                                     *)
(***************************************************************************)
EXTENDS Integers, FiniteSets

CONSTANTS
    Users,        \* learners
    Requests,     \* request goroutines
    Admins,       \* admin request goroutines
    Surfaces,     \* word forms as they are written
    Senses,       \* (lemma, pos) identities
    NoSense,      \* both columns empty
    Classes,      \* alpha triage classes
    NoClass,      \* alpha_class IS NULL
    NormOf,       \* normalizeIssueSurface, NormalizeCardSurface: Unicode, trimmed
    LowerOf,      \* SQLite's lower(): ASCII only, untrimmed
    QuarantineThreshold, \* distinct reporters that raise the badge: 3
    MaxSessions,  \* bound on parse sessions created
    MaxReports    \* bound on reports filed

Norms == {NormOf[s] : s \in Surfaces}
Scopes == [norm : Norms, sense : Senses \cup {NoSense}]
SessionIds == 1..MaxSessions

ASSUME IssueAssumption ==
    /\ MaxSessions \in Nat /\ MaxReports \in Nat
    /\ QuarantineThreshold \in Nat \ {0}
    /\ NoSense \notin Senses /\ NoClass \notin Classes

VARIABLES
    live,      \* users with a users row
    sessions,  \* rows of parse_sessions: [id, user]
    sessionId, \* sqlite_sequence of parse_sessions
    feedback,  \* rows of parse_feedback
    reportId,  \* sqlite_sequence of parse_feedback
    issue,     \* the correction_issues row of each scope
    request,   \* where each learner request stands
    admin      \* where each admin request stands

vars == <<live, sessions, sessionId, feedback, reportId, issue, request, admin>>

Statuses == {"none", "open", "quarantined", "fixed", "reopened"}
NoIssue == [status |-> "none", class |-> NoClass, reports |-> 0,
            reporters |-> 0, reopened |-> 0]
Issues == [status : Statuses, class : Classes \cup {NoClass}, reports : Nat,
           reporters : Nat, reopened : Nat]

\* `shown' is the analysis the learner looked at (original_lemma and
\* original_pos), `scope' the fingerprint its correction_issue_id stands for.
Sessions == [id : SessionIds, user : Users]
Reports == [id : 1..MaxReports, user : Users, session : SessionIds,
            surface : Surfaces, shown : Senses, scope : Scopes]

\* authenticated  requireAuth returned, the handler starts
\* attributed     the report has its parse session, CreateParseFeedback is next
RequestStates ==
    [pc : {"idle"}]
        \cup [pc : {"authenticated"}, user : Users]
        \cup [pc : {"attributed"}, user : Users, session : SessionIds]

\* triaged      the quarantine call stored the class it carried
\* quarantining, restoring   the class was read and is not empty, the UPDATE is next
AdminStates ==
    [pc : {"idle"}] \cup [pc : {"triaged", "quarantining", "restoring"}, on : Scopes]

Idle == [pc |-> "idle"]

\* The rows and the requests have the shapes the schema and the handlers give them.
TypeOK ==
    /\ live \subseteq Users
    /\ sessionId \in 0..MaxSessions /\ reportId \in 0..MaxReports
    /\ sessions \subseteq Sessions
    /\ feedback \subseteq Reports
    /\ issue \in [Scopes -> Issues]
    /\ request \in [Requests -> RequestStates]
    /\ admin \in [Admins -> AdminStates]

Init ==
    /\ live = Users
    /\ sessions = {} /\ sessionId = 0
    /\ feedback = {} /\ reportId = 0
    /\ issue = [k \in Scopes |-> NoIssue]
    /\ request = [r \in Requests |-> Idle]
    /\ admin = [a \in Admins |-> Idle]

-----------------------------------------------------------------------------
(* Reporting.                                                              *)

At(r, pc) == request[r].pc = pc

Authenticate(r, u) ==
    /\ At(r, "idle") /\ u \in live
    /\ request' = [request EXCEPT ![r] = [pc |-> "authenticated", user |-> u]]
    /\ UNCHANGED <<live, sessions, sessionId, feedback, reportId, issue, admin>>

\* AUTOINCREMENT never hands out an id a second time.
NextSession(u) == [id |-> sessionId + 1, user |-> u]

\* CreateParseSession
InsertSession(u) ==
    /\ sessionId < MaxSessions
    /\ sessionId' = sessionId + 1
    /\ sessions' = sessions \cup {NextSession(u)}

Attributed(r, u, id) ==
    request' = [request EXCEPT ![r] = [pc |-> "attributed", user |-> u, session |-> id]]

\* A deck is saved with the parse session it came from (handleCreateDeck).
SaveAnalysis(r) ==
    /\ At(r, "authenticated")
    /\ InsertSession(request[r].user)
    /\ request' = [request EXCEPT ![r] = Idle]
    /\ UNCHANGED <<live, feedback, reportId, issue, admin>>

\* handleParseFeedback with a parse_id: GetParseSession and the ownership check.
ReportFromDeck(r, s) ==
    /\ At(r, "authenticated")
    /\ s \in sessions /\ s.user = request[r].user
    /\ Attributed(r, s.user, s.id)
    /\ UNCHANGED <<live, sessions, sessionId, feedback, reportId, issue, admin>>

\* handleParseFeedback without one: the session is created from the source text.
ReportInline(r) ==
    /\ At(r, "authenticated")
    /\ InsertSession(request[r].user)
    /\ Attributed(r, request[r].user, NextSession(request[r].user).id)
    /\ UNCHANGED <<live, feedback, reportId, issue, admin>>

LinkedTo(k, rows) == {f \in rows : f.scope = k}
ReportersOf(rows) == {f.user : f \in rows}

\* Mutant of Grouped: a report reopens a quarantined issue as well.
GroupedReopensAll(i) ==
    CASE i.status = "none" -> [i EXCEPT !.status = "open"]
      [] i.status \in {"fixed", "quarantined"} ->
            [i EXCEPT !.status = "reopened", !.reopened = @ + 1]
      [] OTHER -> i

\* groupFeedbackIntoIssue: a new row is open, a fixed one reopens, any other
\* status stays.
Grouped(i) ==
    CASE i.status = "none"  -> [i EXCEPT !.status = "open"]
      [] i.status = "fixed" -> [i EXCEPT !.status = "reopened", !.reopened = @ + 1]
      [] OTHER              -> i

\* Mutant of Recounted: the counts are taken before the row is linked.
RecountedUnlinked(i, k, rows) ==
    [i EXCEPT !.reports = Cardinality(LinkedTo(k, feedback)),
              !.reporters = Cardinality(ReportersOf(LinkedTo(k, feedback)))]

\* recountIssue
Recounted(i, k, rows) ==
    [i EXCEPT !.reports = Cardinality(LinkedTo(k, rows)),
              !.reporters = Cardinality(ReportersOf(LinkedTo(k, rows)))]

\* CreateParseFeedback, one transaction: the row, its issue, the link, the counts.
FileReport(r, surface, shown, proposed) ==
    /\ At(r, "attributed") /\ reportId < MaxReports
    /\ LET k == [norm |-> NormOf[surface], sense |-> proposed]
           row == [id |-> reportId + 1, user |-> request[r].user,
                   session |-> request[r].session,
                   surface |-> surface, shown |-> shown, scope |-> k]
       IN  /\ feedback' = feedback \cup {row}
           /\ issue' = [issue EXCEPT ![k] = Recounted(Grouped(@), k, feedback')]
    /\ reportId' = reportId + 1
    /\ request' = [request EXCEPT ![r] = Idle]
    /\ UNCHANGED <<live, sessions, sessionId, admin>>

\* A check refuses the request, or a store call fails; an inline report leaves
\* its parse session behind.
RefuseReport(r) ==
    /\ ~At(r, "idle")
    /\ request' = [request EXCEPT ![r] = Idle]
    /\ UNCHANGED <<live, sessions, sessionId, feedback, reportId, issue, admin>>

-----------------------------------------------------------------------------
(* Learners withdraw what they have given.                                 *)

OwnedBy(u) == {s \in sessions : s.user = u}
FiledUnder(gone) == {f \in feedback : \E s \in gone : f.session = s.id}

\* DeleteUserParseSession, DeleteUserParseSessions: the reports filed under the
\* sessions go too, and nothing recounts their issues.
DropSessions(gone) ==
    /\ feedback' = feedback \ FiledUnder(gone)
    /\ sessions' = sessions \ gone

DeleteSession(r, s) ==
    /\ At(r, "authenticated") /\ s \in OwnedBy(request[r].user)
    /\ DropSessions({s})
    /\ request' = [request EXCEPT ![r] = Idle]
    /\ UNCHANGED <<live, sessionId, reportId, issue, admin>>

DeleteHistory(r) ==
    /\ At(r, "authenticated")
    /\ DropSessions(OwnedBy(request[r].user))
    /\ request' = [request EXCEPT ![r] = Idle]
    /\ UNCHANGED <<live, sessionId, reportId, issue, admin>>

\* DeleteUserCascade: rolled back when the users row is already gone.
DeleteAccount(r) ==
    /\ At(r, "authenticated") /\ request[r].user \in live
    /\ LET u == request[r].user
       IN  /\ live' = live \ {u}
           /\ feedback' = (feedback \ FiledUnder(OwnedBy(u))) \ {f \in feedback : f.user = u}
           /\ sessions' = sessions \ OwnedBy(u)
    /\ request' = [request EXCEPT ![r] = Idle]
    /\ UNCHANGED <<sessionId, reportId, issue, admin>>

-----------------------------------------------------------------------------
(* Administrators.                                                         *)

Exists(k) == issue[k].status # "none"
AdminIdle(a) == admin[a].pc = "idle"
AdminOn(a, pc, k) == admin[a] = [pc |-> pc, on |-> k]

learnerVars == <<live, sessions, sessionId, feedback, reportId, request>>

\* TriageCorrectionIssue: the class can be replaced, never cleared.
Classified(k, c) == issue' = [issue EXCEPT ![k].class = c]

Triage(a, k, c) ==
    /\ AdminIdle(a) /\ Exists(k)
    /\ Classified(k, c)
    /\ UNCHANGED <<learnerVars, admin>>

\* A quarantine call that carries a class stores it first ...
QuarantineTriage(a, k, c) ==
    /\ AdminIdle(a) /\ Exists(k)
    /\ Classified(k, c)
    /\ admin' = [admin EXCEPT ![a] = [pc |-> "triaged", on |-> k]]
    /\ UNCHANGED learnerVars

\* ... and only then refuses a call without a reason.  A store call that fails
\* ends the request in the same way, with what the earlier calls wrote.
RefuseAdmin(a) ==
    /\ ~AdminIdle(a)
    /\ admin' = [admin EXCEPT ![a] = Idle]
    /\ UNCHANGED <<learnerVars, issue>>

\* The SELECT of QuarantineCorrectionIssue; without a class the call ends here.
SelectForQuarantine(a, k) ==
    /\ AdminIdle(a) \/ AdminOn(a, "triaged", k)
    /\ Exists(k) /\ issue[k].class # NoClass
    /\ admin' = [admin EXCEPT ![a] = [pc |-> "quarantining", on |-> k]]
    /\ UNCHANGED <<learnerVars, issue>>

\* Mutant of SelectForRestore: the class is not asked for.
SelectForRestoreUnchecked(a, k) ==
    /\ AdminIdle(a)
    /\ Exists(k)
    /\ admin' = [admin EXCEPT ![a] = [pc |-> "restoring", on |-> k]]
    /\ UNCHANGED <<learnerVars, issue>>

\* The SELECT of RestoreCorrectionIssue: any status is accepted.
SelectForRestore(a, k) ==
    /\ AdminIdle(a)
    /\ Exists(k) /\ issue[k].class # NoClass
    /\ admin' = [admin EXCEPT ![a] = [pc |-> "restoring", on |-> k]]
    /\ UNCHANGED <<learnerVars, issue>>

\* The UPDATE of either, whatever the status has become since the SELECT.
UpdateStatus(a, pc, status) ==
    /\ admin[a].pc = pc
    /\ issue' = [issue EXCEPT ![admin[a].on].status = status]
    /\ admin' = [admin EXCEPT ![a] = Idle]
    /\ UNCHANGED learnerVars

Quarantine(a) == UpdateStatus(a, "quarantining", "quarantined")
Restore(a) == UpdateStatus(a, "restoring", "fixed")

-----------------------------------------------------------------------------
(* What the administrators' lists show.                                    *)

\* The badge scanCorrectionIssue derives from the row it read.
ThresholdCandidate(i) ==
    i.reporters >= QuarantineThreshold /\ i.status \notin {"quarantined", "fixed"}

\* GetCorrectionIssue
GetCorrectionIssue(k) == [scope |-> k, row |-> issue[k], badge |-> ThresholdCandidate(issue[k])]

\* ListCorrectionIssues: all of them, or those of one status.
ListCorrectionIssues(status) ==
    {GetCorrectionIssue(k) : k \in {j \in Scopes :
        Exists(j) /\ (status = "any" \/ issue[j].status = status)}}

\* ListParseFeedback by flag_only; the review status is Dictionary's.
ListParseFeedback(flagOnly) ==
    {f \in feedback :
        CASE flagOnly = "true"  -> f.scope.sense = NoSense
          [] flagOnly = "false" -> f.scope.sense # NoSense
          [] OTHER              -> TRUE}

\* CorrectionIssueIDForFeedback
IssueForFeedback(f) == f.scope

-----------------------------------------------------------------------------
LearnerStep ==
    \E r \in Requests :
        \/ \E u \in Users : Authenticate(r, u)
        \/ SaveAnalysis(r)
        \/ \E s \in sessions : ReportFromDeck(r, s)
        \/ ReportInline(r)
        \/ \E surface \in Surfaces, shown \in Senses, proposed \in Senses \cup {NoSense} :
               FileReport(r, surface, shown, proposed)
        \/ RefuseReport(r)
        \/ \E s \in sessions : DeleteSession(r, s)
        \/ DeleteHistory(r)
        \/ DeleteAccount(r)

AdminStep ==
    \E a \in Admins :
        \/ \E k \in Scopes, c \in Classes : Triage(a, k, c)
        \/ \E k \in Scopes, c \in Classes : QuarantineTriage(a, k, c)
        \/ RefuseAdmin(a)
        \/ \E k \in Scopes : SelectForQuarantine(a, k)
        \/ \E k \in Scopes : SelectForRestore(a, k)
        \/ Quarantine(a)
        \/ Restore(a)

Next == LearnerStep \/ AdminStep

Spec == Init /\ [][Next]_vars

-----------------------------------------------------------------------------
(* What a quarantine hides, and the properties.                            *)

\* suppressedCardPredicate, suppressedOccurrencePredicate and
\* QuarantinedSenseFilter.Suppresses: they differ in how they spell the key a
\* surface-only issue is compared with.
Suppressed(key, sense) ==
    \E k \in Scopes :
        /\ issue[k].status = "quarantined"
        /\ k.sense = sense \/ (k.sense = NoSense /\ k.norm = key)

\* A card keyed by ensureCard, and a candidate of the meaning check.
CardSuppressed(surface, sense) == Suppressed(NormOf[surface], sense)
\* An occurrence, and a card seeded from it by a subscription.
OccurrenceSuppressed(surface, sense) == Suppressed(LowerOf[surface], sense)

Suppressions ==
    {p \in Surfaces \X Senses :
        CardSuppressed(p[1], p[2]) \/ OccurrenceSuppressed(p[1], p[2])}

\* `report_count' and `distinct_reporter_count' are never short: whatever was
\* deleted and filed again, they cover every report still linked to the issue,
\* so three standing reporters always raise the threshold badge.
CountsCoverReports ==
    \A k \in Scopes :
        /\ issue[k].reports >= Cardinality(LinkedTo(k, feedback))
        /\ issue[k].reporters >= Cardinality(ReportersOf(LinkedTo(k, feedback)))

\* The two lists an administrator works from agree: the issue of every report in
\* the feedback list is in the ledger, and once the standing reports of an issue
\* have QuarantineThreshold authors its badge is up, unless it has been decided.
ListsAgree ==
    /\ \A f \in ListParseFeedback("any") :
           GetCorrectionIssue(IssueForFeedback(f)) \in ListCorrectionIssues("any")
    /\ \A k \in Scopes :
           Cardinality(ReportersOf({f \in ListParseFeedback("any") : IssueForFeedback(f) = k}))
                   >= QuarantineThreshold =>
               \E item \in ListCorrectionIssues("any") :
                   /\ item.scope = k
                   /\ item.badge \/ item.row.status \in {"quarantined", "fixed"}

\* Content is taken out of or back into circulation only on an issue somebody
\* triaged, also when two administrators work on one issue and reports arrive
\* between their reads and their writes; a regression is marked only on an issue
\* that was once fixed.
TriagedBeforeActed ==
    \A k \in Scopes :
        /\ issue[k].status \in {"quarantined", "fixed", "reopened"} => issue[k].class # NoClass
        /\ issue[k].reopened > 0 => issue[k].class # NoClass

\* "Raw unreviewed reports never auto-hide content": no report, deletion or
\* triage changes what learners see.  Content disappears only when an
\* administrator's quarantine of a triaged issue lands, and comes back only when
\* a restore does.
OnlyAdminsHide ==
    [][ /\ ~(Suppressions' \subseteq Suppressions) =>
              \E a \in Admins : /\ admin[a].pc = "quarantining" /\ admin'[a] = Idle
                                /\ issue[admin[a].on].class # NoClass
        /\ ~(Suppressions \subseteq Suppressions') =>
              \E a \in Admins : admin[a].pc = "restoring" /\ admin'[a] = Idle ]_vars

\* A report disappears only by a request of the learner who filed it, although
\* the deletions go by parse session and a session may vanish, and others be
\* created, between attribution and filing.
OnlyOwnReportsWithdrawn ==
    [][ \A f \in feedback \ feedback' :
            \E r \in Requests : /\ request[r] = [pc |-> "authenticated", user |-> f.user]
                                /\ request'[r] = Idle ]_vars

(* The inductive invariant.                                                *)

\* Rows carry ids that were handed out, one row to an id.
IdsHandedOut ==
    /\ \A s \in sessions : s.id <= sessionId
    /\ \A s, t \in sessions : s.id = t.id => s = t
    /\ \A f \in feedback : f.id <= reportId /\ f.session <= sessionId
    /\ \A r \in Requests : request[r].pc = "attributed" => request[r].session <= sessionId

\* A report, filed or about to be, names a session of its reporter or none.
ReporterOwnsSession ==
    /\ \A f \in feedback, s \in sessions : f.session = s.id => f.user = s.user
    /\ \A r \in Requests, s \in sessions :
           (request[r].pc = "attributed" /\ request[r].session = s.id) => request[r].user = s.user

\* An administrator about to write has seen a class, and classes stay.
WritersSawClass ==
    \A a \in Admins :
        admin[a].pc \in {"triaged", "quarantining", "restoring"}
            => issue[admin[a].on].class # NoClass

Inv == /\ TypeOK /\ IsFiniteSet(feedback) /\ IdsHandedOut /\ ReporterOwnsSession
       /\ CountsCoverReports /\ TriagedBeforeActed /\ WritersSawClass

\* A filed report has its issue.
LinkedRowsExist == \A f \in feedback : Exists(f.scope)
=============================================================================
