----------------------- MODULE CorrectionIssuesProofs -----------------------
(***************************************************************************)
(* For every set of learners, requests, administrators, forms and senses:  *)
(* the types, the counts, the triage rule, what can hide content and whose *)
(* reports a deletion takes.  Inv adds to the checked invariants what the  *)
(* two-call handlers rely on between their calls: ids below the sequences  *)
(* (IdsHandedOut), the owner of an attributed session                      *)
(* (ReporterOwnsSession) and the class an administrator saw                *)
(* (WritersSawClass).                                                      *)
(***************************************************************************)
EXTENDS CorrectionIssues, FiniteSetTheorems, TLAPS

(* Writing status leaves the other columns of an issue alone. *)
LEMMA NewStatus ==
    ASSUME NEW i \in Issues, NEW x \in Statuses
    PROVE  LET j == [i EXCEPT !.status = x]
           IN  /\ j \in Issues /\ j.status = x
               /\ j.class = i.class /\ j.reports = i.reports
               /\ j.reporters = i.reporters /\ j.reopened = i.reopened
  BY DEF Issues

(* So does writing the class. *)
LEMMA NewClass ==
    ASSUME NEW i \in Issues, NEW c \in Classes
    PROVE  LET j == [i EXCEPT !.class = c]
           IN  /\ j \in Issues /\ j.class = c
               /\ j.status = i.status /\ j.reports = i.reports
               /\ j.reporters = i.reporters /\ j.reopened = i.reopened
  BY DEF Issues

(* groupFeedbackIntoIssue keeps the class, neither starts nor ends a       *)
(* quarantine, and marks a regression only on a fixed issue.               *)
LEMMA GroupedIssue ==
    ASSUME NEW i \in Issues
    PROVE  LET j == Grouped(i)
           IN  /\ j \in Issues
               /\ j.class = i.class /\ j.status # "none"
               /\ j.status = "quarantined" <=> i.status = "quarantined"
               /\ j.reopened > 0 => i.reopened > 0 \/ i.status = "fixed"
               /\ j.status \in {"fixed", "reopened"} => i.status \in {"fixed", "reopened"}
  <1>1. CASE i.status = "none"
    BY <1>1 DEF Grouped, Issues, Statuses
  <1>2. CASE i.status = "fixed"
    <2> DEFINE j == [i EXCEPT !.status = "reopened", !.reopened = i.reopened + 1]
    <2>1. Grouped(i) = j
      BY <1>2 DEF Grouped
    <2>2. i.reopened + 1 \in Nat
      BY DEF Issues
    <2>3. /\ j.status = "reopened" /\ j.reopened = i.reopened + 1 /\ j.class = i.class
          /\ j.reports = i.reports /\ j.reporters = i.reporters
      BY DEF Issues
    <2>4. j \in Issues
      BY <2>2 DEF Issues, Statuses
    <2> QED
      BY <1>2, <2>1, <2>3, <2>4
  <1>3. CASE i.status \notin {"none", "fixed"}
    <2>1. Grouped(i) = i
      BY <1>3 DEF Grouped
    <2> QED
      BY <2>1, <1>3 DEF Issues, Statuses
  <1> QED
    BY <1>1, <1>2, <1>3

(* The reports linked to an issue, and their reporters, can be counted. *)
LEMMA Countable ==
    ASSUME NEW rows \in SUBSET Reports, IsFiniteSet(rows), NEW k
    PROVE  LET linked == LinkedTo(k, rows)
           IN  /\ IsFiniteSet(linked) /\ Cardinality(linked) \in Nat
               /\ IsFiniteSet(ReportersOf(linked)) /\ Cardinality(ReportersOf(linked)) \in Nat
  <1> DEFINE linked == LinkedTo(k, rows)
             user == [f \in linked |-> f.user]
  <1>1. IsFiniteSet(linked)
    BY FS_Subset DEF LinkedTo
  <1>2. user \in Surjection(linked, ReportersOf(linked))
    BY DEF Surjection, ReportersOf
  <1>3. IsFiniteSet(ReportersOf(linked))
    BY <1>1, <1>2, FS_Surjection
  <1> QED
    BY <1>1, <1>3, FS_CardinalityType

(* recountIssue writes the two counts and nothing else. *)
LEMMA RecountedIssue ==
    ASSUME NEW i \in Issues, NEW k, NEW rows \in SUBSET Reports, IsFiniteSet(rows)
    PROVE  LET j == Recounted(i, k, rows)
           IN  /\ j \in Issues
               /\ j.class = i.class /\ j.status = i.status /\ j.reopened = i.reopened
               /\ j.reports = Cardinality(LinkedTo(k, rows))
               /\ j.reporters = Cardinality(ReportersOf(LinkedTo(k, rows)))
  BY Countable DEF Recounted, Issues

(* Deleting reports can only lower what a recount would find. *)
LEMMA FewerCount ==
    ASSUME NEW rows \in SUBSET Reports, IsFiniteSet(rows), NEW fewer \in SUBSET rows, NEW k
    PROVE  /\ IsFiniteSet(fewer)
           /\ Cardinality(LinkedTo(k, fewer)) <= Cardinality(LinkedTo(k, rows))
           /\ Cardinality(ReportersOf(LinkedTo(k, fewer)))
                 <= Cardinality(ReportersOf(LinkedTo(k, rows)))
  <1>1. LinkedTo(k, fewer) \subseteq LinkedTo(k, rows)
    BY DEF LinkedTo
  <1>2. ReportersOf(LinkedTo(k, fewer)) \subseteq ReportersOf(LinkedTo(k, rows))
    BY <1>1 DEF ReportersOf
  <1> QED
    BY <1>1, <1>2, Countable, FS_Subset

-----------------------------------------------------------------------------

(* An empty database satisfies the invariant. *)
LEMMA InitInv == Init => Inv
  <1> SUFFICES ASSUME Init PROVE Inv
    OBVIOUS
  <1> USE DEF Init
  <1>1. TypeOK
    BY IssueAssumption DEF TypeOK, Issues, NoIssue, Statuses, Idle, RequestStates, AdminStates
  <1>2. CountsCoverReports
    <2> SUFFICES ASSUME NEW k \in Scopes
                 PROVE  /\ issue[k].reports >= Cardinality(LinkedTo(k, feedback))
                        /\ issue[k].reporters >= Cardinality(ReportersOf(LinkedTo(k, feedback)))
      BY DEF CountsCoverReports
    <2>1. LinkedTo(k, feedback) = {} /\ ReportersOf(LinkedTo(k, feedback)) = {}
      BY DEF LinkedTo, ReportersOf
    <2> QED
      BY <2>1, FS_EmptySet DEF NoIssue
  <1>3. TriagedBeforeActed /\ WritersSawClass
    BY DEF TriagedBeforeActed, WritersSawClass, NoIssue, Idle
  <1>4. IdsHandedOut /\ ReporterOwnsSession /\ IsFiniteSet(feedback)
    BY FS_EmptySet DEF IdsHandedOut, ReporterOwnsSession, Idle
  <1> QED
    BY <1>1, <1>2, <1>3, <1>4 DEF Inv

(* A step that leaves reports, issues and administrators alone keeps the   *)
(* three facts about them.                                                 *)
LEMMA LedgerKept ==
    ASSUME Inv, UNCHANGED <<feedback, issue, admin>>
    PROVE  CountsCoverReports' /\ TriagedBeforeActed' /\ WritersSawClass' /\ IsFiniteSet(feedback)'
  BY DEF Inv, CountsCoverReports, TriagedBeforeActed, WritersSawClass

(* One request moves, the others stay. *)
LEMMA RequestMoved ==
    ASSUME Inv, NEW r \in Requests, NEW x \in RequestStates,
           request' = [request EXCEPT ![r] = x]
    PROVE  /\ request' \in [Requests -> RequestStates]
           /\ \A q \in Requests : request'[q] = IF q = r THEN x ELSE request[q]
  BY DEF Inv, TypeOK

(* CreateParseSession inserts a row with a new id for the caller. *)
LEMMA SessionRecords ==
    ASSUME Inv, NEW r \in Requests, At(r, "authenticated"), InsertSession(request[r].user)
    PROVE  LET u == request[r].user
           IN  /\ u \in Users
               /\ sessionId' = sessionId + 1 /\ sessionId' \in 1..MaxSessions
               /\ NextSession(u) \in Sessions
               /\ sessions' = sessions \cup {NextSession(u)}
               /\ NextSession(u).id = sessionId + 1 /\ NextSession(u).user = u
  BY IssueAssumption DEF Inv, TypeOK, At, InsertSession, NextSession, Sessions, SessionIds, RequestStates

(* Authentication, a saved analysis, and the first call of a report. *)
LEMMA ReportingStep ==
    ASSUME Inv, NEW r \in Requests,
           \/ \E u \in Users : Authenticate(r, u)
           \/ SaveAnalysis(r)
           \/ \E s \in sessions : ReportFromDeck(r, s)
           \/ ReportInline(r)
           \/ RefuseReport(r)
    PROVE  Inv'
  <1>1. UNCHANGED <<live, feedback, reportId, issue, admin>>
    BY DEF Authenticate, SaveAnalysis, ReportFromDeck, ReportInline, RefuseReport
  <1>2. CountsCoverReports' /\ TriagedBeforeActed' /\ WritersSawClass' /\ IsFiniteSet(feedback)'
    BY <1>1, LedgerKept
  <1>3. ASSUME NEW u \in Users, Authenticate(r, u)
        PROVE  TypeOK' /\ IdsHandedOut' /\ ReporterOwnsSession'
    <2> DEFINE x == [pc |-> "authenticated", user |-> u]
    <2>1. x \in RequestStates /\ request' = [request EXCEPT ![r] = x]
      BY <1>3 DEF RequestStates, Authenticate
    <2>2. /\ request' \in [Requests -> RequestStates]
          /\ \A q \in Requests : request'[q] = IF q = r THEN x ELSE request[q]
      BY <2>1, RequestMoved
    <2>3. UNCHANGED <<sessions, sessionId>>
      BY <1>3 DEF Authenticate
    <2> QED
      BY <1>1, <2>2, <2>3 DEF Inv, TypeOK, IdsHandedOut, ReporterOwnsSession
  <1>4. ASSUME SaveAnalysis(r)
        PROVE  TypeOK' /\ IdsHandedOut' /\ ReporterOwnsSession'
    <2>1. request' = [request EXCEPT ![r] = Idle] /\ Idle \in RequestStates
      BY <1>4 DEF SaveAnalysis, RequestStates, Idle
    <2>2. /\ request' \in [Requests -> RequestStates]
          /\ \A q \in Requests : request'[q] = IF q = r THEN Idle ELSE request[q]
      BY <2>1, RequestMoved
    <2>3. At(r, "authenticated") /\ InsertSession(request[r].user)
      BY <1>4 DEF SaveAnalysis
    <2> QED
      BY <1>1, <2>2, <2>3, SessionRecords
      DEF Inv, TypeOK, IdsHandedOut, ReporterOwnsSession, Idle, Sessions, SessionIds, Reports, RequestStates
  <1>5. ASSUME NEW s \in sessions, ReportFromDeck(r, s)
        PROVE  TypeOK' /\ IdsHandedOut' /\ ReporterOwnsSession'
    <2> DEFINE x == [pc |-> "attributed", user |-> s.user, session |-> s.id]
    <2>1. x \in RequestStates /\ request' = [request EXCEPT ![r] = x]
      BY <1>5 DEF Inv, TypeOK, Sessions, RequestStates, ReportFromDeck, Attributed
    <2>2. /\ request' \in [Requests -> RequestStates]
          /\ \A q \in Requests : request'[q] = IF q = r THEN x ELSE request[q]
      BY <2>1, RequestMoved
    <2>3. UNCHANGED <<sessions, sessionId>>
      BY <1>5 DEF ReportFromDeck
    <2>4. TypeOK'
      BY <1>1, <2>2, <2>3 DEF Inv, TypeOK
    <2>5. IdsHandedOut' /\ ReporterOwnsSession'
      BY <1>1, <2>2, <2>3 DEF Inv, IdsHandedOut, ReporterOwnsSession
    <2> QED
      BY <2>4, <2>5
  <1>6. ASSUME ReportInline(r)
        PROVE  TypeOK' /\ IdsHandedOut' /\ ReporterOwnsSession'
    <2> DEFINE u == request[r].user
               x == [pc |-> "attributed", user |-> u, session |-> sessionId + 1]
    <2>1. At(r, "authenticated") /\ InsertSession(u)
      BY <1>6 DEF ReportInline
    <2>2. /\ u \in Users /\ sessionId' = sessionId + 1 /\ sessionId' \in 1..MaxSessions
          /\ NextSession(u) \in Sessions
          /\ sessions' = sessions \cup {NextSession(u)}
          /\ NextSession(u).id = sessionId + 1 /\ NextSession(u).user = u
      BY <2>1, SessionRecords
    <2>3. x \in RequestStates /\ request' = [request EXCEPT ![r] = x]
      BY <1>6, <2>2 DEF ReportInline, Attributed, RequestStates, SessionIds
    <2>4. /\ request' \in [Requests -> RequestStates]
          /\ \A q \in Requests : request'[q] = IF q = r THEN x ELSE request[q]
      BY <2>3, RequestMoved
    <2>5. TypeOK'
      BY <1>1, <2>2, <2>4 DEF Inv, TypeOK
    <2>6. sessionId \in Nat /\ \A s \in sessions : s.id \in Nat
      BY DEF Inv, TypeOK, Sessions, SessionIds
    <2>7. IdsHandedOut'
      BY <1>1, <2>2, <2>4, <2>6 DEF Inv, TypeOK, IdsHandedOut, Reports, RequestStates, SessionIds
    <2>8. ReporterOwnsSession'
      BY <1>1, <2>2, <2>4, <2>6 DEF Inv, TypeOK, IdsHandedOut, ReporterOwnsSession, Reports, RequestStates, SessionIds
    <2> QED
      BY <2>5, <2>7, <2>8
  <1>7. ASSUME RefuseReport(r)
        PROVE  TypeOK' /\ IdsHandedOut' /\ ReporterOwnsSession'
    <2>1. request' = [request EXCEPT ![r] = Idle] /\ Idle \in RequestStates
      BY <1>7 DEF RefuseReport, RequestStates, Idle
    <2>2. /\ request' \in [Requests -> RequestStates]
          /\ \A q \in Requests : request'[q] = IF q = r THEN Idle ELSE request[q]
      BY <2>1, RequestMoved
    <2>3. UNCHANGED <<sessions, sessionId>>
      BY <1>7 DEF RefuseReport
    <2> QED
      BY <1>1, <2>2, <2>3 DEF Inv, TypeOK, IdsHandedOut, ReporterOwnsSession, Idle
  <1> QED
    BY <1>2, <1>3, <1>4, <1>5, <1>6, <1>7 DEF Inv

(* CreateParseFeedback: the recount makes the counts of its issue exact,   *)
(* the other issues' reports are untouched.                                *)
LEMMA FilingStep ==
    ASSUME Inv, NEW r \in Requests, NEW surface \in Surfaces, NEW shown \in Senses,
           NEW proposed \in Senses \cup {NoSense}, FileReport(r, surface, shown, proposed)
    PROVE  Inv'
  <1> DEFINE k == [norm |-> NormOf[surface], sense |-> proposed]
             row == [id |-> reportId + 1, user |-> request[r].user,
                     session |-> request[r].session,
                     surface |-> surface, shown |-> shown, scope |-> k]
             i == Grouped(issue[k])
             j == Recounted(i, k, feedback')
  <1>1. /\ At(r, "attributed")
        /\ feedback' = feedback \cup {row}
        /\ issue' = [issue EXCEPT ![k] = j]
        /\ reportId' = reportId + 1 /\ reportId < MaxReports
        /\ request' = [request EXCEPT ![r] = Idle]
        /\ UNCHANGED <<live, sessions, sessionId, admin>>
    BY DEF FileReport
  <1>2. k \in Scopes
    BY DEF Scopes, Norms
  <1>3. /\ request[r].user \in Users /\ request[r].session \in SessionIds
        /\ request[r].session <= sessionId
    BY <1>1 DEF Inv, TypeOK, At, RequestStates, IdsHandedOut
  <1>4. row \in Reports
    BY <1>1, <1>2, <1>3, IssueAssumption DEF Inv, TypeOK, Reports
  <1>5. feedback' \in SUBSET Reports /\ IsFiniteSet(feedback')
    BY <1>1, <1>4, FS_AddElement DEF Inv, TypeOK
  <1>6. issue[k] \in Issues
    BY <1>2 DEF Inv, TypeOK
  <1>7. /\ i \in Issues /\ i.class = issue[k].class
        /\ i.status = "quarantined" <=> issue[k].status = "quarantined"
        /\ i.reopened > 0 => issue[k].reopened > 0 \/ issue[k].status = "fixed"
        /\ i.status \in {"fixed", "reopened"} => issue[k].status \in {"fixed", "reopened"}
    BY <1>6, GroupedIssue
  <1>8. /\ j \in Issues /\ j.class = i.class /\ j.status = i.status /\ j.reopened = i.reopened
        /\ j.reports = Cardinality(LinkedTo(k, feedback'))
        /\ j.reporters = Cardinality(ReportersOf(LinkedTo(k, feedback')))
    <2> HIDE DEF i, k
    <2> QED
      BY <1>5, <1>7, RecountedIssue
  <1> HIDE DEF i, j
  <1>9. /\ issue' \in [Scopes -> Issues] /\ issue'[k] = j
        /\ \A q \in Scopes : q # k => issue'[q] = issue[q]
    BY <1>1, <1>2, <1>8 DEF Inv, TypeOK
  <1>10. /\ request' \in [Requests -> RequestStates]
         /\ \A q \in Requests : request'[q] = IF q = r THEN Idle ELSE request[q]
    <2>1. Idle \in RequestStates
      BY DEF Idle, RequestStates
    <2> QED
      BY <1>1, <2>1, RequestMoved
  <1>11. TypeOK'
    BY <1>1, <1>5, <1>9, <1>10, IssueAssumption DEF Inv, TypeOK
  <1>12. IdsHandedOut'
    BY <1>1, <1>3, <1>4, <1>10 DEF Inv, TypeOK, IdsHandedOut, Idle, Reports
  <1>13. ReporterOwnsSession'
    BY <1>1, <1>10 DEF Inv, ReporterOwnsSession, Idle, At
  <1>14. CountsCoverReports'
    <2> SUFFICES ASSUME NEW q \in Scopes
                 PROVE  /\ issue'[q].reports >= Cardinality(LinkedTo(q, feedback'))
                        /\ issue'[q].reporters >= Cardinality(ReportersOf(LinkedTo(q, feedback')))
      BY DEF CountsCoverReports
    <2>1. CASE q = k
      <3>1. /\ Cardinality(LinkedTo(q, feedback')) \in Nat
            /\ Cardinality(ReportersOf(LinkedTo(q, feedback'))) \in Nat
        BY <1>5, Countable
      <3> QED
        BY <1>8, <1>9, <2>1, <3>1
    <2>2. CASE q # k
      <3>1. LinkedTo(q, feedback') = LinkedTo(q, feedback)
        BY <1>1, <2>2 DEF LinkedTo
      <3> QED
        BY <1>9, <2>2, <3>1 DEF Inv, CountsCoverReports
    <2> QED
      BY <2>1, <2>2
  <1>15. TriagedBeforeActed'
    <2> SUFFICES ASSUME NEW q \in Scopes
                 PROVE  /\ issue'[q].status \in {"quarantined", "fixed", "reopened"}
                              => issue'[q].class # NoClass
                        /\ issue'[q].reopened > 0 => issue'[q].class # NoClass
      BY DEF TriagedBeforeActed
    <2> QED
      BY <1>2, <1>7, <1>8, <1>9 DEF Inv, TriagedBeforeActed
  <1>16. WritersSawClass'
    <2> SUFFICES ASSUME NEW a \in Admins,
                        admin[a].pc \in {"triaged", "quarantining", "restoring"}
                 PROVE  issue'[admin[a].on].class # NoClass
      BY <1>1 DEF WritersSawClass
    <2>1. admin[a].on \in Scopes
      BY DEF Inv, TypeOK, AdminStates
    <2> QED
      BY <1>7, <1>8, <1>9, <2>1 DEF Inv, WritersSawClass
  <1> QED
    BY <1>5, <1>11, <1>12, <1>13, <1>14, <1>15, <1>16 DEF Inv

(* The three deletions: rows go, counts stay, so the counts still cover. *)
LEMMA WithdrawalStep ==
    ASSUME Inv, NEW r \in Requests,
           \/ \E s \in sessions : DeleteSession(r, s)
           \/ DeleteHistory(r)
           \/ DeleteAccount(r)
    PROVE  Inv'
  <1>1. /\ UNCHANGED <<sessionId, reportId, issue, admin>>
        /\ live' \subseteq live
        /\ sessions' \subseteq sessions
        /\ feedback' \in SUBSET feedback
        /\ request' = [request EXCEPT ![r] = Idle]
    BY DEF DeleteSession, DeleteHistory, DeleteAccount, DropSessions
  <1>2. /\ request' \in [Requests -> RequestStates]
        /\ \A q \in Requests : request'[q] = IF q = r THEN Idle ELSE request[q]
    <2>1. Idle \in RequestStates
      BY DEF Idle, RequestStates
    <2> QED
      BY <1>1, <2>1, RequestMoved
  <1>3. TypeOK'
    BY <1>1, <1>2 DEF Inv, TypeOK
  <1>4. IdsHandedOut' /\ ReporterOwnsSession'
    BY <1>1, <1>2 DEF Inv, IdsHandedOut, ReporterOwnsSession, Idle
  <1>5. TriagedBeforeActed' /\ WritersSawClass'
    BY <1>1 DEF Inv, TriagedBeforeActed, WritersSawClass
  <1>6. CountsCoverReports' /\ IsFiniteSet(feedback')
    <2>1. IsFiniteSet(feedback')
      BY <1>1, FS_Subset DEF Inv
    <2> SUFFICES ASSUME NEW k \in Scopes
                 PROVE  /\ issue[k].reports >= Cardinality(LinkedTo(k, feedback'))
                        /\ issue[k].reporters >= Cardinality(ReportersOf(LinkedTo(k, feedback')))
      BY <1>1, <2>1 DEF CountsCoverReports
    <2>2. /\ feedback \in SUBSET Reports /\ IsFiniteSet(feedback)
          /\ feedback' \in SUBSET Reports
          /\ issue[k].reports \in Nat /\ issue[k].reporters \in Nat
      BY <1>1 DEF Inv, TypeOK, Issues
    <2>3. /\ Cardinality(LinkedTo(k, feedback')) <= Cardinality(LinkedTo(k, feedback))
          /\ Cardinality(ReportersOf(LinkedTo(k, feedback')))
                <= Cardinality(ReportersOf(LinkedTo(k, feedback)))
      BY <1>1, <2>2, FewerCount
    <2>4. /\ Cardinality(LinkedTo(k, feedback')) \in Nat
          /\ Cardinality(LinkedTo(k, feedback)) \in Nat
          /\ Cardinality(ReportersOf(LinkedTo(k, feedback'))) \in Nat
          /\ Cardinality(ReportersOf(LinkedTo(k, feedback))) \in Nat
      BY <2>1, <2>2, Countable
    <2>5. /\ issue[k].reports >= Cardinality(LinkedTo(k, feedback))
          /\ issue[k].reporters >= Cardinality(ReportersOf(LinkedTo(k, feedback)))
      BY DEF Inv, CountsCoverReports
    <2> QED
      BY <2>2, <2>3, <2>4, <2>5
  <1> QED
    BY <1>3, <1>4, <1>5, <1>6 DEF Inv

(* An administrator's step leaves rows and counts alone. *)
LEMMA LearnersKept ==
    ASSUME Inv, UNCHANGED learnerVars, issue' \in [Scopes -> Issues],
           \A k \in Scopes : /\ issue'[k].reports = issue[k].reports
                             /\ issue'[k].reporters = issue[k].reporters
    PROVE  /\ IdsHandedOut' /\ ReporterOwnsSession' /\ CountsCoverReports' /\ IsFiniteSet(feedback)'
           /\ admin' \in [Admins -> AdminStates] => TypeOK'
  <1>1. UNCHANGED <<live, sessions, sessionId, feedback, reportId, request>>
    BY DEF learnerVars
  <1> QED
    BY <1>1 DEF Inv, TypeOK, IdsHandedOut, ReporterOwnsSession, CountsCoverReports

(* One administrator moves, the others stay. *)
LEMMA AdminMoved ==
    ASSUME Inv, NEW a \in Admins, NEW x \in AdminStates, admin' = [admin EXCEPT ![a] = x]
    PROVE  /\ admin' \in [Admins -> AdminStates]
           /\ \A b \in Admins : admin'[b] = IF b = a THEN x ELSE admin[b]
  BY DEF Inv, TypeOK

(* Triage, alone or at the start of a quarantine call. *)
LEMMA ClassifyStep ==
    ASSUME Inv, NEW a \in Admins, NEW k \in Scopes, NEW c \in Classes,
           Triage(a, k, c) \/ QuarantineTriage(a, k, c)
    PROVE  Inv'
  <1> DEFINE j == [issue[k] EXCEPT !.class = c]
             x == [pc |-> "triaged", on |-> k]
  <1>1. issue' = [issue EXCEPT ![k] = j] /\ UNCHANGED learnerVars
    BY DEF Triage, QuarantineTriage, Classified
  <1>2. issue[k] \in Issues
    BY DEF Inv, TypeOK
  <1>3. /\ j \in Issues /\ j.class = c
        /\ j.status = issue[k].status /\ j.reports = issue[k].reports
        /\ j.reporters = issue[k].reporters /\ j.reopened = issue[k].reopened
    BY <1>2, NewClass
  <1> HIDE DEF j
  <1>4. /\ issue' \in [Scopes -> Issues] /\ issue'[k] = j
        /\ \A q \in Scopes : q # k => issue'[q] = issue[q]
    BY <1>1, <1>3 DEF Inv, TypeOK
  <1>5. /\ admin' \in [Admins -> AdminStates]
        /\ \A b \in Admins : admin'[b] = admin[b] \/ admin'[b] = x
    <2>1. x \in AdminStates
      BY DEF AdminStates
    <2>2. CASE UNCHANGED admin
      BY <2>2 DEF Inv, TypeOK
    <2>3. CASE admin' = [admin EXCEPT ![a] = x]
      BY <2>1, <2>3, AdminMoved
    <2> QED
      BY <2>2, <2>3 DEF Triage, QuarantineTriage
  <1>6. c # NoClass
    BY IssueAssumption
  <1>7. TriagedBeforeActed'
    BY <1>3, <1>4, <1>6 DEF Inv, TriagedBeforeActed
  <1>8. WritersSawClass'
    <2> SUFFICES ASSUME NEW b \in Admins,
                        admin'[b].pc \in {"triaged", "quarantining", "restoring"}
                 PROVE  issue'[admin'[b].on].class # NoClass
      BY DEF WritersSawClass
    <2>1. CASE admin'[b] = x
      BY <1>3, <1>4, <1>6, <2>1
    <2>2. CASE admin'[b] = admin[b]
      <3>1. admin[b].on \in Scopes
        BY <2>2 DEF Inv, TypeOK, AdminStates
      <3> QED
        BY <1>3, <1>4, <1>6, <2>2, <3>1 DEF Inv, WritersSawClass
    <2> QED
      BY <1>5, <2>1, <2>2
  <1> QED
    BY <1>1, <1>3, <1>4, <1>5, <1>7, <1>8, LearnersKept DEF Inv

(* The reads of quarantine and restore, and the refusal without a reason. *)
LEMMA SelectStep ==
    ASSUME Inv, NEW a \in Admins,
           \/ RefuseAdmin(a)
           \/ \E k \in Scopes : SelectForQuarantine(a, k)
           \/ \E k \in Scopes : SelectForRestore(a, k)
    PROVE  Inv'
  <1>1. UNCHANGED learnerVars /\ UNCHANGED issue
    BY DEF RefuseAdmin, SelectForQuarantine, SelectForRestore
  <1>2. PICK x \in AdminStates :
           /\ admin' = [admin EXCEPT ![a] = x]
           /\ x.pc # "idle" => issue[x.on].class # NoClass
    <2>1. ASSUME RefuseAdmin(a)
          PROVE  \E x \in AdminStates :
                    /\ admin' = [admin EXCEPT ![a] = x]
                    /\ x.pc # "idle" => issue[x.on].class # NoClass
      <3>1. Idle \in AdminStates /\ Idle.pc = "idle"
        BY DEF Idle, AdminStates
      <3> QED
        BY <2>1, <3>1 DEF RefuseAdmin
    <2>2. ASSUME NEW k \in Scopes, SelectForQuarantine(a, k) \/ SelectForRestore(a, k)
          PROVE  \E x \in AdminStates :
                    /\ admin' = [admin EXCEPT ![a] = x]
                    /\ x.pc # "idle" => issue[x.on].class # NoClass
      <3>1. PICK pc \in {"quarantining", "restoring"} :
               admin' = [admin EXCEPT ![a] = [pc |-> pc, on |-> k]] /\ issue[k].class # NoClass
        BY <2>2 DEF SelectForQuarantine, SelectForRestore
      <3>2. [pc |-> pc, on |-> k] \in AdminStates
        BY DEF AdminStates
      <3> QED
        BY <3>1, <3>2
    <2> QED
      BY <2>1, <2>2
  <1>3. /\ admin' \in [Admins -> AdminStates]
        /\ \A b \in Admins : admin'[b] = IF b = a THEN x ELSE admin[b]
    BY <1>2, AdminMoved
  <1>4. TriagedBeforeActed' /\ WritersSawClass'
    BY <1>1, <1>2, <1>3 DEF Inv, TriagedBeforeActed, WritersSawClass
  <1>5. issue' \in [Scopes -> Issues]
    BY <1>1 DEF Inv, TypeOK
  <1> QED
    BY <1>1, <1>3, <1>4, <1>5, LearnersKept DEF Inv

(* The writes: the class seen by the read is still there. *)
LEMMA UpdateStep ==
    ASSUME Inv, NEW a \in Admins, Quarantine(a) \/ Restore(a)
    PROVE  Inv'
  <1>1. PICK pc \in {"quarantining", "restoring"}, st \in {"quarantined", "fixed"} :
           UpdateStatus(a, pc, st)
    BY DEF Quarantine, Restore
  <1> DEFINE k == admin[a].on
             j == [issue[k] EXCEPT !.status = st]
  <1>2. /\ admin[a].pc = pc
        /\ issue' = [issue EXCEPT ![k] = j]
        /\ admin' = [admin EXCEPT ![a] = Idle] /\ Idle \in AdminStates
        /\ UNCHANGED learnerVars
    BY <1>1 DEF UpdateStatus, Idle, AdminStates
  <1>3. k \in Scopes /\ issue[k] \in Issues /\ issue[k].class # NoClass
    BY <1>1, <1>2 DEF Inv, TypeOK, AdminStates, WritersSawClass
  <1>4. /\ j \in Issues /\ j.status = st
        /\ j.class = issue[k].class /\ j.reports = issue[k].reports
        /\ j.reporters = issue[k].reporters /\ j.reopened = issue[k].reopened
    <2>1. st \in Statuses
      BY <1>1 DEF Statuses
    <2> QED
      BY <1>3, <2>1, NewStatus
  <1> HIDE DEF j
  <1>5. /\ issue' \in [Scopes -> Issues] /\ issue'[k] = j
        /\ \A q \in Scopes : q # k => issue'[q] = issue[q]
    BY <1>2, <1>3, <1>4 DEF Inv, TypeOK
  <1>6. /\ admin' \in [Admins -> AdminStates]
        /\ \A b \in Admins : admin'[b] = IF b = a THEN Idle ELSE admin[b]
    BY <1>2, AdminMoved
  <1>7. TriagedBeforeActed'
    BY <1>3, <1>4, <1>5 DEF Inv, TriagedBeforeActed
  <1>8. WritersSawClass'
    <2> SUFFICES ASSUME NEW b \in Admins,
                        admin'[b].pc \in {"triaged", "quarantining", "restoring"}
                 PROVE  issue'[admin'[b].on].class # NoClass
      BY DEF WritersSawClass
    <2>1. admin'[b] = admin[b] /\ admin[b].on \in Scopes
      BY <1>6 DEF Idle, Inv, TypeOK, AdminStates
    <2> QED
      BY <1>3, <1>4, <1>5, <2>1 DEF Inv, WritersSawClass
  <1> QED
    BY <1>2, <1>4, <1>5, <1>6, <1>7, <1>8, LearnersKept DEF Inv

(* Every step preserves Inv. *)
LEMMA StepInv == Inv /\ [Next]_vars => Inv'
  <1> SUFFICES ASSUME Inv, [Next]_vars PROVE Inv'
    OBVIOUS
  <1>1. CASE LearnerStep
    BY <1>1, ReportingStep, FilingStep, WithdrawalStep DEF LearnerStep
  <1>2. CASE AdminStep
    BY <1>2, ClassifyStep, SelectStep, UpdateStep DEF AdminStep
  <1>3. CASE UNCHANGED vars
    BY <1>3 DEF vars, Inv, TypeOK, IdsHandedOut, ReporterOwnsSession, CountsCoverReports,
                TriagedBeforeActed, WritersSawClass
  <1> QED
    BY <1>1, <1>2, <1>3 DEF Next

(* Inv, TypeOK among it, holds in every reachable state. *)
THEOREM Invariant == Spec => []Inv
  BY InitInv, StepInv, PTL DEF Spec

(* Rows, issues and requests keep the shapes the schema and the handlers   *)
(* give them, for any number of learners, administrators and scopes.       *)
THEOREM TypeCorrect == Spec => []TypeOK
  BY Invariant, PTL DEF Inv

(* Whatever is deleted and filed again, the counts of an issue cover the   *)
(* reports still linked to it.                                             *)
THEOREM CountsNeverShort == Spec => []CountsCoverReports
  BY Invariant, PTL DEF Inv

(* No issue is quarantined, fixed or reopened that nobody triaged. *)
THEOREM TriageComesFirst == Spec => []TriagedBeforeActed
  BY Invariant, PTL DEF Inv

-----------------------------------------------------------------------------

(* What is hidden grows only with the set of quarantined issues. *)
LEMMA SuppressionsFollow ==
    ASSUME \A k \in Scopes : issue'[k].status = "quarantined" => issue[k].status = "quarantined"
    PROVE  Suppressions' \subseteq Suppressions
  BY DEF Suppressions, CardSuppressed, OccurrenceSuppressed, Suppressed

(* What is hidden shrinks only with the set of quarantined issues. *)
LEMMA SuppressionsLead ==
    ASSUME \A k \in Scopes : issue[k].status = "quarantined" => issue'[k].status = "quarantined"
    PROVE  Suppressions \subseteq Suppressions'
  BY DEF Suppressions, CardSuppressed, OccurrenceSuppressed, Suppressed

(* No learner's request starts or ends a quarantine. *)
LEMMA LearnersHideNothing ==
    ASSUME Inv, LearnerStep
    PROVE  \A q \in Scopes : issue'[q].status = "quarantined" <=> issue[q].status = "quarantined"
  <1>1. PICK r \in Requests :
           \/ UNCHANGED issue
           \/ \E surface \in Surfaces, shown \in Senses, proposed \in Senses \cup {NoSense} :
                  FileReport(r, surface, shown, proposed)
    BY DEF LearnerStep, Authenticate, SaveAnalysis, ReportFromDeck, ReportInline,
           RefuseReport, DeleteSession, DeleteHistory, DeleteAccount
  <1>2. ASSUME NEW surface \in Surfaces, NEW shown \in Senses,
               NEW proposed \in Senses \cup {NoSense}, FileReport(r, surface, shown, proposed)
        PROVE  \A q \in Scopes : issue'[q].status = "quarantined" <=> issue[q].status = "quarantined"
    <2> DEFINE k == [norm |-> NormOf[surface], sense |-> proposed]
               j == Recounted(Grouped(issue[k]), k, feedback')
    <2>1. issue' = [issue EXCEPT ![k] = j]
      BY <1>2 DEF FileReport
    <2>2. k \in Scopes
      BY DEF Scopes, Norms
    <2>3. issue \in [Scopes -> Issues]
      BY DEF Inv, TypeOK
    <2>4. /\ Grouped(issue[k]) \in Issues
          /\ Grouped(issue[k]).status = "quarantined" <=> issue[k].status = "quarantined"
      BY <2>2, <2>3, GroupedIssue
    <2>5. Inv'
      BY <1>2, FilingStep
    <2>6. j.status = Grouped(issue[k]).status
      <3> HIDE DEF k
      <3> QED
        BY <2>4, <2>5, RecountedIssue DEF Inv, TypeOK
    <2> HIDE DEF j
    <2> QED
      BY <2>1, <2>2, <2>3, <2>4, <2>6
  <1> QED
    BY <1>1, <1>2

(* An administrator's request does so only by the write of a quarantine of *)
(* a classified issue, or of a restore.                                    *)
LEMMA AdminsHide ==
    ASSUME Inv, AdminStep
    PROVE  \/ \A q \in Scopes : issue'[q].status = issue[q].status
           \/ \E a \in Admins :
                 /\ admin[a].pc = "quarantining" /\ admin'[a] = Idle
                 /\ issue[admin[a].on].class # NoClass
                 /\ \A q \in Scopes : issue[q].status = "quarantined" => issue'[q].status = "quarantined"
           \/ \E a \in Admins :
                 /\ admin[a].pc = "restoring" /\ admin'[a] = Idle
                 /\ \A q \in Scopes : issue'[q].status = "quarantined" => issue[q].status = "quarantined"
  <1> DEFINE Goal == \/ \A q \in Scopes : issue'[q].status = issue[q].status
                     \/ \E a \in Admins :
                           /\ admin[a].pc = "quarantining" /\ admin'[a] = Idle
                           /\ issue[admin[a].on].class # NoClass
                           /\ \A q \in Scopes : issue[q].status = "quarantined"
                                                   => issue'[q].status = "quarantined"
                     \/ \E a \in Admins :
                           /\ admin[a].pc = "restoring" /\ admin'[a] = Idle
                           /\ \A q \in Scopes : issue'[q].status = "quarantined"
                                                   => issue[q].status = "quarantined"
  <1>1. issue \in [Scopes -> Issues] /\ admin \in [Admins -> AdminStates]
    BY DEF Inv, TypeOK
  <1>2. ASSUME NEW a \in Admins, UNCHANGED issue PROVE Goal
    BY <1>2
  <1>3. ASSUME NEW a \in Admins, NEW k \in Scopes, NEW c \in Classes, Classified(k, c) PROVE Goal
    <2>1. [issue[k] EXCEPT !.class = c].status = issue[k].status
      BY <1>1, NewClass
    <2> QED
      BY <1>1, <1>3, <2>1 DEF Classified
  <1>4. ASSUME NEW a \in Admins, NEW pc \in {"quarantining", "restoring"}, NEW st \in Statuses,
               UpdateStatus(a, pc, st)
        PROVE  /\ admin[a].pc = pc /\ admin'[a] = Idle /\ issue[admin[a].on].class # NoClass
               /\ issue'[admin[a].on].status = st
               /\ \A q \in Scopes : q # admin[a].on => issue'[q] = issue[q]
    <2> DEFINE k == admin[a].on
    <2>1. k \in Scopes /\ issue[k].class # NoClass
      BY <1>1, <1>4 DEF Inv, UpdateStatus, AdminStates, WritersSawClass
    <2>2. [issue[k] EXCEPT !.status = st].status = st
      BY <1>1, <2>1, NewStatus
    <2> QED
      BY <1>1, <1>4, <2>1, <2>2 DEF UpdateStatus
  <1>5. ASSUME NEW a \in Admins, Quarantine(a) PROVE Goal
    <2>1. UpdateStatus(a, "quarantining", "quarantined") /\ "quarantined" \in Statuses
      BY <1>5 DEF Quarantine, Statuses
    <2> QED
      BY <1>4, <2>1
  <1>6. ASSUME NEW a \in Admins, Restore(a) PROVE Goal
    <2>1. UpdateStatus(a, "restoring", "fixed") /\ "fixed" \in Statuses
      BY <1>6 DEF Restore, Statuses
    <2> QED
      BY <1>4, <2>1
  <1> HIDE DEF Goal
  <1>7. Goal
    BY <1>2, <1>3, <1>5, <1>6 DEF AdminStep, Triage, QuarantineTriage, RefuseAdmin,
       SelectForQuarantine, SelectForRestore
  <1> QED
    BY <1>7 DEF Goal

(* Content leaves circulation only by an administrator's quarantine and    *)
(* returns only by a restore.                                              *)
THEOREM ReportsHideNothing == Spec => OnlyAdminsHide
  <1> DEFINE A ==
        /\ ~(Suppressions' \subseteq Suppressions) =>
              \E a \in Admins : /\ admin[a].pc = "quarantining" /\ admin'[a] = Idle
                                /\ issue[admin[a].on].class # NoClass
        /\ ~(Suppressions \subseteq Suppressions') =>
              \E a \in Admins : admin[a].pc = "restoring" /\ admin'[a] = Idle
  <1>1. Inv /\ [Next]_vars => [A]_vars
    <2> SUFFICES ASSUME Inv, Next PROVE A
      BY DEF vars
    <2>1. CASE LearnerStep
      BY <2>1, LearnersHideNothing, SuppressionsFollow, SuppressionsLead
    <2>2. CASE AdminStep
      BY <2>2, AdminsHide, SuppressionsFollow, SuppressionsLead
    <2> QED
      BY <2>1, <2>2 DEF Next
  <1> QED
    BY <1>1, Invariant, PTL DEF Spec, OnlyAdminsHide

(* A learner's report disappears only by that learner's own deletion. *)
THEOREM ReportsAreTheirs == Spec => OnlyOwnReportsWithdrawn
  <1> DEFINE A == \A f \in feedback \ feedback' :
                    \E r \in Requests : /\ request[r] = [pc |-> "authenticated", user |-> f.user]
                                        /\ request'[r] = Idle
  <1>1. Inv /\ [Next]_vars => [A]_vars
    <2> SUFFICES ASSUME Inv, Next, NEW f \in feedback \ feedback'
                 PROVE  \E r \in Requests : /\ request[r] = [pc |-> "authenticated", user |-> f.user]
                                            /\ request'[r] = Idle
      BY DEF vars
    <2>1. PICK r \in Requests :
             \/ \E s \in sessions : DeleteSession(r, s)
             \/ DeleteHistory(r)
             \/ DeleteAccount(r)
      BY DEF Next, LearnerStep, AdminStep, Authenticate, SaveAnalysis, ReportFromDeck, ReportInline,
             RefuseReport, FileReport, Triage, QuarantineTriage, RefuseAdmin, SelectForQuarantine,
             SelectForRestore, Quarantine, Restore, UpdateStatus, learnerVars
    <2>2. At(r, "authenticated") /\ request'[r] = Idle
      BY <2>1 DEF DeleteSession, DeleteHistory, DeleteAccount, Inv, TypeOK
    <2>3. request[r] = [pc |-> "authenticated", user |-> request[r].user]
      BY <2>2 DEF At, Inv, TypeOK, RequestStates
    <2>4. \/ f.user = request[r].user
          \/ \E s \in sessions : s.user = request[r].user /\ f.session = s.id
      BY <2>1 DEF DeleteSession, DeleteHistory, DeleteAccount, DropSessions, FiledUnder, OwnedBy
    <2>5. f.user = request[r].user
      BY <2>4 DEF Inv, ReporterOwnsSession
    <2> QED
      BY <2>2, <2>3, <2>5
  <1> QED
    BY <1>1, Invariant, PTL DEF Spec, OnlyOwnReportsWithdrawn

-----------------------------------------------------------------------------

(* Filing creates the issue it links to; no step deletes an issue. *)
LEMMA LinkedStep ==
    ASSUME Inv, LinkedRowsExist, [Next]_vars
    PROVE  LinkedRowsExist'
  <1>1. issue \in [Scopes -> Issues] /\ feedback \in SUBSET Reports
    BY DEF Inv, TypeOK
  <1>2. \A f \in Reports : f.scope \in Scopes
    BY DEF Reports
  <1>3. ASSUME NEW surface \in Surfaces, NEW shown \in Senses,
               NEW proposed \in Senses \cup {NoSense}, NEW r \in Requests,
               FileReport(r, surface, shown, proposed)
        PROVE  LinkedRowsExist'
    <2> DEFINE k == [norm |-> NormOf[surface], sense |-> proposed]
               row == [id |-> reportId + 1, user |-> request[r].user,
                       session |-> request[r].session,
                       surface |-> surface, shown |-> shown, scope |-> k]
               j == Recounted(Grouped(issue[k]), k, feedback')
    <2>1. issue' = [issue EXCEPT ![k] = j] /\ feedback' = feedback \cup {row} /\ row.scope = k
      BY <1>3 DEF FileReport
    <2>2. k \in Scopes
      BY DEF Scopes, Norms
    <2>3. Inv'
      BY <1>3, FilingStep
    <2>4. j.status # "none"
      <3>1. Grouped(issue[k]) \in Issues /\ Grouped(issue[k]).status # "none"
        BY <1>1, <2>2, GroupedIssue
      <3> HIDE DEF k
      <3> QED
        BY <2>3, <3>1, RecountedIssue DEF Inv, TypeOK
    <2> HIDE DEF j, k, row
    <2>5. \A q \in Scopes : issue[q].status # "none" => issue'[q].status # "none"
      BY <1>1, <2>1, <2>4
    <2>6. issue'[k].status # "none"
      BY <1>1, <2>1, <2>2, <2>4
    <2> QED
      BY <1>1, <1>2, <2>1, <2>5, <2>6 DEF LinkedRowsExist, Exists
  <1>4. ASSUME NEW k \in Scopes, NEW c \in Classes, Classified(k, c), UNCHANGED feedback
        PROVE  LinkedRowsExist'
    <2>1. [issue[k] EXCEPT !.class = c].status = issue[k].status
      BY <1>1, NewClass
    <2> QED
      BY <1>1, <1>2, <1>4, <2>1 DEF LinkedRowsExist, Exists, Classified
  <1>5. ASSUME NEW a \in Admins, Quarantine(a) \/ Restore(a)
        PROVE  LinkedRowsExist'
    <2>1. PICK pc \in {"quarantining", "restoring"}, st \in {"quarantined", "fixed"} :
             UpdateStatus(a, pc, st)
      BY <1>5 DEF Quarantine, Restore
    <2> DEFINE k == admin[a].on
    <2>2. k \in Scopes
      BY <2>1 DEF UpdateStatus, Inv, TypeOK, AdminStates
    <2>3. [issue[k] EXCEPT !.status = st].status = st
      BY <1>1, <2>1, <2>2, NewStatus DEF Statuses
    <2>4. issue' = [issue EXCEPT ![k] = [issue[k] EXCEPT !.status = st]] /\ UNCHANGED feedback
      BY <2>1 DEF UpdateStatus, learnerVars
    <2> QED
      BY <1>1, <1>2, <2>1, <2>2, <2>3, <2>4 DEF LinkedRowsExist, Exists
  <1>6. CASE UNCHANGED issue /\ feedback' \subseteq feedback
    BY <1>6 DEF LinkedRowsExist, Exists
  <1>7. CASE LearnerStep
    BY <1>3, <1>6, <1>7 DEF LearnerStep, Authenticate, SaveAnalysis, ReportFromDeck, ReportInline,
       RefuseReport, DeleteSession, DeleteHistory, DeleteAccount, DropSessions
  <1>8. CASE AdminStep
    BY <1>4, <1>5, <1>6, <1>8 DEF AdminStep, Triage, QuarantineTriage, RefuseAdmin,
       SelectForQuarantine, SelectForRestore, learnerVars
  <1>9. CASE UNCHANGED vars
    BY <1>6, <1>9 DEF vars
  <1> QED
    BY <1>7, <1>8, <1>9 DEF Next

(* Listed reports are linked reports, and counted ones. *)
LEMMA ListsFollow ==
    ASSUME Inv, LinkedRowsExist
    PROVE  ListsAgree
  <1>1. ListParseFeedback("any") = feedback
    BY DEF ListParseFeedback
  <1>2. \A k \in Scopes : {f \in feedback : IssueForFeedback(f) = k} = LinkedTo(k, feedback)
    BY DEF IssueForFeedback, LinkedTo
  <1>3. ASSUME NEW k \in Scopes, Exists(k)
        PROVE  GetCorrectionIssue(k) \in ListCorrectionIssues("any")
    BY <1>3 DEF ListCorrectionIssues
  <1>4. ASSUME NEW f \in feedback
        PROVE  GetCorrectionIssue(IssueForFeedback(f)) \in ListCorrectionIssues("any")
    BY <1>3 DEF IssueForFeedback, LinkedRowsExist, Inv, TypeOK, Reports
  <1>5. ASSUME NEW k \in Scopes,
               Cardinality(ReportersOf(LinkedTo(k, feedback))) >= QuarantineThreshold
        PROVE  \E item \in ListCorrectionIssues("any") :
                   /\ item.scope = k
                   /\ item.badge \/ item.row.status \in {"quarantined", "fixed"}
    <2> DEFINE n == Cardinality(ReportersOf(LinkedTo(k, feedback)))
    <2>1. n \in Nat /\ QuarantineThreshold \in Nat \ {0} /\ issue[k].reporters \in Nat
      BY Countable, IssueAssumption DEF Inv, TypeOK, Issues
    <2>2. issue[k].reporters >= QuarantineThreshold
      BY <1>5, <2>1 DEF Inv, CountsCoverReports
    <2>3. LinkedTo(k, feedback) # {}
      <3>1. n # 0
        BY <1>5, <2>1
      <3> HIDE DEF n
      <3> SUFFICES ASSUME LinkedTo(k, feedback) = {} PROVE FALSE
        OBVIOUS
      <3>2. ReportersOf(LinkedTo(k, feedback)) = {}
        BY DEF ReportersOf
      <3> QED
        BY <3>1, <3>2, FS_EmptySet DEF n
    <2>4. Exists(k)
      BY <2>3 DEF LinkedTo, LinkedRowsExist
    <2>5. GetCorrectionIssue(k) \in ListCorrectionIssues("any")
      BY <1>3, <2>4
    <2>6. /\ GetCorrectionIssue(k).scope = k
          /\ GetCorrectionIssue(k).row = issue[k]
          /\ GetCorrectionIssue(k).badge = ThresholdCandidate(issue[k])
      BY DEF GetCorrectionIssue
    <2> QED
      BY <2>2, <2>5, <2>6 DEF ThresholdCandidate
  <1> QED
    BY <1>1, <1>2, <1>4, <1>5 DEF ListsAgree

(* An administrator who reads the feedback list finds every issue in the   *)
(* ledger, with its badge up once enough learners stand behind it.         *)
THEOREM LedgerIsComplete == Spec => []ListsAgree
  <1>1. Init => LinkedRowsExist
    BY DEF Init, LinkedRowsExist
  <1>2. Inv /\ LinkedRowsExist /\ [Next]_vars => LinkedRowsExist'
    BY LinkedStep
  <1>3. Inv /\ LinkedRowsExist => ListsAgree
    BY ListsFollow
  <1> QED
    BY <1>1, <1>2, <1>3, Invariant, PTL DEF Spec
=============================================================================
