---------------------------- MODULE Assessments ----------------------------
(***************************************************************************)
(* Compliance reports: the monitor's checks with the runs the scheduler    *)
(* stores, the evidence for SOC 2, the dashboard and the test suite.  Each *)
(* counts documents and audit entries in one statement after another, and  *)
(* under READ COMMITTED each statement counts what is there by then: other *)
(* sessions commit in between.                                             *)
(***************************************************************************)
EXTENDS Integers, Sequences, FiniteSets, SequencesExt

CONSTANTS
  Papers,            \* the documents of the tenant
  RetentionSample,   \* 1000: with fewer entries retention is not evaluated
  MaxRuns,           \* bound on the reports that are asked for
  MaxCommits         \* bound on what other sessions commit

ASSUME AssessmentAssumption ==
  /\ IsFiniteSet(Papers)
  /\ RetentionSample \in Nat \ {0} /\ MaxRuns \in Nat /\ MaxCommits \in Nat

VARIABLES
  papers,            \* "none", "unlabelled" or "labelled" (its classification)
  audit_log,         \* the age of each entry: these are numbered, event by event
  reporting,         \* the request under way: its kind, whether its transaction is aborted
  counted,              \* what the statements of its present section have counted
  findings,          \* the sections it has finished
  compliance_runs,   \* the committed runs
  answer,            \* the last report that was answered
  relabelled,        \* history: documents have changed since they were last counted
  budget             \* history: reports and commits so far

assessVars == <<papers, audit_log, reporting, counted, findings, compliance_runs, answer, relabelled, budget>>

(* Ages of an entry: within the day, within the month, more than eighteen  *)
(* months, more than three years.                                          *)
Ages == 0 .. 3
Events == {"login", "failed login", "upload", "pii", "breach"}

Logs(events, ages) == {e \in DOMAIN audit_log : e[1] \in events /\ audit_log[e] \in ages}

Tally(events, ages) == Cardinality(Logs(events, ages))

(* The active users of the tenant, who may be others for each statement.   *)
Staffing == {[admins |-> 0, all |-> 1], [admins |-> 1, all |-> 2], [admins |-> 2, all |-> 3]}

(* What a statement may answer.  Details are for the reader of the report: *)
(* a distribution, the time of an entry.                                   *)
Answers(query) ==
  CASE query = "documents" -> {Cardinality({p \in Papers : papers[p] # "none"})}
    [] query = "classified" -> {Cardinality({p \in Papers : papers[p] = "labelled"})}
    [] query = "users" -> Staffing
    [] query = "logins" -> {Tally({"login"}, {0})}
    [] query = "failed logins" -> {Tally({"failed login"}, {0})}
    [] query = "entries" -> {Tally(Events, Ages)}
    [] query = "entries today" -> {Tally(Events, {0})}
    [] query = "entries over 18 months" -> {Tally(Events, {2, 3})}
    [] query = "entries over 3 years" -> {Tally(Events, {3})}
    [] query = "pii this month" -> {Tally({"pii"}, {0, 1})}
    [] query = "uploads this month" -> {Tally({"upload"}, {0, 1})}
    [] query = "pii" -> {Tally({"pii"}, Ages)}
    [] query = "requests" -> {Tally(Events, {0, 1})}
    [] query = "breaches" -> {Tally({"breach"}, {0, 1})}
    [] query = "errors" -> {Tally({"failed login"}, {0, 1})}
    [] query = "details" -> {0}

(* The sections of each report with their statements: all of those that    *)
(* the monitor makes, and of the other reports those of the sections that  *)
(* have something to decide.                                               *)
MonitorChecks ==
  << [name |-> "data_classification", reads |-> <<"documents", "classified", "details">>],
     [name |-> "access_controls", reads |-> <<"users", "logins", "failed logins">>],
     [name |-> "encryption", reads |-> <<"entries">>],
     [name |-> "audit_logging", reads |-> <<"entries", "entries today", "details", "details">>],
     [name |-> "data_retention",
      reads |-> <<"entries", "entries over 18 months", "entries over 3 years", "details">>],
     [name |-> "pii_handling", reads |-> <<"pii this month", "uploads this month", "pii">>] >>

Soc2Evidence ==
  << [name |-> "A1.1", reads |-> <<"requests", "errors">>],
     [name |-> "C1.1", reads |-> <<"documents", "classified", "details">>] >>

GdprEvidence == << [name |-> "Art. 33-34", reads |-> <<"breaches">>] >>

Iso27001Evidence == << [name |-> "A.5.15", reads |-> <<"users", "users">>] >>

Soc2Export ==
  << [name |-> "total_users", reads |-> <<"users", "users">>],
     [name |-> "A1.1", reads |-> <<"requests", "errors">>] >>

DashboardPanels ==
  << [name |-> "classification_coverage", reads |-> <<"documents", "classified">>],
     [name |-> "audit_completeness", reads |-> <<"requests">>],
     [name |-> "pii_incidents", reads |-> <<"pii this month">>] >>

TestSuite ==
  << [name |-> "tenant_isolation", reads |-> <<"users", "documents">>],
     [name |-> "classification_enforcement", reads |-> << >>],
     [name |-> "pii_redaction", reads |-> << >>],
     [name |-> "test_audit_logging", reads |-> <<"entries">>],
     [name |-> "rbac_enforcement", reads |-> <<"users">>],
     [name |-> "export_control", reads |-> <<"entries">>],
     [name |-> "ai_disclosure", reads |-> <<"entries">>] >>

Reports == [check |-> MonitorChecks, soc2 |-> Soc2Evidence, gdpr |-> GdprEvidence,
            iso27001 |-> Iso27001Evidence, export |-> Soc2Export,
            dashboard |-> DashboardPanels, tests |-> TestSuite]

(* The access policy that the test of the classification tries out.        *)
CheckAccess(user_role, class, acl, user) ==
  [allowed |-> \/ class \in {"class_i", "class_ii"}
               \/ class = "class_iii" /\ user_role # "viewer" /\ user \in acl,
   requires_approval |-> class = "class_iv"]

ClassificationIsEnforced ==
  /\ ~CheckAccess("viewer", "class_iii", {"somebody else"}, "user").allowed
  /\ ~CheckAccess("operator", "class_iii", {}, "user").allowed
  /\ CheckAccess("operator", "class_iii", {"user"}, "user").allowed
  /\ ~CheckAccess("admin", "class_iv", {}, "user").allowed
  /\ CheckAccess("admin", "class_iv", {}, "user").requires_approval

ClassificationVerdict(total, classified) ==
  CASE total = 0 -> "SKIP"
    [] total # 0 /\ classified = total -> "PASS"
    [] total # 0 /\ classified # total /\ 5 * classified >= 4 * total -> "WARNING"
    [] OTHER -> "FAIL"

AccessVerdict(users, logins, failed) ==
  CASE users.admins = 0 \/ 5 * failed > logins + failed -> "FAIL"
    [] users.admins # 0 /\ 2 * users.admins > users.all /\ users.all > 2 -> "WARNING"
    [] OTHER -> "PASS"

AuditVerdict(total, today) ==
  CASE total = 0 -> "FAIL" [] total # 0 /\ today = 0 -> "WARNING" [] OTHER -> "PASS"

RetentionVerdict(total, over18, overdue) ==
  CASE total < RetentionSample -> "SKIP"
    [] total >= RetentionSample /\ overdue > 0 -> "FAIL"
    [] total >= RetentionSample /\ overdue = 0 /\ over18 > 0 -> "WARNING"
    [] OTHER -> "PASS"

(* Mutant of PiiVerdict: personal data found before this month do not count. *)
PiiVerdictThisMonth(pii30, uploads30, pii) ==
  IF uploads30 > 0 /\ pii30 = 0 THEN "WARNING" ELSE "PASS"

PiiVerdict(pii30, uploads30, pii) ==
  IF uploads30 > 0 /\ pii30 = 0 /\ pii = 0 THEN "WARNING" ELSE "PASS"

(* Encryption is the platform's; the events it counts are details. *)
EncryptionVerdict == "PASS"

(* Evidence of confidentiality: every document has its label. *)
ConfidentialityStatus(total, classified) ==
  IF total = 0 \/ classified = total THEN "satisfied" ELSE "partial"

Uptime(total, failed) == IF total = 0 THEN 100 ELSE (100 * (total - failed)) \div total

Coverage(total, classified) == IF total = 0 THEN 100 ELSE (100 * classified) \div total

TestVerdict(passed) == IF passed THEN "passed" ELSE "failed"

(* A tenant without users passes, one whose users have no admin does not.  *)
RbacTest(users) == users.all = 0 \/ users.admins > 0

(* The tests that look for what their own query has selected: rows of the  *)
(* tenant, entries with an action or with a model.                         *)
SelfSelecting == {"tenant_isolation", "test_audit_logging", "export_control", "ai_disclosure"}

(* The operators are what is left of the users without the admins, of whom *)
(* there may be more by then.                                              *)
Operators(users, later) == users.all - later.admins

(* What a section may conclude from the counts n. *)
Verdicts(name, n) ==
  CASE name = "data_classification" -> {ClassificationVerdict(n[1], IF Len(n) = 1 THEN 0 ELSE n[2])}
    [] name = "access_controls" -> {AccessVerdict(n[1], n[2], n[3])}
    [] name = "encryption" -> {EncryptionVerdict}
    [] name = "audit_logging" -> {AuditVerdict(n[1], n[2])}
    [] name = "data_retention" ->
         {IF Len(n) = 1 THEN "SKIP" ELSE RetentionVerdict(n[1], n[2], n[3])}
    [] name = "pii_handling" -> {PiiVerdict(n[1], n[2], n[3])}
    [] name = "A1.1" -> {Uptime(n[1], n[2])}
    [] name = "C1.1" -> {ConfidentialityStatus(n[1], n[2])}
    [] name = "Art. 33-34" -> {IF n[1] = 0 THEN "satisfied" ELSE "partial"}
    [] name = "A.5.15" -> {Operators(n[1], n[2])}
    [] name = "total_users" -> {n[1].all}
    [] name = "classification_coverage" -> {Coverage(n[1], IF Len(n) = 1 THEN 0 ELSE n[2])}
    [] name = "audit_completeness" -> {IF n[1] > 0 THEN 100 ELSE 0}
    [] name = "pii_incidents" -> {n[1]}
    [] name = "classification_enforcement" -> {TestVerdict(ClassificationIsEnforced)}
    [] name = "pii_redaction" -> {"passed", "failed"}  \* the sanitizer is not modelled
    [] name = "rbac_enforcement" -> {TestVerdict(RbacTest(n[1]))}
    [] name \in SelfSelecting -> {"passed"}

(* Early returns: the first count decides, or nothing is counted at all.   *)
Decided(section, n) ==
  \/ Len(n) = Len(section.reads)
  \/ /\ section.name \in {"data_classification", "classification_coverage"}
     /\ Len(n) = 1 /\ n[1] = 0
  \/ /\ section.name = "data_retention"
     /\ Len(n) = 1 /\ n[1] < RetentionSample

-----------------------------------------------------------------------------
NoReport == [kind |-> "none", aborted |-> FALSE]

AssessInit ==
  /\ papers = [p \in Papers |-> "none"]
  /\ audit_log = << >>
  /\ reporting = NoReport
  /\ counted = << >>
  /\ findings = << >>
  /\ compliance_runs = << >>
  /\ answer = NoReport
  /\ relabelled = FALSE
  /\ budget = [reports |-> 0, commits |-> 0]

world == <<papers, audit_log>>

(* Another session commits: a document, its label, its deletion, an entry. *)
OtherCommit(newPapers, newLog) ==
  /\ budget.commits < MaxCommits
  /\ papers' = newPapers
  /\ audit_log' = newLog
  /\ relabelled' = (counted # << >> /\ (relabelled \/ newPapers # papers))
  /\ budget' = [budget EXCEPT !.commits = @ + 1]
  /\ UNCHANGED <<reporting, counted, findings, compliance_runs, answer>>

ChangeDocument(p) ==
  \E label \in {"none", "unlabelled", "labelled"} \ {papers[p]} :
    OtherCommit([papers EXCEPT ![p] = label], audit_log)

(* The log with another entry of each of these events. *)
Logged(events) ==
  LET new == {<<event, Tally({event}, Ages) + 1>> : event \in events} IN
  [e \in new \cup DOMAIN audit_log |-> IF e \in DOMAIN audit_log THEN audit_log[e] ELSE 0]

LogEvent(event) == OtherCommit(papers, Logged({event}))

(* An upload whose text holds personal data logs both in one transaction.  *)
LogRedactedUpload == OtherCommit(papers, Logged({"upload", "pii"}))

(* Every entry grows older, between two reports. *)
EntriesAge(by) ==
  /\ reporting = NoReport
  /\ OtherCommit(papers, [e \in DOMAIN audit_log |-> IF audit_log[e] + by > 3 THEN 3 ELSE audit_log[e] + by])
-----------------------------------------------------------------------------
BeginReport(kind) ==
  /\ reporting = NoReport
  /\ budget.reports < MaxRuns
  /\ reporting' = [kind |-> kind, aborted |-> FALSE]
  /\ budget' = [budget EXCEPT !.reports = @ + 1]
  /\ counted' = << >>
  /\ findings' = << >>
  /\ answer' = NoReport
  /\ relabelled' = FALSE
  /\ UNCHANGED <<world, compliance_runs>>

Pending == Len(findings) < Len(Reports[reporting.kind])
Section == Reports[reporting.kind][Len(findings) + 1]

(* The section is finished with this verdict. *)
Conclude(name, verdict) ==
  /\ findings' = Append(findings, [name |-> name, verdict |-> verdict])
  /\ counted' = << >>

(* One statement; the last one that a section needs concludes it. *)
Count ==
  /\ reporting # NoReport /\ Pending
  /\ Section.reads # << >> /\ ~reporting.aborted
  /\ \E n \in {Append(counted, a) : a \in Answers(Section.reads[Len(counted) + 1])} :
       IF Decided(Section, n)
         THEN \E verdict \in Verdicts(Section.name, n) : Conclude(Section.name, verdict)
         ELSE counted' = n /\ findings' = findings
  /\ relabelled' = (counted' # << >> /\ Section.reads[Len(counted) + 1] = "details" /\ relabelled)
  /\ UNCHANGED <<world, reporting, compliance_runs, answer, budget>>

(* The tests that read nothing. *)
TryPolicy ==
  /\ reporting # NoReport /\ Pending
  /\ Section.reads = << >>
  /\ \E verdict \in Verdicts(Section.name, << >>) : Conclude(Section.name, verdict)
  /\ UNCHANGED <<world, reporting, compliance_runs, answer, relabelled, budget>>

(* A statement fails: in the client, or in the server, which aborts the    *)
(* transaction, and then every later statement of the session fails.  The  *)
(* monitor and the test suite count the section as failed and go on; other *)
(* reports end in an error.                                                *)
StatementFails ==
  /\ reporting # NoReport /\ Pending
  /\ Section.reads # << >>
  /\ \E aborts \in {TRUE, FALSE} :
       /\ reporting.aborted => aborts
       /\ IF reporting.kind \in {"check", "tests"}
            THEN /\ reporting' = [reporting EXCEPT !.aborted = aborts]
                 /\ Conclude(Section.name, IF reporting.kind = "check" THEN "FAIL" ELSE "failed")
            ELSE reporting' = NoReport /\ counted' = << >> /\ findings' = << >>
  /\ relabelled' = FALSE
  /\ UNCHANGED <<world, compliance_runs, answer, budget>>

OverallStatus(statuses) ==
  CASE "FAIL" \in statuses -> "FAIL"
    [] "FAIL" \notin statuses /\ "WARNING" \in statuses -> "WARNING"
    [] OTHER -> "PASS"

(* A tenth of a per cent; half of a warning counts. *)
Score(fs) ==
  LET found(verdict) == {i \in DOMAIN fs : fs[i].verdict = verdict}
      scoreable == (DOMAIN fs) \ found("SKIP")
      weight == 2 * Cardinality(found("PASS")) + Cardinality(found("WARNING"))
  IN IF scoreable = {} THEN 1000
     ELSE (1000 * weight + Cardinality(scoreable)) \div (2 * Cardinality(scoreable))

RunOf(fs) ==
  [findings |-> fs, overall_status |-> OverallStatus({f.verdict : f \in Range(fs)}), score |-> Score(fs)]

(* run_now() flushes the run with its findings and the route commits.  An  *)
(* aborted transaction refuses that: the run is lost, and the request ends *)
(* in an error.                                                            *)
StoreRun ==
  /\ reporting.kind = "check" /\ ~Pending
  /\ IF reporting.aborted
       THEN UNCHANGED <<compliance_runs, answer>>
       ELSE /\ compliance_runs' = Append(compliance_runs, RunOf(findings))
            /\ answer' = [reporting EXCEPT !.aborted = FALSE]
  /\ reporting' = NoReport
  /\ findings' = << >>
  /\ UNCHANGED <<world, counted, relabelled, budget>>

(* The other reports are answered and stored nowhere. *)
Answer ==
  /\ reporting # NoReport /\ reporting.kind # "check" /\ ~Pending
  /\ answer' = [kind |-> reporting.kind, aborted |-> reporting.aborted,
                overall_pass |-> reporting.kind = "tests" => \A f \in Range(findings) : f.verdict # "failed"]
  /\ reporting' = NoReport
  /\ findings' = << >>
  /\ UNCHANGED <<world, counted, compliance_runs, relabelled, budget>>

(* The client goes, or the connection is lost, and nothing is committed.   *)
Disconnect ==
  /\ reporting # NoReport
  /\ reporting' = NoReport /\ counted' = << >> /\ findings' = << >> /\ relabelled' = FALSE
  /\ UNCHANGED <<world, compliance_runs, answer, budget>>

AssessNext ==
  \/ \E p \in Papers : ChangeDocument(p)
  \/ \E event \in Events : LogEvent(event)
  \/ LogRedactedUpload
  \/ \E by \in 1 .. 3 : EntriesAge(by)
  \/ \E kind \in DOMAIN Reports : BeginReport(kind)
  \/ Count
  \/ TryPolicy
  \/ StatementFails
  \/ StoreRun
  \/ Answer
  \/ Disconnect

AssessSpec == AssessInit /\ [][AssessNext]_assessVars

-----------------------------------------------------------------------------
(* A stored run has a finding of each check, in order; it is passed        *)
(* exactly when its score is full, and failed when a check is.             *)
RunsAreWhole ==
  \A i \in DOMAIN compliance_runs :
    LET run == compliance_runs[i] IN
    /\ [j \in DOMAIN run.findings |-> run.findings[j].name]
         = [j \in 1 .. 6 |-> MonitorChecks[j].name]
    /\ run.overall_status = "PASS" <=> run.score = 1000
    /\ run.overall_status = "FAIL" <=> \E f \in Range(run.findings) : f.verdict = "FAIL"

(* A test suite whose transaction was aborted has not passed.              *)
AbortedTestsFail == answer.kind = "tests" /\ answer.aborted => ~answer.overall_pass

ReportsAreSound == RunsAreWhole /\ AbortedTestsFail

(* What a section concludes is true by then: that all documents are        *)
(* classified, unless documents have changed since the classified ones     *)
(* were counted or their number is no longer the one that was counted      *)
(* first; what the uptime is, unless the number of entries is no longer    *)
(* that one; that personal data are not looked for, or entries kept too    *)
(* long, whatever has happened since.                                      *)
Justified(name, verdict) ==
  LET now(query) == CHOOSE n \in Answers(query) : TRUE IN
  CASE name \in {"data_classification", "C1.1"} /\ verdict \in {"PASS", "satisfied"} ->
         ~relabelled /\ now("documents") = counted[1] => now("classified") = now("documents")
    [] name = "A1.1" -> now("requests") = counted[1] => verdict \in 0 .. 100
    [] name = "pii_handling" /\ verdict = "WARNING" -> now("pii") = 0 /\ now("uploads this month") > 0
    [] name = "data_retention" /\ verdict = "FAIL" -> now("entries over 3 years") > 0
    [] OTHER -> TRUE

FindingsAreJustified ==
  [][Count /\ Len(findings') > Len(findings) => Justified(Last(findings').name, Last(findings').verdict)]_assessVars
=============================================================================
