------------------------------- MODULE Reports -------------------------------
(***************************************************************************)
(* Report jobs beside the rest of an investigation: the request            *)
(* (routes/reports.py), the job a worker claims and build_report()         *)
(* (core/pipeline.py, reporting/report_generator.py), its expiry, and the  *)
(* steps of Investigations that change what a report is made from.         *)
(***************************************************************************)
EXTENDS Investigations

VARIABLES
    report,     \* db.reports: the status of each report
    reportJob,  \* status of its job
    expiring,   \* report jobs that expire_jobs() failed, their report not yet
    taken,      \* what the request and the snapshot have read
    outputs,    \* encrypted files on disk
    cut         \* history: emails that lost their analysis while linked

reportVars == <<report, reportJob, expiring, taken, outputs>>
allVars == <<vars, reportVars, cut>>

Formats == {"pdf", "json"}
Untouched == [case |-> Missing, asked |-> {}, emails |-> {}, analysed |-> {},
              evidence |-> {}, originals |-> {}]

ReportInit ==
    /\ Init
    /\ report = [r \in Requests |-> Missing]
    /\ reportJob = [r \in Requests |-> Missing]
    /\ expiring = {}
    /\ taken = [r \in Requests |-> Untouched]
    /\ outputs = [r \in Requests |-> {}]
    /\ cut = {}

Takes(r, from, to, what) ==
    /\ Step(r, from, to)
    /\ taken' = [taken EXCEPT ![r] = what]
    /\ UNCHANGED <<report, reportJob, expiring, outputs>>

MutantReportable(c) == cases[c].emails # {}
Reportable(c) ==
    cases[c].emails # {} /\ \A e \in cases[c].emails : analysis[e] # Missing

AskReport(r, c) ==
    /\ Reportable(c)
    /\ Takes(r, "idle", "insert", [Untouched EXCEPT !.case = c, !.asked = cases[c].emails])

InsertReport(r) ==
    /\ Step(r, "insert", "insert job")
    /\ report' = [report EXCEPT ![r] = "Uploaded"]
    /\ UNCHANGED <<reportJob, expiring, taken, outputs>>

InsertJob(r) ==
    /\ Step(r, "insert job", "queued")
    /\ reportJob' = [reportJob EXCEPT ![r] = "Uploaded"]
    /\ UNCHANGED <<report, expiring, taken, outputs>>

\* process(): the claim; the lease is not renewed while the report is built.
ClaimReport(r) ==
    /\ reportJob[r] = "Uploaded"
    /\ Step(r, "queued", "case")
    /\ reportJob' = [reportJob EXCEPT ![r] = "Claimed"]
    /\ UNCHANGED <<report, expiring, taken, outputs>>

TakeCase(r) ==
    LET case == cases[taken[r].case] IN
    Takes(r, "case", "analyses",
          [taken[r] EXCEPT !.emails = case.emails, !.evidence = case.evidence])

\* The evidence of the report: what the case lists, and what was analysed.
TakeAnalyses(r) ==
    LET found == {e \in taken[r].emails : analysis[e] # Missing} IN
    Takes(r, "analyses", "rows",
          [taken[r] EXCEPT !.analysed = found, !.evidence = @ \cup found])

MutantPreservedAll(ids, stored) == TRUE
PreservedAll(ids, stored) == ids \subseteq stored

TakeRows(r) ==
    /\ PreservedAll(taken[r].evidence, rows)
    /\ Takes(r, "rows", "originals",
             [taken[r] EXCEPT !.originals = taken[r].evidence \cap rows])

TakeOriginals(r) ==
    /\ taken[r].originals \subseteq files
    /\ Takes(r, "originals", "pdf", taken[r])

Write(r, format, next) ==
    /\ Step(r, format, next)
    /\ outputs' = [outputs EXCEPT ![r] = @ \cup {format}]
    /\ UNCHANGED <<report, reportJob, expiring, taken>>

MarkReport(r) ==
    /\ Step(r, "mark", "finish")
    /\ report' = [report EXCEPT ![r] = "Completed"]
    /\ UNCHANGED <<reportJob, expiring, taken, outputs>>

FinishJob(r) ==
    /\ Step(r, "finish", "custody")
    /\ reportJob' = [reportJob EXCEPT ![r] = "Completed"]
    /\ UNCHANGED <<report, expiring, taken, outputs>>

Custody(r) ==
    /\ Step(r, "custody", "done")
    /\ UNCHANGED <<report, reportJob, expiring, taken, outputs>>

Building == {"case", "analyses", "rows", "originals", "pdf", "json", "mark", "finish",
             "custody"}

\* An exception anywhere in build_report(): the job is failed, then the report.
FailJob(r) ==
    /\ at[r] \in Building /\ Step(r, at[r], "fail report")
    /\ reportJob' = [reportJob EXCEPT ![r] = "Failed"]
    /\ UNCHANGED <<report, expiring, taken, outputs>>

FailReport(r) ==
    /\ Step(r, "fail report", "done")
    /\ report' = [report EXCEPT ![r] = "Failed"]
    /\ UNCHANGED <<reportJob, expiring, taken, outputs>>

\* The process that asks or builds is lost.
ReportLost(r) ==
    /\ at[r] \in Building \cup {"insert job", "fail report"}
    /\ Step(r, at[r], "done")
    /\ UNCHANGED <<report, reportJob, expiring, taken, outputs>>

ExpireReport(r) ==
    /\ reportJob[r] = "Claimed"
    /\ reportJob' = [reportJob EXCEPT ![r] = "Failed"]
    /\ expiring' = expiring \cup {r}
    /\ UNCHANGED <<at, my, report, taken, outputs>>

MutantExpired(status) == "Failed"
Expired(status) == IF status = "Completed" THEN status ELSE "Failed"

FailExpired(r) ==
    /\ r \in expiring /\ expiring' = expiring \ {r}
    /\ report' = [report EXCEPT ![r] = Expired(@)]
    /\ UNCHANGED <<at, my, reportJob, taken, outputs>>

Reporting(r) ==
    \/ \E c \in Cases : AskReport(r, c)
    \/ InsertReport(r) \/ InsertJob(r) \/ ClaimReport(r) \/ TakeCase(r)
    \/ TakeAnalyses(r) \/ TakeRows(r) \/ TakeOriginals(r)
    \/ Write(r, "pdf", "json") \/ Write(r, "json", "mark")
    \/ MarkReport(r) \/ FinishJob(r) \/ Custody(r)
    \/ FailJob(r) \/ FailReport(r) \/ ReportLost(r) \/ ExpireReport(r) \/ FailExpired(r)

ReportNext ==
    \/ /\ Next
       /\ cut' = cut \cup {e \in LinkedEmails : analysis[e] # Missing /\ analysis'[e] = Missing}
       /\ UNCHANGED reportVars
    \/ \E r \in Requests : Reporting(r) /\ UNCHANGED <<data, history, cut>>

ReportSpec == ReportInit /\ [][ReportNext]_allVars

----------------------------------------------------------------------------
(* Properties. *)

\* A completed report can be downloaded in both formats and holds the verified
\* original of each piece of evidence of its case and of its analyses
\* (report_generator.py:19-28).
CompletedReportIsWhole ==
    \A r \in Requests : report[r] = "Completed" =>
        /\ outputs[r] = Formats
        /\ taken[r].evidence \subseteq taken[r].originals

\* A completed report covers every email its case had when it was asked for,
\* unless a sweep that began before the email was linked took its analysis
\* (reports.py:15, report_generator.py:16).
ReportCoversRequest ==
    \A r \in Requests : report[r] = "Completed" =>
        taken[r].asked \subseteq taken[r].analysed \cup cut

\* The job of a report never completes without it, and what has completed is
\* not failed by a late expiry (pipeline.py:208-217).
JobCompletesWithReport ==
    \A r \in Requests : reportJob[r] = "Completed" => report[r] = "Completed"
=============================================================================
