--------------------------- MODULE Investigations ---------------------------
(***************************************************************************)
(* Everything that reads and writes what an investigation stands on: the   *)
(* closing writes of a worker (core/pipeline.py), rescoring                *)
(* (core/rescore.py), analysts who attach emails and evidence to cases and *)
(* set alerts (routes/investigations.py, campaigns.py, alerts.py), and the *)
(* retention sweep the maintenance scheduler starts (core/retention.py,    *)
(* core/maintenance.py). One step is one database call or file operation,  *)
(* or a run of reads whose values do not meet before the next write.       *)
(*                                                                         *)
(* Each actor does one task: a job, the rescoring of one email, a request  *)
(* of an analyst, a sweep; those of one of Crews meet in a behaviour. An   *)
(* email and its evidence share an identifier. A score stands for its      *)
(* severity too. Every email and evidence is older than the retention.     *)
(***************************************************************************)
EXTENDS Integers, FiniteSets

CONSTANTS
    Emails, Cases, Scores,
    High, AlertThreshold,               \* scores from which alerts are due
    Workers, Rescorers, Analysts, Sweepers,
    Requests,                           \* for a report (Reports)
    Crews,                              \* bound: which of these meet
    MaxRuns,                            \* bound: re-analyses of an email
    Missing

ASSUME ScoresAreNumbers == Scores \subseteq 1..100 /\ MaxRuns \in Nat

ASSUME ThresholdsArePositive == High \in 1..100 /\ AlertThreshold \in 1..100

\* The rows of db.email_analysis: the re-analysis they belong to, the one whose
\* findings their score was computed from, and the version of the scoring.
Analyses == [run : 0..MaxRuns, basis : 0..MaxRuns, score : Scores, version : {"old", "new"}]

\* The rows of db.alerts.
Alerts == [score : Scores, status : {"OPEN", "RESOLVED"}, case : Cases \cup {Missing}]

ASSUME MissingIsApart ==
    Missing \notin Scores \cup Cases \cup Emails \cup Analyses \cup Alerts \cup {"Completed"}

ASSUME ActorsAreDistinct ==
    /\ Requests \cap (Workers \cup Rescorers \cup Analysts \cup Sweepers) = {}
    /\ Sweepers \cap (Workers \cup Rescorers \cup Analysts) = {}
    /\ Analysts \cap (Workers \cup Rescorers) = {}
    /\ Workers \cap Rescorers = {}

VARIABLES
    emails,     \* rows of db.emails
    summary,    \* the risk_score each email row shows
    job,        \* status of each email's latest job
    runs,       \* re-analyses asked for so far
    analysis,   \* db.email_analysis
    indexed,    \* emails that rows of db.iocs name
    alert,      \* db.alerts
    rows, files, caseIds,   \* db.evidence, its files, and evidence.case_ids
    cases, campaigns,
    at, my,     \* each actor's next step, and its local variables
    protected,  \* history: linked and whole when the running sweep began
    torn,       \* history: deletions that a crash or another actor met
    clash       \* history: two actors that write scores overlapped

data == <<emails, summary, job, runs, analysis, indexed, alert, rows, files,
          caseIds, cases, campaigns>>
history == <<protected, torn, clash>>
vars == <<data, at, my, history>>

Actors == Workers \cup Rescorers \cup Analysts \cup Sweepers \cup Requests
Scorers == Workers \cup Rescorers \cup Analysts
Blank == [email |-> Missing, case |-> Missing, score |-> 0, seen |-> Missing,
          left |-> {}, held |-> {}]

Alerting(score) == score >= High \/ score >= AlertThreshold
Newest(S) == CHOOSE x \in S : \A y \in S : y <= x
MutantHigher(x, y) == x + y
Higher(x, y) == IF x < y THEN y ELSE x

\* At most one email is new: acquired, and waiting for its first analysis.
Init ==
    /\ emails = Emails /\ rows = Emails /\ files = Emails
    /\ \E new \in {S \in SUBSET Emails : Cardinality(S) <= 1} :
        /\ summary \in {f \in [Emails -> Scores \cup {0}] :
                         \A e \in Emails : f[e] = 0 <=> e \in new}
        /\ indexed = Emails \ new
    /\ job = [e \in Emails |-> IF e \in indexed THEN "Completed" ELSE "Pending"]
    /\ runs = [e \in Emails |-> 0]
    /\ analysis = [e \in Emails |-> IF e \in indexed
            THEN [run |-> 0, basis |-> 0, score |-> summary[e], version |-> "old"]
            ELSE Missing]
    /\ alert = [e \in Emails |->
            IF Alerting(summary[e])
            THEN [score |-> summary[e], status |-> "OPEN", case |-> Missing]
            ELSE Missing]
    /\ caseIds = [e \in Emails |-> {}]
    /\ cases = [c \in Cases |->
            [emails |-> {}, evidence |-> {}, score |-> 0, severity |-> 0]]
    /\ campaigns = {}
    /\ \E crew \in Crews :
        at = [a \in Actors |-> IF a \in crew THEN "idle" ELSE "done"]
    /\ my = [a \in Actors |-> Blank]
    /\ protected = [s \in Sweepers |-> {}]
    /\ torn = {} /\ clash = FALSE

Busy(a) == at[a] \notin {"idle", "done"}
Go(a, from, to, local) ==
    /\ at[a] = from
    /\ at' = [at EXCEPT ![a] = to]
    /\ my' = [my EXCEPT ![a] = local]
Step(a, from, to) == Go(a, from, to, my[a])
Leave(a, from) == Go(a, from, "done", Blank)

Deleting == {"drop analysis", "drop email", "drop index", "drop jobs", "drop alert"}
BeingDeleted == {my[s].email : s \in {x \in Sweepers : at[x] \in Deleting}}

\* History: an actor that writes scores starts to work on an email.
Starts(a, e) ==
    /\ clash' = (clash \/ \E o \in Scorers \ {a} : Busy(o))
    /\ torn' = torn \cup ({e} \cap BeingDeleted)
    /\ UNCHANGED protected

----------------------------------------------------------------------------
(* A worker, from the claim to the end of process(). *)

\* reanalyze(); its interleavings with other requests are in JobPipeline.
Request(e) ==
    /\ e \in emails /\ runs[e] < MaxRuns
    /\ job[e] \in {"Completed", "Failed"}
    /\ job' = [job EXCEPT ![e] = "Pending"]
    /\ runs' = [runs EXCEPT ![e] = @ + 1]
    /\ torn' = torn \cup ({e} \cap BeingDeleted)
    /\ UNCHANGED <<emails, summary, analysis, indexed, alert, rows, files, caseIds,
                   cases, campaigns, at, my, protected, clash>>

Claim(w, e) ==
    /\ job[e] = "Pending"
    /\ job' = [job EXCEPT ![e] = "Running"]
    /\ Go(w, "idle", "read", [Blank EXCEPT !.email = e])
    /\ Starts(w, e)
    /\ UNCHANGED <<emails, summary, runs, analysis, indexed, alert, rows, files,
                   caseIds, cases, campaigns>>

\* A job that is no longer stored is not brought back by an update.
Finished(e, status) ==
    job' = IF job[e] = "Gone" THEN job ELSE [job EXCEPT ![e] = status]

\* original(), then the analysis, which may fail too (EmailAnalysis).
ReadOriginal(w) ==
    LET e == my[w].email IN
    /\ \/ e \in rows \cap files /\ Step(w, "read", "store") /\ UNCHANGED job
       \/ Leave(w, "read") /\ Finished(e, "Failed")
    /\ UNCHANGED <<emails, summary, runs, analysis, indexed, alert, rows, files,
                   caseIds, cases, campaigns, history>>

Store(w) ==
    LET e == my[w].email IN
    \E s \in Scores :
        /\ Go(w, "store", "summary", [my[w] EXCEPT !.score = s])
        /\ analysis' = [analysis EXCEPT ![e] =
                [run |-> runs[e], basis |-> runs[e], score |-> s, version |-> "new"]]
        /\ UNCHANGED <<emails, summary, job, runs, indexed, alert, rows, files,
                       caseIds, cases, campaigns, history>>

\* The email row is updated if it is there. Rescoring also asks for an email
\* that is Completed.
Summarise(a) ==
    LET e == my[a].email IN
    /\ Step(a, "summary", IF a \in Workers THEN "cases" ELSE "refresh")
    /\ summary' = IF e \in emails /\ (a \in Workers \/ job[e] = "Completed")
                  THEN [summary EXCEPT ![e] = my[a].score] ELSE summary
    /\ UNCHANGED <<emails, job, runs, analysis, indexed, alert, rows, files,
                   caseIds, cases, campaigns, history>>

\* The cases of the email, with their emails as they are now.
FindCases(a) ==
    LET found == {c \in Cases : my[a].email \in cases[c].emails} IN
    /\ Go(a, "cases", "each case",
          [my[a] EXCEPT !.left = {[case |-> c, emails |-> cases[c].emails] : c \in found}])
    /\ UNCHANGED <<data, history>>

ReadHighest(a) ==
    \E x \in my[a].left :
        LET stored == {analysis[e].score : e \in {o \in x.emails : analysis[o] # Missing}}
            rest == [my[a] EXCEPT !.left = @ \ {x}]
        IN  /\ IF stored = {} THEN Go(a, "each case", "each case", rest)
               ELSE Go(a, "each case", "write case",
                       [rest EXCEPT !.case = x.case, !.seen = Newest(stored)])
            /\ UNCHANGED <<data, history>>

WriteHighest(a) ==
    /\ Go(a, "write case", "each case", [my[a] EXCEPT !.case = Missing, !.seen = Missing])
    /\ cases' = [cases EXCEPT ![my[a].case].score = my[a].seen,
                              ![my[a].case].severity = my[a].seen]
    /\ UNCHANGED <<emails, summary, job, runs, analysis, indexed, alert, rows, files,
                   caseIds, campaigns, history>>

NoCaseLeft(a) ==
    /\ my[a].left = {}
    /\ IF a \in Workers THEN Step(a, "each case", "index") ELSE Leave(a, "each case")
    /\ UNCHANGED <<data, history>>

Index(w) ==
    /\ Step(w, "index", "refresh")
    /\ indexed' = indexed \cup {my[w].email}
    /\ UNCHANGED <<emails, summary, job, runs, analysis, alert, rows, files, caseIds,
                   cases, campaigns, history>>

MutantRefreshed(row, score) == [row EXCEPT !.score = score, !.status = "OPEN"]
Refreshed(row, score) == [row EXCEPT !.score = score]

RefreshAlert(a) ==
    LET e == my[a].email IN
    /\ Step(a, "refresh", "raise")
    /\ alert' = IF alert[e] = Missing THEN alert
                ELSE [alert EXCEPT ![e] = Refreshed(@, my[a].score)]
    /\ UNCHANGED <<emails, summary, job, runs, analysis, indexed, rows, files,
                   caseIds, cases, campaigns, history>>

\* A worker alerts on high severity, malicious answers and flagged attachments
\* too; rescoring on the threshold alone.
Raises(a, score) ==
    IF a \in Workers THEN Alerting(score) ELSE score >= AlertThreshold

RaiseAlert(a) ==
    LET e == my[a].email IN
    /\ Step(a, "raise", IF a \in Workers THEN "complete" ELSE "cases")
    /\ \E flagged \in IF a \in Workers THEN BOOLEAN ELSE {FALSE} :
        alert' = IF alert[e] = Missing /\ (flagged \/ Raises(a, my[a].score))
                 THEN [alert EXCEPT ![e] =
                        [score |-> my[a].score, status |-> "OPEN", case |-> Missing]]
                 ELSE alert
    /\ UNCHANGED <<emails, summary, job, runs, analysis, indexed, rows, files,
                   caseIds, cases, campaigns, history>>

Complete(w) ==
    /\ Leave(w, "complete")
    /\ Finished(my[w].email, "Completed")
    /\ UNCHANGED <<emails, summary, runs, analysis, indexed, alert, rows, files,
                   caseIds, cases, campaigns, history>>

\* The worker is lost; expire_jobs() fails its job.
WorkerLost(w) ==
    /\ Busy(w) /\ Leave(w, at[w])
    /\ Finished(my[w].email, "Failed")
    /\ UNCHANGED <<emails, summary, runs, analysis, indexed, alert, rows, files,
                   caseIds, cases, campaigns, history>>

----------------------------------------------------------------------------
(* Rescoring: rescore_saved(apply=True). *)

Pick(r, e) ==
    /\ analysis[e] # Missing /\ analysis[e].version = "old"
    /\ Go(r, "idle", "check", [Blank EXCEPT !.email = e, !.seen = analysis[e]])
    /\ Starts(r, e)
    /\ UNCHANGED data

CheckIdle(r) ==
    /\ at[r] = "check"
    /\ IF my[r].email \in emails /\ job[my[r].email] = "Completed"
       THEN Step(r, "check", "rescore") ELSE Leave(r, "check")
    /\ UNCHANGED <<data, history>>

\* The analysis as it is now is still the one that was read.
MutantUnchanged(now, seen) == now # Missing
Unchanged(now, seen) ==
    now # Missing /\ now.run = seen.run /\ now.version = seen.version

Rescore(r) ==
    LET e == my[r].email IN
    /\ at[r] = "rescore"
    /\ IF Unchanged(analysis[e], my[r].seen)
       THEN \E s \in Scores :
            /\ Go(r, "rescore", "summary",
                  [my[r] EXCEPT !.score = s, !.seen = Missing])
            /\ analysis' = [analysis EXCEPT ![e] =
                [run |-> @.run, basis |-> my[r].seen.run, score |-> s, version |-> "new"]]
       ELSE Leave(r, "rescore") /\ UNCHANGED analysis
    /\ UNCHANGED <<emails, summary, job, runs, indexed, alert, rows, files, caseIds,
                   cases, campaigns, history>>

----------------------------------------------------------------------------
(* Analysts. *)

ReadCase(n, c, e) ==
    /\ Go(n, "idle", "attach", [Blank EXCEPT !.case = c, !.email = e,
                                             !.score = cases[c].score])
    /\ Starts(n, e)
    /\ UNCHANGED data

ReadEmail(n) ==
    /\ IF my[n].email \in emails
       THEN Go(n, "attach", "link", [my[n] EXCEPT !.seen = analysis[my[n].email]])
       ELSE Leave(n, "attach")
    /\ UNCHANGED <<data, history>>

\* The case gets the email, its evidence, and the score if that is higher; the
\* severity if the score is no lower than the case had when it was read.
MutantLinked(case, e, seen, read) ==
    [emails |-> case.emails \cup {e}, evidence |-> case.evidence \cup {e},
     score |-> IF seen = Missing THEN case.score ELSE seen.score,
     severity |-> IF seen = Missing THEN case.severity ELSE seen.score]
Linked(case, e, seen, read) ==
    [emails |-> case.emails \cup {e}, evidence |-> case.evidence \cup {e},
     score |-> IF seen = Missing THEN case.score
               ELSE Higher(case.score, seen.score),
     severity |-> IF seen # Missing /\ seen.score >= read THEN seen.score
                  ELSE case.severity]

LinkEmail(n) ==
    LET c == my[n].case IN
    /\ Step(n, "link", "link evidence")
    /\ cases' = [cases EXCEPT ![c] = Linked(@, my[n].email, my[n].seen, my[n].score)]
    /\ UNCHANGED <<emails, summary, job, runs, analysis, indexed, alert, rows, files,
                   caseIds, campaigns, history>>

\* The second half of every link, of an email or of evidence alone.
LinkEvidence(n) ==
    LET e == my[n].email IN
    /\ \/ Step(n, "link evidence", "assign alert")
       \/ Leave(n, "mark evidence")
    /\ caseIds' = IF e \in rows THEN [caseIds EXCEPT ![e] = @ \cup {my[n].case}]
                  ELSE caseIds
    /\ UNCHANGED <<emails, summary, job, runs, analysis, indexed, alert, rows, files,
                   cases, campaigns, history>>

AssignAlert(n) ==
    LET e == my[n].email IN
    /\ Leave(n, "assign alert")
    /\ alert' = IF alert[e] = Missing THEN alert
                ELSE [alert EXCEPT ![e].case = my[n].case]
    /\ UNCHANGED <<emails, summary, job, runs, analysis, indexed, rows, files,
                   caseIds, cases, campaigns, history>>

\* case_evidence(): evidence without its email.
ReadEvidence(n, c, e) ==
    /\ e \in rows
    /\ Go(n, "idle", "list evidence", [Blank EXCEPT !.case = c, !.email = e])
    /\ UNCHANGED <<data, history>>

ListEvidence(n) ==
    /\ Step(n, "list evidence", "mark evidence")
    /\ cases' = [cases EXCEPT ![my[n].case].evidence = @ \cup {my[n].email}]
    /\ UNCHANGED <<emails, summary, job, runs, analysis, indexed, alert, rows, files,
                   caseIds, campaigns, history>>

ReadAnalyses(n, S) ==
    /\ Cardinality(S) >= 2
    /\ \A e \in S : analysis[e] # Missing
    /\ Go(n, "idle", "campaign", [Blank EXCEPT !.left = S])
    /\ UNCHANGED <<data, history>>

InsertCampaign(n) ==
    /\ Leave(n, "campaign")
    /\ campaigns' = campaigns \cup {my[n].left}
    /\ UNCHANGED <<emails, summary, job, runs, analysis, indexed, alert, rows, files,
                   caseIds, cases, history>>

ChangeAlert(n, e) ==
    /\ alert[e] # Missing
    /\ Leave(n, "idle")
    /\ \E status \in {"OPEN", "RESOLVED"} : alert' = [alert EXCEPT ![e].status = status]
    /\ UNCHANGED <<emails, summary, job, runs, analysis, indexed, rows, files, caseIds,
                   cases, campaigns, history>>

----------------------------------------------------------------------------
(* The retention sweep. *)

MutantHeldEmails == UNION {cases[c].emails : c \in Cases}
HeldEmails == (UNION {cases[c].emails : c \in Cases}) \cup (UNION campaigns)

LinkedEmails == (UNION {cases[c].emails : c \in Cases}) \cup (UNION campaigns)
Whole(e) == /\ e \in emails /\ analysis[e] # Missing
            /\ e \in rows /\ e \in files

\* tick() claims the run of this hour; a sweep that takes longer may overlap the
\* next. What is held is read once.
Tick(s) ==
    /\ Go(s, "idle", "emails", [Blank EXCEPT !.left = emails, !.held = HeldEmails])
    /\ protected' = [protected EXCEPT ![s] = {e \in LinkedEmails : Whole(e)}]
    /\ UNCHANGED <<emails, summary, job, runs, analysis, indexed, alert, rows, files,
                   caseIds, cases, campaigns, torn, clash>>

MutantSpared(e, held) == e \in held
Spared(e, held) == e \in held \/ job[e] \in {"Pending", "Running"}

CheckEmail(s) ==
    \E e \in my[s].left :
        LET rest == [my[s] EXCEPT !.left = @ \ {e}] IN
        /\ IF Spared(e, my[s].held)
           THEN Go(s, "emails", "emails", rest) /\ UNCHANGED torn
           ELSE /\ Go(s, "emails", "drop analysis", [rest EXCEPT !.email = e])
                /\ torn' = torn \cup ({e} \cap
                        ({my[r].email : r \in Rescorers} \cup BeingDeleted))
        /\ UNCHANGED <<data, protected, clash>>

DropAnalysis(s) ==
    /\ Step(s, "drop analysis", "drop email")
    /\ analysis' = [analysis EXCEPT ![my[s].email] = Missing]
    /\ UNCHANGED <<emails, summary, job, runs, indexed, alert, rows, files, caseIds,
                   cases, campaigns, history>>

DropEmail(s) ==
    /\ Step(s, "drop email", "drop index")
    /\ emails' = emails \ {my[s].email}
    /\ UNCHANGED <<summary, job, runs, analysis, indexed, alert, rows, files, caseIds,
                   cases, campaigns, history>>

DropIndex(s) ==
    /\ Step(s, "drop index", "drop jobs")
    /\ indexed' = indexed \ {my[s].email}
    /\ UNCHANGED <<emails, summary, job, runs, analysis, alert, rows, files, caseIds,
                   cases, campaigns, history>>

DropJobs(s) ==
    /\ Step(s, "drop jobs", "drop alert")
    /\ job' = [job EXCEPT ![my[s].email] = "Gone"]
    /\ UNCHANGED <<emails, summary, runs, analysis, indexed, alert, rows, files,
                   caseIds, cases, campaigns, history>>

DropAlert(s) ==
    /\ Go(s, "drop alert", "emails", [my[s] EXCEPT !.email = Missing])
    /\ alert' = [alert EXCEPT ![my[s].email] = Missing]
    /\ UNCHANGED <<emails, summary, job, runs, analysis, indexed, rows, files,
                   caseIds, cases, campaigns, history>>

ScanEvidence(s) ==
    /\ my[s].left = {}
    /\ Go(s, "emails", "evidence",
          [my[s] EXCEPT !.left = {x \in rows : caseIds[x] = {}}])
    /\ UNCHANGED <<data, history>>

\* Evidence an email refers to is kept.
MutantReferenced(x) == FALSE
Referenced(x) == x \in emails

CheckEvidence(s) ==
    \E x \in my[s].left :
        LET rest == [my[s] EXCEPT !.left = @ \ {x}] IN
        /\ IF Referenced(x) THEN Go(s, "evidence", "evidence", rest)
           ELSE Go(s, "evidence", "unlink", [rest EXCEPT !.email = x])
        /\ UNCHANGED <<data, history>>

Unlink(s) ==
    /\ Step(s, "unlink", "drop row")
    /\ files' = files \ {my[s].email}
    /\ UNCHANGED <<emails, summary, job, runs, analysis, indexed, alert, rows, caseIds,
                   cases, campaigns, history>>

DropRow(s) ==
    /\ Go(s, "drop row", "evidence", [my[s] EXCEPT !.email = Missing])
    /\ rows' = rows \ {my[s].email}
    /\ UNCHANGED <<emails, summary, job, runs, analysis, indexed, alert, files,
                   caseIds, cases, campaigns, history>>

EndSweep(s) ==
    /\ at[s] = "evidence" /\ my[s].left = {} /\ Leave(s, "evidence")
    /\ protected' = [protected EXCEPT ![s] = {}]
    /\ UNCHANGED <<data, torn, clash>>

\* The process is lost; the next hour brings another sweep.
SweepLost(s) ==
    /\ Busy(s) /\ Leave(s, at[s])
    /\ protected' = [protected EXCEPT ![s] = {}]
    /\ torn' = torn \cup {my[x].email : x \in {y \in {s} : at[y] \in Deleting}}
    /\ UNCHANGED <<data, clash>>

----------------------------------------------------------------------------

Work(w) ==
    \/ \E e \in Emails : Claim(w, e)
    \/ ReadOriginal(w) \/ Store(w) \/ Index(w) \/ Complete(w) \/ WorkerLost(w)
Rescoring(r) == (\E e \in Emails : Pick(r, e)) \/ CheckIdle(r) \/ Rescore(r)
Publish(a) ==
    \/ Summarise(a) \/ FindCases(a) \/ ReadHighest(a) \/ WriteHighest(a)
    \/ NoCaseLeft(a) \/ RefreshAlert(a) \/ RaiseAlert(a)
Investigate(n) ==
    \/ \E c \in Cases, e \in Emails : ReadCase(n, c, e) \/ ReadEvidence(n, c, e)
    \/ \E S \in SUBSET Emails : ReadAnalyses(n, S)
    \/ \E e \in Emails : ChangeAlert(n, e)
    \/ ReadEmail(n) \/ LinkEmail(n) \/ LinkEvidence(n) \/ AssignAlert(n)
    \/ ListEvidence(n) \/ InsertCampaign(n)
Sweep(s) ==
    \/ Tick(s) \/ CheckEmail(s) \/ DropAnalysis(s) \/ DropEmail(s) \/ DropIndex(s)
    \/ DropJobs(s) \/ DropAlert(s) \/ ScanEvidence(s) \/ CheckEvidence(s)
    \/ Unlink(s) \/ DropRow(s) \/ EndSweep(s) \/ SweepLost(s)

Next ==
    \/ \E e \in Emails : Request(e)
    \/ \E w \in Workers : Work(w)
    \/ \E r \in Rescorers : Rescoring(r)
    \/ \E a \in Workers \cup Rescorers : Publish(a)
    \/ \E n \in Analysts : Investigate(n)
    \/ \E s \in Sweepers : Sweep(s)

Spec == Init /\ [][Next]_vars

----------------------------------------------------------------------------
(* Properties. *)

TypeOK ==
    /\ emails \subseteq Emails /\ rows \subseteq Emails /\ files \subseteq Emails
    /\ indexed \subseteq Emails
    /\ summary \in [Emails -> Scores \cup {0}]
    /\ job \in [Emails -> {"Pending", "Running", "Completed", "Failed", "Gone"}]
    /\ runs \in [Emails -> 0..MaxRuns]
    /\ analysis \in [Emails -> {Missing} \cup Analyses]
    /\ alert \in [Emails -> {Missing} \cup Alerts]
    /\ caseIds \in [Emails -> SUBSET Cases]
    /\ cases \in [Cases -> [emails : SUBSET Emails, evidence : SUBSET Emails,
                            score : Scores \cup {0}, severity : Scores \cup {0}]]
    /\ campaigns \subseteq SUBSET Emails
    /\ torn \subseteq Emails /\ clash \in BOOLEAN

\* What a case or a campaign linked when a sweep began outlives that sweep
\* whole: email, analysis, evidence row and original file (retention.py: cases
\* and campaigns hold their emails, an email holds its evidence). This needs that
\* sweeps do not overlap: one that began before the link was made does not hold it.
HeldSurvives == \A s \in Sweepers : \A e \in protected[s] : Whole(e)

\* An email that is gone takes its analysis, its indicators, its jobs and its
\* alert along, unless its sweep was lost midway or someone else was at work on
\* the email at that time (retention.py:14-17).
NoOrphans ==
    \A e \in Emails \ (emails \cup torn \cup BeingDeleted) :
        /\ analysis[e] = Missing /\ e \notin indexed
        /\ alert[e] = Missing /\ job[e] = "Gone"

\* The scores of an analysis are computed from the findings stored with them,
\* however re-analysis and rescoring interleave (rescore.py:32-34).
AnalysisCoherent ==
    \A e \in Emails : analysis[e] # Missing => analysis[e].basis = analysis[e].run

Quiet == ~\E a \in Scorers : Busy(a)
Settled(e) == Whole(e) /\ job[e] = "Completed"
HighestOf(S) == Newest({analysis[e].score : e \in S})

\* When nobody works, and as long as no two who write scores overlapped,
\* everything that shows the risk of an email whose last job completed agrees
\* with its analysis: its row, its alert, the alert that is due, and the score
\* and severity of its cases (pipeline.py:282-299, rescore.py:35-46).
ViewsAgree ==
    Quiet /\ ~clash =>
        /\ \A e \in Emails : Settled(e) =>
            /\ summary[e] = analysis[e].score
            /\ alert[e] # Missing => alert[e].score = analysis[e].score
            /\ analysis[e].score >= AlertThreshold => alert[e] # Missing
        /\ \A c \in Cases :
            (cases[c].emails # {} /\ \A e \in cases[c].emails : Settled(e)) =>
                /\ cases[c].score = HighestOf(cases[c].emails)
                /\ cases[c].severity = cases[c].score

\* Only an analyst changes the status of an alert that exists: a re-analysis or
\* a rescoring refreshes it and never reopens it (pipeline.py:292-293).
AnalystStatusKept ==
    [][\A e \in Emails :
        (alert[e] # Missing /\ alert'[e] # Missing /\ alert'[e].status # alert[e].status)
            => \E n \in Analysts : at[n] = "idle" /\ at'[n] = "done"]_vars

\* "Case- and campaign-linked analyses are held" (retention.py:1): the analysis
\* of a linked email is not deleted.
LinkedStaysAnalysed ==
    [][\A e \in LinkedEmails : analysis[e] # Missing => analysis'[e] # Missing]_vars
=============================================================================
