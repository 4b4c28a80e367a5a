---------------------------- MODULE JobPipeline ----------------------------
(***************************************************************************)
(* The analysis job queue of backend/core/pipeline.py: requests that       *)
(* acquire or re-analyse an email, workers that claim and process jobs,    *)
(* and the sweep that fails the jobs of lost workers.                      *)
(*                                                                         *)
(* Every MongoDB call is one step.  MongoDB updates one document           *)
(* atomically and the code opens no transaction, so all interleavings of   *)
(* these steps are possible.  A job is known by its rank in created_at     *)
(* order.                                                                  *)
(***************************************************************************)
EXTENDS Naturals, Sequences, FiniteSets

CONSTANTS
    Emails,           \* emails that may be acquired
    MaxJobs,          \* bound: job documents ever inserted
    Workers,          \* slots of the local thread pool or of the Celery worker
    Clients,          \* API requests (and imports) in flight
    Sweepers,         \* runs of expire_jobs in flight
    Severities,       \* severities a risk result can carry
    AlertSeverities,  \* those that always raise an alert (HIGH, CRITICAL)
    TimeLimited       \* TRUE: Celery, which kills a task before its job's lease ends

Null == "none"

ASSUME JobsAssumption == MaxJobs \in Nat \ {0}
ASSUME EmailAssumption == Null \notin Emails
ASSUME SeverityAssumption == Null \notin Severities /\ AlertSeverities \subseteq Severities
ASSUME ModeAssumption == TimeLimited \in BOOLEAN

Jobs == 1..MaxJobs
NoJob == 0

\* The values of a job's history, in the order process() writes them.
Stages == <<"Uploaded", "Parsing", "Forensics", "AI Analysis",
            "Threat Intelligence", "Correlation", "Completed">>
Correlation == 6
Completed == 7

StageNames == {Stages[i] : i \in 1..Completed}
Settled == {"Completed", "Failed"}

VARIABLES
    \* collection jobs
    jobStatus,      \* [Jobs -> status], Null before the insert
    jobEmail,       \* email_id of the job
    lease,          \* lease_until: Null, "live" (in the future) or "expired"
    attempts,       \* times the job was claimed
    history,        \* the statuses pushed, oldest first
    finding,        \* severity the run of the job computed (its risk_result)
    \* collections emails, email_analysis and alerts
    emailStatus,    \* Null before the insert
    emailSeverity,  \* severity shown in the email list
    analysis,       \* severity of the stored analysis
    analysisJob,    \* the job whose run stored it
    alert,          \* severity of the email's alert, Null when there is none
    \* the processes
    pc,             \* where a worker stands in process()
    held,           \* the job it runs
    at,             \* how many history entries its job has, as it sees it
    cpc,            \* where a request stands
    cemail,         \* the email it is about
    spc,            \* where a sweep stands in expire_jobs()
    sjob            \* the job it just failed

jobVars == <<jobStatus, jobEmail, lease, attempts, history, finding>>
dataVars == <<emailSeverity, analysis, analysisJob, alert>>
workerVars == <<pc, held, at>>
clientVars == <<cpc, cemail>>
sweepVars == <<spc, sjob>>
vars == <<jobVars, emailStatus, dataVars, workerVars, clientVars, sweepVars>>

WorkerPCs == {"idle", "stage", "mirror", "commit", "summary", "refresh",
              "raise", "release", "failEmail"}

Active(j) == jobStatus[j] \notin Settled \cup {Null}
Busy(w) == pc[w] # "idle"
Running(j) == \E w \in Workers : Busy(w) /\ held[w] = j

\* process() returns, or its process is gone: its locals with it.
Leave(w) ==
    /\ pc' = [pc EXCEPT ![w] = "idle"]
    /\ held' = [held EXCEPT ![w] = NoJob]
    /\ at' = [at EXCEPT ![w] = 0]

\* An API request ends.
Return(c) ==
    /\ cpc' = [cpc EXCEPT ![c] = "idle"]
    /\ cemail' = [cemail EXCEPT ![c] = Null]

\* A sweep ends with the job it holds.
EndSweep(s) ==
    /\ spc' = [spc EXCEPT ![s] = "idle"]
    /\ sjob' = [sjob EXCEPT ![s] = NoJob]

Init ==
    /\ jobStatus = [j \in Jobs |-> Null]
    /\ jobEmail = [j \in Jobs |-> Null]
    /\ lease = [j \in Jobs |-> Null]
    /\ attempts = [j \in Jobs |-> 0]
    /\ history = [j \in Jobs |-> <<>>]
    /\ finding = [j \in Jobs |-> Null]
    /\ emailStatus = [e \in Emails |-> Null]
    /\ emailSeverity = [e \in Emails |-> Null]
    /\ analysis = [e \in Emails |-> Null]
    /\ analysisJob = [e \in Emails |-> NoJob]
    /\ alert = [e \in Emails |-> Null]
    /\ pc = [w \in Workers |-> "idle"]
    /\ held = [w \in Workers |-> NoJob]
    /\ at = [w \in Workers |-> 0]
    /\ cpc = [c \in Clients |-> "idle"]
    /\ cemail = [c \in Clients |-> Null]
    /\ spc = [s \in Sweepers |-> "idle"]
    /\ sjob = [s \in Sweepers |-> NoJob]

-----------------------------------------------------------------------------
(* Requests: acquire() and reanalyze().  The Python calls between two      *)
(* database writes can be interrupted anywhere (Abandon).                  *)

\* acquire() inserts the email; its job is the next insert.
AcquireEmail(c, e) ==
    /\ cpc[c] = "idle"
    /\ emailStatus[e] = Null
    /\ emailStatus' = [emailStatus EXCEPT ![e] = "Uploaded"]
    /\ cpc' = [cpc EXCEPT ![c] = "queue"]
    /\ cemail' = [cemail EXCEPT ![c] = e]
    /\ UNCHANGED <<jobVars, dataVars, workerVars, sweepVars>>

\* A pending check that overlooks the jobs a worker already runs.
MutantPending(e) ==
    \E j \in Jobs : jobEmail[j] = e /\ jobStatus[j] = "Uploaded"

\* The find_one that answers 409 "Analysis already pending".
Pending(e) ==
    \E j \in Jobs : jobEmail[j] = e /\ Active(j)

\* reanalyze() reads first and inserts in a later call.
CheckIdle(c, e) ==
    /\ cpc[c] = "idle"
    /\ emailStatus[e] # Null
    /\ ~Pending(e)
    /\ cpc' = [cpc EXCEPT ![c] = "requeue"]
    /\ cemail' = [cemail EXCEPT ![c] = e]
    /\ UNCHANGED <<jobVars, emailStatus, dataVars, workerVars, sweepVars>>

NextId(j) == jobStatus[j] = Null /\ \A k \in 1..(j - 1) : jobStatus[k] # Null

InsertJob(c, j) ==
    /\ cpc[c] \in {"queue", "requeue"}
    /\ NextId(j)
    /\ jobStatus' = [jobStatus EXCEPT ![j] = "Uploaded"]
    /\ jobEmail' = [jobEmail EXCEPT ![j] = cemail[c]]
    /\ history' = [history EXCEPT ![j] = <<"Uploaded">>]
    /\ IF cpc[c] = "queue"
         THEN Return(c)
         ELSE cpc' = [cpc EXCEPT ![c] = "markUploaded"] /\ UNCHANGED cemail
    /\ UNCHANGED <<lease, attempts, finding, emailStatus, dataVars, workerVars,
                   sweepVars>>

\* reanalyze() then resets the email's status, whatever the new job did meanwhile.
MarkUploaded(c) ==
    /\ cpc[c] = "markUploaded"
    /\ emailStatus' = [emailStatus EXCEPT ![cemail[c]] = "Uploaded"]
    /\ Return(c)
    /\ UNCHANGED <<jobVars, dataVars, workerVars, sweepVars>>

\* The API process dies, or a database call fails, between two writes.
Abandon(c) ==
    /\ cpc[c] # "idle"
    /\ Return(c)
    /\ UNCHANGED <<jobVars, emailStatus, dataVars, workerVars, sweepVars>>

-----------------------------------------------------------------------------
(* Workers: process() *)

FreeSlots == Cardinality({w \in Workers : ~Busy(w)})

\* dispatch_loop submits as many of the oldest Uploaded jobs as slots are free;
\* the Celery dispatch task sends the 20 oldest.
DispatchWindow == IF TimeLimited THEN 20 ELSE FreeSlots
Dispatched(j) ==
    Cardinality({k \in 1..(j - 1) : jobStatus[k] = "Uploaded"}) < DispatchWindow

\* A claim by _id alone, without the status it expects.
MutantClaim(w, j) ==
    /\ pc[w] = "idle"
    /\ jobStatus[j] # Null
    /\ attempts[j] < 2
    /\ jobStatus' = [jobStatus EXCEPT ![j] = "Claimed"]
    /\ lease' = [lease EXCEPT ![j] = "live"]
    /\ attempts' = [attempts EXCEPT ![j] = @ + 1]
    /\ pc' = [pc EXCEPT ![w] = "stage"]
    /\ held' = [held EXCEPT ![w] = j]
    /\ at' = [at EXCEPT ![w] = 1]
    /\ UNCHANGED <<jobEmail, history, finding, emailStatus, dataVars, clientVars, sweepVars>>

\* A redelivered or repeated message for a job that is no longer Uploaded makes
\* find_one_and_update return nothing, and process() return.
Claim(w, j) ==
    /\ pc[w] = "idle"
    /\ jobStatus[j] = "Uploaded"
    /\ Dispatched(j)
    /\ jobStatus' = [jobStatus EXCEPT ![j] = "Claimed"]
    /\ lease' = [lease EXCEPT ![j] = "live"]
    /\ attempts' = [attempts EXCEPT ![j] = @ + 1]
    /\ pc' = [pc EXCEPT ![w] = "stage"]
    /\ held' = [held EXCEPT ![w] = j]
    /\ at' = [at EXCEPT ![w] = 1]
    /\ UNCHANGED <<jobEmail, history, finding, emailStatus, dataVars, clientVars, sweepVars>>

\* stage(): the job document, by _id alone.
Stage(w) ==
    /\ pc[w] = "stage"
    /\ LET j == held[w]
           name == Stages[at[w] + 1]
       IN  /\ jobStatus' = [jobStatus EXCEPT ![j] = name]
           /\ lease' = [lease EXCEPT ![j] = "live"]
           /\ history' = [history EXCEPT ![j] = Append(@, name)]
    /\ at' = [at EXCEPT ![w] = @ + 1]
    /\ pc' = [pc EXCEPT ![w] = "mirror"]
    /\ UNCHANGED <<jobEmail, attempts, finding, emailStatus, dataVars, held,
                   clientVars, sweepVars>>

\* The analysis stored one stage too early.
MutantAfterMirror(n) ==
    CASE n = Correlation - 1 -> "commit" [] n = Completed -> "release" [] OTHER -> "stage"

\* What process() does once stage() number n has returned.
AfterMirror(n) ==
    CASE n = Correlation -> "commit" [] n = Completed -> "release" [] OTHER -> "stage"

\* stage(): the email document, by _id alone.
Mirror(w) ==
    /\ pc[w] = "mirror"
    /\ emailStatus' = [emailStatus EXCEPT ![jobEmail[held[w]]] = Stages[at[w]]]
    /\ pc' = [pc EXCEPT ![w] = AfterMirror(at[w])]
    /\ UNCHANGED <<jobVars, dataVars, held, at, clientVars, sweepVars>>

\* email_analysis.replace_one(..., upsert=True)
Commit(w) ==
    /\ pc[w] = "commit"
    /\ \E s \in Severities :
          /\ finding' = [finding EXCEPT ![held[w]] = s]
          /\ analysis' = [analysis EXCEPT ![jobEmail[held[w]]] = s]
    /\ analysisJob' = [analysisJob EXCEPT ![jobEmail[held[w]]] = held[w]]
    /\ pc' = [pc EXCEPT ![w] = "summary"]
    /\ UNCHANGED <<jobStatus, jobEmail, lease, attempts, history, emailStatus,
                   emailSeverity, alert, held, at, clientVars, sweepVars>>

\* emails.update_one with verdict, severity and risk_score
Summarise(w) ==
    /\ pc[w] = "summary"
    /\ emailSeverity' = [emailSeverity EXCEPT ![jobEmail[held[w]]] = finding[held[w]]]
    /\ pc' = [pc EXCEPT ![w] = "refresh"]
    /\ UNCHANGED <<jobVars, emailStatus, analysis, analysisJob, alert, held, at,
                   clientVars, sweepVars>>

\* No refresh of an existing alert.
MutantRefreshAlert(w) ==
    /\ pc[w] = "refresh"
    /\ pc' = [pc EXCEPT ![w] = "raise"]
    /\ UNCHANGED <<jobVars, emailStatus, dataVars, held, at, clientVars, sweepVars>>

\* An existing alert gets the new severity; no alert is inserted here.
RefreshAlert(w) ==
    /\ pc[w] = "refresh"
    /\ alert' = [alert EXCEPT ![jobEmail[held[w]]] =
                    IF @ = Null THEN Null ELSE finding[held[w]]]
    /\ pc' = [pc EXCEPT ![w] = "raise"]
    /\ UNCHANGED <<jobVars, emailStatus, emailSeverity, analysis, analysisJob,
                   held, at, clientVars, sweepVars>>

\* Only the configured threshold decides.
MutantMustAlert(s) == {FALSE, TRUE}

\* Severity decides, or the configured threshold, a malicious provider report
\* or a flagged attachment, which are inputs here.
MustAlert(s) == IF s \in AlertSeverities THEN {TRUE} ELSE {FALSE, TRUE}

RaiseAlert(w) ==
    /\ pc[w] = "raise"
    /\ \E must \in MustAlert(finding[held[w]]) :
          alert' = [alert EXCEPT ![jobEmail[held[w]]] =
                       IF must /\ @ = Null THEN finding[held[w]] ELSE @]
    /\ pc' = [pc EXCEPT ![w] = "stage"]
    /\ UNCHANGED <<jobVars, emailStatus, emailSeverity, analysis, analysisJob,
                   held, at, clientVars, sweepVars>>

\* The last write: the lease of a Completed job is unset.
Release(w) ==
    /\ pc[w] = "release"
    /\ lease' = [lease EXCEPT ![held[w]] = Null]
    /\ Leave(w)
    /\ UNCHANGED <<jobStatus, jobEmail, attempts, history, finding, emailStatus,
                   dataVars, clientVars, sweepVars>>

\* Any call of the try block raises, Celery's soft time limit included.
Raise(w) ==
    /\ pc[w] \notin {"idle", "failEmail"}
    /\ jobStatus' = [jobStatus EXCEPT ![held[w]] = "Failed"]
    /\ lease' = [lease EXCEPT ![held[w]] = Null]
    /\ pc' = [pc EXCEPT ![w] = "failEmail"]
    /\ UNCHANGED <<jobEmail, attempts, history, finding, emailStatus, dataVars,
                   held, at, clientVars, sweepVars>>

FailEmail(w) ==
    /\ pc[w] = "failEmail"
    /\ emailStatus' = [emailStatus EXCEPT ![jobEmail[held[w]]] = "Failed"]
    /\ Leave(w)
    /\ UNCHANGED <<jobVars, dataVars, clientVars, sweepVars>>

\* The process dies, Celery's hard time limit kills it, or the database fails
\* inside the except block.
Crash(w) ==
    /\ Busy(w)
    /\ Leave(w)
    /\ UNCHANGED <<jobVars, emailStatus, dataVars, clientVars, sweepVars>>

-----------------------------------------------------------------------------
(* Leases: expire_jobs() *)

\* Thirty minutes pass since the last stage().  The 1800 s hard limit of the
\* Celery task runs from before the claim, so its worker is gone by then; the
\* local pool has no limit.
LeaseExpires(j) ==
    /\ lease[j] = "live"
    /\ TimeLimited => ~Running(j)
    /\ lease' = [lease EXCEPT ![j] = "expired"]
    /\ UNCHANGED <<jobStatus, jobEmail, attempts, history, finding, emailStatus,
                   dataVars, workerVars, clientVars, sweepVars>>

\* A sweep that forgets the jobs claimed but not yet started.
MutantExpirable(j) ==
    lease[j] = "expired" /\ jobStatus[j] \notin Settled \cup {"Uploaded", "Claimed"}

\* A sweep that does not wait for the lease to end.
MutantExpirableEarly(j) ==
    lease[j] # Null /\ jobStatus[j] \notin Settled \cup {"Uploaded"}

\* The query of the sweep, and the condition its update repeats.
Expirable(j) ==
    lease[j] = "expired" /\ jobStatus[j] \notin Settled \cup {"Uploaded"}

SweepJob(s, j) ==
    /\ spc[s] = "idle"
    /\ Expirable(j)
    /\ jobStatus' = [jobStatus EXCEPT ![j] = "Failed"]
    /\ lease' = [lease EXCEPT ![j] = Null]
    /\ spc' = [spc EXCEPT ![s] = "latest"]
    /\ sjob' = [sjob EXCEPT ![s] = j]
    /\ UNCHANGED <<jobEmail, attempts, history, finding, emailStatus, dataVars,
                   workerVars, clientVars>>

IsLatest(j) == \A k \in Jobs : k > j => jobEmail[k] # jobEmail[j]

SweepLatest(s) ==
    /\ spc[s] = "latest"
    /\ IF IsLatest(sjob[s])
         THEN spc' = [spc EXCEPT ![s] = "failEmail"] /\ UNCHANGED sjob
         ELSE EndSweep(s)
    /\ UNCHANGED <<jobVars, emailStatus, dataVars, workerVars, clientVars>>

SweepEmail(s) ==
    /\ spc[s] = "failEmail"
    /\ emailStatus' = [emailStatus EXCEPT ![jobEmail[sjob[s]]] =
                          IF @ \in Settled THEN @ ELSE "Failed"]
    /\ EndSweep(s)
    /\ UNCHANGED <<jobVars, dataVars, workerVars, clientVars>>

SweepCrash(s) ==
    /\ spc[s] # "idle"
    /\ EndSweep(s)
    /\ UNCHANGED <<jobVars, emailStatus, dataVars, workerVars, clientVars>>

-----------------------------------------------------------------------------

Request(c) ==
    \/ \E e \in Emails : AcquireEmail(c, e) \/ CheckIdle(c, e)
    \/ \E j \in Jobs : InsertJob(c, j)
    \/ MarkUploaded(c)

\* The steps of process() after the claim, in program order.
Progress(w) ==
    \/ Stage(w) \/ Mirror(w) \/ Commit(w) \/ Summarise(w) \/ RefreshAlert(w)
    \/ RaiseAlert(w) \/ Release(w) \/ FailEmail(w)

Sweep(s) == (\E j \in Jobs : SweepJob(s, j)) \/ SweepLatest(s) \/ SweepEmail(s)

Next ==
    \/ \E c \in Clients : Request(c) \/ Abandon(c)
    \/ \E w \in Workers :
          (\E j \in Jobs : Claim(w, j)) \/ Progress(w) \/ Raise(w) \/ Crash(w)
    \/ \E j \in Jobs : LeaseExpires(j)
    \/ \E s \in Sweepers : Sweep(s) \/ SweepCrash(s)

Spec == Init /\ [][Next]_vars

\* The dispatcher and the sweep run again every second (local) or every five
\* (Celery beat), a running task goes on, and time passes.  Requests owe nothing.
Fairness ==
    /\ WF_vars(\E w \in Workers, j \in Jobs : Claim(w, j))
    /\ \A w \in Workers : WF_vars(Progress(w))
    /\ \A j \in Jobs : WF_vars(LeaseExpires(j))
    /\ \A s \in Sweepers : WF_vars(Sweep(s))

FairSpec == Spec /\ Fairness

-----------------------------------------------------------------------------
(* Properties that hold in both worker modes, whatever requests overlap.   *)

\* Every variable has its type; a job is claimed at most once (attempts).
TypeOK ==
    /\ jobStatus \in [Jobs -> StageNames \cup {Null, "Claimed", "Failed"}]
    /\ jobEmail \in [Jobs -> Emails \cup {Null}]
    /\ lease \in [Jobs -> {Null, "live", "expired"}]
    /\ attempts \in [Jobs -> 0..1]
    /\ history \in [Jobs -> Seq(StageNames)]
    /\ finding \in [Jobs -> Severities \cup {Null}]
    /\ emailStatus \in [Emails -> StageNames \cup {Null, "Failed"}]
    /\ emailSeverity \in [Emails -> Severities \cup {Null}]
    /\ analysis \in [Emails -> Severities \cup {Null}]
    /\ analysisJob \in [Emails -> Jobs \cup {NoJob}]
    /\ alert \in [Emails -> Severities \cup {Null}]
    /\ pc \in [Workers -> WorkerPCs]
    /\ held \in [Workers -> Jobs \cup {NoJob}]
    /\ at \in [Workers -> 0..Completed]
    /\ cpc \in [Clients -> {"idle", "queue", "requeue", "markUploaded"}]
    /\ cemail \in [Clients -> Emails \cup {Null}]
    /\ spc \in [Sweepers -> {"idle", "latest", "failEmail"}]
    /\ sjob \in [Sweepers -> Jobs \cup {NoJob}]

\* No two workers run the same job, even after its lease expired and the sweep
\* failed it: the claim is the one way in and it happens once per job
\* (find_one_and_update on status Uploaded in process()).
ClaimExclusive ==
    \A v, w \in Workers : v # w /\ Busy(v) /\ Busy(w) => held[v] # held[w]

\* The history shown for a job is a prefix of the seven stages, in order and
\* without repetition, and a job shown as Completed has gone through all seven,
\* whatever leases, sweeps and late workers did to its status.
HistoryTruthful ==
    \A j \in Jobs :
       /\ Len(history[j]) <= Completed
       /\ \A i \in 1..Len(history[j]) : history[j][i] = Stages[i]
       /\ jobStatus[j] = "Completed" => Len(history[j]) = Completed

\* A stored analysis comes from a run of a job of that email that passed every
\* stage up to Correlation, and holds the severity that run computed: late
\* writers may replace it, never mix it.
AnalysisFromFullRun ==
    \A e \in Emails : analysis[e] # Null =>
       \E j \in Jobs : /\ analysisJob[e] = j
                       /\ jobEmail[j] = e
                       /\ Len(history[j]) >= Correlation
                       /\ finding[j] = analysis[e]

\* A run that computed an alerting severity and reached Completed has left an
\* alert for its email (pipeline.py: "High-priority findings must reach the
\* analyst alert queue"), even when another run of the same email interleaves
\* and even when a sweep failed the job meanwhile.
HighFindingAlerted ==
    \A j \in Jobs :
       Len(history[j]) = Completed /\ finding[j] \in AlertSeverities
          => alert[jobEmail[j]] # Null

-----------------------------------------------------------------------------
(* Properties of the Celery mode (TimeLimited) when an email's requests do *)
(* not overlap (one client).                                               *)

\* At most one job of an email is pending: what the 409 of reanalyze() is for.
OneActiveJob ==
    \A j, k \in Jobs : jobEmail[j] = jobEmail[k] /\ Active(j) /\ Active(k) => j = k

\* When the latest job of an email is Completed, the stored analysis, the
\* summary in the email list and the alert all show that job's result.
LatestCompletedConsistent ==
    \A j \in Jobs : jobStatus[j] = "Completed" /\ IsLatest(j) =>
       LET e == jobEmail[j]
       IN  /\ analysisJob[e] = j
           /\ analysis[e] = finding[j]
           /\ emailSeverity[e] = finding[j]
           /\ alert[e] \in {Null, finding[j]}
           /\ finding[j] \in AlertSeverities => alert[e] = finding[j]

\* A job the sweep or a worker failed stays Failed ("Failed jobs ... can be
\* retried explicitly", README.md: by a new job).
FailedIsFinal ==
    [][\A j \in Jobs : jobStatus[j] = "Failed" => jobStatus'[j] = "Failed"]_vars

\* The abstract life of a job.  A job whose worker has written Completed but
\* not yet returned from process() is still running: it can still fail.
phase == [j \in Jobs |->
    CASE jobStatus[j] = Null -> "absent"
      [] jobStatus[j] = "Uploaded" -> "queued"
      [] jobStatus[j] = "Failed" -> "failed"
      [] jobStatus[j] = "Completed" /\ ~Running(j) -> "done"
      [] OTHER -> "running"]

Lifecycle == INSTANCE JobLifecycle

\* In Celery mode the queue implements the abstract life of a job: run at most
\* once, one final outcome, reached eventually.
LifecycleSafety == Lifecycle!SafeSpec
ImplementsLifecycle == Lifecycle!Spec

-----------------------------------------------------------------------------
(* Liveness, under FairSpec. *)

\* Every accepted job ends Completed or Failed for good, whatever workers and
\* sweeps are lost.
JobSettles ==
    \A j \in Jobs : jobStatus[j] # Null ~> [](jobStatus[j] \in Settled)

\* No email is displayed as processing for ever: "Lost workers must not leave
\* email/report UI permanently processing" (test_pipeline_integration.py).
EmailSettles ==
    \A e \in Emails :
       emailStatus[e] \in StageNames \ {"Uploaded", "Completed"}
          ~> emailStatus[e] \in Settled \cup {"Uploaded"}
=============================================================================
