------------------------ MODULE JobPipeline_proofs -------------------------
(* Theorems of JobPipeline, for every value of its constants. *)
EXTENDS JobPipeline, TLAPS, SequenceTheorems

-----------------------------------------------------------------------------
(* Facts about the constant operators. *)

\* The stage names, told apart from each other and from the other statuses.
LEMMA StageFacts ==
    /\ \A i \in 1..Completed : Stages[i] \in StageNames
    /\ \A i \in 1..Completed : (Stages[i] = "Uploaded") <=> (i = 1)
    /\ \A i \in 1..Completed : (Stages[i] = "Completed") <=> (i = Completed)
    /\ Null \notin StageNames /\ "Failed" \notin StageNames /\ "Claimed" \notin StageNames
    /\ "Uploaded" \in StageNames
<1>1. \A i \in 1..7 : i = 1 \/ i = 2 \/ i = 3 \/ i = 4 \/ i = 5 \/ i = 6 \/ i = 7
  OBVIOUS
<1>2. /\ Stages[1] = "Uploaded" /\ Stages[2] = "Parsing" /\ Stages[3] = "Forensics"
      /\ Stages[4] = "AI Analysis" /\ Stages[5] = "Threat Intelligence"
      /\ Stages[6] = "Correlation" /\ Stages[7] = "Completed"
  BY DEF Stages
<1>3. \A n \in StageNames : n \in {"Uploaded", "Parsing", "Forensics", "AI Analysis",
                                  "Threat Intelligence", "Correlation", "Completed"}
  BY <1>1, <1>2 DEF StageNames, Completed
<1>4. \A i \in 1..Completed : Stages[i] \in StageNames
  BY DEF StageNames
<1>5. \A i \in 1..Completed : (Stages[i] = "Uploaded") <=> (i = 1)
  BY <1>1, <1>2 DEF Completed
<1>6. \A i \in 1..Completed : (Stages[i] = "Completed") <=> (i = Completed)
  BY <1>1, <1>2 DEF Completed
<1>7. "Uploaded" \in StageNames
  <2>1. 1 \in 1..Completed
    BY DEF Completed
  <2> QED
    BY <1>2, <1>4, <2>1
<1>8. Null \notin StageNames /\ "Failed" \notin StageNames /\ "Claimed" \notin StageNames
  BY <1>3 DEF Null
<1> QED
  BY <1>4, <1>5, <1>6, <1>7, <1>8

\* A status appended to a history.
LEMMA HistoryAppend ==
    ASSUME NEW h \in Seq(StageNames), NEW name \in StageNames
    PROVE  /\ Append(h, name) \in Seq(StageNames)
           /\ Len(Append(h, name)) = Len(h) + 1
           /\ Append(h, name)[Len(h) + 1] = name
           /\ \A i \in 1..Len(h) : Append(h, name)[i] = h[i]
  BY AppendProperties

-----------------------------------------------------------------------------
(* The inductive invariant of both worker modes. *)

\* A job document before and after its insert and its claim.
JobInv(j) ==
    /\ attempts[j] = IF jobStatus[j] \in {Null, "Uploaded"} THEN 0 ELSE 1
    /\ (jobStatus[j] = Null) <=> (jobEmail[j] = Null)
    /\ jobStatus[j] = Null => history[j] = <<>>
    /\ jobStatus[j] = "Uploaded" => Len(history[j]) = 1
    /\ jobStatus[j] \in {Null, "Uploaded"} => lease[j] = Null

\* Only its worker pushes to the history of a claimed job, so the worker's count
\* of the stages it wrote is right whatever happened to the job's status.
WorkerInv(w) ==
    Busy(w) =>
       /\ held[w] \in Jobs
       /\ jobStatus[held[w]] \notin {Null, "Uploaded"}
       /\ at[w] = Len(history[held[w]])
       /\ at[w] >= 1
       /\ pc[w] = "stage" => at[w] <= Correlation
       /\ pc[w] = "mirror" => at[w] >= 2
       /\ pc[w] \in {"commit", "summary", "refresh", "raise"} => at[w] = Correlation
       /\ pc[w] = "release" => at[w] = Completed
       /\ pc[w] \in {"summary", "refresh", "raise"} => finding[held[w]] # Null
       /\ pc[w] = "stage" /\ at[w] = Correlation =>
             /\ finding[held[w]] \in AlertSeverities => alert[jobEmail[held[w]]] # Null

RequestInv(c) == cpc[c] # "idle" => cemail[c] \in Emails

SweepInv(s) ==
    spc[s] # "idle" => sjob[s] \in Jobs /\ jobStatus[sjob[s]] \notin {Null, "Uploaded"}

IInv ==
    /\ TypeOK
    /\ \A j \in Jobs : JobInv(j)
    /\ \A w \in Workers : WorkerInv(w)
    /\ \A c \in Clients : RequestInv(c)
    /\ \A s \in Sweepers : SweepInv(s)
    /\ ClaimExclusive
    /\ HistoryTruthful
    /\ AnalysisFromFullRun
    /\ HighFindingAlerted

LEMMA InitInv == Init => IInv
  BY EmailAssumption, SeverityAssumption
     DEF Init, IInv, TypeOK, JobInv, WorkerInv, RequestInv, SweepInv, ClaimExclusive,
         HistoryTruthful, AnalysisFromFullRun, HighFindingAlerted, Busy, Jobs,
         Stages, StageNames, Completed, Correlation, Null, NoJob, WorkerPCs

LEMMA TypeStep == IInv /\ [Next]_vars => TypeOK'
<1> SUFFICES ASSUME IInv, [Next]_vars PROVE TypeOK'
  OBVIOUS
<1> USE EmailAssumption, SeverityAssumption
    DEF IInv, TypeOK, jobVars, dataVars, workerVars, clientVars, sweepVars, NoJob
<1>1. ASSUME NEW c \in Clients, NEW e \in Emails, AcquireEmail(c, e) PROVE TypeOK'
  BY <1>1, StageFacts DEF AcquireEmail
<1>2. ASSUME NEW c \in Clients, NEW e \in Emails, CheckIdle(c, e) PROVE TypeOK'
  BY <1>2 DEF CheckIdle
<1>3. ASSUME NEW c \in Clients, NEW j \in Jobs, InsertJob(c, j) PROVE TypeOK'
<2>1. cemail[c] \in Emails
  BY <1>3 DEF InsertJob, RequestInv
<2>2. jobStatus' \in [Jobs -> StageNames \cup {Null, "Claimed", "Failed"}]
  BY <1>3, StageFacts DEF InsertJob
<2>3. jobEmail' \in [Jobs -> Emails \cup {Null}]
  BY <1>3, <2>1 DEF InsertJob
<2>4. history' \in [Jobs -> Seq(StageNames)]
  <3>1. <<"Uploaded">> \in Seq(StageNames)
    BY StageFacts
  <3> QED
    BY <1>3, <3>1 DEF InsertJob
<2>5. /\ cpc' \in [Clients -> {"idle", "queue", "requeue", "markUploaded"}]
      /\ cemail' \in [Clients -> Emails \cup {Null}]
  <3>1. CASE cpc[c] = "queue"
    BY <1>3, <3>1 DEF InsertJob, Return
  <3>2. CASE cpc[c] # "queue"
    BY <1>3, <3>2 DEF InsertJob
  <3> QED
    BY <3>1, <3>2
<2> QED
  BY <1>3, <2>2, <2>3, <2>4, <2>5 DEF InsertJob
<1>4. ASSUME NEW c \in Clients, MarkUploaded(c) PROVE TypeOK'
  BY <1>4, StageFacts DEF MarkUploaded, Return
<1>5. ASSUME NEW c \in Clients, Abandon(c) PROVE TypeOK'
  BY <1>5 DEF Abandon, Return
<1>6. ASSUME NEW w \in Workers, NEW j \in Jobs, Claim(w, j) PROVE TypeOK'
  BY <1>6 DEF Claim, JobInv, WorkerPCs, Completed
<1>7. ASSUME NEW w \in Workers, Stage(w) PROVE TypeOK'
<2> DEFINE j == held[w]
           name == Stages[at[w] + 1]
<2>1. j \in Jobs /\ at[w] + 1 \in 1..Completed
  BY <1>7 DEF Stage, WorkerInv, Busy, Completed, Correlation
<2>2. name \in StageNames
  BY <2>1, StageFacts
<2>3. Append(history[j], name) \in Seq(StageNames)
  BY <2>1, <2>2, HistoryAppend
<2>4. jobStatus' \in [Jobs -> StageNames \cup {Null, "Claimed", "Failed"}]
  BY <1>7, <2>2 DEF Stage
<2>5. history' \in [Jobs -> Seq(StageNames)]
  BY <1>7, <2>3 DEF Stage
<2>6. lease' \in [Jobs -> {Null, "live", "expired"}]
  BY <1>7 DEF Stage
<2>7. at' \in [Workers -> 0..Completed]
  BY <1>7, <2>1 DEF Stage, Completed
<2>8. pc' \in [Workers -> WorkerPCs]
  BY <1>7 DEF Stage, WorkerPCs
<2> QED
  BY <1>7, <2>4, <2>5, <2>6, <2>7, <2>8 DEF Stage
<1>8. ASSUME NEW w \in Workers, Mirror(w) PROVE TypeOK'
<2>1. at[w] \in 1..Completed
  BY <1>8 DEF Mirror, WorkerInv, Busy
<2>2. Stages[at[w]] \in StageNames
  BY <2>1, StageFacts
<2>3. emailStatus' \in [Emails -> StageNames \cup {Null, "Failed"}]
  BY <1>8, <2>2 DEF Mirror
<2>4. pc' \in [Workers -> WorkerPCs]
  BY <1>8 DEF Mirror, AfterMirror, WorkerPCs
<2> QED
  BY <1>8, <2>3, <2>4 DEF Mirror
<1>9. ASSUME NEW w \in Workers, Commit(w) PROVE TypeOK'
<2>1. held[w] \in Jobs
  BY <1>9 DEF Commit, WorkerInv, Busy
<2>2. finding' \in [Jobs -> Severities \cup {Null}]
  BY <1>9 DEF Commit
<2>3. analysis' \in [Emails -> Severities \cup {Null}]
  BY <1>9 DEF Commit
<2>4. analysisJob' \in [Emails -> Jobs \cup {NoJob}]
  BY <1>9, <2>1 DEF Commit
<2>5. pc' \in [Workers -> WorkerPCs]
  BY <1>9 DEF Commit, WorkerPCs
<2> QED
  BY <1>9, <2>2, <2>3, <2>4, <2>5 DEF Commit
<1>10. ASSUME NEW w \in Workers, Summarise(w) PROVE TypeOK'
  BY <1>10 DEF Summarise, WorkerInv, WorkerPCs, Busy
<1>11. ASSUME NEW w \in Workers, RefreshAlert(w) PROVE TypeOK'
  BY <1>11 DEF RefreshAlert, WorkerInv, WorkerPCs, Busy
<1>12. ASSUME NEW w \in Workers, RaiseAlert(w) PROVE TypeOK'
<2>1. held[w] \in Jobs
  BY <1>12 DEF RaiseAlert, WorkerInv, Busy
<2>2. PICK must \in MustAlert(finding[held[w]]) :
          alert' = [alert EXCEPT ![jobEmail[held[w]]] =
                       IF must /\ alert[jobEmail[held[w]]] = Null
                         THEN finding[held[w]] ELSE alert[jobEmail[held[w]]]]
  BY <1>12 DEF RaiseAlert
<2>4. finding[held[w]] \in Severities \cup {Null}
  BY <2>1
<2>5. alert' \in [Emails -> Severities \cup {Null}]
  BY <2>2, <2>4
<2>3. pc' \in [Workers -> WorkerPCs]
  BY <1>12 DEF RaiseAlert, WorkerPCs
<2> QED
  BY <1>12, <2>5, <2>3 DEF RaiseAlert
<1>13. ASSUME NEW w \in Workers, Release(w) PROVE TypeOK'
<2>1. pc' \in [Workers -> WorkerPCs]
  BY <1>13 DEF Release, Leave, WorkerPCs
<2>2. held' \in [Workers -> Jobs \cup {NoJob}]
  BY <1>13 DEF Release, Leave
<2>3. at' \in [Workers -> 0..Completed]
  BY <1>13 DEF Release, Leave, Completed
<2>4. lease' \in [Jobs -> {Null, "live", "expired"}]
  BY <1>13 DEF Release
<2> QED
  BY <1>13, <2>1, <2>2, <2>3, <2>4 DEF Release
<1>14. ASSUME NEW w \in Workers, FailEmail(w) PROVE TypeOK'
<2>1. pc' \in [Workers -> WorkerPCs]
  BY <1>14 DEF FailEmail, Leave, WorkerPCs
<2>2. held' \in [Workers -> Jobs \cup {NoJob}]
  BY <1>14 DEF FailEmail, Leave
<2>3. at' \in [Workers -> 0..Completed]
  BY <1>14 DEF FailEmail, Leave, Completed
<2>4. emailStatus' \in [Emails -> StageNames \cup {Null, "Failed"}]
  BY <1>14 DEF FailEmail
<2> QED
  BY <1>14, <2>1, <2>2, <2>3, <2>4 DEF FailEmail
<1>15. ASSUME NEW w \in Workers, Raise(w) PROVE TypeOK'
  BY <1>15 DEF Raise, WorkerPCs
<1>16. ASSUME NEW w \in Workers, Crash(w) PROVE TypeOK'
  BY <1>16 DEF Crash, Leave, WorkerPCs, Completed
<1>17. ASSUME NEW j \in Jobs, LeaseExpires(j) PROVE TypeOK'
  BY <1>17 DEF LeaseExpires
<1>18. ASSUME NEW s \in Sweepers, NEW j \in Jobs, SweepJob(s, j) PROVE TypeOK'
  BY <1>18 DEF SweepJob
<1>19. ASSUME NEW s \in Sweepers, SweepLatest(s) PROVE TypeOK'
<2>1. spc' \in [Sweepers -> {"idle", "latest", "failEmail"}] /\ sjob' \in [Sweepers -> Jobs \cup {NoJob}]
  <3>1. \/ spc' = [spc EXCEPT ![s] = "failEmail"] /\ sjob' = sjob
        \/ EndSweep(s)
    BY <1>19 DEF SweepLatest
  <3>2. /\ spc \in [Sweepers -> {"idle", "latest", "failEmail"}]
        /\ sjob \in [Sweepers -> Jobs \cup {NoJob}]
    OBVIOUS
  <3> QED
    BY <3>1, <3>2 DEF EndSweep
<2>2. UNCHANGED <<jobVars, emailStatus, dataVars, workerVars, clientVars>>
  BY <1>19, Zenon DEF SweepLatest
<2> QED
  BY <2>1, <2>2
<1>20. ASSUME NEW s \in Sweepers, SweepEmail(s) PROVE TypeOK'
<2>1. emailStatus' \in [Emails -> StageNames \cup {Null, "Failed"}]
  BY <1>20 DEF SweepEmail
<2>2. spc' \in [Sweepers -> {"idle", "latest", "failEmail"}] /\ sjob' \in [Sweepers -> Jobs \cup {NoJob}]
  BY <1>20 DEF SweepEmail, EndSweep
<2>3. UNCHANGED <<jobVars, dataVars, workerVars, clientVars>>
  BY <1>20, Zenon DEF SweepEmail
<2> QED
  BY <2>1, <2>2, <2>3
<1>21. ASSUME NEW s \in Sweepers, SweepCrash(s) PROVE TypeOK'
  BY <1>21 DEF SweepCrash, EndSweep
<1>22. CASE UNCHANGED vars
  BY <1>22 DEF vars
<1> QED
  BY <1>1, <1>2, <1>3, <1>4, <1>5, <1>6, <1>7, <1>8, <1>9, <1>10, <1>11, <1>12,
     <1>13, <1>14, <1>15, <1>16, <1>17, <1>18, <1>19, <1>20, <1>21, <1>22
     DEF Next, Request, Progress, Sweep

LEMMA JobStep == IInv /\ [Next]_vars => \A j \in Jobs : JobInv(j)'
<1> SUFFICES ASSUME IInv, [Next]_vars, NEW k \in Jobs PROVE JobInv(k)'
  OBVIOUS
<1> USE EmailAssumption
    DEF IInv, TypeOK, JobInv, jobVars, Null
<1>1. ASSUME NEW c \in Clients, NEW j \in Jobs, InsertJob(c, j) PROVE JobInv(k)'
  <2>1. cemail[c] \in Emails
    BY <1>1 DEF InsertJob, RequestInv
  <2> QED
    BY <1>1, <2>1 DEF InsertJob, NextId
<1>2. ASSUME NEW w \in Workers, NEW j \in Jobs, Claim(w, j) PROVE JobInv(k)'
  BY <1>2 DEF Claim
<1>3. ASSUME NEW w \in Workers, Stage(w) PROVE JobInv(k)'
  <2>1. /\ held[w] \in Jobs
        /\ jobStatus[held[w]] \notin {Null, "Uploaded"}
        /\ at[w] + 1 \in 2..Completed
    BY <1>3 DEF Stage, WorkerInv, Busy, Completed, Correlation
  <2>2. Stages[at[w] + 1] \notin {Null, "Uploaded"}
    BY <2>1, StageFacts DEF Completed
  <2> QED
    BY <1>3, <2>1, <2>2 DEF Stage
<1>4. ASSUME NEW w \in Workers, Raise(w) PROVE JobInv(k)'
  <2>1. held[w] \in Jobs /\ jobStatus[held[w]] \notin {Null, "Uploaded"}
    BY <1>4 DEF Raise, WorkerInv, Busy
  <2> QED
    BY <1>4, <2>1 DEF Raise
<1>5. ASSUME NEW s \in Sweepers, NEW j \in Jobs, SweepJob(s, j) PROVE JobInv(k)'
  <2>1. jobStatus[j] \notin {Null, "Uploaded"}
    BY <1>5 DEF SweepJob, Expirable, Settled
  <2> QED
    BY <1>5, <2>1 DEF SweepJob
<1>6. ASSUME NEW w \in Workers, Release(w) PROVE JobInv(k)'
  BY <1>6 DEF Release
<1>7. ASSUME NEW j \in Jobs, LeaseExpires(j) PROVE JobInv(k)'
  BY <1>7 DEF LeaseExpires
<1>8. CASE UNCHANGED <<jobStatus, jobEmail, lease, attempts, history>>
  BY <1>8
<1> QED
  BY <1>1, <1>2, <1>3, <1>4, <1>5, <1>6, <1>7, <1>8
     DEF Next, Request, Progress, Sweep, vars, AcquireEmail, CheckIdle, MarkUploaded,
         Abandon, Mirror, Commit, Summarise, RefreshAlert, RaiseAlert,
         FailEmail, Crash, SweepLatest, SweepEmail, SweepCrash

LEMMA ExclusiveStep == IInv /\ [Next]_vars => ClaimExclusive'
<1> SUFFICES ASSUME IInv, [Next]_vars PROVE ClaimExclusive'
  OBVIOUS
<1> USE DEF IInv, TypeOK, ClaimExclusive, Busy, NoJob
<1>1. ASSUME NEW w \in Workers, NEW j \in Jobs, Claim(w, j) PROVE ClaimExclusive'
  <2>1. \A v \in Workers : Busy(v) => held[v] # j
    BY <1>1 DEF Claim, WorkerInv
  <2> QED
    BY <1>1, <2>1 DEF Claim
<1>2. ASSUME NEW w \in Workers, Progress(w) \/ Raise(w) \/ Crash(w) PROVE ClaimExclusive'
  <2>1. \A v \in Workers : (pc'[v] # "idle" => Busy(v) /\ held'[v] = held[v])
    BY <1>2 DEF Progress, Stage, Mirror, AfterMirror, Commit, Summarise, RefreshAlert,
                RaiseAlert, Release, FailEmail, Raise, Crash, Leave
  <2> QED
    BY <2>1
<1>3. CASE UNCHANGED <<pc, held>>
  BY <1>3
<1> QED
  BY <1>1, <1>2, <1>3
     DEF Next, Request, Sweep, vars, workerVars, AcquireEmail, CheckIdle, InsertJob,
         MarkUploaded, Abandon, LeaseExpires, SweepJob, SweepLatest, SweepEmail, SweepCrash

\* The alert of an email is never withdrawn.
LEMMA AlertStays ==
    IInv /\ [Next]_vars => \A e \in Emails : alert[e] # Null => alert'[e] # Null
<1> SUFFICES ASSUME IInv, [Next]_vars, NEW e \in Emails, alert[e] # Null
             PROVE  alert'[e] # Null
  OBVIOUS
<1> USE DEF IInv, TypeOK
<1>1. ASSUME NEW w \in Workers, RefreshAlert(w) PROVE alert'[e] # Null
  BY <1>1 DEF RefreshAlert, WorkerInv, Busy
<1>2. ASSUME NEW w \in Workers, RaiseAlert(w) PROVE alert'[e] # Null
  BY <1>2 DEF RaiseAlert
<1>3. CASE UNCHANGED alert
  BY <1>3
<1> QED
  BY <1>1, <1>2, <1>3
     DEF Next, Request, Progress, Sweep, vars, dataVars, AcquireEmail, CheckIdle, InsertJob,
         MarkUploaded, Abandon, Claim, Stage, Mirror, Commit, Summarise, Release, Raise,
         FailEmail, Crash, LeaseExpires, SweepJob, SweepLatest, SweepEmail, SweepCrash

LEMMA WorkerStep == IInv /\ [Next]_vars => \A w \in Workers : WorkerInv(w)'
<1> SUFFICES ASSUME IInv, [Next]_vars, NEW v \in Workers, Busy(v)'
             PROVE  WorkerInv(v)'
  BY DEF WorkerInv
<1> USE DEF IInv, TypeOK, WorkerInv, Busy, Completed, Correlation, NoJob
<1>1. ASSUME NEW w \in Workers, NEW j \in Jobs, Claim(w, j) PROVE WorkerInv(v)'
  <2>1. CASE v = w
    BY <1>1, <2>1 DEF Claim, JobInv, dataVars, Null
  <2>2. CASE v # w
    BY <1>1, <2>2 DEF Claim, dataVars
  <2> QED
    BY <2>1, <2>2
<1>2. ASSUME NEW w \in Workers, Stage(w) PROVE WorkerInv(v)'
  <2>1. held[w] \in Jobs /\ at[w] + 1 \in 2..Completed /\ at[w] = Len(history[held[w]])
    BY <1>2 DEF Stage
  <2>2. Stages[at[w] + 1] \in StageNames \ {Null, "Uploaded"}
    BY <2>1, StageFacts
  <2>3. Len(history'[held[w]]) = at[w] + 1
    BY <1>2, <2>1, <2>2, HistoryAppend DEF Stage
  <2>4. CASE v = w
    BY <1>2, <2>1, <2>2, <2>3, <2>4 DEF Stage
  <2>5. CASE v # w
    <3>1. held[v] # held[w]
      BY <1>2, <2>5 DEF Stage, ClaimExclusive
    <3> QED
      BY <1>2, <2>1, <2>2, <2>5, <3>1 DEF Stage, dataVars
  <2> QED
    BY <2>4, <2>5
<1>3. ASSUME NEW w \in Workers, Mirror(w) PROVE WorkerInv(v)'
  <2>1. CASE v = w
    <3>0. at[w] \in 2..7
      <4>1. at[w] \in 0..7
        OBVIOUS
      <4>2. pc[w] = "mirror" /\ at[w] >= 2
        BY <1>3 DEF Mirror
      <4> QED
        BY <4>1, <4>2
    <3>1. pc'[w] = AfterMirror(at[w])
      BY <1>3 DEF Mirror
    <3>2. CASE at[w] = 6
      BY <1>3, <2>1, <3>1, <3>2 DEF Mirror, AfterMirror, jobVars, dataVars
    <3>3. CASE at[w] = 7
      BY <1>3, <2>1, <3>1, <3>3 DEF Mirror, AfterMirror, jobVars, dataVars
    <3>4. CASE at[w] \in 2..5
      <4>1. pc'[w] = "stage"
        BY <3>0, <3>1, <3>4 DEF AfterMirror
      <4> QED
        BY <1>3, <2>1, <3>4, <4>1 DEF Mirror, jobVars, dataVars
    <3> QED
      BY <3>0, <3>2, <3>3, <3>4
  <2>2. CASE v # w
    BY <1>3, <2>2 DEF Mirror, jobVars, dataVars
  <2> QED
    BY <2>1, <2>2
<1>4. ASSUME NEW w \in Workers, Commit(w) PROVE WorkerInv(v)'
  <2>1. CASE v = w
    BY <1>4, <2>1, SeverityAssumption DEF Commit
  <2>2. CASE v # w
    <3>1. held[v] # held[w]
      BY <1>4, <2>2 DEF Commit, ClaimExclusive
    <3> QED
      BY <1>4, <2>2, <3>1 DEF Commit
  <2> QED
    BY <2>1, <2>2
<1>5. ASSUME NEW w \in Workers, Summarise(w) PROVE WorkerInv(v)'
  BY <1>5 DEF Summarise, jobVars
<1>6. ASSUME NEW w \in Workers, RefreshAlert(w) PROVE WorkerInv(v)'
  BY <1>6, AlertStays DEF RefreshAlert, jobVars
<1>7. ASSUME NEW w \in Workers, RaiseAlert(w) PROVE WorkerInv(v)'
  <2>1. CASE v = w
    <3>1. PICK must \in MustAlert(finding[held[w]]) :
            alert' = [alert EXCEPT ![jobEmail[held[w]]] =
                         IF must /\ alert[jobEmail[held[w]]] = Null
                           THEN finding[held[w]] ELSE alert[jobEmail[held[w]]]]
      BY <1>7 DEF RaiseAlert
    <3>2. jobEmail[held[w]] \in Emails
      BY <1>7, JobInv(held[w]) DEF RaiseAlert, JobInv
    <3>3. finding[held[w]] \in AlertSeverities => alert'[jobEmail[held[w]]] # Null
      BY <1>7, <3>1, <3>2 DEF MustAlert, RaiseAlert
    <3> QED
      BY <1>7, <2>1, <3>3 DEF RaiseAlert, jobVars
  <2>2. CASE v # w
    <3>1. jobEmail[held[v]] \in Emails
      BY <1>7, <2>2, JobInv(held[v]) DEF RaiseAlert, JobInv
    <3> QED
      BY <1>7, <2>2, <3>1, AlertStays DEF RaiseAlert, jobVars
  <2> QED
    BY <2>1, <2>2
<1>8. ASSUME NEW w \in Workers, Raise(w) PROVE WorkerInv(v)'
  <2>1. CASE v = w
    BY <1>8, <2>1 DEF Raise, dataVars, Null
  <2>2. CASE v # w
    BY <1>8, <2>2 DEF Raise, dataVars, Null
  <2> QED
    BY <2>1, <2>2
<1>9. ASSUME NEW w \in Workers, Release(w) \/ FailEmail(w) \/ Crash(w) PROVE WorkerInv(v)'
  <2>1. v # w
    BY <1>9 DEF Release, FailEmail, Crash, Leave
  <2> QED
    BY <1>9, <2>1 DEF Release, FailEmail, Crash, Leave, jobVars, dataVars
<1>10. ASSUME NEW c \in Clients, NEW j \in Jobs, InsertJob(c, j) PROVE WorkerInv(v)'
  <2>1. jobStatus[j] = Null
    BY <1>10 DEF InsertJob, NextId
  <2>2. held[v] # j
    BY <1>10, <2>1 DEF InsertJob, workerVars
  <2> QED
    BY <1>10, <2>2 DEF InsertJob, workerVars, dataVars
<1>11. ASSUME NEW s \in Sweepers, NEW j \in Jobs, SweepJob(s, j) PROVE WorkerInv(v)'
  BY <1>11 DEF SweepJob, workerVars, dataVars, Null
<1>12. CASE UNCHANGED <<jobStatus, jobEmail, history, finding, alert, pc, held, at>>
  BY <1>12
<1> QED
  BY <1>1, <1>2, <1>3, <1>4, <1>5, <1>6, <1>7, <1>8, <1>9, <1>10, <1>11, <1>12
     DEF Next, Request, Progress, Sweep, vars, jobVars, workerVars, dataVars, AcquireEmail,
         CheckIdle, MarkUploaded, Abandon, LeaseExpires, SweepLatest, SweepEmail, SweepCrash

LEMMA RequestStep == IInv /\ [Next]_vars => \A c \in Clients : RequestInv(c)'
<1> SUFFICES ASSUME IInv, [Next]_vars PROVE \A c \in Clients : RequestInv(c)'
  OBVIOUS
<1> USE DEF IInv, TypeOK, RequestInv
<1>1. ASSUME NEW c \in Clients, Request(c) \/ Abandon(c)
      PROVE  \A d \in Clients : RequestInv(d)'
  BY <1>1 DEF Request, AcquireEmail, CheckIdle, InsertJob, MarkUploaded, Abandon, Return
<1>2. CASE UNCHANGED clientVars
  BY <1>2 DEF clientVars
<1> QED
  BY <1>1, <1>2
     DEF Next, Progress, Sweep, vars, Claim, Stage, Mirror, Commit, Summarise, RefreshAlert,
         RaiseAlert, Release, Raise, FailEmail, Crash, LeaseExpires, SweepJob, SweepLatest,
         SweepEmail, SweepCrash

\* A job that was claimed is never Uploaded again.
LEMMA NeverRequeued ==
    IInv /\ [Next]_vars =>
       \A j \in Jobs : jobStatus[j] \notin {Null, "Uploaded"}
          => jobStatus'[j] \notin {Null, "Uploaded"}
<1> SUFFICES ASSUME IInv, [Next]_vars, NEW j \in Jobs, jobStatus[j] \notin {Null, "Uploaded"}
             PROVE  jobStatus'[j] \notin {Null, "Uploaded"}
  OBVIOUS
<1> USE DEF IInv, TypeOK, Null
<1>1. ASSUME NEW c \in Clients, NEW k \in Jobs, InsertJob(c, k)
      PROVE  jobStatus'[j] \notin {Null, "Uploaded"}
  BY <1>1 DEF InsertJob, NextId
<1>2. ASSUME NEW w \in Workers, Stage(w) PROVE jobStatus'[j] \notin {Null, "Uploaded"}
  <2>1. at[w] + 1 \in 2..Completed
    BY <1>2 DEF Stage, WorkerInv, Busy, Completed, Correlation
  <2>2. Stages[at[w] + 1] \notin {Null, "Uploaded"}
    BY <2>1, StageFacts DEF Completed
  <2> QED
    BY <1>2, <2>2 DEF Stage
<1>3. CASE UNCHANGED jobStatus
  BY <1>3
<1>4. ASSUME NEW w \in Workers, NEW k \in Jobs, Claim(w, k)
      PROVE  jobStatus'[j] \notin {Null, "Uploaded"}
  BY <1>4 DEF Claim
<1>5. ASSUME NEW w \in Workers, Raise(w) PROVE jobStatus'[j] \notin {Null, "Uploaded"}
  BY <1>5 DEF Raise
<1>6. ASSUME NEW s \in Sweepers, NEW k \in Jobs, SweepJob(s, k)
      PROVE  jobStatus'[j] \notin {Null, "Uploaded"}
  BY <1>6 DEF SweepJob
<1> QED
  BY <1>1, <1>2, <1>3, <1>4, <1>5, <1>6
     DEF Next, Request, Progress, Sweep, vars, jobVars, AcquireEmail, CheckIdle, MarkUploaded,
         Abandon, Mirror, Commit, Summarise, RefreshAlert, RaiseAlert, Release, FailEmail,
         Crash, LeaseExpires, SweepLatest, SweepEmail, SweepCrash

LEMMA SweepStep == IInv /\ [Next]_vars => \A s \in Sweepers : SweepInv(s)'
<1> SUFFICES ASSUME IInv, [Next]_vars, NEW t \in Sweepers, spc'[t] # "idle"
             PROVE  sjob'[t] \in Jobs /\ jobStatus'[sjob'[t]] \notin {Null, "Uploaded"}
  BY DEF SweepInv
<1> USE NeverRequeued DEF IInv, TypeOK, SweepInv
<1>1. ASSUME NEW s \in Sweepers, NEW j \in Jobs, SweepJob(s, j)
      PROVE  sjob'[t] \in Jobs /\ jobStatus'[sjob'[t]] \notin {Null, "Uploaded"}
  BY <1>1 DEF SweepJob, Null
<1>2. ASSUME NEW s \in Sweepers, SweepLatest(s) \/ SweepEmail(s) \/ SweepCrash(s)
      PROVE  sjob'[t] \in Jobs /\ jobStatus'[sjob'[t]] \notin {Null, "Uploaded"}
  <2>1. spc[t] # "idle" /\ sjob'[t] = sjob[t]
    BY <1>2 DEF SweepLatest, SweepEmail, SweepCrash, EndSweep
  <2> QED
    BY <2>1
<1>3. CASE UNCHANGED sweepVars
  BY <1>3 DEF sweepVars
<1> QED
  BY <1>1, <1>2, <1>3
     DEF Next, Request, Progress, Sweep, vars, AcquireEmail, CheckIdle, InsertJob,
         MarkUploaded, Abandon, Claim, Stage, Mirror, Commit, Summarise, RefreshAlert,
         RaiseAlert, Release, Raise, FailEmail, Crash, LeaseExpires

LEMMA HistoryStep == IInv /\ [Next]_vars => HistoryTruthful'
<1> SUFFICES ASSUME IInv, [Next]_vars PROVE HistoryTruthful'
  OBVIOUS
<1> USE DEF IInv, TypeOK, HistoryTruthful, Completed
<1>1. ASSUME NEW c \in Clients, NEW j \in Jobs, InsertJob(c, j) PROVE HistoryTruthful'
  <2>1. Len(<<"Uploaded">>) = 1 /\ <<"Uploaded">>[1] = Stages[1]
    BY StageFacts
  <2> QED
    BY <1>1, <2>1 DEF InsertJob
<1>2. ASSUME NEW w \in Workers, Stage(w) PROVE HistoryTruthful'
  <2> DEFINE name == Stages[at[w] + 1]
  <2>1. held[w] \in Jobs /\ at[w] + 1 \in 2..7 /\ at[w] = Len(history[held[w]])
    BY <1>2 DEF Stage, WorkerInv, Busy, Correlation
  <2>2. name \in StageNames /\ (name = "Completed" <=> at[w] + 1 = 7)
    BY <2>1, StageFacts
  <2>3. /\ Len(history'[held[w]]) = at[w] + 1
        /\ history'[held[w]][at[w] + 1] = name
        /\ \A i \in 1..at[w] : history'[held[w]][i] = history[held[w]][i]
    BY <1>2, <2>1, <2>2, HistoryAppend DEF Stage
  <2>4. \A i \in 1..(at[w] + 1) : history'[held[w]][i] = Stages[i]
    BY <2>1, <2>3
  <2>5. /\ jobStatus'[held[w]] = name
        /\ \A j \in Jobs \ {held[w]} :
              jobStatus'[j] = jobStatus[j] /\ history'[j] = history[j]
    BY <1>2, <2>1 DEF Stage
  <2> DEFINE n == at[w] + 1
  <2>6. ASSUME NEW j \in Jobs
        PROVE  /\ Len(history'[j]) <= 7
               /\ \A i \in 1..Len(history'[j]) : history'[j][i] = Stages[i]
               /\ jobStatus'[j] = "Completed" => Len(history'[j]) = 7
    <3>1. CASE j = held[w]
      <4>1. /\ Len(history'[j]) = n
            /\ n \in 2..7
            /\ \A i \in 1..n : history'[j][i] = Stages[i]
            /\ jobStatus'[j] = "Completed" => n = 7
        BY <2>1, <2>2, <2>3, <2>4, <2>5, <3>1
      <4> HIDE DEF n, TypeOK, IInv, HistoryTruthful
      <4> QED
        BY <4>1
    <3>2. CASE j # held[w]
      BY <2>5, <3>2
    <3> QED
      BY <3>1, <3>2
  <2> QED
    BY <2>6
<1>3. ASSUME NEW w \in Workers, NEW j \in Jobs, Claim(w, j) PROVE HistoryTruthful'
  BY <1>3 DEF Claim
<1>4. ASSUME NEW w \in Workers, Raise(w) PROVE HistoryTruthful'
  BY <1>4 DEF Raise
<1>5. ASSUME NEW s \in Sweepers, NEW j \in Jobs, SweepJob(s, j) PROVE HistoryTruthful'
  BY <1>5 DEF SweepJob
<1>6. CASE UNCHANGED <<jobStatus, history>>
  BY <1>6
<1> QED
  BY <1>1, <1>2, <1>3, <1>4, <1>5, <1>6
     DEF Next, Request, Progress, Sweep, vars, jobVars, AcquireEmail, CheckIdle, MarkUploaded,
         Abandon, Mirror, Commit, Summarise, RefreshAlert, RaiseAlert, Release, FailEmail,
         Crash, LeaseExpires, SweepLatest, SweepEmail, SweepCrash

\* Histories only grow, and a job keeps its email.
LEMMA HistoryGrows ==
    IInv /\ [Next]_vars =>
       \A j \in Jobs : jobStatus[j] # Null =>
          Len(history'[j]) >= Len(history[j]) /\ jobEmail'[j] = jobEmail[j]
<1> SUFFICES ASSUME IInv, [Next]_vars, NEW j \in Jobs, jobStatus[j] # Null
             PROVE  Len(history'[j]) >= Len(history[j]) /\ jobEmail'[j] = jobEmail[j]
  OBVIOUS
<1> USE DEF IInv, TypeOK
<1>1. ASSUME NEW c \in Clients, NEW k \in Jobs, InsertJob(c, k)
      PROVE  Len(history'[j]) >= Len(history[j]) /\ jobEmail'[j] = jobEmail[j]
  BY <1>1 DEF InsertJob, NextId
<1>2. ASSUME NEW w \in Workers, Stage(w)
      PROVE  Len(history'[j]) >= Len(history[j]) /\ jobEmail'[j] = jobEmail[j]
  <2>1. held[w] \in Jobs /\ at[w] + 1 \in 1..Completed
    BY <1>2 DEF Stage, WorkerInv, Busy, Correlation, Completed
  <2>2. Len(history'[held[w]]) = Len(history[held[w]]) + 1
    BY <1>2, <2>1, StageFacts, HistoryAppend DEF Stage
  <2> QED
    BY <1>2, <2>1, <2>2 DEF Stage
<1>3. CASE UNCHANGED <<history, jobEmail>>
  BY <1>3
<1> QED
  BY <1>1, <1>2, <1>3
     DEF Next, Request, Progress, Sweep, vars, jobVars, AcquireEmail, CheckIdle, MarkUploaded,
         Abandon, Claim, Mirror, Commit, Summarise, RefreshAlert, RaiseAlert, Release, Raise,
         FailEmail, Crash, LeaseExpires, SweepJob, SweepLatest, SweepEmail, SweepCrash

LEMMA AnalysisStep == IInv /\ [Next]_vars => AnalysisFromFullRun'
<1> SUFFICES ASSUME IInv, [Next]_vars, NEW e \in Emails, analysis'[e] # Null
             PROVE  \E j \in Jobs : /\ analysisJob'[e] = j
                                    /\ jobEmail'[j] = e
                                    /\ Len(history'[j]) >= Correlation
                                    /\ finding'[j] = analysis'[e]
  BY DEF AnalysisFromFullRun
<1> USE DEF IInv, TypeOK, AnalysisFromFullRun
<1>1. ASSUME analysis[e] # Null, analysis'[e] = analysis[e], analysisJob'[e] = analysisJob[e],
             \A j \in Jobs : jobEmail[j] = e => finding'[j] = finding[j]
      PROVE  \E j \in Jobs : /\ analysisJob'[e] = j
                             /\ jobEmail'[j] = e
                             /\ Len(history'[j]) >= Correlation
                             /\ finding'[j] = analysis'[e]
  <2>1. PICK j \in Jobs : /\ analysisJob[e] = j /\ jobEmail[j] = e
                          /\ Len(history[j]) >= Correlation /\ finding[j] = analysis[e]
    BY <1>1
  <2>2. jobStatus[j] # Null
    BY <2>1, EmailAssumption DEF JobInv
  <2>3. Len(history'[j]) >= Correlation /\ jobEmail'[j] = e
    <3>1. Len(history'[j]) >= Len(history[j]) /\ jobEmail'[j] = jobEmail[j]
      BY <2>2, HistoryGrows
    <3>2. history'[j] \in Seq(StageNames)
      BY TypeStep
    <3> QED
      BY <2>1, <3>1, <3>2 DEF Correlation
  <2> QED
    BY <1>1, <2>1, <2>3
<1>2. ASSUME NEW w \in Workers, Commit(w)
      PROVE  \E j \in Jobs : /\ analysisJob'[e] = j
                             /\ jobEmail'[j] = e
                             /\ Len(history'[j]) >= Correlation
                             /\ finding'[j] = analysis'[e]
  <2>1. held[w] \in Jobs /\ Len(history[held[w]]) = Correlation
    BY <1>2 DEF Commit, WorkerInv, Busy
  <2>2. CASE e = jobEmail[held[w]]
    <3>1. /\ analysisJob'[e] = held[w] /\ finding'[held[w]] = analysis'[e]
          /\ history' = history /\ jobEmail' = jobEmail
      BY <1>2, <2>1, <2>2 DEF Commit
    <3>2. history'[held[w]] = history[held[w]]
      BY <3>1
    <3> HIDE DEF TypeOK, AnalysisFromFullRun
    <3>4. Len(history'[held[w]]) = Correlation
      BY <2>1, <3>2
    <3>3. Len(history'[held[w]]) >= Correlation
      BY <3>4 DEF Correlation
    <3> QED
      BY <2>1, <2>2, <3>1, <3>3
  <2>3. CASE e # jobEmail[held[w]]
    BY <1>1, <1>2, <2>1, <2>3 DEF Commit
  <2> QED
    BY <2>2, <2>3
<1>3. CASE UNCHANGED <<analysis, analysisJob, finding>>
  BY <1>1, <1>3
<1> QED
  BY <1>2, <1>3
     DEF Next, Request, Progress, Sweep, vars, jobVars, dataVars, AcquireEmail, CheckIdle,
         InsertJob, MarkUploaded, Abandon, Claim, Stage, Mirror, Summarise, RefreshAlert,
         RaiseAlert, Release, Raise, FailEmail, Crash, LeaseExpires, SweepJob, SweepLatest,
         SweepEmail, SweepCrash

LEMMA AlertedStep == IInv /\ [Next]_vars => HighFindingAlerted'
<1> SUFFICES ASSUME IInv, [Next]_vars, NEW j \in Jobs,
                    Len(history'[j]) = Completed, finding'[j] \in AlertSeverities
             PROVE  alert'[jobEmail'[j]] # Null
  BY DEF HighFindingAlerted
<1> USE DEF IInv, TypeOK, HighFindingAlerted
<1>1. ASSUME history'[j] = history[j], finding'[j] = finding[j]
      PROVE  alert'[jobEmail'[j]] # Null
  <2>1. jobStatus[j] # Null
    <3>1. Len(<<>>) = 0
      OBVIOUS
    <3>2. Len(history[j]) = 7
      BY <1>1 DEF Completed
    <3>3. jobStatus[j] = Null => history[j] = <<>>
      BY DEF JobInv
    <3> HIDE DEF TypeOK
    <3> QED
      BY <3>1, <3>2, <3>3 DEF Completed
  <2>2. jobEmail[j] \in Emails /\ jobEmail'[j] = jobEmail[j]
    BY <2>1, HistoryGrows DEF JobInv
  <2> QED
    BY <1>1, <2>2, AlertStays
<1>2. ASSUME NEW c \in Clients, NEW k \in Jobs, InsertJob(c, k)
      PROVE  alert'[jobEmail'[j]] # Null
  BY <1>1, <1>2 DEF InsertJob, Completed
<1>3. ASSUME NEW w \in Workers, Stage(w) PROVE alert'[jobEmail'[j]] # Null
  <2>1. held[w] \in Jobs /\ at[w] + 1 \in 1..Completed /\ at[w] = Len(history[held[w]])
    BY <1>3 DEF Stage, WorkerInv, Busy, Correlation, Completed
  <2>2. Len(history'[held[w]]) = at[w] + 1
    BY <1>3, <2>1, StageFacts, HistoryAppend DEF Stage
  <2>3. CASE j = held[w]
    <3>1. at[w] = Correlation
      <4> HIDE DEF TypeOK, HighFindingAlerted
      <4>1. at[w] + 1 = Completed
        BY <2>2, <2>3
      <4>2. at[w] \in 0..7
        BY DEF TypeOK, Completed
      <4> QED
        BY <4>1, <4>2 DEF Correlation, Completed
    <3> QED
      BY <1>3, <2>3, <3>1 DEF Stage, WorkerInv, Busy, dataVars
  <2>4. CASE j # held[w]
    BY <1>1, <1>3, <2>4 DEF Stage
  <2> QED
    BY <2>3, <2>4
<1>4. ASSUME NEW w \in Workers, Commit(w) PROVE alert'[jobEmail'[j]] # Null
  <2>1. held[w] \in Jobs /\ Len(history[held[w]]) = Correlation
    BY <1>4 DEF Commit, WorkerInv, Busy
  <2>2. j # held[w]
    <3>1. history'[j] = history[j]
      BY <1>4 DEF Commit
    <3>2. Len(history[j]) = 7
      BY <3>1 DEF Completed
    <3> HIDE DEF TypeOK
    <3> QED
      BY <2>1, <3>2 DEF Correlation, Completed
  <2> QED
    BY <1>1, <1>4, <2>2 DEF Commit
<1>5. CASE UNCHANGED <<history, finding>>
  BY <1>1, <1>5
<1> QED
  BY <1>2, <1>3, <1>4, <1>5
     DEF Next, Request, Progress, Sweep, vars, jobVars, AcquireEmail, CheckIdle, MarkUploaded,
         Abandon, Claim, Mirror, Summarise, RefreshAlert, RaiseAlert, Release, Raise, FailEmail,
         Crash, LeaseExpires, SweepJob, SweepLatest, SweepEmail, SweepCrash

THEOREM Invariance == Spec => []IInv
<1>1. IInv /\ [Next]_vars => IInv'
  BY TypeStep, JobStep, WorkerStep, RequestStep, SweepStep, ExclusiveStep, HistoryStep,
     AnalysisStep, AlertedStep DEF IInv
<1> QED
  BY InitInv, <1>1, PTL DEF Spec

\* Type correctness; with attempts in 0..1, every job is claimed at most once.
THEOREM TypeCorrect == Spec => []TypeOK
<1>1. IInv => TypeOK
  BY DEF IInv
<1> QED
  BY Invariance, <1>1, PTL

\* Two workers never run the same job, in either worker mode.
THEOREM ClaimIsExclusive == Spec => []ClaimExclusive
<1>1. IInv => ClaimExclusive
  BY DEF IInv
<1> QED
  BY Invariance, <1>1, PTL

\* A job's history is the stages it went through, in order, each once.
THEOREM HistoryIsTruthful == Spec => []HistoryTruthful
<1>1. IInv => HistoryTruthful
  BY DEF IInv
<1> QED
  BY Invariance, <1>1, PTL

\* A stored analysis is the whole result of one run of a job of its email.
THEOREM AnalysisIsFromFullRun == Spec => []AnalysisFromFullRun
<1>1. IInv => AnalysisFromFullRun
  BY DEF IInv
<1> QED
  BY Invariance, <1>1, PTL

\* A finished run with an alerting severity has left an alert.
THEOREM HighFindingIsAlerted == Spec => []HighFindingAlerted
<1>1. IInv => HighFindingAlerted
  BY DEF IInv
<1> QED
  BY Invariance, <1>1, PTL
=============================================================================
