--------------------- MODULE JobPipelineCelery_proofs ----------------------
(***************************************************************************)
(* Theorems of JobPipeline in Celery mode (TimeLimited): the queue         *)
(* implements JobLifecycle, and, when requests do not overlap, an email    *)
(* has one pending job and shows the result of its latest one.             *)
(***************************************************************************)
EXTENDS JobPipeline_proofs

\* A job that a worker runs has a live lease and the status its worker wrote
\* last: the time limit keeps the sweep away from it.
TaskInv(w) ==
    Busy(w) =>
       IF pc[w] = "failEmail"
       THEN jobStatus[held[w]] = "Failed" /\ lease[held[w]] = Null
       ELSE /\ lease[held[w]] = "live"
            /\ jobStatus[held[w]] = IF at[w] = 1 THEN "Claimed" ELSE Stages[at[w]]

LEMMA TaskStep ==
    TimeLimited /\ IInv /\ (\A w \in Workers : TaskInv(w)) /\ [Next]_vars
       => \A w \in Workers : TaskInv(w)'
<1> SUFFICES ASSUME TimeLimited, IInv, \A w \in Workers : TaskInv(w), [Next]_vars,
                    NEW v \in Workers, Busy(v)'
             PROVE  TaskInv(v)'
  BY DEF TaskInv
<1> USE DEF TaskInv, Busy
<1>0. /\ \A w \in Workers : Busy(w) => held[w] \in Jobs /\ at[w] \in 1..7
      /\ \A w \in Workers : Busy(w) => jobStatus[held[w]] \notin {Null, "Uploaded"}
      /\ \A w \in Workers : pc[w] = "stage" => at[w] \in 1..6
      /\ \A w \in Workers : w # v /\ Busy(w) /\ Busy(v) => held[w] # held[v]
      /\ pc \in [Workers -> WorkerPCs] /\ held \in [Workers -> Jobs \cup {NoJob}]
      /\ at \in [Workers -> 0..7]
      /\ jobStatus \in [Jobs -> StageNames \cup {Null, "Claimed", "Failed"}]
      /\ lease \in [Jobs -> {Null, "live", "expired"}]
  <2>1. \A w \in Workers : at[w] \in 0..7
    BY DEF IInv, TypeOK, Completed
  <2>2. \A w \in Workers : Busy(w) => held[w] \in Jobs /\ at[w] >= 1
                             /\ jobStatus[held[w]] \notin {Null, "Uploaded"}
    BY DEF IInv, WorkerInv
  <2>3. \A w \in Workers : pc[w] = "stage" => at[w] <= 6
    BY DEF IInv, WorkerInv, Correlation
  <2>4. \A w \in Workers : w # v /\ Busy(w) /\ Busy(v) => held[w] # held[v]
    BY DEF IInv, ClaimExclusive
  <2>5. /\ pc \in [Workers -> WorkerPCs] /\ held \in [Workers -> Jobs \cup {NoJob}]
        /\ at \in [Workers -> 0..7]
        /\ jobStatus \in [Jobs -> StageNames \cup {Null, "Claimed", "Failed"}]
        /\ lease \in [Jobs -> {Null, "live", "expired"}]
    BY DEF IInv, TypeOK, Completed
  <2>6. \A w \in Workers : Busy(w) => at[w] \in 1..7
    BY <2>1, <2>2
  <2>7. \A w \in Workers : pc[w] = "stage" => at[w] \in 1..6
    BY <2>1, <2>2, <2>3
  <2> QED
    BY <2>2, <2>4, <2>5, <2>6, <2>7
<1>1. ASSUME NEW w \in Workers, NEW j \in Jobs, Claim(w, j) PROVE TaskInv(v)'
  <2>1. CASE v = w
    BY <1>0, <1>1, <2>1 DEF Claim
  <2>2. CASE v # w
    BY <1>0, <1>1, <2>2 DEF Claim
  <2> QED
    BY <2>1, <2>2
<1>2. ASSUME NEW w \in Workers, Stage(w) PROVE TaskInv(v)'
  <2>1. CASE v = w
    BY <1>0, <1>2, <2>1 DEF Stage
  <2>2. CASE v # w
    BY <1>0, <1>2, <2>2 DEF Stage
  <2> QED
    BY <2>1, <2>2
<1>3. ASSUME NEW w \in Workers, Mirror(w) PROVE TaskInv(v)'
  <2>1. AfterMirror(at[w]) \notin {"idle", "failEmail"}
    BY DEF AfterMirror
  <2> QED
    BY <1>0, <1>3, <2>1 DEF Mirror, jobVars
<1>4. ASSUME NEW w \in Workers,
             Commit(w) \/ Summarise(w) \/ RefreshAlert(w) \/ RaiseAlert(w)
      PROVE  TaskInv(v)'
  BY <1>0, <1>4 DEF Commit, Summarise, RefreshAlert, RaiseAlert, jobVars
<1>5. ASSUME NEW w \in Workers, Release(w) PROVE TaskInv(v)'
  BY <1>0, <1>5 DEF Release, Leave
<1>6. ASSUME NEW w \in Workers, Raise(w) PROVE TaskInv(v)'
  <2>1. CASE v = w
    BY <1>0, <1>6, <2>1 DEF Raise
  <2>2. CASE v # w
    BY <1>0, <1>6, <2>2 DEF Raise
  <2> QED
    BY <2>1, <2>2
<1>7. ASSUME NEW w \in Workers, FailEmail(w) \/ Crash(w) PROVE TaskInv(v)'
  BY <1>0, <1>7 DEF FailEmail, Crash, Leave, jobVars
<1>8. ASSUME NEW c \in Clients, NEW j \in Jobs, InsertJob(c, j) PROVE TaskInv(v)'
  BY <1>0, <1>8 DEF InsertJob, NextId, workerVars
<1>9. ASSUME NEW j \in Jobs, LeaseExpires(j) PROVE TaskInv(v)'
  BY <1>0, <1>9 DEF LeaseExpires, Running, workerVars
<1>10. ASSUME NEW s \in Sweepers, NEW j \in Jobs, SweepJob(s, j) PROVE TaskInv(v)'
  BY <1>0, <1>10 DEF SweepJob, Expirable, workerVars, Null
<1>11. CASE UNCHANGED <<jobStatus, lease, pc, held, at>>
  BY <1>11
<1> QED
  BY <1>1, <1>2, <1>3, <1>4, <1>5, <1>6, <1>7, <1>8, <1>9, <1>10, <1>11
     DEF Next, Request, Progress, Sweep, vars, jobVars, workerVars, AcquireEmail, CheckIdle,
         MarkUploaded, Abandon, SweepLatest, SweepEmail, SweepCrash

-----------------------------------------------------------------------------
(* The queue implements the abstract life of a job. *)

\* The status of a job that a worker runs, before and after its next step.
LEMMA TaskStatus ==
    ASSUME NEW w \in Workers, TaskInv(w), IInv, Busy(w)
    PROVE  /\ held[w] \in Jobs
           /\ pc[w] = "failEmail" => jobStatus[held[w]] = "Failed"
           /\ pc[w] # "failEmail" => jobStatus[held[w]] \notin {Null, "Uploaded", "Failed"}
           /\ pc[w] = "release" => jobStatus[held[w]] = "Completed"
           /\ pc[w] = "stage" => jobStatus[held[w]] # "Completed" /\ at[w] + 1 \in 2..Completed
<1>1. held[w] \in Jobs /\ at[w] \in 1..7
  <2>1. at[w] \in 0..7 /\ at[w] >= 1 /\ held[w] \in Jobs
    BY DEF IInv, TypeOK, WorkerInv, Completed
  <2> QED
    BY <2>1
<1>2. jobStatus[held[w]] \notin {Null, "Uploaded"}
  BY DEF IInv, WorkerInv
<1>3. pc[w] = "stage" => at[w] \in 1..6
  <2>1. pc[w] = "stage" => at[w] <= 6
    BY DEF IInv, WorkerInv, Correlation
  <2> QED
    BY <1>1, <2>1
<1>4. pc[w] = "release" => at[w] = 7
  BY DEF IInv, WorkerInv, Completed
<1>5. /\ \A i \in 1..7 : Stages[i] # "Failed"
      /\ \A i \in 1..6 : Stages[i] # "Completed"
      /\ Stages[7] = "Completed"
  BY StageFacts DEF Completed
<1> QED
  BY <1>1, <1>2, <1>3, <1>4, <1>5 DEF TaskInv, Completed

LEMMA LifecycleStep ==
    IInv /\ (\A w \in Workers : TaskInv(w)) /\ [Next]_vars => [Lifecycle!Next]_phase
<1> SUFFICES ASSUME IInv, \A w \in Workers : TaskInv(w), [Next]_vars
             PROVE  [Lifecycle!Next]_phase
  OBVIOUS
\* The phases a step leaves alone.
<1>1. ASSUME NEW j \in Jobs, jobStatus'[j] = jobStatus[j],
             jobStatus[j] = "Completed" => (Running(j)' <=> Running(j))
      PROVE  phase'[j] = phase[j]
  BY <1>1 DEF phase
<1>2. ASSUME \A j \in Jobs : jobStatus'[j] = jobStatus[j] /\ (Running(j)' <=> Running(j))
      PROVE  phase' = phase
  <2>1. \A j \in Jobs : phase'[j] = phase[j]
    BY <1>1, <1>2
  <2> QED
    BY <2>1 DEF phase
<1>3. ASSUME NEW j \in Jobs, NEW p, phase'[j] = p, \A k \in Jobs \ {j} : phase'[k] = phase[k]
      PROVE  phase' = [phase EXCEPT ![j] = p]
  <2>1. phase = [k \in Jobs |-> phase[k]] /\ phase' = [k \in Jobs |-> phase'[k]]
    BY DEF phase
  <2> QED
    BY <1>3, <2>1
<1>4. ASSUME NEW c \in Clients, NEW j \in Jobs, InsertJob(c, j) PROVE Lifecycle!Submit(j)
  <2>1. \A k \in Jobs : Running(k)' <=> Running(k)
    BY <1>4 DEF InsertJob, workerVars, Running, Busy
  <2>2. \A k \in Jobs \ {j} : jobStatus'[k] = jobStatus[k]
    BY <1>4 DEF InsertJob
  <2>3. \A k \in Jobs \ {j} : phase'[k] = phase[k]
    BY <1>1, <2>1, <2>2
  <2>4. jobStatus[j] = Null /\ jobStatus'[j] = "Uploaded"
    BY <1>4 DEF InsertJob, NextId, IInv, TypeOK
  <2>5. phase[j] = "absent" /\ phase'[j] = "queued"
    BY <2>4 DEF phase, Null
  <2> QED
    BY <1>3, <2>3, <2>5 DEF Lifecycle!Submit
<1>5. ASSUME NEW w \in Workers, NEW j \in Jobs, Claim(w, j) PROVE Lifecycle!Start(j)
  <2>1. \A k \in Jobs \ {j} : Running(k)' <=> Running(k)
    BY <1>5 DEF Claim, Running, Busy, IInv, TypeOK
  <2>2. \A k \in Jobs \ {j} : jobStatus'[k] = jobStatus[k]
    BY <1>5 DEF Claim
  <2>3. \A k \in Jobs \ {j} : phase'[k] = phase[k]
    BY <1>1, <2>1, <2>2
  <2>4. jobStatus[j] = "Uploaded" /\ jobStatus'[j] = "Claimed"
    BY <1>5 DEF Claim, IInv, TypeOK
  <2>5. phase[j] = "queued" /\ phase'[j] = "running"
    BY <2>4 DEF phase, Null
  <2> QED
    BY <1>3, <2>3, <2>5 DEF Lifecycle!Start
<1>6. ASSUME NEW w \in Workers, Stage(w) PROVE phase' = phase
  <2> DEFINE j == held[w]
  <2>8. Busy(w) /\ held' = held /\ \A v \in Workers : Busy(v)' <=> Busy(v)
    BY <1>6 DEF Stage, Busy, IInv, TypeOK
  <2>1. /\ j \in Jobs /\ Running(j) /\ Running(j)'
        /\ \A k \in Jobs : Running(k)' <=> Running(k)
    BY <2>8, TaskStatus DEF Running
  <2>2. \A k \in Jobs \ {j} : jobStatus'[k] = jobStatus[k]
    BY <1>6 DEF Stage
  <2>3. \A k \in Jobs \ {j} : phase'[k] = phase[k]
    BY <1>1, <2>1, <2>2
  <2>4. jobStatus[j] \notin {Null, "Uploaded", "Failed"} /\ at[w] + 1 \in 2..Completed
    BY <1>6, TaskStatus DEF Stage, Busy
  <2>5. jobStatus'[j] \notin {Null, "Uploaded", "Failed"}
    <3>1. jobStatus'[j] = Stages[at[w] + 1]
      BY <1>6, <2>1 DEF Stage, IInv, TypeOK
    <3> QED
      BY <2>4, <3>1, StageFacts DEF Completed
  <2>6. phase[j] = "running" /\ phase'[j] = "running"
    BY <2>1, <2>4, <2>5 DEF phase
  <2>7. \A k \in Jobs : phase'[k] = phase[k]
    BY <2>3, <2>6
  <2> QED
    BY <2>7 DEF phase
<1>7. ASSUME NEW w \in Workers,
             Mirror(w) \/ Commit(w) \/ Summarise(w) \/ RefreshAlert(w) \/ RaiseAlert(w)
      PROVE  phase' = phase
  <2>1. jobStatus' = jobStatus /\ held' = held
    BY <1>7 DEF Mirror, Commit, Summarise, RefreshAlert, RaiseAlert, jobVars
  <2>2. \A v \in Workers : Busy(v)' <=> Busy(v)
    BY <1>7 DEF Mirror, AfterMirror, Commit, Summarise, RefreshAlert, RaiseAlert, Busy,
                IInv, TypeOK
  <2>3. \A j \in Jobs : Running(j)' <=> Running(j)
    BY <2>1, <2>2 DEF Running
  <2> QED
    BY <1>2, <2>1, <2>3
\* A worker that leaves only changes the phase of its own job.
<1>8. ASSUME NEW w \in Workers, NEW j \in Jobs, Busy(w), j = held[w], Leave(w),
             jobStatus' = jobStatus
      PROVE  /\ \A k \in Jobs \ {j} : phase'[k] = phase[k]
             /\ ~Running(j)'
  <2>1. \A k \in Jobs \ {j} : Running(k)' <=> Running(k)
    BY <1>8 DEF Leave, Running, Busy, IInv, TypeOK
  <2>2. \A v \in Workers : v # w /\ Busy(v) => held[v] # j
    BY <1>8 DEF IInv, ClaimExclusive
  <2>3. \A v \in Workers : Busy(v)' => v # w /\ Busy(v) /\ held'[v] = held[v]
    BY <1>8 DEF Leave, Busy, IInv, TypeOK
  <2>4. ~Running(j)'
    BY <2>2, <2>3 DEF Running
  <2> QED
    BY <1>1, <1>8, <2>1, <2>4
<1>9. ASSUME NEW w \in Workers, NEW j \in Jobs, j = held[w],
             Release(w) \/ FailEmail(w) \/ Crash(w)
      PROVE  Lifecycle!Finish(j) \/ phase' = phase
  <2>1. Busy(w) /\ Leave(w) /\ jobStatus' = jobStatus
    BY <1>9 DEF Release, FailEmail, Crash, Busy, jobVars
  <2>2. jobStatus[j] \notin {Null, "Uploaded"} /\ Running(j)
    BY <1>9, <2>1, TaskStatus DEF Running, IInv, WorkerInv
  <2>3. (\A k \in Jobs \ {j} : phase'[k] = phase[k]) /\ ~Running(j)'
    BY <1>8, <1>9, <2>1
  <2>4. CASE jobStatus[j] = "Completed"
    <3>1. phase[j] = "running"
      BY <2>2, <2>4 DEF phase, Null
    <3>2. jobStatus'[j] = "Completed" /\ ~Running(j)'
      BY <2>1, <2>3, <2>4
    <3>3. phase'[j] = "done"
      BY <3>2 DEF phase, Null
    <3>4. phase' = [phase EXCEPT ![j] = "done"]
      BY <1>3, <2>3, <3>3
    <3> QED
      BY <3>1, <3>4 DEF Lifecycle!Finish
  <2>5. CASE jobStatus[j] # "Completed"
    <3>1. phase'[j] = phase[j]
      BY <1>1, <2>1, <2>5
    <3>2. \A k \in Jobs : phase'[k] = phase[k]
      BY <2>3, <3>1
    <3> QED
      BY <3>2 DEF phase
  <2> QED
    BY <2>4, <2>5
<1>10. ASSUME NEW j \in Jobs, jobStatus[j] \notin {Null, "Uploaded", "Failed"},
              jobStatus[j] = "Completed" => Running(j),
              jobStatus' = [jobStatus EXCEPT ![j] = "Failed"],
              \A k \in Jobs : Running(k)' <=> Running(k)
       PROVE  Lifecycle!Finish(j)
  <2>1. jobStatus'[j] = "Failed" /\ \A k \in Jobs \ {j} : jobStatus'[k] = jobStatus[k]
    BY <1>10 DEF IInv, TypeOK
  <2>2. \A k \in Jobs \ {j} : phase'[k] = phase[k]
    BY <1>1, <1>10, <2>1
  <2>3. phase[j] = "running" /\ phase'[j] = "failed"
    BY <1>10, <2>1 DEF phase, Null
  <2>4. phase' = [phase EXCEPT ![j] = "failed"]
    BY <1>3, <2>2, <2>3
  <2> QED
    BY <2>3, <2>4 DEF Lifecycle!Finish
<1>11. ASSUME NEW w \in Workers, Raise(w) PROVE Lifecycle!Finish(held[w])
  <2>1. Busy(w) /\ pc[w] # "failEmail"
    BY <1>11 DEF Raise, Busy
  <2>2. held[w] \in Jobs /\ jobStatus[held[w]] \notin {Null, "Uploaded", "Failed"}
    BY <2>1, TaskStatus
  <2>3. Running(held[w]) /\ \A k \in Jobs : Running(k)' <=> Running(k)
    BY <1>11, <2>1 DEF Raise, Running, Busy, IInv, TypeOK
  <2> QED
    BY <1>10, <1>11, <2>2, <2>3 DEF Raise
<1>12. ASSUME NEW s \in Sweepers, NEW j \in Jobs, SweepJob(s, j) PROVE Lifecycle!Finish(j)
  <2>1. jobStatus[j] \notin {Null, "Uploaded", "Failed", "Completed"}
    BY <1>12 DEF SweepJob, Expirable, Settled, IInv, JobInv, Null
  <2>2. \A k \in Jobs : Running(k)' <=> Running(k)
    BY <1>12 DEF SweepJob, workerVars, Running, Busy
  <2> QED
    BY <1>10, <1>12, <2>1, <2>2 DEF SweepJob
<1>13. CASE UNCHANGED <<jobStatus, pc, held>>
  <2>1. \A j \in Jobs : Running(j)' <=> Running(j)
    BY <1>13 DEF Running, Busy
  <2> QED
    BY <1>2, <1>13, <2>1
<1>14. ASSUME NEW w \in Workers, Busy(w) PROVE held[w] \in Jobs
  BY <1>14 DEF IInv, WorkerInv
<1> QED
  BY <1>4, <1>5, <1>6, <1>7, <1>9, <1>11, <1>12, <1>13, <1>14
     DEF Next, Request, Progress, Sweep, vars, jobVars, workerVars, AcquireEmail, CheckIdle,
         MarkUploaded, Abandon, LeaseExpires, SweepLatest, SweepEmail, SweepCrash,
         Lifecycle!Next, Busy, Release, FailEmail, Crash, Raise

LEMMA TaskInit == Init => (\A w \in Workers : TaskInv(w)) /\ Lifecycle!Init
<1> SUFFICES ASSUME Init PROVE (\A w \in Workers : TaskInv(w)) /\ Lifecycle!Init
  OBVIOUS
<1>1. \A w \in Workers : TaskInv(w)
  BY DEF Init, TaskInv, Busy
<1>2. \A j \in Jobs : phase[j] = "absent"
  BY DEF Init, phase, Null
<1>3. phase = [j \in Jobs |-> "absent"]
  BY <1>2 DEF phase
<1> QED
  BY <1>1, <1>3 DEF Lifecycle!Init

\* In Celery mode every job lives as JobLifecycle says: claimed at most once, and
\* Completed or Failed for good, whatever crashes, sweeps and requests interleave.
THEOREM QueueImplementsLifecycle == ASSUME TimeLimited PROVE Spec => LifecycleSafety
<1> DEFINE AllTasks == \A w \in Workers : TaskInv(w)
<1>1. Init => IInv /\ AllTasks /\ Lifecycle!Init
  BY InitInv, TaskInit
<1>2. IInv /\ AllTasks /\ [Next]_vars => AllTasks'
  BY TaskStep
<1>3. IInv /\ AllTasks /\ [Next]_vars => [Lifecycle!Next]_phase
  BY LifecycleStep
<1> HIDE DEF AllTasks
<1> QED
  BY <1>1, <1>2, <1>3, Invariance, PTL DEF Spec, LifecycleSafety, Lifecycle!SafeSpec

LEMMA FailedStep ==
    IInv /\ (\A w \in Workers : TaskInv(w)) /\ [Next]_vars
       => \A j \in Jobs : jobStatus[j] = "Failed" => jobStatus'[j] = "Failed"
<1> SUFFICES ASSUME IInv, \A w \in Workers : TaskInv(w), [Next]_vars,
                    NEW j \in Jobs, jobStatus[j] = "Failed"
             PROVE  jobStatus'[j] = "Failed"
  OBVIOUS
<1>1. phase \in [Jobs -> Lifecycle!Phases] /\ phase[j] = "failed"
  BY DEF phase, Null, Lifecycle!Phases
<1>2. [Lifecycle!Next]_phase
  BY LifecycleStep
<1>3. phase'[j] = "failed"
  BY <1>1, <1>2
     DEF Lifecycle!Next, Lifecycle!Submit, Lifecycle!Start, Lifecycle!Finish
<1> QED
  BY <1>3 DEF phase

\* In Celery mode a failed job stays failed (in local mode it does not).
THEOREM FailedJobIsFinal == ASSUME TimeLimited PROVE Spec => FailedIsFinal
<1> DEFINE AllTasks == \A w \in Workers : TaskInv(w)
           Stays == \A j \in Jobs : jobStatus[j] = "Failed" => jobStatus'[j] = "Failed"
<1>1. Init => IInv /\ AllTasks
  BY InitInv, TaskInit
<1>2. IInv /\ AllTasks /\ [Next]_vars => AllTasks'
  BY TaskStep
<1>3. IInv /\ AllTasks /\ [Next]_vars => [Stays]_vars
  BY FailedStep
<1>4. FailedIsFinal <=> [][Stays]_vars
  BY DEF FailedIsFinal
<1> HIDE DEF AllTasks, Stays
<1> QED
  BY <1>1, <1>2, <1>3, <1>4, Invariance, PTL DEF Spec

----------------------------------------------------------------------------
(***************************************************************************)
(* When requests do not overlap either (at most one client): an email has  *)
(* one pending job, the latest one, and what is shown for it is the result *)
(* of its latest completed job.                                            *)
(***************************************************************************)

OneClient == \A c, d \in Clients : c = d

\* Jobs are inserted in created_at order.
Contiguous ==
    \A j, k \in Jobs : k < j /\ jobStatus[j] # Null => jobStatus[k] # Null

\* Only the latest job of an email is pending.
LatestActive == \A j \in Jobs : Active(j) => IsLatest(j)

\* A job belongs to an inserted email.
EmailFirst == \A j \in Jobs, e \in Emails : jobEmail[j] = e => emailStatus[e] # Null

\* What a request that is about to insert a job has checked still holds.
CheckHolds(c) ==
    /\ cpc[c] # "idle" => emailStatus[cemail[c]] # Null
    /\ cpc[c] \in {"queue", "requeue"} => ~Pending(cemail[c])

Sequential ==
    /\ Contiguous
    /\ LatestActive
    /\ EmailFirst
    /\ \A c \in Clients : CheckHolds(c)

\* What the run of a worker has stored for its email, by program point.
Stored(w) ==
    LET j == held[w]
        e == jobEmail[j]
        final == pc[w] = "stage" /\ at[w] = Correlation
    IN  /\ pc[w] \in {"summary", "refresh", "raise"} \/ final =>
              analysisJob[e] = j /\ analysis[e] = finding[j]
        /\ pc[w] \in {"refresh", "raise"} \/ final => emailSeverity[e] = finding[j]
        /\ pc[w] = "raise" \/ final => alert[e] \in {Null, finding[j]}
        /\ final => (finding[j] \in AlertSeverities => alert[e] = finding[j])

Shown == (\A w \in Workers : Stored(w)) /\ LatestCompletedConsistent

Tasks == \A w \in Workers : TaskInv(w)

-----------------------------------------------------------------------------
(* How a step touches statuses. *)

\* A step that inserts no job: none becomes pending, none appears.
Quiet ==
    /\ jobEmail' = jobEmail
    /\ \A j \in Jobs : (jobStatus'[j] = Null <=> jobStatus[j] = Null)
                       /\ (Active(j)' => Active(j))

LEMMA QuietStep ==
    IInv /\ Tasks /\ [Next]_vars => Quiet \/ \E c \in Clients, j \in Jobs : InsertJob(c, j)
<1> SUFFICES ASSUME IInv, Tasks, [Next]_vars,
                    \A c \in Clients, j \in Jobs : ~InsertJob(c, j)
             PROVE  Quiet
  OBVIOUS
<1>0. jobStatus \in [Jobs -> StageNames \cup {Null, "Claimed", "Failed"}]
  BY DEF IInv, TypeOK
<1>1. ASSUME NEW w \in Workers, NEW j \in Jobs, Claim(w, j) PROVE Quiet
  BY <1>0, <1>1 DEF Claim, Quiet, Active, Settled, Null
<1>2. ASSUME NEW w \in Workers, Stage(w) PROVE Quiet
  <2>1. held[w] \in Jobs /\ jobStatus[held[w]] \notin {Null, "Failed", "Completed"}
        /\ at[w] + 1 \in 2..Completed
    BY <1>2, TaskStatus DEF Stage, Tasks, Busy
  <2>2. Stages[at[w] + 1] # Null
    BY <2>1, StageFacts DEF Completed
  <2>3. /\ jobStatus' = [jobStatus EXCEPT ![held[w]] = Stages[at[w] + 1]]
        /\ jobEmail' = jobEmail
    BY <1>2 DEF Stage
  <2> HIDE <1>2
  <2> QED
    BY <1>0, <2>1, <2>2, <2>3 DEF Quiet, Active, Settled
<1>3. ASSUME NEW w \in Workers, Raise(w) PROVE Quiet
  <2>1. held[w] \in Jobs /\ jobStatus[held[w]] # Null
    BY <1>3 DEF Raise, Busy, IInv, WorkerInv
  <2> QED
    BY <1>0, <1>3, <2>1 DEF Raise, Quiet, Active, Settled, Null
<1>4. ASSUME NEW s \in Sweepers, NEW j \in Jobs, SweepJob(s, j) PROVE Quiet
  <2>1. jobStatus[j] # Null
    BY <1>4 DEF SweepJob, Expirable, IInv, JobInv, Null
  <2> QED
    BY <1>0, <1>4, <2>1 DEF SweepJob, Quiet, Active, Settled, Null
<1>5. CASE UNCHANGED <<jobStatus, jobEmail>>
  BY <1>5 DEF Quiet, Active
<1> QED
  BY <1>1, <1>2, <1>3, <1>4, <1>5
     DEF Next, Request, Progress, Sweep, vars, jobVars, AcquireEmail, CheckIdle, MarkUploaded,
         Abandon, Mirror, Commit, Summarise, RefreshAlert, RaiseAlert, Release, FailEmail,
         Crash, LeaseExpires, SweepLatest, SweepEmail, SweepCrash

\* An inserted email is never taken away.
LEMMA EmailStays ==
    ASSUME IInv, [Next]_vars, NEW e \in Emails, emailStatus[e] # Null
    PROVE  emailStatus'[e] # Null
<1>0. emailStatus \in [Emails -> StageNames \cup {Null, "Failed"}]
  BY DEF IInv, TypeOK
<1>1. ASSUME NEW w \in Workers, Mirror(w) PROVE emailStatus'[e] # Null
  <2>1. at[w] \in 1..Completed
    <3>1. at[w] \in 0..7 /\ at[w] >= 1
      BY <1>1 DEF Mirror, Busy, IInv, TypeOK, WorkerInv, Completed
    <3> QED
      BY <3>1 DEF Completed
  <2>2. Stages[at[w]] # Null
    BY <2>1, StageFacts
  <2> QED
    BY <1>0, <1>1, <2>2 DEF Mirror
<1>2. ASSUME NEW s \in Sweepers, SweepEmail(s) PROVE emailStatus'[e] # Null
  BY <1>0, <1>2 DEF SweepEmail, Null
<1>3. ASSUME NEW w \in Workers, FailEmail(w) PROVE emailStatus'[e] # Null
  BY <1>0, <1>3 DEF FailEmail, Null
<1>4. ASSUME NEW c \in Clients, MarkUploaded(c) PROVE emailStatus'[e] # Null
  BY <1>0, <1>4 DEF MarkUploaded, Null
<1>5. ASSUME NEW c \in Clients, NEW f \in Emails, AcquireEmail(c, f) PROVE emailStatus'[e] # Null
  BY <1>0, <1>5 DEF AcquireEmail, Null
<1>6. CASE UNCHANGED emailStatus
  BY <1>6
<1> QED
  BY <1>1, <1>2, <1>3, <1>4, <1>5, <1>6
     DEF Next, Request, Progress, Sweep, vars, jobVars, CheckIdle, InsertJob,
         Abandon, Claim, Stage, Commit, Summarise, RefreshAlert, RaiseAlert, Release, Raise,
         Crash, LeaseExpires, SweepJob, SweepLatest, SweepCrash

-----------------------------------------------------------------------------
(* Requests one at a time. *)

LEMMA SequentialInit == Init => Sequential
  BY EmailAssumption DEF Init, Sequential, Contiguous, LatestActive, EmailFirst, CheckHolds,
     Active, Null, Settled

\* Which jobs are the latest, when none is inserted.
LEMMA LatestSame == ASSUME jobEmail' = jobEmail, NEW j \in Jobs PROVE IsLatest(j)' <=> IsLatest(j)
  BY DEF IsLatest

LEMMA CheckHoldsStep ==
    ASSUME OneClient, IInv, Sequential, [Next]_vars, NEW c \in Clients,
           Quiet \/ \E d \in Clients, j \in Jobs : InsertJob(d, j)
    PROVE  CheckHolds(c)'
<1>0. /\ cpc \in [Clients -> {"idle", "queue", "requeue", "markUploaded"}]
      /\ cemail \in [Clients -> Emails \cup {Null}]
      /\ emailStatus \in [Emails -> StageNames \cup {Null, "Failed"}]
  BY DEF IInv, TypeOK
<1>1. CheckHolds(c) /\ (cpc[c] # "idle" => cemail[c] \in Emails)
  BY DEF Sequential, IInv, RequestInv
<1>2. ASSUME Quiet, NEW e \in Emails, ~Pending(e) PROVE ~Pending(e)'
  BY <1>2 DEF Quiet, Pending
<1>3. ASSUME NEW e \in Emails, AcquireEmail(c, e) PROVE CheckHolds(c)'
  <2>1. \A j \in Jobs : jobEmail[j] # e
    BY <1>3 DEF AcquireEmail, Sequential, EmailFirst
  <2>2. ~Pending(e)'
    BY <1>3, <2>1 DEF AcquireEmail, jobVars, Pending
  <2>3. cpc'[c] = "queue" /\ cemail'[c] = e /\ emailStatus'[e] # Null
    BY <1>0, <1>3 DEF AcquireEmail, Null
  <2> QED
    BY <2>2, <2>3 DEF CheckHolds, Pending
<1>4. ASSUME NEW e \in Emails, CheckIdle(c, e) PROVE CheckHolds(c)'
  <2>1. ~Pending(e)' /\ emailStatus'[e] # Null
    BY <1>4 DEF CheckIdle, jobVars, Pending, Active
  <2>2. cpc'[c] = "requeue" /\ cemail'[c] = e
    BY <1>0, <1>4 DEF CheckIdle
  <2> QED
    BY <2>1, <2>2 DEF CheckHolds, Pending
<1>5. ASSUME NEW j \in Jobs, InsertJob(c, j) PROVE CheckHolds(c)'
  <2>1. cpc'[c] = "idle" \/ (cpc'[c] = "markUploaded" /\ cemail' = cemail)
    BY <1>0, <1>5 DEF InsertJob, Return
  <2>2. emailStatus' = emailStatus /\ cpc[c] # "idle"
    BY <1>5 DEF InsertJob
  <2> QED
    BY <1>1, <2>1, <2>2 DEF CheckHolds
<1>6. ASSUME MarkUploaded(c) \/ Abandon(c) PROVE CheckHolds(c)'
  <2>1. cpc'[c] = "idle"
    BY <1>0, <1>6 DEF MarkUploaded, Abandon, Return
  <2> QED
    BY <2>1 DEF CheckHolds
<1>7. CASE UNCHANGED <<cpc, cemail>> /\ Quiet
  <2>1. cpc[c] # "idle" => emailStatus'[cemail[c]] # Null
    BY <1>1, EmailStays DEF CheckHolds
  <2>2. cpc[c] \in {"queue", "requeue"} => ~Pending(cemail[c])'
    <3>1. SUFFICES ASSUME cpc[c] \in {"queue", "requeue"} PROVE ~Pending(cemail[c])'
      OBVIOUS
    <3>2. PICK e \in Emails : e = cemail[c]
      BY <1>1, <3>1
    <3>3. ~Pending(e)'
      BY <1>1, <1>2, <1>7, <3>1, <3>2 DEF CheckHolds
    <3> QED
      BY <1>7, <3>2, <3>3 DEF Pending
  <2> QED
    BY <1>7, <2>1, <2>2 DEF CheckHolds
<1>8. \A d \in Clients : d = c
  BY DEF OneClient
<1> QED
  BY <1>3, <1>4, <1>5, <1>6, <1>7, <1>8
     DEF Next, Request, Progress, Sweep, vars, clientVars, Claim, Stage, Mirror, Commit,
         Summarise, RefreshAlert, RaiseAlert, Release, Raise, FailEmail, Crash, LeaseExpires,
         SweepJob, SweepLatest, SweepEmail, SweepCrash

LEMMA SequentialStep ==
    OneClient /\ IInv /\ Tasks /\ Sequential /\ [Next]_vars => Sequential'
<1> SUFFICES ASSUME OneClient, IInv, Tasks, Sequential, [Next]_vars PROVE Sequential'
  OBVIOUS
<1>1. Quiet \/ \E c \in Clients, j \in Jobs : InsertJob(c, j)
  BY QuietStep
<1>2. \A c \in Clients : CheckHolds(c)'
  BY <1>1, CheckHoldsStep
<1>3. CASE Quiet
  <2>1. Contiguous'
    BY <1>3 DEF Quiet, Sequential, Contiguous
  <2>2. LatestActive'
    BY <1>3, LatestSame DEF Quiet, Sequential, LatestActive
  <2>3. EmailFirst'
    BY <1>3, EmailStays DEF Quiet, Sequential, EmailFirst
  <2> QED
    BY <1>2, <2>1, <2>2, <2>3 DEF Sequential
<1>4. ASSUME NEW c \in Clients, NEW i \in Jobs, InsertJob(c, i) PROVE Sequential'
  <2> DEFINE e == cemail[c]
  <2>0. /\ jobStatus \in [Jobs -> StageNames \cup {Null, "Claimed", "Failed"}]
        /\ jobEmail \in [Jobs -> Emails \cup {Null}]
        /\ \A j \in Jobs : jobStatus[j] = Null <=> jobEmail[j] = Null
    BY DEF IInv, TypeOK, JobInv
  <2>1. /\ e \in Emails /\ ~Pending(e) /\ emailStatus[e] # Null
        /\ NextId(i)
        /\ jobStatus' = [jobStatus EXCEPT ![i] = "Uploaded"]
        /\ jobEmail' = [jobEmail EXCEPT ![i] = e]
        /\ emailStatus' = emailStatus
    BY <1>4 DEF InsertJob, Sequential, CheckHolds, IInv, RequestInv
  <2>2. e # Null
    BY <2>1, EmailAssumption
  <2>3. \A k \in Jobs : k > i => jobStatus[k] = Null
    BY <2>1 DEF NextId, Sequential, Contiguous
  <2>4. Contiguous'
    <3>1. \A k \in Jobs : k < i => jobStatus[k] # Null
      BY <2>1 DEF NextId, Jobs
    <3> QED
      BY <2>0, <2>1, <3>1 DEF Sequential, Contiguous, Null
  <2>5. LatestActive'
    <3>1. SUFFICES ASSUME NEW j \in Jobs, Active(j)', NEW k \in Jobs, k > j
                   PROVE  jobEmail'[k] # jobEmail'[j]
      BY DEF LatestActive, IsLatest
    <3>2. CASE j = i
      <4>1. jobEmail[k] = Null
        BY <2>0, <2>3, <3>1, <3>2
      <4>2. k # i
        BY <3>1, <3>2 DEF Jobs
      <4> QED
        BY <2>0, <2>1, <2>2, <3>2, <4>1, <4>2
    <3>3. CASE j # i
      <4>1. Active(j) /\ jobEmail'[j] = jobEmail[j]
        BY <2>0, <2>1, <3>1, <3>3 DEF Active
      <4>2. jobEmail[k] # jobEmail[j]
        BY <3>1, <4>1 DEF Sequential, LatestActive, IsLatest
      <4>3. jobEmail[j] # e
        BY <2>1, <4>1 DEF Pending
      <4> QED
        BY <2>0, <2>1, <4>1, <4>2, <4>3
    <3> QED
      BY <3>2, <3>3
  <2>6. EmailFirst'
    BY <2>0, <2>1 DEF Sequential, EmailFirst
  <2> QED
    BY <1>2, <2>4, <2>5, <2>6 DEF Sequential
<1> QED
  BY <1>1, <1>3, <1>4

-----------------------------------------------------------------------------
(* What is shown for an email. *)

LEMMA SequentialOneActive == IInv /\ Sequential => OneActiveJob
<1> SUFFICES ASSUME Sequential, NEW j \in Jobs, NEW k \in Jobs, jobEmail[j] = jobEmail[k],
                    Active(j), Active(k), j # k
             PROVE  FALSE
  BY DEF OneActiveJob
<1>1. IsLatest(j) /\ IsLatest(k)
  BY DEF Sequential, LatestActive
<1>2. j < k \/ k < j
  BY DEF Jobs
<1> QED
  BY <1>1, <1>2 DEF IsLatest

\* A worker between its last analysis stage and Completed.
Writing(w) ==
    \/ pc[w] \in {"commit", "summary", "refresh", "raise"}
    \/ pc[w] = "stage" /\ at[w] = Correlation

LEMMA WriterFacts ==
    ASSUME IInv, Tasks, Sequential, NEW w \in Workers, Writing(w)
    PROVE  /\ held[w] \in Jobs
           /\ jobEmail[held[w]] \in Emails
           /\ Active(held[w])
           /\ IsLatest(held[w])
<1>1. Busy(w) /\ pc[w] # "failEmail" /\ at[w] = 6
  BY DEF Writing, Busy, IInv, WorkerInv, Correlation
<1>2. held[w] \in Jobs /\ jobStatus[held[w]] # Null
  BY <1>1 DEF IInv, WorkerInv
<1>3. jobStatus[held[w]] = Stages[6]
  BY <1>1 DEF Tasks, TaskInv
<1>4. Stages[6] = "Correlation"
  BY DEF Stages
<1>5. jobEmail[held[w]] \in Emails
  BY <1>2 DEF IInv, TypeOK, JobInv
<1>6. Active(held[w])
  BY <1>3, <1>4 DEF Active, Settled, Null
<1> QED
  BY <1>2, <1>5, <1>6 DEF Sequential, LatestActive

\* No other worker writes for the same email, and no completed job is its latest.
LEMMA WritersApart ==
    ASSUME IInv, Tasks, Sequential, NEW w \in Workers, Writing(w)
    PROVE  /\ \A v \in Workers : v # w /\ Writing(v) =>
                  held[v] # held[w] /\ jobEmail[held[v]] # jobEmail[held[w]]
           /\ \A j \in Jobs : jobStatus[j] = "Completed" /\ IsLatest(j) =>
                  j # held[w] /\ jobEmail[j] # jobEmail[held[w]]
<1>1. \A i, j \in Jobs : IsLatest(i) /\ IsLatest(j) /\ i # j => jobEmail[i] # jobEmail[j]
  <2>1. SUFFICES ASSUME NEW i \in Jobs, NEW j \in Jobs, IsLatest(i), IsLatest(j), i # j
                 PROVE  jobEmail[i] # jobEmail[j]
    OBVIOUS
  <2>2. i < j \/ j < i
    BY <2>1 DEF Jobs
  <2> QED
    BY <2>1, <2>2 DEF IsLatest
<1>2. \A v \in Workers : v # w /\ Writing(v) => held[v] # held[w]
  BY DEF Writing, IInv, ClaimExclusive, Busy
<1>3. \A v \in Workers : Writing(v) => held[v] \in Jobs /\ IsLatest(held[v])
  BY WriterFacts
<1>4. \A j \in Jobs : jobStatus[j] = "Completed" => j # held[w]
  BY WriterFacts DEF Active, Settled
<1> QED
  BY <1>1, <1>2, <1>3, <1>4

\* The documents of a job's email, as far as they are shown.
DataSame(j) ==
    LET e == jobEmail[j]
    IN  /\ jobEmail'[j] = e
        /\ finding'[j] = finding[j]
        /\ analysisJob'[e] = analysisJob[e]
        /\ analysis'[e] = analysis[e]
        /\ emailSeverity'[e] = emailSeverity[e]
        /\ alert'[e] = alert[e]

LEMMA StoredFrame ==
    ASSUME NEW v \in Workers, Stored(v), pc'[v] = pc[v], held'[v] = held[v], at'[v] = at[v],
           Writing(v) => DataSame(held[v])
    PROVE  Stored(v)'
<1>1. CASE Writing(v)
  <2>1. DataSame(held[v])
    BY <1>1
  <2>2. /\ pc'[v] = pc[v] /\ at'[v] = at[v] /\ held'[v] = held[v]
        /\ jobEmail'[held'[v]] = jobEmail[held[v]]
        /\ finding'[held'[v]] = finding[held[v]]
        /\ analysisJob'[jobEmail'[held'[v]]] = analysisJob[jobEmail[held[v]]]
        /\ analysis'[jobEmail'[held'[v]]] = analysis[jobEmail[held[v]]]
        /\ emailSeverity'[jobEmail'[held'[v]]] = emailSeverity[jobEmail[held[v]]]
        /\ alert'[jobEmail'[held'[v]]] = alert[jobEmail[held[v]]]
    BY <2>1 DEF DataSame
  <2> QED
    BY <2>2 DEF Stored
<1>2. CASE ~Writing(v)
  BY <1>2 DEF Stored, Writing
<1> QED
  BY <1>1, <1>2

LEMMA ShownFrame ==
    ASSUME LatestCompletedConsistent,
           \A j \in Jobs : jobStatus'[j] = "Completed" /\ IsLatest(j)' =>
              jobStatus[j] = "Completed" /\ IsLatest(j) /\ DataSame(j)
    PROVE  LatestCompletedConsistent'
  BY DEF LatestCompletedConsistent, DataSame

\* The four writes of a run touch no other email.
LEMMA WriteFrame ==
    ASSUME IInv, NEW w \in Workers, held[w] \in Jobs, jobEmail[held[w]] \in Emails,
           Commit(w) \/ Summarise(w) \/ RefreshAlert(w) \/ RaiseAlert(w),
           NEW j \in Jobs, j # held[w], jobEmail[j] # jobEmail[held[w]]
    PROVE  DataSame(j)
<1>1. /\ finding \in [Jobs -> Severities \cup {Null}]
      /\ analysisJob \in [Emails -> Jobs \cup {NoJob}]
      /\ analysis \in [Emails -> Severities \cup {Null}]
      /\ emailSeverity \in [Emails -> Severities \cup {Null}]
      /\ alert \in [Emails -> Severities \cup {Null}]
  BY DEF IInv, TypeOK
<1>2. CASE Commit(w)
  BY <1>1, <1>2 DEF Commit, DataSame
<1>3. CASE Summarise(w)
  BY <1>1, <1>3 DEF Summarise, DataSame, jobVars
<1>4. CASE RefreshAlert(w)
  BY <1>1, <1>4 DEF RefreshAlert, DataSame, jobVars
<1>5. CASE RaiseAlert(w)
  <2>1. PICK must \in MustAlert(finding[held[w]]) :
           alert' = [alert EXCEPT ![jobEmail[held[w]]] =
                        IF must /\ @ = Null THEN finding[held[w]] ELSE @]
    BY <1>5 DEF RaiseAlert
  <2>2. UNCHANGED <<jobEmail, finding, emailSeverity, analysis, analysisJob>>
    BY <1>5 DEF RaiseAlert, jobVars
  <2> QED
    BY <1>1, <2>1, <2>2 DEF DataSame
<1> QED
  BY <1>2, <1>3, <1>4, <1>5

LEMMA StoredStep ==
    IInv /\ Tasks /\ Sequential /\ Shown /\ [Next]_vars => \A v \in Workers : Stored(v)'
<1> SUFFICES ASSUME IInv, Tasks, Sequential, Shown, [Next]_vars, NEW v \in Workers
             PROVE  Stored(v)'
  OBVIOUS
<1>0. /\ pc \in [Workers -> WorkerPCs] /\ held \in [Workers -> Jobs \cup {NoJob}]
      /\ at \in [Workers -> 0..Completed]
      /\ jobEmail \in [Jobs -> Emails \cup {Null}]
      /\ finding \in [Jobs -> Severities \cup {Null}]
      /\ analysisJob \in [Emails -> Jobs \cup {NoJob}]
      /\ analysis \in [Emails -> Severities \cup {Null}]
      /\ emailSeverity \in [Emails -> Severities \cup {Null}]
      /\ alert \in [Emails -> Severities \cup {Null}]
  BY DEF IInv, TypeOK
<1>1. Stored(v) /\ (Writing(v) => held[v] \in Jobs /\ jobStatus[held[v]] # Null)
  BY WriterFacts DEF Shown, Active
<1>2. ASSUME pc'[v] = pc[v], held'[v] = held[v], at'[v] = at[v],
             UNCHANGED <<jobEmail, finding, dataVars>>
      PROVE  Stored(v)'
  BY <1>1, <1>2, StoredFrame DEF DataSame, dataVars
<1>3. ASSUME pc'[v] \notin {"summary", "refresh", "raise"},
             pc'[v] = "stage" => at'[v] # Correlation
      PROVE  Stored(v)'
  BY <1>3 DEF Stored
<1>4. ASSUME NEW w \in Workers, NEW j \in Jobs, Claim(w, j) PROVE Stored(v)'
  <2>1. CASE v = w
    <3>1. pc'[v] = "stage" /\ at'[v] = 1
      BY <1>0, <1>4, <2>1 DEF Claim
    <3> QED
      BY <1>3, <3>1 DEF Correlation
  <2>2. CASE v # w
    BY <1>0, <1>2, <1>4, <2>2 DEF Claim, dataVars
  <2> QED
    BY <2>1, <2>2
<1>5. ASSUME NEW w \in Workers, Stage(w) \/ Raise(w) PROVE Stored(v)'
  <2>1. CASE v = w
    <3>1. pc'[v] \in {"mirror", "failEmail"}
      BY <1>0, <1>5, <2>1 DEF Stage, Raise
    <3> QED
      BY <1>3, <3>1
  <2>2. CASE v # w
    BY <1>0, <1>2, <1>5, <2>2 DEF Stage, Raise, dataVars
  <2> QED
    BY <2>1, <2>2
<1>6. ASSUME NEW w \in Workers, Mirror(w) PROVE Stored(v)'
  <2>1. CASE v = w
    <3>1. pc'[v] = AfterMirror(at[v]) /\ at'[v] = at[v]
      BY <1>0, <1>6, <2>1 DEF Mirror
    <3>2. AfterMirror(at[v]) \in {"commit", "release", "stage"}
          /\ (AfterMirror(at[v]) = "stage" => at[v] # Correlation)
      BY DEF AfterMirror
    <3> QED
      BY <1>3, <3>1, <3>2
  <2>2. CASE v # w
    BY <1>0, <1>2, <1>6, <2>2 DEF Mirror, jobVars, dataVars
  <2> QED
    BY <2>1, <2>2
<1>7. ASSUME NEW w \in Workers, Release(w) \/ FailEmail(w) \/ Crash(w) PROVE Stored(v)'
  <2>1. UNCHANGED <<jobEmail, finding, dataVars>>
    BY <1>7 DEF Release, FailEmail, Crash, jobVars, dataVars
  <2>2. Leave(w)
    BY <1>7 DEF Release, FailEmail, Crash
  <2>3. CASE v = w
    <3>1. pc'[v] = "idle"
      BY <1>0, <2>2, <2>3 DEF Leave
    <3> QED
      BY <1>3, <3>1
  <2>4. CASE v # w
    BY <1>0, <1>2, <2>1, <2>2, <2>4 DEF Leave
  <2> QED
    BY <2>3, <2>4
<1>8. ASSUME NEW w \in Workers,
             Commit(w) \/ Summarise(w) \/ RefreshAlert(w) \/ RaiseAlert(w)
      PROVE  Stored(v)'
  <2>1. Writing(w) /\ held[w] \in Jobs /\ jobEmail[held[w]] \in Emails
    <3>1. Writing(w)
      BY <1>8 DEF Writing, Commit, Summarise, RefreshAlert, RaiseAlert
    <3> QED
      BY <3>1, WriterFacts
  <2>2. CASE v # w
    <3>1. pc'[v] = pc[v] /\ held'[v] = held[v] /\ at'[v] = at[v]
      BY <1>0, <1>8, <2>2 DEF Commit, Summarise, RefreshAlert, RaiseAlert
    <3>2. Writing(v) => held[v] # held[w] /\ jobEmail[held[v]] # jobEmail[held[w]]
      BY <2>1, <2>2, WritersApart
    <3>3. Writing(v) => DataSame(held[v])
      BY <1>1, <1>8, <2>1, <3>2, WriteFrame
    <3> QED
      BY <1>1, <3>1, <3>3, StoredFrame
  <2>3. CASE v = w
    <3> DEFINE j == held[v]
               e == jobEmail[j]
    <3>0. j \in Jobs /\ e \in Emails
      BY <2>1, <2>3
    <3>1. CASE Commit(w)
      <4>1. PICK s \in Severities : finding' = [finding EXCEPT ![j] = s]
                                    /\ analysis' = [analysis EXCEPT ![e] = s]
        BY <2>3, <3>1 DEF Commit
      <4>2. analysisJob' = [analysisJob EXCEPT ![e] = j] /\ UNCHANGED <<jobEmail, held>>
            /\ pc' = [pc EXCEPT ![v] = "summary"]
        BY <2>3, <3>1 DEF Commit
      <4>3. analysisJob'[e] = j /\ analysis'[e] = s /\ finding'[j] = s /\ pc'[v] = "summary"
        BY <1>0, <3>0, <4>1, <4>2
      <4> QED
        BY <4>2, <4>3 DEF Stored
    <3>2. CASE Summarise(w)
      <4>1. /\ pc[v] = "summary" /\ pc'[v] = "refresh"
            /\ emailSeverity'[e] = finding[j]
            /\ UNCHANGED <<jobEmail, held, finding, analysis, analysisJob>>
        BY <1>0, <2>3, <3>0, <3>2 DEF Summarise, jobVars
      <4> QED
        BY <1>1, <4>1 DEF Stored
    <3>3. CASE RefreshAlert(w)
      <4>1. /\ pc[v] = "refresh" /\ pc'[v] = "raise"
            /\ alert'[e] \in {Null, finding[j]}
            /\ UNCHANGED <<jobEmail, held, finding, analysis, analysisJob, emailSeverity>>
        BY <1>0, <2>3, <3>0, <3>3 DEF RefreshAlert, jobVars
      <4> QED
        BY <1>1, <4>1 DEF Stored
    <3>4. CASE RaiseAlert(w)
      <4>1. PICK must \in MustAlert(finding[j]) :
               alert' = [alert EXCEPT ![e] = IF must /\ @ = Null THEN finding[j] ELSE @]
        BY <2>3, <3>4 DEF RaiseAlert
      <4>2. /\ pc[v] = "raise" /\ pc'[v] = "stage"
            /\ UNCHANGED <<jobEmail, held, at, finding, analysis, analysisJob, emailSeverity>>
        BY <1>0, <2>3, <3>4 DEF RaiseAlert, jobVars
      <4>3. alert[e] \in {Null, finding[j]}
        BY <1>1, <4>2 DEF Stored
      <4>4. alert'[e] \in {Null, finding[j]}
        BY <1>0, <3>0, <4>1, <4>3
      <4>5. ASSUME finding[j] \in AlertSeverities PROVE alert'[e] = finding[j]
        <5>1. must
          BY <4>5 DEF MustAlert
        <5> QED
          BY <1>0, <3>0, <4>1, <4>3, <5>1
      <4> QED
        BY <1>1, <4>2, <4>4, <4>5 DEF Stored
    <3> QED
      BY <1>8, <2>3, <3>1, <3>2, <3>3, <3>4
  <2> QED
    BY <2>2, <2>3
<1>9. ASSUME NEW c \in Clients, NEW i \in Jobs, InsertJob(c, i) PROVE Stored(v)'
  <2>1. UNCHANGED <<workerVars, finding, dataVars>>
    BY <1>9 DEF InsertJob
  <2>2. Writing(v) => jobEmail'[held[v]] = jobEmail[held[v]]
    <3>1. Writing(v) => held[v] # i
      BY <1>1, <1>9 DEF InsertJob, NextId
    <3> QED
      BY <1>0, <1>1, <1>9, <3>1 DEF InsertJob
  <2> QED
    BY <1>1, <2>1, <2>2, StoredFrame DEF DataSame, dataVars, workerVars
<1>10. CASE UNCHANGED <<workerVars, jobEmail, finding, dataVars>>
  BY <1>2, <1>10 DEF workerVars
<1> QED
  BY <1>4, <1>5, <1>6, <1>7, <1>8, <1>9, <1>10
     DEF Next, Request, Progress, Sweep, vars, jobVars, AcquireEmail, CheckIdle, MarkUploaded,
         Abandon, LeaseExpires, SweepJob, SweepLatest, SweepEmail, SweepCrash

LEMMA LatestCompletedStep ==
    IInv /\ Tasks /\ Sequential /\ Shown /\ [Next]_vars => LatestCompletedConsistent'
<1> SUFFICES ASSUME IInv, Tasks, Sequential, Shown, [Next]_vars
             PROVE  LatestCompletedConsistent'
  OBVIOUS
<1>0. /\ jobStatus \in [Jobs -> StageNames \cup {Null, "Claimed", "Failed"}]
      /\ jobEmail \in [Jobs -> Emails \cup {Null}]
      /\ LatestCompletedConsistent
  BY DEF IInv, TypeOK, Shown
<1>1. ASSUME UNCHANGED <<jobEmail, finding, dataVars>>,
             \A j \in Jobs : jobStatus'[j] = "Completed" => jobStatus[j] = "Completed"
      PROVE  LatestCompletedConsistent'
  <2>1. \A j \in Jobs : DataSame(j)
    BY <1>1 DEF DataSame, dataVars
  <2> QED
    BY <1>0, <1>1, <2>1, LatestSame, ShownFrame
<1>2. ASSUME NEW w \in Workers, NEW i \in Jobs, Claim(w, i) PROVE LatestCompletedConsistent'
  BY <1>0, <1>1, <1>2 DEF Claim
\* The step that completes a job.
<1>3. ASSUME NEW w \in Workers, Stage(w) PROVE LatestCompletedConsistent'
  <2>1. /\ held[w] \in Jobs /\ at[w] + 1 \in 2..Completed
        /\ jobStatus' = [jobStatus EXCEPT ![held[w]] = Stages[at[w] + 1]]
        /\ UNCHANGED <<jobEmail, finding, dataVars>>
    BY <1>3, TaskStatus DEF Stage, Tasks, Busy
  <2>2. CASE at[w] = Correlation
    <3>1. PICK i \in Jobs : i = held[w]
      BY <2>1
    <3>2. /\ analysisJob[jobEmail[i]] = i
          /\ analysis[jobEmail[i]] = finding[i]
          /\ emailSeverity[jobEmail[i]] = finding[i]
          /\ alert[jobEmail[i]] \in {Null, finding[i]}
          /\ finding[i] \in AlertSeverities => alert[jobEmail[i]] = finding[i]
      BY <1>3, <2>2, <3>1 DEF Shown, Stored, Stage
    <3>3. \A j \in Jobs \ {i} : jobStatus'[j] = jobStatus[j]
      BY <2>1, <3>1
    <3>4. \A j \in Jobs : IsLatest(j)' <=> IsLatest(j)
      BY <2>1, LatestSame
    <3>5. SUFFICES ASSUME NEW j \in Jobs, jobStatus'[j] = "Completed", IsLatest(j)'
                   PROVE  /\ analysisJob[jobEmail[j]] = j
                          /\ analysis[jobEmail[j]] = finding[j]
                          /\ emailSeverity[jobEmail[j]] = finding[j]
                          /\ alert[jobEmail[j]] \in {Null, finding[j]}
                          /\ finding[j] \in AlertSeverities => alert[jobEmail[j]] = finding[j]
      BY <2>1 DEF LatestCompletedConsistent, dataVars
    <3>6. CASE j = i
      BY <3>2, <3>6
    <3>7. CASE j # i
      <4>1. jobStatus[j] = "Completed"
        BY <3>3, <3>5, <3>7
      <4>2. IsLatest(j)
        BY <3>4, <3>5
      <4> QED
        BY <1>0, <4>1, <4>2 DEF LatestCompletedConsistent
    <3> QED
      BY <3>6, <3>7
  <2>3. CASE at[w] # Correlation
    <3>1. at[w] \in Nat
      BY DEF IInv, TypeOK
    <3>2. at[w] + 1 \in 1..Completed /\ at[w] + 1 # Completed
      BY <2>1, <2>3, <3>1 DEF Correlation, Completed
    <3>3. Stages[at[w] + 1] # "Completed"
      BY <3>2, StageFacts
    <3> QED
      BY <1>0, <1>1, <2>1, <3>3
  <2> QED
    BY <2>2, <2>3
<1>4. ASSUME NEW w \in Workers,
             Commit(w) \/ Summarise(w) \/ RefreshAlert(w) \/ RaiseAlert(w)
      PROVE  LatestCompletedConsistent'
  <2>1. Writing(w)
    BY <1>4 DEF Writing, Commit, Summarise, RefreshAlert, RaiseAlert
  <2>2. UNCHANGED <<jobStatus, jobEmail>>
    BY <1>4 DEF Commit, Summarise, RefreshAlert, RaiseAlert, jobVars
  <2>3. \A j \in Jobs : jobStatus[j] = "Completed" /\ IsLatest(j) => DataSame(j)
    BY <1>4, <2>1, WriterFacts, WritersApart, WriteFrame
  <2> QED
    BY <1>0, <2>2, <2>3, LatestSame, ShownFrame
<1>5. ASSUME NEW w \in Workers, Raise(w) PROVE LatestCompletedConsistent'
  <2>1. held[w] \in Jobs
    BY <1>5 DEF Raise, Busy, IInv, WorkerInv
  <2> QED
    BY <1>0, <1>1, <1>5, <2>1 DEF Raise
<1>6. ASSUME NEW s \in Sweepers, NEW i \in Jobs, SweepJob(s, i)
      PROVE  LatestCompletedConsistent'
  BY <1>0, <1>1, <1>6 DEF SweepJob
\* A new job is not completed, and the job it succeeds is no longer the latest.
<1>7. ASSUME NEW c \in Clients, NEW i \in Jobs, InsertJob(c, i)
      PROVE  LatestCompletedConsistent'
  <2>1. /\ jobStatus' = [jobStatus EXCEPT ![i] = "Uploaded"]
        /\ jobEmail' = [jobEmail EXCEPT ![i] = cemail[c]]
        /\ UNCHANGED <<finding, dataVars>>
        /\ jobStatus[i] = Null
    BY <1>7 DEF InsertJob, NextId
  <2>2. ASSUME NEW j \in Jobs, jobStatus'[j] = "Completed", IsLatest(j)'
        PROVE  jobStatus[j] = "Completed" /\ IsLatest(j) /\ DataSame(j)
    <3>1. j # i /\ jobStatus[j] = "Completed" /\ jobEmail'[j] = jobEmail[j]
      BY <1>0, <2>1, <2>2
    <3>2. jobEmail[j] # Null /\ jobEmail[i] = Null
      BY <2>1, <3>1 DEF IInv, JobInv, Null
    <3>3. \A k \in Jobs : k > j => jobEmail'[k] # jobEmail[j]
      BY <2>2, <3>1 DEF IsLatest
    <3>4. \A k \in Jobs : k > j => jobEmail[k] # jobEmail[j]
      BY <1>0, <2>1, <3>2, <3>3
    <3> QED
      BY <2>1, <3>1, <3>4 DEF IsLatest, DataSame, dataVars
  <2> QED
    BY <1>0, <2>2, ShownFrame
<1>8. CASE UNCHANGED <<jobStatus, jobEmail, finding, dataVars>>
  BY <1>1, <1>8
<1> QED
  BY <1>2, <1>3, <1>4, <1>5, <1>6, <1>7, <1>8
     DEF Next, Request, Progress, Sweep, vars, jobVars, AcquireEmail, CheckIdle, MarkUploaded,
         Abandon, Mirror, Release, FailEmail, Crash, LeaseExpires, SweepLatest, SweepEmail,
         SweepCrash

LEMMA ShownInit == Init => Shown
  BY DEF Init, Shown, Stored, LatestCompletedConsistent, Null

-----------------------------------------------------------------------------

\* In Celery mode, with requests one at a time, an email never has two pending
\* jobs, and when its latest job is Completed the analysis, the email list and
\* the alert all show that job's result, whatever crashes and sweeps interleave.
THEOREM OneRequestAtATime ==
    ASSUME TimeLimited, OneClient
    PROVE  Spec => [](OneActiveJob /\ LatestCompletedConsistent)
<1> DEFINE Inv == Tasks /\ Sequential /\ Shown
<1>1. Init => Inv
  BY TaskInit, SequentialInit, ShownInit DEF Tasks
<1>2. IInv /\ Inv /\ [Next]_vars => Inv'
  <2>1. IInv /\ Inv /\ [Next]_vars => Tasks'
    BY TaskStep DEF Tasks
  <2>2. IInv /\ Inv /\ [Next]_vars => Sequential'
    BY SequentialStep
  <2>3. IInv /\ Inv /\ [Next]_vars => Shown'
    BY StoredStep, LatestCompletedStep DEF Shown
  <2> QED
    BY <2>1, <2>2, <2>3
<1>3. IInv /\ Inv => OneActiveJob /\ LatestCompletedConsistent
  BY SequentialOneActive DEF Shown
<1> HIDE DEF Inv
<1> QED
  BY <1>1, <1>2, <1>3, Invariance, PTL DEF Spec

\* An email never has two pending jobs: what the check of reanalyze()
\* (analyze.py:95) is for.
THEOREM OnePendingJob ==
    ASSUME TimeLimited, OneClient
    PROVE  Spec => []OneActiveJob
<1> QED
  BY OneRequestAtATime, PTL
=============================================================================
