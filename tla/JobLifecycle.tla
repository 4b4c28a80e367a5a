--------------------------- MODULE JobLifecycle ----------------------------
(***************************************************************************)
(* What the job queue of backend/core/pipeline.py promises of a job,       *)
(* without workers, leases or stages: an accepted job waits, is run at     *)
(* most once, and ends with one outcome that never changes.                *)
(***************************************************************************)

CONSTANT Jobs

VARIABLE phase  \* [Jobs -> Phases]

Phases == {"absent", "queued", "running", "done", "failed"}

Init == phase = [j \in Jobs |-> "absent"]

\* An upload, an import or a re-analysis request inserts the job.
Submit(j) ==
    /\ phase[j] = "absent"
    /\ phase' = [phase EXCEPT ![j] = "queued"]

\* One worker claims it.
Start(j) ==
    /\ phase[j] = "queued"
    /\ phase' = [phase EXCEPT ![j] = "running"]

\* The run completes, or fails: by an exception, or with its worker.
Finish(j) ==
    /\ phase[j] = "running"
    /\ \E outcome \in {"done", "failed"} :
          phase' = [phase EXCEPT ![j] = outcome]

Next == \E j \in Jobs : Submit(j) \/ Start(j) \/ Finish(j)

\* An accepted job is eventually run and finished.
Fairness == \A j \in Jobs : WF_phase(Start(j)) /\ WF_phase(Finish(j))

SafeSpec == Init /\ [][Next]_phase
Spec == SafeSpec /\ Fairness
=============================================================================
