# Verification of MailTrace

MailTrace preserves emails as evidence, analyses them in the background, shows
the result to analysts, and keeps cases, alerts, reports and campaigns about
them. All durable state is in MongoDB; the code opens no transaction, so every
guarantee rests on single-document updates and on the order in which handlers
issue them. That is what these modules model: one TLA+ step per database call.

## Inventory

Paths are below `src/backend/`.

| Component | State | Operations | Hard behaviour |
|---|---|---|---|
| Job queue `core/pipeline.py`, `workers/celery_app.py` | `jobs` (status, lease, attempts, history), `emails.status`, `email_analysis`, `alerts` | `acquire`, `process`, `stage`, `expire_jobs`, `dispatch_loop`, Celery tasks | duplicate delivery, worker loss, leases that end under a running worker, several writes per transition |
| Intake `api/routes/analyze.py` | inserts into `emails`, `jobs` | upload, paste, CSV, `reanalyze` | check then insert, partly accepted batches |
| Report jobs `api/routes/reports.py`, `reporting/report_generator.py` | `reports`, files, `jobs` | request, `build_report`, download | failure after Completed, crash between report and job |
| Retention `core/retention.py` | deletes from `emails`, `email_analysis`, `jobs`, `alerts`, `iocs`, `evidence`, files | `apply_retention`, preview | held set read once, deletions one by one, concurrent runs |
| Cases `api/routes/investigations.py` | `cases`, `evidence.case_ids` | create, attach, change, note | score and severity raised by the route, recomputed by the worker |
| Campaigns, alerts `api/routes/campaigns.py`, `alerts.py` | `campaigns`, `alerts.status` | create, change status | against retention and against the worker's refresh |
| Rescoring `core/rescore.py` | `email_analysis`, `emails`, `alerts`, `cases` | `rescore_saved` | optimistic update against a re-analysis |
| Gmail `integrations/mailbox_monitor.py`, `api/routes/gmail.py` | `gmail_imports`, `gmail_connections` | import, start, stop, poll | leases, crash recovery, cursor and pages, stop during a poll |
| Maintenance `core/maintenance.py` | `scheduler_state` | `tick` | several schedulers, one failing part |
| Scoring `core/risk_engine.py`, `core/origin_confidence.py` | none | `risk`, `compute_origin_confidence` | floors, caps, thresholds |
| Providers `intelligence/providers.py` | `threat_intelligence`, `provider_cooldowns` | `lookup`, `rdap` | cache expiry, cooldown, key rotation |
| Sessions `core/security.py`, `api/routes/auth.py` | `sessions`, `users` | login, logout, password, user change | login against password change, mutual demotion |
| Frontend hook `app/src/hooks/useLoad.ts` (below `src/`) | the data a page shows | load, poll, refresh, path change | late answers |
| Evidence store `database/store.py` | `evidence`, files, `audit_logs` | `preserve`, `original`, `custody` | file and row are two steps |

The queue is the hub: intake and Gmail insert jobs, workers write the email, the
analysis, the alert and the scores of cases; retention deletes what workers
write; rescoring overwrites what they stored; reports are jobs of the same queue
and go through the same claim, sweep and failure handler. Components never call
back; they meet only in shared documents.

What makes them correct, beyond the queue described below: retention never
deletes an email that a case or campaign holds when the deletion happens; a case
shows the highest score of its emails; a monitored message is imported exactly
once or counted as skipped; a report is Completed only with both files written,
and stays so; a rescored email and its alert agree with its analysis; no session
survives a password change; cached provider data is used only while valid and
only for the same credential.

`PROJECT.json` lists every component with its status, and under `hazards` the
lines where these behaviours bite.

## Modules

| Modules | What they are |
|---|---|
| `JobLifecycle` | What the queue promises of one job: absent, queued, running, then done or failed for good |
| `JobPipeline` | The email jobs of `pipeline.py`, the requests that insert them, and the sweep of expired leases |
| `JobPipeline_proofs`, `JobPipelineCelery_proofs` | Theorems of both worker modes; of the Celery mode, the refinement among them, and of that mode when requests do not overlap |
| `Investigations` | The closing writes of a worker, rescoring, analysts and the retention sweep, over the documents they share |
| `Reports` | Extends it by report requests and report jobs |
| `Investigations_proofs`, `Reports_proofs` | Theorems about the documents of an investigation; about what a sweep, a rescoring and a report may rely on |
| `MailboxDelivery` | What monitoring a mailbox promises |
| `GmailMonitor` | Import, polling, pages, leases, the user's start and stop |
| `MailboxDelivery_proofs`, `GmailMonitor_proofs` | The promise implies that nothing is missed; the monitor implements it, and its imports |
| `ProviderCache`, `ProviderCache_proofs` | Cache, cooldown and key of one intelligence provider, and its theorems |
| `Intelligence`, `RiskEngine`, `MailParser`, `Authentication`, `OriginConfidence`, `Correlation` | The pure functions of an analysis, each extending the one before |
| `EmailAnalysis`, `EmailAnalysis_proofs` | The data path of `process()` that composes them, and its theorems |
| `MC...` | Model values, message fixtures and symmetry for TLC |

The modules divide `process()` between them. `JobPipeline` has its control: claim,
stages, leases, failures, with a severity for everything computed.
`EmailAnalysis` has its data: what each stage computes, with no failure but a
message that does not parse. `Investigations` has its closing writes next to the
other writers of the same documents. `Reports` has its report branch.

### How JobPipeline corresponds to the code

State. `jobStatus`, `jobEmail`, `lease`, `attempts`, `history` are the fields of
a `jobs` document; a job is its rank in `created_at` order, so "the latest job of
the email" (`pipeline.py:219`) compares ranks. `lease` is "live" while
`lease_until` is in the future, "expired" once it has passed. `emailStatus` and
`emailSeverity` are fields of `emails`, `analysis` is the severity stored in
`email_analysis`, `alert` that of the alert of the email (alerts have the email's
id). `finding` and `analysisJob` record which run computed and stored a result:
the run's local `risk_result`, kept so that properties can name it.

Workers. `pc`, `held`, `at` say where a thread or Celery task stands in
`process()`, which job it runs and how many history entries it knows of. One
action per database call, in program order:

| Action | Code |
|---|---|
| `Claim` | the `find_one_and_update` at 232; `Dispatched` is the query of the dispatcher |
| `Stage`, `Mirror` | the two writes of `stage()`, 226 and 227 |
| `Commit` | `replace_one` at 280, with everything computed since stage Correlation |
| `Summarise` | severity, verdict and score into `emails`, 282 |
| `RefreshAlert`, `RaiseAlert` | the two alert updates, 293 and 297-299 |
| `Release` | the lease is unset, 301 |
| `Raise`, `FailEmail` | the two writes of the `except` block, 305 and 307 |
| `Crash` | the process is gone, at any point |

`AfterMirror` is the control flow between stages. A stage can raise anywhere
before the next write (`Raise`), Celery's soft time limit included. The custody
record that ends `stage()` changes nothing here but may raise, which is `Raise`
after `Mirror`. The case recomputation and the indicator upserts (285-290) are
writes to other components' documents, which `Investigations` has.

Requests. `AcquireEmail` then `InsertJob` is `acquire()`; `CheckIdle`, `InsertJob`,
`MarkUploaded` is `reanalyze()`; `Abandon` is an API process that dies or a call
that fails in between. Sweeps. `SweepJob`, `SweepLatest`, `SweepEmail` are the
update, the read and the update of `expire_jobs()`, with `SweepCrash`.

Modes. `TimeLimited` is the one difference between the two worker modes
that matters: a Celery task is killed 1800 s after it started
(`celery_app.py:13`), before the 30 minute lease taken after that start can end,
so `LeaseExpires` is disabled while a worker runs the job. The local thread pool
has no limit: a lease may end under a running worker, which goes on.
This reading assumes that the hosts' clocks agree; a skew between them would let
a Celery worker outlive its lease too.

Abstractions. Severity stands for the whole result; what an email contains, the
providers and the model are the choice of a severity in `Commit`
(`EmailAnalysis` has what they amount to). The alert
conditions other than severity are a free choice in `MustAlert`. Identifiers,
messages, timestamps and custody records are left out. Deleting emails
(`Investigations`) and the job recovery of the Gmail import (`GmailMonitor`), which
inserts a job with an empty history, are not part of this module.

### How Investigations and Reports correspond to the code

State. `emails`, `analysis`, `alert`, `cases`, `campaigns`, `rows` (`evidence`),
`files` are collections and the evidence directory; an email and its evidence
share an identifier. `summary` is `emails.risk_score`, `caseIds` is
`evidence.case_ids`, `indexed` the emails that `iocs` rows name. A score stands for
its severity too. `job` is the status of an email's latest job; "Gone" is a deleted
one, and an update does not bring it back (`Finished`), while the worker's
`replace_one(..., upsert=True)` does bring back an analysis. `protected`, `torn`,
`clash` and `cut` are history and guard nothing.

Each actor does one task and then stays "done"; `at` and `my` are where it stands
and its local variables. One action is one database call or file operation, or
several reads with nothing written between that matters to them:

| Actions | Code |
|---|---|
| `Claim` to `Complete`, `WorkerLost` | `process()`, 230-301, and what `expire_jobs` makes of a lost worker |
| `Pick`, `CheckIdle`, `Rescore`, then the shared `Summarise`, `RefreshAlert`, `RaiseAlert`, `FindCases`, `ReadHighest`, `WriteHighest` | `rescore_saved(apply=True)`; worker and rescoring make these writes in different orders and on different conditions (`Raises`), as in the code |
| `ReadCase`, `ReadEmail`, `LinkEmail`, `LinkEvidence`, `AssignAlert` | `attach_email` |
| `ReadEvidence`, `ListEvidence`, `LinkEvidence` | `case_evidence` |
| `ReadAnalyses`, `InsertCampaign`, `ChangeAlert` | `campaign`, `change_alert` |
| `Tick` to `EndSweep`, `SweepLost` | `apply_retention`, each deletion a step, the file before its row |
| `AskReport`, `InsertReport`, `InsertJob` | the report request |
| `ClaimReport` to `Custody`, `FailJob`, `FailReport`, `ReportLost` | the job, the snapshot and its reads one by one, both files, both status writes, and an exception or loss anywhere |
| `ExpireReport`, `FailExpired` | the two writes of `expire_jobs` for a report; the lease is not renewed, so it may end under a live worker |

Every email and piece of evidence is older than the retention: the worst case.
Titles, notes, timelines and the deletion of old audit records are left out.

### How GmailMonitor corresponds to the code

One user's mailbox. Messages are numbered in the order of its history, so a history
cursor is the number of messages seen and a page token the number it continues
after. `conn` is the row of `gmail_connections` with its monitor and lease,
`imports` the rows of `gmail_imports`; a lease is its holder and whether its time is
over. `emails` and `jobs` count what a message has become, so that duplicates show.
`Register` to `Release` are the steps of `import_message`, used by a poll and by an
import by hand; `Poll`, `History`, `NextMessage`, `Late`, `TurnPage`, `Save` are
`monitor_tick` and `poll_connection`. `Goes` is what a poll does with an outcome: 404,
410 and 413 are skipped on record, any other error puts the old state back.
`Start`, `Stop`, `Disconnect`, `Connect` replace the monitor as the routes do.
Time is not a number: a poll may always be due, and a lease may end when its holder
is gone, or, as a fault that is counted, when it is slow. `acquired` and `skipped`
are the audit log. `since` and `overrun` are history. Left out: counters, status
texts, other mailboxes (a tick takes one), the OAuth exchange.

### How ProviderCache corresponds to the code

`lookup_provider` for one metered provider, split where it reads or writes:
`ReadKey`, `ReadCache`, `CheckCooldown`, `Receive`, `CoolDown`, `Keep`. The key is
part of the cache and cooldown identifiers. `SaveKey` and `RemoveKey` are the
settings routes; disabling the provider, which keeps lookups from it too, is
`RemoveKey`. `CoolDown` takes every `Retry-After` from 0 to past the longest wait.
The store may fail (`Keep`). The clock is in ticks that keep the order of the real
lifetimes. The GeoIP file, which has no cooldown, and RDAP, which has a cache of its
own, are left out.

### How the analysis modules correspond to the code

They take over where the text ends. A message is a record of what the regular
expressions and MIME parts yield; DNS, verifier, model and providers answer with
values of small sets. From there on all is computed as in the code, in integers:
strengths in basis points, points in hundredths, `RoundHalfEven` for `round()`.

| Module | Code |
|---|---|
| `MailParser` | `parse`: hops and their roles, candidate address, identity and lookalikes, URL signals, attachments, indicators |
| `Authentication` | `verify_dkim` with its limit and time budget, `candidate_spf_check`, policy records, DMARC alignment |
| `Intelligence` | which answers count as malicious and how strongly, geolocation, the choice of indicators |
| `RiskEngine` | `risk`: component scores, group caps, correlation rules, model review, severity |
| `OriginConfidence` | `compute_origin_confidence`, `infrastructure_indicators`, `assess_attribution`, `enrich_mail_path` |
| `Correlation` | `compare`, `related_emails`, `graph` |
| `EmailAnalysis` | the stages of `process()` from the original to the stored analysis |

Settings are read once, at the Forensics stage. Wording, countries of display, the
limits of the neighbour queries (50, 100, 30), NS and MX nodes are left out.

Some behaviour a reader may not expect, visible in the definitions: a URL whose only
signal has strength 0 still gets diagnostic points (`risk_engine.py:249`); no
threat signal has the category sender identity; rescoring alerts on the
threshold alone, a worker on HIGH and CRITICAL as well; a lookup normalizes the
spelling of a domain, so its answer may start a cluster of the graph apart from the
message; a thread known through References alone is a lead on one side only.

## Runs

| Run | Instance | Shows |
|---|---|---|
| `jobs_local` | local mode, one email, 2 jobs, 2 workers, 1 request, 1 sweep | `ClaimExclusive`, `HistoryTruthful`, `AnalysisFromFullRun`, `HighFindingAlerted`, `TypeOK` |
| `jobs_celery` | Celery mode, same size, fairness | `OneActiveJob`, `LatestCompletedConsistent`, and `ImplementsLifecycle`, the refinement of `JobLifecycle` with its liveness |
| `jobs_liveness` | local mode, 1 worker, fairness | `JobSettles` |
| `stuck_email` | Celery mode, 1 job, fairness | `EmailSettles` is violated |
| `revived_job` | local mode, 1 job | `FailedIsFinal` is violated |
| `overlapping_requests` | 2 overlapping requests | `OneActiveJob` is violated |
| `investigations` | 2 emails, 1 case, 2 scores, groups of a worker, a rescorer, 2 analysts, a sweep, a report request | `HeldSurvives`, `NoOrphans`, `AnalysisCoherent`, `ViewsAgree`, `AnalystStatusKept`, `CompletedReportIsWhole`, `ReportCoversRequest`, `JobCompletesWithReport`, `TypeOK` |
| `retention_race` | an analyst and a sweep | `LinkedStaysAnalysed` is violated |
| `gmail_monitor` | 2 messages, one per page, 2 pollers, an import by hand, 1 user change, 1 fault, fairness | `Delivers` (the refinement of `MailboxDelivery`), `EventuallyHandled`, `NoDuplicates`, `ImportsAreQueued`, `TypeOK` |
| `provider_cache` | 1 indicator, 2 keys, 2 lookups, a clock of 2 ticks | `AnsweredForItsKey`, `RespectsCooldown`, `ReportsNoOldLimit`, `TypeOK` |
| `email_analysis` | one message out of a set of corner cases, 2 policies, all answers of the world | the score reconciles, silence is neutral, answers only raise, verdicts stand on checks, the origin is on the sending side, and the rest of its eleven properties |
| `email_correlation` | two messages, two workers | `SharedFileIsALead`, `LeadsAreMutual` |

### Why the bounds are enough

Queue. Jobs of different emails share nothing but the slots
of the dispatcher, and no property relates two emails, so one email is the
interesting case. Two jobs of it are what overlap needs: a late worker of a failed
job and a retry, or the job a sweep is about to fail and the one that makes it no
longer the latest. Two workers run both at once. In local mode one request
suffices for overlap, because a swept job no longer counts as pending while its
worker still runs. Every lease may expire, every process may crash and every call
may raise at every step.

Investigations. Two emails are what a case needs for one score to be higher and a
campaign to be one; one case suffices, since cases share emails only through what is
recomputed one case at a time. Two scores lie on either side of both thresholds.
`Crews` lists which actors meet, because all at once is out of reach: each pair
that writes the same documents does, and the sweep meets an analyst and a report
together. The trios of a worker, a rescorer, two analysts and a sweep, and the
report next to a sweep or a worker and an analyst, were also checked one by one
and hold. Overlap of sweeps is not among them: `HeldSurvives` fails for it, see
below.

Mailbox. Two messages on pages of one are a second page with a cursor that must
wait; two pollers and a user are a lease taken over and two importers of one message.
One fault is a crash, an error, an expired history or a slow holder at any step.
Larger instances were checked once for the safety properties and `Delivers`: two faults,
two user changes, and three messages on pages of two with one poller and two faults.

Providers. Two keys are a rotation and one that comes back, two lookups are two 429s or
an old answer stored after a new one; two ticks reach the end of every lifetime.
What the clock does later repeats it, which the theorems confirm for any clock.

Analysis. Each message fixture in `MCEmailAnalysis` sits on an edge: a link only,
an accused link and a brand, a wire request, relays in both orders, private, mapped
and malformed addresses, more indicators than the limit, signatures of own,
sub- and foreign domains, unfetched and too many, two senders. Policies are the
default one and a strict one with unequal weights. The properties relate what is
stored to the inputs or to a second evaluation with some evidence removed. The
theorems of `EmailAnalysis_proofs` say the same of every input the assumptions admit.

### Disagreements

The four violations are disagreements between the code and its documents; they
are described with the quoted lines under `findings` in `PROJECT.json`. In short:
a job's status and its email's status are separate writes, so a loss between them
leaves an email that looks processing for ever although the job is settled and no
sweep looks at it again; `stage()` writes without checking that the job is still
its own; the check for a pending analysis is not atomic with the insert; and
retention reads what is held once, so what is linked during a sweep loses its
analysis. With one request at a time and the time limit, `jobs_celery` shows that
the second and third are the only ways to several pending jobs or inconsistent
results; `investigations` shows that what was linked before a sweep is safe from it.

Other behaviour the models show and no document rules out: two sweeps at once
(`settings.py:59` next to the scheduler) void even that, because the older one does
not hold what the younger one does; a sweep lost after deleting an email row leaves
the jobs, alert and indicators of that email for ever; writers of scores that
overlap can leave a row, an alert or a case with another run's result
(`ViewsAgree` sets them aside with `clash`), for instance a case score with the
severity of another email after two attaches; a report whose process is lost between
its two inserts waits for ever.

### Fairness

Queue (`Fairness` in `JobPipeline`). The dispatcher and the sweep run again
every second or every five seconds (`dispatch_loop`, beat schedule), so an
Uploaded job is eventually claimed by some worker and an expired lease is
eventually swept; a running task goes on or raises; time passes, so a live lease
eventually expires where it can. All of it is weak fairness. Nothing is assumed of
requests: an abandoned one may never finish, and crashes may happen whenever.
Each job is claimed once, so crashes cannot recur for ever.

Mailbox (`FairSpec` in `GmailMonitor`). The scheduler ticks every few seconds
(`maintenance_loop`, beat schedule), so an idle poller polls when it may; a process
takes its next step; leases run out. Faults are bounded: a call that fails for ever
is no delivery. Nothing is assumed of the user. `EventuallyHandled` needs the
takeover of leases: without it one crash blocks a message for ever, which is its
mutant.

`Investigations`, `Reports`, `ProviderCache` and `EmailAnalysis` have safety properties
only and state no fairness.

## Proofs

`JobPipeline_proofs` proves `TypeOK`, `ClaimExclusive`, `HistoryTruthful`,
`AnalysisFromFullRun` and `HighFindingAlerted` as invariants of `Spec` for every
value of the constants, in both modes, from the assumptions of `JobPipeline`
(a positive number of jobs, `Null` not an email or a severity, a Boolean mode).
`IInv` is the inductive invariant. `ClaimExclusive` alone is not inductive: that a
claim takes a job nobody runs needs that a running job is never Uploaded
(`WorkerInv`), which needs that no later write makes a job Uploaded again.
`HistoryTruthful` needs that a worker's count equals the length of its job's
history, which holds even for a late worker because no one else appends
(`ClaimExclusive` again). `AnalysisFromFullRun` and `HighFindingAlerted` need what
a worker has already stored at each program point (also `WorkerInv`) and that
histories, findings and alerts never go back.

`JobPipelineCelery_proofs` assumes `TimeLimited` and adds `TaskInv`: a job that a
worker runs has a live lease and the status the worker wrote last. From it,
`QueueImplementsLifecycle` shows that each step of the queue is a step of
`JobLifecycle` or a stutter, so `LifecycleSafety` holds for any number of
workers, sweeps and overlapping requests. The refinement maps a job that is
Completed but whose worker has not returned to "running": the last custody record
or the unset of the lease may still raise, and then the job fails. `FailedJobIsFinal`
follows from it: in Celery mode a failed job stays failed.

Its second part adds the assumption that requests do not overlap
(`OneClient`) and proves `OneActiveJob` and `LatestCompletedConsistent`. `Sequential`
is the part about requests: jobs are inserted in order, only the latest job of an
email is pending, and what a request checked still holds when it inserts.
`Stored` is the part about results: what a run has already written, by program
point. Two workers past their last stage then work for different emails
(`WritersApart`), so neither can mix its writes into the other's; the
step to Completed finds every document written by the same run.

`OnePendingJob` is the same for the status an email's jobs have.

`Reports_proofs` proves five properties of `ReportSpec` for every value of the
constants: any emails, cases, actors and crews. `HeldSurvives` needs what a sweep is
about to do: `Held(s)` says, by program point, that the held set it read contains what
was linked when it began, that the email it deletes is not in that set, and that the
evidence it deletes belongs to no email that is left. That holds against every other actor because
nobody else deletes and links only grow, and fails against a second sweep; hence the
hypothesis `NoOverlap`. `AnalysisCoherent` needs no more than that `Unchanged` compares the
version that is overwritten. The report theorems need `Made(r)`, what a build
has read and written by program point, and `Covered(r)`, that the emails asked for are
still in the case and are analysed or in `cut`. `JobCompletesWithReport` needs that a
report whose job completed is never failed: `FailReport` belongs to the worker
itself, and the expiry looks at the report again.

`Investigations_proofs` proves `TypeOK`, `AnalystStatusKept`, `NoOrphans` and `ViewsAgree` of
`ReportSpec`, next to all other actors. An email is deleted in five steps that any of
them may fall between: `DeletionInv` says what each step has left behind (`Erased`, `RowDropped`)
and that whoever found the email or its job gone writes nothing of it (`Outside`,
`OwnJob`); a writer who was at work when it went is what `torn` records. `ViewsAgree` is about quiet states
and not inductive at all. Its invariant says which view may differ at each program
point of a writer (`Published`): row, alert and cases show the analysis except the
ones that writer has still to write, and what it is about to write as the greatest score of
a case was read from rows that agree (`ReadWell`). That is preserved as long as one
writer of scores is at work at a time (`OneWriter`), which `clash` negates; a link or a sweep
only removes what has to agree. That a greatest score exists is a minimality argument
over finite sets.

`GmailMonitor_proofs` proves that the monitor implements `MailboxDelivery`, for
any number of messages, pollers, users, faults and changes and any page size. The
invariant `MonitorInv` says of the stored monitor and of the state each poll carries
that they are `OnTrack` (everything from the cursor to the place reached is handled
or pending), that a poll's state `Follows` the one it read (same watch, no earlier
cursor, everything between handled), and that whoever still holds the lease read what
is stored now. `Save` is then `Advance` or `End`; every user change is `Begin` or `End`.
`MailboxDelivery_proofs` adds that the promise implies `NothingMissed`.
Its second part proves `NoDuplicates` and `ImportsAreQueued` from `ImportInv`: unless
a lease overran, only its holder is between claim and mark, and at each step it knows
how many emails and jobs the message has.

`ProviderCache_proofs` proves all four properties of the run for any clock, lifetimes,
keys and threads. `CacheInv` says that each cached row carries the key it is filed
under and that a rate limit in it, a cooldown, or one still carried by a lookup, ends no
later than the longest wait told for that key.

`EmailAnalysis_proofs` proves all thirteen properties of the analysis for every message, policy,
model, provider and resolver, and any number of messages whose workers interleave. One
invariant carries all of them, `DataInv` (`DataIsTraced`): what a worker holds at each
stage, and what is stored, is what the operators compute from the preserved
message and some answer of the world. The properties then are lemmas about
operators. `ScoreExplained`: total and caps are bounded by the weights, since each
contribution is at most its weight and the weights of an accepted policy add up to 100; so the
cap at 100 never cuts, and the gap is that of two roundings. `EvidenceOnlyRaises` and
`MissingEvidenceIsNeutral`: every operator between an answer and the score is monotone in the set
of answers, and blind to answers that are not available. The group caps
are sums over finite sets of signals; that such a sum grows with
its set, or with its terms, is proved here from the definition of the fold by minimal
counterexamples, because the induction theorems of the library cannot be
instantiated. `LeadsAreMutual`: each part of a comparison is symmetric, and what one
side finds by its query the other finds too. `LinksSpareAddresses`: if an
address were left out, those ranked before it would be fewer than the limit. `OriginOnSendingSide`,
`DmarcPassIsAligned` and `VerifiedFailureIsComplete` trace a verdict back through the parser
to the header or signature it stands on. `ObscuringLowersOrigin`: the candidate has one row, whose
answers have one author each; taking the flags out of them changes no location, no
cross-check and no name, only the 15 points, and those come off after the ceiling.
`GraphHangsTogether`: every edge starts at the message or next to it, so two steps reach
all nodes; the graph is finite and has at least two, so the recursion of `Cluster`, for
which a solution is shown to exist, goes that far.

Two of these properties were false as first stated and no instance of ours showed it. A `d=` of a
DKIM signature may be any text, so it can be spelled like a link or a hash of another
message; the comparison goes by spelling and kind in one direction and by spelling alone in the
other. `LeadsAreMutual` now sets that apart (`SpelledAlike`). And with a
limit of one lookup, a candidate spelled like a host would not be asked about; the
code's limit is 25 (`LimitIsNotTiny`).

Assumptions. Every theorem rests on the named assumptions of its module only
(bounds are naturals, sets of actors are disjoint, special values are apart, lifetimes
are ordered, thresholds are scores), and, where its statement says so, on `TimeLimited`, `OneClient` or `NoOverlap`.
Those of the analysis say what surrounds it: `MessagesAreRead` that regular
expressions and MIME parts yield lists with offsets, and an address only where
`ipaddress` reads one; `MappedAreLiterals` that a mapped address is an address; `AddressesAreApart` that a
link with its scheme and a digest are not; `PoliciesAreAccepted` that settings went through
`save_settings`; `PredictionsArePercent` that the model gives percentages; `AnswersAreSigned` that each
provider client puts its own name on what it returns, and VirusTotal counts; `AnswersAreRecords` that an
available answer has a result with the fields the code reads, that `rdap_lookup` reports no
flags, and that a name has finitely many addresses. TLC evaluates all of them on the fixtures.

Only model-checked. Liveness (`JobSettles`, `EventuallyHandled`, the fairness part of
`ImplementsLifecycle`) is out of the prover's reach. Type correctness of `Reports` is proved for
the part its invariants need (`Shape`, `ReportShape`) and not as `TypeOK`.

## Not modelled, and why

Text and bytes (regular expressions, MIME, PDF, encryption), numerics (the model),
I/O (HTTP, OAuth, DNS itself), wording, masking and read-only routes: no shared
state, or only through an outcome that the models choose freely. Custody and audit
records are written and never read back by the code, except where they serve as
history here. Sessions and the data hook of the frontend keep state of their own
that nothing above depends on; offline training and deployment are not part of
the running system.

## Next

In this order:

1. `Sessions`: login against password change and deactivation, two administrators
   who demote each other.
2. The RDAP cache next to `ProviderCache`, whose write is not guarded against an outage.
3. A CSV batch as one request, and `preserve()` before `acquire()`.
4. Bounds of `RiskEngine` (caps, severity against score) as lemmas.
5. `LoadHook`: polling, refresh and path changes of a page against late answers.
