---------------------------- MODULE Reports_proofs ----------------------------
(***************************************************************************)
(* What investigations and their reports guarantee for every number of     *)
(* emails, cases, workers, rescorings, analysts and report requests.       *)
(*                                                                         *)
(* The argument for retention: a sweep holds every email that was linked   *)
(* when it began; it deletes no email it holds, and no evidence of an      *)
(* email that is there; nobody else deletes anything. It needs that sweeps *)
(* do not overlap. The argument for reports: a report is made in a fixed   *)
(* order of steps, each of which knows what those before it took, and an   *)
(* analysis that was there when the report was asked for is only ever lost *)
(* to a sweep while its email is linked.                                   *)
(***************************************************************************)
EXTENDS Reports, TLAPS

----------------------------------------------------------------------------
(* The shape of the state. *)

IsLocal(v) == DOMAIN v = {"email", "case", "score", "seen", "left", "held"}
IsCase(v) == DOMAIN v = {"emails", "evidence", "score", "severity"}
IsTaken(v) == DOMAIN v = {"case", "asked", "emails", "analysed", "evidence", "originals"}

Shape ==
    /\ DOMAIN at = Actors /\ DOMAIN my = Actors /\ DOMAIN protected = Sweepers
    /\ \A s \in Sweepers : IsLocal(my[s])
    /\ emails \subseteq Emails /\ runs \in [Emails -> 0..MaxRuns]
    /\ analysis \in [Emails -> {Missing} \cup Analyses]
    /\ DOMAIN cases = Cases /\ \A c \in Cases : IsCase(cases[c])

\* What the step of an actor leaves of the others.
Apart(a) ==
    /\ DOMAIN at' = Actors /\ DOMAIN my' = Actors
    /\ \A o \in Actors \ {a} : at'[o] = at[o] /\ my'[o] = my[o]

LEMMA GoApart ==
  ASSUME Shape, NEW a \in Actors, NEW from, NEW to, NEW local, Go(a, from, to, local)
  PROVE  Apart(a) /\ at[a] = from /\ at'[a] = to /\ my'[a] = local
  BY DEF Shape, Go, Apart

\* Nothing that is kept is lost: what everyone but a sweep does.
Spares ==
    /\ emails' = emails /\ rows' = rows /\ files' = files
    /\ \A e \in Emails : analysis[e] # Missing => analysis'[e] # Missing
Grows == /\ DOMAIN cases' = Cases
         /\ \A c \in Cases : IsCase(cases'[c]) /\ cases[c].emails \subseteq cases'[c].emails
Typed == /\ emails' \subseteq Emails /\ runs' \in [Emails -> 0..MaxRuns]
         /\ analysis' \in [Emails -> {Missing} \cup Analyses]
Coherent == AnalysisCoherent => AnalysisCoherent'

\* The shared conclusion about the steps of everyone but a sweep.
Harmless(a) ==
    Apart(a) /\ protected' = protected /\ Spares /\ Grows /\ Typed /\ Coherent

LEMMA NothingStored ==
  ASSUME Shape, UNCHANGED <<emails, rows, files, analysis, runs>>
  PROVE  Spares /\ Typed /\ Coherent
  BY DEF Shape, Spares, Typed, Coherent, AnalysisCoherent

LEMMA NoCaseChanged ==
  ASSUME Shape, cases' = cases
  PROVE  Grows
  BY DEF Shape, Grows

----------------------------------------------------------------------------
(* The steps of everyone but a sweep. *)

LEMMA RequestStep ==
  ASSUME Shape, NEW e \in Emails, Request(e)
  PROVE  /\ at' = at /\ my' = my /\ protected' = protected
         /\ Spares /\ Grows /\ Typed /\ Coherent
<1>1. /\ UNCHANGED <<emails, rows, files, analysis, cases, at, my, protected>>
      /\ runs[e] < MaxRuns /\ runs' = [runs EXCEPT ![e] = @ + 1]
  BY DEF Request
<1>2. runs[e] \in 0..MaxRuns /\ MaxRuns \in Nat /\ runs \in [Emails -> 0..MaxRuns]
  BY ScoresAreNumbers DEF Shape
<1>3. runs[e] + 1 \in 0..MaxRuns
  BY <1>1, <1>2
<1>4. runs' \in [Emails -> 0..MaxRuns]
  BY <1>1, <1>2, <1>3
<1> QED
  BY <1>1, <1>4, NoCaseChanged DEF Shape, Spares, Typed, Coherent, AnalysisCoherent

\* Most steps store nothing a sweep deletes, and change no case.
LEMMA QuietStep ==
  ASSUME Shape, NEW a \in Actors, NEW from, NEW to, NEW local, Go(a, from, to, local),
         UNCHANGED <<emails, rows, files, analysis, runs, cases, protected>>
  PROVE  Harmless(a)
  BY GoApart, NothingStored, NoCaseChanged DEF Harmless

LEMMA PublishStep ==
  ASSUME Shape, NEW a \in Workers \cup Rescorers, Publish(a)
  PROVE  Harmless(a)
<1> a \in Actors
  BY DEF Actors
<1>1. CASE Summarise(a)
  <2>1. \E from, to, local : Go(a, from, to, local)
    BY <1>1, Zenon DEF Summarise, Step
  <2>2. UNCHANGED <<emails, rows, files, analysis, runs, cases, protected>>
    BY <1>1, Zenon DEF Summarise, history
  <2> QED
    BY <2>1, <2>2, QuietStep
<1>2. CASE FindCases(a)
  BY <1>2, QuietStep DEF FindCases, data, history
<1>3. CASE ReadHighest(a)
  <2>1. \E from, to, local : Go(a, from, to, local)
    BY <1>3, Zenon DEF ReadHighest
  <2>2. UNCHANGED <<emails, rows, files, analysis, runs, cases, protected>>
    BY <1>3, Zenon DEF ReadHighest, data, history
  <2> QED
    BY <2>1, <2>2, QuietStep
<1>4. CASE WriteHighest(a)
  <2>1. Apart(a)
    BY <1>4, GoApart DEF WriteHighest
  <2>2. UNCHANGED <<emails, rows, files, analysis, runs, protected>>
    BY <1>4, Zenon DEF WriteHighest, history
  <2>3. cases' = [cases EXCEPT ![my[a].case].score = my[a].seen,
                               ![my[a].case].severity = my[a].seen]
    BY <1>4 DEF WriteHighest
  <2>4. Grows
    BY <2>3 DEF Shape, Grows, IsCase
  <2> QED
    BY <2>1, <2>2, <2>4, NothingStored DEF Harmless
<1>5. CASE NoCaseLeft(a)
  <2>1. \E from, to, local : Go(a, from, to, local)
    BY <1>5, Zenon DEF NoCaseLeft, Step, Leave
  <2> QED
    BY <1>5, <2>1, QuietStep DEF NoCaseLeft, data, history
<1>6. CASE RefreshAlert(a)
  <2>1. \E from, to, local : Go(a, from, to, local)
    BY <1>6, Zenon DEF RefreshAlert, Step
  <2>2. UNCHANGED <<emails, rows, files, analysis, runs, cases, protected>>
    BY <1>6, Zenon DEF RefreshAlert, history
  <2> QED
    BY <2>1, <2>2, QuietStep
<1>7. CASE RaiseAlert(a)
  <2>1. \E from, to, local : Go(a, from, to, local)
    BY <1>7, Zenon DEF RaiseAlert, Step
  <2>2. UNCHANGED <<emails, rows, files, analysis, runs, cases, protected>>
    BY <1>7, Zenon DEF RaiseAlert, history
  <2> QED
    BY <2>1, <2>2, QuietStep
<1> QED
  BY <1>1, <1>2, <1>3, <1>4, <1>5, <1>6, <1>7 DEF Publish

LEMMA WorkStep ==
  ASSUME Shape, NEW w \in Workers, Work(w)
  PROVE  Harmless(w)
<1> w \in Actors
  BY DEF Actors
<1>1. CASE Store(w)
  <2> DEFINE e == my[w].email
  <2>1. PICK s \in Scores :
          /\ Go(w, "store", "summary", [my[w] EXCEPT !.score = s])
          /\ analysis' = [analysis EXCEPT ![e] =
                [run |-> runs[e], basis |-> runs[e], score |-> s, version |-> "new"]]
          /\ UNCHANGED <<emails, summary, job, runs, indexed, alert, rows, files,
                         caseIds, cases, campaigns, history>>
    BY <1>1 DEF Store
  <2>2. UNCHANGED <<emails, rows, files, runs, cases, protected>>
    BY <2>1, Zenon DEF history
  <2>3. Apart(w)
    BY <2>1, GoApart
  <2> DEFINE row == [run |-> runs[e], basis |-> runs[e], score |-> s, version |-> "new"]
  <2>4. e \in Emails => row \in Analyses
    BY DEF Shape, Analyses
  <2>5. row.basis = row.run
    OBVIOUS
  <2>6. analysis' = [analysis EXCEPT ![e] = row]
    BY <2>1
  <2>7. analysis \in [Emails -> {Missing} \cup Analyses] /\ Missing \notin Analyses
    BY MissingIsApart DEF Shape
  <2> HIDE DEF row, e
  <2>8. Spares /\ Typed /\ Coherent
    <3>1. analysis' \in [Emails -> {Missing} \cup Analyses]
      BY <2>4, <2>6, <2>7
    <3>2. \A o \in Emails : analysis'[o] = analysis[o] \/ (o = e /\ analysis'[o] = row)
      BY <2>6, <2>7
    <3>3. \A o \in Emails : analysis[o] # Missing => analysis'[o] # Missing
      BY <2>4, <2>7, <3>2
    <3>4. Coherent
      BY <2>5, <3>2 DEF Coherent, AnalysisCoherent
    <3> QED
      BY <2>2, <3>1, <3>3, <3>4 DEF Spares, Typed, Shape
  <2> QED
    BY <2>2, <2>3, <2>8, NoCaseChanged DEF Harmless
<1>2. CASE ~Store(w)
  <2>1. \E from, to, local : Go(w, from, to, local)
    BY <1>2, Zenon DEF Work, Claim, ReadOriginal, Index, Complete, WorkerLost, Step, Leave
  <2>2. UNCHANGED <<emails, rows, files, analysis, runs, cases, protected>>
    BY <1>2, Zenon DEF Work, Claim, Starts, ReadOriginal, Index, Complete, WorkerLost,
       history
  <2> QED
    BY <2>1, <2>2, QuietStep
<1> QED
  BY <1>1, <1>2

LEMMA RescoringStep ==
  ASSUME Shape, NEW r \in Rescorers, Rescoring(r)
  PROVE  Harmless(r)
<1> r \in Actors
  BY DEF Actors
<1> DEFINE e == my[r].email
<1>1. CASE Rescore(r) /\ Unchanged(analysis[e], my[r].seen)
  <2>1. PICK s \in Scores :
          /\ Go(r, "rescore", "summary", [my[r] EXCEPT !.score = s, !.seen = Missing])
          /\ analysis' = [analysis EXCEPT ![e] =
                [run |-> @.run, basis |-> my[r].seen.run, score |-> s, version |-> "new"]]
    BY <1>1 DEF Rescore
  <2>2. UNCHANGED <<emails, rows, files, runs, cases, protected>>
    BY <1>1, Zenon DEF Rescore, history
  <2>3. Apart(r)
    BY <2>1, GoApart
  <2> DEFINE row == [run |-> analysis[e].run, basis |-> my[r].seen.run,
                     score |-> s, version |-> "new"]
  <2>4. analysis[e] # Missing /\ my[r].seen.run = analysis[e].run
    BY <1>1 DEF Unchanged
  <2>5. analysis \in [Emails -> {Missing} \cup Analyses] /\ Missing \notin Analyses
    BY MissingIsApart DEF Shape
  <2>6. e \in Emails => row \in Analyses
    BY <2>4, <2>5 DEF Analyses
  <2>7. row.basis = row.run
    BY <2>4
  <2>8. analysis' = [analysis EXCEPT ![e] = row]
    BY <2>1
  <2> HIDE DEF row, e
  <2>9. Spares /\ Typed /\ Coherent
    <3>1. analysis' \in [Emails -> {Missing} \cup Analyses]
      BY <2>5, <2>6, <2>8
    <3>2. \A o \in Emails : analysis'[o] = analysis[o] \/ (o = e /\ analysis'[o] = row)
      BY <2>5, <2>8
    <3>3. \A o \in Emails : analysis[o] # Missing => analysis'[o] # Missing
      BY <2>5, <2>6, <3>2
    <3>4. Coherent
      BY <2>7, <3>2 DEF Coherent, AnalysisCoherent
    <3> QED
      BY <2>2, <3>1, <3>3, <3>4 DEF Spares, Typed, Shape
  <2> QED
    BY <2>2, <2>3, <2>9, NoCaseChanged DEF Harmless
<1>2. CASE ~(Rescore(r) /\ Unchanged(analysis[e], my[r].seen))
  <2>1. \E from, to, local : Go(r, from, to, local)
    BY <1>2, Zenon DEF Rescoring, Pick, CheckIdle, Rescore, Step, Leave
  <2>2. UNCHANGED <<emails, rows, files, analysis, runs, cases, protected>>
    BY <1>2, Zenon DEF Rescoring, Pick, Starts, CheckIdle, Rescore, data, history
  <2> QED
    BY <2>1, <2>2, QuietStep
<1> QED
  BY <1>1, <1>2

LEMMA InvestigateStep ==
  ASSUME Shape, NEW n \in Analysts, Investigate(n)
  PROVE  Harmless(n)
<1> n \in Actors
  BY DEF Actors
<1>1. CASE LinkEmail(n)
  <2>1. Apart(n)
    BY <1>1, GoApart DEF LinkEmail, Step
  <2>2. UNCHANGED <<emails, rows, files, analysis, runs, protected>>
    BY <1>1, Zenon DEF LinkEmail, history
  <2>3. cases' = [cases EXCEPT ![my[n].case] =
                    Linked(@, my[n].email, my[n].seen, my[n].score)]
    BY <1>1 DEF LinkEmail
  <2>4. \A case, e, seen, read :
            /\ IsCase(Linked(case, e, seen, read))
            /\ Linked(case, e, seen, read).emails = case.emails \cup {e}
    BY DEF Linked, IsCase
  <2>5. Grows
    BY <2>3, <2>4 DEF Shape, Grows
  <2> QED
    BY <2>1, <2>2, <2>5, NothingStored DEF Harmless
<1>2. CASE ListEvidence(n)
  <2>1. Apart(n)
    BY <1>2, GoApart DEF ListEvidence, Step
  <2>2. UNCHANGED <<emails, rows, files, analysis, runs, protected>>
    BY <1>2, Zenon DEF ListEvidence, history
  <2>3. cases' = [cases EXCEPT ![my[n].case].evidence = @ \cup {my[n].email}]
    BY <1>2 DEF ListEvidence
  <2>4. Grows
    BY <2>3 DEF Shape, Grows, IsCase
  <2> QED
    BY <2>1, <2>2, <2>4, NothingStored DEF Harmless
<1>3. CASE ~LinkEmail(n) /\ ~ListEvidence(n)
  <2>1. \E from, to, local : Go(n, from, to, local)
    BY <1>3, Zenon DEF Investigate, ReadCase, ReadEvidence, ReadAnalyses, ChangeAlert,
       ReadEmail, LinkEvidence, AssignAlert, InsertCampaign, Step, Leave
  <2>2. UNCHANGED <<emails, rows, files, analysis, runs, cases, protected>>
    BY <1>3, Zenon DEF Investigate, ReadCase, Starts, ReadEvidence, ReadAnalyses,
       ChangeAlert, ReadEmail, LinkEvidence, AssignAlert, InsertCampaign, data, history
  <2> QED
    BY <2>1, <2>2, QuietStep
<1> QED
  BY <1>1, <1>2, <1>3

----------------------------------------------------------------------------
(* The steps of a sweep. *)

\* What the sweep s relies on.
Held(s) ==
    /\ at[s] \in {"emails"} \cup Deleting => protected[s] \subseteq my[s].held
    /\ at[s] \in Deleting => my[s].email \notin my[s].held
    /\ at[s] \in {"unlink", "drop row"} => my[s].email \notin emails
    /\ \A e \in protected[s] : Whole(e)

\* A sweep moves to a step with local variables of the usual shape, and drops at
\* most analyses.
LEMMA SweepShape ==
  ASSUME Shape, NEW s \in Sweepers, Sweep(s)
  PROVE  /\ Apart(s) /\ IsLocal(my'[s]) /\ DOMAIN protected' = Sweepers
         /\ cases' = cases /\ Typed /\ Coherent
<1> s \in Actors
  BY DEF Actors
<1>1. \E from, to, local : IsLocal(local) /\ Go(s, from, to, local)
  <2> DEFINE v == my[s]
  <2>1. IsLocal(v) /\ IsLocal(Blank)
    BY DEF Shape, IsLocal, Blank
  <2>2. \A x : IsLocal([v EXCEPT !.left = x])
    BY <2>1 DEF IsLocal
  <2>3. \A x, y : IsLocal([[v EXCEPT !.left = x] EXCEPT !.email = y])
    BY <2>1 DEF IsLocal
  <2>4. \A x : IsLocal([v EXCEPT !.email = x])
    BY <2>1 DEF IsLocal
  <2>5. \A x, y : IsLocal([Blank EXCEPT !.left = x, !.held = y])
    BY <2>1 DEF IsLocal
  <2> HIDE DEF v
  <2>6. v = my[s]
    BY DEF v
  <2> QED
    BY <2>1, <2>2, <2>3, <2>4, <2>5, <2>6, Zenon DEF Sweep, Tick, CheckEmail, DropAnalysis,
       DropEmail, DropIndex, DropJobs, DropAlert, ScanEvidence, CheckEvidence, Unlink,
       DropRow, EndSweep, SweepLost, Step, Leave
<1>2. Apart(s) /\ IsLocal(my'[s])
  BY <1>1, GoApart
<1>3. cases' = cases /\ runs' = runs
  BY Zenon DEF Sweep, Tick, CheckEmail, DropAnalysis, DropEmail, DropIndex, DropJobs,
     DropAlert, ScanEvidence, CheckEvidence, Unlink, DropRow, EndSweep, SweepLost, data
<1>4. analysis' = analysis \/ analysis' = [analysis EXCEPT ![my[s].email] = Missing]
  BY Zenon DEF Sweep, Tick, CheckEmail, DropAnalysis, DropEmail, DropIndex, DropJobs,
     DropAlert, ScanEvidence, CheckEvidence, Unlink, DropRow, EndSweep, SweepLost, data
<1>5. protected' = protected \/ \E x : protected' = [protected EXCEPT ![s] = x]
  BY Zenon DEF Sweep, Tick, CheckEmail, DropAnalysis, DropEmail, DropIndex, DropJobs,
     DropAlert, ScanEvidence, CheckEvidence, Unlink, DropRow, EndSweep, SweepLost, history
<1>6. DOMAIN protected' = Sweepers
  BY <1>5 DEF Shape
<1>7. emails' \subseteq emails
  BY Zenon DEF Sweep, Tick, CheckEmail, DropAnalysis, DropEmail, DropIndex, DropJobs,
     DropAlert, ScanEvidence, CheckEvidence, Unlink, DropRow, EndSweep, SweepLost, data
<1>8. Typed /\ Coherent
  BY <1>3, <1>4, <1>7 DEF Shape, Typed, Coherent, AnalysisCoherent
<1> QED
  BY <1>2, <1>3, <1>6, <1>8

LEMMA SweepHolds ==
  ASSUME Shape, NEW s \in Sweepers, Held(s), Sweep(s)
  PROVE  Held(s)'
<1> s \in Actors /\ IsLocal(my[s])
  BY DEF Actors, Shape
<1> DEFINE v == my[s]
<1>1. CASE Tick(s)
  <2> DEFINE local == [Blank EXCEPT !.left = emails, !.held = HeldEmails]
  <2>1. at'[s] = "emails" /\ my'[s] = local
    BY <1>1, GoApart DEF Tick
  <2>2. local.held = HeldEmails
    BY DEF Blank
  <2>3. protected'[s] = {e \in LinkedEmails : Whole(e)}
    BY <1>1 DEF Tick, Shape
  <2>4. HeldEmails = LinkedEmails
    BY DEF HeldEmails, LinkedEmails
  <2>5. UNCHANGED <<emails, analysis, rows, files>>
    BY <1>1 DEF Tick
  <2> HIDE DEF local
  <2>6. \A e \in protected'[s] : Whole(e)'
    BY <2>3, <2>5 DEF Whole
  <2> QED
    BY <2>1, <2>2, <2>3, <2>4, <2>6, Zenon DEF Held, Deleting
<1>2. CASE CheckEmail(s)
  <2>1. PICK e \in v.left :
          IF Spared(e, v.held)
          THEN Go(s, "emails", "emails", [v EXCEPT !.left = @ \ {e}])
          ELSE Go(s, "emails", "drop analysis",
                  [[v EXCEPT !.left = @ \ {e}] EXCEPT !.email = e])
    BY <1>2 DEF CheckEmail
  <2>2. UNCHANGED <<emails, analysis, rows, files, protected>>
    BY <1>2, Zenon DEF CheckEmail, data
  <2>3. \A o \in protected'[s] : Whole(o)'
    BY <2>2 DEF Held, Whole
  <2>4. protected'[s] \subseteq v.held
    <3>1. at[s] = "emails"
      BY <2>1, Zenon DEF Go
    <3> QED
      BY <2>2, <3>1 DEF Held
  <2>5. CASE Spared(e, v.held)
    <3>1. at'[s] = "emails" /\ my'[s] = [v EXCEPT !.left = @ \ {e}]
      BY <2>1, <2>5, GoApart
    <3>2. my'[s].held = v.held
      BY <3>1 DEF IsLocal
    <3> QED
      BY <2>3, <2>4, <3>1, <3>2, Zenon DEF Held, Deleting
  <2>6. CASE ~Spared(e, v.held)
    <3> DEFINE local == [[v EXCEPT !.left = @ \ {e}] EXCEPT !.email = e]
    <3>1. Go(s, "emails", "drop analysis", local)
      BY <2>1, <2>6, Zenon
    <3>2. local.held = v.held /\ local.email = e
      BY DEF IsLocal
    <3>3. e \notin v.held
      BY <2>6 DEF Spared
    <3> HIDE DEF local
    <3>4. at'[s] = "drop analysis" /\ my'[s] = local
      BY <3>1, GoApart
    <3> QED
      BY <2>3, <2>4, <3>2, <3>3, <3>4, Zenon DEF Held, Deleting
  <2> QED
    BY <2>5, <2>6
<1>3. CASE DropAnalysis(s) \/ DropEmail(s) \/ DropIndex(s) \/ DropJobs(s)
  <2>1. at[s] \in Deleting /\ at'[s] \in Deleting /\ my'[s] = v
    BY <1>3, GoApart DEF DropAnalysis, DropEmail, DropIndex, DropJobs, Step, Deleting
  <2>2. UNCHANGED <<rows, files, protected>>
    BY <1>3, Zenon DEF DropAnalysis, DropEmail, DropIndex, DropJobs, history
  <2>3. /\ emails \ {v.email} \subseteq emails'
        /\ \A o \in Emails : o # v.email => analysis'[o] = analysis[o]
    BY <1>3 DEF DropAnalysis, DropEmail, DropIndex, DropJobs, Shape
  <2>4. v.email \notin v.held /\ protected[s] \subseteq v.held
    BY <2>1, Zenon DEF Held
  <2>5. \A o \in protected'[s] : Whole(o)'
    <3>1. ASSUME NEW o \in protected[s]
          PROVE  /\ o \in emails' /\ analysis'[o] # Missing
                 /\ o \in rows' /\ o \in files'
      <4>1. o # v.email
        BY <2>4
      <4>2. Whole(o) /\ o \in Emails
        BY DEF Held, Whole, Shape
      <4> QED
        BY <2>2, <2>3, <4>1, <4>2 DEF Whole
    <3> QED
      BY <2>2, <3>1 DEF Whole
  <2>6. at'[s] \notin {"unlink", "drop row"}
    BY <2>1 DEF Deleting
  <2> QED
    BY <2>1, <2>2, <2>4, <2>5, <2>6, Zenon DEF Held
<1>4. CASE DropAlert(s)
  <2> DEFINE local == [v EXCEPT !.email = Missing]
  <2>0. Go(s, "drop alert", "emails", local) /\ local.held = v.held
    BY <1>4 DEF DropAlert, IsLocal
  <2> HIDE DEF local
  <2>1. at[s] = "drop alert" /\ at'[s] = "emails" /\ my'[s] = local
    BY <2>0, GoApart
  <2>2. UNCHANGED <<emails, analysis, rows, files, protected>>
    BY <1>4, Zenon DEF DropAlert, history
  <2>3. my'[s].held = v.held
    BY <2>0, <2>1
  <2>4. protected[s] \subseteq v.held
    <3>1. at[s] \in Deleting
      BY <2>1 DEF Deleting
    <3> QED
      BY <3>1, Zenon DEF Held
  <2>5. \A o \in protected'[s] : Whole(o)'
    BY <2>2 DEF Held, Whole
  <2> QED
    BY <2>1, <2>2, <2>3, <2>4, <2>5, Zenon DEF Held, Deleting
<1>5. CASE ScanEvidence(s)
  <2>1. at'[s] = "evidence"
    BY <1>5, GoApart DEF ScanEvidence
  <2>2. UNCHANGED <<emails, analysis, rows, files, protected>>
    BY <1>5, Zenon DEF ScanEvidence, data, history
  <2> QED
    BY <2>1, <2>2 DEF Held, Deleting, Whole
<1>6. CASE CheckEvidence(s)
  <2>1. UNCHANGED <<emails, analysis, rows, files, protected>>
    BY <1>6, Zenon DEF CheckEvidence, data, history
  <2>2. PICK x \in v.left :
          IF x \in emails THEN Go(s, "evidence", "evidence", [v EXCEPT !.left = @ \ {x}])
          ELSE Go(s, "evidence", "unlink", [[v EXCEPT !.left = @ \ {x}] EXCEPT !.email = x])
    BY <1>6 DEF CheckEvidence, Referenced
  <2>3. \A o \in protected'[s] : Whole(o)'
    BY <2>1 DEF Held, Whole
  <2>4. CASE x \in emails
    <3>1. at'[s] = "evidence"
      BY <2>2, <2>4, GoApart
    <3> QED
      BY <2>3, <3>1 DEF Held, Deleting
  <2>5. CASE x \notin emails
    <3> DEFINE local == [[v EXCEPT !.left = @ \ {x}] EXCEPT !.email = x]
    <3>1. at'[s] = "unlink" /\ my'[s] = local
      BY <2>2, <2>5, GoApart
    <3>2. local.email = x
      BY DEF IsLocal
    <3> HIDE DEF local
    <3> QED
      BY <2>1, <2>3, <2>5, <3>1, <3>2 DEF Held, Deleting
  <2> QED
    BY <2>4, <2>5
<1>7. CASE Unlink(s)
  <2>1. at[s] = "unlink" /\ at'[s] = "drop row" /\ my'[s] = v
    BY <1>7, GoApart DEF Unlink, Step
  <2>2. UNCHANGED <<emails, analysis, rows, protected>> /\ files' = files \ {v.email}
    BY <1>7, Zenon DEF Unlink, history
  <2>3. v.email \notin emails
    BY <2>1 DEF Held
  <2> QED
    BY <2>1, <2>2, <2>3 DEF Held, Deleting, Whole
<1>8. CASE DropRow(s)
  <2>1. at[s] = "drop row" /\ at'[s] = "evidence"
    BY <1>8, GoApart DEF DropRow
  <2>2. UNCHANGED <<emails, analysis, files, protected>> /\ rows' = rows \ {v.email}
    BY <1>8, Zenon DEF DropRow, history
  <2>3. v.email \notin emails
    BY <2>1 DEF Held
  <2> QED
    BY <2>1, <2>2, <2>3 DEF Held, Deleting, Whole
<1>9. CASE EndSweep(s) \/ SweepLost(s)
  <2>1. at'[s] = "done"
    BY <1>9, GoApart DEF EndSweep, SweepLost, Leave
  <2>2. protected'[s] = {}
    BY <1>9 DEF EndSweep, SweepLost, Shape
  <2> QED
    BY <2>1, <2>2 DEF Held, Deleting
<1> QED
  BY <1>1, <1>2, <1>3, <1>4, <1>5, <1>6, <1>7, <1>8, <1>9 DEF Sweep

\* What a sweep relies on is not disturbed by anyone who spares what is kept.
LEMMA OthersLetHold ==
  ASSUME Shape, NEW s \in Sweepers, Held(s), at'[s] = at[s], my'[s] = my[s], protected' = protected,
         Spares
  PROVE  Held(s)'
<1>1. \A e \in protected'[s] : Whole(e)'
  BY DEF Held, Spares, Whole, Shape
<1> QED
  BY <1>1 DEF Held, Spares, Deleting

----------------------------------------------------------------------------
(* The invariant. *)

NoOverlap == \A s, t \in Sweepers : s = t

InvestigationInv ==
    Shape /\ AnalysisCoherent /\ (NoOverlap => \A s \in Sweepers : Held(s))

LEMMA InvestigationInit == Init => InvestigationInv
<1> SUFFICES ASSUME Init PROVE InvestigationInv
  OBVIOUS
<1>1. DOMAIN at = Actors /\ DOMAIN my = Actors /\ DOMAIN protected = Sweepers
  BY DEF Init
<1>2. \A s \in Sweepers : IsLocal(my[s])
  BY DEF Init, Actors, IsLocal, Blank
<1>3. emails \subseteq Emails /\ runs \in [Emails -> 0..MaxRuns]
  <2>1. 0 \in 0..MaxRuns
    BY ScoresAreNumbers
  <2> QED
    BY <2>1 DEF Init
<1>4. \A e \in Emails : analysis[e] \in {Missing} \cup Analyses
                        /\ (analysis[e] # Missing => analysis[e].basis = analysis[e].run)
  <2> TAKE e \in Emails
  <2>1. 0 \in 0..MaxRuns
    BY ScoresAreNumbers
  <2>2. CASE e \in indexed
    <3>1. summary[e] \in Scores
      BY <2>2 DEF Init
    <3>2. analysis[e] = [run |-> 0, basis |-> 0, score |-> summary[e], version |-> "old"]
      BY <2>2 DEF Init
    <3> QED
      BY <2>1, <3>1, <3>2 DEF Analyses
  <2>3. CASE e \notin indexed
    BY <2>3 DEF Init
  <2> QED
    BY <2>2, <2>3
<1>5. analysis \in [Emails -> {Missing} \cup Analyses]
  <2>1. DOMAIN analysis = Emails /\ analysis = [e \in Emails |-> analysis[e]]
    BY DEF Init
  <2> QED
    BY <1>4, <2>1
<1>6. DOMAIN cases = Cases /\ \A c \in Cases : IsCase(cases[c])
  BY DEF Init, IsCase
<1>7. \A s \in Sweepers : Held(s)
  BY DEF Init, Actors, Held, Deleting
<1> QED
  BY <1>1, <1>2, <1>3, <1>4, <1>5, <1>6, <1>7 DEF InvestigationInv, Shape, AnalysisCoherent

\* Whoever is no sweep keeps the invariant.
LEMMA HarmlessKeeps ==
  ASSUME InvestigationInv, NEW a \in Actors \ Sweepers, Harmless(a)
  PROVE  InvestigationInv'
<1>1. Shape
  BY DEF InvestigationInv
<1>2. \A s \in Sweepers : at'[s] = at[s] /\ my'[s] = my[s]
  BY DEF Harmless, Apart, Actors
<1>3. Shape'
  BY <1>1, <1>2 DEF Shape, Harmless, Apart, Grows, Typed
<1>4. AnalysisCoherent'
  BY DEF InvestigationInv, Harmless, Coherent
<1>5. ASSUME NoOverlap, NEW s \in Sweepers
      PROVE  Held(s)'
  BY <1>1, <1>2, <1>5, OthersLetHold DEF InvestigationInv, Harmless
<1> QED
  BY <1>3, <1>4, <1>5 DEF InvestigationInv, NoOverlap

LEMMA SweepKeeps ==
  ASSUME InvestigationInv, NEW s \in Sweepers, Sweep(s)
  PROVE  InvestigationInv'
<1>1. Shape
  BY DEF InvestigationInv
<1>2. /\ Apart(s) /\ IsLocal(my'[s]) /\ DOMAIN protected' = Sweepers
      /\ cases' = cases /\ Typed /\ Coherent
  BY <1>1, SweepShape
<1>3. \A t \in Sweepers : IsLocal(my'[t])
  BY <1>1, <1>2 DEF Shape, Apart, Actors
<1>4. Shape'
  BY <1>1, <1>2, <1>3 DEF Shape, Apart, Typed
<1>5. AnalysisCoherent'
  BY <1>2 DEF InvestigationInv, Coherent
<1>6. ASSUME NoOverlap, NEW t \in Sweepers
      PROVE  Held(t)'
  BY <1>1, <1>6, SweepHolds DEF InvestigationInv, NoOverlap
<1> QED
  BY <1>4, <1>5, <1>6 DEF InvestigationInv, NoOverlap

LEMMA RequestKeeps ==
  ASSUME InvestigationInv, NEW e \in Emails, Request(e)
  PROVE  InvestigationInv'
<1>1. Shape
  BY DEF InvestigationInv
<1>2. /\ at' = at /\ my' = my /\ protected' = protected
      /\ Spares /\ Grows /\ Typed /\ Coherent
  BY <1>1, RequestStep
<1>3. Shape'
  BY <1>1, <1>2 DEF Shape, Grows, Typed
<1>4. AnalysisCoherent'
  BY <1>2 DEF InvestigationInv, Coherent
<1>5. ASSUME NoOverlap, NEW s \in Sweepers
      PROVE  Held(s)'
  BY <1>1, <1>2, <1>5, OthersLetHold DEF InvestigationInv
<1> QED
  BY <1>3, <1>4, <1>5 DEF InvestigationInv, NoOverlap

LEMMA StutterKeeps ==
  ASSUME InvestigationInv, UNCHANGED <<data, at, my, history>>
  PROVE  InvestigationInv'
  BY DEF InvestigationInv, Shape, AnalysisCoherent, NoOverlap, Held, Whole, Deleting,
     data, history

LEMMA InvestigationStep == InvestigationInv /\ [Next]_vars => InvestigationInv'
<1> SUFFICES ASSUME InvestigationInv, [Next]_vars PROVE InvestigationInv'
  OBVIOUS
<1>1. Shape /\ (Workers \cup Rescorers \cup Analysts) \subseteq Actors \ Sweepers
  BY ActorsAreDistinct DEF InvestigationInv, Actors
<1>2. CASE \E e \in Emails : Request(e)
  BY <1>2, RequestKeeps
<1>3. CASE \E w \in Workers : Work(w)
  BY <1>1, <1>3, WorkStep, HarmlessKeeps
<1>4. CASE \E r \in Rescorers : Rescoring(r)
  BY <1>1, <1>4, RescoringStep, HarmlessKeeps
<1>5. CASE \E a \in Workers \cup Rescorers : Publish(a)
  BY <1>1, <1>5, PublishStep, HarmlessKeeps
<1>6. CASE \E n \in Analysts : Investigate(n)
  BY <1>1, <1>6, InvestigateStep, HarmlessKeeps
<1>7. CASE \E s \in Sweepers : Sweep(s)
  BY <1>7, SweepKeeps
<1>8. CASE UNCHANGED vars
  BY <1>8, StutterKeeps DEF vars
<1> QED
  BY <1>2, <1>3, <1>4, <1>5, <1>6, <1>7, <1>8 DEF Next

----------------------------------------------------------------------------
(* Reports. *)

Snapped == {"originals", "pdf", "json", "mark", "finish", "custody"}
Ended == {"finish", "custody", "fail report", "done"}

\* What the report r has by now.
Made(r) ==
    /\ IsTaken(taken[r]) /\ outputs[r] \subseteq Formats
    /\ at[r] \in Snapped => taken[r].evidence \subseteq taken[r].originals
    /\ at[r] = "json" => "pdf" \in outputs[r]
    /\ at[r] \in {"mark", "finish", "custody"} => outputs[r] = Formats
    /\ at[r] \in {"finish", "custody"} => report[r] = "Completed"
    /\ report[r] = "Completed" =>
        /\ at[r] \in Ended /\ outputs[r] = Formats
        /\ taken[r].evidence \subseteq taken[r].originals
    /\ reportJob[r] = "Completed" =>
        report[r] = "Completed" /\ at[r] \in {"custody", "done"}

\* What became of the emails the report r was asked for.
Covered(r) ==
    /\ taken[r].asked # {} =>
        taken[r].case \in Cases /\ taken[r].asked \subseteq cases[taken[r].case].emails
    /\ \A e \in taken[r].asked : analysis[e] # Missing \/ e \in cut
    /\ at[r] = "analyses" => taken[r].asked \subseteq taken[r].emails
    /\ at[r] \in {"rows"} \cup Snapped =>
        taken[r].asked \subseteq taken[r].analysed \cup cut
    /\ report[r] = "Completed" => taken[r].asked \subseteq taken[r].analysed \cup cut

ReportShape ==
    /\ DOMAIN report = Requests /\ DOMAIN reportJob = Requests
    /\ DOMAIN taken = Requests /\ DOMAIN outputs = Requests

ReportInv ==
    InvestigationInv /\ ReportShape /\ \A r \in Requests : Made(r) /\ Covered(r)

LEMMA ReportInitially == ReportInit => ReportInv
<1> SUFFICES ASSUME ReportInit PROVE ReportInv
  OBVIOUS
<1>1. InvestigationInv /\ ReportShape
  BY InvestigationInit DEF ReportInit, ReportShape
<1>2. ASSUME NEW r \in Requests
      PROVE  Made(r) /\ Covered(r)
  <2>1. at[r] \in {"idle", "done"}
    BY DEF ReportInit, Init, Actors
  <2>2. report[r] # "Completed" /\ reportJob[r] # "Completed" /\ outputs[r] = {}
    BY MissingIsApart DEF ReportInit
  <2>3. taken[r] = Untouched
    BY DEF ReportInit
  <2>4. IsTaken(Untouched) /\ Untouched.asked = {}
    BY DEF Untouched, IsTaken
  <2>5. at[r] \notin {"rows", "analyses", "json", "mark", "finish", "custody"} \cup Snapped
    BY <2>1 DEF Snapped
  <2> QED
    BY <2>2, <2>3, <2>4, <2>5 DEF Made, Covered
<1> QED
  BY <1>1, <1>2 DEF ReportInv

\* The steps of Investigations leave the requests alone, and an analysis that
\* is lost while its email is linked is noted.
LEMMA InvestigationsLetReport ==
  ASSUME ReportInv, Next,
         cut' = cut \cup {e \in LinkedEmails : analysis[e] # Missing /\ analysis'[e] = Missing},
         UNCHANGED reportVars
  PROVE  ReportInv'
<1>1. Shape
  BY DEF ReportInv, InvestigationInv
<1>2. InvestigationInv'
  BY InvestigationStep DEF ReportInv
<1>3. /\ \A r \in Requests : at'[r] = at[r]
      /\ \A c \in Cases : cases[c].emails \subseteq cases'[c].emails
  <2>1. ASSUME NEW a \in Actors \ Requests, Harmless(a)
        PROVE  <1>3!:
    BY <2>1 DEF Harmless, Apart, Grows, Actors
  <2>2. (Workers \cup Rescorers \cup Analysts \cup Sweepers) \subseteq Actors \ Requests
    BY ActorsAreDistinct DEF Actors
  <2>3. CASE \E e \in Emails : Request(e)
    BY <1>1, <2>3, RequestStep DEF Grows
  <2>4. CASE \E w \in Workers : Work(w)
    BY <1>1, <2>1, <2>2, <2>4, WorkStep
  <2>5. CASE \E r \in Rescorers : Rescoring(r)
    BY <1>1, <2>1, <2>2, <2>5, RescoringStep
  <2>6. CASE \E a \in Workers \cup Rescorers : Publish(a)
    BY <1>1, <2>1, <2>2, <2>6, PublishStep
  <2>7. CASE \E n \in Analysts : Investigate(n)
    BY <1>1, <2>1, <2>2, <2>7, InvestigateStep
  <2>8. CASE \E s \in Sweepers : Sweep(s)
    <3>1. PICK s \in Sweepers : Sweep(s)
      BY <2>8
    <3>2. Apart(s) /\ cases' = cases
      BY <1>1, <3>1, SweepShape
    <3> QED
      BY <2>2, <3>2 DEF Apart, Actors
  <2> QED
    BY <2>3, <2>4, <2>5, <2>6, <2>7, <2>8 DEF Next
<1>4. ASSUME NEW r \in Requests
      PROVE  Made(r)' /\ Covered(r)'
  <2>1. Made(r) /\ Covered(r)
    BY DEF ReportInv
  <2>2. /\ report' = report /\ reportJob' = reportJob /\ taken' = taken
        /\ outputs' = outputs /\ at'[r] = at[r]
    BY <1>3 DEF reportVars
  <2>3. Made(r)'
    BY <2>1, <2>2, Zenon DEF Made, Ended, Snapped, Formats, IsTaken
  <2>4. taken[r].asked # {} => taken[r].case \in Cases
                               /\ taken[r].asked \subseteq cases'[taken[r].case].emails
    BY <1>3, <2>1 DEF Covered
  <2>5. ASSUME NEW e \in taken[r].asked
        PROVE  analysis'[e] # Missing \/ e \in cut'
    <3>1. e \in LinkedEmails
      BY <2>1 DEF Covered, LinkedEmails
    <3>2. analysis[e] # Missing \/ e \in cut
      BY <2>1 DEF Covered
    <3> QED
      BY <3>1, <3>2
  <2>6. cut \subseteq cut'
    OBVIOUS
  <2>7. Covered(r)'
    BY <2>1, <2>2, <2>4, <2>5, <2>6 DEF Covered, Snapped
  <2> QED
    BY <2>3, <2>7
<1> QED
  BY <1>2, <1>4 DEF ReportInv, ReportShape, reportVars

----------------------------------------------------------------------------
(* The steps of a request. *)

LEMMA StepMoves ==
  ASSUME Shape, NEW r \in Requests, NEW from, NEW to, Step(r, from, to)
  PROVE  Apart(r) /\ at[r] = from /\ at'[r] = to
<1> r \in Actors
  BY DEF Actors
<1> QED
  BY GoApart DEF Step

\* What the request r stores is its own.
Own(r) ==
    /\ ReportShape'
    /\ \A o \in Requests \ {r} :
        /\ report'[o] = report[o] /\ reportJob'[o] = reportJob[o]
        /\ taken'[o] = taken[o] /\ outputs'[o] = outputs[o]

\* It is enough to look at the request that moves.
LEMMA OneRequestMoves ==
  ASSUME ReportInv, NEW r \in Requests, UNCHANGED <<data, history, cut>>,
         Apart(r) \/ UNCHANGED <<at, my>>, Own(r), Made(r)' /\ Covered(r)'
  PROVE  ReportInv'
<1>1. Shape /\ InvestigationInv
  BY DEF ReportInv, InvestigationInv
<1>2. r \in Actors \ Sweepers
  BY ActorsAreDistinct DEF Actors
<1>3. /\ UNCHANGED <<emails, rows, files, analysis, runs, protected>>
      /\ cases' = cases /\ cut' = cut
  BY DEF data, history
<1>4. InvestigationInv'
  <2>1. CASE Apart(r)
    <3>1. Harmless(r)
      BY <1>1, <1>3, <2>1, NothingStored, NoCaseChanged DEF Harmless
    <3> QED
      BY <1>1, <1>2, <3>1, HarmlessKeeps
  <2>2. CASE UNCHANGED <<at, my>>
    BY <1>1, <2>2, StutterKeeps
  <2> QED
    BY <2>1, <2>2
<1>5. ASSUME NEW o \in Requests \ {r}
      PROVE  Made(o)' /\ Covered(o)'
  <2>1. Made(o) /\ Covered(o)
    BY DEF ReportInv
  <2>2. at'[o] = at[o]
    BY DEF Apart, Actors
  <2>3. /\ report'[o] = report[o] /\ reportJob'[o] = reportJob[o]
        /\ taken'[o] = taken[o] /\ outputs'[o] = outputs[o]
    BY DEF Own
  <2>4. Made(o)'
    BY <2>1, <2>2, <2>3, Zenon DEF Made, Ended, Snapped, Formats, IsTaken
  <2>5. Covered(o)'
    BY <1>3, <2>1, <2>2, <2>3, Zenon DEF Covered, Snapped
  <2> QED
    BY <2>4, <2>5
<1> QED
  BY <1>4, <1>5 DEF ReportInv, Own

\* The request takes what the report is made of.
LEMMA TakesStep ==
  ASSUME ReportInv, NEW r \in Requests, UNCHANGED <<data, history, cut>>,
         NEW from \in {"idle", "case", "analyses", "rows", "originals"}, NEW to, NEW what,
         Takes(r, from, to, what), IsTaken(what),
         to \in {"insert", "analyses", "rows", "originals", "pdf"},
         to \in Snapped => what.evidence \subseteq what.originals,
         what.asked # {} => what.case \in Cases /\ what.asked \subseteq cases[what.case].emails,
         \A e \in what.asked : analysis[e] # Missing \/ e \in cut,
         to = "analyses" => what.asked \subseteq what.emails,
         to \in {"rows"} \cup Snapped => what.asked \subseteq what.analysed \cup cut
  PROVE  ReportInv'
<1>1. Shape /\ ReportShape /\ Made(r)
  BY DEF ReportInv, InvestigationInv
<1>2. /\ Step(r, from, to) /\ taken' = [taken EXCEPT ![r] = what]
      /\ report' = report /\ reportJob' = reportJob /\ outputs' = outputs
  BY DEF Takes
<1>3. Apart(r) /\ at[r] = from /\ at'[r] = to
  BY <1>1, <1>2, StepMoves
<1>4. Own(r) /\ taken'[r] = what
  BY <1>1, <1>2 DEF Own, ReportShape
<1>5. report[r] # "Completed" /\ reportJob[r] # "Completed"
  BY <1>1, <1>3 DEF Made, Ended
<1>6. outputs'[r] \subseteq Formats /\ report'[r] # "Completed" /\ reportJob'[r] # "Completed"
  BY <1>1, <1>2, <1>5 DEF Made
<1>7. at'[r] \notin {"json", "mark", "finish", "custody"}
  BY <1>3
<1>8. Made(r)'
  BY <1>3, <1>4, <1>6, <1>7 DEF Made
<1>9. analysis' = analysis /\ cases' = cases /\ cut' = cut
  BY DEF data
<1>10. Covered(r)'
  BY <1>3, <1>4, <1>6, <1>9 DEF Covered
<1> QED
  BY <1>3, <1>4, <1>8, <1>10, OneRequestMoves

LEMMA TakingSteps ==
  ASSUME ReportInv, NEW r \in Requests, UNCHANGED <<data, history, cut>>,
         \/ \E c \in Cases : AskReport(r, c)
         \/ TakeCase(r) \/ TakeAnalyses(r) \/ TakeRows(r) \/ TakeOriginals(r)
  PROVE  ReportInv'
<1> DEFINE t == taken[r]
<1>1. Shape /\ Made(r) /\ Covered(r) /\ IsTaken(t)
  BY DEF ReportInv, InvestigationInv, Made
<1>2. CASE \E c \in Cases : AskReport(r, c)
  <2>1. PICK c \in Cases : AskReport(r, c)
    BY <1>2
  <2> DEFINE what == [Untouched EXCEPT !.case = c, !.asked = cases[c].emails]
  <2>2. /\ IsTaken(what) /\ what.case = c /\ what.asked = cases[c].emails
    BY DEF Untouched, IsTaken
  <2>3. Takes(r, "idle", "insert", what) /\ \A e \in cases[c].emails : analysis[e] # Missing
    BY <2>1 DEF AskReport, Reportable
  <2> HIDE DEF what
  <2> QED
    BY <2>2, <2>3, TakesStep DEF Snapped
<1>3. CASE TakeCase(r)
  <2> DEFINE case == cases[t.case]
             what == [t EXCEPT !.emails = case.emails, !.evidence = case.evidence]
  <2>1. Takes(r, "case", "analyses", what)
    BY <1>3 DEF TakeCase
  <2>2. /\ IsTaken(what) /\ what.case = t.case /\ what.asked = t.asked
        /\ what.emails = case.emails
    BY <1>1 DEF IsTaken
  <2> HIDE DEF what
  <2> QED
    BY <1>1, <2>1, <2>2, TakesStep DEF Covered, Snapped
<1>4. CASE TakeAnalyses(r)
  <2> DEFINE found == {e \in t.emails : analysis[e] # Missing}
             what == [t EXCEPT !.analysed = found, !.evidence = @ \cup found]
  <2>1. Takes(r, "analyses", "rows", what)
    BY <1>4 DEF TakeAnalyses
  <2>2. /\ IsTaken(what) /\ what.case = t.case /\ what.asked = t.asked
        /\ what.analysed = found
    BY <1>1 DEF IsTaken
  <2>3. at[r] = "analyses"
    BY <1>1, <2>1, StepMoves DEF Takes
  <2>4. t.asked \subseteq found \cup cut
    BY <1>1, <2>3 DEF Covered
  <2> HIDE DEF what
  <2> QED
    BY <1>1, <2>1, <2>2, <2>4, TakesStep DEF Covered, Snapped
<1>5. CASE TakeRows(r)
  <2> DEFINE what == [t EXCEPT !.originals = t.evidence \cap rows]
  <2>1. Takes(r, "rows", "originals", what) /\ t.evidence \subseteq rows
    BY <1>5 DEF TakeRows, PreservedAll
  <2>2. /\ IsTaken(what) /\ what.case = t.case /\ what.asked = t.asked
        /\ what.analysed = t.analysed /\ what.evidence = t.evidence
        /\ what.originals = t.evidence \cap rows
    BY <1>1 DEF IsTaken
  <2>3. at[r] = "rows"
    BY <1>1, <2>1, StepMoves DEF Takes
  <2>4. t.asked \subseteq t.analysed \cup cut
    BY <1>1, <2>3 DEF Covered
  <2> HIDE DEF what
  <2> QED
    BY <1>1, <2>1, <2>2, <2>4, TakesStep DEF Covered
<1>6. CASE TakeOriginals(r)
  <2>1. Takes(r, "originals", "pdf", t)
    BY <1>6 DEF TakeOriginals
  <2>2. at[r] = "originals"
    BY <1>1, <2>1, StepMoves DEF Takes
  <2>3. t.asked \subseteq t.analysed \cup cut /\ t.evidence \subseteq t.originals
    BY <1>1, <2>2 DEF Covered, Made, Snapped
  <2> QED
    BY <1>1, <2>1, <2>3, TakesStep DEF Covered
<1> QED
  BY <1>2, <1>3, <1>4, <1>5, <1>6

\* What the report covers is settled once the analyses are taken.
LEMMA NothingTaken ==
  ASSUME ReportInv, NEW r \in Requests, UNCHANGED <<data, history, cut>>,
         Apart(r) \/ UNCHANGED <<at, my>>, Own(r), taken' = taken, Made(r)',
         at'[r] # "analyses" \/ at'[r] = at[r],
         at'[r] \in {"rows"} \cup Snapped => at[r] \in Snapped \/ at'[r] = at[r],
         report'[r] = "Completed" => report[r] = "Completed" \/ at[r] \in Snapped
  PROVE  ReportInv'
<1>1. Covered(r)
  BY DEF ReportInv
<1>2. analysis' = analysis /\ cases' = cases /\ cut' = cut
  BY DEF data
<1>3. at'[r] = "analyses" => taken[r].asked \subseteq taken[r].emails
  BY <1>1 DEF Covered
<1>4. at'[r] \in {"rows"} \cup Snapped =>
        taken[r].asked \subseteq taken[r].analysed \cup cut
  BY <1>1 DEF Covered
<1>5. report'[r] = "Completed" => taken[r].asked \subseteq taken[r].analysed \cup cut
  BY <1>1 DEF Covered
<1>6. Covered(r)'
  BY <1>1, <1>2, <1>3, <1>4, <1>5, Zenon DEF Covered, Snapped
<1> QED
  BY <1>6, OneRequestMoves

LEMMA InsertReportStep ==
  ASSUME ReportInv, NEW r \in Requests, UNCHANGED <<data, history, cut>>, InsertReport(r)
  PROVE  ReportInv'
<1>1. Shape /\ ReportShape /\ Made(r)
  BY DEF ReportInv, InvestigationInv
<1>2. /\ Step(r, "insert", "insert job") /\ report' = [report EXCEPT ![r] = "Uploaded"]
      /\ reportJob' = reportJob /\ taken' = taken /\ outputs' = outputs
  BY DEF InsertReport
<1>3. Apart(r) /\ at[r] = "insert" /\ at'[r] = "insert job"
  BY <1>1, <1>2, StepMoves
<1>4. Own(r) /\ report'[r] = "Uploaded"
  BY <1>1, <1>2 DEF Own, ReportShape
<1>5. Made(r)'
  BY <1>1, <1>2, <1>3, <1>4 DEF Made, Snapped, Ended, IsTaken, Formats
<1> QED
  BY <1>2, <1>3, <1>4, <1>5, NothingTaken DEF Snapped

LEMMA InsertJobStep ==
  ASSUME ReportInv, NEW r \in Requests, UNCHANGED <<data, history, cut>>, InsertJob(r)
  PROVE  ReportInv'
<1>1. Shape /\ ReportShape /\ Made(r)
  BY DEF ReportInv, InvestigationInv
<1>2. /\ Step(r, "insert job", "queued") /\ reportJob' = [reportJob EXCEPT ![r] = "Uploaded"]
      /\ report' = report /\ taken' = taken /\ outputs' = outputs
  BY DEF InsertJob
<1>3. Apart(r) /\ at[r] = "insert job" /\ at'[r] = "queued"
  BY <1>1, <1>2, StepMoves
<1>4. Own(r) /\ reportJob'[r] = "Uploaded"
  BY <1>1, <1>2 DEF Own, ReportShape
<1>5. Made(r)'
  BY <1>1, <1>2, <1>3, <1>4 DEF Made, Snapped, Ended, IsTaken, Formats
<1> QED
  BY <1>2, <1>3, <1>4, <1>5, NothingTaken DEF Snapped

LEMMA ClaimReportStep ==
  ASSUME ReportInv, NEW r \in Requests, UNCHANGED <<data, history, cut>>, ClaimReport(r)
  PROVE  ReportInv'
<1>1. Shape /\ ReportShape /\ Made(r)
  BY DEF ReportInv, InvestigationInv
<1>2. /\ Step(r, "queued", "case") /\ reportJob' = [reportJob EXCEPT ![r] = "Claimed"]
      /\ report' = report /\ taken' = taken /\ outputs' = outputs
  BY DEF ClaimReport
<1>3. Apart(r) /\ at[r] = "queued" /\ at'[r] = "case"
  BY <1>1, <1>2, StepMoves
<1>4. Own(r) /\ reportJob'[r] = "Claimed"
  BY <1>1, <1>2 DEF Own, ReportShape
<1>5. Made(r)'
  BY <1>1, <1>2, <1>3, <1>4 DEF Made, Snapped, Ended, IsTaken, Formats
<1> QED
  BY <1>2, <1>3, <1>4, <1>5, NothingTaken DEF Snapped

LEMMA WritePdfStep ==
  ASSUME ReportInv, NEW r \in Requests, UNCHANGED <<data, history, cut>>, Write(r, "pdf", "json")
  PROVE  ReportInv'
<1>1. Shape /\ ReportShape /\ Made(r)
  BY DEF ReportInv, InvestigationInv
<1>2. /\ Step(r, "pdf", "json") /\ outputs' = [outputs EXCEPT ![r] = @ \cup {"pdf"}]
      /\ report' = report /\ reportJob' = reportJob /\ taken' = taken
  BY DEF Write
<1>3. Apart(r) /\ at[r] = "pdf" /\ at'[r] = "json"
  BY <1>1, <1>2, StepMoves
<1>4. Own(r) /\ outputs'[r] = outputs[r] \cup {"pdf"}
  BY <1>1, <1>2 DEF Own, ReportShape
<1>5. Made(r)'
  BY <1>1, <1>2, <1>3, <1>4 DEF Made, Snapped, Ended, IsTaken, Formats
<1> QED
  BY <1>2, <1>3, <1>4, <1>5, NothingTaken DEF Snapped

LEMMA WriteJsonStep ==
  ASSUME ReportInv, NEW r \in Requests, UNCHANGED <<data, history, cut>>, Write(r, "json", "mark")
  PROVE  ReportInv'
<1>1. Shape /\ ReportShape /\ Made(r)
  BY DEF ReportInv, InvestigationInv
<1>2. /\ Step(r, "json", "mark") /\ outputs' = [outputs EXCEPT ![r] = @ \cup {"json"}]
      /\ report' = report /\ reportJob' = reportJob /\ taken' = taken
  BY DEF Write
<1>3. Apart(r) /\ at[r] = "json" /\ at'[r] = "mark"
  BY <1>1, <1>2, StepMoves
<1>4. Own(r) /\ outputs'[r] = outputs[r] \cup {"json"}
  BY <1>1, <1>2 DEF Own, ReportShape
<1>5. Made(r)'
  BY <1>1, <1>2, <1>3, <1>4 DEF Made, Snapped, Ended, IsTaken, Formats
<1> QED
  BY <1>2, <1>3, <1>4, <1>5, NothingTaken DEF Snapped

LEMMA MarkReportStep ==
  ASSUME ReportInv, NEW r \in Requests, UNCHANGED <<data, history, cut>>, MarkReport(r)
  PROVE  ReportInv'
<1>1. Shape /\ ReportShape /\ Made(r)
  BY DEF ReportInv, InvestigationInv
<1>2. /\ Step(r, "mark", "finish") /\ report' = [report EXCEPT ![r] = "Completed"]
      /\ reportJob' = reportJob /\ taken' = taken /\ outputs' = outputs
  BY DEF MarkReport
<1>3. Apart(r) /\ at[r] = "mark" /\ at'[r] = "finish"
  BY <1>1, <1>2, StepMoves
<1>4. Own(r) /\ report'[r] = "Completed"
  BY <1>1, <1>2 DEF Own, ReportShape
<1>5. Made(r)'
  BY <1>1, <1>2, <1>3, <1>4 DEF Made, Snapped, Ended, IsTaken, Formats
<1> QED
  BY <1>2, <1>3, <1>4, <1>5, NothingTaken DEF Snapped

LEMMA FinishJobStep ==
  ASSUME ReportInv, NEW r \in Requests, UNCHANGED <<data, history, cut>>, FinishJob(r)
  PROVE  ReportInv'
<1>1. Shape /\ ReportShape /\ Made(r)
  BY DEF ReportInv, InvestigationInv
<1>2. /\ Step(r, "finish", "custody") /\ reportJob' = [reportJob EXCEPT ![r] = "Completed"]
      /\ report' = report /\ taken' = taken /\ outputs' = outputs
  BY DEF FinishJob
<1>3. Apart(r) /\ at[r] = "finish" /\ at'[r] = "custody"
  BY <1>1, <1>2, StepMoves
<1>4. Own(r) /\ reportJob'[r] = "Completed"
  BY <1>1, <1>2 DEF Own, ReportShape
<1>5. Made(r)'
  BY <1>1, <1>2, <1>3, <1>4 DEF Made, Snapped, Ended, IsTaken, Formats
<1> QED
  BY <1>2, <1>3, <1>4, <1>5, NothingTaken DEF Snapped

LEMMA CustodyStep ==
  ASSUME ReportInv, NEW r \in Requests, UNCHANGED <<data, history, cut>>, Custody(r)
  PROVE  ReportInv'
<1>1. Shape /\ ReportShape /\ Made(r)
  BY DEF ReportInv, InvestigationInv
<1>2. /\ Step(r, "custody", "done") /\ reportJob' = reportJob
      /\ report' = report /\ taken' = taken /\ outputs' = outputs
  BY DEF Custody
<1>3. Apart(r) /\ at[r] = "custody" /\ at'[r] = "done"
  BY <1>1, <1>2, StepMoves
<1>4. Own(r) 
  BY <1>1, <1>2 DEF Own, ReportShape
<1>5. Made(r)'
  BY <1>1, <1>2, <1>3, <1>4 DEF Made, Snapped, Ended, IsTaken, Formats
<1> QED
  BY <1>2, <1>3, <1>4, <1>5, NothingTaken DEF Snapped

LEMMA FailJobStep ==
  ASSUME ReportInv, NEW r \in Requests, UNCHANGED <<data, history, cut>>, FailJob(r)
  PROVE  ReportInv'
<1>1. Shape /\ ReportShape /\ Made(r)
  BY DEF ReportInv, InvestigationInv
<1>2. /\ Step(r, at[r], "fail report") /\ reportJob' = [reportJob EXCEPT ![r] = "Failed"]
      /\ report' = report /\ taken' = taken /\ outputs' = outputs
  BY DEF FailJob
<1>3. Apart(r) /\ at'[r] = "fail report"
  BY <1>1, <1>2, StepMoves
<1>4. Own(r) /\ reportJob'[r] = "Failed"
  BY <1>1, <1>2 DEF Own, ReportShape
<1>5. Made(r)'
  BY <1>1, <1>2, <1>3, <1>4 DEF Made, Snapped, Ended, IsTaken, Formats
<1> QED
  BY <1>2, <1>3, <1>4, <1>5, NothingTaken DEF Snapped

LEMMA FailReportStep ==
  ASSUME ReportInv, NEW r \in Requests, UNCHANGED <<data, history, cut>>, FailReport(r)
  PROVE  ReportInv'
<1>1. Shape /\ ReportShape /\ Made(r)
  BY DEF ReportInv, InvestigationInv
<1>2. /\ Step(r, "fail report", "done") /\ report' = [report EXCEPT ![r] = "Failed"]
      /\ reportJob' = reportJob /\ taken' = taken /\ outputs' = outputs
  BY DEF FailReport
<1>3. Apart(r) /\ at[r] = "fail report" /\ at'[r] = "done"
  BY <1>1, <1>2, StepMoves
<1>4. Own(r) /\ report'[r] = "Failed"
  BY <1>1, <1>2 DEF Own, ReportShape
<1>5. Made(r)'
  BY <1>1, <1>2, <1>3, <1>4 DEF Made, Snapped, Ended, IsTaken, Formats
<1> QED
  BY <1>2, <1>3, <1>4, <1>5, NothingTaken DEF Snapped

LEMMA ReportLostStep ==
  ASSUME ReportInv, NEW r \in Requests, UNCHANGED <<data, history, cut>>, ReportLost(r)
  PROVE  ReportInv'
<1>1. Shape /\ ReportShape /\ Made(r)
  BY DEF ReportInv, InvestigationInv
<1>2. /\ Step(r, at[r], "done") /\ reportJob' = reportJob
      /\ report' = report /\ taken' = taken /\ outputs' = outputs
  BY DEF ReportLost
<1>3. Apart(r) /\ at'[r] = "done"
  BY <1>1, <1>2, StepMoves
<1>4. Own(r) 
  BY <1>1, <1>2 DEF Own, ReportShape
<1>5. Made(r)'
  BY <1>1, <1>2, <1>3, <1>4 DEF Made, Snapped, Ended, IsTaken, Formats
<1> QED
  BY <1>2, <1>3, <1>4, <1>5, NothingTaken DEF Snapped

LEMMA ExpireReportStep ==
  ASSUME ReportInv, NEW r \in Requests, UNCHANGED <<data, history, cut>>, ExpireReport(r)
  PROVE  ReportInv'
<1>1. ReportShape /\ Made(r)
  BY DEF ReportInv
<1>2. /\ reportJob' = [reportJob EXCEPT ![r] = "Failed"]
      /\ UNCHANGED <<at, my>> /\ at' = at /\ report' = report /\ taken' = taken
      /\ outputs' = outputs
  BY DEF ExpireReport
<1>3. Own(r) /\ reportJob'[r] = "Failed"
  BY <1>1, <1>2 DEF Own, ReportShape
<1>4. Made(r)'
  BY <1>1, <1>2, <1>3 DEF Made, Snapped, Ended, IsTaken, Formats
<1> QED
  BY <1>2, <1>3, <1>4, NothingTaken

LEMMA FailExpiredStep ==
  ASSUME ReportInv, NEW r \in Requests, UNCHANGED <<data, history, cut>>, FailExpired(r)
  PROVE  ReportInv'
<1>1. ReportShape /\ Made(r)
  BY DEF ReportInv
<1>2. /\ report' = [report EXCEPT ![r] = Expired(@)]
      /\ UNCHANGED <<at, my>> /\ at' = at /\ reportJob' = reportJob /\ taken' = taken
      /\ outputs' = outputs
  BY DEF FailExpired
<1>3. Own(r) /\ (report'[r] = "Completed" <=> report[r] = "Completed")
  BY <1>1, <1>2 DEF Own, ReportShape, Expired
<1>4. Made(r)'
  BY <1>1, <1>2, <1>3 DEF Made, Snapped, Ended, IsTaken, Formats
<1> QED
  BY <1>2, <1>3, <1>4, NothingTaken

LEMMA ReportStep == ReportInv /\ [ReportNext]_allVars => ReportInv'
<1> SUFFICES ASSUME ReportInv, [ReportNext]_allVars PROVE ReportInv'
  OBVIOUS
<1>1. CASE /\ Next
           /\ cut' = cut \cup {e \in LinkedEmails : analysis[e] # Missing /\ analysis'[e] = Missing}
           /\ UNCHANGED reportVars
  BY <1>1, InvestigationsLetReport
<1>2. ASSUME NEW r \in Requests, Reporting(r), UNCHANGED <<data, history, cut>>
      PROVE  ReportInv'
  BY <1>2, TakingSteps, InsertReportStep, InsertJobStep, ClaimReportStep, WritePdfStep,
     WriteJsonStep, MarkReportStep, FinishJobStep, CustodyStep, FailJobStep, FailReportStep,
     ReportLostStep, ExpireReportStep, FailExpiredStep DEF Reporting
<1>3. CASE UNCHANGED allVars
  <2>1. InvestigationInv'
    BY <1>3, StutterKeeps DEF allVars, vars, ReportInv
  <2>2. ReportShape'
    BY <1>3 DEF ReportInv, ReportShape, allVars, reportVars
  <2>3. ASSUME NEW r \in Requests
        PROVE  Made(r)' /\ Covered(r)'
    <3>1. Made(r) /\ Covered(r)
      BY DEF ReportInv
    <3>2. UNCHANGED <<at, analysis, cases, report, reportJob, taken, outputs, cut>>
      BY <1>3 DEF allVars, vars, data, reportVars
    <3> QED
      BY <3>1, <3>2 DEF Made, Covered, Snapped, Ended, IsTaken, Formats
  <2> QED
    BY <2>1, <2>2, <2>3 DEF ReportInv
<1> QED
  BY <1>1, <1>2, <1>3 DEF ReportNext

LEMMA ReportInvariant == ReportSpec => []ReportInv
<1> QED
  BY ReportInitially, ReportStep, PTL DEF ReportSpec

----------------------------------------------------------------------------

\* What was linked and whole when a sweep began is whole until that sweep ends
\* (retention.py:10-22), provided that sweeps do not overlap: one that began
\* before the email was linked does not hold it.
THEOREM LinkedEmailsSurvive == NoOverlap => (ReportSpec => []HeldSurvives)
<1>1. ReportInv => (NoOverlap => HeldSurvives)
  BY DEF ReportInv, InvestigationInv, Held, HeldSurvives
<1> SUFFICES ASSUME NoOverlap PROVE ReportSpec => []HeldSurvives
  OBVIOUS
<1>2. ReportInv => HeldSurvives
  BY <1>1
<1> QED
  BY <1>2, ReportInvariant, PTL

\* A stored analysis is never scored from findings it does not hold, however
\* workers and rescorings interleave (pipeline.py:282, rescore.py:32-34).
THEOREM AnalysesCohere == ReportSpec => []AnalysisCoherent
<1>1. ReportInv => AnalysisCoherent
  BY DEF ReportInv, InvestigationInv
<1> QED
  BY <1>1, ReportInvariant, PTL

\* A completed report has both outputs and every original of its evidence
\* (report_generator.py:19-28).
THEOREM CompletedReportsAreWhole == ReportSpec => []CompletedReportIsWhole
<1>1. ReportInv => CompletedReportIsWhole
  BY DEF ReportInv, Made, CompletedReportIsWhole
<1> QED
  BY <1>1, ReportInvariant, PTL

\* No email of the case is left out of its completed report, unless a sweep took
\* its analysis (reports.py:15, report_generator.py:16).
THEOREM ReportsCoverTheirRequest == ReportSpec => []ReportCoversRequest
<1>1. ReportInv => ReportCoversRequest
  BY DEF ReportInv, Covered, ReportCoversRequest
<1> QED
  BY <1>1, ReportInvariant, PTL

\* The job of a report completes only with the report (pipeline.py:305-306), and
\* a late expiry does not undo that (pipeline.py:208-217).
THEOREM JobsCompleteWithReports == ReportSpec => []JobCompletesWithReport
<1>1. ReportInv => JobCompletesWithReport
  BY DEF ReportInv, Made, JobCompletesWithReport
<1> QED
  BY <1>1, ReportInvariant, PTL
=============================================================================
