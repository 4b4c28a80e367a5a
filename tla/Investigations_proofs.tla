------------------------- MODULE Investigations_proofs -------------------------
(***************************************************************************)
(* What an email's row, alert and cases show agrees with its analysis when *)
(* nobody works, a deleted email leaves nothing behind, and only analysts  *)
(* change the status of an alert: for every number of emails, cases and    *)
(* actors, as long as no two actors that write scores overlap (for the     *)
(* first) or meet a deletion (for the second).                             *)
(*                                                                         *)
(* The argument for the views: whoever writes scores is alone, so each of  *)
(* its steps knows which views it has brought up to date so far; sweeps,   *)
(* requests and whoever writes no scores only make emails unsettled. A job *)
(* that is under way keeps its email unsettled until all views are done; a *)
(* rescoring does not, and is the one exception while it works. The        *)
(* argument for deletions: nobody starts on, or is at work on, an email    *)
(* that is being deleted without being noted in "torn".                    *)
(***************************************************************************)
EXTENDS Reports_proofs, WellFoundedInduction

----------------------------------------------------------------------------
(* Types. *)

\* What FindCases() reads of a case.
CaseReads == [case : Cases, emails : SUBSET Emails]

Locals == [email : Emails \cup {Missing}, case : Cases \cup {Missing},
           score : Scores \cup {0}, seen : {Missing} \cup Scores \cup Analyses,
           left : SUBSET (Emails \cup CaseReads), held : SUBSET Emails]

\* Steps, by the local variables they use.
Scored == {"summary", "cases", "each case", "write case", "index", "refresh", "raise",
           "complete"}
OnCase == {"attach", "link", "link evidence", "assign alert", "list evidence",
           "mark evidence"}
Erasing == Deleting \cup {"unlink", "drop row"}
OnEmail == {"read", "store", "check", "rescore"} \cup Scored \cup OnCase \cup Erasing

StepTyped(step, v) ==
    /\ v \in Locals
    /\ step \in OnEmail => v.email \in Emails
    /\ step \in OnCase \cup {"write case"} => v.case \in Cases
    /\ step \in Scored => v.score \in Scores
    /\ step \in {"check", "rescore"} => v.seen \in Analyses
    /\ step = "link" => v.seen \in {Missing} \cup Analyses
    /\ step = "write case" => v.seen \in Scores
    /\ step \in {"each case", "write case"} => v.left \subseteq CaseReads
    /\ step \in {"campaign", "emails", "evidence"} \cup Erasing => v.left \subseteq Emails

TypeInv ==
    /\ TypeOK /\ protected \in [Sweepers -> SUBSET Emails]
    /\ DOMAIN at = Actors /\ DOMAIN my = Actors
    /\ \A a \in Actors : StepTyped(at[a], my[a])

----------------------------------------------------------------------------
(* Deletions. *)

Clean(e) == /\ analysis[e] = Missing /\ e \notin indexed
            /\ alert[e] = Missing /\ job[e] = "Gone"

\* What is gone by each step of a deletion.
Erased(s) ==
    LET e == my[s].email IN
    at[s] \in Deleting /\ e \notin torn =>
        /\ at[s] # "drop analysis" => analysis[e] = Missing
        /\ at[s] \in {"drop jobs", "drop alert"} => e \notin indexed
        /\ at[s] = "drop alert" => job[e] = "Gone"
RowDropped(s) == at[s] \in {"drop index", "drop jobs", "drop alert"} => my[s].email \notin emails

\* Whoever may write to an email that is whole works on one nobody deletes.
Outside(a) ==
    Busy(a) /\ my[a].email \notin torn => my[a].email \in emails \ BeingDeleted

\* The job of a busy worker is its own, until a sweep deletes it.
OwnJob(w) ==
    Busy(w) => /\ job[my[w].email] \in {"Running", "Gone"}
               /\ \A x \in Workers : Busy(x) /\ my[x].email = my[w].email => x = w

DeletionInv ==
    /\ NoOrphans
    /\ \A s \in Sweepers : Erased(s) /\ RowDropped(s)
    /\ \A a \in Workers \cup Rescorers : Outside(a)
    /\ \A w \in Workers : OwnJob(w)
    /\ \A e \in emails : job[e] # "Gone"

----------------------------------------------------------------------------
(* Views. *)

\* The steps at which an actor holds something it writes to a view later.
WritingSteps == {"read", "store", "check", "rescore", "attach", "link"} \cup Scored
Writing(a) == at[a] \in WritingSteps
OneWriter == \A a, b \in Scorers : Writing(a) /\ Writing(b) => a = b

EmailAgrees(e) ==
    /\ summary[e] = analysis[e].score
    /\ alert[e] # Missing => alert[e].score = analysis[e].score
    /\ analysis[e].score >= AlertThreshold => alert[e] # Missing

AllAnalysed(c) == \A e \in cases[c].emails : analysis[e] # Missing
CaseAgrees(c) ==
    cases[c].emails # {} /\ AllAnalysed(c) =>
        /\ cases[c].score = HighestOf(cases[c].emails)
        /\ cases[c].severity = cases[c].score

CaseSettled(c) == \A e \in cases[c].emails : Settled(e)

\* The emails that a rescoring has written a new score for, and whose views it has
\* not finished; and those whose cases it has not finished.
Rescored == {my[r].email : r \in {x \in Rescorers : at[x] \in {"summary", "refresh", "raise"}}}
Recounted == {my[r].email : r \in {x \in Rescorers : at[x] \in Scored}}

EmailsAgree == \A e \in Emails \ Rescored : Settled(e) => EmailAgrees(e)
CasesAgree ==
    \A c \in Cases : CaseSettled(c) /\ cases[c].emails \cap Recounted = {} => CaseAgrees(c)
EmptyCases == \A c \in Cases : cases[c].emails = {} => cases[c].score = 0 /\ cases[c].severity = 0

\* The views of its email that a worker, or a rescoring, has brought up to date.
AfterRefresh(a) == IF a \in Workers THEN {"raise", "complete"}
                   ELSE {"raise", "cases", "each case", "write case"}
AfterRaise(a) == IF a \in Workers THEN {"complete"} ELSE {"cases", "each case", "write case"}
CasesOf(a) == {c \in Cases : my[a].email \in cases[c].emails}
ToDo(a) == {x.case : x \in my[a].left}
             \cup (IF at[a] = "write case" THEN {my[a].case} ELSE {})

ScoreStands(a) ==
    at[a] \in Scored /\ analysis[my[a].email] # Missing
        => analysis[my[a].email].score = my[a].score
SummaryShows(a) ==
    LET e == my[a].email IN
    at[a] \in Scored \ {"summary"} /\ e \in emails /\ (a \in Workers \/ job[e] = "Completed")
        => summary[e] = my[a].score
AlertShows(a) ==
    at[a] \in AfterRefresh(a) /\ alert[my[a].email] # Missing
        => alert[my[a].email].score = my[a].score
AlertRaised(a) ==
    at[a] \in AfterRaise(a) /\ my[a].email \in emails /\ my[a].score >= AlertThreshold
        => alert[my[a].email] # Missing
CasesRead(a) ==
    at[a] \in {"each case", "write case"} =>
        /\ \A x \in my[a].left : x.emails = cases[x.case].emails
        /\ \A c \in CasesOf(a) \ ToDo(a) : CaseAgrees(c)
HighestRead(a) ==
    LET c == my[a].case IN
    at[a] = "write case" =>
        cases[c].emails # {} /\ (AllAnalysed(c) => my[a].seen = HighestOf(cases[c].emails))
CasesDone(a) ==
    at[a] \in {"index", "refresh", "raise", "complete"} /\ a \in Workers
        => \A c \in CasesOf(a) : CaseAgrees(c)

Published(a) ==
    /\ ScoreStands(a) /\ SummaryShows(a) /\ AlertShows(a) /\ AlertRaised(a)
    /\ CasesRead(a) /\ HighestRead(a) /\ CasesDone(a)

\* What an analyst has read for a link is still so.
ReadWell(n) ==
    /\ at[n] \in {"attach", "link"} => my[n].score = cases[my[n].case].score
    /\ at[n] = "link" => LET now == analysis[my[n].email] IN
         now # Missing => my[n].seen # Missing /\ my[n].seen.score = now.score

Agreement ==
    /\ OneWriter /\ EmailsAgree /\ CasesAgree /\ EmptyCases
    /\ \A a \in Workers \cup Rescorers : Published(a)
    /\ \A n \in Analysts : ReadWell(n)

ViewsInv == ~clash => Agreement

----------------------------------------------------------------------------
(* Greatest elements. *)

LEMMA LeastNatural ==
  ASSUME NEW T \in SUBSET Nat, T # {}
  PROVE  \E m \in T : \A n \in T : m <= n
<1> DEFINE R == {ss \in Nat \X Nat : ss[1] < ss[2]}
<1>1. IsWellFoundedOn(R, Nat)
  BY NatLessThanWellFounded, Zenon DEF OpToRel
<1> HIDE DEF R
<1>2. PICK m \in T : \A n \in T : <<n, m>> \notin R
  BY <1>1, WFMin, Zenon
<1>3. \A n \in T : ~(n < m)
  BY <1>2 DEF R
<1> QED
  BY <1>3

\* What Newest() chooses among scores.
LEMMA NewestIsGreatest ==
  ASSUME NEW S \in SUBSET Scores, S # {}
  PROVE  Newest(S) \in S /\ \A y \in S : y <= Newest(S)
<1>1. S \subseteq 1..100
  BY ScoresAreNumbers
<1> DEFINE T == {100 - x : x \in S}
<1>2. T \in SUBSET Nat /\ T # {}
  <2>1. \A x \in S : x \in Int /\ x <= 100
    BY <1>1
  <2>2. \A x \in S : 100 - x \in Nat
    BY <2>1
  <2> QED
    BY <2>2
<1>3. PICK m \in T : \A n \in T : m <= n
  BY <1>2, LeastNatural
<1>4. PICK x \in S : m = 100 - x
  BY <1>3
<1>5. \A y \in S : y <= x
  <2> TAKE y \in S
  <2>1. 100 - y \in T
    OBVIOUS
  <2>2. 100 - x <= 100 - y
    BY <1>3, <1>4, <2>1
  <2> QED
    BY <1>1, <2>2
<1> QED
  BY <1>5 DEF Newest

LEMMA NewestIsUnique ==
  ASSUME NEW S \in SUBSET Scores, NEW x \in S, \A y \in S : y <= x
  PROVE  Newest(S) = x
<1>1. Newest(S) \in S /\ \A y \in S : y <= Newest(S)
  BY NewestIsGreatest
<1>2. \A y \in S : y \in Int
  BY ScoresAreNumbers
<1>3. \A y, z \in S : y <= z /\ z <= y => y = z
  BY <1>2
<1> QED
  BY <1>1, <1>3, Zenon

----------------------------------------------------------------------------
(* Type correctness. *)

LEMMA BlankTyped == StepTyped("done", Blank) /\ StepTyped("idle", Blank)
<1>1. Blank \in Locals
  BY DEF Blank, Locals
<1>2. \A step \in {"done", "idle"} :
        step \notin OnEmail \cup OnCase \cup Scored \cup Erasing
  BY DEF OnEmail, OnCase, Scored, Erasing, Deleting
<1> QED
  BY <1>1, <1>2 DEF StepTyped

\* A step of an actor that leaves it well typed leaves all of them so.
LEMMA GoTyped ==
  ASSUME TypeInv, NEW a \in Actors, NEW from, NEW to, NEW local,
         Go(a, from, to, local), StepTyped(to, local)
  PROVE  /\ DOMAIN at' = Actors /\ DOMAIN my' = Actors
         /\ \A b \in Actors : StepTyped(at'[b], my'[b])
<1>1. \A b \in Actors : \/ b # a /\ at'[b] = at[b] /\ my'[b] = my[b]
                        \/ b = a /\ at'[b] = to /\ my'[b] = local
  BY DEF TypeInv, Go
<1>2. \A b \in Actors : StepTyped(at[b], my[b])
  BY DEF TypeInv
<1> QED
  BY <1>1, <1>2, Zenon DEF TypeInv, Go

\* The steps that go on with the same local variables.
LEMMA StepsTyped ==
  ASSUME NEW v
  PROVE  /\ StepTyped("read", v) => StepTyped("store", v)
         /\ StepTyped("summary", v) => StepTyped("cases", v) /\ StepTyped("refresh", v)
         /\ StepTyped("each case", v) => StepTyped("index", v)
         /\ StepTyped("index", v) => StepTyped("refresh", v)
         /\ StepTyped("refresh", v) => StepTyped("raise", v)
         /\ StepTyped("raise", v) => StepTyped("complete", v) /\ StepTyped("cases", v)
         /\ StepTyped("check", v) => StepTyped("rescore", v)
         /\ StepTyped("link", v) => StepTyped("link evidence", v)
         /\ StepTyped("link evidence", v) => StepTyped("assign alert", v)
         /\ StepTyped("list evidence", v) => StepTyped("mark evidence", v)
         /\ StepTyped("drop analysis", v) => StepTyped("drop email", v)
         /\ StepTyped("drop email", v) => StepTyped("drop index", v)
         /\ StepTyped("drop index", v) => StepTyped("drop jobs", v)
         /\ StepTyped("drop jobs", v) => StepTyped("drop alert", v)
         /\ StepTyped("unlink", v) => StepTyped("drop row", v)
  BY DEF StepTyped, OnEmail, OnCase, Scored, Erasing, Deleting

\* The local variables of the steps that change them.
LEMMA LocalsTyped ==
  ASSUME NEW e \in Emails, NEW c \in Cases, NEW s \in Scores, NEW row \in Analyses
  PROVE  /\ StepTyped("read", [Blank EXCEPT !.email = e])
         /\ StepTyped("check", [Blank EXCEPT !.email = e, !.seen = row])
         /\ \A n \in Scores \cup {0} :
              StepTyped("attach", [Blank EXCEPT !.case = c, !.email = e, !.score = n])
         /\ StepTyped("list evidence", [Blank EXCEPT !.case = c, !.email = e])
         /\ \A v : StepTyped("store", v) => StepTyped("summary", [v EXCEPT !.score = s])
         /\ \A v : StepTyped("rescore", v) =>
              StepTyped("summary", [v EXCEPT !.score = s, !.seen = Missing])
         /\ \A v, seen : seen \in {Missing} \cup Analyses /\ StepTyped("attach", v)
              => StepTyped("link", [v EXCEPT !.seen = seen])
         /\ \A v, S : S \subseteq CaseReads /\ StepTyped("cases", v)
              => StepTyped("each case", [v EXCEPT !.left = S])
         /\ \A v : StepTyped("write case", v)
              => StepTyped("each case", [v EXCEPT !.case = Missing, !.seen = Missing])
<1> USE DEF StepTyped, Locals, OnEmail, OnCase, Scored, Erasing, Deleting
<1>1. Blank \in Locals
  BY BlankTyped
<1>2. /\ StepTyped("read", [Blank EXCEPT !.email = e])
      /\ StepTyped("check", [Blank EXCEPT !.email = e, !.seen = row])
      /\ StepTyped("list evidence", [Blank EXCEPT !.case = c, !.email = e])
  BY <1>1
<1>3. ASSUME NEW n \in Scores \cup {0}
      PROVE  StepTyped("attach", [Blank EXCEPT !.case = c, !.email = e, !.score = n])
  BY <1>1
<1>4. ASSUME NEW v, StepTyped("store", v)
      PROVE  StepTyped("summary", [v EXCEPT !.score = s])
  BY <1>4
<1>5. ASSUME NEW v, StepTyped("rescore", v)
      PROVE  StepTyped("summary", [v EXCEPT !.score = s, !.seen = Missing])
  BY <1>5
<1>6. ASSUME NEW v, NEW seen \in {Missing} \cup Analyses, StepTyped("attach", v)
      PROVE  StepTyped("link", [v EXCEPT !.seen = seen])
  BY <1>6
<1>7. ASSUME NEW v, NEW S \in SUBSET CaseReads, StepTyped("cases", v)
      PROVE  StepTyped("each case", [v EXCEPT !.left = S])
  BY <1>7
<1>8. ASSUME NEW v, StepTyped("write case", v)
      PROVE  StepTyped("each case", [v EXCEPT !.case = Missing, !.seen = Missing])
  BY <1>8
<1> HIDE DEF StepTyped, Locals, OnEmail, OnCase, Scored, Erasing, Deleting
<1> QED
  BY <1>2, <1>3, <1>4, <1>5, <1>6, <1>7, <1>8

LEMMA SweepLocalsTyped ==
  ASSUME NEW v
  PROVE  /\ \A S, H \in SUBSET Emails :
              StepTyped("emails", [Blank EXCEPT !.left = S, !.held = H])
         /\ \A S \in SUBSET Emails : StepTyped("campaign", [Blank EXCEPT !.left = S])
         /\ StepTyped("emails", v) =>
              \A e \in v.left :
                /\ StepTyped("emails", [v EXCEPT !.left = @ \ {e}])
                /\ StepTyped("drop analysis", [[v EXCEPT !.left = @ \ {e}] EXCEPT !.email = e])
         /\ StepTyped("drop alert", v) => StepTyped("emails", [v EXCEPT !.email = Missing])
         /\ StepTyped("emails", v) =>
              \A S \in SUBSET Emails : StepTyped("evidence", [v EXCEPT !.left = S])
         /\ StepTyped("evidence", v) =>
              \A e \in v.left :
                /\ StepTyped("evidence", [v EXCEPT !.left = @ \ {e}])
                /\ StepTyped("unlink", [[v EXCEPT !.left = @ \ {e}] EXCEPT !.email = e])
         /\ StepTyped("drop row", v) => StepTyped("evidence", [v EXCEPT !.email = Missing])
<1> USE DEF StepTyped, Locals, OnEmail, OnCase, Scored, Erasing, Deleting
<1>1. Blank \in Locals
  BY BlankTyped
<1>2. ASSUME NEW S \in SUBSET Emails, NEW H \in SUBSET Emails
      PROVE  /\ StepTyped("emails", [Blank EXCEPT !.left = S, !.held = H])
             /\ StepTyped("campaign", [Blank EXCEPT !.left = S])
  BY <1>1
<1>3. ASSUME StepTyped("emails", v), NEW e \in v.left
      PROVE  StepTyped("emails", [v EXCEPT !.left = @ \ {e}])
  BY <1>3
<1>4. ASSUME StepTyped("emails", v), NEW e \in v.left
      PROVE  StepTyped("drop analysis", [[v EXCEPT !.left = @ \ {e}] EXCEPT !.email = e])
  BY <1>4
<1>5. ASSUME StepTyped("drop alert", v) PROVE StepTyped("emails", [v EXCEPT !.email = Missing])
  BY <1>5
<1>6. ASSUME StepTyped("emails", v), NEW S \in SUBSET Emails
      PROVE  StepTyped("evidence", [v EXCEPT !.left = S])
  BY <1>6
<1>7. ASSUME StepTyped("evidence", v), NEW e \in v.left
      PROVE  StepTyped("evidence", [v EXCEPT !.left = @ \ {e}])
  BY <1>7
<1>8. ASSUME StepTyped("evidence", v), NEW e \in v.left
      PROVE  StepTyped("unlink", [[v EXCEPT !.left = @ \ {e}] EXCEPT !.email = e])
  BY <1>8
<1>9. ASSUME StepTyped("drop row", v) PROVE StepTyped("evidence", [v EXCEPT !.email = Missing])
  BY <1>9
<1> HIDE DEF StepTyped, Locals, OnEmail, OnCase, Scored, Erasing, Deleting
<1> QED
  BY <1>2, <1>3, <1>4, <1>5, <1>6, <1>7, <1>8, <1>9

\* What remains to show of a step, besides the types of its data.
LEMMA TypesKept ==
  ASSUME TypeInv, TypeOK', protected' \in [Sweepers -> SUBSET Emails], NEW a \in Actors,
         \E from, to, local : Go(a, from, to, local) /\ StepTyped(to, local)
  PROVE  TypeInv'
  BY GoTyped, Zenon DEF TypeInv

LEMMA StartsTyped ==
  ASSUME TypeInv, NEW a, NEW e \in Emails, Starts(a, e)
  PROVE  torn' \subseteq Emails /\ clash' \in BOOLEAN /\ protected' = protected
<1>1. torn \subseteq Emails /\ clash \in BOOLEAN
  BY DEF TypeInv, TypeOK
<1>2. torn' \subseteq Emails
  BY <1>1 DEF Starts
<1>3. clash' \in BOOLEAN
  BY <1>1, Zenon DEF Starts
<1> QED
  BY <1>2, <1>3 DEF Starts

\* A row of the analyses, as a worker and as a rescoring write it.
LEMMA RowsTyped ==
  ASSUME TypeOK, NEW e \in Emails, NEW s \in Scores
  PROVE  /\ [run |-> runs[e], basis |-> runs[e], score |-> s, version |-> "new"] \in Analyses
         /\ \A row, seen \in Analyses :
              [run |-> row.run, basis |-> seen.run, score |-> s, version |-> "new"] \in Analyses
         /\ \A case \in Cases \cup {Missing}, status \in {"OPEN", "RESOLVED"} :
              [score |-> s, status |-> status, case |-> case] \in Alerts
  BY DEF TypeOK, Analyses, Alerts

LEMMA JobFinishedTyped ==
  ASSUME TypeOK, NEW e, NEW status \in {"Completed", "Failed"}, Finished(e, status)
  PROVE  job' \in [Emails -> {"Pending", "Running", "Completed", "Failed", "Gone"}]
  BY DEF TypeOK, Finished

LEMMA WorkTyped ==
  ASSUME TypeInv, NEW w \in Workers, Work(w)
  PROVE  TypeInv'
<1> w \in Actors
  BY DEF Actors
<1> DEFINE v == my[w]
<1>0. TypeOK /\ protected \in [Sweepers -> SUBSET Emails] /\ StepTyped(at[w], v)
  BY DEF TypeInv
<1>1. ASSUME NEW e \in Emails, Claim(w, e)
      PROVE  TypeInv'
  <2>1. Go(w, "idle", "read", [Blank EXCEPT !.email = e])
    BY <1>1 DEF Claim
  <2>2. StepTyped("read", [Blank EXCEPT !.email = e])
    BY <1>0 DEF StepTyped, Locals, Blank, OnEmail, OnCase, Scored, Erasing, Deleting
  <2>3. torn' \subseteq Emails /\ clash' \in BOOLEAN /\ protected' = protected
    BY <1>1, StartsTyped DEF Claim
  <2>4. TypeOK'
    BY <1>0, <1>1, <2>3 DEF TypeOK, Claim
  <2> QED
    BY <1>0, <2>1, <2>2, <2>3, <2>4, TypesKept
<1>2. CASE ReadOriginal(w)
  <2>1. \/ Go(w, "read", "store", v) /\ job' = job
        \/ Go(w, "read", "done", Blank) /\ Finished(v.email, "Failed")
    BY <1>2 DEF ReadOriginal, Step, Leave
  <2>2. protected' = protected /\ UNCHANGED <<emails, summary, runs, analysis, indexed, alert, rows, files, caseIds,
                   cases, campaigns, torn, clash>>
    BY <1>2, Zenon DEF ReadOriginal, history
  <2>3. TypeOK'
    BY <1>0, <2>1, <2>2, JobFinishedTyped DEF TypeOK
  <2>4. at[w] = "read"
    BY <2>1 DEF Go
  <2>5. StepTyped("store", v)
    BY <1>0, <2>4, StepsTyped
  <2> QED
    BY <1>0, <2>1, <2>2, <2>3, <2>5, BlankTyped, TypesKept
<1>3. CASE Store(w)
  <2> DEFINE e == v.email
  <2>1. PICK s \in Scores :
          /\ Go(w, "store", "summary", [v EXCEPT !.score = s])
          /\ analysis' = [analysis EXCEPT ![e] =
                [run |-> runs[e], basis |-> runs[e], score |-> s, version |-> "new"]]
    BY <1>3 DEF Store
  <2>2. UNCHANGED <<emails, summary, job, runs, indexed, alert, rows, files, caseIds,
                    cases, campaigns, protected, torn, clash>>
    BY <1>3, Zenon DEF Store, history
  <2>3. at[w] = "store" /\ e \in Emails
    BY <1>0, <2>1 DEF Go, StepTyped, OnEmail
  <2>4. [run |-> runs[e], basis |-> runs[e], score |-> s, version |-> "new"] \in Analyses
    BY <1>0, <2>3, RowsTyped
  <2>5. TypeOK'
    BY <1>0, <2>1, <2>2, <2>4 DEF TypeOK
  <2>6. StepTyped("summary", [v EXCEPT !.score = s])
    BY <1>0, <2>3 DEF StepTyped, Locals, OnEmail, OnCase, Scored, Erasing, Deleting
  <2> QED
    BY <1>0, <2>1, <2>2, <2>5, <2>6, TypesKept
<1>4. CASE Index(w)
  <2>1. Go(w, "index", "refresh", v)
    BY <1>4 DEF Index, Step
  <2>2. indexed' = indexed \cup {v.email}
        /\ UNCHANGED <<emails, summary, job, runs, analysis, alert, rows, files, caseIds,
                       cases, campaigns, protected, torn, clash>>
    BY <1>4, Zenon DEF Index, history
  <2>3. at[w] = "index" /\ v.email \in Emails
    BY <1>0, <2>1 DEF Go, StepTyped, OnEmail, Scored
  <2>4. TypeOK'
    BY <1>0, <2>2, <2>3 DEF TypeOK
  <2>5. StepTyped("refresh", v)
    BY <1>0, <2>3, StepsTyped
  <2> QED
    BY <1>0, <2>1, <2>2, <2>4, <2>5, TypesKept
<1>5. CASE Complete(w) \/ WorkerLost(w)
  <2>1. \E from : Go(w, from, "done", Blank)
    BY <1>5 DEF Complete, WorkerLost, Leave
  <2>2. UNCHANGED <<emails, summary, runs, analysis, indexed, alert, rows, files, caseIds,
                    cases, campaigns, protected, torn, clash>>
    BY <1>5, Zenon DEF Complete, WorkerLost, history
  <2>3. \E status \in {"Completed", "Failed"} : Finished(v.email, status)
    BY <1>5 DEF Complete, WorkerLost
  <2>4. TypeOK'
    BY <1>0, <2>2, <2>3, JobFinishedTyped DEF TypeOK
  <2> QED
    BY <1>0, <2>1, <2>2, <2>4, BlankTyped, TypesKept
<1> QED
  BY <1>1, <1>2, <1>3, <1>4, <1>5 DEF Work

LEMMA PublishTyped ==
  ASSUME TypeInv, NEW a \in Workers \cup Rescorers, Publish(a)
  PROVE  TypeInv'
<1> a \in Actors
  BY DEF Actors
<1> DEFINE v == my[a]
<1>0. TypeOK /\ protected \in [Sweepers -> SUBSET Emails] /\ StepTyped(at[a], v)
  BY DEF TypeInv
<1>1. CASE Summarise(a)
  <2>1. Go(a, "summary", "cases", v) \/ Go(a, "summary", "refresh", v)
    BY <1>1 DEF Summarise, Step
  <2>2. /\ UNCHANGED <<emails, job, runs, analysis, indexed, alert, rows, files, caseIds,
                       cases, campaigns, protected, torn, clash>>
        /\ \/ summary' = summary
           \/ summary' = [summary EXCEPT ![v.email] = v.score]
    BY <1>1, Zenon DEF Summarise, history
  <2>3. at[a] = "summary" /\ v.score \in Scores
    BY <1>0, <2>1 DEF Go, StepTyped, Scored
  <2>4. TypeOK'
    BY <1>0, <2>2, <2>3 DEF TypeOK
  <2>5. StepTyped("cases", v) /\ StepTyped("refresh", v)
    BY <1>0, <2>3, StepsTyped
  <2> QED
    BY <1>0, <2>1, <2>2, <2>4, <2>5, TypesKept
<1>2. CASE FindCases(a)
  <2> DEFINE S == {[case |-> c, emails |-> cases[c].emails] :
                     c \in {x \in Cases : v.email \in cases[x].emails}}
  <2>1. Go(a, "cases", "each case", [v EXCEPT !.left = S])
    BY <1>2 DEF FindCases
  <2>2. UNCHANGED <<data, history>>
    BY <1>2, Zenon DEF FindCases
  <2>3. S \subseteq CaseReads
    BY <1>0 DEF TypeOK, CaseReads
  <2>4. at[a] = "cases"
    BY <2>1 DEF Go
  <2>5. StepTyped("each case", [v EXCEPT !.left = S])
    <3> HIDE DEF S
    <3> QED
      BY <1>0, <2>3, <2>4 DEF StepTyped, Locals, OnEmail, OnCase, Scored, Erasing, Deleting
  <2>6. TypeOK' /\ protected' = protected
    BY <1>0, <2>2 DEF TypeOK, data, history
  <2> QED
    BY <1>0, <2>1, <2>5, <2>6, TypesKept
<1>3. CASE ReadHighest(a)
  <2>1. PICK x \in v.left :
          LET stored == {analysis[e].score : e \in {o \in x.emails : analysis[o] # Missing}}
              rest == [v EXCEPT !.left = @ \ {x}]
          IN  IF stored = {} THEN Go(a, "each case", "each case", rest)
              ELSE Go(a, "each case", "write case",
                      [rest EXCEPT !.case = x.case, !.seen = Newest(stored)])
    BY <1>3 DEF ReadHighest
  <2> DEFINE stored == {analysis[e].score : e \in {o \in x.emails : analysis[o] # Missing}}
             rest == [v EXCEPT !.left = @ \ {x}]
             next == [rest EXCEPT !.case = x.case, !.seen = Newest(stored)]
  <2>2. at[a] = "each case"
    BY <2>1 DEF Go
  <2>3. v.left \subseteq CaseReads /\ x.case \in Cases /\ x.emails \subseteq Emails
    BY <1>0, <2>2 DEF StepTyped, CaseReads
  <2>4. stored \in SUBSET Scores
    BY <1>0, <2>3 DEF TypeOK, Analyses
  <2>5. stored # {} => Newest(stored) \in Scores
    <3> HIDE DEF stored
    <3> QED
      BY <2>4, NewestIsGreatest
  <2>6. StepTyped("each case", rest)
    BY <1>0, <2>2 DEF StepTyped, Locals, OnEmail, OnCase, Scored, Erasing, Deleting
  <2>7. stored # {} => StepTyped("write case", next)
    <3> HIDE DEF stored, rest
    <3> QED
      BY <2>3, <2>5, <2>6 DEF StepTyped, Locals, OnEmail, OnCase, Scored, Erasing, Deleting
  <2>8. TypeOK' /\ protected' = protected
    <3>1. UNCHANGED <<data, history>>
      BY <1>3, Zenon DEF ReadHighest
    <3> QED
      BY <1>0, <3>1 DEF TypeOK, data, history
  <2>9. \/ Go(a, "each case", "each case", rest)
        \/ stored # {} /\ Go(a, "each case", "write case", next)
    BY <2>1
  <2> HIDE DEF stored, rest, next
  <2> QED
    BY <1>0, <2>6, <2>7, <2>8, <2>9, TypesKept
<1>4. CASE WriteHighest(a)
  <2> DEFINE next == [v EXCEPT !.case = Missing, !.seen = Missing]
  <2>1. Go(a, "write case", "each case", next)
    BY <1>4 DEF WriteHighest
  <2>2. /\ UNCHANGED <<emails, summary, job, runs, analysis, indexed, alert, rows, files,
                       caseIds, campaigns, protected, torn, clash>>
        /\ cases' = [cases EXCEPT ![v.case].score = v.seen, ![v.case].severity = v.seen]
    BY <1>4, Zenon DEF WriteHighest, history
  <2>3. at[a] = "write case" /\ v.seen \in Scores
    BY <1>0, <2>1 DEF Go, StepTyped
  <2>4. TypeOK'
    <3> DEFINE Rows == [emails : SUBSET Emails, evidence : SUBSET Emails,
                        score : Scores \cup {0}, severity : Scores \cup {0}]
    <3>1. cases \in [Cases -> Rows]
      BY <1>0 DEF TypeOK
    <3>2. \A row \in Rows : [[row EXCEPT !.score = v.seen] EXCEPT !.severity = v.seen] \in Rows
      BY <2>3
    <3>3. \A c \in Cases : cases'[c] = cases[c] \/
            cases'[c] = [[cases[c] EXCEPT !.score = v.seen] EXCEPT !.severity = v.seen]
      BY <2>2, <3>1
    <3>4. cases' = [c \in Cases |-> cases'[c]]
      BY <2>2, <3>1
    <3> HIDE DEF Rows
    <3>5. \A c \in Cases : cases'[c] \in Rows
      BY <3>1, <3>2, <3>3, Zenon
    <3>6. cases' \in [Cases -> Rows]
      BY <3>4, <3>5, Zenon
    <3> QED
      BY <1>0, <2>2, <3>6 DEF TypeOK, Rows
  <2>5. StepTyped("each case", next)
    BY <1>0, <2>3 DEF StepTyped, Locals, OnEmail, OnCase, Scored, Erasing, Deleting
  <2> QED
    BY <1>0, <2>1, <2>2, <2>4, <2>5, TypesKept
<1>5. CASE NoCaseLeft(a)
  <2>1. Go(a, "each case", "index", v) \/ Go(a, "each case", "done", Blank)
    BY <1>5 DEF NoCaseLeft, Step, Leave
  <2>2. at[a] = "each case"
    BY <2>1 DEF Go
  <2>3. StepTyped("index", v) /\ StepTyped("done", Blank)
    BY <1>0, <2>2, StepsTyped, BlankTyped
  <2>4. TypeOK' /\ protected' = protected
    BY <1>0, <1>5 DEF NoCaseLeft, TypeOK, data, history
  <2> QED
    BY <1>0, <2>1, <2>3, <2>4, TypesKept
<1>6. CASE RefreshAlert(a)
  <2>1. Go(a, "refresh", "raise", v)
    BY <1>6 DEF RefreshAlert, Step
  <2>2. /\ UNCHANGED <<emails, summary, job, runs, analysis, indexed, rows, files, caseIds,
                       cases, campaigns, protected, torn, clash>>
        /\ alert' = IF alert[v.email] = Missing THEN alert
                    ELSE [alert EXCEPT ![v.email] = Refreshed(@, v.score)]
    BY <1>6, Zenon DEF RefreshAlert, history
  <2>3. at[a] = "refresh" /\ v.score \in Scores /\ v.email \in Emails
    BY <1>0, <2>1 DEF Go, StepTyped, Scored, OnEmail
  <2>4. TypeOK'
    BY <1>0, <2>2, <2>3 DEF TypeOK, Refreshed, Alerts
  <2>5. StepTyped("raise", v)
    BY <1>0, <2>3, StepsTyped
  <2> QED
    BY <1>0, <2>1, <2>2, <2>4, <2>5, TypesKept
<1>7. CASE RaiseAlert(a)
  <2> DEFINE row == [score |-> v.score, status |-> "OPEN", case |-> Missing]
  <2>1. Go(a, "raise", "complete", v) \/ Go(a, "raise", "cases", v)
    BY <1>7 DEF RaiseAlert, Step
  <2>2. /\ UNCHANGED <<emails, summary, job, runs, analysis, indexed, rows, files, caseIds,
                       cases, campaigns, protected, torn, clash>>
        /\ alert' = alert \/ alert' = [alert EXCEPT ![v.email] = row]
    BY <1>7, Zenon DEF RaiseAlert, history
  <2>3. at[a] = "raise" /\ v.score \in Scores /\ v.email \in Emails
    BY <1>0, <2>1 DEF Go, StepTyped, Scored, OnEmail
  <2>4. TypeOK'
    BY <1>0, <2>2, <2>3 DEF TypeOK, Alerts
  <2>5. StepTyped("complete", v) /\ StepTyped("cases", v)
    BY <1>0, <2>3, StepsTyped
  <2> QED
    BY <1>0, <2>1, <2>2, <2>4, <2>5, TypesKept
<1> QED
  BY <1>1, <1>2, <1>3, <1>4, <1>5, <1>6, <1>7 DEF Publish

LEMMA RescoringTyped ==
  ASSUME TypeInv, NEW r \in Rescorers, Rescoring(r)
  PROVE  TypeInv'
<1> r \in Actors
  BY DEF Actors
<1> DEFINE v == my[r]
<1>0. TypeOK /\ protected \in [Sweepers -> SUBSET Emails] /\ StepTyped(at[r], v)
  BY DEF TypeInv
<1>1. ASSUME NEW e \in Emails, Pick(r, e)
      PROVE  TypeInv'
  <2>1. Go(r, "idle", "check", [Blank EXCEPT !.email = e, !.seen = analysis[e]])
    BY <1>1 DEF Pick
  <2>2. analysis[e] \in Analyses
    BY <1>0, <1>1 DEF Pick, TypeOK
  <2>3. StepTyped("check", [Blank EXCEPT !.email = e, !.seen = analysis[e]])
    BY <1>0, <2>2, BlankTyped DEF StepTyped, Locals, OnEmail, OnCase, Scored, Erasing, Deleting
  <2>4. torn' \subseteq Emails /\ clash' \in BOOLEAN /\ protected' = protected
    BY <1>1, StartsTyped DEF Pick
  <2>5. TypeOK'
    BY <1>0, <1>1, <2>4 DEF TypeOK, Pick, data
  <2> QED
    BY <1>0, <2>1, <2>3, <2>4, <2>5, TypesKept
<1>2. CASE CheckIdle(r)
  <2>1. Go(r, "check", "rescore", v) \/ Go(r, "check", "done", Blank)
    BY <1>2 DEF CheckIdle, Step, Leave
  <2>2. at[r] = "check"
    BY <2>1 DEF Go
  <2>3. StepTyped("rescore", v) /\ StepTyped("done", Blank)
    BY <1>0, <2>2, StepsTyped, BlankTyped
  <2>4. TypeOK' /\ protected' = protected
    BY <1>0, <1>2 DEF CheckIdle, TypeOK, data, history
  <2> QED
    BY <1>0, <2>1, <2>3, <2>4, TypesKept
<1>3. CASE Rescore(r)
  <2> DEFINE e == v.email
  <2>1. at[r] = "rescore" /\ e \in Emails /\ v.seen \in Analyses
    BY <1>0, <1>3 DEF Rescore, StepTyped, OnEmail
  <2>2. UNCHANGED <<emails, summary, job, runs, indexed, alert, rows, files, caseIds, cases,
                    campaigns, protected, torn, clash>>
    BY <1>3, Zenon DEF Rescore, history
  <2>3. CASE Unchanged(analysis[e], v.seen)
    <3>1. PICK s \in Scores :
            /\ Go(r, "rescore", "summary", [v EXCEPT !.score = s, !.seen = Missing])
            /\ analysis' = [analysis EXCEPT ![e] =
                 [run |-> @.run, basis |-> v.seen.run, score |-> s, version |-> "new"]]
      BY <1>3, <2>3 DEF Rescore
    <3>2. analysis[e] \in Analyses
      BY <1>0, <2>1, <2>3 DEF TypeOK, Unchanged
    <3>3. [run |-> analysis[e].run, basis |-> v.seen.run, score |-> s, version |-> "new"]
            \in Analyses
      BY <1>0, <2>1, <3>2, RowsTyped
    <3>4. TypeOK'
      BY <1>0, <2>2, <3>1, <3>3 DEF TypeOK
    <3>5. StepTyped("summary", [v EXCEPT !.score = s, !.seen = Missing])
      BY <1>0, <2>1 DEF StepTyped, Locals, OnEmail, OnCase, Scored, Erasing, Deleting
    <3> QED
      BY <1>0, <2>2, <3>1, <3>4, <3>5, TypesKept
  <2>4. CASE ~Unchanged(analysis[e], v.seen)
    <3>1. Go(r, "rescore", "done", Blank) /\ analysis' = analysis
      BY <1>3, <2>4 DEF Rescore, Leave
    <3>2. TypeOK'
      BY <1>0, <2>2, <3>1 DEF TypeOK
    <3> QED
      BY <1>0, <2>2, <3>1, <3>2, BlankTyped, TypesKept
  <2> QED
    BY <2>3, <2>4
<1> QED
  BY <1>1, <1>2, <1>3 DEF Rescoring

LEMMA InvestigateTyped ==
  ASSUME TypeInv, NEW n \in Analysts, Investigate(n)
  PROVE  TypeInv'
<1> n \in Actors
  BY DEF Actors
<1> DEFINE v == my[n]
<1>0. TypeOK /\ protected \in [Sweepers -> SUBSET Emails] /\ StepTyped(at[n], v)
  BY DEF TypeInv
<1>1. ASSUME NEW c \in Cases, NEW e \in Emails, ReadCase(n, c, e)
      PROVE  TypeInv'
  <2>1. Go(n, "idle", "attach", [Blank EXCEPT !.case = c, !.email = e,
                                              !.score = cases[c].score])
    BY <1>1 DEF ReadCase
  <2>2. cases[c].score \in Scores \cup {0}
    BY <1>0 DEF TypeOK
  <2>3. StepTyped("attach", [Blank EXCEPT !.case = c, !.email = e, !.score = cases[c].score])
    BY <2>2 DEF StepTyped, Locals, Blank, OnEmail, OnCase, Scored, Erasing, Deleting
  <2>4. torn' \subseteq Emails /\ clash' \in BOOLEAN /\ protected' = protected
    BY <1>1, StartsTyped DEF ReadCase
  <2>5. TypeOK'
    BY <1>0, <1>1, <2>4 DEF TypeOK, ReadCase, data
  <2> QED
    BY <1>0, <2>1, <2>3, <2>4, <2>5, BlankTyped, TypesKept
<1>2. ASSUME NEW c \in Cases, NEW e \in Emails, ReadEvidence(n, c, e)
      PROVE  TypeInv'
  <2>1. Go(n, "idle", "list evidence", [Blank EXCEPT !.case = c, !.email = e])
    BY <1>2 DEF ReadEvidence
  <2>2. StepTyped("list evidence", [Blank EXCEPT !.case = c, !.email = e])
    BY DEF StepTyped, Locals, Blank, OnEmail, OnCase, Scored, Erasing, Deleting
  <2>3. TypeOK' /\ protected' = protected
    BY <1>0, <1>2 DEF ReadEvidence, TypeOK, data, history
  <2> QED
    BY <1>0, <2>1, <2>2, <2>3, BlankTyped, TypesKept
<1>3. ASSUME NEW S \in SUBSET Emails, ReadAnalyses(n, S)
      PROVE  TypeInv'
  <2>1. Go(n, "idle", "campaign", [Blank EXCEPT !.left = S])
    BY <1>3 DEF ReadAnalyses
  <2>2. StepTyped("campaign", [Blank EXCEPT !.left = S])
    BY SweepLocalsTyped
  <2>3. TypeOK' /\ protected' = protected
    BY <1>0, <1>3 DEF ReadAnalyses, TypeOK, data, history
  <2> QED
    BY <1>0, <2>1, <2>2, <2>3, BlankTyped, TypesKept
<1>4. ASSUME NEW e \in Emails, ChangeAlert(n, e)
      PROVE  TypeInv'
  <2>1. Go(n, "idle", "done", Blank)
    BY <1>4 DEF ChangeAlert, Leave
  <2>2. PICK status \in {"OPEN", "RESOLVED"} : alert' = [alert EXCEPT ![e].status = status]
    BY <1>4 DEF ChangeAlert
  <2>3. /\ alert[e] # Missing
        /\ UNCHANGED <<emails, summary, job, runs, analysis, indexed, rows, files, caseIds,
                       cases, campaigns, protected, torn, clash>>
    BY <1>4, Zenon DEF ChangeAlert, history
  <2>4. TypeOK'
    BY <1>0, <2>2, <2>3 DEF TypeOK, Alerts
  <2> QED
    BY <1>0, <2>1, <2>3, <2>4, BlankTyped, TypesKept
<1>5. CASE ReadEmail(n)
  <2>1. \/ Go(n, "attach", "link", [v EXCEPT !.seen = analysis[v.email]])
        \/ Go(n, "attach", "done", Blank)
    BY <1>5 DEF ReadEmail, Leave
  <2>2. at[n] = "attach" /\ analysis[v.email] \in {Missing} \cup Analyses
    BY <1>0, <2>1 DEF Go, StepTyped, OnEmail, OnCase, TypeOK
  <2>3. StepTyped("link", [v EXCEPT !.seen = analysis[v.email]])
    BY <1>0, <2>2 DEF StepTyped, Locals, OnEmail, OnCase, Scored, Erasing, Deleting
  <2>4. TypeOK' /\ protected' = protected
    BY <1>0, <1>5 DEF ReadEmail, TypeOK, data, history
  <2> QED
    BY <1>0, <2>1, <2>3, <2>4, BlankTyped, TypesKept
<1>6. CASE LinkEmail(n)
  <2>1. Go(n, "link", "link evidence", v)
    BY <1>6 DEF LinkEmail, Step
  <2>2. /\ UNCHANGED <<emails, summary, job, runs, analysis, indexed, alert, rows, files,
                       caseIds, campaigns, protected, torn, clash>>
        /\ cases' = [cases EXCEPT ![v.case] = Linked(@, v.email, v.seen, v.score)]
    BY <1>6, Zenon DEF LinkEmail, history
  <2>3. /\ at[n] = "link" /\ v.email \in Emails /\ v.case \in Cases
        /\ v.seen \in {Missing} \cup Analyses
    BY <1>0, <2>1 DEF Go, StepTyped, OnEmail, OnCase
  <2>4. v.seen # Missing => v.seen.score \in Scores
    BY <2>3 DEF Analyses
  <2> DEFINE row == cases[v.case]
  <2>5. Linked(row, v.email, v.seen, v.score) \in
          [emails : SUBSET Emails, evidence : SUBSET Emails,
           score : Scores \cup {0}, severity : Scores \cup {0}]
    <3>1. row \in [emails : SUBSET Emails, evidence : SUBSET Emails,
                   score : Scores \cup {0}, severity : Scores \cup {0}]
      BY <1>0, <2>3 DEF TypeOK
    <3>2. v.seen # Missing => Higher(row.score, v.seen.score) \in Scores \cup {0}
      BY <2>4, <3>1 DEF Higher
    <3> QED
      BY <2>3, <2>4, <3>1, <3>2 DEF Linked
  <2>6. TypeOK'
    <3> DEFINE Rows == [emails : SUBSET Emails, evidence : SUBSET Emails,
                        score : Scores \cup {0}, severity : Scores \cup {0}]
               next == Linked(row, v.email, v.seen, v.score)
    <3>1. cases \in [Cases -> Rows] /\ next \in Rows
      BY <1>0, <2>5 DEF TypeOK
    <3>2. cases' = [cases EXCEPT ![v.case] = next]
      BY <2>2
    <3> HIDE DEF Rows, next
    <3>3. cases' \in [Cases -> Rows]
      BY <3>1, <3>2
    <3> QED
      BY <1>0, <2>2, <3>3 DEF TypeOK, Rows
  <2>7. StepTyped("link evidence", v)
    BY <1>0, <2>3, StepsTyped
  <2> QED
    BY <2>1, <2>2, <2>6, <2>7, <1>0, TypesKept
<1>7. CASE LinkEvidence(n)
  <2>1. Go(n, "link evidence", "assign alert", v) \/ Go(n, "mark evidence", "done", Blank)
    BY <1>7 DEF LinkEvidence, Step, Leave
  <2>2. /\ UNCHANGED <<emails, summary, job, runs, analysis, indexed, alert, rows, files,
                       cases, campaigns, protected, torn, clash>>
        /\ caseIds' = caseIds \/ caseIds' = [caseIds EXCEPT ![v.email] = @ \cup {v.case}]
    BY <1>7, Zenon DEF LinkEvidence, history
  <2>3. v.case \in Cases
    BY <1>0, <2>1 DEF Go, StepTyped, OnCase
  <2>5. Go(n, "link evidence", "assign alert", v) => StepTyped("assign alert", v)
    BY <1>0, StepsTyped DEF Go
  <2>4. TypeOK'
    BY <1>0, <2>2, <2>3 DEF TypeOK
  <2> QED
    BY <1>0, <2>1, <2>2, <2>4, <2>5, BlankTyped, TypesKept
<1>8. CASE AssignAlert(n)
  <2>1. Go(n, "assign alert", "done", Blank)
    BY <1>8 DEF AssignAlert, Leave
  <2>2. /\ UNCHANGED <<emails, summary, job, runs, analysis, indexed, rows, files, caseIds,
                       cases, campaigns, protected, torn, clash>>
        /\ alert' = IF alert[v.email] = Missing THEN alert
                    ELSE [alert EXCEPT ![v.email].case = v.case]
    BY <1>8, Zenon DEF AssignAlert, history
  <2>3. v.case \in Cases /\ v.email \in Emails
    BY <1>0, <2>1 DEF Go, StepTyped, OnEmail, OnCase
  <2>4. TypeOK'
    BY <1>0, <2>2, <2>3 DEF TypeOK, Alerts
  <2> QED
    BY <1>0, <2>1, <2>2, <2>4, BlankTyped, TypesKept
<1>9. CASE ListEvidence(n)
  <2>1. Go(n, "list evidence", "mark evidence", v)
    BY <1>9 DEF ListEvidence, Step
  <2>2. /\ UNCHANGED <<emails, summary, job, runs, analysis, indexed, alert, rows, files,
                       caseIds, campaigns, protected, torn, clash>>
        /\ cases' = [cases EXCEPT ![v.case].evidence = @ \cup {v.email}]
    BY <1>9, Zenon DEF ListEvidence, history
  <2>3. at[n] = "list evidence" /\ v.email \in Emails
    BY <1>0, <2>1 DEF Go, StepTyped, OnEmail, OnCase
  <2>4. TypeOK'
    <3> DEFINE Rows == [emails : SUBSET Emails, evidence : SUBSET Emails,
                        score : Scores \cup {0}, severity : Scores \cup {0}]
    <3>1. cases \in [Cases -> Rows]
      BY <1>0 DEF TypeOK
    <3>2. \A row \in Rows : [row EXCEPT !.evidence = @ \cup {v.email}] \in Rows
      BY <2>3
    <3>3. \A c \in Cases : cases'[c] = cases[c] \/
            cases'[c] = [cases[c] EXCEPT !.evidence = @ \cup {v.email}]
      BY <2>2, <3>1
    <3>4. cases' = [c \in Cases |-> cases'[c]]
      BY <2>2, <3>1
    <3> HIDE DEF Rows
    <3>5. \A c \in Cases : cases'[c] \in Rows
      BY <3>1, <3>2, <3>3, Zenon
    <3>6. cases' \in [Cases -> Rows]
      BY <3>4, <3>5, Zenon
    <3> QED
      BY <1>0, <2>2, <3>6 DEF TypeOK, Rows
  <2>5. StepTyped("mark evidence", v)
    BY <1>0, <2>3, StepsTyped
  <2> QED
    BY <1>0, <2>1, <2>2, <2>4, <2>5, TypesKept
<1>10. CASE InsertCampaign(n)
  <2>1. Go(n, "campaign", "done", Blank)
    BY <1>10 DEF InsertCampaign, Leave
  <2>2. /\ UNCHANGED <<emails, summary, job, runs, analysis, indexed, alert, rows, files,
                       caseIds, cases, protected, torn, clash>>
        /\ campaigns' = campaigns \cup {v.left}
    BY <1>10, Zenon DEF InsertCampaign, history
  <2>3. v.left \subseteq Emails
    BY <1>0, <2>1 DEF Go, StepTyped
  <2>4. TypeOK'
    BY <1>0, <2>2, <2>3 DEF TypeOK
  <2> QED
    BY <1>0, <2>1, <2>2, <2>4, BlankTyped, TypesKept
<1> QED
  BY <1>1, <1>2, <1>3, <1>4, <1>5, <1>6, <1>7, <1>8, <1>9, <1>10, Zenon DEF Investigate

LEMMA SweepTyped ==
  ASSUME TypeInv, NEW s \in Sweepers, Sweep(s)
  PROVE  TypeInv'
<1> s \in Actors
  BY DEF Actors
<1> DEFINE v == my[s]
<1>0. TypeOK /\ protected \in [Sweepers -> SUBSET Emails] /\ StepTyped(at[s], v)
  BY DEF TypeInv
<1>1. CASE Tick(s)
  <2>1. Go(s, "idle", "emails", [Blank EXCEPT !.left = emails, !.held = HeldEmails])
    BY <1>1 DEF Tick
  <2>2. emails \subseteq Emails /\ HeldEmails \subseteq Emails /\ LinkedEmails \subseteq Emails
    <3>1. emails \subseteq Emails /\ \A c \in Cases : cases[c].emails \in SUBSET Emails
      BY <1>0 DEF TypeOK
    <3>2. \A S \in campaigns : S \subseteq Emails
      BY <1>0 DEF TypeOK
    <3>3. /\ UNION {cases[c].emails : c \in Cases} \subseteq Emails
          /\ UNION campaigns \subseteq Emails
      BY <3>1, <3>2
    <3> QED
      BY <3>1, <3>3, Zenon DEF HeldEmails, LinkedEmails
  <2>3. StepTyped("emails", [Blank EXCEPT !.left = emails, !.held = HeldEmails])
    BY <2>2, SweepLocalsTyped
  <2>4. protected' \in [Sweepers -> SUBSET Emails]
    <3>1. {e \in LinkedEmails : Whole(e)} \in SUBSET Emails
      BY <2>2
    <3> QED
      BY <1>0, <1>1, <3>1 DEF Tick
  <2>5. TypeOK'
    BY <1>0, <1>1 DEF Tick, TypeOK
  <2> QED
    BY <2>1, <2>3, <2>4, <2>5, BlankTyped, TypesKept
<1>2. CASE CheckEmail(s)
  <2>1. PICK e \in v.left :
          IF Spared(e, v.held)
          THEN Go(s, "emails", "emails", [v EXCEPT !.left = @ \ {e}]) /\ UNCHANGED torn
          ELSE /\ Go(s, "emails", "drop analysis", [[v EXCEPT !.left = @ \ {e}] EXCEPT !.email = e])
               /\ torn' = torn \cup ({e} \cap ({my[r].email : r \in Rescorers} \cup BeingDeleted))
    BY <1>2 DEF CheckEmail
  <2>2. UNCHANGED <<data, protected, clash>>
    BY <1>2, Zenon DEF CheckEmail
  <2>3. at[s] = "emails" /\ e \in Emails
    BY <1>0, <2>1 DEF Go, StepTyped
  <2>4. torn' \subseteq Emails
    BY <1>0, <2>1, <2>3 DEF TypeOK
  <2>5. TypeOK' /\ protected' = protected
    BY <1>0, <2>2, <2>4 DEF TypeOK, data
  <2>6. \E from, to, local : Go(s, from, to, local) /\ StepTyped(to, local)
    <3>1. /\ StepTyped("emails", [v EXCEPT !.left = @ \ {e}])
          /\ StepTyped("drop analysis", [[v EXCEPT !.left = @ \ {e}] EXCEPT !.email = e])
      BY <1>0, <2>3, SweepLocalsTyped, Zenon
    <3> QED
      BY <2>1, <3>1, Zenon
  <2> QED
    BY <1>0, <2>5, <2>6, TypesKept
<1>3. CASE DropAnalysis(s) \/ DropEmail(s) \/ DropIndex(s) \/ DropJobs(s) \/ Unlink(s)
  <2>1. \E from, to : Go(s, from, to, v) /\ StepTyped(to, v)
    <3>1. \/ Go(s, "drop analysis", "drop email", v) \/ Go(s, "drop email", "drop index", v)
          \/ Go(s, "drop index", "drop jobs", v) \/ Go(s, "drop jobs", "drop alert", v)
          \/ Go(s, "unlink", "drop row", v)
      BY <1>3 DEF DropAnalysis, DropEmail, DropIndex, DropJobs, Unlink, Step
    <3> QED
      BY <1>0, <3>1, StepsTyped DEF Go
  <2>2. UNCHANGED <<summary, runs, alert, rows, caseIds, cases, campaigns, protected, torn, clash>>
    BY <1>3, Zenon DEF DropAnalysis, DropEmail, DropIndex, DropJobs, Unlink, history
  <2>3. /\ emails' \subseteq emails /\ indexed' \subseteq indexed /\ files' \subseteq files
        /\ analysis' = analysis \/ analysis' = [analysis EXCEPT ![v.email] = Missing]
        /\ job' = job \/ job' = [job EXCEPT ![v.email] = "Gone"]
    BY <1>3, Zenon DEF DropAnalysis, DropEmail, DropIndex, DropJobs, Unlink
  <2>4. TypeOK'
    BY <1>0, <2>2, <2>3 DEF TypeOK
  <2> QED
    BY <1>0, <2>1, <2>2, <2>4, BlankTyped, TypesKept
<1>4. CASE DropAlert(s) \/ DropRow(s)
  <2>1. \E from, to, local : Go(s, from, to, local) /\ StepTyped(to, local)
    <3>1. \/ Go(s, "drop alert", "emails", [v EXCEPT !.email = Missing])
          \/ Go(s, "drop row", "evidence", [v EXCEPT !.email = Missing])
      BY <1>4 DEF DropAlert, DropRow
    <3> QED
      <4>1. at[s] = "drop alert" \/ at[s] = "drop row"
        BY <3>1 DEF Go
      <4>2. /\ at[s] = "drop alert" => StepTyped("emails", [v EXCEPT !.email = Missing])
            /\ at[s] = "drop row" => StepTyped("evidence", [v EXCEPT !.email = Missing])
        BY <1>0, SweepLocalsTyped, Zenon
      <4> QED
        BY <3>1, <4>2, Zenon DEF Go
  <2>2. UNCHANGED <<emails, summary, job, runs, analysis, indexed, files, caseIds, cases,
                    campaigns, protected, torn, clash>>
    BY <1>4, Zenon DEF DropAlert, DropRow, history
  <2>3. /\ alert' = alert \/ alert' = [alert EXCEPT ![v.email] = Missing]
        /\ rows' \subseteq rows
    BY <1>4, Zenon DEF DropAlert, DropRow
  <2>4. TypeOK'
    BY <1>0, <2>2, <2>3 DEF TypeOK
  <2> QED
    BY <1>0, <2>1, <2>2, <2>4, BlankTyped, TypesKept
<1>5. CASE ScanEvidence(s)
  <2>1. Go(s, "emails", "evidence", [v EXCEPT !.left = {x \in rows : caseIds[x] = {}}])
    BY <1>5 DEF ScanEvidence
  <2>2. {x \in rows : caseIds[x] = {}} \in SUBSET Emails /\ at[s] = "emails"
    BY <1>0, <2>1 DEF TypeOK, Go
  <2>3. TypeOK' /\ protected' = protected
    BY <1>0, <1>5 DEF ScanEvidence, TypeOK, data, history
  <2>4. StepTyped("evidence", [v EXCEPT !.left = {x \in rows : caseIds[x] = {}}])
    BY <1>0, <2>2, SweepLocalsTyped
  <2> QED
    BY <1>0, <2>1, <2>3, <2>4, TypesKept
<1>6. CASE CheckEvidence(s)
  <2>1. PICK x \in v.left :
          IF Referenced(x) THEN Go(s, "evidence", "evidence", [v EXCEPT !.left = @ \ {x}])
          ELSE Go(s, "evidence", "unlink", [[v EXCEPT !.left = @ \ {x}] EXCEPT !.email = x])
    BY <1>6 DEF CheckEvidence
  <2>2. at[s] = "evidence"
    BY <2>1 DEF Go
  <2>3. TypeOK' /\ protected' = protected
    BY <1>0, <1>6 DEF CheckEvidence, TypeOK, data, history
  <2>4. \E from, to, local : Go(s, from, to, local) /\ StepTyped(to, local)
    <3>1. /\ StepTyped("evidence", [v EXCEPT !.left = @ \ {x}])
          /\ StepTyped("unlink", [[v EXCEPT !.left = @ \ {x}] EXCEPT !.email = x])
      BY <1>0, <2>2, SweepLocalsTyped, Zenon
    <3> QED
      BY <2>1, <3>1, Zenon
  <2> QED
    BY <1>0, <2>3, <2>4, TypesKept
<1>7. CASE EndSweep(s) \/ SweepLost(s)
  <2>1. \E from : Go(s, from, "done", Blank)
    BY <1>7 DEF EndSweep, SweepLost, Leave
  <2>2. /\ UNCHANGED <<data, clash>> /\ protected' = [protected EXCEPT ![s] = {}]
        /\ torn' = torn \/ torn' = torn \cup {my[x].email : x \in {y \in {s} : at[y] \in Deleting}}
    BY <1>7, Zenon DEF EndSweep, SweepLost
  <2>3. at[s] \in Deleting => v.email \in Emails
    BY <1>0 DEF StepTyped, OnEmail, Erasing
  <2>4. torn' \subseteq Emails
    BY <1>0, <2>2, <2>3 DEF TypeOK
  <2>5. TypeOK' /\ protected' \in [Sweepers -> SUBSET Emails]
    BY <1>0, <2>2, <2>4 DEF TypeOK, data
  <2> QED
    BY <2>1, <2>5, BlankTyped, TypesKept
<1> QED
  BY <1>1, <1>2, <1>3, <1>4, <1>5, <1>6, <1>7 DEF Sweep

LEMMA RequestTyped ==
  ASSUME TypeInv, NEW e \in Emails, Request(e)
  PROVE  TypeInv'
<1>1. TypeOK
  BY DEF TypeInv
<1>2. runs[e] \in 0..MaxRuns /\ runs[e] < MaxRuns /\ MaxRuns \in Nat
  BY <1>1, ScoresAreNumbers DEF TypeOK, Request
<1>3. runs[e] + 1 \in 0..MaxRuns
  BY <1>2
<1>4. torn' \subseteq Emails
  BY <1>1 DEF Request, TypeOK
<1>5. TypeOK'
  BY <1>1, <1>3, <1>4 DEF Request, TypeOK
<1> QED
  BY <1>5 DEF TypeInv, Request

\* A report changes only the place of its own request.
ReportSteps == Building \cup {"insert", "insert job", "queued", "fail report", "done"}

LEMMA ReportingMoves ==
  ASSUME NEW r \in Requests, Reporting(r)
  PROVE  \/ at' = at /\ my' = my
         \/ \E from : \E to \in ReportSteps : Go(r, from, to, my[r])
<1> USE DEF Step, Takes, ReportSteps, Building
<1>1. CASE \E c \in Cases : AskReport(r, c)
  BY <1>1 DEF AskReport
<1>2. CASE InsertReport(r) \/ InsertJob(r) \/ ClaimReport(r)
  BY <1>2 DEF InsertReport, InsertJob, ClaimReport
<1>3. CASE TakeCase(r) \/ TakeAnalyses(r)
  BY <1>3 DEF TakeCase, TakeAnalyses
<1>4. CASE TakeRows(r) \/ TakeOriginals(r)
  BY <1>4 DEF TakeRows, TakeOriginals
<1>5. CASE Write(r, "pdf", "json") \/ Write(r, "json", "mark")
  BY <1>5 DEF Write
<1>6. CASE MarkReport(r) \/ FinishJob(r) \/ Custody(r)
  BY <1>6 DEF MarkReport, FinishJob, Custody
<1>7. CASE FailJob(r) \/ FailReport(r) \/ ReportLost(r)
  BY <1>7 DEF FailJob, FailReport, ReportLost
<1>8. CASE ExpireReport(r) \/ FailExpired(r)
  BY <1>8 DEF ExpireReport, FailExpired
<1> HIDE DEF Step, Takes, ReportSteps, Building
<1> QED
  BY <1>1, <1>2, <1>3, <1>4, <1>5, <1>6, <1>7, <1>8 DEF Reporting

LEMMA ReportingTyped ==
  ASSUME TypeInv, NEW r \in Requests, Reporting(r), UNCHANGED <<data, history, cut>>
  PROVE  TypeInv'
<1>1. TypeOK' /\ protected' \in [Sweepers -> SUBSET Emails]
  BY DEF TypeInv, TypeOK, data, history
<1>2. CASE at' = at /\ my' = my
  BY <1>1, <1>2 DEF TypeInv
<1>3. ASSUME NEW from, NEW to \in ReportSteps, Go(r, from, to, my[r])
      PROVE  TypeInv'
  <2>1. r \in Actors
    BY DEF Actors
  <2>2. StepTyped(to, my[r])
    <3>1. my[r] \in Locals
      BY <2>1 DEF TypeInv, StepTyped
    <3> QED
      BY <3>1 DEF StepTyped, ReportSteps, Building, OnEmail, OnCase, Scored, Erasing, Deleting
  <2> QED
    BY <1>1, <1>3, <2>1, <2>2, TypesKept
<1> QED
  BY <1>2, <1>3, ReportingMoves

LEMMA TypeInit == Init => TypeInv
<1> SUFFICES ASSUME Init PROVE TypeInv
  OBVIOUS
<1>1. TypeOK
  <2>1. summary \in [Emails -> Scores \cup {0}] /\ indexed \subseteq Emails
    BY DEF Init
  <2>2. \A e \in Emails : e \in indexed => summary[e] \in Scores
    BY DEF Init
  <2>3. 0 \in 0..MaxRuns
    BY ScoresAreNumbers
  <2>4. analysis \in [Emails -> {Missing} \cup Analyses]
    BY <2>2, <2>3 DEF Init, Analyses
  <2>5. \A e \in Emails : Alerting(summary[e]) => summary[e] \in Scores
    <3>1. \A e \in Emails : summary[e] \in Scores \cup {0}
      BY <2>1
    <3>2. ~Alerting(0)
      BY ThresholdsArePositive DEF Alerting
    <3> QED
      BY <3>1, <3>2
  <2> QED
    BY <2>1, <2>2, <2>3, <2>4, <2>5 DEF Init, TypeOK, Alerts
<1>2. /\ protected \in [Sweepers -> SUBSET Emails]
      /\ DOMAIN at = Actors /\ DOMAIN my = Actors
      /\ \A a \in Actors : at[a] \in {"idle", "done"} /\ my[a] = Blank
  BY DEF Init
<1> QED
  BY <1>1, <1>2, BlankTyped DEF TypeInv

LEMMA TypeStep == TypeInv /\ [ReportNext]_allVars => TypeInv'
<1> SUFFICES ASSUME TypeInv, [ReportNext]_allVars PROVE TypeInv'
  OBVIOUS
<1>1. CASE Next
  <2>1. CASE \E e \in Emails : Request(e)
    BY <2>1, RequestTyped
  <2>2. CASE \E w \in Workers : Work(w)
    BY <2>2, WorkTyped
  <2>3. CASE \E r \in Rescorers : Rescoring(r)
    BY <2>3, RescoringTyped
  <2>4. CASE \E a \in Workers \cup Rescorers : Publish(a)
    BY <2>4, PublishTyped
  <2>5. CASE \E n \in Analysts : Investigate(n)
    BY <2>5, InvestigateTyped
  <2>6. CASE \E s \in Sweepers : Sweep(s)
    BY <2>6, SweepTyped
  <2> QED
    BY <1>1, <2>1, <2>2, <2>3, <2>4, <2>5, <2>6, Zenon DEF Next
<1>2. CASE \E r \in Requests : Reporting(r) /\ UNCHANGED <<data, history, cut>>
  BY <1>2, ReportingTyped
<1>3. CASE UNCHANGED allVars
  <2>1. UNCHANGED <<data, at, my, history>>
    BY <1>3, Zenon DEF allVars, vars
  <2> QED
    BY <2>1 DEF TypeInv, TypeOK, StepTyped, data, history
<1> QED
  BY <1>1, <1>2, <1>3, Zenon DEF ReportNext

\* Type correctness of the investigations, beside report jobs and, with them,
\* alone.
LEMMA AlwaysTyped == ReportSpec => []TypeInv
<1>1. ReportInit => TypeInv
  BY TypeInit DEF ReportInit
<1> QED
  BY <1>1, TypeStep, PTL DEF ReportSpec

\* Every row, score and status is of its type whatever the crews and whoever is
\* lost: so no score that an alert or a case shows is one no analysis could have.
THEOREM InvestigationTypes == ReportSpec => []TypeOK
<1>1. TypeInv => TypeOK
  BY DEF TypeInv
<1> QED
  BY <1>1, AlwaysTyped, PTL

----------------------------------------------------------------------------
(* The status of an alert. *)

StatusKept ==
    \A e \in Emails : alert[e] # Missing /\ alert'[e] # Missing => alert'[e].status = alert[e].status

LEMMA PublishKeepsStatus ==
  ASSUME TypeInv, NEW a \in Workers \cup Rescorers, Publish(a)
  PROVE  StatusKept
<1> DEFINE v == my[a]
<1>1. TypeOK
  BY DEF TypeInv
<1>2. CASE RefreshAlert(a)
  <2>1. \A e \in Emails : alert'[e] = alert[e] \/ alert'[e] = Refreshed(alert[e], v.score)
    BY <1>1, <1>2 DEF RefreshAlert, TypeOK
  <2>2. \A e \in Emails : alert[e] # Missing =>
          Refreshed(alert[e], v.score).status = alert[e].status
    BY <1>1 DEF TypeOK, Refreshed
  <2> QED
    BY <2>1, <2>2, Zenon DEF StatusKept
<1>3. CASE RaiseAlert(a)
  <2>1. alert' = alert \/ \E row : alert[v.email] = Missing /\ alert' = [alert EXCEPT ![v.email] = row]
    BY <1>3 DEF RaiseAlert
  <2> QED
    BY <1>1, <2>1 DEF TypeOK, StatusKept
<1>4. CASE Summarise(a) \/ FindCases(a) \/ ReadHighest(a) \/ WriteHighest(a) \/ NoCaseLeft(a)
  <2>1. alert' = alert
    BY <1>4, Zenon DEF Summarise, FindCases, ReadHighest, WriteHighest, NoCaseLeft, data
  <2> QED
    BY <2>1 DEF StatusKept
<1> QED
  BY <1>2, <1>3, <1>4 DEF Publish

LEMMA InvestigateKeepsStatus ==
  ASSUME TypeInv, NEW n \in Analysts, Investigate(n)
  PROVE  StatusKept \/ (at[n] = "idle" /\ at'[n] = "done")
<1> DEFINE v == my[n]
<1>1. TypeOK /\ n \in DOMAIN at
  BY DEF TypeInv, Actors
<1>2. CASE \E e \in Emails : ChangeAlert(n, e)
  BY <1>1, <1>2 DEF ChangeAlert, Leave, Go
<1>3. CASE AssignAlert(n)
  <2>1. \A e \in Emails : alert'[e] = alert[e] \/ alert'[e] = [alert[e] EXCEPT !.case = v.case]
    BY <1>1, <1>3 DEF AssignAlert, TypeOK
  <2>2. \A e \in Emails : alert[e] # Missing =>
          [alert[e] EXCEPT !.case = v.case].status = alert[e].status
    BY <1>1 DEF TypeOK
  <2> QED
    BY <2>1, <2>2, Zenon DEF StatusKept
<1>4. CASE \/ \E c \in Cases, e \in Emails : ReadCase(n, c, e) \/ ReadEvidence(n, c, e)
           \/ \E S \in SUBSET Emails : ReadAnalyses(n, S)
           \/ ReadEmail(n) \/ LinkEmail(n) \/ LinkEvidence(n) \/ ListEvidence(n) \/ InsertCampaign(n)
  <2>1. alert' = alert
    BY <1>4, Zenon DEF ReadCase, ReadEvidence, ReadAnalyses, ReadEmail, LinkEmail, LinkEvidence,
       ListEvidence, InsertCampaign, data
  <2> QED
    BY <2>1 DEF StatusKept
<1> QED
  BY <1>2, <1>3, <1>4, Zenon DEF Investigate

LEMMA SweepKeepsStatus ==
  ASSUME TypeInv, NEW s \in Sweepers, Sweep(s)
  PROVE  StatusKept
<1>1. TypeOK
  BY DEF TypeInv
<1>2. CASE DropAlert(s)
  BY <1>1, <1>2 DEF DropAlert, TypeOK, StatusKept
<1>3. CASE ~DropAlert(s)
  <2>1. alert' = alert
    BY <1>3, Zenon DEF Sweep, Tick, CheckEmail, DropAnalysis, DropEmail, DropIndex, DropJobs,
       ScanEvidence, CheckEvidence, Unlink, DropRow, EndSweep, SweepLost, data
  <2> QED
    BY <2>1 DEF StatusKept
<1> QED
  BY <1>2, <1>3

LEMMA StatusStep ==
  ASSUME TypeInv, [ReportNext]_allVars
  PROVE  StatusKept \/ \E n \in Analysts : at[n] = "idle" /\ at'[n] = "done"
<1>1. CASE Next
  <2>1. CASE \E e \in Emails : Request(e)
    BY <2>1 DEF Request, StatusKept
  <2>2. CASE \E w \in Workers : Work(w)
    <3>1. alert' = alert
      BY <2>2, Zenon DEF Work, Claim, ReadOriginal, Store, Index, Complete, WorkerLost
    <3> QED
      BY <3>1 DEF StatusKept
  <2>3. CASE \E r \in Rescorers : Rescoring(r)
    <3>1. alert' = alert
      BY <2>3, Zenon DEF Rescoring, Pick, CheckIdle, Rescore, data
    <3> QED
      BY <3>1 DEF StatusKept
  <2>4. CASE \E a \in Workers \cup Rescorers : Publish(a)
    BY <2>4, PublishKeepsStatus
  <2>5. CASE \E n \in Analysts : Investigate(n)
    BY <2>5, InvestigateKeepsStatus
  <2>6. CASE \E s \in Sweepers : Sweep(s)
    BY <2>6, SweepKeepsStatus
  <2> QED
    BY <1>1, <2>1, <2>2, <2>3, <2>4, <2>5, <2>6, Zenon DEF Next
<1>2. CASE \E r \in Requests : Reporting(r) /\ UNCHANGED <<data, history, cut>>
  <2>1. alert' = alert
    BY <1>2, Zenon DEF data
  <2> QED
    BY <2>1 DEF StatusKept
<1>3. CASE UNCHANGED allVars
  <2>1. alert' = alert
    BY <1>3, Zenon DEF allVars, vars, data
  <2> QED
    BY <2>1 DEF StatusKept
<1> QED
  BY <1>1, <1>2, <1>3, Zenon DEF ReportNext

\* What an analyst decided about an alert stays: no re-analysis, rescoring, link or
\* sweep changes the status of an alert that exists before and after its step.
THEOREM StatusIsTheAnalysts == ReportSpec => AnalystStatusKept
<1> DEFINE Kept == \A e \in Emails :
        (alert[e] # Missing /\ alert'[e] # Missing /\ alert'[e].status # alert[e].status)
            => \E n \in Analysts : at[n] = "idle" /\ at'[n] = "done"
<1>1. TypeInv /\ [ReportNext]_allVars => [Kept]_vars
  BY StatusStep, Zenon DEF StatusKept
<1>2. ReportSpec => [][Kept]_vars
  BY <1>1, AlwaysTyped, PTL DEF ReportSpec
<1> QED
  BY <1>2 DEF AnalystStatusKept

----------------------------------------------------------------------------
(* Who takes which steps. *)

StepsOf(a) ==
    {"idle", "done"} \cup (IF a \in Workers THEN {"read", "store"} \cup Scored
                           ELSE IF a \in Rescorers THEN {"check", "rescore"} \cup Scored
                           ELSE IF a \in Analysts THEN OnCase \cup {"campaign"}
                           ELSE {"emails", "evidence"} \cup Erasing)

Roles == \A a \in Actors \ Requests : at[a] \in StepsOf(a)

LEMMA WorkRole ==
  ASSUME NEW w \in Workers, Work(w)
  PROVE  \E from, local : \E to \in StepsOf(w) : Go(w, from, to, local)
<1> USE DEF StepsOf, Scored
<1>1. CASE \E e \in Emails : Claim(w, e)
  BY <1>1 DEF Claim
<1>2. CASE ReadOriginal(w) \/ Complete(w) \/ WorkerLost(w)
  BY <1>2 DEF ReadOriginal, Complete, WorkerLost, Step, Leave
<1>3. CASE Store(w) \/ Index(w)
  BY <1>3 DEF Store, Index, Step
<1> QED
  BY <1>1, <1>2, <1>3 DEF Work

LEMMA PublishRole ==
  ASSUME NEW a \in Workers \cup Rescorers, Publish(a)
  PROVE  \E from, local : \E to \in StepsOf(a) : Go(a, from, to, local)
<1>0. {"idle", "done"} \cup Scored \subseteq StepsOf(a)
  BY DEF StepsOf
<1>1. CASE Summarise(a) \/ NoCaseLeft(a) \/ RefreshAlert(a) \/ RaiseAlert(a)
  <2>1. \E from, local : \E to \in {"done"} \cup Scored : Go(a, from, to, local)
    BY <1>1 DEF Summarise, NoCaseLeft, RefreshAlert, RaiseAlert, Step, Leave, Scored
  <2> QED
    BY <1>0, <2>1
<1>2. CASE FindCases(a) \/ WriteHighest(a)
  <2>1. \E from, local : Go(a, from, "each case", local)
    BY <1>2 DEF FindCases, WriteHighest
  <2> QED
    BY <1>0, <2>1 DEF Scored
<1>3. CASE ReadHighest(a)
  <2>1. \E from, local : \E to \in {"each case", "write case"} : Go(a, from, to, local)
    BY <1>3 DEF ReadHighest
  <2> QED
    BY <1>0, <2>1 DEF Scored
<1> QED
  BY <1>1, <1>2, <1>3 DEF Publish

LEMMA RescoringRole ==
  ASSUME NEW r \in Rescorers, Rescoring(r)
  PROVE  \E from, local : \E to \in StepsOf(r) : Go(r, from, to, local)
<1>1. r \notin Workers
  BY ActorsAreDistinct
<1> USE <1>1 DEF StepsOf, Scored
<1>2. CASE \E e \in Emails : Pick(r, e)
  BY <1>2 DEF Pick
<1>3. CASE CheckIdle(r)
  BY <1>3 DEF CheckIdle, Step, Leave
<1>4. CASE Rescore(r)
  BY <1>4 DEF Rescore, Leave
<1> QED
  BY <1>2, <1>3, <1>4 DEF Rescoring

LEMMA InvestigateRole ==
  ASSUME NEW n \in Analysts, Investigate(n)
  PROVE  \E from, local : \E to \in StepsOf(n) : Go(n, from, to, local)
<1>1. n \notin Workers \cup Rescorers
  BY ActorsAreDistinct
<1> USE <1>1 DEF StepsOf, OnCase
<1>2. CASE \E c \in Cases, e \in Emails : ReadCase(n, c, e) \/ ReadEvidence(n, c, e)
  BY <1>2 DEF ReadCase, ReadEvidence
<1>3. CASE \E S \in SUBSET Emails : ReadAnalyses(n, S)
  BY <1>3 DEF ReadAnalyses
<1>4. CASE (\E e \in Emails : ChangeAlert(n, e)) \/ ReadEmail(n)
  BY <1>4 DEF ChangeAlert, ReadEmail, Leave
<1>5. CASE LinkEmail(n) \/ LinkEvidence(n) \/ AssignAlert(n)
  BY <1>5 DEF LinkEmail, LinkEvidence, AssignAlert, Step, Leave
<1>6. CASE ListEvidence(n) \/ InsertCampaign(n)
  BY <1>6 DEF ListEvidence, InsertCampaign, Step, Leave
<1> QED
  BY <1>2, <1>3, <1>4, <1>5, <1>6 DEF Investigate

LEMMA SweepRole ==
  ASSUME NEW s \in Sweepers, Sweep(s)
  PROVE  \E from, local : \E to \in StepsOf(s) : Go(s, from, to, local)
<1>1. s \notin Workers \cup Rescorers \cup Analysts
  BY ActorsAreDistinct
<1> USE <1>1 DEF StepsOf, Erasing, Deleting
<1>2. CASE Tick(s) \/ CheckEmail(s)
  BY <1>2 DEF Tick, CheckEmail
<1>3. CASE DropAnalysis(s) \/ DropEmail(s) \/ DropIndex(s) \/ DropJobs(s)
  BY <1>3 DEF DropAnalysis, DropEmail, DropIndex, DropJobs, Step
<1>4. CASE DropAlert(s) \/ ScanEvidence(s) \/ CheckEvidence(s)
  BY <1>4 DEF DropAlert, ScanEvidence, CheckEvidence
<1>5. CASE Unlink(s) \/ DropRow(s) \/ EndSweep(s) \/ SweepLost(s)
  BY <1>5 DEF Unlink, DropRow, EndSweep, SweepLost, Step, Leave
<1> QED
  BY <1>2, <1>3, <1>4, <1>5 DEF Sweep

LEMMA RoleStep == TypeInv /\ Roles /\ [ReportNext]_allVars => Roles'
<1> SUFFICES ASSUME TypeInv, Roles, [ReportNext]_allVars PROVE Roles'
  OBVIOUS
<1>1. ASSUME NEW a \in Actors \ Requests,
             \E from, local : \E to \in StepsOf(a) : Go(a, from, to, local)
      PROVE  Roles'
  BY <1>1 DEF Go, TypeInv, Roles, StepsOf
<1>2. Workers \cup Rescorers \cup Analysts \cup Sweepers \subseteq Actors \ Requests
  BY ActorsAreDistinct DEF Actors
<1>3. CASE Next
  <2>1. CASE \E e \in Emails : Request(e)
    BY <2>1 DEF Request, Roles, StepsOf
  <2>2. CASE \E w \in Workers : Work(w)
    BY <1>1, <1>2, <2>2, WorkRole
  <2>3. CASE \E r \in Rescorers : Rescoring(r)
    BY <1>1, <1>2, <2>3, RescoringRole
  <2>4. CASE \E a \in Workers \cup Rescorers : Publish(a)
    BY <1>1, <1>2, <2>4, PublishRole
  <2>5. CASE \E n \in Analysts : Investigate(n)
    BY <1>1, <1>2, <2>5, InvestigateRole
  <2>6. CASE \E s \in Sweepers : Sweep(s)
    BY <1>1, <1>2, <2>6, SweepRole
  <2> QED
    BY <1>3, <2>1, <2>2, <2>3, <2>4, <2>5, <2>6, Zenon DEF Next
<1>4. ASSUME NEW r \in Requests, Reporting(r)
      PROVE  Roles'
  BY <1>4, ReportingMoves DEF Go, TypeInv, Roles, StepsOf
<1>5. CASE UNCHANGED allVars
  <2>1. at' = at
    BY <1>5, Zenon DEF allVars, vars
  <2> QED
    BY <2>1 DEF Roles, StepsOf
<1> QED
  BY <1>3, <1>4, <1>5, Zenon DEF ReportNext

LEMMA AlwaysInRole == ReportSpec => [](TypeInv /\ Roles)
<1>1. ReportInit => Roles
  BY DEF ReportInit, Init, Roles, StepsOf
<1> QED
  BY <1>1, RoleStep, AlwaysTyped, PTL DEF ReportSpec

----------------------------------------------------------------------------
(* Deletions leave nothing behind. *)

LEMMA Deleted ==
  ASSUME NEW e
  PROVE  /\ e \in BeingDeleted <=> \E s \in Sweepers : at[s] \in Deleting /\ my[s].email = e
         /\ (e \in BeingDeleted)' <=> \E s \in Sweepers : at'[s] \in Deleting /\ my'[s].email = e
  BY DEF BeingDeleted

LEMMA BusyOnEmail ==
  ASSUME TypeInv, Roles, NEW a \in Workers \cup Rescorers, Busy(a)
  PROVE  at[a] \in OnEmail /\ my[a].email \in Emails
<1>1. a \in Actors \ Requests
  BY ActorsAreDistinct DEF Actors
<1>2. at[a] \in OnEmail
  BY <1>1 DEF Roles, StepsOf, Busy, OnEmail
<1> QED
  BY <1>1, <1>2 DEF TypeInv, StepTyped

\* Who is not a sweep leaves the deletions under way as they are.
LEMMA SweepsApart ==
  ASSUME \A s \in Sweepers : at'[s] = at[s] /\ my'[s] = my[s]
  PROVE  BeingDeleted' = BeingDeleted
<1>1. \A e : e \in BeingDeleted' <=> e \in BeingDeleted
  BY Deleted
<1> QED
  BY <1>1, Zenon

\* A step that changes nothing that a deletion or a scorer relies on.
Aside ==
    /\ UNCHANGED <<emails, analysis, indexed, job>>
    /\ \A e \in Emails : alert'[e] = Missing <=> alert[e] = Missing
    /\ torn \subseteq torn'
    /\ \A a \in Workers \cup Rescorers \cup Sweepers : at'[a] = at[a] /\ my'[a] = my[a]

LEMMA AsideDeletes ==
  ASSUME TypeInv, DeletionInv, Aside
  PROVE  DeletionInv'
<1>1. BeingDeleted' = BeingDeleted
  BY SweepsApart DEF Aside
<1>2. NoOrphans'
  BY <1>1 DEF DeletionInv, NoOrphans, Aside
<1>3. \A s \in Sweepers : Erased(s)' /\ RowDropped(s)'
  BY DEF DeletionInv, Erased, RowDropped, Aside
<1>4. \A a \in Workers \cup Rescorers : Outside(a)'
  BY <1>1 DEF DeletionInv, Outside, Busy, Aside
<1>5. \A w \in Workers : OwnJob(w)'
  BY DEF DeletionInv, OwnJob, Busy, Aside
<1> QED
  BY <1>2, <1>3, <1>4, <1>5 DEF DeletionInv, Aside

\* A step of somebody at work, on the email it works on.
OnOwn(a) ==
    LET e == my[a].email IN
    /\ Busy(a) /\ Apart(a) /\ (Busy(a)' => my'[a].email = e)
    /\ UNCHANGED <<emails, torn>>
    /\ \A x \in Emails \ {e} :
        /\ UNCHANGED <<analysis[x], alert[x], job[x]>>
        /\ x \in indexed' <=> x \in indexed
    /\ job'[e] = "Gone" <=> job[e] = "Gone"
    /\ IF a \in Workers THEN Busy(a)' => job'[e] = job[e] ELSE job' = job

LEMMA OnOwnDeletes ==
  ASSUME TypeInv, Roles, DeletionInv, NEW a \in Workers \cup Rescorers, OnOwn(a)
  PROVE  DeletionInv'
<1> DEFINE e == my[a].email
<1>1. \A b \in Actors \ {a} : at'[b] = at[b] /\ my'[b] = my[b]
  BY DEF OnOwn, Apart
<1>2. \A s \in Sweepers : at'[s] = at[s] /\ my'[s] = my[s]
  BY <1>1, ActorsAreDistinct DEF Actors
<1>3. BeingDeleted' = BeingDeleted
  BY <1>2, SweepsApart
<1>4. UNCHANGED <<emails, torn>>
  BY DEF OnOwn
<1>5. e \in torn \/ e \in emails \ BeingDeleted
  BY DEF DeletionInv, Outside, OnOwn
<1>6. NoOrphans'
  BY <1>3, <1>4, <1>5 DEF DeletionInv, NoOrphans, OnOwn
<1>7. \A s \in Sweepers : Erased(s)' /\ RowDropped(s)'
  <2> TAKE s \in Sweepers
  <2>1. at[s] \in Deleting => my[s].email \in Emails
    BY DEF TypeInv, StepTyped, OnEmail, Erasing, Actors
  <2>2. at[s] \in Deleting /\ my[s].email \notin torn => my[s].email \in Emails \ {e}
    BY <1>5, <2>1, Deleted
  <2>3. Erased(s)
    BY DEF DeletionInv
  <2>4. Erased(s)'
    BY <1>2, <1>4, <2>2, <2>3 DEF Erased, OnOwn
  <2> QED
    BY <1>2, <1>4, <2>4 DEF DeletionInv, RowDropped
<1>8. \A b \in Workers \cup Rescorers : Outside(b)'
  BY <1>1, <1>3, <1>4, <1>5 DEF DeletionInv, Outside, Busy, OnOwn, Actors
<1>9. \A w \in Workers : OwnJob(w)'
  <2> TAKE w \in Workers
  <2>1. OwnJob(w)
    BY DEF DeletionInv
  <2>2. CASE w = a
    BY <1>1, <2>1, <2>2 DEF OwnJob, Busy, OnOwn, Actors
  <2>3. CASE w # a
    <3>1. Busy(w)' => Busy(w) /\ my'[w] = my[w]
      BY <1>1, <2>3 DEF Busy, Actors
    <3>2. Busy(w) => my[w].email \in Emails
      BY BusyOnEmail
    <3>3. Busy(w)' => job'[my[w].email] = job[my[w].email]
      <4>1. CASE a \in Workers
        <5>1. Busy(w) => my[w].email \in Emails \ {e}
          BY <2>1, <2>3, <3>2, <4>1 DEF OwnJob, OnOwn
        <5> QED
          BY <3>1, <5>1 DEF OnOwn
      <4>2. CASE a \notin Workers
        BY <4>2 DEF OnOwn
      <4> QED
        BY <4>1, <4>2
    <3> QED
      BY <1>1, <2>1, <2>3, <3>1, <3>3 DEF OwnJob, Busy, OnOwn, Actors
  <2> QED
    BY <2>2, <2>3
<1>10. \A x \in emails' : job'[x] # "Gone"
  BY <1>4 DEF DeletionInv, OnOwn, TypeInv, TypeOK
<1> QED
  BY <1>6, <1>7, <1>8, <1>9, <1>10 DEF DeletionInv

LEMMA Moves ==
  ASSUME TypeInv, NEW a \in Actors, NEW from, NEW to, NEW local, Go(a, from, to, local)
  PROVE  Apart(a) /\ at[a] = from /\ at'[a] = to /\ my'[a] = local
  BY DEF TypeInv, Go, Apart

LEMMA SameEmail ==
  ASSUME NEW v \in Locals, NEW x, NEW y, NEW z
  PROVE  /\ [v EXCEPT !.score = x].email = v.email
         /\ [v EXCEPT !.score = x, !.seen = y].email = v.email
         /\ [v EXCEPT !.case = x, !.seen = y].email = v.email
         /\ [v EXCEPT !.left = x].email = v.email
         /\ [[v EXCEPT !.left = x] EXCEPT !.case = y, !.seen = z].email = v.email
  BY DEF Locals

LEMMA FinishedOnOwn ==
  ASSUME TypeOK, NEW e \in Emails, NEW status \in {"Completed", "Failed"}, Finished(e, status)
  PROVE  /\ \A x \in Emails \ {e} : job'[x] = job[x]
         /\ job'[e] = "Gone" <=> job[e] = "Gone"
         /\ job[e] # "Gone" => job'[e] = status
  BY DEF TypeOK, Finished

LEMMA WorkOnOwn ==
  ASSUME TypeInv, Roles, NEW w \in Workers, Work(w), ~\E e \in Emails : Claim(w, e)
  PROVE  OnOwn(w)
<1> DEFINE v == my[w] e == v.email
<1>0. w \in Actors /\ TypeOK /\ v \in Locals /\ (Busy(w) => e \in Emails)
  BY BusyOnEmail DEF Actors, TypeInv, StepTyped
<1>1. CASE ReadOriginal(w)
  <2>1. \/ Go(w, "read", "store", v) /\ job' = job
        \/ Go(w, "read", "done", Blank) /\ Finished(e, "Failed")
    BY <1>1 DEF ReadOriginal, Step, Leave
  <2>2. UNCHANGED <<emails, analysis, indexed, alert, torn>>
    BY <1>1, Zenon DEF ReadOriginal, history
  <2>3. at[w] = "read" /\ Apart(w)
        /\ (at'[w] = "done" \/ (at'[w] = "store" /\ my'[w] = v /\ job' = job))
    <3>1. CASE Go(w, "read", "store", v) /\ job' = job
      BY <1>0, <3>1, Moves
    <3>2. CASE Go(w, "read", "done", Blank)
      BY <1>0, <3>2, Moves
    <3> QED
      BY <2>1, <3>1, <3>2
  <2>4. Busy(w) /\ e \in Emails
    BY <1>0, <2>3 DEF Busy
  <2>5. job' = job \/ Finished(e, "Failed")
    BY <2>1
  <2> QED
    BY <1>0, <2>2, <2>3, <2>4, <2>5, FinishedOnOwn DEF OnOwn, Busy
<1>2. CASE Store(w)
  <2>1. PICK s \in Scores :
          /\ Go(w, "store", "summary", [v EXCEPT !.score = s])
          /\ analysis' = [analysis EXCEPT ![e] =
                [run |-> runs[e], basis |-> runs[e], score |-> s, version |-> "new"]]
    BY <1>2 DEF Store
  <2>2. UNCHANGED <<emails, job, indexed, alert, torn>>
    BY <1>2, Zenon DEF Store, history
  <2>3. at[w] = "store" /\ Apart(w) /\ my'[w].email = e
    <3>1. [v EXCEPT !.score = s].email = e
      BY <1>0, SameEmail
    <3> DEFINE local == [v EXCEPT !.score = s]
    <3> HIDE DEF local
    <3>2. Go(w, "store", "summary", local)
      BY <2>1 DEF local
    <3>3. at[w] = "store" /\ Apart(w) /\ my'[w] = local
      BY <1>0, <3>2, Moves
    <3> QED
      BY <3>1, <3>3 DEF local
  <2>4. \A x \in Emails \ {e} : analysis'[x] = analysis[x]
    BY <1>0, <2>1 DEF TypeOK
  <2> QED
    BY <2>2, <2>3, <2>4 DEF OnOwn, Busy
<1>3. CASE Index(w)
  <2>1. Go(w, "index", "refresh", v) /\ indexed' = indexed \cup {e}
    BY <1>3 DEF Index, Step
  <2>2. UNCHANGED <<emails, job, analysis, alert, torn>>
    BY <1>3, Zenon DEF Index, history
  <2>3. at[w] = "index" /\ Apart(w) /\ my'[w].email = e
    BY <1>0, <2>1, Moves
  <2> QED
    BY <2>1, <2>2, <2>3 DEF OnOwn, Busy
<1>4. CASE Complete(w) \/ WorkerLost(w)
  <2>1. \E from : from \notin {"idle", "done"} /\ Go(w, from, "done", Blank)
    BY <1>4 DEF Complete, WorkerLost, Leave, Busy
  <2>2. UNCHANGED <<emails, analysis, indexed, alert, torn>>
    BY <1>4, Zenon DEF Complete, WorkerLost, history
  <2>3. Busy(w) /\ Apart(w) /\ ~Busy(w)'
    BY <1>0, <2>1, Moves DEF Busy
  <2>4. \E status \in {"Completed", "Failed"} : Finished(e, status)
    BY <1>4 DEF Complete, WorkerLost
  <2> QED
    BY <1>0, <2>2, <2>3, <2>4, FinishedOnOwn DEF OnOwn
<1> QED
  BY <1>1, <1>2, <1>3, <1>4 DEF Work

LEMMA PublishOnOwn ==
  ASSUME TypeInv, Roles, NEW a \in Workers \cup Rescorers, Publish(a)
  PROVE  OnOwn(a)
<1> DEFINE v == my[a] e == v.email
<1>0. a \in Actors /\ TypeOK /\ v \in Locals
  BY DEF Actors, TypeInv, StepTyped
<1>1. UNCHANGED <<emails, analysis, indexed, job, torn>>
  BY Zenon DEF Publish, Summarise, FindCases, ReadHighest, WriteHighest, NoCaseLeft, RefreshAlert,
     RaiseAlert, data, history
<1>2. \A x \in Emails \ {e} : alert'[x] = alert[x]
  <2>1. alert' = alert \/ \E row : alert' = [alert EXCEPT ![e] = row]
    <3>1. CASE RefreshAlert(a)
      BY <3>1 DEF RefreshAlert
    <3>2. CASE RaiseAlert(a)
      BY <3>2 DEF RaiseAlert
    <3>3. CASE Summarise(a) \/ FindCases(a) \/ ReadHighest(a) \/ WriteHighest(a) \/ NoCaseLeft(a)
      BY <3>3, Zenon DEF Summarise, FindCases, ReadHighest, WriteHighest, NoCaseLeft, data
    <3> QED
      BY <3>1, <3>2, <3>3 DEF Publish
  <2> QED
    BY <1>0, <2>1 DEF TypeOK
<1>3. ASSUME NEW from \in Scored, NEW to, NEW local, Go(a, from, to, local), local.email = e
      PROVE  Busy(a) /\ Apart(a) /\ (Busy(a)' => my'[a].email = e)
  <2>1. from \notin {"idle", "done"}
    BY DEF Scored
  <2> QED
    BY <1>0, <1>3, <2>1, Moves DEF Busy
<1>4. Busy(a) /\ Apart(a) /\ (Busy(a)' => my'[a].email = e)
  <2>1. CASE Summarise(a) \/ NoCaseLeft(a) \/ RefreshAlert(a) \/ RaiseAlert(a)
    <3>1. \/ \E from \in Scored : \E to : Go(a, from, to, v)
          \/ \E from \in Scored : Go(a, from, "done", Blank)
      BY <2>1 DEF Summarise, NoCaseLeft, RefreshAlert, RaiseAlert, Step, Leave, Scored
    <3>2. CASE \E from \in Scored : \E to : Go(a, from, to, v)
      BY <1>3, <3>2
    <3>3. ASSUME NEW from \in Scored, Go(a, from, "done", Blank)
          PROVE  Busy(a) /\ Apart(a) /\ ~Busy(a)'
      BY <1>0, <3>3, Moves DEF Busy, Scored
    <3> QED
      BY <3>1, <3>2, <3>3
  <2>2. CASE FindCases(a)
    <3>1. PICK S : Go(a, "cases", "each case", [v EXCEPT !.left = S])
      BY <2>2 DEF FindCases
    <3> DEFINE local == [v EXCEPT !.left = S]
    <3>2. local.email = e
      BY <1>0, SameEmail
    <3> HIDE DEF local
    <3>3. Go(a, "cases", "each case", local)
      BY <3>1 DEF local
    <3> QED
      BY <1>3, <3>2, <3>3 DEF Scored
  <2>3. CASE ReadHighest(a)
    <3>1. PICK S, c, seen : \/ Go(a, "each case", "each case", [v EXCEPT !.left = S])
                            \/ Go(a, "each case", "write case",
                                  [[v EXCEPT !.left = S] EXCEPT !.case = c, !.seen = seen])
      BY <2>3 DEF ReadHighest
    <3> DEFINE rest == [v EXCEPT !.left = S]
               next == [[v EXCEPT !.left = S] EXCEPT !.case = c, !.seen = seen]
    <3>2. rest.email = e /\ next.email = e
      BY <1>0, SameEmail
    <3> HIDE DEF rest, next
    <3>3. Go(a, "each case", "each case", rest) \/ Go(a, "each case", "write case", next)
      BY <3>1 DEF rest, next
    <3> QED
      BY <1>3, <3>2, <3>3 DEF Scored
  <2>4. CASE WriteHighest(a)
    <3> DEFINE local == [v EXCEPT !.case = Missing, !.seen = Missing]
    <3>1. local.email = e
      BY <1>0, SameEmail
    <3> HIDE DEF local
    <3>2. Go(a, "write case", "each case", local)
      BY <2>4 DEF WriteHighest, local
    <3> QED
      BY <1>3, <3>1, <3>2 DEF Scored
  <2> QED
    BY <2>1, <2>2, <2>3, <2>4 DEF Publish
<1> QED
  BY <1>1, <1>2, <1>4 DEF OnOwn

LEMMA RescoringOnOwn ==
  ASSUME TypeInv, Roles, NEW r \in Rescorers, Rescoring(r), ~\E e \in Emails : Pick(r, e)
  PROVE  OnOwn(r)
<1> DEFINE v == my[r] e == v.email
<1>0. r \in Actors /\ TypeOK /\ v \in Locals
  BY DEF Actors, TypeInv, StepTyped
<1>1. CASE CheckIdle(r)
  <2>1. Go(r, "check", "rescore", v) \/ Go(r, "check", "done", Blank)
    BY <1>1 DEF CheckIdle, Step, Leave
  <2>2. UNCHANGED <<emails, analysis, indexed, job, alert, torn>>
    BY <1>1, Zenon DEF CheckIdle, data, history
  <2>3. Busy(r) /\ Apart(r) /\ (Busy(r)' => my'[r].email = e)
    BY <1>0, <2>1, Moves DEF Busy
  <2> QED
    BY <2>2, <2>3 DEF OnOwn
<1>2. CASE Rescore(r)
  <2>1. \/ \E s \in Scores : Go(r, "rescore", "summary", [v EXCEPT !.score = s, !.seen = Missing])
        \/ Go(r, "rescore", "done", Blank)
    BY <1>2 DEF Rescore, Leave
  <2>2. UNCHANGED <<emails, indexed, job, alert, torn>>
    BY <1>2, Zenon DEF Rescore, history
  <2>3. analysis' = analysis \/ \E row : analysis' = [analysis EXCEPT ![e] = row]
    BY <1>2 DEF Rescore
  <2>4. Busy(r) /\ Apart(r) /\ (Busy(r)' => my'[r].email = e)
    <3>1. \A s \in Scores : [v EXCEPT !.score = s, !.seen = Missing].email = e
      BY <1>0, SameEmail
    <3>2. \E to, local : Go(r, "rescore", to, local) /\ (to = "done" \/ local.email = e)
      BY <2>1, <3>1, Zenon
    <3> QED
      BY <1>0, <3>2, Moves DEF Busy
  <2>5. \A x \in Emails \ {e} : analysis'[x] = analysis[x]
    BY <1>0, <2>3 DEF TypeOK
  <2> QED
    BY <2>2, <2>4, <2>5 DEF OnOwn
<1> QED
  BY <1>1, <1>2 DEF Rescoring

\* A worker or a rescoring starts on an email: one that is there, or whose
\* deletion it meets.
LEMMA BeginDeletes ==
  ASSUME TypeInv, Roles, DeletionInv, NEW a \in Workers \cup Rescorers, NEW e \in Emails,
         Apart(a), my'[a].email = e, Starts(a, e), UNCHANGED <<emails, analysis, indexed, alert>>,
         \/ a \in Workers /\ job[e] = "Pending" /\ job' = [job EXCEPT ![e] = "Running"]
         \/ a \notin Workers /\ analysis[e] # Missing /\ job' = job
  PROVE  DeletionInv'
<1>1. \A b \in Actors \ {a} : at'[b] = at[b] /\ my'[b] = my[b]
  BY DEF Apart
<1>2. \A s \in Sweepers : at'[s] = at[s] /\ my'[s] = my[s]
  BY <1>1, ActorsAreDistinct DEF Actors
<1>3. BeingDeleted' = BeingDeleted
  BY <1>2, SweepsApart
<1>4. torn' = torn \cup ({e} \cap BeingDeleted) /\ torn \subseteq torn'
  BY DEF Starts
<1>5. e \in emails \cup torn \cup BeingDeleted
  BY DEF DeletionInv, NoOrphans
<1>6. e \in torn' \/ e \in emails \ BeingDeleted
  BY <1>4, <1>5
<1>7. \A x \in Emails \ {e} : job'[x] = job[x]
  BY DEF TypeInv, TypeOK
<1>8. NoOrphans'
  BY <1>3, <1>4, <1>6, <1>7 DEF DeletionInv, NoOrphans
<1>9. \A s \in Sweepers : Erased(s)' /\ RowDropped(s)'
  <2> TAKE s \in Sweepers
  <2>1. at[s] \in Deleting /\ my[s].email \notin torn' => my[s].email \in Emails \ {e}
    <3>1. at[s] \in Deleting => my[s].email \in Emails
      BY DEF TypeInv, StepTyped, OnEmail, Erasing, Actors
    <3> QED
      BY <1>4, <3>1, Deleted
  <2>2. Erased(s) /\ RowDropped(s)
    BY DEF DeletionInv
  <2> QED
    BY <1>2, <1>4, <1>7, <2>1, <2>2 DEF Erased, RowDropped
<1>10. \A b \in Workers \cup Rescorers : Outside(b)'
  BY <1>1, <1>3, <1>4, <1>6 DEF DeletionInv, Outside, Busy, Actors
<1>11. \A w \in Workers : OwnJob(w)'
  <2>1. \A x \in Workers \ {a} : Busy(x)' => Busy(x) /\ my'[x] = my[x] /\ my[x].email \in Emails
    BY <1>1, BusyOnEmail DEF Busy, Actors
  <2>2. \A x \in Workers : Busy(x) => job[my[x].email] \in {"Running", "Gone"}
    BY DEF DeletionInv, OwnJob
  <2>3. CASE a \in Workers
    <3>1. job[e] = "Pending" /\ job'[e] = "Running"
      BY <2>3 DEF TypeInv, TypeOK
    <3>2. \A x \in Workers \ {a} : Busy(x)' => my'[x].email \in Emails \ {e}
      BY <2>1, <2>2, <3>1
    <3>3. OwnJob(a)'
      BY <3>1, <3>2 DEF OwnJob
    <3>4. ASSUME NEW w \in Workers \ {a} PROVE OwnJob(w)'
      BY <1>7, <2>1, <3>2 DEF DeletionInv, OwnJob
    <3> QED
      BY <3>3, <3>4
  <2>4. CASE a \notin Workers
    BY <2>1, <2>4 DEF DeletionInv, OwnJob
  <2> QED
    BY <2>3, <2>4
<1>12. \A x \in emails' : job'[x] # "Gone"
  BY <1>7 DEF DeletionInv, TypeInv, TypeOK
<1> QED
  BY <1>8, <1>9, <1>10, <1>11, <1>12 DEF DeletionInv

LEMMA RequestDeletes ==
  ASSUME TypeInv, Roles, DeletionInv, NEW e \in Emails, Request(e)
  PROVE  DeletionInv'
<1>1. /\ e \in emails /\ job[e] \in {"Completed", "Failed"}
      /\ UNCHANGED <<emails, analysis, indexed, alert, at, my>>
      /\ torn' = torn \cup ({e} \cap BeingDeleted)
  BY DEF Request
<1>2. \A x \in Emails : job'[x] = IF x = e THEN "Pending" ELSE job[x]
  BY DEF Request, TypeInv, TypeOK
<1>3. BeingDeleted' = BeingDeleted
  BY <1>1, SweepsApart
<1>4. NoOrphans'
  BY <1>1, <1>2, <1>3 DEF DeletionInv, NoOrphans
<1>5. \A s \in Sweepers : Erased(s)' /\ RowDropped(s)'
  <2> TAKE s \in Sweepers
  <2>1. at[s] \in Deleting /\ my[s].email \notin torn' => my[s].email \in Emails \ {e}
    <3>1. at[s] \in Deleting => my[s].email \in Emails
      BY DEF TypeInv, StepTyped, OnEmail, Erasing, Actors
    <3> QED
      BY <1>1, <3>1, Deleted
  <2>2. Erased(s) /\ RowDropped(s)
    BY DEF DeletionInv
  <2> QED
    BY <1>1, <1>2, <2>1, <2>2 DEF Erased, RowDropped
<1>6. \A a \in Workers \cup Rescorers : Outside(a)'
  BY <1>1, <1>3 DEF DeletionInv, Outside, Busy
<1>7. \A w \in Workers : OwnJob(w)'
  <2> TAKE w \in Workers
  <2>1. Busy(w) => my[w].email \in Emails \ {e}
    BY <1>1, BusyOnEmail DEF DeletionInv, OwnJob
  <2> QED
    BY <1>1, <1>2, <2>1 DEF DeletionInv, OwnJob, Busy
<1>8. \A x \in emails' : job'[x] # "Gone"
  BY <1>1, <1>2 DEF DeletionInv, TypeInv, TypeOK
<1> QED
  BY <1>4, <1>5, <1>6, <1>7, <1>8 DEF DeletionInv

\* What a sweep does to the rest: it only takes away, and what it starts on is
\* nobody's, or noted.
Erases(s) ==
    /\ Apart(s) /\ Erased(s)' /\ RowDropped(s)'
    /\ emails' \subseteq emails /\ torn \subseteq torn'
    /\ \A x \in Emails :
        /\ analysis'[x] \in {analysis[x], Missing} /\ alert'[x] \in {alert[x], Missing}
        /\ job'[x] \in {job[x], "Gone"} /\ (x \in indexed' => x \in indexed)
    /\ \A x \in emails' : job'[x] = job[x]
    /\ \A x \in emails \ emails' : x \in torn' \cup BeingDeleted'
    /\ \A x \in BeingDeleted \ BeingDeleted' : x \in torn' \/ Clean(x)'
    /\ \A x \in BeingDeleted' \ BeingDeleted : \A a \in Workers \cup Rescorers :
            Busy(a) /\ my[a].email = x => x \in torn'

LEMMA ErasesDeletes ==
  ASSUME TypeInv, Roles, DeletionInv, NEW s \in Sweepers, Erases(s)
  PROVE  DeletionInv'
<1>1. \A b \in Actors \ {s} : at'[b] = at[b] /\ my'[b] = my[b]
  BY DEF Erases, Apart
<1>2. \A a \in Workers \cup Rescorers : at'[a] = at[a] /\ my'[a] = my[a]
  BY <1>1, ActorsAreDistinct DEF Actors
<1>3. NoOrphans'
  <2> SUFFICES ASSUME NEW x \in Emails \ (emails' \cup torn' \cup BeingDeleted')
               PROVE  Clean(x)'
    BY DEF NoOrphans, Clean
  <2>1. x \notin emails \cup torn
    BY DEF Erases
  <2>2. CASE x \in BeingDeleted
    BY <2>2 DEF Erases
  <2>3. CASE x \notin BeingDeleted
    <3>1. Clean(x)
      BY <2>1, <2>3 DEF DeletionInv, NoOrphans, Clean
    <3> QED
      BY <3>1 DEF Clean, Erases
  <2> QED
    BY <2>2, <2>3
<1>4. ASSUME NEW o \in Sweepers
      PROVE  Erased(o)' /\ RowDropped(o)'
  <2>1. CASE o = s
    BY <2>1 DEF Erases
  <2>2. CASE o # s
    <3>1. at'[o] = at[o] /\ my'[o] = my[o]
      BY <1>1, <2>2 DEF Actors
    <3>2. at[o] \in Deleting => my[o].email \in Emails
      BY DEF TypeInv, StepTyped, OnEmail, Erasing, Actors
    <3>3. Erased(o) /\ RowDropped(o)
      BY DEF DeletionInv
    <3>4. Erased(o)'
      BY <3>1, <3>2, <3>3 DEF Erased, Erases
    <3>5. RowDropped(o)'
      BY <3>1, <3>3 DEF RowDropped, Erases
    <3> QED
      BY <3>4, <3>5
  <2> QED
    BY <2>1, <2>2
<1>5. \A a \in Workers \cup Rescorers : Outside(a)'
  BY <1>2 DEF DeletionInv, Outside, Busy, Erases
<1>6. \A w \in Workers : OwnJob(w)'
  <2> TAKE w \in Workers
  <2>1. Busy(w) => my[w].email \in Emails
    BY BusyOnEmail
  <2> QED
    BY <1>2, <2>1 DEF DeletionInv, OwnJob, Busy, Erases
<1>7. \A x \in emails' : job'[x] # "Gone"
  BY DEF DeletionInv, Erases
<1> QED
  BY <1>3, <1>4, <1>5, <1>6, <1>7 DEF DeletionInv

\* The emails being deleted, once a sweep has moved.
LEMMA SweepMoves ==
  ASSUME NEW s \in Sweepers, Apart(s)
  PROVE  \A x : /\ x \in BeingDeleted \/ (at'[s] \in Deleting /\ my'[s].email = x)
                      <=> x \in BeingDeleted' \/ (at[s] \in Deleting /\ my[s].email = x)
                /\ x \in BeingDeleted \ BeingDeleted' => at[s] \in Deleting /\ my[s].email = x
                /\ x \in BeingDeleted' \ BeingDeleted => at'[s] \in Deleting /\ my'[s].email = x
                /\ at[s] \in Deleting /\ my[s].email = x => x \in BeingDeleted
                /\ at'[s] \in Deleting /\ my'[s].email = x => x \in BeingDeleted'
<1>1. \A o \in Sweepers \ {s} : at'[o] = at[o] /\ my'[o] = my[o]
  BY DEF Apart, Actors
<1> QED
  BY <1>1, Deleted

LEMMA SweepDeletes ==
  ASSUME TypeInv, Roles, DeletionInv, NEW s \in Sweepers, Sweep(s)
  PROVE  Erases(s)
<1> DEFINE v == my[s] e == v.email
<1>0. s \in Actors /\ TypeOK /\ v \in Locals /\ Erased(s) /\ RowDropped(s)
  BY DEF Actors, TypeInv, StepTyped, DeletionInv
<1>1. CASE Tick(s) \/ ScanEvidence(s) \/ CheckEvidence(s) \/ Unlink(s) \/ DropRow(s) \/ EndSweep(s)
             \/ (CheckEmail(s) /\ at'[s] = "emails")
  <2> DEFINE Others == {"idle", "emails", "evidence", "unlink", "drop row", "done"}
  <2>1. \E from \in Others : \E to \in Others : \E local : Go(s, from, to, local)
    <3>1. CASE Tick(s) \/ ScanEvidence(s) \/ CheckEvidence(s)
      BY <3>1 DEF Tick, ScanEvidence, CheckEvidence
    <3>2. CASE Unlink(s) \/ DropRow(s)
      BY <3>2 DEF Unlink, DropRow, Step
    <3>3. CASE EndSweep(s)
      BY <3>3 DEF EndSweep, Leave
    <3>4. CASE CheckEmail(s) /\ at'[s] = "emails"
      <4>1. \E to, local : Go(s, "emails", to, local)
        BY <3>4 DEF CheckEmail
      <4>2. \E local : Go(s, "emails", "emails", local)
        BY <1>0, <3>4, <4>1, Moves
      <4> QED
        BY <4>2
    <3> QED
      BY <1>1, <3>1, <3>2, <3>3, <3>4, Zenon
  <2>2. UNCHANGED <<emails, analysis, indexed, alert, job>>
    BY <1>1, Zenon DEF Tick, ScanEvidence, CheckEvidence, Unlink, DropRow, EndSweep, CheckEmail,
       data, history
  <2>3. torn \subseteq torn'
    BY <1>1 DEF Tick, ScanEvidence, CheckEvidence, Unlink, DropRow, EndSweep, CheckEmail, history
  <2>4. Apart(s) /\ at[s] \notin Deleting /\ at'[s] \notin Deleting
    <3>1. Apart(s) /\ at[s] \in Others /\ at'[s] \in Others
      BY <1>0, <2>1, Moves
    <3> QED
      BY <3>1 DEF Deleting
  <2>5. Erased(s)' /\ RowDropped(s)'
    BY <2>4 DEF Erased, RowDropped, Deleting
  <2> QED
    BY <2>2, <2>3, <2>4, <2>5, SweepMoves DEF Erases
<1>2. CASE CheckEmail(s) /\ at'[s] # "emails"
  <2>1. PICK x \in v.left :
          IF Spared(x, v.held)
          THEN Go(s, "emails", "emails", [v EXCEPT !.left = @ \ {x}]) /\ UNCHANGED torn
          ELSE /\ Go(s, "emails", "drop analysis", [[v EXCEPT !.left = @ \ {x}] EXCEPT !.email = x])
               /\ torn' = torn \cup ({x} \cap ({my[r].email : r \in Rescorers} \cup BeingDeleted))
    BY <1>2 DEF CheckEmail
  <2> DEFINE local == [[v EXCEPT !.left = @ \ {x}] EXCEPT !.email = x]
  <2>2. local.email = x
    BY <1>0 DEF Locals
  <2>3. ~Go(s, "emails", "emails", [v EXCEPT !.left = @ \ {x}])
    BY <1>0, <1>2 DEF Go, TypeInv
  <2> HIDE DEF local
  <2>4. /\ ~Spared(x, v.held) /\ Go(s, "emails", "drop analysis", local)
        /\ torn' = torn \cup ({x} \cap ({my[r].email : r \in Rescorers} \cup BeingDeleted))
    BY <2>1, <2>3 DEF local
  <2>5. UNCHANGED <<emails, analysis, indexed, alert, job>>
    BY <1>2, Zenon DEF CheckEmail, data
  <2>6. Apart(s) /\ at[s] = "emails" /\ at'[s] = "drop analysis" /\ my'[s].email = x
    BY <1>0, <2>2, <2>4, Moves
  <2>7. Erased(s)' /\ RowDropped(s)'
    BY <2>6 DEF Erased, RowDropped
  <2>8. ASSUME NEW a \in Workers \cup Rescorers, Busy(a), my[a].email = x
        PROVE  x \in torn'
    <3>1. CASE a \in Rescorers
      BY <2>4, <2>8, <3>1
    <3>2. CASE a \in Workers
      <4>1. job[x] = "Gone"
        BY <2>4, <2>8, <3>2 DEF DeletionInv, OwnJob, Spared
      <4>2. x \notin emails
        BY <4>1 DEF DeletionInv
      <4> QED
        BY <2>4, <2>8, <4>2 DEF DeletionInv, Outside
    <3> QED
      BY <3>1, <3>2
  <2>9. \A y \in BeingDeleted' \ BeingDeleted : y = x
    BY <2>6, SweepMoves
  <2>10. BeingDeleted \subseteq BeingDeleted'
    BY <2>6, SweepMoves DEF Deleting
  <2> QED
    BY <2>4, <2>5, <2>6, <2>7, <2>8, <2>9, <2>10 DEF Erases
<1>3. CASE DropAnalysis(s)
  <2>1. Go(s, "drop analysis", "drop email", v) /\ analysis' = [analysis EXCEPT ![e] = Missing]
    BY <1>3 DEF DropAnalysis, Step
  <2>2. UNCHANGED <<emails, job, indexed, alert, torn>>
    BY <1>3, Zenon DEF DropAnalysis, history
  <2>3. Apart(s) /\ at[s] = "drop analysis" /\ at'[s] = "drop email" /\ my'[s] = v
    BY <1>0, <2>1, Moves
  <2>4. at[s] \in Deleting /\ at'[s] \in Deleting
    BY <2>3 DEF Deleting
  <2>5. BeingDeleted' = BeingDeleted /\ e \in BeingDeleted
    <3>1. \A x : x \in BeingDeleted' <=> x \in BeingDeleted
      BY <2>3, <2>4, SweepMoves
    <3> QED
      BY <2>3, <2>4, <3>1, SweepMoves, Zenon
  <2>6. \A x \in Emails : analysis'[x] = IF x = e THEN Missing ELSE analysis[x]
    BY <1>0, <2>1 DEF TypeOK
  <2>7. e \in Emails
    BY <2>4 DEF TypeInv, StepTyped, OnEmail, Erasing, Actors
  <2>8. Erased(s)' /\ RowDropped(s)'
    BY <2>3, <2>6, <2>7 DEF Erased, RowDropped
  <2> QED
    BY <2>2, <2>3, <2>5, <2>6, <2>8 DEF Erases
<1>4. CASE DropEmail(s)
  <2>1. Go(s, "drop email", "drop index", v) /\ emails' = emails \ {e}
    BY <1>4 DEF DropEmail, Step
  <2>2. UNCHANGED <<analysis, job, indexed, alert, torn>>
    BY <1>4, Zenon DEF DropEmail, history
  <2>3. Apart(s) /\ at[s] = "drop email" /\ at'[s] = "drop index" /\ my'[s] = v
    BY <1>0, <2>1, Moves
  <2>4. at[s] \in Deleting /\ at'[s] \in Deleting
    BY <2>3 DEF Deleting
  <2>5. BeingDeleted' = BeingDeleted /\ e \in BeingDeleted
    <3>1. \A x : x \in BeingDeleted' <=> x \in BeingDeleted
      BY <2>3, <2>4, SweepMoves
    <3> QED
      BY <2>3, <2>4, <3>1, SweepMoves, Zenon
  <2>6. Erased(s)' /\ RowDropped(s)'
    BY <1>0, <2>1, <2>2, <2>3, <2>4 DEF Erased, RowDropped
  <2> QED
    BY <2>1, <2>2, <2>3, <2>5, <2>6 DEF Erases
<1>5. CASE DropIndex(s)
  <2>1. Go(s, "drop index", "drop jobs", v) /\ indexed' = indexed \ {e}
    BY <1>5 DEF DropIndex, Step
  <2>2. UNCHANGED <<emails, analysis, job, alert, torn>>
    BY <1>5, Zenon DEF DropIndex, history
  <2>3. Apart(s) /\ at[s] = "drop index" /\ at'[s] = "drop jobs" /\ my'[s] = v
    BY <1>0, <2>1, Moves
  <2>4. at[s] \in Deleting /\ at'[s] \in Deleting
    BY <2>3 DEF Deleting
  <2>5. BeingDeleted' = BeingDeleted /\ e \in BeingDeleted
    <3>1. \A x : x \in BeingDeleted' <=> x \in BeingDeleted
      BY <2>3, <2>4, SweepMoves
    <3> QED
      BY <2>3, <2>4, <3>1, SweepMoves, Zenon
  <2>6. Erased(s)' /\ RowDropped(s)'
    BY <1>0, <2>1, <2>2, <2>3, <2>4 DEF Erased, RowDropped
  <2> QED
    BY <2>1, <2>2, <2>3, <2>5, <2>6 DEF Erases
<1>6. CASE DropJobs(s)
  <2>1. Go(s, "drop jobs", "drop alert", v) /\ job' = [job EXCEPT ![e] = "Gone"]
    BY <1>6 DEF DropJobs, Step
  <2>2. UNCHANGED <<emails, analysis, indexed, alert, torn>>
    BY <1>6, Zenon DEF DropJobs, history
  <2>3. Apart(s) /\ at[s] = "drop jobs" /\ at'[s] = "drop alert" /\ my'[s] = v
    BY <1>0, <2>1, Moves
  <2>4. at[s] \in Deleting /\ at'[s] \in Deleting
    BY <2>3 DEF Deleting
  <2>5. BeingDeleted' = BeingDeleted /\ e \in BeingDeleted
    <3>1. \A x : x \in BeingDeleted' <=> x \in BeingDeleted
      BY <2>3, <2>4, SweepMoves
    <3> QED
      BY <2>3, <2>4, <3>1, SweepMoves, Zenon
  <2>6. \A x \in Emails : job'[x] = IF x = e THEN "Gone" ELSE job[x]
    BY <1>0, <2>1 DEF TypeOK
  <2>7. e \in Emails /\ e \notin emails /\ emails \subseteq Emails
    BY <1>0, <2>3, <2>4 DEF TypeInv, TypeOK, StepTyped, OnEmail, Erasing, Actors, RowDropped
  <2>8. Erased(s)' /\ RowDropped(s)'
    BY <1>0, <2>2, <2>3, <2>4, <2>6, <2>7 DEF Erased, RowDropped
  <2>9. \A x \in emails' : job'[x] = job[x]
    BY <2>2, <2>6, <2>7
  <2> QED
    BY <2>2, <2>3, <2>5, <2>6, <2>8, <2>9 DEF Erases
<1>7. CASE DropAlert(s)
  <2> DEFINE local == [v EXCEPT !.email = Missing]
  <2> HIDE DEF local
  <2>1. Go(s, "drop alert", "emails", local) /\ alert' = [alert EXCEPT ![e] = Missing]
    BY <1>7 DEF DropAlert, local
  <2>2. UNCHANGED <<emails, analysis, indexed, job, torn>>
    BY <1>7, Zenon DEF DropAlert, history
  <2>3. Apart(s) /\ at[s] = "drop alert" /\ at'[s] = "emails"
    BY <1>0, <2>1, Moves
  <2>4. at[s] \in Deleting /\ at'[s] \notin Deleting
    BY <2>3 DEF Deleting
  <2>5. e \in Emails /\ \A x \in Emails : alert'[x] = IF x = e THEN Missing ELSE alert[x]
    BY <1>0, <2>1, <2>4 DEF TypeInv, TypeOK, StepTyped, OnEmail, Erasing, Actors
  <2>6. Erased(s)' /\ RowDropped(s)'
    BY <2>3, <2>4 DEF Erased, RowDropped
  <2>7. \A x : x = e => x \in torn \/ Clean(x)'
    BY <1>0, <2>2, <2>3, <2>4, <2>5 DEF Erased, Clean
  <2>8. \A x \in BeingDeleted \ BeingDeleted' : x = e
    BY <2>3, SweepMoves
  <2>9. BeingDeleted' \subseteq BeingDeleted
    BY <2>3, <2>4, SweepMoves
  <2> QED
    BY <2>2, <2>3, <2>5, <2>6, <2>7, <2>8, <2>9 DEF Erases
<1>8. CASE SweepLost(s)
  <2>1. Go(s, at[s], "done", Blank)
    BY <1>8 DEF SweepLost, Leave
  <2>2. UNCHANGED <<emails, analysis, indexed, alert, job>>
    BY <1>8, Zenon DEF SweepLost, data
  <2>3. torn \subseteq torn' /\ (at[s] \in Deleting => e \in torn')
    BY <1>8 DEF SweepLost
  <2>4. Apart(s) /\ at'[s] = "done"
    BY <1>0, <2>1, Moves
  <2>5. Erased(s)' /\ RowDropped(s)' /\ at'[s] \notin Deleting
    BY <2>4 DEF Erased, RowDropped, Deleting
  <2>6. /\ \A x \in BeingDeleted \ BeingDeleted' : x \in torn'
        /\ BeingDeleted' \subseteq BeingDeleted
    BY <2>3, <2>4, <2>5, SweepMoves
  <2> QED
    BY <2>2, <2>3, <2>4, <2>5, <2>6 DEF Erases
<1> QED
  BY <1>1, <1>2, <1>3, <1>4, <1>5, <1>6, <1>7, <1>8 DEF Sweep

LEMMA InvestigateAside ==
  ASSUME TypeInv, NEW n \in Analysts, Investigate(n)
  PROVE  Aside
<1>0. n \in Actors /\ TypeOK
  BY DEF Actors, TypeInv
<1>1. UNCHANGED <<emails, analysis, indexed, job>>
  BY Zenon DEF Investigate, ReadCase, ReadEvidence, ReadAnalyses, ChangeAlert, ReadEmail, LinkEmail,
     LinkEvidence, AssignAlert, ListEvidence, InsertCampaign, data
<1>2. \A e \in Emails : alert'[e] = Missing <=> alert[e] = Missing
  <2>1. CASE \E x \in Emails : ChangeAlert(n, x)
    <3>1. PICK x \in Emails : ChangeAlert(n, x)
      BY <2>1
    <3>2. PICK status \in {"OPEN", "RESOLVED"} : alert' = [alert EXCEPT ![x].status = status]
      BY <3>1 DEF ChangeAlert
    <3>3. alert[x] \in Alerts /\ alert'[x] \in Alerts
      BY <1>0, <3>1, <3>2 DEF ChangeAlert, TypeOK, Alerts
    <3> QED
      BY <1>0, <3>2, <3>3, MissingIsApart DEF TypeOK
  <2>2. CASE AssignAlert(n)
    <3>1. at[n] = "assign alert"
      BY <2>2 DEF AssignAlert, Leave, Go
    <3>2. my[n].case \in Cases
      BY <1>0, <3>1 DEF TypeInv, StepTyped, OnCase
    <3>3. alert' = alert \/ alert' = [alert EXCEPT ![my[n].email].case = my[n].case]
      BY <2>2 DEF AssignAlert
    <3>4. \A e \in Emails : alert'[e] = alert[e] \/
             (alert[e] # Missing /\ alert'[e] = [alert[e] EXCEPT !.case = my[n].case])
      BY <1>0, <2>2 DEF AssignAlert, TypeOK
    <3>5. \A row \in Alerts : [row EXCEPT !.case = my[n].case] \in Alerts
      BY <3>2 DEF Alerts
    <3> QED
      <4>1. \A e \in Emails : alert[e] = Missing \/ alert[e] \in Alerts
        BY <1>0 DEF TypeOK
      <4>2. \A e \in Emails : alert[e] # Missing => alert'[e] = alert[e] \/ alert'[e] \in Alerts
        BY <3>4, <3>5, <4>1, Zenon
      <4> QED
        BY <3>4, <4>1, <4>2, MissingIsApart
  <2>3. CASE \/ \E c \in Cases, e \in Emails : ReadCase(n, c, e) \/ ReadEvidence(n, c, e)
             \/ \E S \in SUBSET Emails : ReadAnalyses(n, S)
             \/ ReadEmail(n) \/ LinkEmail(n) \/ LinkEvidence(n) \/ ListEvidence(n) \/ InsertCampaign(n)
    BY <2>3, Zenon DEF ReadCase, ReadEvidence, ReadAnalyses, ReadEmail, LinkEmail, LinkEvidence,
       ListEvidence, InsertCampaign, data
  <2> QED
    BY <2>1, <2>2, <2>3, Zenon DEF Investigate
<1>3. torn \subseteq torn'
  BY DEF Investigate, ReadCase, ReadEvidence, ReadAnalyses, ChangeAlert, ReadEmail, LinkEmail,
     LinkEvidence, AssignAlert, ListEvidence, InsertCampaign, history, Starts
<1>4. \A a \in Workers \cup Rescorers \cup Sweepers : at'[a] = at[a] /\ my'[a] = my[a]
  <2>1. Apart(n)
    BY <1>0, InvestigateRole, Moves
  <2> QED
    BY <2>1, ActorsAreDistinct DEF Apart, Actors
<1> QED
  BY <1>1, <1>2, <1>3, <1>4 DEF Aside

LEMMA DeletionInit == TypeInv /\ Init => DeletionInv
<1> SUFFICES ASSUME TypeInv, Init PROVE DeletionInv
  OBVIOUS
<1>1. emails = Emails /\ \A e \in Emails : job[e] \in {"Completed", "Pending"}
  BY DEF Init
<1>2. \A a \in Actors : at[a] \in {"idle", "done"}
  BY DEF Init
<1>3. NoOrphans
  BY <1>1 DEF NoOrphans
<1>4. \A s \in Sweepers : Erased(s) /\ RowDropped(s)
  BY <1>2 DEF Erased, RowDropped, Deleting, Actors
<1>5. \A a \in Workers \cup Rescorers : ~Busy(a)
  BY <1>2 DEF Busy, Actors
<1> QED
  BY <1>1, <1>3, <1>4, <1>5 DEF DeletionInv, Outside, OwnJob

LEMMA DeletionStep == TypeInv /\ Roles /\ DeletionInv /\ [ReportNext]_allVars => DeletionInv'
<1> SUFFICES ASSUME TypeInv, Roles, DeletionInv, [ReportNext]_allVars PROVE DeletionInv'
  OBVIOUS
<1>1. CASE Next
  <2>1. CASE \E e \in Emails : Request(e)
    BY <2>1, RequestDeletes
  <2>2. ASSUME NEW w \in Workers, NEW e \in Emails, Claim(w, e)
        PROVE  DeletionInv'
    <3>1. Go(w, "idle", "read", [Blank EXCEPT !.email = e]) /\ w \in Actors
      BY <2>2 DEF Claim, Actors
    <3>2. [Blank EXCEPT !.email = e].email = e
      BY DEF Blank
    <3>3. Apart(w) /\ my'[w] = [Blank EXCEPT !.email = e]
      BY <3>1, Moves
    <3> QED
      BY <2>2, <3>2, <3>3, BeginDeletes DEF Claim
  <2>3. ASSUME NEW w \in Workers, Work(w), ~\E e \in Emails : Claim(w, e)
        PROVE  DeletionInv'
    BY <2>3, WorkOnOwn, OnOwnDeletes
  <2>4. ASSUME NEW r \in Rescorers, NEW e \in Emails, Pick(r, e)
        PROVE  DeletionInv'
    <3> DEFINE local == [Blank EXCEPT !.email = e, !.seen = analysis[e]]
    <3>1. local.email = e
      BY DEF Blank
    <3> HIDE DEF local
    <3>2. Go(r, "idle", "check", local) /\ r \in Actors /\ r \notin Workers
      BY <2>4, ActorsAreDistinct DEF Pick, Actors, local
    <3>3. Apart(r) /\ my'[r].email = e
      BY <3>1, <3>2, Moves
    <3>4. UNCHANGED <<emails, analysis, indexed, alert, job>> /\ Starts(r, e) /\ analysis[e] # Missing
      BY <2>4 DEF Pick, data
    <3> QED
      BY <3>2, <3>3, <3>4, BeginDeletes
  <2>5. ASSUME NEW r \in Rescorers, Rescoring(r), ~\E e \in Emails : Pick(r, e)
        PROVE  DeletionInv'
    BY <2>5, RescoringOnOwn, OnOwnDeletes
  <2>6. CASE \E a \in Workers \cup Rescorers : Publish(a)
    BY <2>6, PublishOnOwn, OnOwnDeletes
  <2>7. CASE \E n \in Analysts : Investigate(n)
    BY <2>7, InvestigateAside, AsideDeletes
  <2>8. CASE \E s \in Sweepers : Sweep(s)
    BY <2>8, SweepDeletes, ErasesDeletes
  <2> QED
    BY <1>1, <2>1, <2>2, <2>3, <2>4, <2>5, <2>6, <2>7, <2>8, Zenon DEF Next
<1>2. ASSUME NEW r \in Requests, Reporting(r), UNCHANGED <<data, history, cut>>
      PROVE  DeletionInv'
  <2>1. \/ at' = at /\ my' = my
        \/ Apart(r)
    BY <1>2, ReportingMoves, Moves DEF Actors
  <2>2. \A a \in Workers \cup Rescorers \cup Sweepers : at'[a] = at[a] /\ my'[a] = my[a]
    BY <2>1, ActorsAreDistinct DEF Apart, Actors
  <2>3. Aside
    BY <1>2, <2>2 DEF Aside, data, history
  <2> QED
    BY <2>3, AsideDeletes
<1>3. CASE UNCHANGED allVars
  <2>1. UNCHANGED <<data, at, my, history>>
    BY <1>3, Zenon DEF allVars, vars
  <2>2. Aside
    BY <2>1 DEF Aside, data, history
  <2> QED
    BY <2>2, AsideDeletes
<1> QED
  BY <1>1, <1>2, <1>3, Zenon DEF ReportNext

LEMMA AlwaysDeletes == ReportSpec => [](TypeInv /\ Roles /\ DeletionInv)
<1>1. TypeInv /\ ReportInit => DeletionInv
  BY DeletionInit DEF ReportInit
<1> QED
  BY <1>1, DeletionStep, AlwaysInRole, PTL DEF ReportSpec

\* A deleted email leaves no analysis, indicator, job or alert behind, whatever the
\* sweeps, workers and rescorings that meet, except for those emails that the
\* history notes: because a sweep was lost on them, or met someone at work.
THEOREM DeletionsAreWhole == ReportSpec => []NoOrphans
<1>1. DeletionInv => NoOrphans
  BY DEF DeletionInv
<1> QED
  BY <1>1, AlwaysDeletes, PTL

----------------------------------------------------------------------------
(* The views agree with the analyses. *)

\* A step that writes no score: it may only make emails unsettled.
Gentle ==
    /\ summary' = summary /\ clash' = clash
    /\ \A c \in Cases : /\ cases'[c].emails = cases[c].emails
                        /\ cases'[c].score = cases[c].score
                        /\ cases'[c].severity = cases[c].severity
    /\ emails' \subseteq emails /\ rows' \subseteq rows /\ files' \subseteq files
    /\ \A e \in Emails :
        /\ analysis'[e] \in {analysis[e], Missing}
        /\ job'[e] = "Completed" => job[e] = "Completed"
        /\ alert'[e] # Missing => alert[e] # Missing /\ alert'[e].score = alert[e].score
        /\ alert'[e] = Missing => alert[e] = Missing \/ e \notin emails'

\* What a gentle step may do to whoever writes scores.
GentleMove(a) ==
    \/ at'[a] = at[a] /\ my'[a] = my[a]
    \/ at[a] \notin Scored /\ at'[a] \notin WritingSteps
    \/ a \in Workers /\ at'[a] \notin WritingSteps
    \/ at[a] \in {"read", "check"} /\ at'[a] \in {"store", "rescore"}

LEMMA GentleEmails ==
  ASSUME TypeInv, Gentle
  PROVE  /\ \A e \in Emails : Settled(e)' => Settled(e) /\ analysis'[e] = analysis[e]
         /\ \A e \in Emails : EmailAgrees(e) /\ Settled(e)' => EmailAgrees(e)'
<1>1. \A e \in Emails : Settled(e)' => Settled(e) /\ analysis'[e] = analysis[e]
  BY DEF Gentle, Settled, Whole
<1>2. \A e \in Emails : EmailAgrees(e) /\ Settled(e)' => EmailAgrees(e)'
  BY <1>1 DEF Gentle, EmailAgrees, Settled, Whole
<1> QED
  BY <1>1, <1>2

\* The highest score of a case depends on its emails and their analyses alone.
LEMMA HighestKept ==
  ASSUME NEW S, NEW T, S = T, \A e \in S : analysis'[e] = analysis[e]
  PROVE  Newest({analysis'[e].score : e \in T}) = Newest({analysis[e].score : e \in S})
<1>1. {analysis'[e].score : e \in T} = {analysis[e].score : e \in S}
  OBVIOUS
<1> QED
  BY <1>1, Zenon

LEMMA CaseKept ==
  ASSUME NEW c \in Cases, cases'[c].emails = cases[c].emails, cases'[c].score = cases[c].score,
         cases'[c].severity = cases[c].severity,
         \A e \in cases[c].emails : analysis'[e] \in {analysis[e], Missing},
         CaseAgrees(c)
  PROVE  CaseAgrees(c)'
<1> SUFFICES ASSUME cases[c].emails # {}, \A e \in cases[c].emails : analysis'[e] # Missing
             PROVE  /\ cases[c].score = Newest({analysis'[e].score : e \in cases[c].emails})
                    /\ cases[c].severity = cases[c].score
  BY DEF CaseAgrees, AllAnalysed, HighestOf
<1>1. \A e \in cases[c].emails : analysis'[e] = analysis[e]
  OBVIOUS
<1>2. /\ cases[c].score = Newest({analysis[e].score : e \in cases[c].emails})
      /\ cases[c].severity = cases[c].score
  BY <1>1 DEF CaseAgrees, AllAnalysed, HighestOf
<1> QED
  BY <1>1, <1>2, HighestKept

LEMMA GentleCases ==
  ASSUME TypeInv, Gentle
  PROVE  /\ \A c \in Cases : CaseAgrees(c) => CaseAgrees(c)'
         /\ \A c \in Cases : CaseSettled(c)' => CaseSettled(c)
         /\ \A c \in Cases : cases[c].emails \subseteq Emails
<1>1. \A c \in Cases : cases[c].emails \subseteq Emails
  BY DEF TypeInv, TypeOK
<1>2. ASSUME NEW c \in Cases, CaseAgrees(c) PROVE CaseAgrees(c)'
  BY <1>1, <1>2, CaseKept DEF Gentle
<1>3. \A c \in Cases : CaseSettled(c)' => CaseSettled(c)
  BY <1>1, GentleEmails DEF CaseSettled, Gentle
<1> QED
  BY <1>1, <1>2, <1>3

LEMMA LocalTypes ==
  ASSUME TypeInv, NEW a \in Actors
  PROVE  /\ at[a] \in Scored => my[a].email \in Emails /\ my[a].score \in Scores
         /\ at[a] \in {"each case", "write case"} =>
              \A x \in my[a].left : x.case \in Cases /\ x.emails \subseteq Emails
         /\ at[a] = "write case" => my[a].case \in Cases /\ my[a].seen \in Scores
<1>1. StepTyped(at[a], my[a])
  BY DEF TypeInv
<1>2. at[a] \in Scored => my[a].email \in Emails /\ my[a].score \in Scores
  BY <1>1 DEF StepTyped, OnEmail
<1>3. at[a] \in {"each case", "write case"} =>
              \A x \in my[a].left : x.case \in Cases /\ x.emails \subseteq Emails
  BY <1>1 DEF StepTyped, CaseReads
<1>4. at[a] = "write case" => my[a].case \in Cases /\ my[a].seen \in Scores
  BY <1>1 DEF StepTyped
<1> QED
  BY <1>2, <1>3, <1>4

\* Whoever holds no score has nothing to publish.
LEMMA Unpublished ==
  ASSUME NEW a, at'[a] \notin Scored
  PROVE  Published(a)'
  BY DEF Published, ScoreStands, SummaryShows, AlertShows, AlertRaised, CasesRead, HighestRead,
     CasesDone, Scored, AfterRefresh, AfterRaise

LEMMA GentlePublished ==
  ASSUME TypeInv, Roles, Gentle, NEW a \in Workers \cup Rescorers, Published(a),
         at'[a] = at[a], my'[a] = my[a]
  PROVE  Published(a)'
<1> DEFINE v == my[a] e == v.email
<1>0. a \in Actors
  BY DEF Actors
<1>1. at[a] \in Scored => e \in Emails
  BY <1>0, LocalTypes
<1>2. AfterRefresh(a) \subseteq Scored /\ AfterRaise(a) \subseteq Scored
  BY DEF AfterRefresh, AfterRaise, Scored
<1>3. ScoreStands(a)'
  BY <1>1 DEF Published, ScoreStands, Gentle
<1>4. SummaryShows(a)'
  BY <1>1 DEF Published, SummaryShows, Gentle
<1>5. AlertShows(a)'
  BY <1>1, <1>2 DEF Published, AlertShows, Gentle, AfterRefresh
<1>6. AlertRaised(a)'
  BY <1>1, <1>2 DEF Published, AlertRaised, Gentle, AfterRaise
<1>7. \A c \in Cases : CaseAgrees(c) => CaseAgrees(c)'
  BY GentleCases
<1>8. CasesOf(a)' = CasesOf(a) /\ ToDo(a)' = ToDo(a) /\ CasesOf(a) \subseteq Cases
  BY DEF CasesOf, ToDo, Gentle
<1>9. CasesRead(a)'
  <2> SUFFICES ASSUME at[a] \in {"each case", "write case"}
               PROVE  /\ \A x \in v.left : x.emails = cases'[x.case].emails
                      /\ \A c \in CasesOf(a) \ ToDo(a) : CaseAgrees(c)'
    BY <1>8 DEF CasesRead
  <2>1. \A x \in v.left : x.case \in Cases /\ x.emails = cases[x.case].emails
    BY <1>0, LocalTypes DEF Published, CasesRead
  <2>2. \A c \in CasesOf(a) \ ToDo(a) : CaseAgrees(c)
    BY DEF Published, CasesRead
  <2> QED
    BY <1>7, <1>8, <2>1, <2>2 DEF Gentle
<1>10. HighestRead(a)'
  <2> DEFINE S == cases[my[a].case].emails T == cases'[my'[a].case].emails
  <2> SUFFICES ASSUME at[a] = "write case"
               PROVE  /\ T # {}
                      /\ (\A x \in T : analysis'[x] # Missing) =>
                            my'[a].seen = Newest({analysis'[x].score : x \in T})
    BY DEF HighestRead, AllAnalysed, HighestOf
  <2>1. my[a].case \in Cases /\ S \subseteq Emails
    <3>1. my[a].case \in Cases
      BY <1>0, LocalTypes
    <3> QED
      BY <3>1, GentleCases
  <2>2. /\ S # {}
        /\ (\A x \in S : analysis[x] # Missing) =>
              my[a].seen = Newest({analysis[x].score : x \in S})
    BY DEF Published, HighestRead, AllAnalysed, HighestOf
  <2>3. S = T /\ my'[a].seen = my[a].seen
    BY <2>1 DEF Gentle
  <2> HIDE DEF S, T
  <2>4. ASSUME \A x \in T : analysis'[x] # Missing
        PROVE  my'[a].seen = Newest({analysis'[x].score : x \in T})
    <3>1. \A x \in S : analysis'[x] = analysis[x] /\ analysis[x] # Missing
      BY <2>1, <2>3, <2>4 DEF Gentle
    <3>2. Newest({analysis'[x].score : x \in T}) = Newest({analysis[x].score : x \in S})
      BY <2>3, <3>1, HighestKept
    <3> QED
      BY <2>2, <2>3, <3>1, <3>2, Zenon
  <2> QED
    BY <2>2, <2>3, <2>4
<1>11. CasesDone(a)'
  BY <1>7, <1>8 DEF Published, CasesDone
<1> QED
  BY <1>3, <1>4, <1>5, <1>6, <1>9, <1>10, <1>11 DEF Published


LEMMA GentleAgrees ==
  ASSUME TypeInv, Roles, Agreement, Gentle, \A a \in Scorers : GentleMove(a)
  PROVE  Agreement'
<1>0. /\ \A a \in Scorers : at'[a] \in Scored \cup {"attach", "link"} => at'[a] = at[a] /\ my'[a] = my[a]
      /\ \A r \in Rescorers : at[r] \in Scored => at'[r] = at[r] /\ my'[r] = my[r]
      /\ \A a \in Scorers : Writing(a)' => Writing(a)
  <2>1. /\ Scored \cup {"attach", "link", "read", "check"} \subseteq WritingSteps
        /\ {"store", "rescore", "read", "check"} \cap (Scored \cup {"attach", "link"}) = {}
    BY DEF WritingSteps, Scored
  <2>2. Rescorers \subseteq Scorers /\ Rescorers \cap Workers = {}
    BY ActorsAreDistinct DEF Scorers
  <2> QED
    BY <2>1, <2>2 DEF GentleMove, Writing
<1>1. OneWriter'
  BY <1>0 DEF Agreement, OneWriter
<1>2. Rescored \subseteq Rescored' /\ Recounted \subseteq Recounted'
  BY <1>0 DEF Rescored, Recounted, Scored
<1>3. EmailsAgree'
  BY <1>2, GentleEmails DEF Agreement, EmailsAgree
<1>4. CasesAgree'
  BY <1>2, GentleCases DEF Agreement, CasesAgree, Gentle
<1>5. EmptyCases'
  BY DEF Agreement, EmptyCases, Gentle
<1>6. ASSUME NEW a \in Workers \cup Rescorers
      PROVE  Published(a)'
  <2>1. CASE at'[a] \in Scored
    BY <1>0, <1>6, <2>1, GentlePublished DEF Agreement, Scorers
  <2>2. CASE at'[a] \notin Scored
    BY <2>2, Unpublished
  <2> QED
    BY <2>1, <2>2
<1>7. ASSUME NEW n \in Analysts
      PROVE  ReadWell(n)'
  <2>1. n \in Scorers /\ n \in Actors /\ ReadWell(n)
    BY DEF Scorers, Agreement, Actors
  <2>2. CASE at'[n] \in {"attach", "link"}
    <3>1. at'[n] = at[n] /\ my'[n] = my[n]
      BY <1>0, <2>1, <2>2
    <3>2. my[n].case \in Cases /\ my[n].email \in Emails
      BY <2>1, <2>2, <3>1 DEF TypeInv, StepTyped, OnCase, OnEmail
    <3> QED
      BY <2>1, <3>1, <3>2 DEF ReadWell, Gentle
  <2>3. CASE at'[n] \notin {"attach", "link"}
    BY <2>3 DEF ReadWell
  <2> QED
    BY <2>2, <2>3
<1> QED
  BY <1>1, <1>3, <1>4, <1>5, <1>6, <1>7 DEF Agreement

LEMMA OthersGentle ==
  ASSUME NEW a \in Actors, Apart(a), a \in Scorers => GentleMove(a)
  PROVE  \A b \in Scorers : GentleMove(b)
<1>1. \A b \in Scorers \ {a} : at'[b] = at[b] /\ my'[b] = my[b]
  BY DEF Apart, Scorers, Actors
<1> QED
  BY <1>1 DEF GentleMove

\* Data that no view shows.
LEMMA ShownUnchanged ==
  ASSUME UNCHANGED <<summary, clash, cases, emails, analysis, alert>>,
         rows' \subseteq rows, files' \subseteq files,
         \A e \in Emails : job'[e] = "Completed" => job[e] = "Completed"
  PROVE  Gentle
  BY DEF Gentle

LEMMA RequestGentle ==
  ASSUME TypeInv, NEW e \in Emails, Request(e)
  PROVE  Gentle /\ \A a \in Scorers : GentleMove(a)
<1>1. UNCHANGED <<summary, clash, cases, emails, analysis, alert, rows, files, at, my>>
  BY Zenon DEF Request
<1>2. \A x \in Emails : job'[x] = "Completed" => job[x] = "Completed"
  BY DEF Request, TypeInv, TypeOK
<1> QED
  BY <1>1, <1>2, ShownUnchanged DEF GentleMove

LEMMA SweepGentle ==
  ASSUME TypeInv, Roles, DeletionInv, NEW s \in Sweepers, Sweep(s)
  PROVE  Gentle /\ \A a \in Scorers : GentleMove(a)
<1> DEFINE e == my[s].email
<1>0. s \in Actors /\ s \notin Scorers /\ TypeOK /\ Apart(s) /\ RowDropped(s)
  BY SweepDeletes, ActorsAreDistinct DEF Actors, Scorers, TypeInv, Erases, DeletionInv
<1>1. \A a \in Scorers : GentleMove(a)
  BY <1>0, OthersGentle
<1>2. CASE Tick(s) \/ CheckEmail(s) \/ ScanEvidence(s) \/ CheckEvidence(s) \/ EndSweep(s) \/ SweepLost(s)
             \/ DropIndex(s)
  <2>1. UNCHANGED <<summary, clash, cases, emails, analysis, alert, rows, files, job>>
    BY <1>2, Zenon DEF Tick, CheckEmail, ScanEvidence, CheckEvidence, EndSweep, SweepLost, DropIndex,
       data, history
  <2> QED
    BY <1>1, <2>1, ShownUnchanged
<1>3. CASE DropJobs(s)
  <2>1. UNCHANGED <<summary, clash, cases, emails, analysis, alert, rows, files>>
    BY <1>3, Zenon DEF DropJobs, history
  <2>2. \A x \in Emails : job'[x] = "Completed" => job[x] = "Completed"
    BY <1>0, <1>3 DEF DropJobs, TypeOK
  <2> QED
    BY <1>1, <2>1, <2>2, ShownUnchanged
<1>4. CASE Unlink(s) \/ DropRow(s)
  <2>1. UNCHANGED <<summary, clash, cases, emails, analysis, alert, job>>
    BY <1>4, Zenon DEF Unlink, DropRow, history
  <2>2. rows' \subseteq rows /\ files' \subseteq files
    BY <1>4 DEF Unlink, DropRow
  <2> QED
    BY <1>1, <2>1, <2>2, ShownUnchanged
<1>5. CASE DropAnalysis(s)
  <2>1. UNCHANGED <<summary, clash, cases, emails, alert, rows, files, job>>
    BY <1>5, Zenon DEF DropAnalysis, history
  <2>2. \A x \in Emails : analysis'[x] \in {analysis[x], Missing}
    BY <1>0, <1>5 DEF DropAnalysis, TypeOK
  <2> QED
    BY <1>1, <2>1, <2>2 DEF Gentle
<1>6. CASE DropEmail(s)
  <2>1. UNCHANGED <<summary, clash, cases, analysis, alert, rows, files, job>> /\ emails' \subseteq emails
    BY <1>6 DEF DropEmail, history
  <2> QED
    BY <1>1, <2>1 DEF Gentle
<1>7. CASE DropAlert(s)
  <2>1. UNCHANGED <<summary, clash, cases, emails, analysis, rows, files, job>>
    BY <1>7, Zenon DEF DropAlert, history
  <2>2. e \notin emails
    BY <1>0, <1>7 DEF DropAlert, Go, RowDropped
  <2>3. \A x \in Emails : alert'[x] = alert[x] \/ (x \notin emails /\ alert'[x] = Missing)
    BY <1>0, <1>7, <2>2 DEF DropAlert, TypeOK
  <2> QED
    BY <1>1, <2>1, <2>3 DEF Gentle
<1> QED
  BY <1>2, <1>3, <1>4, <1>5, <1>6, <1>7 DEF Sweep

LEMMA ReportingGentle ==
  ASSUME TypeInv, NEW r \in Requests, Reporting(r), UNCHANGED <<data, history, cut>>
  PROVE  Gentle /\ \A a \in Scorers : GentleMove(a)
<1>1. UNCHANGED <<summary, clash, cases, emails, analysis, alert, rows, files, job>>
  BY Zenon DEF data, history
<1>2. r \in Actors /\ r \notin Scorers
  BY ActorsAreDistinct DEF Actors, Scorers
<1>3. (at' = at /\ my' = my) \/ Apart(r)
  BY <1>2, ReportingMoves, Moves
<1>4. \A a \in Scorers : GentleMove(a)
  BY <1>2, <1>3, OthersGentle DEF GentleMove
<1> QED
  BY <1>1, <1>4, ShownUnchanged

\* The steps of those who write scores, where they write none.
LEMMA ScorerGentle ==
  ASSUME TypeInv, Roles, NEW a \in Workers \cup Rescorers,
         \/ a \in Workers /\ (ReadOriginal(a) \/ WorkerLost(a))
         \/ a \in Rescorers /\ (CheckIdle(a) \/ (Rescore(a) /\ at'[a] = "done"))
  PROVE  Gentle /\ \A b \in Scorers : GentleMove(b)
<1>0. a \in Actors /\ TypeOK /\ a \in Scorers
  BY DEF Actors, TypeInv, Scorers
<1>1. CASE a \in Workers /\ (ReadOriginal(a) \/ WorkerLost(a))
  <2>1. UNCHANGED <<summary, clash, cases, emails, analysis, alert, rows, files>>
    BY <1>1, Zenon DEF ReadOriginal, WorkerLost, history
  <2>2. job' = job \/ Finished(my[a].email, "Failed")
    BY <1>1 DEF ReadOriginal, WorkerLost
  <2>3. \A x \in Emails : job'[x] = "Completed" => job[x] = "Completed"
    BY <1>0, <2>2 DEF Finished, TypeOK
  <2>4. \/ Go(a, "read", "store", my[a])
        \/ \E from : Go(a, from, "done", Blank)
    BY <1>1 DEF ReadOriginal, WorkerLost, Step, Leave
  <2>5. "done" \notin WritingSteps
    BY DEF WritingSteps, Scored
  <2>6. Apart(a) /\ GentleMove(a)
    BY <1>0, <1>1, <2>4, <2>5, Moves DEF GentleMove
  <2> QED
    BY <1>0, <2>1, <2>3, <2>6, OthersGentle, ShownUnchanged
<1>2. CASE a \in Rescorers /\ (CheckIdle(a) \/ (Rescore(a) /\ at'[a] = "done"))
  <2>1. UNCHANGED <<summary, clash, cases, emails, job, alert, rows, files>>
    BY <1>2, Zenon DEF CheckIdle, Rescore, data, history
  <2>2. \E from \in {"check", "rescore"} : \E to, local : /\ Go(a, from, to, local)
              /\ (to = "done" \/ (from = "check" /\ to = "rescore"))
    <3>1. CASE CheckIdle(a)
      BY <3>1 DEF CheckIdle, Step, Leave
    <3>2. CASE Rescore(a) /\ at'[a] = "done"
      <4>1. \E to, local : Go(a, "rescore", to, local)
        BY <3>2 DEF Rescore, Leave
      <4>2. \E local : Go(a, "rescore", "done", local)
        BY <1>0, <3>2, <4>1, Moves
      <4> QED
        BY <4>2
    <3> QED
      BY <1>2, <3>1, <3>2
  <2>3. analysis' = analysis
    <3>1. CASE CheckIdle(a)
      BY <3>1, Zenon DEF CheckIdle, data
    <3>2. CASE Rescore(a) /\ at'[a] = "done"
      <4>1. ASSUME NEW local, Go(a, "rescore", "summary", local) PROVE FALSE
        BY <1>0, <3>2, <4>1, Moves
      <4> QED
        BY <3>2, <4>1 DEF Rescore
    <3> QED
      BY <1>2, <3>1, <3>2
  <2>4. "done" \notin WritingSteps /\ {"check", "rescore"} \cap Scored = {}
    BY DEF WritingSteps, Scored
  <2>5. Apart(a) /\ at[a] \in {"check", "rescore"} /\ (at'[a] = "done" \/ (at[a] = "check" /\ at'[a] = "rescore"))
    <3>1. PICK from \in {"check", "rescore"} : \E to, local :
            Go(a, from, to, local) /\ (to = "done" \/ (from = "check" /\ to = "rescore"))
      BY <2>2
    <3>2. PICK to, local :
            Go(a, from, to, local) /\ (to = "done" \/ (from = "check" /\ to = "rescore"))
      BY <3>1
    <3> QED
      BY <1>0, <3>1, <3>2, Moves
  <2>6. GentleMove(a)
    BY <2>4, <2>5 DEF GentleMove
  <2> QED
    BY <1>0, <2>1, <2>3, <2>5, <2>6, OthersGentle, ShownUnchanged
<1> QED
  BY <1>1, <1>2

\* The steps of analysts other than reading or linking an email for a case.
LEMMA InvestigateGentle ==
  ASSUME TypeInv, Roles, NEW n \in Analysts, Investigate(n),
         ~\E c \in Cases, e \in Emails : ReadCase(n, c, e),
         ~(ReadEmail(n) /\ at'[n] = "link"), ~LinkEmail(n)
  PROVE  Gentle /\ \A b \in Scorers : GentleMove(b)
<1> DEFINE v == my[n]
<1>0. n \in Actors /\ TypeOK /\ n \in Scorers
  BY DEF Actors, TypeInv, Scorers
<1>1. at[n] \notin Scored
  <2>1. at[n] \in {"idle", "done"} \cup OnCase \cup {"campaign"}
    BY ActorsAreDistinct DEF Roles, StepsOf, Actors
  <2> QED
    BY <2>1 DEF OnCase, Scored
<1> DEFINE Away == {"list evidence", "campaign", "done", "assign alert", "mark evidence"}
<1>2. Away \cap WritingSteps = {}
  BY DEF WritingSteps, Scored
<1>3. ASSUME NEW from, NEW to \in Away, NEW local, Go(n, from, to, local)
      PROVE  \A b \in Scorers : GentleMove(b)
  <2>1. Apart(n) /\ at'[n] \notin WritingSteps
    BY <1>0, <1>2, <1>3, Moves
  <2> QED
    BY <1>0, <1>1, <2>1, OthersGentle DEF GentleMove
<1>4. CASE \/ \E c \in Cases, e \in Emails : ReadEvidence(n, c, e)
           \/ \E S \in SUBSET Emails : ReadAnalyses(n, S)
           \/ ReadEmail(n)
  <2>1. UNCHANGED <<summary, clash, cases, emails, analysis, alert, rows, files, job>>
    BY <1>4, Zenon DEF ReadEvidence, ReadAnalyses, ReadEmail, data, history
  <2>2. \E from, local : \E to \in Away : Go(n, from, to, local)
    <3>1. CASE \/ \E c \in Cases, e \in Emails : ReadEvidence(n, c, e)
               \/ \E S \in SUBSET Emails : ReadAnalyses(n, S)
      BY <3>1 DEF ReadEvidence, ReadAnalyses
    <3>2. CASE ReadEmail(n)
      <4>1. \/ Go(n, "attach", "link", [v EXCEPT !.seen = analysis[v.email]])
            \/ Go(n, "attach", "done", Blank)
        BY <3>2 DEF ReadEmail, Leave
      <4>2. ~Go(n, "attach", "link", [v EXCEPT !.seen = analysis[v.email]])
        BY <1>0, <3>2 DEF Go, TypeInv
      <4> QED
        BY <4>1, <4>2
    <3> QED
      BY <1>4, <3>1, <3>2
  <2> QED
    BY <1>3, <2>1, <2>2, ShownUnchanged
<1>5. CASE LinkEvidence(n) \/ InsertCampaign(n)
  <2>1. UNCHANGED <<summary, clash, cases, emails, analysis, alert, rows, files, job>>
    BY <1>5, Zenon DEF LinkEvidence, InsertCampaign, history
  <2>2. \E from, local : \E to \in Away : Go(n, from, to, local)
    BY <1>5 DEF LinkEvidence, InsertCampaign, Step, Leave
  <2> QED
    BY <1>3, <2>1, <2>2, ShownUnchanged
<1>6. CASE ListEvidence(n)
  <2>1. UNCHANGED <<summary, clash, emails, analysis, alert, rows, files, job>>
    BY <1>6, Zenon DEF ListEvidence, history
  <2>2. Go(n, "list evidence", "mark evidence", v)
    BY <1>6 DEF ListEvidence, Step
  <2>3. \A c \in Cases : /\ cases'[c].emails = cases[c].emails
                         /\ cases'[c].score = cases[c].score
                         /\ cases'[c].severity = cases[c].severity
    BY <1>0, <1>6 DEF ListEvidence, TypeOK
  <2>4. Gentle
    BY <2>1, <2>3 DEF Gentle
  <2> QED
    BY <1>3, <2>2, <2>4
<1>7. CASE AssignAlert(n) \/ \E e \in Emails : ChangeAlert(n, e)
  <2>1. UNCHANGED <<summary, clash, cases, emails, analysis, rows, files, job>>
    BY <1>7, Zenon DEF AssignAlert, ChangeAlert, history
  <2>2. \E from : Go(n, from, "done", Blank)
    BY <1>7 DEF AssignAlert, ChangeAlert, Leave
  <2>3. \A x \in Emails : /\ alert'[x] = Missing <=> alert[x] = Missing
                          /\ alert[x] # Missing => alert'[x].score = alert[x].score
    <3>1. \A x \in Emails : alert'[x] = Missing <=> alert[x] = Missing
      BY InvestigateAside DEF Aside
    <3>2. \A x \in Emails : alert[x] # Missing => alert[x] \in Alerts
      BY <1>0 DEF TypeOK
    <3>3. \/ alert' = alert
          \/ \E x \in Emails : \/ \E status : alert' = [alert EXCEPT ![x].status = status]
                               \/ \E case : alert' = [alert EXCEPT ![x].case = case]
          \/ my[n].email \notin Emails
      BY <1>7 DEF AssignAlert, ChangeAlert
    <3>4. my[n].email \in Emails \/ ~AssignAlert(n)
      <4>1. at[n] = "assign alert" => my[n].email \in Emails
        BY <1>0 DEF TypeInv, StepTyped, OnEmail, OnCase
      <4> QED
        BY <4>1 DEF AssignAlert, Leave, Go
    <3>5. \/ alert' = alert
          \/ \E x \in Emails : \/ \E status : alert' = [alert EXCEPT ![x].status = status]
                               \/ \E case : alert' = [alert EXCEPT ![x].case = case]
      BY <1>7, <3>3, <3>4 DEF ChangeAlert
    <3>6. \A x \in Emails : alert[x] # Missing => alert'[x].score = alert[x].score
      <4>1. alert \in [Emails -> {Missing} \cup Alerts]
        BY <1>0 DEF TypeOK
      <4>2. ASSUME NEW x \in Emails, NEW status, alert' = [alert EXCEPT ![x].status = status]
            PROVE  \A y \in Emails : alert[y] # Missing => alert'[y].score = alert[y].score
        BY <3>2, <4>1, <4>2 DEF Alerts
      <4>3. ASSUME NEW x \in Emails, NEW case, alert' = [alert EXCEPT ![x].case = case]
            PROVE  \A y \in Emails : alert[y] # Missing => alert'[y].score = alert[y].score
        BY <3>2, <4>1, <4>3 DEF Alerts
      <4> QED
        BY <3>5, <4>2, <4>3
    <3> QED
      BY <3>1, <3>6
  <2>4. Gentle
    BY <2>1, <2>3 DEF Gentle
  <2> QED
    BY <1>3, <2>2, <2>4
<1> QED
  BY <1>4, <1>5, <1>6, <1>7 DEF Investigate

\* Emails and cases agree as before a gentle step, if rescorings go on.
LEMMA GentleViews ==
  ASSUME TypeInv, Agreement, Gentle, Rescored \subseteq Rescored', Recounted \subseteq Recounted'
  PROVE  EmailsAgree' /\ CasesAgree' /\ EmptyCases'
<1>1. EmailsAgree'
  BY GentleEmails DEF Agreement, EmailsAgree
<1>2. CasesAgree'
  BY GentleCases DEF Agreement, CasesAgree, Gentle
<1>3. EmptyCases'
  BY DEF Agreement, EmptyCases, Gentle
<1> QED
  BY <1>1, <1>2, <1>3

----------------------------------------------------------------------------
(* Whoever writes scores is alone. *)

Alone(a) == \A b \in Scorers \ {a} : ~Writing(b)

LEMMA AloneMarks ==
  ASSUME NEW a \in Scorers, Alone(a), Apart(a), NEW e
  PROVE  /\ (e \in Rescored) <=> (a \in Rescorers /\ at[a] \in {"summary", "refresh", "raise"} /\ my[a].email = e)
         /\ (e \in Recounted) <=> (a \in Rescorers /\ at[a] \in Scored /\ my[a].email = e)
         /\ (e \in Rescored') <=> (a \in Rescorers /\ at'[a] \in {"summary", "refresh", "raise"} /\ my'[a].email = e)
         /\ (e \in Recounted') <=> (a \in Rescorers /\ at'[a] \in Scored /\ my'[a].email = e)
<1>1. \A r \in Rescorers \ {a} : at[r] \notin Scored /\ at'[r] \notin Scored
  <2>1. Rescorers \subseteq Scorers /\ Scorers \subseteq Actors
    BY DEF Scorers, Actors
  <2> QED
    BY <2>1 DEF Alone, Apart, Writing, WritingSteps
<1>2. {"summary", "refresh", "raise"} \subseteq Scored
  BY DEF Scored
<1>3. (e \in Rescored) <=> \E r \in Rescorers : at[r] \in {"summary", "refresh", "raise"} /\ my[r].email = e
  BY DEF Rescored
<1>4. (e \in Recounted) <=> \E r \in Rescorers : at[r] \in Scored /\ my[r].email = e
  BY DEF Recounted
<1>5. (e \in Rescored') <=> \E r \in Rescorers : at'[r] \in {"summary", "refresh", "raise"} /\ my'[r].email = e
  BY DEF Rescored
<1>6. (e \in Recounted') <=> \E r \in Rescorers : at'[r] \in Scored /\ my'[r].email = e
  BY DEF Recounted
<1> QED
  BY <1>1, <1>2, <1>3, <1>4, <1>5, <1>6

\* What an actor that writes alone has to keep.
LEMMA AloneSuffices ==
  ASSUME NEW a \in Scorers, Alone(a), Apart(a), EmailsAgree', CasesAgree', EmptyCases',
         a \in Workers \cup Rescorers => Published(a)', a \in Analysts => ReadWell(a)'
  PROVE  Agreement'
<1>1. \A b \in Scorers \ {a} : at'[b] \notin WritingSteps
  BY DEF Alone, Apart, Writing, Scorers, Actors
<1>2. OneWriter'
  BY <1>1 DEF OneWriter, Writing
<1>3. ASSUME NEW b \in Workers \cup Rescorers PROVE Published(b)'
  <2>1. b # a => at'[b] \notin Scored
    BY <1>1 DEF Scorers, WritingSteps
  <2> QED
    BY <2>1, Unpublished
<1>4. ASSUME NEW n \in Analysts PROVE ReadWell(n)'
  <2>1. n # a => at'[n] \notin {"attach", "link"}
    BY <1>1 DEF Scorers, WritingSteps
  <2> QED
    BY <2>1 DEF ReadWell
<1> QED
  BY <1>2, <1>3, <1>4 DEF Agreement

\* Where nobody else was busy, who starts to work is alone and has nothing to show.
LEMMA StartAgrees ==
  ASSUME TypeInv, Roles, Agreement, ~clash, ~clash', NEW a \in Scorers, NEW e \in Emails,
         \/ Claim(a, e) /\ a \in Workers
         \/ Pick(a, e) /\ a \in Rescorers
         \/ \E c \in Cases : ReadCase(a, c, e) /\ a \in Analysts
  PROVE  Agreement'
<1>0. a \in Actors /\ TypeOK
  BY DEF Scorers, Actors, TypeInv
<1>1. Starts(a, e) /\ UNCHANGED <<summary, cases, emails, analysis, alert, rows, files>>
  BY Zenon DEF Claim, Pick, ReadCase, data
<1>2. \A x \in Emails : job'[x] = "Completed" => job[x] = "Completed"
  <2>1. job' = job \/ job' = [job EXCEPT ![e] = "Running"]
    BY DEF Claim, Pick, ReadCase, data
  <2> QED
    BY <1>0, <2>1 DEF TypeOK
<1>3. Gentle
  <2>0. clash \in BOOLEAN /\ clash' \in BOOLEAN
    BY <1>0, <1>1, Zenon DEF TypeOK, Starts
  <2>1. clash' = clash
    BY <2>0, Zenon
  <2> QED
    BY <1>1, <1>2, <2>1, ShownUnchanged
<1>4. Alone(a)
  <2>1. \A b \in Scorers \ {a} : at[b] \in {"idle", "done"}
    BY <1>1 DEF Starts, Busy
  <2> QED
    BY <2>1 DEF Alone, Writing, WritingSteps, Scored
<1>5. \E to \in {"read", "check", "attach"} : \E local : Go(a, "idle", to, local)
  BY DEF Claim, Pick, ReadCase
<1>6. Apart(a) /\ at[a] = "idle" /\ at'[a] \in {"read", "check", "attach"}
  BY <1>0, <1>5, Moves
<1>7. at[a] \notin Scored /\ at'[a] \notin Scored
  BY <1>6 DEF Scored
<1>8. Rescored \subseteq Rescored' /\ Recounted \subseteq Recounted'
  BY <1>4, <1>6, <1>7, AloneMarks DEF Scored
<1>9. EmailsAgree' /\ CasesAgree' /\ EmptyCases'
  BY <1>3, <1>8, GentleViews
<1>10. Published(a)'
  BY <1>7, Unpublished
<1>11. a \in Analysts => ReadWell(a)'
  <2> SUFFICES ASSUME a \in Analysts PROVE ReadWell(a)'
    OBVIOUS
  <2>1. PICK c \in Cases : ReadCase(a, c, e)
    BY ActorsAreDistinct
  <2> DEFINE local == [Blank EXCEPT !.case = c, !.email = e, !.score = cases[c].score]
  <2>2. local.case = c /\ local.score = cases[c].score
    BY DEF Blank
  <2> HIDE DEF local
  <2>3. Go(a, "idle", "attach", local)
    BY <2>1 DEF ReadCase, local
  <2>4. at'[a] = "attach" /\ my'[a] = local
    BY <1>0, <2>3, Moves
  <2> QED
    BY <1>1, <2>2, <2>4 DEF ReadWell
<1> QED
  BY <1>4, <1>6, <1>9, <1>10, <1>11, AloneSuffices

CasesWith(e) == {c \in Cases : e \in cases[c].emails}

\* A step that changes the rows of one email.
OwnRows(e) ==
    /\ UNCHANGED <<emails, rows, files, cases>>
    /\ \A x \in Emails \ {e} : /\ analysis'[x] = analysis[x] /\ summary'[x] = summary[x]
                               /\ alert'[x] = alert[x] /\ job'[x] = job[x]

LEMMA OwnViews ==
  ASSUME TypeInv, Agreement, NEW e \in Emails, OwnRows(e),
         \A x \in Emails \ {e} : (x \in Rescored => x \in Rescored') /\ (x \in Recounted => x \in Recounted'),
         e \notin Rescored' /\ Settled(e)' => EmailAgrees(e)',
         \A c \in CasesWith(e) : e \notin Recounted' /\ Settled(e)' => CaseAgrees(c)'
  PROVE  EmailsAgree' /\ CasesAgree' /\ EmptyCases'
<1>1. \A x \in Emails \ {e} : /\ Settled(x)' => Settled(x)
                              /\ EmailAgrees(x) => EmailAgrees(x)'
  BY DEF OwnRows, Settled, Whole, EmailAgrees
<1>2. EmailsAgree'
  BY <1>1 DEF Agreement, EmailsAgree
<1>3. CasesAgree'
  <2> SUFFICES ASSUME NEW c \in Cases, CaseSettled(c)', (cases[c].emails \cap Recounted = {})'
               PROVE  CaseAgrees(c)'
    BY DEF CasesAgree
  <2>0. cases' = cases /\ cases[c].emails \subseteq Emails
    BY DEF OwnRows, TypeInv, TypeOK
  <2>1. CASE e \in cases[c].emails
    <3>1. e \notin Recounted' /\ Settled(e)'
      BY <2>0, <2>1 DEF CaseSettled
    <3> QED
      BY <2>1, <3>1 DEF CasesWith
  <2>2. CASE e \notin cases[c].emails
    <3>1. \A x \in cases[c].emails : Settled(x) /\ x \notin Recounted /\ analysis'[x] = analysis[x]
      BY <1>1, <2>0, <2>2 DEF CaseSettled, OwnRows
    <3>2. CaseAgrees(c)
      BY <3>1 DEF Agreement, CasesAgree, CaseSettled
    <3> QED
      BY <2>0, <3>1, <3>2, CaseKept
  <2> QED
    BY <2>1, <2>2
<1>4. EmptyCases'
  BY DEF Agreement, EmptyCases, OwnRows
<1> QED
  BY <1>2, <1>3, <1>4

\* The email of a busy worker has no completed job.
LEMMA WorkersUnsettled ==
  ASSUME Roles, DeletionInv, NEW w \in Workers, Busy(w)
  PROVE  ~Settled(my[w].email)
BY DEF DeletionInv, OwnJob, Settled

\* An actor that writes a score to its email: alone, among those that do.
LEMMA WriterAlone ==
  ASSUME TypeInv, Agreement, NEW a \in Workers \cup Rescorers, NEW from \in WritingSteps, NEW to,
         NEW local, Go(a, from, to, local)
  PROVE  /\ a \in Scorers /\ a \in Actors /\ Alone(a) /\ Apart(a) /\ Published(a) /\ Busy(a)
         /\ a \notin Analysts /\ (a \in Workers <=> a \notin Rescorers)
         /\ at[a] = from /\ at'[a] = to /\ my'[a] = local
         /\ my[a].email \in Emails /\ my[a] \in Locals /\ TypeOK
<1>1. a \in Scorers /\ a \in Actors /\ a \notin Analysts /\ (a \in Workers <=> a \notin Rescorers)
  BY ActorsAreDistinct DEF Scorers, Actors
<1>2. Apart(a) /\ at[a] = from /\ at'[a] = to /\ my'[a] = local
  BY <1>1, Moves
<1>3. Alone(a)
  BY <1>1, <1>2 DEF Alone, Agreement, OneWriter, Writing
<1>4. from \in OnEmail /\ from \notin {"idle", "done"}
  BY DEF WritingSteps, OnEmail, OnCase, Scored
<1>5. my[a].email \in Emails /\ my[a] \in Locals /\ TypeOK
  BY <1>1, <1>2, <1>4 DEF TypeInv, StepTyped
<1> QED
  BY <1>1, <1>2, <1>3, <1>4, <1>5 DEF Agreement, Busy

\* A worker stores its analysis; a rescoring, its new scores.
LEMMA StoreAgrees ==
  ASSUME TypeInv, Roles, DeletionInv, Agreement, NEW a \in Workers \cup Rescorers,
         (Store(a) /\ a \in Workers) \/ (Rescore(a) /\ at'[a] = "summary" /\ a \in Rescorers)
  PROVE  Agreement'
<1> DEFINE v == my[a] e == v.email
<1>1. PICK from \in {"store", "rescore"} : \E s \in Scores, row \in Analyses : \E seen :
        /\ Go(a, from, "summary", [v EXCEPT !.score = s, !.seen = seen])
        /\ analysis' = [analysis EXCEPT ![e] = row] /\ row.score = s
  <2>0. a \in Actors /\ TypeOK /\ v \in Locals
    BY DEF Actors, TypeInv, StepTyped
  <2>1. CASE Store(a)
    <3>1. PICK s \in Scores :
        /\ Go(a, "store", "summary", [v EXCEPT !.score = s])
        /\ analysis' = [analysis EXCEPT ![e] =
                [run |-> runs[e], basis |-> runs[e], score |-> s, version |-> "new"]]
      BY <2>1 DEF Store
    <3>2. [v EXCEPT !.score = s] = [v EXCEPT !.score = s, !.seen = v.seen]
      BY <2>0 DEF Locals
    <3>3. at[a] = "store"
      BY <3>1 DEF Go
    <3>4. runs[e] \in 0..MaxRuns
      BY <2>0, <3>3 DEF TypeInv, TypeOK, StepTyped, OnEmail
    <3> DEFINE row == [run |-> runs[e], basis |-> runs[e], score |-> s, version |-> "new"]
    <3>5. row \in Analyses /\ row.score = s
      BY <3>4 DEF Analyses
    <3> HIDE DEF row
    <3>6. analysis' = [analysis EXCEPT ![e] = row]
      BY <3>1 DEF row
    <3>7. Go(a, "store", "summary", [v EXCEPT !.score = s, !.seen = v.seen])
      BY <3>1, <3>2
    <3> QED
      BY <3>5, <3>6, <3>7
  <2>2. CASE Rescore(a) /\ at'[a] = "summary"
    <3>1. ~Go(a, "rescore", "done", Blank)
      BY <2>0, <2>2, Moves
    <3>2. Unchanged(analysis[e], my[a].seen)
      BY <2>2, <3>1 DEF Rescore, Leave
    <3>3. PICK s \in Scores :
            /\ Go(a, "rescore", "summary", [v EXCEPT !.score = s, !.seen = Missing])
            /\ analysis' = [analysis EXCEPT ![e] =
                [run |-> @.run, basis |-> my[a].seen.run, score |-> s, version |-> "new"]]
      BY <2>2, <3>2 DEF Rescore
    <3>4. at[a] = "rescore"
      BY <3>3 DEF Go
    <3>5. v.seen \in Analyses /\ e \in Emails
      BY <2>0, <3>4 DEF TypeInv, StepTyped, OnEmail
    <3>6. analysis[e] \in Analyses
      BY <2>0, <3>2, <3>5 DEF TypeOK, Unchanged
    <3> DEFINE row == [run |-> analysis[e].run, basis |-> v.seen.run, score |-> s, version |-> "new"]
    <3>7. row \in Analyses /\ row.score = s
      BY <3>5, <3>6 DEF Analyses
    <3>8. analysis' = [analysis EXCEPT ![e] = row]
      BY <3>3
    <3> HIDE DEF row
    <3> QED
      BY <3>3, <3>7, <3>8
  <2> QED
    BY <2>1, <2>2
<1>2. PICK s \in Scores, row \in Analyses : \E seen :
        /\ Go(a, from, "summary", [v EXCEPT !.score = s, !.seen = seen])
        /\ analysis' = [analysis EXCEPT ![e] = row] /\ row.score = s
  BY <1>1
<1>3. PICK seen :
        /\ Go(a, from, "summary", [v EXCEPT !.score = s, !.seen = seen])
        /\ analysis' = [analysis EXCEPT ![e] = row] /\ row.score = s
  BY <1>2
<1> DEFINE local == [v EXCEPT !.score = s, !.seen = seen]
<1>4. v \in Locals => local.email = e /\ local.score = s
  BY DEF Locals
<1> HIDE DEF local
<1>5. Go(a, from, "summary", local) /\ from \in WritingSteps
  BY <1>3 DEF local, WritingSteps
<1>6. /\ a \in Scorers /\ a \in Actors /\ Alone(a) /\ Apart(a) /\ Busy(a)
      /\ a \notin Analysts /\ (a \in Workers <=> a \notin Rescorers)
      /\ at[a] = from /\ at'[a] = "summary" /\ my'[a] = local /\ e \in Emails /\ TypeOK
      /\ my'[a].email = e /\ my'[a].score = s
  BY <1>4, <1>5, WriterAlone
<1>7. UNCHANGED <<emails, rows, files, cases, summary, alert, job>>
  BY Zenon DEF Store, Rescore
<1>8. analysis'[e] = row /\ \A x \in Emails \ {e} : analysis'[x] = analysis[x]
  BY <1>3, <1>6 DEF TypeOK
<1>9. OwnRows(e)
  BY <1>7, <1>8 DEF OwnRows
<1>10. at[a] \notin Scored
  BY <1>6 DEF Scored
<1>11. a \in Workers => ~Settled(e)'
  BY <1>6, <1>7 DEF DeletionInv, OwnJob, Settled
<1>12. a \in Rescorers => e \in Rescored' /\ e \in Recounted'
  BY <1>6, AloneMarks DEF Scored
<1>13. \A x \in Emails \ {e} : x \notin Rescored /\ x \notin Recounted
  BY <1>6, <1>10, AloneMarks DEF Scored
<1>14. EmailsAgree' /\ CasesAgree' /\ EmptyCases'
  BY <1>6, <1>9, <1>11, <1>12, <1>13, OwnViews
<1>15. Published(a)'
  BY <1>3, <1>6, <1>8 DEF Published, ScoreStands, SummaryShows, AlertShows, AlertRaised, CasesRead,
     HighestRead, CasesDone, AfterRefresh, AfterRaise
<1> QED
  BY <1>6, <1>14, <1>15, AloneSuffices

LEMMA SummariseAgrees ==
  ASSUME TypeInv, Roles, DeletionInv, Agreement, NEW a \in Workers \cup Rescorers, Summarise(a)
  PROVE  Agreement'
<1> DEFINE v == my[a] e == v.email next == IF a \in Workers THEN "cases" ELSE "refresh"
<1>1. Go(a, "summary", next, v) /\ "summary" \in WritingSteps
  BY DEF Summarise, Step, WritingSteps, Scored
<1>2. /\ a \in Scorers /\ a \in Actors /\ Alone(a) /\ Apart(a) /\ Busy(a) /\ Published(a)
      /\ a \notin Analysts /\ (a \in Workers <=> a \notin Rescorers)
      /\ at[a] = "summary" /\ at'[a] = next /\ my'[a] = v /\ e \in Emails /\ TypeOK
  BY <1>1, WriterAlone
<1>3. UNCHANGED <<emails, rows, files, cases, analysis, alert, job>>
  BY Zenon DEF Summarise
<1>4. /\ \A x \in Emails \ {e} : summary'[x] = summary[x]
      /\ e \in emails /\ (a \in Workers \/ job[e] = "Completed") => summary'[e] = v.score
  BY <1>2 DEF Summarise, TypeOK
<1>5. OwnRows(e)
  BY <1>3, <1>4 DEF OwnRows
<1>6. a \in Workers => ~Settled(e)'
  BY <1>2, <1>3 DEF DeletionInv, OwnJob, Settled
<1>7. a \in Rescorers => e \in Rescored' /\ e \in Recounted'
  BY <1>2, AloneMarks DEF Scored
<1>8. \A x \in Emails \ {e} : x \notin Rescored /\ x \notin Recounted
  BY <1>2, AloneMarks
<1>9. EmailsAgree' /\ CasesAgree' /\ EmptyCases'
  BY <1>2, <1>5, <1>6, <1>7, <1>8, OwnViews
<1>10. Published(a)'
  <2>1. at'[a] \in {"cases", "refresh"} /\ at'[a] \notin AfterRefresh(a)' /\ at'[a] \notin AfterRaise(a)'
    BY <1>2 DEF AfterRefresh, AfterRaise
  <2>2. ScoreStands(a)'
    BY <1>2, <1>3 DEF Published, ScoreStands, Scored
  <2>3. SummaryShows(a)'
    BY <1>2, <1>3, <1>4 DEF SummaryShows
  <2> QED
    BY <1>2, <2>1, <2>2, <2>3 DEF Published, AlertShows, AlertRaised, CasesRead, HighestRead, CasesDone
<1> QED
  BY <1>2, <1>9, <1>10, AloneSuffices

\* Steps that only read, or that write what no view shows.
LEMMA ReadingAgrees ==
  ASSUME TypeInv, Agreement, NEW a \in Workers \cup Rescorers, NEW from \in Scored, NEW to \in Scored,
         NEW local, Go(a, from, to, local), local.email = my[a].email,
         from \in {"summary", "refresh", "raise"} => to \in {"summary", "refresh", "raise"} \/ a \in Workers,
         UNCHANGED <<summary, clash, cases, emails, analysis, alert, rows, files, job>>,
         Published(a)'
  PROVE  Agreement'
<1>1. from \in WritingSteps
  BY DEF WritingSteps
<1>2. /\ a \in Scorers /\ Alone(a) /\ Apart(a)
      /\ a \notin Analysts /\ (a \in Workers <=> a \notin Rescorers)
      /\ at[a] = from /\ at'[a] = to /\ my'[a] = local
  BY <1>1, WriterAlone
<1>3. Rescored \subseteq Rescored' /\ Recounted \subseteq Recounted'
  BY <1>2, AloneMarks
<1>4. Gentle
  BY ShownUnchanged
<1>5. EmailsAgree' /\ CasesAgree' /\ EmptyCases'
  BY <1>3, <1>4, GentleViews
<1> QED
  BY <1>2, <1>5, AloneSuffices

\* What the email's row and alert show is still so after a step that changes no row.
LEMMA ShownStill ==
  ASSUME NEW a, Published(a), at[a] \in Scored, my'[a].email = my[a].email, my'[a].score = my[a].score,
         UNCHANGED <<emails, summary, analysis, alert, job>>, at[a] # "summary",
         at'[a] \in AfterRefresh(a)' => at[a] \in AfterRefresh(a),
         at'[a] \in AfterRaise(a)' => at[a] \in AfterRaise(a)
  PROVE  ScoreStands(a)' /\ SummaryShows(a)' /\ AlertShows(a)' /\ AlertRaised(a)'
<1>1. ScoreStands(a)'
  BY DEF Published, ScoreStands
<1>2. SummaryShows(a)'
  BY DEF Published, SummaryShows
<1>3. AlertShows(a)'
  BY DEF Published, AlertShows
<1>4. AlertRaised(a)'
  BY DEF Published, AlertRaised
<1> QED
  BY <1>1, <1>2, <1>3, <1>4

LEMMA FindCasesAgrees ==
  ASSUME TypeInv, Agreement, NEW a \in Workers \cup Rescorers, FindCases(a)
  PROVE  Agreement'
<1> DEFINE v == my[a] e == v.email
           found == {c \in Cases : e \in cases[c].emails}
           read == {[case |-> c, emails |-> cases[c].emails] : c \in found}
           local == [v EXCEPT !.left = read]
<1>1. Go(a, "cases", "each case", local) /\ UNCHANGED <<data, history>>
  BY DEF FindCases
<1>2. UNCHANGED <<summary, clash, cases, emails, analysis, alert, rows, files, job>>
  BY <1>1, Zenon DEF data, history
<1>3. v \in Locals => local.email = e /\ local.score = v.score /\ local.left = read
  BY DEF Locals
<1>4. /\ \A x \in read : x.emails = cases[x.case].emails
      /\ \A c \in found : \E x \in read : x.case = c
  <2>1. \A c \in found : [case |-> c, emails |-> cases[c].emails] \in read
    OBVIOUS
  <2>2. \A x \in read : \E c \in found : x = [case |-> c, emails |-> cases[c].emails]
    OBVIOUS
  <2> HIDE DEF read, found
  <2>3. ASSUME NEW x \in read PROVE x.emails = cases[x.case].emails
    <3>1. PICK c \in found : x = [case |-> c, emails |-> cases[c].emails]
      BY <2>2
    <3> QED
      BY <3>1
  <2>4. ASSUME NEW c \in found PROVE \E x \in read : x.case = c
    <3>1. [case |-> c, emails |-> cases[c].emails].case = c
      OBVIOUS
    <3> QED
      BY <2>1, <3>1
  <2> QED
    BY <2>3, <2>4
<1> HIDE DEF read, local
<1>5. "cases" \in WritingSteps
  BY DEF WritingSteps, Scored
<1>6. /\ at[a] = "cases" /\ at'[a] = "each case" /\ Published(a) /\ v \in Locals
      /\ my'[a].email = e /\ my'[a].score = v.score /\ my'[a].left = read /\ my'[a] = local
  BY <1>1, <1>3, <1>5, WriterAlone
<1>7. "cases" \in Scored /\ "each case" \in Scored
  BY DEF Scored
<1>8. ScoreStands(a)' /\ SummaryShows(a)' /\ AlertShows(a)' /\ AlertRaised(a)'
  <2>1. /\ at'[a] \in AfterRefresh(a)' => at[a] \in AfterRefresh(a)
        /\ at'[a] \in AfterRaise(a)' => at[a] \in AfterRaise(a)
    BY <1>6 DEF AfterRefresh, AfterRaise
  <2> QED
    BY <1>2, <1>6, <1>7, <2>1, ShownStill
<1>9. CasesRead(a)'
  <2>1. CasesOf(a)' = found
    BY <1>2, <1>6 DEF CasesOf
  <2>2. ToDo(a)' = {x.case : x \in read}
    BY <1>6 DEF ToDo
  <2>3. CasesOf(a)' \ ToDo(a)' = {}
    BY <1>4, <2>1, <2>2
  <2> QED
    BY <1>2, <1>4, <1>6, <2>3 DEF CasesRead
<1>10. Published(a)'
  BY <1>6, <1>8, <1>9 DEF Published, HighestRead, CasesDone
<1> QED
  BY <1>1, <1>2, <1>3, <1>6, <1>7, <1>10, ReadingAgrees

LEMMA ReadHighestAgrees ==
  ASSUME TypeInv, Agreement, NEW a \in Workers \cup Rescorers, ReadHighest(a)
  PROVE  Agreement'
<1> DEFINE v == my[a] e == v.email
<1>1. PICK x \in v.left :
        LET stored == {analysis[o].score : o \in {y \in x.emails : analysis[y] # Missing}}
            rest == [v EXCEPT !.left = @ \ {x}]
        IN  IF stored = {} THEN Go(a, "each case", "each case", rest)
            ELSE Go(a, "each case", "write case",
                    [rest EXCEPT !.case = x.case, !.seen = Newest(stored)])
  BY DEF ReadHighest
<1> DEFINE stored == {analysis[o].score : o \in {y \in x.emails : analysis[y] # Missing}}
           rest == [v EXCEPT !.left = v.left \ {x}]
           next == [rest EXCEPT !.case = x.case, !.seen = Newest(stored)]
<1>2. \/ stored = {} /\ Go(a, "each case", "each case", rest)
      \/ stored # {} /\ Go(a, "each case", "write case", next)
  BY <1>1
<1>3. UNCHANGED <<summary, clash, cases, emails, analysis, alert, rows, files, job>>
  <2>1. UNCHANGED <<data, history>>
    BY DEF ReadHighest
  <2> QED
    BY <2>1, Zenon DEF data, history
<1>4. v \in Locals =>
        /\ rest.email = e /\ rest.score = v.score /\ rest.left = v.left \ {x}
        /\ next.email = e /\ next.score = v.score /\ next.left = v.left \ {x}
        /\ next.case = x.case /\ next.seen = Newest(stored)
  BY DEF Locals
<1> HIDE DEF stored, rest, next
<1>5. "each case" \in WritingSteps /\ "each case" \in Scored /\ "write case" \in Scored
  BY DEF WritingSteps, Scored
<1>6. PICK to \in {"each case", "write case"}, local \in {rest, next} :
        /\ Go(a, "each case", to, local)
        /\ \/ stored = {} /\ to = "each case" /\ local = rest
           \/ stored # {} /\ to = "write case" /\ local = next
  BY <1>2
<1>7. /\ at[a] = "each case" /\ at'[a] = to /\ Published(a) /\ v \in Locals /\ my'[a] = local
      /\ a \in Actors
  BY <1>5, <1>6, WriterAlone
<1>8. my'[a].email = e /\ my'[a].score = v.score /\ my'[a].left = v.left \ {x} /\ local.email = e
  BY <1>4, <1>6, <1>7
<1>9. x.case \in Cases /\ x.emails = cases[x.case].emails
  BY <1>7, LocalTypes DEF Published, CasesRead
<1>10. stored = {} => CaseAgrees(x.case)
  BY <1>9 DEF stored, CaseAgrees, AllAnalysed
<1>11. ScoreStands(a)' /\ SummaryShows(a)' /\ AlertShows(a)' /\ AlertRaised(a)'
  <2>1. /\ at'[a] \in AfterRefresh(a)' => at[a] \in AfterRefresh(a)
        /\ at'[a] \in AfterRaise(a)' => at[a] \in AfterRaise(a)
    BY <1>7 DEF AfterRefresh, AfterRaise
  <2> QED
    BY <1>3, <1>5, <1>7, <1>8, <2>1, ShownStill
<1>12. CasesRead(a)'
  <2>1. CasesOf(a)' = CasesOf(a)
    BY <1>3, <1>8 DEF CasesOf
  <2>2. ToDo(a) \ {x.case} \subseteq ToDo(a)' /\ (stored # {} => x.case \in ToDo(a)')
    <3>1. \A c \in ToDo(a) \ {x.case} : \E y \in v.left \ {x} : c = y.case
      BY <1>7 DEF ToDo
    <3>2. {y.case : y \in v.left \ {x}} \subseteq ToDo(a)'
      BY <1>8 DEF ToDo
    <3>3. stored # {} => x.case \in ToDo(a)'
      BY <1>4, <1>6, <1>7 DEF ToDo
    <3> QED
      BY <3>1, <3>2, <3>3
  <2>3. \A c \in CasesOf(a) \ ToDo(a) : CaseAgrees(c)
    BY <1>7 DEF Published, CasesRead
  <2>4. \A c \in CasesOf(a)' \ ToDo(a)' : CaseAgrees(c)
    BY <1>10, <2>1, <2>2, <2>3
  <2>5. \A c : CaseAgrees(c) => CaseAgrees(c)'
    BY <1>3 DEF CaseAgrees, AllAnalysed, HighestOf
  <2>6. \A y \in v.left : y.emails = cases[y.case].emails
    BY <1>7 DEF Published, CasesRead
  <2> QED
    BY <1>3, <1>8, <2>4, <2>5, <2>6 DEF CasesRead
<1>13. HighestRead(a)'
  <2> SUFFICES ASSUME to = "write case"
               PROVE  /\ cases[x.case].emails # {}
                      /\ (\A y \in cases[x.case].emails : analysis[y] # Missing) =>
                            Newest(stored) = Newest({analysis[y].score : y \in cases[x.case].emails})
    <3>1. to = "write case" => my'[a].case = x.case /\ my'[a].seen = Newest(stored)
      BY <1>4, <1>6, <1>7
    <3> QED
      BY <1>3, <1>7, <3>1 DEF HighestRead, AllAnalysed, HighestOf
  <2>1. stored # {}
    BY <1>6
  <2>2. cases[x.case].emails # {}
    BY <1>9, <2>1 DEF stored
  <2>3. ASSUME \A y \in cases[x.case].emails : analysis[y] # Missing
        PROVE  stored = {analysis[y].score : y \in cases[x.case].emails}
    BY <1>9, <2>3 DEF stored
  <2> QED
    BY <2>2, <2>3
<1>14. Published(a)'
  BY <1>7, <1>11, <1>12, <1>13 DEF Published, CasesDone
<1> QED
  BY <1>3, <1>5, <1>6, <1>7, <1>8, <1>14, ReadingAgrees

LEMMA WriteHighestAgrees ==
  ASSUME TypeInv, Agreement, NEW a \in Workers \cup Rescorers, WriteHighest(a)
  PROVE  Agreement'
<1> DEFINE v == my[a] e == v.email c == v.case
           local == [v EXCEPT !.case = Missing, !.seen = Missing]
<1>1. Go(a, "write case", "each case", local)
  BY DEF WriteHighest
<1>2. v \in Locals => local.email = e /\ local.score = v.score /\ local.left = v.left
  BY DEF Locals
<1> HIDE DEF local
<1>3. "write case" \in WritingSteps /\ "write case" \in Scored
  BY DEF WritingSteps, Scored
<1>4. /\ a \in Scorers /\ a \in Actors /\ Alone(a) /\ Apart(a) /\ Published(a)
      /\ a \notin Analysts /\ (a \in Workers <=> a \notin Rescorers)
      /\ at[a] = "write case" /\ at'[a] = "each case" /\ my'[a] = local /\ TypeOK
      /\ my'[a].email = e /\ my'[a].score = v.score /\ my'[a].left = v.left
  BY <1>1, <1>2, <1>3, WriterAlone
<1>5. UNCHANGED <<summary, emails, analysis, alert, rows, files, job>>
  BY Zenon DEF WriteHighest
<1>6. c \in Cases
  BY <1>4, LocalTypes
<1>7. /\ \A x \in Cases : cases'[x].emails = cases[x].emails
      /\ \A x \in Cases \ {c} : cases'[x].score = cases[x].score /\ cases'[x].severity = cases[x].severity
      /\ cases'[c].score = v.seen /\ cases'[c].severity = v.seen
  <2>1. cases' = [cases EXCEPT ![c].score = v.seen, ![c].severity = v.seen]
    BY DEF WriteHighest
  <2> QED
    BY <1>4, <1>6, <2>1 DEF TypeOK
<1>8. cases[c].emails # {} /\ (AllAnalysed(c) => v.seen = HighestOf(cases[c].emails))
  BY <1>4 DEF Published, HighestRead
<1>9. \A x \in {c} : CaseAgrees(x)'
  <2> SUFFICES ASSUME NEW x, x = c PROVE CaseAgrees(x)'
    OBVIOUS
  <2>1. HighestOf(cases[x].emails)' = HighestOf(cases[x].emails) /\ AllAnalysed(x)' = AllAnalysed(x)
    BY <1>5, <1>6, <1>7 DEF HighestOf, AllAnalysed
  <2> QED
    BY <1>6, <1>7, <1>8, <2>1 DEF CaseAgrees
<1>10. \A x \in Cases : CaseAgrees(x) => CaseAgrees(x)'
  <2> SUFFICES ASSUME NEW x \in Cases \ {c}, CaseAgrees(x)
               PROVE  CaseAgrees(x)'
    BY <1>9
  <2> QED
    BY <1>5, <1>7, CaseKept
<1>11. Rescored' = Rescored /\ Recounted' = Recounted
  <2>1. \A x : (x \in Rescored' <=> x \in Rescored) /\ (x \in Recounted' <=> x \in Recounted)
    BY <1>4, AloneMarks DEF Scored
  <2> QED
    BY <2>1
<1>12. EmailsAgree'
  BY <1>5, <1>11 DEF Agreement, EmailsAgree, Settled, Whole, EmailAgrees
<1>13. CasesAgree'
  <2>1. \A x \in Cases : CaseSettled(x)' => CaseSettled(x)
    BY <1>5, <1>7 DEF CaseSettled, Settled, Whole
  <2> QED
    BY <1>7, <1>10, <1>11, <2>1 DEF Agreement, CasesAgree
<1>14. EmptyCases'
  BY <1>7, <1>8 DEF Agreement, EmptyCases
<1>15. ScoreStands(a)' /\ SummaryShows(a)' /\ AlertShows(a)' /\ AlertRaised(a)'
  <2>1. /\ at'[a] \in AfterRefresh(a)' => at[a] \in AfterRefresh(a)
        /\ at'[a] \in AfterRaise(a)' => at[a] \in AfterRaise(a)
    BY <1>4 DEF AfterRefresh, AfterRaise
  <2> QED
    BY <1>3, <1>4, <1>5, <2>1, ShownStill
<1>16. CasesRead(a)'
  <2>1. CasesOf(a)' = CasesOf(a) /\ CasesOf(a) \subseteq Cases
    BY <1>4, <1>7 DEF CasesOf
  <2>2. ToDo(a) \subseteq ToDo(a)' \cup {c}
    BY <1>4 DEF ToDo
  <2>3. \A x \in CasesOf(a) \ ToDo(a) : CaseAgrees(x)
    BY <1>4 DEF Published, CasesRead
  <2>4. \A x \in CasesOf(a)' \ ToDo(a)' : CaseAgrees(x)'
    BY <1>9, <1>10, <2>1, <2>2, <2>3
  <2>5. \A y \in v.left : y.emails = cases[y.case].emails /\ y.case \in Cases
    BY <1>4, LocalTypes DEF Published, CasesRead
  <2> QED
    BY <1>4, <1>7, <2>4, <2>5 DEF CasesRead
<1>17. Published(a)'
  BY <1>4, <1>15, <1>16 DEF Published, HighestRead, CasesDone
<1> QED
  BY <1>4, <1>12, <1>13, <1>14, <1>17, AloneSuffices

LEMMA NoCaseLeftAgrees ==
  ASSUME TypeInv, Agreement, NEW a \in Workers \cup Rescorers, NoCaseLeft(a)
  PROVE  Agreement'
<1> DEFINE v == my[a] e == v.email
<1>1. /\ v.left = {} /\ UNCHANGED <<data, history>>
      /\ IF a \in Workers THEN Go(a, "each case", "index", v) ELSE Go(a, "each case", "done", Blank)
  BY DEF NoCaseLeft, Step, Leave
<1>2. UNCHANGED <<summary, clash, cases, emails, analysis, alert, rows, files, job>>
  BY <1>1, Zenon DEF data, history
<1>3. "each case" \in WritingSteps /\ "each case" \in Scored /\ "index" \in Scored /\ "done" \notin Scored
  BY DEF WritingSteps, Scored
<1>4. at[a] = "each case" => \A c \in CasesOf(a) : CaseAgrees(c) \/ ~Published(a)
  <2>1. at[a] = "each case" => ToDo(a) = {}
    BY <1>1 DEF ToDo
  <2> QED
    BY <2>1 DEF Published, CasesRead
<1>5. \A c : CaseAgrees(c) => CaseAgrees(c)'
  BY <1>2 DEF CaseAgrees, AllAnalysed, HighestOf
<1>6. CASE a \in Workers
  <2>1. Go(a, "each case", "index", v)
    BY <1>1, <1>6
  <2>2. at[a] = "each case" /\ at'[a] = "index" /\ Published(a) /\ my'[a] = v
    BY <1>3, <2>1, WriterAlone
  <2>3. ScoreStands(a)' /\ SummaryShows(a)' /\ AlertShows(a)' /\ AlertRaised(a)'
    <3>1. at'[a] \notin AfterRefresh(a)' /\ at'[a] \notin AfterRaise(a)'
      BY <1>6, <2>2 DEF AfterRefresh, AfterRaise
    <3> QED
      BY <1>2, <1>3, <2>2, <3>1, ShownStill
  <2>4. CasesDone(a)'
    <3>1. CasesOf(a)' = CasesOf(a)
      BY <1>2, <2>2 DEF CasesOf
    <3> QED
      BY <1>4, <1>5, <2>2, <3>1 DEF CasesDone
  <2>5. Published(a)'
    BY <2>2, <2>3, <2>4 DEF Published, CasesRead, HighestRead
  <2> QED
    BY <1>2, <1>3, <2>1, <2>5, ReadingAgrees
<1>7. CASE a \in Rescorers /\ a \notin Workers
  <2>1. Go(a, "each case", "done", Blank)
    BY <1>1, <1>7
  <2>2. /\ a \in Scorers /\ Alone(a) /\ Apart(a) /\ a \notin Analysts /\ e \in Emails
        /\ at[a] = "each case" /\ at'[a] = "done" /\ Published(a)
    BY <1>3, <2>1, WriterAlone
  <2>0. PICK o \in Emails : o = e
    BY <2>2
  <2>3. OwnRows(o)
    BY <1>2 DEF OwnRows
  <2>4. \A x \in Emails \ {o} : x \notin Rescored /\ x \notin Recounted
    BY <2>0, <2>2, AloneMarks
  <2>5. Settled(o)' => EmailAgrees(o)'
    <3>1. o \notin Rescored
      BY <2>2, AloneMarks
    <3> QED
      BY <1>2, <3>1 DEF Agreement, EmailsAgree, Settled, Whole, EmailAgrees
  <2>6. \A c \in CasesWith(o) : CaseAgrees(c)'
    BY <1>4, <1>5, <2>0, <2>2 DEF CasesOf, CasesWith
  <2>7. EmailsAgree' /\ CasesAgree' /\ EmptyCases'
    BY <2>2, <2>3, <2>4, <2>5, <2>6, OwnViews
  <2>8. Published(a)'
    BY <1>3, <2>2, Unpublished
  <2> QED
    BY <2>2, <2>7, <2>8, AloneSuffices
<1> QED
  BY <1>6, <1>7

LEMMA IndexAgrees ==
  ASSUME TypeInv, Agreement, NEW w \in Workers, Index(w)
  PROVE  Agreement'
<1> DEFINE v == my[w] e == v.email
<1>1. Go(w, "index", "refresh", v)
  BY DEF Index, Step
<1>2. UNCHANGED <<summary, clash, cases, emails, analysis, alert, rows, files, job>>
  BY Zenon DEF Index, history
<1>3. "index" \in WritingSteps /\ "index" \in Scored /\ "refresh" \in Scored
  BY DEF WritingSteps, Scored
<1>4. at[w] = "index" /\ at'[w] = "refresh" /\ Published(w) /\ my'[w] = v
  BY <1>1, <1>3, WriterAlone
<1>5. ScoreStands(w)' /\ SummaryShows(w)' /\ AlertShows(w)' /\ AlertRaised(w)'
  <2>1. at'[w] \notin AfterRefresh(w)' /\ at'[w] \notin AfterRaise(w)'
    BY <1>4 DEF AfterRefresh, AfterRaise
  <2> QED
    BY <1>2, <1>3, <1>4, <2>1, ShownStill
<1>6. CasesDone(w)'
  <2>1. \A c : CaseAgrees(c) => CaseAgrees(c)'
    BY <1>2 DEF CaseAgrees, AllAnalysed, HighestOf
  <2>2. CasesOf(w)' = CasesOf(w)
    BY <1>2, <1>4 DEF CasesOf
  <2> QED
    BY <1>4, <2>1, <2>2 DEF Published, CasesDone
<1>7. Published(w)'
  BY <1>4, <1>5, <1>6 DEF Published, CasesRead, HighestRead
<1> QED
  BY <1>1, <1>2, <1>3, <1>7, ReadingAgrees

\* A step at an alert changes the alert of its own email, and nothing a case shows.
LEMMA AtAlert ==
  ASSUME TypeInv, Agreement, NEW a \in Workers \cup Rescorers, RefreshAlert(a) \/ RaiseAlert(a)
  PROVE  /\ OwnRows(my[a].email) /\ UNCHANGED <<summary, analysis, job, clash>>
         /\ \A x : x \in Workers => (CasesDone(x) /\ at[x] \in {"refresh", "raise"}
                    /\ my'[x] = my[x] => CasesDone(x)')
<1>1. UNCHANGED <<emails, rows, files, cases, summary, analysis, job, clash>>
  BY Zenon DEF RefreshAlert, RaiseAlert, history
<1>2. \A x \in Emails \ {my[a].email} : alert'[x] = alert[x]
  <2>1. alert' = alert \/ \E row : alert' = [alert EXCEPT ![my[a].email] = row]
    <3>1. CASE RefreshAlert(a)
      BY <3>1 DEF RefreshAlert
    <3>2. CASE RaiseAlert(a)
      BY <3>2 DEF RaiseAlert
    <3> QED
      BY <3>1, <3>2
  <2> QED
    BY <2>1 DEF TypeInv, TypeOK
<1>3. \A c : CaseAgrees(c) => CaseAgrees(c)'
  BY <1>1 DEF CaseAgrees, AllAnalysed, HighestOf
<1>4. \A x : x \in Workers => (CasesDone(x) /\ at[x] \in {"refresh", "raise"}
                    /\ my'[x] = my[x] => CasesDone(x)')
  BY <1>1, <1>3 DEF CasesDone, CasesOf
<1> QED
  BY <1>1, <1>2, <1>4 DEF OwnRows

LEMMA RefreshAlertAgrees ==
  ASSUME TypeInv, Roles, DeletionInv, Agreement, NEW a \in Workers \cup Rescorers, RefreshAlert(a)
  PROVE  Agreement'
<1> DEFINE v == my[a] e == v.email
<1>1. Go(a, "refresh", "raise", v) /\ "refresh" \in WritingSteps /\ "refresh" \in Scored
  BY DEF RefreshAlert, Step, WritingSteps, Scored
<1>2. /\ a \in Scorers /\ a \in Actors /\ Alone(a) /\ Apart(a) /\ Busy(a) /\ Published(a)
      /\ a \notin Analysts /\ (a \in Workers <=> a \notin Rescorers)
      /\ at[a] = "refresh" /\ at'[a] = "raise" /\ my'[a] = v /\ e \in Emails /\ TypeOK
  BY <1>1, WriterAlone
<1>3. UNCHANGED <<emails, rows, files, cases, analysis, summary, job>> /\ OwnRows(e)
  BY AtAlert DEF OwnRows
<1>4. alert'[e] # Missing => alert'[e].score = v.score
  <2>1. CASE alert[e] = Missing
    BY <2>1 DEF RefreshAlert
  <2>2. CASE alert[e] # Missing
    <3>1. alert' = [alert EXCEPT ![e] = Refreshed(alert[e], v.score)]
      BY <2>2 DEF RefreshAlert
    <3>2. alert'[e] = Refreshed(alert[e], v.score) /\ alert[e] \in Alerts
      BY <1>2, <2>2, <3>1 DEF TypeOK
    <3> QED
      BY <3>2 DEF Refreshed, Alerts
  <2> QED
    BY <2>1, <2>2
<1>5. a \in Workers => ~Settled(e)'
  BY <1>2, <1>3 DEF DeletionInv, OwnJob, Settled
<1>6. a \in Rescorers => e \in Rescored' /\ e \in Recounted'
  BY <1>2, AloneMarks DEF Scored
<1>7. \A x \in Emails \ {e} : x \notin Rescored /\ x \notin Recounted
  BY <1>2, AloneMarks
<1>8. EmailsAgree' /\ CasesAgree' /\ EmptyCases'
  BY <1>2, <1>3, <1>5, <1>6, <1>7, OwnViews
<1>9. Published(a)'
  <2>1. ScoreStands(a)'
    BY <1>1, <1>2, <1>3 DEF Published, ScoreStands
  <2>2. SummaryShows(a)'
    BY <1>1, <1>2, <1>3 DEF Published, SummaryShows
  <2>3. AlertShows(a)'
    BY <1>2, <1>4 DEF AlertShows
  <2>4. AlertRaised(a)'
    BY <1>2 DEF AlertRaised, AfterRaise
  <2>5. CasesDone(a)'
    <3>1. CASE a \in Workers
      BY <1>2, <3>1, AtAlert DEF Published
    <3>2. CASE a \notin Workers
      BY <3>2 DEF CasesDone
    <3> QED
      BY <3>1, <3>2
  <2> QED
    BY <1>2, <2>1, <2>2, <2>3, <2>4, <2>5 DEF Published, CasesRead, HighestRead
<1> QED
  BY <1>2, <1>8, <1>9, AloneSuffices

LEMMA RaiseAlertAgrees ==
  ASSUME TypeInv, Roles, DeletionInv, Agreement, NEW a \in Workers \cup Rescorers, RaiseAlert(a)
  PROVE  Agreement'
<1> DEFINE v == my[a] e == v.email next == IF a \in Workers THEN "complete" ELSE "cases"
           raised == [score |-> v.score, status |-> "OPEN", case |-> Missing]
<1>1. Go(a, "raise", next, v) /\ "raise" \in WritingSteps /\ "raise" \in Scored
  BY DEF RaiseAlert, Step, WritingSteps, Scored
<1>2. /\ a \in Scorers /\ a \in Actors /\ Alone(a) /\ Apart(a) /\ Busy(a) /\ Published(a)
      /\ a \notin Analysts /\ (a \in Workers <=> a \notin Rescorers)
      /\ at[a] = "raise" /\ at'[a] = next /\ my'[a] = v /\ e \in Emails /\ TypeOK
  BY <1>1, WriterAlone
<1>3. UNCHANGED <<emails, rows, files, cases, analysis, summary, job>> /\ OwnRows(e)
  BY AtAlert DEF OwnRows
<1>4. raised # Missing /\ raised.score = v.score
  <2>1. v.score \in Scores
    BY <1>1, <1>2, LocalTypes
  <2>2. raised \in Alerts
    BY <2>1 DEF Alerts
  <2> QED
    BY <2>2, MissingIsApart
<1>5. v.score >= AlertThreshold => Raises(a, v.score)
  BY DEF Raises, Alerting
<1> HIDE DEF raised
<1>6. PICK flagged \in IF a \in Workers THEN BOOLEAN ELSE {FALSE} :
        alert' = IF alert[e] = Missing /\ (flagged \/ Raises(a, v.score))
                 THEN [alert EXCEPT ![e] = raised] ELSE alert
  BY DEF RaiseAlert, raised
<1>7. /\ alert'[e] # Missing => alert'[e].score = v.score
      /\ v.score >= AlertThreshold => alert'[e] # Missing
  <2>1. alert[e] # Missing => alert[e].score = v.score
    BY <1>2 DEF Published, AlertShows, AfterRefresh
  <2>2. alert'[e] = raised \/ (alert'[e] = alert[e] /\ (alert[e] # Missing \/ ~Raises(a, v.score)))
    BY <1>2, <1>6, Zenon DEF TypeOK
  <2> QED
    BY <1>4, <1>5, <2>1, <2>2
<1>8. a \in Workers => ~Settled(e)'
  BY <1>2, <1>3 DEF DeletionInv, OwnJob, Settled
<1>9. a \in Rescorers /\ Settled(e)' => EmailAgrees(e)'
  <2> SUFFICES ASSUME Settled(e)' PROVE EmailAgrees(e)'
    OBVIOUS
  <2>1. e \in emails /\ job[e] = "Completed" /\ analysis[e] # Missing
    BY <1>2, <1>3 DEF Settled, Whole
  <2>2. summary[e] = v.score
    BY <1>1, <1>2, <2>1 DEF Published, SummaryShows
  <2>3. analysis[e].score = v.score
    BY <1>1, <1>2, <2>1 DEF Published, ScoreStands
  <2> QED
    BY <1>2, <1>3, <1>7, <2>2, <2>3 DEF EmailAgrees
<1>10. a \in Rescorers => e \in Recounted'
  BY <1>2, AloneMarks DEF Scored
<1>11. \A x \in Emails \ {e} : x \notin Rescored /\ x \notin Recounted
  BY <1>2, AloneMarks
<1>12. EmailsAgree' /\ CasesAgree' /\ EmptyCases'
  BY <1>2, <1>3, <1>8, <1>9, <1>10, <1>11, OwnViews
<1>13. Published(a)'
  <2>1. ScoreStands(a)'
    BY <1>1, <1>2, <1>3 DEF Published, ScoreStands
  <2>2. SummaryShows(a)'
    BY <1>1, <1>2, <1>3 DEF Published, SummaryShows
  <2>3. AlertShows(a)'
    BY <1>2, <1>7 DEF AlertShows
  <2>4. AlertRaised(a)'
    BY <1>2, <1>7 DEF AlertRaised
  <2>5. CasesDone(a)'
    <3>1. CASE a \in Workers
      BY <1>2, <3>1, AtAlert DEF Published
    <3>2. CASE a \notin Workers
      BY <3>2 DEF CasesDone
    <3> QED
      BY <3>1, <3>2
  <2> QED
    BY <1>2, <2>1, <2>2, <2>3, <2>4, <2>5 DEF Published, CasesRead, HighestRead
<1> QED
  BY <1>2, <1>12, <1>13, AloneSuffices

LEMMA CompleteAgrees ==
  ASSUME TypeInv, Roles, DeletionInv, Agreement, NEW w \in Workers, Complete(w)
  PROVE  Agreement'
<1> DEFINE v == my[w]
<1>1. Go(w, "complete", "done", Blank) /\ "complete" \in WritingSteps /\ "complete" \in Scored
  BY DEF Complete, Leave, WritingSteps, Scored
<1>2. /\ w \in Scorers /\ Alone(w) /\ Apart(w) /\ Busy(w) /\ Published(w)
      /\ w \notin Analysts /\ w \notin Rescorers
      /\ at[w] = "complete" /\ at'[w] = "done" /\ v.email \in Emails /\ TypeOK
  BY <1>1, WriterAlone
<1>3. PICK e \in Emails : e = v.email
  BY <1>2
<1>4. UNCHANGED <<emails, rows, files, cases, analysis, summary, alert>> /\ Finished(e, "Completed")
  BY <1>3 DEF Complete
<1>5. OwnRows(e)
  BY <1>2, <1>3, <1>4, FinishedOnOwn DEF OwnRows
<1>6. \A x \in Emails : x \notin Rescored /\ x \notin Recounted
  BY <1>2, AloneMarks
<1>7. Settled(e)' => EmailAgrees(e)'
  <2> SUFFICES ASSUME Settled(e)' PROVE EmailAgrees(e)'
    OBVIOUS
  <2>1. e \in emails /\ analysis[e] # Missing
    BY <1>4 DEF Settled, Whole
  <2>2. summary[e] = v.score
    BY <1>1, <1>2, <1>3, <2>1 DEF Published, SummaryShows
  <2>3. analysis[e].score = v.score
    BY <1>1, <1>2, <1>3, <2>1 DEF Published, ScoreStands
  <2>4. alert[e] # Missing => alert[e].score = v.score
    BY <1>2, <1>3 DEF Published, AlertShows, AfterRefresh
  <2>5. v.score >= AlertThreshold => alert[e] # Missing
    BY <1>2, <1>3, <2>1 DEF Published, AlertRaised, AfterRaise
  <2> QED
    BY <1>4, <2>2, <2>3, <2>4, <2>5 DEF EmailAgrees
<1>8. \A c \in CasesWith(e) : CaseAgrees(c)'
  <2>1. \A c \in CasesWith(e) : CaseAgrees(c)
    BY <1>2, <1>3 DEF Published, CasesDone, CasesOf, CasesWith
  <2>2. \A c : CaseAgrees(c) => CaseAgrees(c)'
    BY <1>4 DEF CaseAgrees, AllAnalysed, HighestOf
  <2> QED
    BY <2>1, <2>2
<1>9. EmailsAgree' /\ CasesAgree' /\ EmptyCases'
  BY <1>5, <1>6, <1>7, <1>8, OwnViews
<1>10. Published(w)'
  BY <1>2, Unpublished DEF Scored
<1> QED
  BY <1>2, <1>9, <1>10, AloneSuffices

----------------------------------------------------------------------------
(* An analyst attaches an email to a case. *)

LEMMA AnalystAlone ==
  ASSUME TypeInv, Agreement, NEW n \in Analysts, NEW from \in {"attach", "link"}, NEW to, NEW local,
         Go(n, from, to, local)
  PROVE  /\ n \in Scorers /\ n \in Actors /\ Alone(n) /\ Apart(n) /\ ReadWell(n)
         /\ n \notin Workers /\ n \notin Rescorers
         /\ at[n] = from /\ at'[n] = to /\ my'[n] = local
         /\ my[n].email \in Emails /\ my[n].case \in Cases /\ my[n] \in Locals /\ TypeOK
<1>1. n \in Scorers /\ n \in Actors /\ n \notin Workers /\ n \notin Rescorers
  BY ActorsAreDistinct DEF Scorers, Actors
<1>2. Apart(n) /\ at[n] = from /\ at'[n] = to /\ my'[n] = local
  BY <1>1, Moves
<1>3. Alone(n)
  BY <1>1, <1>2 DEF Alone, Agreement, OneWriter, Writing, WritingSteps
<1>4. my[n].email \in Emails /\ my[n].case \in Cases /\ my[n] \in Locals /\ TypeOK
  BY <1>1, <1>2 DEF TypeInv, StepTyped, OnEmail, OnCase
<1> QED
  BY <1>1, <1>2, <1>3, <1>4 DEF Agreement

LEMMA ReadEmailAgrees ==
  ASSUME TypeInv, Agreement, NEW n \in Analysts, ReadEmail(n), at'[n] = "link"
  PROVE  Agreement'
<1> DEFINE v == my[n] e == v.email local == [v EXCEPT !.seen = analysis[e]]
<1>1. n \in Actors
  BY DEF Actors
<1>2. ~Go(n, "attach", "done", Blank)
  BY <1>1, Moves
<1>3. Go(n, "attach", "link", local) /\ UNCHANGED <<data, history>>
  BY <1>2 DEF ReadEmail, Leave
<1>4. v \in Locals =>
        local.email = e /\ local.case = v.case /\ local.score = v.score /\ local.seen = analysis[e]
  BY DEF Locals
<1> HIDE DEF local
<1>5. /\ n \in Scorers /\ Alone(n) /\ Apart(n) /\ ReadWell(n) /\ n \notin Workers /\ n \notin Rescorers
      /\ at[n] = "attach" /\ my'[n].email = e /\ my'[n].case = v.case /\ my'[n].score = v.score
      /\ my'[n].seen = analysis[e]
  BY <1>3, <1>4, AnalystAlone
<1>6. UNCHANGED <<summary, clash, cases, emails, analysis, alert, rows, files, job>>
  BY <1>3, Zenon DEF data, history
<1>7. Gentle
  BY <1>6, ShownUnchanged
<1>8. Rescored \subseteq Rescored' /\ Recounted \subseteq Recounted'
  BY <1>5, AloneMarks
<1>9. EmailsAgree' /\ CasesAgree' /\ EmptyCases'
  BY <1>7, <1>8, GentleViews
<1>10. ReadWell(n)'
  BY <1>5, <1>6 DEF ReadWell
<1> QED
  BY <1>5, <1>9, <1>10, AloneSuffices

\* The highest of some scores and one more.
LEMMA HigherIsNewest ==
  ASSUME NEW S \in SUBSET Scores, NEW s \in Scores, NEW h, S # {} => h = Newest(S), S = {} => h = 0
  PROVE  Newest(S \cup {s}) = Higher(h, s) /\ (s >= h => Higher(h, s) = s) /\ (~(s >= h) => Higher(h, s) = h)
<1>1. \A x \in S \cup {s} : x \in 1..100
  BY ScoresAreNumbers
<1>2. S # {} => h \in S /\ \A y \in S : y <= h
  BY NewestIsGreatest
<1>3. h \in 0..100
  BY <1>1, <1>2
<1>4. Higher(h, s) \in S \cup {s} /\ \A y \in S \cup {s} : y <= Higher(h, s)
  BY <1>1, <1>2, <1>3 DEF Higher
<1>5. Newest(S \cup {s}) = Higher(h, s)
  <2>1. S \cup {s} \in SUBSET Scores
    OBVIOUS
  <2> QED
    BY <1>4, <2>1, NewestIsUnique
<1> QED
  BY <1>1, <1>3, <1>5 DEF Higher

LEMMA LinkEmailAgrees ==
  ASSUME TypeInv, Agreement, NEW n \in Analysts, LinkEmail(n)
  PROVE  Agreement'
<1> DEFINE v == my[n]
<1>1. Go(n, "link", "link evidence", v)
  BY DEF LinkEmail, Step
<1>2. /\ n \in Scorers /\ Alone(n) /\ Apart(n) /\ ReadWell(n) /\ n \notin Workers /\ n \notin Rescorers
      /\ at[n] = "link" /\ at'[n] = "link evidence" /\ my'[n] = v
      /\ v.email \in Emails /\ v.case \in Cases /\ TypeOK
  BY <1>1, AnalystAlone
<1>3. PICK e \in Emails, c \in Cases : e = v.email /\ c = v.case
  BY <1>2
<1>4. UNCHANGED <<summary, emails, analysis, alert, rows, files, job>>
  BY Zenon DEF LinkEmail
<1>5. /\ cases'[c] = Linked(cases[c], e, v.seen, v.score)
      /\ \A x \in Cases \ {c} : cases'[x] = cases[x]
  BY <1>2, <1>3 DEF LinkEmail, TypeOK
<1> DEFINE T == cases[c].emails S == {analysis[x].score : x \in T}
<1>6. /\ cases'[c].emails = T \cup {e}
      /\ v.seen # Missing => cases'[c].score = Higher(cases[c].score, v.seen.score)
      /\ v.seen # Missing => cases'[c].severity = IF v.seen.score >= v.score THEN v.seen.score
                                                  ELSE cases[c].severity
  BY <1>5 DEF Linked
<1>7. \A x \in Emails : x \notin Rescored /\ x \notin Recounted /\ x \notin Rescored' /\ x \notin Recounted'
  BY <1>2, AloneMarks
<1>8. \A x \in Emails : Settled(x)' <=> Settled(x)
  BY <1>4 DEF Settled, Whole
<1>9. EmailsAgree'
  BY <1>4, <1>7, <1>8 DEF Agreement, EmailsAgree, EmailAgrees
<1>10. T \subseteq Emails
  BY <1>2 DEF TypeOK
<1>11. ASSUME \A x \in T \cup {e} : Settled(x)
       PROVE  CaseAgrees(c)'
  <2>1. \A x \in T \cup {e} : analysis[x] \in Analyses /\ analysis[x].score \in Scores
    <3>1. \A x \in T \cup {e} : analysis[x] # Missing /\ x \in Emails
      BY <1>10, <1>11 DEF Settled, Whole
    <3> QED
      BY <1>2, <3>1 DEF TypeOK, Analyses
  <2> DEFINE s == analysis[e].score h == cases[c].score
  <2>2. v.seen # Missing /\ v.seen.score = s /\ v.score = h
    BY <1>2, <1>3, <1>11 DEF ReadWell, Settled, Whole
  <2>3. /\ T # {} => h = Newest(S) /\ cases[c].severity = h
        /\ T = {} => h = 0
    <3>1. T # {} => CaseAgrees(c)
      BY <1>7, <1>10, <1>11 DEF Agreement, CasesAgree, CaseSettled
    <3>2. T # {} => h = Newest(S) /\ cases[c].severity = h
      BY <1>11, <3>1 DEF CaseAgrees, AllAnalysed, Settled, Whole, HighestOf
    <3> QED
      BY <3>2 DEF Agreement, EmptyCases
  <2>4. S \in SUBSET Scores /\ s \in Scores /\ (S = {} <=> T = {})
    BY <2>1
  <2>5. {analysis'[x].score : x \in cases'[c].emails} = S \cup {s}
    BY <1>4, <1>6
  <2>6. Newest(S \cup {s}) = Higher(h, s) /\ (s >= h => Higher(h, s) = s) /\ (~(s >= h) => Higher(h, s) = h)
    <3> HIDE DEF S, T, s, h
    <3> QED
      BY <2>3, <2>4, HigherIsNewest
  <2>7. cases'[c].score = Higher(h, s) /\ HighestOf(cases[c].emails)' = Higher(h, s)
    <3>1. Newest({analysis'[x].score : x \in cases'[c].emails}) = Newest(S \cup {s})
      BY <2>5, Zenon
    <3>2. HighestOf(cases[c].emails)' = Higher(h, s)
      BY <2>6, <3>1, Zenon DEF HighestOf
    <3> QED
      BY <1>6, <2>2, <3>2
  <2>8. cases'[c].severity = Higher(h, s)
    <3>0. s \in 1..100
      BY <2>4, ScoresAreNumbers
    <3>1. T = {} => s >= h
      BY <2>3, <3>0
    <3> QED
      BY <1>6, <2>2, <2>3, <2>6, <3>1
  <2> QED
    BY <2>7, <2>8 DEF CaseAgrees
<1>12. CasesAgree'
  <2> SUFFICES ASSUME NEW x \in Cases, CaseSettled(x)' PROVE CaseAgrees(x)'
    BY DEF CasesAgree
  <2>1. CASE x = c
    <3>1. \A y \in T \cup {e} : Settled(y)
      BY <1>6, <1>8, <1>10, <2>1 DEF CaseSettled
    <3> QED
      BY <1>11, <2>1, <3>1
  <2>2. CASE x # c
    <3>1. cases'[x] = cases[x] /\ cases[x].emails \subseteq Emails
      BY <1>2, <1>5, <2>2 DEF TypeOK
    <3>2. CaseSettled(x)
      BY <1>8, <3>1 DEF CaseSettled
    <3>3. CaseAgrees(x)
      BY <1>7, <3>1, <3>2 DEF Agreement, CasesAgree
    <3> QED
      BY <1>4, <3>1, <3>3, CaseKept
  <2> QED
    BY <2>1, <2>2
<1>13. EmptyCases'
  <2>1. cases'[c].emails # {}
    BY <1>6
  <2> QED
    BY <1>5, <2>1 DEF Agreement, EmptyCases
<1>14. ReadWell(n)'
  BY <1>2 DEF ReadWell
<1> QED
  BY <1>2, <1>9, <1>12, <1>13, <1>14, AloneSuffices

----------------------------------------------------------------------------
(* Every step, and the theorem. *)

LEMMA WorkAgrees ==
  ASSUME TypeInv, Roles, DeletionInv, Agreement, ~clash, ~clash', NEW w \in Workers, Work(w)
  PROVE  Agreement'
<1>1. w \in Scorers /\ w \notin Rescorers /\ w \in Workers \cup Rescorers
  BY ActorsAreDistinct DEF Scorers
<1>2. CASE \E e \in Emails : Claim(w, e)
  BY <1>1, <1>2, StartAgrees
<1>3. CASE ReadOriginal(w) \/ WorkerLost(w)
  BY <1>1, <1>3, ScorerGentle, GentleAgrees
<1>4. CASE Store(w)
  BY <1>1, <1>4, StoreAgrees
<1> QED
  BY <1>2, <1>3, <1>4, IndexAgrees, CompleteAgrees DEF Work

LEMMA RescoringAgrees ==
  ASSUME TypeInv, Roles, DeletionInv, Agreement, ~clash, ~clash', NEW r \in Rescorers, Rescoring(r)
  PROVE  Agreement'
<1>1. r \in Scorers /\ r \in Actors /\ r \in Workers \cup Rescorers
  BY DEF Scorers, Actors
<1>2. CASE \E e \in Emails : Pick(r, e)
  BY <1>1, <1>2, StartAgrees
<1>3. CASE CheckIdle(r)
  BY <1>1, <1>3, ScorerGentle, GentleAgrees
<1>4. CASE Rescore(r)
  <2>1. at'[r] \in {"summary", "done"}
    <3>1. \E to \in {"summary", "done"} : \E local : Go(r, "rescore", to, local)
      BY <1>4 DEF Rescore, Leave
    <3> QED
      BY <1>1, <3>1, Moves
  <2>2. CASE at'[r] = "summary"
    BY <1>1, <1>4, <2>2, StoreAgrees
  <2>3. CASE at'[r] = "done"
    BY <1>1, <1>4, <2>3, ScorerGentle, GentleAgrees
  <2> QED
    BY <2>1, <2>2, <2>3
<1> QED
  BY <1>2, <1>3, <1>4 DEF Rescoring

LEMMA PublishAgrees ==
  ASSUME TypeInv, Roles, DeletionInv, Agreement, NEW a \in Workers \cup Rescorers, Publish(a)
  PROVE  Agreement'
BY SummariseAgrees, FindCasesAgrees, ReadHighestAgrees, WriteHighestAgrees, NoCaseLeftAgrees,
   RefreshAlertAgrees, RaiseAlertAgrees DEF Publish

LEMMA InvestigateAgrees ==
  ASSUME TypeInv, Roles, Agreement, ~clash, ~clash', NEW n \in Analysts, Investigate(n)
  PROVE  Agreement'
<1>1. n \in Scorers
  BY DEF Scorers
<1>2. CASE \E c \in Cases, e \in Emails : ReadCase(n, c, e)
  BY <1>1, <1>2, StartAgrees
<1>3. CASE ReadEmail(n) /\ at'[n] = "link"
  BY <1>3, ReadEmailAgrees
<1>4. CASE LinkEmail(n)
  BY <1>4, LinkEmailAgrees
<1>5. CASE /\ ~\E c \in Cases, e \in Emails : ReadCase(n, c, e)
           /\ ~(ReadEmail(n) /\ at'[n] = "link") /\ ~LinkEmail(n)
  BY <1>5, InvestigateGentle, GentleAgrees
<1> QED
  BY <1>2, <1>3, <1>4, <1>5

\* Once two have overlapped, they have for good.
LEMMA ClashStays == TypeInv /\ [ReportNext]_allVars /\ clash => clash'
<1> SUFFICES ASSUME TypeInv, [ReportNext]_allVars, clash PROVE clash'
  OBVIOUS
<1>1. CASE Next
  <2>1. CASE \E e \in Emails : Request(e)
    BY <2>1, Zenon DEF Request
  <2>2. ASSUME NEW w \in Workers, Work(w) PROVE clash'
    BY <2>2, Zenon DEF Work, Claim, Starts, ReadOriginal, Store, Index, Complete, WorkerLost, history
  <2>3. ASSUME NEW r \in Rescorers, Rescoring(r) PROVE clash'
    BY <2>3, Zenon DEF Rescoring, Pick, Starts, CheckIdle, Rescore, history
  <2>4. ASSUME NEW a \in Workers \cup Rescorers, Publish(a) PROVE clash'
    BY <2>4, Zenon DEF Publish, Summarise, FindCases, ReadHighest, WriteHighest, NoCaseLeft,
       RefreshAlert, RaiseAlert, history
  <2>5. ASSUME NEW n \in Analysts, Investigate(n) PROVE clash'
    BY <2>5, Zenon DEF Investigate, ReadCase, Starts, ReadEvidence, ReadAnalyses, ChangeAlert,
       ReadEmail, LinkEmail, LinkEvidence, AssignAlert, ListEvidence, InsertCampaign, history
  <2>6. ASSUME NEW s \in Sweepers, Sweep(s) PROVE clash'
    BY <2>6, Zenon DEF Sweep, Tick, CheckEmail, DropAnalysis, DropEmail, DropIndex, DropJobs, DropAlert,
       ScanEvidence, CheckEvidence, Unlink, DropRow, EndSweep, SweepLost, history
  <2> QED
    BY <1>1, <2>1, <2>2, <2>3, <2>4, <2>5, <2>6, Zenon DEF Next
<1>2. CASE \E r \in Requests : Reporting(r) /\ UNCHANGED <<data, history, cut>>
  BY <1>2, Zenon DEF history
<1>3. CASE UNCHANGED allVars
  BY <1>3, Zenon DEF allVars, vars, history
<1> QED
  BY <1>1, <1>2, <1>3, Zenon DEF ReportNext

LEMMA ViewsStep ==
  TypeInv /\ Roles /\ DeletionInv /\ ViewsInv /\ [ReportNext]_allVars => ViewsInv'
<1> SUFFICES ASSUME TypeInv, Roles, DeletionInv, ViewsInv, [ReportNext]_allVars, ~clash'
             PROVE  Agreement'
  BY DEF ViewsInv
<1>1. ~clash /\ Agreement
  BY ClashStays DEF ViewsInv
<1>2. CASE Next
  <2>1. CASE \E e \in Emails : Request(e)
    BY <1>1, <2>1, RequestGentle, GentleAgrees
  <2>2. CASE \E w \in Workers : Work(w)
    BY <1>1, <2>2, WorkAgrees
  <2>3. CASE \E r \in Rescorers : Rescoring(r)
    BY <1>1, <2>3, RescoringAgrees
  <2>4. CASE \E a \in Workers \cup Rescorers : Publish(a)
    BY <1>1, <2>4, PublishAgrees
  <2>5. CASE \E n \in Analysts : Investigate(n)
    BY <1>1, <2>5, InvestigateAgrees
  <2>6. CASE \E s \in Sweepers : Sweep(s)
    BY <1>1, <2>6, SweepGentle, GentleAgrees
  <2> QED
    BY <1>2, <2>1, <2>2, <2>3, <2>4, <2>5, <2>6, Zenon DEF Next
<1>3. ASSUME NEW r \in Requests, Reporting(r), UNCHANGED <<data, history, cut>>
      PROVE  Agreement'
  BY <1>1, <1>3, ReportingGentle, GentleAgrees
<1>4. CASE UNCHANGED allVars
  <2>1. UNCHANGED <<summary, clash, cases, emails, analysis, alert, rows, files, job, at, my>>
    BY <1>4, Zenon DEF allVars, vars, data, history
  <2>2. Gentle /\ \A a \in Scorers : GentleMove(a)
    BY <2>1, ShownUnchanged DEF GentleMove
  <2> QED
    BY <1>1, <2>2, GentleAgrees
<1> QED
  BY <1>2, <1>3, <1>4, Zenon DEF ReportNext

LEMMA ViewsInit == TypeInv /\ Init => Agreement
<1> SUFFICES ASSUME TypeInv, Init PROVE Agreement
  OBVIOUS
<1>1. \A a \in Actors : at[a] \in {"idle", "done"}
  BY DEF Init
<1>2. \A a \in Scorers : at[a] \in {"idle", "done"}
  BY <1>1 DEF Scorers, Actors
<1>3. OneWriter
  BY <1>2 DEF OneWriter, Writing, WritingSteps, Scored
<1>4. EmailsAgree
  <2> SUFFICES ASSUME NEW e \in Emails, Settled(e) PROVE EmailAgrees(e)
    BY DEF EmailsAgree
  <2>1. e \in indexed
    BY DEF Init, Settled, Whole
  <2>2. analysis[e].score = summary[e]
    BY <2>1 DEF Init
  <2>3. /\ alert[e] # Missing => alert[e].score = summary[e]
        /\ summary[e] >= AlertThreshold => alert[e] # Missing
    <3> DEFINE row == [score |-> summary[e], status |-> "OPEN", case |-> Missing]
    <3>1. alert[e] = IF Alerting(summary[e]) THEN row ELSE Missing
      BY DEF Init
    <3>2. row # Missing
      <4>1. analysis[e] \in Analyses
        BY DEF TypeInv, TypeOK, Settled, Whole
      <4>2. summary[e] \in Scores
        BY <2>2, <4>1 DEF Analyses
      <4>3. row \in Alerts
        BY <4>2 DEF Alerts
      <4> QED
        BY <4>3, MissingIsApart
    <3>3. row.score = summary[e]
      OBVIOUS
    <3> HIDE DEF row
    <3> QED
      BY <3>1, <3>2, <3>3 DEF Alerting
  <2> QED
    BY <2>2, <2>3 DEF EmailAgrees
<1>5. \A c \in Cases : cases[c].emails = {} /\ cases[c].score = 0 /\ cases[c].severity = 0
  BY DEF Init
<1>6. CasesAgree /\ EmptyCases
  BY <1>5 DEF CasesAgree, CaseAgrees, EmptyCases
<1>7. ASSUME NEW a \in Workers \cup Rescorers PROVE Published(a)
  BY <1>2 DEF Published, ScoreStands, SummaryShows, AlertShows, AlertRaised, CasesRead, HighestRead,
     CasesDone, Scored, AfterRefresh, AfterRaise, Scorers
<1>8. ASSUME NEW n \in Analysts PROVE ReadWell(n)
  BY <1>2 DEF ReadWell, Scorers
<1> QED
  BY <1>3, <1>4, <1>6, <1>7, <1>8 DEF Agreement

LEMMA AlwaysViews == ReportSpec => []ViewsInv
<1>1. TypeInv /\ ReportInit => ViewsInv
  BY ViewsInit DEF ReportInit, ViewsInv
<1> QED
  BY <1>1, ViewsStep, AlwaysDeletes, PTL DEF ReportSpec

\* Whenever nobody works, and as long as no two who write scores overlapped, the
\* row, the alert and the cases of an email whose last job completed show what its
\* analysis says: however workers, rescorings, links, sweeps, requests, reports and
\* crashes follow each other (pipeline.py:282-299, rescore.py:35-46).
THEOREM ViewsAgreeWhenQuiet == ReportSpec => []ViewsAgree
<1>1. ViewsInv => ViewsAgree
  <2> SUFFICES ASSUME Agreement, Quiet PROVE ViewsAgree
    BY DEF ViewsInv, ViewsAgree
  <2>1. \A r \in Rescorers : at[r] \in {"idle", "done"}
    BY DEF Quiet, Busy, Scorers
  <2>2. Rescored = {} /\ Recounted = {}
    BY <2>1 DEF Rescored, Recounted, Scored
  <2>3. \A e \in Emails : Settled(e) => EmailAgrees(e)
    BY <2>2 DEF Agreement, EmailsAgree
  <2>4. \A c \in Cases : CaseSettled(c) => CaseAgrees(c)
    BY <2>2 DEF Agreement, CasesAgree
  <2>5. \A c \in Cases : CaseSettled(c) => AllAnalysed(c)
    BY DEF CaseSettled, AllAnalysed, Settled, Whole
  <2> QED
    BY <2>3, <2>4, <2>5 DEF ViewsAgree, EmailAgrees, CaseAgrees, CaseSettled
<1> QED
  BY <1>1, AlwaysViews, PTL
=============================================================================
