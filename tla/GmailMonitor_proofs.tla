-------------------------- MODULE GmailMonitor_proofs --------------------------
(***************************************************************************)
(* The mailbox monitor implements MailboxDelivery for every number of      *)
(* messages, page size, poller, user and fault: its cursor never passes a  *)
(* message that was neither imported nor recorded as skipped.              *)
(*                                                                         *)
(* The argument follows the monitor's state, as stored and as each poll    *)
(* holds it. A state is on track when everything behind the point it will  *)
(* list from is handled and, once a page is listed, everything up to the   *)
(* end of that page is handled or pending. A poll that still holds its     *)
(* lease began with the stored state, and what its cursor has gone past    *)
(* since then is handled.                                                  *)
(***************************************************************************)
EXTENDS GmailMonitor, TLAPS

Done == acquired \cup skipped

\* Where the next page is listed from, and how far the listed one reaches.
From(s) == IF s.token = 0 THEN s.cursor ELSE s.token
Reach(s) == IF s.next # 0 THEN s.next ELSE s.upto

\* n messages have arrived, those in D are handled.
OnTrack(s, listed, n, D) ==
    /\ s.cursor <= From(s) /\ From(s) <= n
    /\ s.pending \subseteq 1..n
    /\ \A m \in Inbox : s.cursor < m /\ m <= From(s) => m \in D
    /\ listed =>
        /\ s.cursor <= s.upto /\ s.upto <= n
        /\ s.cursor <= Reach(s) /\ Reach(s) <= n
        /\ \A m \in Inbox : s.cursor < m /\ m <= Reach(s) => m \in D \cup s.pending

\* The poll began with the monitor b and now holds s.
Follows(s, b, D) ==
    /\ b.enabled /\ s.since = b.since /\ b.cursor <= s.cursor
    /\ \A m \in Inbox : b.cursor < m /\ m <= s.cursor => m \in D

ImportSteps == {"register", "claim", "find", "fetch", "email", "job", "mark", "release"}
PollSteps == {"history", "next", "save"}
Steps == {"idle"} \cup ImportSteps \cup PollSteps
Locals == [message : 0..Messages, state : Monitors, before : Monitors,
           code : {"ok", "skip", "error"}]

\* A page is listed from the time it is fetched until it is turned; between
\* polls, what is pending tells.
Listed(a, l) == IF a \in {"history", "save"} THEN l.state.pending # {} ELSE TRUE

\* Process p at step a with the variables l, when the connection is c.
Importing(a, l, n, acq) ==
    /\ a \in ImportSteps => l.message \in 1..n
    /\ a \in {"job", "mark"} => l.message \in acq
    /\ a = "release" => l.code # "ok"

Watching(p, a, l, c, n, D) ==
    /\ p \notin Pollers => a \notin PollSteps
    /\ p \in Pollers /\ a # "idle" =>
        /\ OnTrack(l.state, Listed(a, l), n, D)
        /\ OnTrack(l.before, l.before.pending # {}, n, D)
        /\ Follows(l.state, l.before, D)
        /\ c.lease = p => l.before = c.monitor

ProcessOK(p, a, l, c, n, acq, D) ==
    Importing(a, l, n, acq) /\ Watching(p, a, l, c, n, D)

Processed == \A p \in Processes :
    ProcessOK(p, at[p], my[p], conn, arrived, acquired, Done)

MonitorInv ==
    /\ TypeOK
    /\ at \in [Processes -> Steps]
    /\ Processed
    /\ OnTrack(conn.monitor, conn.monitor.pending # {}, arrived, Done)
    /\ \A m \in Inbox : emails[m] > 0 \/ imports[m].completed => m \in acquired

----------------------------------------------------------------------------
(* The monitor's state. *)

\* What is on track stays on track while messages arrive and are handled.
LEMMA TrackMonotone ==
  ASSUME NEW s \in Monitors, NEW listed \in BOOLEAN, NEW n \in Nat, NEW n2 \in Nat,
         NEW D, NEW D2, n <= n2, D \subseteq D2, OnTrack(s, listed, n, D)
  PROVE  OnTrack(s, listed, n2, D2)
<1>1. /\ s.cursor \in Nat /\ From(s) \in Nat /\ s.upto \in Nat /\ Reach(s) \in Nat
  BY BoundsAreNatural DEF Monitors, From, Reach
<1> QED
  BY <1>1 DEF OnTrack

LEMMA FollowsMonotone ==
  ASSUME NEW s, NEW b, NEW D, NEW D2, D \subseteq D2, Follows(s, b, D)
  PROVE  Follows(s, b, D2)
  BY DEF Follows

\* A page fetched from where the state lists keeps it on track.
LEMMA PageOnTrack ==
  ASSUME NEW s \in Monitors, NEW D, arrived \in 0..Messages,
         OnTrack(s, FALSE, arrived, D)
  PROVE  /\ Page(s) \in Monitors
         /\ OnTrack(Page(s), TRUE, arrived, D)
         /\ \A b : Follows(s, b, D) => Follows(Page(s), b, D)
<1> DEFINE last == Lower(From(s) + PageSize, arrived)
<1> DEFINE t == Page(s)
<1>1. /\ s.cursor \in 0..Messages /\ s.token \in 0..Messages /\ From(s) \in 0..Messages
      /\ s.cursor <= From(s) /\ From(s) <= arrived
  BY DEF Monitors, From, OnTrack
<1>2. /\ last \in Nat /\ last <= arrived /\ From(s) <= last
      /\ last < arrived => last = From(s) + PageSize /\ last # 0
  BY <1>1, BoundsAreNatural DEF Lower
<1>3. t = [s EXCEPT !.pending = (From(s) + 1)..last, !.upto = arrived,
                    !.next = IF last < arrived THEN last ELSE 0]
  BY DEF Page, From
<1> HIDE DEF last, t
<1>4. /\ t \in [enabled : BOOLEAN, since : 0..Messages, cursor : 0..Messages,
                token : 0..Messages, pending : SUBSET Inbox, next : 0..Messages,
                upto : 0..Messages]
      /\ t.cursor = s.cursor /\ t.token = s.token /\ t.since = s.since
      /\ t.pending = (From(s) + 1)..last /\ t.upto = arrived
      /\ t.next = IF last < arrived THEN last ELSE 0
  <2>1. (From(s) + 1)..last \in SUBSET Inbox
    BY <1>1, <1>2, BoundsAreNatural DEF Inbox
  <2>2. (IF last < arrived THEN last ELSE 0) \in 0..Messages
    BY <1>2, BoundsAreNatural
  <2> QED
    BY <1>3, <2>1, <2>2 DEF Monitors
<1>5. From(t) = From(s) /\ Reach(t) = last
  BY <1>1, <1>2, <1>4 DEF From, Reach
<1>6. \A m \in Inbox : s.cursor < m /\ m <= last => m \in D \cup t.pending
  BY <1>1, <1>2, <1>4, BoundsAreNatural DEF OnTrack, Inbox
<1>7. t.pending \subseteq 1..arrived
  BY <1>1, <1>2, <1>4, BoundsAreNatural
<1>8. OnTrack(t, TRUE, arrived, D)
  BY <1>1, <1>2, <1>4, <1>5, <1>6, <1>7 DEF OnTrack
<1>9. \A b : Follows(s, b, D) => Follows(t, b, D)
  BY <1>4 DEF Follows
<1> QED
  BY <1>4, <1>8, <1>9 DEF t, Monitors

\* Turning a page that is done moves on no further than what was handled.
LEMMA TurnedOnTrack ==
  ASSUME NEW s \in Monitors, NEW n \in Nat, NEW D, s.pending = {},
         OnTrack(s, TRUE, n, D)
  PROVE  /\ Turned(s) \in Monitors
         /\ Turned(s).pending = {}
         /\ OnTrack(Turned(s), FALSE, n, D)
         /\ \A b \in Monitors : Follows(s, b, D) => Follows(Turned(s), b, D)
<1>1. /\ s.cursor \in 0..Messages /\ s.upto \in 0..Messages /\ s.next \in 0..Messages
      /\ s.cursor <= Reach(s) /\ Reach(s) <= n /\ s.cursor <= s.upto /\ s.upto <= n
      /\ \A m \in Inbox : s.cursor < m /\ m <= Reach(s) => m \in D
  BY DEF Monitors, OnTrack
<1>2. CASE s.next # 0
  <2>1. Turned(s) = [s EXCEPT !.token = s.next, !.next = 0]
    BY <1>2 DEF Turned
  <2>2. Turned(s) \in Monitors
    <3>1. s.next \in 0..Messages /\ 0 \in 0..Messages
      BY <1>1, BoundsAreNatural
    <3> QED
      BY <2>1, <3>1 DEF Monitors
  <2>3. /\ Turned(s).pending = {} /\ Turned(s).token = s.next
        /\ Turned(s).cursor = s.cursor /\ Turned(s).since = s.since
    BY <2>1 DEF Monitors
  <2>4. From(Turned(s)) = Reach(s)
    BY <2>3, <1>2 DEF From, Reach
  <2> QED
    BY <2>2, <2>3, <2>4, <1>1 DEF OnTrack, Follows
<1>3. CASE s.next = 0
  <2>1. Turned(s) = [s EXCEPT !.token = 0, !.cursor = s.upto]
    BY <1>3 DEF Turned
  <2>2. /\ Turned(s) \in Monitors /\ Turned(s).pending = {} /\ From(Turned(s)) = s.upto
        /\ Turned(s).cursor = s.upto /\ Turned(s).since = s.since /\ Reach(s) = s.upto
    BY <2>1, <1>1, <1>3, BoundsAreNatural DEF Monitors, From, Reach
  <2>3. OnTrack(Turned(s), FALSE, n, D)
    BY <2>2, <1>1, BoundsAreNatural DEF OnTrack, Inbox
  <2>4. ASSUME NEW b \in Monitors, Follows(s, b, D)
        PROVE  Follows(Turned(s), b, D)
    <3>1. b.cursor \in 0..Messages
      BY DEF Monitors
    <3> QED
      BY <2>2, <2>4, <3>1, <1>1, BoundsAreNatural DEF Follows, Inbox
  <2> QED
    BY <2>2, <2>3, <2>4
<1> QED
  BY <1>2, <1>3

\* A pending message that was handled may be taken off the list.
LEMMA RestOnTrack ==
  ASSUME NEW s \in Monitors, NEW n \in Nat, NEW D, NEW m \in D, OnTrack(s, TRUE, n, D)
  PROVE  LET r == [s EXCEPT !.pending = @ \ {m}]
         IN  /\ r \in Monitors
             /\ OnTrack(r, TRUE, n, D)
             /\ \A b : Follows(s, b, D) => Follows(r, b, D)
<1> DEFINE r == [s EXCEPT !.pending = @ \ {m}]
<1>1. /\ r \in Monitors /\ r.pending = s.pending \ {m} /\ r.cursor = s.cursor
      /\ r.token = s.token /\ r.next = s.next /\ r.upto = s.upto /\ r.since = s.since
  BY DEF Monitors
<1>2. From(r) = From(s) /\ Reach(r) = Reach(s)
  BY <1>1 DEF From, Reach
<1> HIDE DEF r
<1>3. OnTrack(r, TRUE, n, D)
  BY <1>1, <1>2 DEF OnTrack
<1>4. \A b : Follows(s, b, D) => Follows(r, b, D)
  BY <1>1 DEF Follows
<1> QED
  BY <1>1, <1>3, <1>4 DEF r

----------------------------------------------------------------------------
(* The processes. *)

\* A process that does not move stays in order while others work.
LEMMA ProcessMonotone ==
  ASSUME NEW p \in Processes, NEW a, NEW l \in Locals, NEW c, NEW c2,
         NEW n \in Nat, NEW n2 \in Nat, n <= n2,
         NEW acq, NEW acq2, acq \subseteq acq2, NEW D, NEW D2, D \subseteq D2,
         c2.lease = p => c.lease = p /\ c2.monitor = c.monitor,
         ProcessOK(p, a, l, c, n, acq, D)
  PROVE  ProcessOK(p, a, l, c2, n2, acq2, D2)
<1>1. Importing(a, l, n2, acq2)
  BY DEF ProcessOK, Importing
<1>2. ASSUME p \in Pollers, a # "idle"
      PROVE  /\ OnTrack(l.state, Listed(a, l), n2, D2)
             /\ OnTrack(l.before, l.before.pending # {}, n2, D2)
             /\ Follows(l.state, l.before, D2)
             /\ c2.lease = p => l.before = c2.monitor
  <2>1. l.state \in Monitors /\ l.before \in Monitors /\ Listed(a, l) \in BOOLEAN
    BY DEF Locals, Listed
  <2>2. /\ OnTrack(l.state, Listed(a, l), n, D)
        /\ OnTrack(l.before, l.before.pending # {}, n, D)
        /\ Follows(l.state, l.before, D)
        /\ c.lease = p => l.before = c.monitor
    BY <1>2 DEF ProcessOK, Watching
  <2>3. OnTrack(l.state, Listed(a, l), n2, D2)
    BY <2>1, <2>2, TrackMonotone
  <2>4. OnTrack(l.before, l.before.pending # {}, n2, D2)
    BY <2>1, <2>2, TrackMonotone
  <2>5. Follows(l.state, l.before, D2)
    BY <2>2, FollowsMonotone
  <2> QED
    BY <2>2, <2>3, <2>4, <2>5
<1> QED
  BY <1>1, <1>2 DEF ProcessOK, Watching

\* When p moves and the others do not, it is enough to look at p.
LEMMA MoveKeepsOrder ==
  ASSUME MonitorInv, NEW p \in Processes, NEW from, NEW to, NEW local,
         Go(p, from, to, local), arrived' = arrived,
         acquired \subseteq acquired', Done \subseteq Done',
         \A q \in Processes \ {p} :
            conn'.lease = q => conn.lease = q /\ conn'.monitor = conn.monitor,
         ProcessOK(p, to, local, conn', arrived', acquired', Done')
  PROVE  Processed'
<1>1. /\ at' = [at EXCEPT ![p] = to] /\ my' = [my EXCEPT ![p] = local]
      /\ at \in [Processes -> Steps] /\ my \in [Processes -> Locals] /\ arrived \in Nat
  BY BoundsAreNatural DEF MonitorInv, TypeOK, Locals, Go
<1>2. ASSUME NEW q \in Processes, q # p
      PROVE  ProcessOK(q, at'[q], my'[q], conn', arrived', acquired', Done')
  <2>1. at'[q] = at[q] /\ my'[q] = my[q] /\ my[q] \in Locals
    BY <1>1, <1>2
  <2>2. ProcessOK(q, at[q], my[q], conn, arrived, acquired, Done)
    BY DEF MonitorInv, Processed
  <2>3. ProcessOK(q, at[q], my[q], conn', arrived, acquired', Done')
    BY <1>1, <1>2, <2>1, <2>2, ProcessMonotone
  <2> QED
    BY <2>1, <2>3
<1>3. at'[p] = to /\ my'[p] = local
  BY <1>1
<1> QED
  BY <1>2, <1>3 DEF Processed

\* When nobody moves, only messages arrive, or the connection is released or
\* replaced.
LEMMA RestKeepsOrder ==
  ASSUME MonitorInv, at' = at, my' = my, arrived' \in Nat, arrived <= arrived',
         acquired' = acquired, skipped' = skipped,
         \A q \in Processes :
            conn'.lease = q => conn.lease = q /\ conn'.monitor = conn.monitor
  PROVE  Processed'
<1> SUFFICES ASSUME NEW q \in Processes
             PROVE  ProcessOK(q, at'[q], my'[q], conn', arrived', acquired', Done')
  BY DEF Processed
<1>1. my[q] \in Locals /\ arrived \in Nat /\ Done' = Done
  BY BoundsAreNatural DEF MonitorInv, TypeOK, Locals, Done
<1>2. ProcessOK(q, at[q], my[q], conn, arrived, acquired, Done)
  BY DEF MonitorInv, Processed
<1>3. ProcessOK(q, at[q], my[q], conn', arrived', acquired', Done')
  BY <1>1, <1>2, ProcessMonotone
<1> QED
  BY <1>3

LEMMA BlankTyped == Blank \in Locals
<1>1. Stopped \in Monitors
  BY BoundsAreNatural DEF Stopped, Monitor, Monitors
<1> QED
  BY <1>1, BoundsAreNatural DEF Blank, Locals

LEMMA StateReplaced ==
  ASSUME NEW l \in Locals, NEW s \in Monitors
  PROVE  LET k == [l EXCEPT !.state = s, !.message = 0]
         IN  k \in Locals /\ k.state = s /\ k.before = l.before
<1>1. 0 \in 0..Messages
  BY BoundsAreNatural
<1> QED
  BY <1>1 DEF Locals

\* A state follows itself.
LEMMA FollowsItself ==
  ASSUME NEW s \in Monitors, NEW D, s.enabled
  PROVE  Follows(s, s, D)
  BY BoundsAreNatural DEF Follows, Monitors, Inbox

\* How a process leaves an import: the message is handled, or the poll puts
\* back what it began with.
LEMMA GoesKeepsOrder ==
  ASSUME MonitorInv, NEW p \in Processes, NEW from \in ImportSteps,
         NEW code \in {"ok", "skip", "error"}, Goes(p, from, code),
         code = "ok" => my[p].message \in Done,
         conn' = conn, arrived' = arrived, acquired' = acquired
  PROVE  /\ Processed'
         /\ at' \in [Processes -> Steps] /\ my' \in [Processes -> Locals]
         /\ skipped' \subseteq Inbox /\ skipped \subseteq skipped'
<1> DEFINE m == my[p].message
<1> DEFINE s == my[p].state
<1> DEFINE r == [s EXCEPT !.pending = @ \ {m}]
<1>1. /\ at \in [Processes -> Steps] /\ my \in [Processes -> Locals]
      /\ arrived \in 0..Messages /\ skipped \subseteq Inbox
      /\ at[p] = from /\ my[p] \in Locals /\ s \in Monitors /\ my[p].before \in Monitors
      /\ m \in 1..arrived /\ m \in Inbox
  <2>1. at[p] = from
    BY DEF Goes, Go
  <2>2. /\ at \in [Processes -> Steps] /\ my \in [Processes -> Locals]
        /\ arrived \in 0..Messages /\ skipped \subseteq Inbox
    BY DEF MonitorInv, TypeOK, Locals
  <2>3. m \in 1..arrived
    BY <2>1 DEF MonitorInv, Processed, ProcessOK, Importing
  <2> QED
    BY <2>1, <2>2, <2>3, BoundsAreNatural DEF Locals, Inbox
<1>2. /\ skipped' \subseteq Inbox /\ skipped \subseteq skipped'
      /\ Done \subseteq Done' /\ acquired \subseteq acquired'
  BY <1>1 DEF Goes, Done
<1>3. \A to \in Steps, local \in Locals :
        /\ Go(p, from, to, local)
        /\ ProcessOK(p, to, local, conn, arrived, acquired, Done')
        => Processed' /\ at' \in [Processes -> Steps] /\ my' \in [Processes -> Locals]
  <2> SUFFICES ASSUME NEW to \in Steps, NEW local \in Locals, Go(p, from, to, local),
                      ProcessOK(p, to, local, conn, arrived, acquired, Done')
               PROVE  Processed' /\ at' \in [Processes -> Steps] /\ my' \in [Processes -> Locals]
    OBVIOUS
  <2>1. Processed'
    BY <1>2, MoveKeepsOrder
  <2>2. at' \in [Processes -> Steps] /\ my' \in [Processes -> Locals]
    BY <1>1 DEF Go
  <2> QED
    BY <2>1, <2>2
<1>4. CASE p \in Users
  <2>1. Go(p, from, "idle", Blank)
    BY <1>4 DEF Goes
  <2>2. Blank \in Locals /\ "idle" \in Steps
    BY BlankTyped DEF Steps
  <2>3. ProcessOK(p, "idle", Blank, conn, arrived, acquired, Done')
    BY DEF ProcessOK, Importing, Watching, ImportSteps, PollSteps
  <2> QED
    BY <1>2, <1>3, <2>1, <2>2, <2>3
<1>5. CASE p \notin Users
  <2>1. /\ p \in Pollers
        /\ OnTrack(s, TRUE, arrived, Done)
        /\ OnTrack(my[p].before, my[p].before.pending # {}, arrived, Done)
        /\ Follows(s, my[p].before, Done) /\ Follows(my[p].before, my[p].before, Done)
        /\ conn.lease = p => my[p].before = conn.monitor
    <3>1. p \in Pollers
      BY <1>5 DEF Processes
    <3>2. Watching(p, from, my[p], conn, arrived, Done)
      BY <1>1 DEF MonitorInv, Processed, ProcessOK
    <3>3. from # "idle" /\ Listed(from, my[p]) = TRUE
      BY DEF ImportSteps, Listed
    <3>4. /\ OnTrack(s, TRUE, arrived, Done)
          /\ OnTrack(my[p].before, my[p].before.pending # {}, arrived, Done)
          /\ Follows(s, my[p].before, Done)
          /\ conn.lease = p => my[p].before = conn.monitor
      BY <3>1, <3>2, <3>3 DEF Watching
    <3>5. Follows(my[p].before, my[p].before, Done)
      BY <1>1, <3>4, FollowsItself DEF Follows
    <3> QED
      BY <3>1, <3>4, <3>5
  <2>2. /\ OnTrack(s, TRUE, arrived, Done')
        /\ OnTrack(my[p].before, my[p].before.pending # {}, arrived, Done')
        /\ Follows(s, my[p].before, Done') /\ Follows(my[p].before, my[p].before, Done')
    <3>1. arrived \in Nat /\ arrived <= arrived /\ Done \subseteq Done'
      BY <1>1, <1>2, BoundsAreNatural
    <3>2. OnTrack(s, TRUE, arrived, Done')
      BY <1>1, <3>1, <2>1, TrackMonotone
    <3>3. OnTrack(my[p].before, my[p].before.pending # {}, arrived, Done')
      BY <1>1, <3>1, <2>1, TrackMonotone
    <3>4. Follows(s, my[p].before, Done') /\ Follows(my[p].before, my[p].before, Done')
      BY <3>1, <2>1, FollowsMonotone
    <3> QED
      BY <3>2, <3>3, <3>4
  <2>3. CASE code = "error"
    <3> DEFINE local == [my[p] EXCEPT !.state = my[p].before, !.message = 0]
    <3>1. Go(p, from, "save", local)
      BY <1>5, <2>3 DEF Goes
    <3>2. local \in Locals /\ local.state = my[p].before /\ local.before = my[p].before
      BY <1>1, StateReplaced
    <3> HIDE DEF local
    <3>3. Listed("save", local) = (my[p].before.pending # {})
      BY <3>2 DEF Listed
    <3>4. ProcessOK(p, "save", local, conn, arrived, acquired, Done')
      BY <2>1, <2>2, <3>2, <3>3 DEF ProcessOK, Importing, Watching, ImportSteps
    <3> QED
      BY <1>2, <1>3, <3>1, <3>2, <3>4 DEF Steps, PollSteps
  <2>4. CASE code # "error"
    <3> DEFINE local == [my[p] EXCEPT !.state = r, !.message = 0]
    <3>1. local = [my[p] EXCEPT !.state.pending = @ \ {m}, !.message = 0]
      BY <1>1 DEF Locals, Monitors
    <3>2. Go(p, from, "next", local)
      BY <1>5, <2>4, <3>1 DEF Goes
    <3>3. m \in Done'
      BY <1>5, <2>1, <2>4, <1>2 DEF Goes, Done
    <3>4. r \in Monitors /\ OnTrack(r, TRUE, arrived, Done') /\ Follows(r, my[p].before, Done')
      <4>1. arrived \in Nat
        BY <1>1, BoundsAreNatural
      <4> QED
        BY <1>1, <2>2, <3>3, <4>1, RestOnTrack
    <3> HIDE DEF r
    <3>5. local \in Locals /\ local.state = r /\ local.before = my[p].before
      BY <1>1, <3>4, StateReplaced
    <3> HIDE DEF local
    <3>6. Listed("next", local) = TRUE
      BY DEF Listed
    <3>7. ProcessOK(p, "next", local, conn, arrived, acquired, Done')
      BY <2>1, <2>2, <3>4, <3>5, <3>6 DEF ProcessOK, Importing, Watching, ImportSteps
    <3> QED
      BY <1>2, <1>3, <3>2, <3>5, <3>7 DEF Steps, PollSteps
  <2> QED
    BY <2>3, <2>4
<1> QED
  BY <1>4, <1>5

\* A process that goes from one step of an import to another.
LEMMA ImportMove ==
  ASSUME MonitorInv, NEW p \in Processes, NEW from \in ImportSteps, NEW to \in ImportSteps,
         NEW local \in Locals, Go(p, from, to, local),
         local.message = my[p].message, local.state = my[p].state,
         local.before = my[p].before,
         conn' = conn, arrived' = arrived, skipped' = skipped, acquired \subseteq acquired',
         to \in {"job", "mark"} => my[p].message \in acquired',
         to = "release" => local.code # "ok"
  PROVE  Processed' /\ at' \in [Processes -> Steps] /\ my' \in [Processes -> Locals]
<1>1. /\ at \in [Processes -> Steps] /\ my \in [Processes -> Locals] /\ at[p] = from
      /\ arrived \in Nat /\ my[p] \in Locals
  BY BoundsAreNatural DEF MonitorInv, TypeOK, Locals, Go
<1>2. at' \in [Processes -> Steps] /\ my' \in [Processes -> Locals]
  BY <1>1 DEF Go, Steps
<1>3. ProcessOK(p, from, my[p], conn, arrived, acquired, Done)
  BY <1>1 DEF MonitorInv, Processed
<1>4. acquired \subseteq acquired' /\ Done \subseteq Done'
  BY DEF Done
<1>5. Watching(p, from, my[p], conn, arrived, Done')
  <2>1. ProcessOK(p, from, my[p], conn, arrived, acquired', Done')
    BY <1>1, <1>3, <1>4, ProcessMonotone
  <2> QED
    BY <2>1 DEF ProcessOK
<1>6. /\ to # "idle" /\ from # "idle" /\ to \notin PollSteps
      /\ Listed(to, local) = Listed(from, my[p])
  BY DEF ImportSteps, PollSteps, Listed
<1>7. Watching(p, to, local, conn, arrived, Done')
  BY <1>5, <1>6 DEF Watching
<1>8. ProcessOK(p, to, local, conn, arrived, acquired', Done')
  BY <1>3, <1>7 DEF ProcessOK, Importing
<1>9. Processed'
  BY <1>4, <1>8, MoveKeepsOrder
<1> QED
  BY <1>2, <1>9

\* The stored monitor stays on track while it is not written.
LEMMA StoredOnTrack ==
  ASSUME MonitorInv, conn' = conn, arrived' \in Nat, arrived <= arrived', Done \subseteq Done'
  PROVE  OnTrack(conn'.monitor, conn'.monitor.pending # {}, arrived', Done')
<1>1. /\ conn.monitor \in Monitors /\ arrived \in Nat
      /\ OnTrack(conn.monitor, conn.monitor.pending # {}, arrived, Done)
  BY BoundsAreNatural DEF MonitorInv, TypeOK
<1> QED
  BY <1>1, TrackMonotone

\* A monitor that was just stopped or started has nothing behind it to handle.
LEMMA FreshMonitors ==
  ASSUME arrived \in 0..Messages
  PROVE  /\ Stopped \in Monitors /\ Started \in Monitors
         /\ ~Stopped.enabled /\ Started.enabled
         /\ Stopped.pending = {} /\ Started.pending = {}
         /\ Started.since = arrived /\ Started.cursor = arrived
         /\ \A D : OnTrack(Stopped, FALSE, arrived, D) /\ OnTrack(Started, FALSE, arrived, D)
<1>1. 0 \in 0..Messages /\ arrived \in Nat
  BY BoundsAreNatural
<1>2. /\ Started \in Monitors /\ Started.enabled /\ Started.pending = {}
      /\ Started.since = arrived /\ Started.cursor = arrived /\ From(Started) = arrived
  BY <1>1 DEF Started, Monitor, Monitors, From
<1>3. /\ Stopped \in Monitors /\ ~Stopped.enabled /\ Stopped.pending = {}
      /\ Stopped.cursor = 0 /\ From(Stopped) = 0
  BY <1>1 DEF Stopped, Monitor, Monitors, From
<1>4. \A D : OnTrack(Started, FALSE, arrived, D)
  <2> HIDE DEF Started
  <2> QED
    BY <1>1, <1>2, BoundsAreNatural DEF OnTrack, Inbox
<1>5. \A D : OnTrack(Stopped, FALSE, arrived, D)
  BY <1>1, <1>3, BoundsAreNatural DEF OnTrack, Inbox
<1> QED
  BY <1>2, <1>3, <1>4, <1>5

Connections == [monitor : Monitors, lease : Pollers \cup {Nobody, "none"}, over : BOOLEAN]

LEMMA ConnectionTyped ==
  ASSUME NEW s \in Monitors
  PROVE  Connection(s) \in Connections /\ Connection(s).monitor = s /\ Connection(s).lease = Nobody
  BY DEF Connection, Connections

LEMMA MonitorInit == Init => MonitorInv
<1> SUFFICES ASSUME Init PROVE MonitorInv
  OBVIOUS
<1>1. 0 \in 0..Messages /\ 0 \in 0..MaxChanges /\ 0 \in 0..MaxFaults
  BY BoundsAreNatural
<1>2. /\ Stopped \in Monitors /\ Started \in Monitors
      /\ OnTrack(Stopped, FALSE, arrived, Done) /\ OnTrack(Started, FALSE, arrived, Done)
      /\ Stopped.pending = {} /\ Started.pending = {}
  <2>1. arrived \in 0..Messages
    BY <1>1 DEF Init
  <2> QED
    BY <2>1, FreshMonitors
<1>3. /\ conn.monitor \in {Stopped, Started}
      /\ conn \in Connections
  BY <1>2, ConnectionTyped, Zenon DEF Init, Connections
<1>4. OnTrack(conn.monitor, conn.monitor.pending # {}, arrived, Done)
  BY <1>2, <1>3
<1>5. my \in [Processes -> Locals] /\ at \in [Processes -> Steps]
  BY BlankTyped DEF Init, Steps
<1>6. TypeOK
  BY <1>1, <1>3, <1>5 DEF Init, TypeOK, Locals, Unclaimed, Connections
<1>7. Processed
  BY DEF Init, Processed, ProcessOK, Importing, Watching, ImportSteps, PollSteps
<1>8. \A m \in Inbox : emails[m] > 0 \/ imports[m].completed => m \in acquired
  BY DEF Init, Unclaimed
<1> QED
  BY <1>4, <1>5, <1>6, <1>7, <1>8 DEF MonitorInv

----------------------------------------------------------------------------
(* The steps of an import. *)

ImportRows == [lease : Processes \cup {Nobody}, over : BOOLEAN, completed : BOOLEAN]
Handled == \A m \in Inbox : emails[m] > 0 \/ imports[m].completed => m \in acquired

\* What is left to show of a step that writes neither the connection nor the mailbox.
LEMMA Reassembled ==
  ASSUME MonitorInv, conn' = conn, arrived' = arrived,
         Processed', at' \in [Processes -> Steps], my' \in [Processes -> Locals],
         acquired \subseteq acquired', acquired' \subseteq Inbox,
         skipped \subseteq skipped', skipped' \subseteq Inbox,
         imports' \in [Inbox -> ImportRows],
         emails' \in [Inbox -> Nat], jobs' \in [Inbox -> Nat], Handled',
         bounds' = bounds \/ Fault
  PROVE  MonitorInv'
<1>1. arrived \in Nat /\ Done \subseteq Done'
  BY BoundsAreNatural DEF MonitorInv, TypeOK, Done
<1>2. OnTrack(conn'.monitor, conn'.monitor.pending # {}, arrived', Done')
  BY <1>1, StoredOnTrack
<1>3. changes' \in 0..MaxChanges /\ faults' \in 0..MaxFaults /\ overrun' \subseteq Inbox
  BY BoundsAreNatural DEF MonitorInv, TypeOK, bounds, Fault
<1>4. TypeOK'
  BY <1>3 DEF MonitorInv, TypeOK, Locals, ImportRows
<1> QED
  BY <1>2, <1>4 DEF MonitorInv, Handled

\* What a process in an import knows.
LEMMA InImport ==
  ASSUME MonitorInv, NEW p \in Processes, at[p] \in ImportSteps
  PROVE  /\ my[p] \in Locals /\ my[p].message \in 1..arrived /\ my[p].message \in Inbox
         /\ arrived \in Nat
         /\ at[p] \in {"job", "mark"} => my[p].message \in acquired
         /\ at[p] = "release" => my[p].code # "ok"
         /\ imports \in [Inbox -> ImportRows]
         /\ emails \in [Inbox -> Nat] /\ jobs \in [Inbox -> Nat]
         /\ acquired \subseteq Inbox /\ skipped \subseteq Inbox /\ Handled
<1>1. /\ my \in [Processes -> Locals] /\ arrived \in 0..Messages
      /\ Importing(at[p], my[p], arrived, acquired)
      /\ imports \in [Inbox -> ImportRows] /\ emails \in [Inbox -> Nat] /\ jobs \in [Inbox -> Nat]
      /\ acquired \subseteq Inbox /\ skipped \subseteq Inbox /\ Handled
  BY DEF MonitorInv, TypeOK, Locals, ImportRows, Handled, Processed, ProcessOK
<1>2. my[p].message \in 1..arrived
  BY <1>1 DEF Importing
<1> QED
  BY <1>1, <1>2, BoundsAreNatural DEF Importing, Inbox

LEMMA RegisterStep ==
  ASSUME MonitorInv, NEW p \in Processes, Register(p)
  PROVE  MonitorInv'
<1> DEFINE m == my[p].message
<1>1. /\ at[p] = "register" /\ "register" \in ImportSteps /\ "claim" \in ImportSteps
      /\ conn' = conn /\ arrived' = arrived /\ acquired' = acquired /\ imports' = imports
      /\ emails' = emails /\ jobs' = jobs /\ bounds' = bounds
  BY DEF Register, ImportSteps, mailbox
<1>2. /\ my[p] \in Locals /\ m \in Inbox /\ Handled /\ imports \in [Inbox -> ImportRows]
      /\ emails \in [Inbox -> Nat] /\ jobs \in [Inbox -> Nat]
      /\ acquired \subseteq Inbox /\ skipped \subseteq Inbox
  BY <1>1, InImport
<1>3. /\ Processed' /\ at' \in [Processes -> Steps] /\ my' \in [Processes -> Locals]
      /\ skipped' \subseteq Inbox /\ skipped \subseteq skipped'
  <2>1. CASE imports[m].completed
    <3>1. m \in Done
      BY <1>2, <2>1 DEF Handled, Done
    <3>2. PICK code \in {"ok", "skip", "error"} : Goes(p, "register", code)
      BY <2>1 DEF Register
    <3> QED
      BY <1>1, <3>1, <3>2, GoesKeepsOrder
  <2>2. CASE ~imports[m].completed
    <3>1. Go(p, "register", "claim", my[p]) /\ skipped' = skipped
      BY <2>2 DEF Register, Step
    <3>2. Processed' /\ at' \in [Processes -> Steps] /\ my' \in [Processes -> Locals]
      BY <1>1, <1>2, <3>1, ImportMove
    <3> QED
      BY <1>2, <3>1, <3>2
  <2> QED
    BY <2>1, <2>2
<1>4. Handled'
  BY <1>1, <1>2 DEF Handled
<1> QED
  BY <1>1, <1>2, <1>3, <1>4, Reassembled

LEMMA ClaimStep ==
  ASSUME MonitorInv, NEW p \in Processes, Claim(p)
  PROVE  MonitorInv'
<1> DEFINE m == my[p].message
<1>1. /\ at[p] = "claim" /\ "claim" \in ImportSteps /\ "find" \in ImportSteps
      /\ conn' = conn /\ arrived' = arrived /\ acquired' = acquired
      /\ emails' = emails /\ jobs' = jobs /\ bounds' = bounds
  BY DEF Claim, ImportSteps, mailbox
<1>2. /\ my[p] \in Locals /\ m \in Inbox /\ Handled /\ imports \in [Inbox -> ImportRows]
      /\ emails \in [Inbox -> Nat] /\ jobs \in [Inbox -> Nat]
      /\ acquired \subseteq Inbox /\ skipped \subseteq Inbox
  BY <1>1, InImport
<1>3. CASE Free(imports[m])
  <2>1. /\ imports' = [imports EXCEPT ![m] = Unclaimed(p)]
        /\ Go(p, "claim", "find", my[p]) /\ skipped' = skipped
    BY <1>3 DEF Claim, Step
  <2>2. imports' \in [Inbox -> ImportRows] /\ Handled'
    BY <1>1, <1>2, <2>1 DEF ImportRows, Unclaimed, Handled
  <2>3. Processed' /\ at' \in [Processes -> Steps] /\ my' \in [Processes -> Locals]
    BY <1>1, <1>2, <2>1, ImportMove
  <2> QED
    BY <1>1, <1>2, <2>1, <2>2, <2>3, Reassembled
<1>4. CASE ~Free(imports[m])
  <2>1. Goes(p, "claim", "error") /\ imports' = imports
    BY <1>4 DEF Claim
  <2>2. /\ Processed' /\ at' \in [Processes -> Steps] /\ my' \in [Processes -> Locals]
        /\ skipped' \subseteq Inbox /\ skipped \subseteq skipped'
    BY <1>1, <2>1, GoesKeepsOrder
  <2>3. Handled'
    BY <1>1, <1>2, <2>1 DEF Handled
  <2> QED
    BY <1>1, <1>2, <2>1, <2>2, <2>3, Reassembled
<1> QED
  BY <1>3, <1>4

\* Looking for an email that an earlier attempt left, then fetching the message.
LEMMA FindStep ==
  ASSUME MonitorInv, NEW p \in Processes, Find(p) \/ Fetch(p)
  PROVE  MonitorInv'
<1> DEFINE m == my[p].message
<1>1. /\ at[p] \in {"find", "fetch"} /\ at[p] \in ImportSteps
      /\ conn' = conn /\ arrived' = arrived /\ acquired' = acquired /\ imports' = imports
      /\ emails' = emails /\ jobs' = jobs /\ skipped' = skipped
      /\ bounds' = bounds \/ Fault
  BY DEF Find, Fetch, Step, Go, ImportSteps, mailbox, store
<1>2. /\ my[p] \in Locals /\ m \in Inbox /\ Handled /\ imports \in [Inbox -> ImportRows]
      /\ emails \in [Inbox -> Nat] /\ jobs \in [Inbox -> Nat]
      /\ acquired \subseteq Inbox /\ skipped \subseteq Inbox
  BY <1>1, InImport
<1>3. Processed' /\ at' \in [Processes -> Steps] /\ my' \in [Processes -> Locals]
  <2>1. CASE Find(p)
    <3>1. Go(p, "find", Recover(m), my[p])
      BY <2>1 DEF Find, Step
    <3>2. /\ Recover(m) \in ImportSteps /\ Recover(m) # "release"
          /\ Recover(m) \in {"job", "mark"} => m \in acquired
      BY <1>2 DEF Recover, ImportSteps, Handled
    <3>3. at[p] = "find"
      BY <2>1 DEF Find
    <3> QED
      BY <1>1, <1>2, <3>1, <3>2, <3>3, ImportMove
  <2>2. CASE Fetch(p)
    <3>1. PICK to \in {"email", "release"}, local \in Locals :
            /\ Go(p, "fetch", to, local)
            /\ local.message = m /\ local.state = my[p].state /\ local.before = my[p].before
            /\ to = "release" => local.code # "ok"
      <4>1. CASE Go(p, "fetch", "email", my[p])
        BY <1>2, <4>1
      <4>2. \A code \in {"skip", "error"} :
              LET local == [my[p] EXCEPT !.code = code]
              IN  /\ local \in Locals /\ local.message = m /\ local.state = my[p].state
                  /\ local.before = my[p].before /\ local.code # "ok"
        BY <1>2 DEF Locals
      <4>3. CASE \E code \in {"skip", "error"} :
                   Go(p, "fetch", "release", [my[p] EXCEPT !.code = code])
        BY <4>2, <4>3
      <4> QED
        BY <2>2, <4>1, <4>3 DEF Fetch, Step
    <3>2. at[p] = "fetch" /\ to \in ImportSteps /\ to \notin {"job", "mark"}
      BY <3>1 DEF Go, ImportSteps
    <3> QED
      BY <1>1, <1>2, <3>1, <3>2, ImportMove
  <2> QED
    BY <2>1, <2>2
<1>4. Handled'
  BY <1>1, <1>2 DEF Handled
<1> QED
  BY <1>1, <1>2, <1>3, <1>4, Reassembled

LEMMA AcquireStep ==
  ASSUME MonitorInv, NEW p \in Processes, InsertEmail(p) \/ InsertJob(p)
  PROVE  MonitorInv'
<1> DEFINE m == my[p].message
<1>1. /\ at[p] \in {"email", "job"} /\ at[p] \in ImportSteps
      /\ conn' = conn /\ arrived' = arrived /\ imports' = imports
      /\ skipped' = skipped /\ bounds' = bounds
  BY DEF InsertEmail, InsertJob, Step, Go, ImportSteps, mailbox
<1>2. /\ my[p] \in Locals /\ m \in Inbox /\ Handled /\ imports \in [Inbox -> ImportRows]
      /\ emails \in [Inbox -> Nat] /\ jobs \in [Inbox -> Nat]
      /\ acquired \subseteq Inbox /\ skipped \subseteq Inbox
      /\ at[p] = "job" => m \in acquired
  BY <1>1, InImport
<1>3. CASE InsertEmail(p)
  <2>1. /\ Go(p, "email", "job", my[p]) /\ emails' = [emails EXCEPT ![m] = @ + 1]
        /\ acquired' = acquired \cup {m} /\ jobs' = jobs
    BY <1>3 DEF InsertEmail, Step
  <2>2. /\ acquired' \subseteq Inbox /\ emails' \in [Inbox -> Nat] /\ Handled'
        /\ acquired \subseteq acquired' /\ m \in acquired'
    BY <1>1, <1>2, <2>1 DEF Handled
  <2>3. Processed' /\ at' \in [Processes -> Steps] /\ my' \in [Processes -> Locals]
    BY <1>1, <1>2, <2>1, <2>2, ImportMove DEF ImportSteps
  <2> QED
    BY <1>1, <1>2, <2>1, <2>2, <2>3, Reassembled
<1>4. CASE InsertJob(p)
  <2>1. /\ Go(p, "job", "mark", my[p]) /\ jobs' = [jobs EXCEPT ![m] = @ + 1]
        /\ acquired' = acquired /\ emails' = emails /\ at[p] = "job"
    BY <1>4 DEF InsertJob, Step, Go
  <2>2. jobs' \in [Inbox -> Nat] /\ Handled'
    BY <1>1, <1>2, <2>1 DEF Handled
  <2>3. Processed' /\ at' \in [Processes -> Steps] /\ my' \in [Processes -> Locals]
    BY <1>1, <1>2, <2>1, ImportMove DEF ImportSteps
  <2> QED
    BY <1>1, <1>2, <2>1, <2>2, <2>3, Reassembled
<1> QED
  BY <1>3, <1>4

\* The end of an import: marked complete, or released to be tried again.
LEMMA EndStep ==
  ASSUME MonitorInv, NEW p \in Processes, Mark(p) \/ Release(p)
  PROVE  MonitorInv'
<1> DEFINE m == my[p].message
<1>1. /\ at[p] \in {"mark", "release"} /\ at[p] \in ImportSteps
      /\ conn' = conn /\ arrived' = arrived /\ acquired' = acquired
      /\ emails' = emails /\ jobs' = jobs /\ bounds' = bounds
  BY DEF Mark, Release, ImportSteps, mailbox
<1>2. /\ my[p] \in Locals /\ m \in Inbox /\ Handled /\ imports \in [Inbox -> ImportRows]
      /\ emails \in [Inbox -> Nat] /\ jobs \in [Inbox -> Nat]
      /\ acquired \subseteq Inbox /\ skipped \subseteq Inbox
      /\ at[p] = "mark" => m \in acquired
      /\ at[p] = "release" => my[p].code # "ok"
  BY <1>1, InImport
<1>3. PICK code \in {"ok", "skip", "error"} :
         Goes(p, at[p], code) /\ (code = "ok" => at[p] = "mark")
  <2>1. CASE Mark(p)
    BY <2>1 DEF Mark
  <2>2. CASE Release(p)
    BY <1>2, <2>2 DEF Release, Locals
  <2> QED
    BY <2>1, <2>2
<1>4. /\ Processed' /\ at' \in [Processes -> Steps] /\ my' \in [Processes -> Locals]
      /\ skipped' \subseteq Inbox /\ skipped \subseteq skipped'
  <2>1. code = "ok" => m \in Done
    BY <1>2, <1>3 DEF Done
  <2> QED
    BY <1>1, <1>3, <2>1, GoesKeepsOrder
<1>5. imports' \in [Inbox -> ImportRows] /\ Handled'
  <2>1. /\ Unclaimed(Nobody) \in ImportRows /\ ~Unclaimed(Nobody).completed
        /\ [Unclaimed(Nobody) EXCEPT !.completed = TRUE] \in ImportRows
    BY DEF Unclaimed, ImportRows
  <2>2. CASE imports' = imports
    BY <1>1, <1>2, <2>2 DEF Handled
  <2>3. CASE Mark(p) /\ imports' = [imports EXCEPT ![m] =
                                      [Unclaimed(Nobody) EXCEPT !.completed = TRUE]]
    <3>1. m \in acquired
      BY <1>2, <2>3 DEF Mark
    <3> QED
      BY <1>1, <1>2, <2>1, <2>3, <3>1 DEF Handled
  <2>4. CASE imports' = [imports EXCEPT ![m] = Unclaimed(Nobody)]
    BY <1>1, <1>2, <2>1, <2>4 DEF Handled
  <2> QED
    BY <2>2, <2>3, <2>4 DEF Mark, Release
<1> QED
  BY <1>1, <1>2, <1>4, <1>5, Reassembled

----------------------------------------------------------------------------
(* The steps of a poll. *)

\* What a poller knows: its two states are on track, and it began with the
\* stored monitor if it still holds the lease.
LEMMA InPoll ==
  ASSUME MonitorInv, NEW p \in Pollers, at[p] # "idle"
  PROVE  /\ p \in Processes /\ p \notin Users /\ p # Nobody /\ p # "none"
         /\ my[p] \in Locals /\ my[p].state \in Monitors /\ my[p].before \in Monitors
         /\ arrived \in Nat /\ arrived \in 0..Messages
         /\ OnTrack(my[p].state, Listed(at[p], my[p]), arrived, Done)
         /\ OnTrack(my[p].before, my[p].before.pending # {}, arrived, Done)
         /\ Follows(my[p].state, my[p].before, Done)
         /\ conn.lease = p => my[p].before = conn.monitor
<1>1. /\ p \in Processes /\ p \notin Users /\ p # Nobody /\ p # "none"
  BY ProcessesAreDistinct DEF Processes
<1>2. my[p] \in Locals /\ arrived \in 0..Messages
  BY <1>1 DEF MonitorInv, TypeOK, Locals
<1>3. Watching(p, at[p], my[p], conn, arrived, Done)
  BY <1>1 DEF MonitorInv, Processed, ProcessOK
<1> QED
  BY <1>1, <1>2, <1>3, BoundsAreNatural DEF Watching, Locals

\* Only pollers are at the steps of a poll.
LEMMA AtPoll ==
  ASSUME MonitorInv, NEW p \in Processes, at[p] \in PollSteps
  PROVE  p \in Pollers
  BY DEF MonitorInv, Processed, ProcessOK, Watching

\* A poll that goes on to a local state on track, without writing anything.
LEMMA PollMove ==
  ASSUME MonitorInv, NEW p \in Pollers, NEW from \in Steps \ {"idle"},
         NEW to \in PollSteps \cup {"register"}, NEW local \in Locals,
         Go(p, from, to, local),
         local.before = my[p].before, OnTrack(local.state, Listed(to, local), arrived, Done),
         Follows(local.state, my[p].before, Done),
         to = "register" => local.message \in 1..arrived,
         mailbox' = mailbox, store' = store, bounds' = bounds \/ Fault
  PROVE  MonitorInv'
<1>1. /\ at[p] # "idle" /\ at' = [at EXCEPT ![p] = to] /\ my' = [my EXCEPT ![p] = local]
      /\ conn' = conn /\ arrived' = arrived /\ acquired' = acquired /\ skipped' = skipped
      /\ imports' = imports /\ emails' = emails /\ jobs' = jobs /\ Done' = Done
  BY DEF Go, mailbox, store, Done
<1>2. /\ p \in Processes
      /\ OnTrack(my[p].before, my[p].before.pending # {}, arrived, Done)
      /\ conn.lease = p => my[p].before = conn.monitor
  BY <1>1, InPoll
<1>3. ProcessOK(p, to, local, conn', arrived', acquired', Done')
  BY <1>1, <1>2 DEF ProcessOK, Importing, Watching, ImportSteps, PollSteps
<1>4. Processed'
  BY <1>1, <1>2, <1>3, MoveKeepsOrder
<1>5. /\ at \in [Processes -> Steps] /\ my \in [Processes -> Locals]
      /\ imports \in [Inbox -> ImportRows]
      /\ emails \in [Inbox -> Nat] /\ jobs \in [Inbox -> Nat]
      /\ acquired \subseteq Inbox /\ skipped \subseteq Inbox /\ Handled
  BY DEF MonitorInv, TypeOK, Locals, ImportRows, Handled
<1>6. at' \in [Processes -> Steps] /\ my' \in [Processes -> Locals] /\ Handled'
  BY <1>1, <1>5 DEF Steps, ImportSteps, PollSteps, Handled
<1> QED
  BY <1>1, <1>4, <1>5, <1>6, Reassembled

LEMMA TrackWeaker ==
  ASSUME NEW s, NEW n, NEW D, NEW listed \in BOOLEAN, OnTrack(s, TRUE, n, D)
  PROVE  OnTrack(s, listed, n, D)
  BY DEF OnTrack

\* A state that disables the monitor is as much on track as it was.
LEMMA DisabledState ==
  ASSUME NEW l \in Locals
  PROVE  LET k == [l EXCEPT !.state.enabled = FALSE]
         IN  /\ k \in Locals /\ k.before = l.before /\ k.state.pending = l.state.pending
             /\ \A listed, n, D : OnTrack(l.state, listed, n, D) => OnTrack(k.state, listed, n, D)
             /\ \A D : Follows(l.state, l.before, D) => Follows(k.state, l.before, D)
<1> DEFINE k == [l EXCEPT !.state.enabled = FALSE]
<1> DEFINE s == l.state
<1> DEFINE t == [s EXCEPT !.enabled = FALSE]
<1>1. s \in Monitors
  BY DEF Locals
<1>2. /\ t \in Monitors /\ t.pending = s.pending /\ t.cursor = s.cursor /\ t.token = s.token
      /\ t.next = s.next /\ t.upto = s.upto /\ t.since = s.since
  BY <1>1 DEF Monitors
<1>3. k = [l EXCEPT !.state = t]
  BY DEF Locals, Monitors
<1> HIDE DEF t
<1>4. k \in Locals /\ k.before = l.before /\ k.state = t
  BY <1>2, <1>3 DEF Locals
<1> HIDE DEF k
<1>5. From(t) = From(s) /\ Reach(t) = Reach(s)
  BY <1>2 DEF From, Reach
<1>6. \A listed, n, D : OnTrack(s, listed, n, D) => OnTrack(t, listed, n, D)
  BY <1>2, <1>5 DEF OnTrack
<1>7. \A D : Follows(s, l.before, D) => Follows(t, l.before, D)
  BY <1>2 DEF Follows
<1> QED
  BY <1>2, <1>4, <1>6, <1>7 DEF k

LEMMA HistoryStep ==
  ASSUME MonitorInv, NEW p \in Pollers, History(p)
  PROVE  MonitorInv'
<1> DEFINE s == my[p].state
<1>1. /\ at[p] = "history" /\ "history" \in Steps \ {"idle"}
      /\ mailbox' = mailbox /\ store' = store
  BY DEF History, Step, Go, Steps, PollSteps, mailbox, store
<1>2. /\ my[p] \in Locals /\ s \in Monitors /\ arrived \in 0..Messages
      /\ OnTrack(s, s.pending # {}, arrived, Done) /\ Follows(s, my[p].before, Done)
      /\ OnTrack(s, FALSE, arrived, Done)
  BY <1>1, InPoll DEF Listed, OnTrack
<1>3. CASE Go(p, "history", "next", [my[p] EXCEPT !.state = Page(@)]) /\ UNCHANGED bounds
  <2> DEFINE local == [my[p] EXCEPT !.state = Page(s)]
  <2>1. /\ Page(s) \in Monitors /\ OnTrack(Page(s), TRUE, arrived, Done)
        /\ Follows(Page(s), my[p].before, Done)
    BY <1>2, PageOnTrack
  <2>2. local \in Locals /\ local.state = Page(s) /\ local.before = my[p].before
    BY <1>2, <2>1 DEF Locals
  <2>3. Go(p, "history", "next", local)
    BY <1>3
  <2> HIDE DEF local
  <2>4. Listed("next", local) = TRUE
    BY DEF Listed
  <2> QED
    BY <1>1, <1>3, <2>1, <2>2, <2>3, <2>4, PollMove DEF PollSteps
<1>4. CASE Go(p, "history", "save", [my[p] EXCEPT !.state.enabled = FALSE]) /\ Fault
  <2> DEFINE local == [my[p] EXCEPT !.state.enabled = FALSE]
  <2>1. /\ local \in Locals /\ local.before = my[p].before /\ local.state.pending = s.pending
        /\ OnTrack(local.state, s.pending # {}, arrived, Done)
        /\ Follows(local.state, my[p].before, Done)
    BY <1>2, DisabledState
  <2>2. Go(p, "history", "save", local)
    BY <1>4
  <2> HIDE DEF local
  <2>3. Listed("save", local) = (s.pending # {})
    BY <2>1 DEF Listed
  <2> QED
    BY <1>1, <1>4, <2>1, <2>2, <2>3, PollMove DEF PollSteps
<1>5. CASE Step(p, "history", "save") /\ Fault
  <2>1. Listed("save", my[p]) = (s.pending # {})
    BY DEF Listed
  <2> QED
    BY <1>1, <1>2, <1>5, <2>1, PollMove DEF PollSteps, Step
<1> QED
  BY <1>3, <1>4, <1>5 DEF History

LEMMA NextMessageStep ==
  ASSUME MonitorInv, NEW p \in Pollers, NextMessage(p)
  PROVE  MonitorInv'
<1> DEFINE s == my[p].state
<1>1. PICK m \in s.pending :
         IF conn.monitor.enabled
         THEN Go(p, "next", "register", [my[p] EXCEPT !.message = m])
         ELSE Go(p, "next", "save", [my[p] EXCEPT !.state.enabled = FALSE])
  BY DEF NextMessage
<1>2. /\ at[p] = "next" /\ "next" \in Steps \ {"idle"}
      /\ mailbox' = mailbox /\ store' = store /\ bounds' = bounds
  BY <1>1 DEF NextMessage, Go, Steps, PollSteps, mailbox, store
<1>3. /\ my[p] \in Locals /\ s \in Monitors /\ arrived \in 0..Messages
      /\ OnTrack(s, TRUE, arrived, Done) /\ Follows(s, my[p].before, Done)
      /\ m \in 1..arrived
  BY <1>2, InPoll DEF Listed, OnTrack
<1>4. CASE conn.monitor.enabled
  <2> DEFINE local == [my[p] EXCEPT !.message = m]
  <2>1. local \in Locals /\ local.state = s /\ local.before = my[p].before /\ local.message = m
    <3>1. m \in 0..Messages
      BY <1>3, BoundsAreNatural
    <3> QED
      BY <1>3, <3>1 DEF Locals
  <2>2. Go(p, "next", "register", local)
    BY <1>1, <1>4
  <2> HIDE DEF local
  <2>3. Listed("register", local) = TRUE
    BY DEF Listed
  <2> QED
    BY <1>2, <1>3, <2>1, <2>2, <2>3, PollMove
<1>5. CASE ~conn.monitor.enabled
  <2> DEFINE local == [my[p] EXCEPT !.state.enabled = FALSE]
  <2>1. OnTrack(s, s.pending # {}, arrived, Done)
    BY <1>3, TrackWeaker
  <2>2. /\ local \in Locals /\ local.before = my[p].before /\ local.state.pending = s.pending
        /\ OnTrack(local.state, s.pending # {}, arrived, Done)
        /\ Follows(local.state, my[p].before, Done)
    BY <1>3, <2>1, DisabledState
  <2>3. Go(p, "next", "save", local)
    BY <1>1, <1>5
  <2> HIDE DEF local
  <2>4. Listed("save", local) = (s.pending # {})
    BY <2>2 DEF Listed
  <2> QED
    BY <1>2, <2>2, <2>3, <2>4, PollMove DEF PollSteps
<1> QED
  BY <1>4, <1>5

\* The poll ends late, or with its page done.
LEMMA PageEndStep ==
  ASSUME MonitorInv, NEW p \in Pollers, Late(p) \/ TurnPage(p)
  PROVE  MonitorInv'
<1> DEFINE s == my[p].state
<1>1. /\ at[p] = "next" /\ "next" \in Steps \ {"idle"}
      /\ mailbox' = mailbox /\ store' = store /\ (bounds' = bounds \/ Fault)
  BY DEF Late, TurnPage, Step, Go, Steps, PollSteps, mailbox, store
<1>2. /\ my[p] \in Locals /\ s \in Monitors /\ my[p].before \in Monitors /\ arrived \in Nat
      /\ OnTrack(s, TRUE, arrived, Done) /\ Follows(s, my[p].before, Done)
  BY <1>1, InPoll DEF Listed
<1>3. CASE Late(p)
  <2>1. Go(p, "next", "save", my[p])
    BY <1>3 DEF Late, Step
  <2>2. OnTrack(s, s.pending # {}, arrived, Done)
    BY <1>2, TrackWeaker
  <2>3. Listed("save", my[p]) = (s.pending # {})
    BY DEF Listed
  <2> QED
    BY <1>1, <1>2, <2>1, <2>2, <2>3, PollMove DEF PollSteps
<1>4. CASE TurnPage(p)
  <2> DEFINE local == [my[p] EXCEPT !.state = Turned(s)]
  <2>1. s.pending = {} /\ Go(p, "next", "save", local)
    BY <1>4 DEF TurnPage
  <2>2. /\ Turned(s) \in Monitors /\ Turned(s).pending = {}
        /\ OnTrack(Turned(s), FALSE, arrived, Done) /\ Follows(Turned(s), my[p].before, Done)
    BY <1>2, <2>1, TurnedOnTrack
  <2>3. local \in Locals /\ local.state = Turned(s) /\ local.before = my[p].before
    BY <1>2, <2>2 DEF Locals
  <2> HIDE DEF local
  <2>4. Listed("save", local) = FALSE
    BY <2>2, <2>3 DEF Listed
  <2> QED
    BY <1>1, <2>1, <2>2, <2>3, <2>4, PollMove DEF PollSteps
<1> QED
  BY <1>3, <1>4

----------------------------------------------------------------------------
(* The steps that write the connection, and the others. *)

\* What is left to show of a step that writes the connection.
LEMMA Reconnected ==
  ASSUME MonitorInv, conn' \in Connections,
         OnTrack(conn'.monitor, conn'.monitor.pending # {}, arrived, Done),
         arrived' = arrived, store' = store,
         Processed', at' \in [Processes -> Steps], my' \in [Processes -> Locals],
         changes' \in 0..MaxChanges, faults' \in 0..MaxFaults, overrun' = overrun
  PROVE  MonitorInv'
<1>1. /\ acquired' = acquired /\ skipped' = skipped /\ imports' = imports
      /\ emails' = emails /\ jobs' = jobs /\ Done' = Done
  BY DEF store, Done
<1>2. TypeOK'
  BY <1>1 DEF MonitorInv, TypeOK, Locals, Connections
<1> QED
  BY <1>1, <1>2 DEF MonitorInv

LEMMA Typed ==
  ASSUME MonitorInv
  PROVE  /\ conn \in Connections /\ conn.monitor \in Monitors
         /\ at \in [Processes -> Steps] /\ my \in [Processes -> Locals]
         /\ arrived \in 0..Messages /\ arrived \in Nat
         /\ OnTrack(conn.monitor, conn.monitor.pending # {}, arrived, Done)
         /\ changes \in 0..MaxChanges /\ faults \in 0..MaxFaults
         /\ imports \in [Inbox -> ImportRows]
         /\ emails \in [Inbox -> Nat] /\ jobs \in [Inbox -> Nat]
         /\ acquired \subseteq Inbox /\ skipped \subseteq Inbox /\ Handled
  BY BoundsAreNatural DEF MonitorInv, TypeOK, Connections, Locals, ImportRows, Handled

\* A process that is idle again has nothing to keep in order.
LEMMA IdleOK ==
  ASSUME NEW p, NEW l, NEW c, NEW n, NEW acq, NEW D
  PROVE  ProcessOK(p, "idle", l, c, n, acq, D)
  BY DEF ProcessOK, Importing, Watching, ImportSteps, PollSteps

\* A poll begins with the stored monitor, disabled if the account is not active.
LEMMA PollStep ==
  ASSUME MonitorInv, NEW p \in Pollers, Poll(p)
  PROVE  MonitorInv'
<1> DEFINE s == conn.monitor
<1> DEFINE begun == [Blank EXCEPT !.state = s, !.before = s]
<1> DEFINE to == IF s.pending = {} THEN "history" ELSE "next"
<1> DEFINE closed == [begun EXCEPT !.state.enabled = FALSE]
<1>1. /\ s.enabled /\ conn' = [conn EXCEPT !.lease = p, !.over = FALSE]
      /\ Go(p, "idle", to, begun) \/ Go(p, "idle", "save", closed)
      /\ arrived' = arrived /\ store' = store /\ bounds' = bounds
  BY DEF Poll
<1>2. /\ conn \in Connections /\ s \in Monitors /\ arrived \in Nat
      /\ at \in [Processes -> Steps] /\ my \in [Processes -> Locals]
      /\ OnTrack(s, s.pending # {}, arrived, Done)
      /\ p \in Processes
  BY Typed DEF Processes
<1>3. conn' \in Connections /\ conn'.lease = p /\ conn'.monitor = s
  BY <1>1, <1>2 DEF Connections
<1>4. begun \in Locals /\ begun.state = s /\ begun.before = s
  BY <1>2, BlankTyped DEF Locals
<1>5. Follows(s, s, Done)
  BY <1>1, <1>2, FollowsItself
<1> HIDE DEF begun
<1>6. /\ closed \in Locals /\ closed.before = s /\ closed.state.pending = s.pending
      /\ OnTrack(closed.state, s.pending # {}, arrived, Done)
      /\ Follows(closed.state, s, Done)
  BY <1>2, <1>4, <1>5, DisabledState
<1> HIDE DEF closed
<1>7. PICK a \in PollSteps, local \in Locals :
        /\ Go(p, "idle", a, local) /\ local.before = s
        /\ OnTrack(local.state, s.pending # {}, arrived, Done)
        /\ Follows(local.state, s, Done)
        /\ Listed(a, local) = (s.pending # {})
  <2>1. CASE Go(p, "idle", to, begun)
    BY <1>2, <1>4, <1>5, <2>1 DEF PollSteps, Listed
  <2>2. CASE Go(p, "idle", "save", closed)
    BY <1>6, <2>2 DEF PollSteps, Listed
  <2> QED
    BY <1>1, <2>1, <2>2
<1>8. a \in Steps /\ a \notin ImportSteps /\ a # "idle"
  BY DEF Steps, PollSteps, ImportSteps
<1>9. Done' = Done /\ acquired' = acquired
  BY <1>1 DEF Done, store
<1>10. ProcessOK(p, a, local, conn', arrived', acquired', Done')
  BY <1>1, <1>2, <1>3, <1>7, <1>8, <1>9
     DEF ProcessOK, Importing, Watching, ImportSteps
<1>11. Processed'
  BY <1>1, <1>2, <1>3, <1>7, <1>9, <1>10, MoveKeepsOrder
<1>12. at' \in [Processes -> Steps] /\ my' \in [Processes -> Locals]
  BY <1>2, <1>7, <1>8 DEF Go
<1>13. changes' \in 0..MaxChanges /\ faults' \in 0..MaxFaults /\ overrun' = overrun
  BY <1>1, Typed DEF bounds
<1> QED
  BY <1>1, <1>2, <1>3, <1>11, <1>12, <1>13, Reconnected

\* Saving stores the state of a poll that still holds its lease.
LEMMA SaveStep ==
  ASSUME MonitorInv, NEW p \in Pollers, Save(p)
  PROVE  MonitorInv'
<1> DEFINE s == my[p].state
<1>1. /\ Go(p, "save", "idle", Blank) /\ at[p] = "save"
      /\ conn' = IF StillHeld(p) THEN Connection(s) ELSE conn
      /\ arrived' = arrived /\ store' = store /\ bounds' = bounds
  BY DEF Save, Go
<1>2. /\ conn \in Connections /\ arrived \in Nat /\ p \in Processes /\ s \in Monitors
      /\ at \in [Processes -> Steps] /\ my \in [Processes -> Locals]
      /\ OnTrack(conn.monitor, conn.monitor.pending # {}, arrived, Done)
      /\ OnTrack(s, s.pending # {}, arrived, Done)
  BY <1>1, Typed, InPoll DEF Listed
<1>3. /\ conn' \in Connections
      /\ OnTrack(conn'.monitor, conn'.monitor.pending # {}, arrived, Done)
      /\ conn' = conn \/ conn'.lease = Nobody
  BY <1>1, <1>2, ConnectionTyped
<1>4. ProcessOK(p, "idle", Blank, conn', arrived', acquired', Done')
  BY IdleOK
<1>5. Done' = Done /\ acquired' = acquired
  BY <1>1 DEF Done, store
<1>6. \A q \in Processes : conn'.lease = q => conn.lease = q /\ conn'.monitor = conn.monitor
  BY <1>3, ProcessesAreDistinct DEF Processes
<1>7. Processed'
  BY <1>1, <1>2, <1>4, <1>5, <1>6, MoveKeepsOrder
<1>8. at' \in [Processes -> Steps] /\ my' \in [Processes -> Locals]
  BY <1>1, <1>2, BlankTyped DEF Go, Steps
<1>9. changes' \in 0..MaxChanges /\ faults' \in 0..MaxFaults /\ overrun' = overrun
  BY <1>1, Typed DEF bounds
<1> QED
  BY <1>1, <1>3, <1>7, <1>8, <1>9, Reconnected

\* The user starts, stops, connects or disconnects: whoever polls has lost the
\* lease.
LEMMA ChangeStep ==
  ASSUME MonitorInv, Start \/ Stop \/ Disconnect \/ Connect
  PROVE  MonitorInv'
<1>1. PICK s \in {Stopped, Started},
           c \in {Connection(Stopped), Connection(Started), NoConnection} :
         (c = Connection(s) \/ (c = NoConnection /\ s = Stopped)) /\ Change(c)
  BY DEF Start, Stop, Disconnect, Connect
<1>2. /\ conn' = c /\ arrived' = arrived /\ store' = store /\ at' = at /\ my' = my
      /\ changes < MaxChanges /\ changes' = changes + 1 /\ faults' = faults /\ overrun' = overrun
  BY <1>1 DEF Change
<1>3. /\ arrived \in Nat /\ arrived \in 0..Messages /\ changes \in 0..MaxChanges
      /\ faults \in 0..MaxFaults
      /\ at \in [Processes -> Steps] /\ my \in [Processes -> Locals]
  BY Typed
<1>4. s \in Monitors /\ s.pending = {} /\ OnTrack(s, FALSE, arrived, Done)
  BY <1>1, <1>3, FreshMonitors, Zenon
<1>5. c \in Connections /\ c.monitor = s /\ c.lease \in {Nobody, "none"}
  <2>1. CASE c = Connection(s)
    BY <1>4, <2>1, ConnectionTyped
  <2>2. CASE c = NoConnection /\ s = Stopped
    <3>1. Connection(s) \in Connections /\ Connection(s).monitor = s
      BY <1>4, ConnectionTyped
    <3>2. c = [Connection(s) EXCEPT !.lease = "none"]
      BY <2>2 DEF NoConnection
    <3> HIDE DEF Connection
    <3> QED
      BY <3>1, <3>2 DEF Connections
  <2> QED
    BY <1>1, <2>1, <2>2
<1>6. OnTrack(conn'.monitor, conn'.monitor.pending # {}, arrived, Done)
  BY <1>2, <1>4, <1>5
<1>7. \A q \in Processes : conn'.lease # q
  BY <1>2, <1>5, ProcessesAreDistinct DEF Processes
<1>8. acquired' = acquired /\ skipped' = skipped
  BY <1>2 DEF store
<1>9. Processed'
  BY <1>2, <1>3, <1>7, <1>8, RestKeepsOrder
<1>10. changes' \in 0..MaxChanges
  BY <1>2, <1>3, BoundsAreNatural
<1> QED
  BY <1>2, <1>3, <1>5, <1>6, <1>9, <1>10, Reconnected

LEMMA ArriveStep ==
  ASSUME MonitorInv, Arrive
  PROVE  MonitorInv'
<1>1. /\ arrived' = arrived + 1 /\ arrived < Messages /\ conn' = conn /\ at' = at /\ my' = my
      /\ acquired' = acquired /\ skipped' = skipped /\ imports' = imports
      /\ emails' = emails /\ jobs' = jobs /\ Done' = Done
      /\ changes' = changes /\ faults' = faults /\ overrun' = overrun
  BY DEF Arrive, store, bounds, Done
<1>2. arrived' \in 0..Messages /\ arrived' \in Nat /\ arrived <= arrived' /\ arrived \in Nat
  BY <1>1, Typed, BoundsAreNatural
<1>3. Processed'
  BY <1>1, <1>2, RestKeepsOrder
<1>4. OnTrack(conn'.monitor, conn'.monitor.pending # {}, arrived', Done')
  BY <1>1, <1>2, StoredOnTrack
<1>5. TypeOK'
  BY <1>1, <1>2 DEF MonitorInv, TypeOK
<1> QED
  BY <1>1, <1>3, <1>4, <1>5 DEF MonitorInv

LEMMA ByHandStep ==
  ASSUME MonitorInv, NEW u \in Users, NEW m \in Inbox, ImportByHand(u, m)
  PROVE  MonitorInv'
<1> DEFINE local == [Blank EXCEPT !.message = m]
<1>1. /\ m <= arrived /\ Go(u, "idle", "register", local) /\ arrived' = arrived /\ conn' = conn
      /\ store' = store /\ acquired' = acquired /\ Done' = Done
      /\ changes < MaxChanges /\ changes' = changes + 1 /\ faults' = faults /\ overrun' = overrun
  BY DEF ImportByHand, mailbox, store, Done
<1>2. local \in Locals /\ local.message = m
  BY BlankTyped, BoundsAreNatural DEF Locals, Inbox
<1> HIDE DEF local
<1>3. /\ u \in Processes /\ u \notin Pollers /\ m \in 1..arrived
  BY <1>1, Typed, ProcessesAreDistinct, BoundsAreNatural DEF Processes, Inbox
<1>4. ProcessOK(u, "register", local, conn', arrived', acquired', Done')
  BY <1>1, <1>2, <1>3 DEF ProcessOK, Importing, Watching, PollSteps
<1>5. Processed'
  BY <1>1, <1>3, <1>4, MoveKeepsOrder
<1>6. at' \in [Processes -> Steps] /\ my' \in [Processes -> Locals]
  BY <1>1, <1>2, Typed DEF Go, Steps, ImportSteps
<1>7. changes' \in 0..MaxChanges
  BY <1>1, Typed, BoundsAreNatural
<1> QED
  BY <1>1, <1>5, <1>6, <1>7, Typed, Reconnected

LEMMA CrashStep ==
  ASSUME MonitorInv, NEW p \in Processes, Crash(p)
  PROVE  MonitorInv'
<1>1. /\ Go(p, at[p], "idle", Blank) /\ arrived' = arrived /\ conn' = conn
      /\ store' = store /\ acquired' = acquired /\ Done' = Done
      /\ faults < MaxFaults /\ faults' = faults + 1 /\ changes' = changes /\ overrun' = overrun
  BY DEF Crash, Fault, mailbox, store, Done
<1>2. ProcessOK(p, "idle", Blank, conn', arrived', acquired', Done')
  BY IdleOK
<1>3. Processed'
  BY <1>1, <1>2, MoveKeepsOrder
<1>4. at' \in [Processes -> Steps] /\ my' \in [Processes -> Locals]
  BY <1>1, Typed, BlankTyped DEF Go, Steps
<1>5. faults' \in 0..MaxFaults
  BY <1>1, Typed, BoundsAreNatural
<1> QED
  BY <1>1, <1>3, <1>4, <1>5, Typed, Reconnected

LEMMA PollLeaseStep ==
  ASSUME MonitorInv, PollLeaseRunsOut
  PROVE  MonitorInv'
<1>1. /\ conn' = [conn EXCEPT !.over = TRUE] /\ arrived' = arrived /\ store' = store
      /\ at' = at /\ my' = my /\ acquired' = acquired /\ skipped' = skipped
  BY DEF PollLeaseRunsOut, store
<1>2. conn' \in Connections /\ conn'.lease = conn.lease /\ conn'.monitor = conn.monitor
  BY <1>1, Typed DEF Connections
<1>3. changes' \in 0..MaxChanges /\ faults' \in 0..MaxFaults /\ overrun' = overrun
  BY Typed, BoundsAreNatural DEF PollLeaseRunsOut, Fault, bounds
<1>4. Processed'
  BY <1>1, <1>2, Typed, RestKeepsOrder
<1> QED
  BY <1>1, <1>2, <1>3, <1>4, Typed, Reconnected

\* The lease of an import runs out, or retention takes an imported email.
LEMMA RowStep ==
  ASSUME MonitorInv, NEW m \in Inbox, LeaseRunsOut(m) \/ Expire(m)
  PROVE  MonitorInv'
<1>1. /\ arrived' = arrived /\ conn' = conn /\ at' = at /\ my' = my
      /\ acquired' = acquired /\ skipped' = skipped
  BY DEF LeaseRunsOut, Expire, mailbox
<1>2. Processed'
  BY <1>1, Typed, RestKeepsOrder
<1>3. OnTrack(conn'.monitor, conn'.monitor.pending # {}, arrived', Done')
  BY <1>1, Typed DEF Done
<1>4. /\ imports' \in [Inbox -> ImportRows] /\ emails' \in [Inbox -> Nat]
      /\ jobs' \in [Inbox -> Nat] /\ Handled'
  <2>1. CASE LeaseRunsOut(m)
    <3>1. imports' = [imports EXCEPT ![m] = [imports[m] EXCEPT !.over = TRUE]]
      BY <2>1, Typed DEF LeaseRunsOut, ImportRows
    <3>2. emails' = emails /\ jobs' = jobs
      BY <2>1 DEF LeaseRunsOut
    <3>3. /\ [imports[m] EXCEPT !.over = TRUE] \in ImportRows
          /\ [imports[m] EXCEPT !.over = TRUE].completed = imports[m].completed
      BY Typed DEF ImportRows
    <3> QED
      BY <1>1, <3>1, <3>2, <3>3, Typed DEF Handled
  <2>2. CASE Expire(m)
    BY <1>1, <2>2, Typed DEF Expire, Handled
  <2> QED
    BY <2>1, <2>2
<1>5. changes' \in 0..MaxChanges /\ faults' \in 0..MaxFaults /\ overrun' \subseteq Inbox
  BY Typed, BoundsAreNatural DEF LeaseRunsOut, Expire, bounds, MonitorInv, TypeOK
<1>6. TypeOK'
  BY <1>1, <1>4, <1>5 DEF MonitorInv, TypeOK, ImportRows
<1> QED
  BY <1>1, <1>2, <1>3, <1>4, <1>6, Typed DEF MonitorInv, Handled

----------------------------------------------------------------------------
(* The invariant, and the refinement. *)

\* Every step keeps the invariant.
LEMMA MonitorStep == MonitorInv /\ [Next]_vars => MonitorInv'
<1> SUFFICES ASSUME MonitorInv, [Next]_vars PROVE MonitorInv'
  OBVIOUS
<1>1. CASE Arrive
  BY <1>1, ArriveStep
<1>2. CASE Start \/ Stop \/ Disconnect \/ Connect
  BY <1>2, ChangeStep
<1>3. CASE PollLeaseRunsOut
  BY <1>3, PollLeaseStep
<1>4. CASE \E m \in Inbox : LeaseRunsOut(m) \/ Expire(m)
  BY <1>4, RowStep
<1>5. CASE \E p \in Processes : Import(p)
  BY <1>5, RegisterStep, ClaimStep, FindStep, AcquireStep, EndStep DEF Import
<1>6. CASE \E p \in Processes : Crash(p)
  BY <1>6, CrashStep
<1>7. CASE \E p \in Pollers : Watch(p) \/ Late(p)
  BY <1>7, PollStep, HistoryStep, NextMessageStep, PageEndStep, SaveStep DEF Watch
<1>8. CASE \E u \in Users, m \in Inbox : ImportByHand(u, m)
  BY <1>8, ByHandStep
<1>9. CASE UNCHANGED vars
  <2>1. /\ arrived' = arrived /\ conn' = conn /\ imports' = imports /\ emails' = emails
        /\ jobs' = jobs /\ acquired' = acquired /\ skipped' = skipped /\ at' = at /\ my' = my
        /\ changes' = changes /\ faults' = faults /\ overrun' = overrun /\ Done' = Done
    BY <1>9 DEF vars, mailbox, store, bounds, Done
  <2> QED
    BY <2>1 DEF MonitorInv, TypeOK, Processed
<1> QED
  BY <1>1, <1>2, <1>3, <1>4, <1>5, <1>6, <1>7, <1>8, <1>9 DEF Next

\* Type correctness of the monitor, for every number of messages, processes
\* and faults.
THEOREM MonitorTypeCorrect == Spec => []TypeOK
<1>1. MonitorInv => TypeOK
  BY DEF MonitorInv
<1> QED
  BY <1>1, MonitorInit, MonitorStep, PTL DEF Spec

\* The watch that the abstract specification sees.
Seen(monitor) ==
    IF monitor.enabled THEN [on |-> TRUE, since |-> monitor.since, upto |-> monitor.cursor]
    ELSE [on |-> FALSE, since |-> 0, upto |-> 0]

LEMMA InitRefines == Init => Delivery!Init
<1> SUFFICES ASSUME Init PROVE Delivery!Init
  OBVIOUS
<1>1. arrived = 0 /\ Done = {}
  BY DEF Init, Done
<1>2. Seen(conn.monitor) \in [on : BOOLEAN, since : {0}, upto : {0}]
  <2>1. conn.monitor \in {Monitor(FALSE, 0), Monitor(TRUE, 0)}
    <3>1. conn = Connection(Monitor(FALSE, 0)) \/ conn = Connection(Monitor(TRUE, 0))
      BY <1>1, Zenon DEF Init, Stopped, Started
    <3>2. \A s : Connection(s).monitor = s
      BY DEF Connection
    <3> QED
      BY <3>1, <3>2, Zenon
  <2> QED
    BY <2>1 DEF Seen, Monitor
<1> QED
  BY <1>1, <1>2 DEF Delivery!Init, Seen, Done

\* A step of an import handles at most the message it is about.
LEMMA ImportRefines ==
  ASSUME MonitorInv, NEW p \in Processes, Import(p)
  PROVE  [Delivery!Next]_Delivery!vars
<1> DEFINE m == my[p].message
<1>1. at[p] \in ImportSteps /\ arrived' = arrived /\ conn' = conn
  BY DEF Import, Register, Claim, Find, Fetch, InsertEmail, InsertJob, Mark, Release, Step, Go,
         ImportSteps, mailbox, store
<1>2. m \in 1..arrived
  BY <1>1, InImport
<1>3. \A from, code : Goes(p, from, code) => skipped' \in {skipped, skipped \cup {m}}
  BY DEF Goes
<1>4. Done' = Done \/ Done' = Done \cup {m}
  <2>1. CASE Register(p) \/ Claim(p) \/ Mark(p) \/ Release(p)
    BY <1>3, <2>1 DEF Register, Claim, Mark, Release, Done
  <2>2. CASE Find(p) \/ Fetch(p) \/ InsertJob(p)
    BY <2>2 DEF Find, Fetch, InsertJob, Done, store
  <2>3. CASE InsertEmail(p)
    BY <2>3 DEF InsertEmail, Done
  <2> QED
    BY <2>1, <2>2, <2>3 DEF Import
<1>5. CASE Done' = Done
  BY <1>1, <1>5 DEF Delivery!vars, Done
<1>6. CASE Done' = Done \cup {m}
  <2>1. Delivery!Handle(m)
    BY <1>1, <1>6 DEF Delivery!Handle, Done
  <2> QED
    BY <1>2, <2>1 DEF Delivery!Next
<1> QED
  BY <1>4, <1>5, <1>6

LEMMA UptoReplaced ==
  ASSUME NEW w \in [on : BOOLEAN, since : Nat, upto : Nat],
         NEW v \in [on : BOOLEAN, since : Nat, upto : Nat],
         v.on = w.on, v.since = w.since
  PROVE  v = [w EXCEPT !.upto = v.upto]
  OBVIOUS

\* A poll that saves advances the cursor over handled messages, or ends the
\* watch.
LEMMA SaveRefines ==
  ASSUME MonitorInv, NEW p \in Pollers, Save(p)
  PROVE  [Delivery!Next]_Delivery!vars
<1> DEFINE s == my[p].state
<1> DEFINE b == conn.monitor
<1>1. /\ at[p] = "save" /\ arrived' = arrived /\ Done' = Done
      /\ conn' = IF StillHeld(p) THEN Connection(s) ELSE conn
  BY DEF Save, Go, store, Done
<1>2. CASE ~StillHeld(p)
  BY <1>1, <1>2 DEF Delivery!vars, Done
<1>3. CASE StillHeld(p)
  <2>1. conn'.monitor = s
    BY <1>1, <1>3 DEF Connection
  <2>2. /\ b.enabled /\ Follows(s, b, Done) /\ s \in Monitors /\ b \in Monitors
        /\ s.cursor <= From(s) /\ From(s) <= arrived /\ arrived \in Nat
    BY <1>1, <1>3, InPoll, Typed DEF StillHeld, OnTrack
  <2>3. CASE ~s.enabled
    <3>1. Delivery!End
      BY <1>1, <2>1, <2>3 DEF Delivery!End, Delivery!Off, Done
    <3> QED
      BY <3>1 DEF Delivery!Next
  <2>4. CASE s.enabled
    <3>1. s.cursor \in b.cursor..arrived /\ s.cursor \in 0..arrived
      BY <2>2, BoundsAreNatural DEF Monitors, Follows, From
    <3>2. \A m \in (b.cursor + 1)..s.cursor : m \in Done
      BY <2>2, BoundsAreNatural DEF Monitors, Follows, Inbox
    <3>3. Seen(b) = [on |-> TRUE, since |-> b.since, upto |-> b.cursor]
      BY <2>2 DEF Seen
    <3>4. Seen(conn'.monitor) = [Seen(b) EXCEPT !.upto = s.cursor]
      <4>1. Seen(s) = [on |-> TRUE, since |-> b.since, upto |-> s.cursor]
        BY <2>2, <2>4 DEF Seen, Follows
      <4> DEFINE w == Seen(b)
      <4> DEFINE v == Seen(s)
      <4>2. /\ w \in [on : BOOLEAN, since : Nat, upto : Nat]
            /\ v \in [on : BOOLEAN, since : Nat, upto : Nat]
            /\ v.on = w.on /\ v.since = w.since /\ v.upto = s.cursor
        BY <2>2, <3>3, <4>1, BoundsAreNatural DEF Monitors
      <4> HIDE DEF w, v
      <4>3. v = [w EXCEPT !.upto = s.cursor]
        BY <4>2, UptoReplaced
      <4> QED
        BY <2>1, <4>3 DEF w, v
    <3>5. Delivery!Advance(s.cursor)
      BY <1>1, <3>1, <3>2, <3>3, <3>4 DEF Delivery!Advance, Seen, Done
    <3> QED
      BY <3>1, <3>5 DEF Delivery!Next
  <2> QED
    BY <2>3, <2>4
<1> QED
  BY <1>2, <1>3

\* What the user does begins or ends a watch.
LEMMA ChangeRefines ==
  ASSUME MonitorInv, Start \/ Stop \/ Disconnect \/ Connect
  PROVE  [Delivery!Next]_Delivery!vars
<1>1. arrived' = arrived /\ Done' = Done
  BY DEF Start, Stop, Disconnect, Connect, Change, store, Done
<1>2. CASE Start
  <2>1. conn'.monitor = Monitor(TRUE, arrived)
    BY <1>2 DEF Start, Change, Connection, Started
  <2>2. Delivery!Begin
    BY <1>1, <2>1 DEF Delivery!Begin, Monitor, Done
  <2> QED
    BY <2>2 DEF Delivery!Next
<1>3. CASE Stop \/ Disconnect \/ Connect
  <2>1. ~conn'.monitor.enabled
    BY <1>3 DEF Stop, Disconnect, Connect, Change, NoConnection, Connection, Stopped, Monitor
  <2>2. Delivery!End
    BY <1>1, <2>1 DEF Delivery!End, Delivery!Off, Done
  <2> QED
    BY <2>2 DEF Delivery!Next
<1> QED
  BY <1>2, <1>3

LEMMA StepRefines == MonitorInv /\ [Next]_vars => [Delivery!Next]_Delivery!vars
<1> SUFFICES ASSUME MonitorInv, [Next]_vars PROVE [Delivery!Next]_Delivery!vars
  OBVIOUS
<1>1. CASE Arrive
  <2>1. Delivery!Arrive
    BY <1>1 DEF Arrive, Delivery!Arrive, store
  <2> QED
    BY <2>1 DEF Delivery!Next
<1>2. CASE Start \/ Stop \/ Disconnect \/ Connect
  BY <1>2, ChangeRefines
<1>3. CASE \E p \in Processes : Import(p)
  BY <1>3, ImportRefines
<1>4. CASE \E p \in Pollers : Save(p)
  BY <1>4, SaveRefines
<1>5. ASSUME arrived' = arrived, conn'.monitor = conn.monitor, Done' = Done
      PROVE  [Delivery!Next]_Delivery!vars
  BY <1>5 DEF Delivery!vars, Done
<1>6. CASE PollLeaseRunsOut \/ \E p \in Pollers : Poll(p)
  <2>1. conn'.monitor = conn.monitor
    BY <1>6, Typed DEF PollLeaseRunsOut, Poll, Connections
  <2> QED
    BY <1>5, <1>6, <2>1 DEF PollLeaseRunsOut, Poll, store, Done
<1>7. CASE \E m \in Inbox : LeaseRunsOut(m) \/ Expire(m)
  BY <1>5, <1>7 DEF LeaseRunsOut, Expire, mailbox, Done
<1>8. CASE \E p \in Processes : Crash(p)
  BY <1>5, <1>8 DEF Crash, mailbox, store, Done
<1>9. CASE \E p \in Pollers : History(p) \/ NextMessage(p) \/ TurnPage(p) \/ Late(p)
  BY <1>5, <1>9 DEF History, NextMessage, TurnPage, Late, mailbox, store, Done
<1>10. CASE \E u \in Users, m \in Inbox : ImportByHand(u, m)
  BY <1>5, <1>10 DEF ImportByHand, mailbox, store, Done
<1>11. CASE UNCHANGED vars
  BY <1>5, <1>11 DEF vars, mailbox, store, Done
<1> QED
  BY <1>1, <1>2, <1>3, <1>4, <1>6, <1>7, <1>8, <1>9, <1>10, <1>11 DEF Next, Watch

\* The monitor implements MailboxDelivery: through pages, errors, crashes, lost
\* leases and everything the user does, the stored cursor passes a message only
\* when that was imported or recorded as skipped (mailbox_monitor.py:135-161).
THEOREM MonitorDelivers == Spec => Delivers
<1> QED
  BY InitRefines, MonitorInit, MonitorStep, StepRefines, PTL DEF Spec, Delivers, Delivery!Spec

----------------------------------------------------------------------------
(***************************************************************************)
(* Imports of messages are exclusive, and what they leave behind is whole: *)
(* one email per message and a job for it, unless the lease of the message *)
(* once ran out under a holder still at work.                              *)
(*                                                                         *)
(* The argument: such a message has at most one process between its claim  *)
(* and its release, the one its lease names. That process fetches only     *)
(* when there is no email, so it inserts the first; it marks the import    *)
(* complete only when there is a job.                                      *)
(***************************************************************************)

HoldSteps == {"find", "fetch", "email", "job", "mark", "release"}

\* What a holder of message m may rely on.
Holds(p, m) ==
    Holding(p, m) =>
        /\ imports[m].lease = p /\ ~imports[m].over /\ ~imports[m].completed
        /\ at[p] \in {"fetch", "email"} => emails[m] = 0
        /\ at[p] = "mark" => jobs[m] > 0

ImportInv ==
    \A m \in Inbox \ overrun :
        /\ emails[m] <= 1
        /\ imports[m].completed => (jobs[m] > 0 \/ emails[m] = 0)
        /\ \A p \in Processes : Holds(p, m)

LEMMA ImportInit == Init => ImportInv
  BY DEF Init, ImportInv, Holds, Holding, Unclaimed

\* A step that writes no import, and in which nobody begins to hold a message
\* or goes on with one.
LEMMA OthersStep ==
  ASSUME MonitorInv, ImportInv,
         imports' = imports, emails' = emails, jobs' = jobs, overrun \subseteq overrun',
         \A p \in Processes : (at'[p] = at[p] /\ my'[p] = my[p]) \/ at'[p] \notin HoldSteps
  PROVE  ImportInv'
  BY DEF ImportInv, Holds, Holding, HoldSteps

\* A process that goes to a step where it holds nothing.
LEMMA MovedAway ==
  ASSUME MonitorInv, NEW p \in Processes, NEW from, NEW to, NEW local,
         Go(p, from, to, local), to \notin HoldSteps
  PROVE  \A q \in Processes : (at'[q] = at[q] /\ my'[q] = my[q]) \/ at'[q] \notin HoldSteps
  BY Typed DEF Go

LEMMA GoesAway ==
  ASSUME MonitorInv, NEW p \in Processes, NEW from, NEW code, Goes(p, from, code)
  PROVE  \A q \in Processes : (at'[q] = at[q] /\ my'[q] = my[q]) \/ at'[q] \notin HoldSteps
<1>1. PICK to \in {"idle", "save", "next"} : \E local : Go(p, from, to, local)
  BY DEF Goes
<1> QED
  BY <1>1, MovedAway DEF HoldSteps

\* A process that is given what it needs to know when it goes on with its own
\* message, which no other process holds.
LEMMA HolderStep ==
  ASSUME MonitorInv, ImportInv, NEW p \in Processes, NEW m \in Inbox,
         \A q \in Processes \ {p} : at'[q] = at[q] /\ my'[q] = my[q],
         \A o \in Inbox \ {m} : imports'[o] = imports[o] /\ emails'[o] = emails[o] /\ jobs'[o] = jobs[o],
         at'[p] \in HoldSteps => my'[p].message = m,
         overrun' = overrun,
         m \notin overrun =>
            /\ \A q \in Processes \ {p} : ~Holding(q, m)
            /\ emails'[m] <= 1
            /\ imports'[m].completed => (jobs'[m] > 0 \/ emails'[m] = 0)
            /\ Holds(p, m)'
  PROVE  ImportInv'
<1> SUFFICES ASSUME NEW o \in Inbox \ overrun
             PROVE  /\ emails'[o] <= 1
                    /\ imports'[o].completed => (jobs'[o] > 0 \/ emails'[o] = 0)
                    /\ \A q \in Processes : Holds(q, o)'
  BY DEF ImportInv
<1>1. CASE o = m
  <2>1. \A q \in Processes \ {p} : ~Holding(q, m)'
    BY <1>1 DEF Holding
  <2> QED
    BY <1>1, <2>1 DEF Holds
<1>2. CASE o # m
  <2>1. ~Holding(p, o)'
    BY <1>2 DEF Holding, HoldSteps
  <2>2. \A q \in Processes \ {p} : Holds(q, o)'
    BY <1>2 DEF ImportInv, Holds, Holding
  <2> QED
    BY <1>2, <2>1, <2>2 DEF ImportInv, Holds
<1> QED
  BY <1>1, <1>2

\* Only the process that the lease names holds a message.
LEMMA Exclusive ==
  ASSUME ImportInv, NEW p \in Processes, NEW m \in Inbox \ overrun, Holding(p, m)
  PROVE  \A q \in Processes \ {p} : ~Holding(q, m)
  BY DEF ImportInv, Holds

LEMMA ClaimKeeps ==
  ASSUME MonitorInv, ImportInv, NEW p \in Processes, Claim(p)
  PROVE  ImportInv'
<1>1. /\ at[p] = "claim" /\ emails' = emails /\ jobs' = jobs /\ overrun' = overrun
  BY DEF Claim, bounds
<1>2. PICK m \in Inbox :
      /\ m = my[p].message /\ imports \in [Inbox -> ImportRows] /\ my \in [Processes -> Locals]
      /\ at \in [Processes -> Steps]
  BY <1>1, InImport, Typed DEF ImportSteps
<1>3. CASE Free(imports[m])
  <2>1. /\ imports' = [imports EXCEPT ![m] = Unclaimed(p)] /\ ~imports[m].completed
        /\ imports[m].lease = Nobody \/ imports[m].over
        /\ at' = [at EXCEPT ![p] = "find"] /\ my' = [my EXCEPT ![p] = my[p]]
    BY <1>2, <1>3 DEF Claim, Free, Step, Go
  <2>2. m \notin overrun => \A q \in Processes : ~Holding(q, m)
    BY <1>2, <2>1, ProcessesAreDistinct DEF ImportInv, Holds, Processes
  <2>3. /\ imports'[m].lease = p /\ ~imports'[m].over /\ ~imports'[m].completed
        /\ at'[p] = "find" /\ my'[p] = my[p]
    BY <1>2, <2>1 DEF Unclaimed
  <2>4. Holds(p, m)'
    BY <2>3 DEF Holds
  <2> QED
    BY <1>1, <1>2, <2>1, <2>2, <2>3, <2>4, HolderStep DEF ImportInv
<1>4. CASE ~Free(imports[m])
  <2>1. imports' = imports /\ Goes(p, "claim", "error")
    BY <1>2, <1>4 DEF Claim
  <2> QED
    BY <1>1, <2>1, GoesAway, OthersStep
<1> QED
  BY <1>3, <1>4

\* The recovery goes straight to the job or the mark when there is an email.
LEMMA FindKeeps ==
  ASSUME MonitorInv, ImportInv, NEW p \in Processes, Find(p) \/ Fetch(p)
  PROVE  ImportInv'
<1>1. /\ at[p] \in {"find", "fetch"} /\ imports' = imports /\ emails' = emails /\ jobs' = jobs
      /\ overrun' = overrun
  BY DEF Find, Fetch, Step, Go, Fault, bounds, store
<1>2. PICK m \in Inbox :
      /\ m = my[p].message /\ emails \in [Inbox -> Nat] /\ jobs \in [Inbox -> Nat]
      /\ my \in [Processes -> Locals] /\ at \in [Processes -> Steps] /\ my[p] \in Locals
  BY <1>1, InImport, Typed DEF ImportSteps
<1>3. Holding(p, m)
  BY <1>1, <1>2 DEF Holding
<1>4. /\ \A q \in Processes \ {p} : at'[q] = at[q] /\ my'[q] = my[q]
      /\ my'[p].message = m
      /\ Find(p) => at'[p] = Recover(m)
      /\ Fetch(p) => at[p] = "fetch" /\ at'[p] \in {"email", "release"}
  BY <1>2 DEF Find, Fetch, Step, Go, Locals
<1>5. m \notin overrun => Holds(p, m)'
  <2> SUFFICES ASSUME m \notin overrun, Holding(p, m)'
               PROVE  /\ imports'[m].lease = p /\ ~imports'[m].over /\ ~imports'[m].completed
                      /\ at'[p] \in {"fetch", "email"} => emails'[m] = 0
                      /\ at'[p] = "mark" => jobs'[m] > 0
    BY DEF Holds
  <2>1. /\ imports[m].lease = p /\ ~imports[m].over /\ ~imports[m].completed
        /\ at[p] \in {"fetch", "email"} => emails[m] = 0
    BY <1>2, <1>3 DEF ImportInv, Holds
  <2>2. CASE Find(p)
    <3>1. emails[m] \in Nat /\ jobs[m] \in Nat
      BY <1>2
    <3>2. /\ Recover(m) \in {"fetch", "job", "mark"}
          /\ Recover(m) = "fetch" => emails[m] = 0
          /\ Recover(m) = "mark" => jobs[m] > 0
      BY <3>1 DEF Recover
    <3> QED
      BY <1>1, <1>4, <2>1, <2>2, <3>2
  <2>3. CASE Fetch(p)
    BY <1>1, <1>4, <2>1, <2>3
  <2> QED
    BY <2>2, <2>3
<1> QED
  BY <1>1, <1>2, <1>3, <1>4, <1>5, Exclusive, HolderStep DEF ImportInv

\* The first email, and its job.
LEMMA AcquireKeeps ==
  ASSUME MonitorInv, ImportInv, NEW p \in Processes, InsertEmail(p) \/ InsertJob(p)
  PROVE  ImportInv'
<1>1. at[p] \in {"email", "job"} /\ imports' = imports /\ overrun' = overrun
  BY DEF InsertEmail, InsertJob, Step, Go, bounds
<1>2. PICK m \in Inbox :
      /\ m = my[p].message /\ emails \in [Inbox -> Nat] /\ jobs \in [Inbox -> Nat]
      /\ my \in [Processes -> Locals] /\ at \in [Processes -> Steps]
  BY <1>1, InImport, Typed DEF ImportSteps
<1>3. Holding(p, m)
  BY <1>1, <1>2 DEF Holding
<1>4. m \notin overrun =>
         /\ imports[m].lease = p /\ ~imports[m].over /\ ~imports[m].completed
         /\ at[p] = "email" => emails[m] = 0
         /\ emails[m] <= 1
  BY <1>2, <1>3 DEF ImportInv, Holds
<1>5. CASE InsertEmail(p)
  <2>1. /\ at[p] = "email" /\ at' = [at EXCEPT ![p] = "job"] /\ my' = [my EXCEPT ![p] = my[p]]
        /\ emails' = [emails EXCEPT ![m] = @ + 1] /\ jobs' = jobs
    BY <1>2, <1>5 DEF InsertEmail, Step, Go
  <2>2. m \notin overrun => emails'[m] <= 1 /\ Holds(p, m)'
    BY <1>1, <1>2, <1>4, <2>1 DEF Holds
  <2> QED
    BY <1>1, <1>2, <1>3, <1>4, <2>1, <2>2, Exclusive, HolderStep
<1>6. CASE InsertJob(p)
  <2>1. /\ at' = [at EXCEPT ![p] = "mark"] /\ my' = [my EXCEPT ![p] = my[p]]
        /\ jobs' = [jobs EXCEPT ![m] = @ + 1] /\ emails' = emails
    BY <1>2, <1>6 DEF InsertJob, Step, Go
  <2>2. m \notin overrun => Holds(p, m)'
    BY <1>1, <1>2, <1>4, <2>1 DEF Holds
  <2> QED
    BY <1>1, <1>2, <1>3, <1>4, <2>1, <2>2, Exclusive, HolderStep
<1> QED
  BY <1>5, <1>6

\* The end: complete with a job, or released.
LEMMA EndKeeps ==
  ASSUME MonitorInv, ImportInv, NEW p \in Processes, Mark(p) \/ Release(p)
  PROVE  ImportInv'
<1>1. /\ at[p] \in {"mark", "release"} /\ emails' = emails /\ jobs' = jobs /\ overrun' = overrun
  BY DEF Mark, Release, bounds
<1>2. PICK m \in Inbox :
      /\ m = my[p].message /\ imports \in [Inbox -> ImportRows]
      /\ my \in [Processes -> Locals] /\ at \in [Processes -> Steps]
  BY <1>1, InImport, Typed DEF ImportSteps
<1>3. Holding(p, m)
  BY <1>1, <1>2 DEF Holding
<1>4. PICK to \in {"idle", "save", "next"} : \E local :
         at' = [at EXCEPT ![p] = to] /\ my' = [my EXCEPT ![p] = local]
  BY DEF Mark, Release, Goes, Go
<1>5. at'[p] \notin HoldSteps /\ \A q \in Processes \ {p} : at'[q] = at[q] /\ my'[q] = my[q]
  BY <1>2, <1>4 DEF HoldSteps
<1>6. Holds(p, m)'
  BY <1>5 DEF Holds, Holding, HoldSteps
<1>7. /\ \A o \in Inbox \ {m} : imports'[o] = imports[o]
      /\ imports'[m].completed => imports[m].completed \/ at[p] = "mark"
  <2>1. ~Unclaimed(Nobody).completed
    BY DEF Unclaimed
  <2>2. CASE Mark(p)
    BY <1>2, <2>2 DEF Mark
  <2>3. CASE Release(p)
    BY <1>2, <2>1, <2>3 DEF Release
  <2> QED
    BY <2>2, <2>3
<1>8. m \notin overrun => /\ emails'[m] <= 1
                          /\ imports'[m].completed => (jobs'[m] > 0 \/ emails'[m] = 0)
  BY <1>1, <1>2, <1>3, <1>7 DEF ImportInv, Holds
<1>9. m \notin overrun => \A q \in Processes \ {p} : ~Holding(q, m)
  BY <1>2, <1>3, Exclusive
<1>10. \A o \in Inbox \ {m} :
          imports'[o] = imports[o] /\ emails'[o] = emails[o] /\ jobs'[o] = jobs[o]
  BY <1>1, <1>7
<1> QED
  BY <1>1, <1>2, <1>5, <1>6, <1>8, <1>9, <1>10, HolderStep

\* A lease runs out: under its holder the message is overrun, else nobody holds
\* it. Retention takes only what is complete, which nobody holds.
LEMMA RowKeeps ==
  ASSUME MonitorInv, ImportInv, NEW m \in Inbox, LeaseRunsOut(m) \/ Expire(m)
  PROVE  ImportInv'
<1>1. at' = at /\ my' = my /\ overrun \subseteq overrun'
  BY DEF LeaseRunsOut, Expire, bounds
<1>2. CASE LeaseRunsOut(m)
  <2>1. /\ imports' = [imports EXCEPT ![m] = [imports[m] EXCEPT !.over = TRUE]]
        /\ emails' = emails /\ jobs' = jobs
        /\ m \notin overrun' => ~Holding(imports[m].lease, m)
    BY <1>2, Typed DEF LeaseRunsOut, ImportRows
  <2>2. m \notin overrun' => \A p \in Processes : ~Holding(p, m)
    BY <1>1, <2>1 DEF ImportInv, Holds
  <2>3. \A p \in Processes, o \in Inbox : Holding(p, o)' = Holding(p, o)
    BY <1>1 DEF Holding
  <2>4. /\ \A o \in Inbox \ {m} : imports'[o] = imports[o]
        /\ imports'[m].completed = imports[m].completed
    BY <2>1, Typed DEF ImportRows
  <2> QED
    BY <1>1, <2>1, <2>2, <2>3, <2>4 DEF ImportInv, Holds
<1>3. CASE Expire(m)
  <2>1. /\ imports[m].completed /\ imports' = imports
        /\ emails' = [emails EXCEPT ![m] = 0] /\ jobs' = [jobs EXCEPT ![m] = 0]
        /\ overrun' = overrun
    BY <1>3 DEF Expire
  <2>2. m \notin overrun => \A p \in Processes : ~Holding(p, m)
    BY <2>1 DEF ImportInv, Holds
  <2>3. \A p \in Processes, o \in Inbox : Holding(p, o)' = Holding(p, o)
    BY <1>1 DEF Holding
  <2>4. /\ emails'[m] = 0
        /\ \A o \in Inbox \ {m} : emails'[o] = emails[o] /\ jobs'[o] = jobs[o]
    BY <2>1, Typed
  <2> QED
    BY <1>1, <2>1, <2>2, <2>3, <2>4 DEF ImportInv, Holds
<1> QED
  BY <1>2, <1>3

LEMMA ImportStep == MonitorInv /\ ImportInv /\ [Next]_vars => ImportInv'
<1> SUFFICES ASSUME MonitorInv, ImportInv, [Next]_vars PROVE ImportInv'
  OBVIOUS
<1>1. CASE \/ Arrive \/ Start \/ Stop \/ Disconnect \/ Connect \/ PollLeaseRunsOut
           \/ UNCHANGED vars
  <2>1. /\ imports' = imports /\ emails' = emails /\ jobs' = jobs /\ overrun' = overrun
        /\ at' = at /\ my' = my
    BY <1>1 DEF Arrive, Start, Stop, Disconnect, Connect, Change, PollLeaseRunsOut, Fault,
                vars, store, bounds
  <2> QED
    BY <2>1, OthersStep
<1>2. CASE \E m \in Inbox : LeaseRunsOut(m) \/ Expire(m)
  BY <1>2, RowKeeps
<1>3. CASE \E p \in Processes : Register(p)
  <2>1. PICK p \in Processes : Register(p)
    BY <1>3
  <2>2. /\ imports' = imports /\ emails' = emails /\ jobs' = jobs /\ overrun' = overrun
        /\ \/ \E code : Goes(p, "register", code)
           \/ Go(p, "register", "claim", my[p])
    BY <2>1 DEF Register, Step, bounds
  <2>3. "claim" \notin HoldSteps
    BY DEF HoldSteps
  <2> QED
    BY <2>2, <2>3, GoesAway, MovedAway, OthersStep
<1>4. CASE \E p \in Processes : Import(p) /\ ~Register(p)
  BY <1>4, ClaimKeeps, FindKeeps, AcquireKeeps, EndKeeps DEF Import
<1>5. CASE \E p \in Processes : Crash(p)
  <2>1. PICK p \in Processes : Crash(p)
    BY <1>5
  <2>2. /\ imports' = imports /\ emails' = emails /\ jobs' = jobs /\ overrun' = overrun
        /\ Go(p, at[p], "idle", Blank) /\ "idle" \notin HoldSteps
    BY <2>1 DEF Crash, Fault, store, HoldSteps
  <2> QED
    BY <2>2, MovedAway, OthersStep
<1>6. CASE \E p \in Pollers : Watch(p) \/ Late(p)
  <2>1. PICK p \in Pollers : Watch(p) \/ Late(p)
    BY <1>6
  <2>2. PICK to \in {"history", "next", "save", "register", "idle"} :
           \E from, local : Go(p, from, to, local)
    BY <2>1, Zenon DEF Watch, Poll, History, NextMessage, TurnPage, Late, Save, Step
  <2>3. /\ imports' = imports /\ emails' = emails /\ jobs' = jobs /\ overrun' = overrun
        /\ p \in Processes /\ to \notin HoldSteps
    BY <2>1, <2>2 DEF Watch, Poll, History, NextMessage, TurnPage, Late, Save, Fault, store,
                      bounds, Processes, HoldSteps
  <2> QED
    BY <2>2, <2>3, MovedAway, OthersStep
<1>7. CASE \E u \in Users, m \in Inbox : ImportByHand(u, m)
  <2>1. PICK u \in Users, m \in Inbox : ImportByHand(u, m)
    BY <1>7
  <2>2. /\ imports' = imports /\ emails' = emails /\ jobs' = jobs /\ overrun' = overrun
        /\ Go(u, "idle", "register", [Blank EXCEPT !.message = m])
        /\ u \in Processes /\ "register" \notin HoldSteps
    BY <2>1 DEF ImportByHand, store, Processes, HoldSteps
  <2> QED
    BY <2>2, MovedAway, OthersStep
<1> QED
  BY <1>1, <1>2, <1>3, <1>4, <1>5, <1>6, <1>7 DEF Next

\* A message becomes one email, also across crashes and retries
\* (mailbox_monitor.py:39-57).
THEOREM OneEmailPerMessage == Spec => []NoDuplicates
<1>1. ImportInv => NoDuplicates
  BY DEF ImportInv, NoDuplicates
<1> QED
  BY <1>1, MonitorInit, MonitorStep, ImportInit, ImportStep, PTL DEF Spec

\* A complete import has left an email with a job (mailbox_monitor.py:49-72).
THEOREM CompleteImportIsQueued == Spec => []ImportsAreQueued
<1>1. ImportInv => ImportsAreQueued
  BY DEF ImportInv, ImportsAreQueued
<1> QED
  BY <1>1, MonitorInit, MonitorStep, ImportInit, ImportStep, PTL DEF Spec
=============================================================================
