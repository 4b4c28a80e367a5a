----------------------------- MODULE GmailMonitor -----------------------------
(***************************************************************************)
(* One user's monitored Gmail mailbox: the scheduler processes that poll   *)
(* its history under a lease (integrations/mailbox_monitor.py), imports by *)
(* hand of the same messages (routes/gmail.py), and the user who starts,   *)
(* stops and reconnects. Messages are numbered in the order of the         *)
(* mailbox's history, so a history cursor is the number of messages it has *)
(* seen and a page token the number it continues after.                    *)
(*                                                                         *)
(* Time only decides what may happen: a poll may always be due, and a      *)
(* lease may run out whether its holder is gone or merely slow.            *)
(***************************************************************************)
EXTENDS Integers, FiniteSets

CONSTANTS
    Messages,               \* bound: messages that arrive
    PageSize,               \* maxResults of a history page
    Pollers, Users,         \* scheduler processes; imports by hand
    MaxChanges,             \* bound: starts, stops, (dis)connections
    MaxFaults,              \* bound: crashes, failed calls, late polls
    Nobody

ASSUME BoundsAreNatural ==
    {Messages, MaxChanges, MaxFaults} \subseteq Nat /\ PageSize \in Nat \ {0}
ASSUME ProcessesAreDistinct ==
    Pollers \cap Users = {} /\ {Nobody, "none"} \cap (Pollers \cup Users) = {}

VARIABLES
    arrived,    \* messages in the Gmail inbox
    conn,       \* db.gmail_connections, with its monitor and its lease
    imports,    \* db.gmail_imports
    emails, jobs,   \* how many emails and jobs each message has
    acquired,   \* messages acquired at some time (audit log)
    skipped,    \* messages skipped by the monitor (audit log)
    at, my,     \* each process's next step, and its local variables
    changes, faults,    \* what the bounds count
    overrun     \* history: messages whose lease ran out under its holder

mailbox == <<arrived, conn>>
store == <<imports, emails, jobs, acquired, skipped>>
bounds == <<changes, faults, overrun>>
vars == <<mailbox, store, at, my, bounds>>

Inbox == 1..Messages
Processes == Pollers \cup Users
MutantLower(x, y) == x
Lower(x, y) == IF x < y THEN x ELSE y

\* Begins at the history as it is, without a page or pending messages.
Monitor(enabled, cursor) ==
    [enabled |-> enabled, since |-> cursor, cursor |-> cursor, token |-> 0,
     pending |-> {}, next |-> 0, upto |-> 0]
Stopped == Monitor(FALSE, 0)
Started == Monitor(TRUE, arrived)
Connection(monitor) == [monitor |-> monitor, lease |-> Nobody, over |-> FALSE]
NoConnection == [Connection(Stopped) EXCEPT !.lease = "none"]
Unclaimed(lease) == [lease |-> lease, over |-> FALSE, completed |-> FALSE]
Blank == [message |-> 0, state |-> Stopped, before |-> Stopped, code |-> "ok"]

\* Gmail is connected; the monitor may have just been started.
Init ==
    /\ arrived = 0
    /\ conn \in {Connection(Stopped), Connection(Started)}
    /\ imports = [m \in Inbox |-> Unclaimed(Nobody)]
    /\ emails = [m \in Inbox |-> 0] /\ jobs = [m \in Inbox |-> 0]
    /\ acquired = {} /\ skipped = {}
    /\ at = [p \in Processes |-> "idle"] /\ my = [p \in Processes |-> Blank]
    /\ changes = 0 /\ faults = 0 /\ overrun = {}

Go(p, from, to, local) ==
    /\ at[p] = from
    /\ at' = [at EXCEPT ![p] = to]
    /\ my' = [my EXCEPT ![p] = local]
Step(p, from, to) == Go(p, from, to, my[p])

Fault == faults < MaxFaults /\ faults' = faults + 1 /\ UNCHANGED <<changes, overrun>>

Arrive ==
    /\ arrived < Messages /\ arrived' = arrived + 1
    /\ UNCHANGED <<conn, store, at, my, bounds>>

----------------------------------------------------------------------------
(* The user: set_monitor(), disconnect(), callback(). *)

Change(becomes) ==
    /\ changes < MaxChanges /\ changes' = changes + 1
    /\ conn' = becomes
    /\ UNCHANGED <<arrived, store, at, my, faults, overrun>>

Start == conn # NoConnection /\ Change(Connection(Started))
Stop == conn # NoConnection /\ Change(Connection(Stopped))
Disconnect == Change(NoConnection)
Connect == Change(Connection(Stopped))

----------------------------------------------------------------------------
(* import_message(), by a poll or by hand. *)

\* The poll goes on with the next message, skips this one, or gives up and
\* puts back the monitor it began with.
Goes(p, from, code) ==
    LET m == my[p].message
        rest == [my[p] EXCEPT !.state.pending = @ \ {m}, !.message = 0]
    IN  /\ IF p \in Users THEN Go(p, from, "idle", Blank)
           ELSE IF code = "error"
                THEN Go(p, from, "save", [my[p] EXCEPT !.state = my[p].before, !.message = 0])
                ELSE Go(p, from, "next", rest)
        /\ skipped' = IF p \in Pollers /\ code = "skip" THEN skipped \cup {m} ELSE skipped

\* Upsert and read; the message may be imported already, or even expired.
Register(p) ==
    LET m == my[p].message IN
    /\ at[p] = "register"
    /\ IF imports[m].completed
       THEN Goes(p, "register", IF emails[m] = 0 THEN "skip" ELSE "ok")
       ELSE Step(p, "register", "claim") /\ UNCHANGED skipped
    /\ UNCHANGED <<mailbox, imports, emails, jobs, acquired, bounds>>

MutantFree(import) == ~import.completed /\ import.lease = Nobody
Free(import) == ~import.completed /\ (import.lease = Nobody \/ import.over)

Claim(p) ==
    LET m == my[p].message IN
    /\ at[p] = "claim"
    /\ IF Free(imports[m])
       THEN /\ imports' = [imports EXCEPT ![m] = Unclaimed(p)]
            /\ Step(p, "claim", "find") /\ UNCHANGED skipped
       ELSE Goes(p, "claim", "error") /\ UNCHANGED imports
    /\ UNCHANGED <<mailbox, emails, jobs, acquired, bounds>>

\* An import that a crash cut short left its email behind, perhaps no job.
MutantRecover(m) == "fetch"
MutantNoJob(m) == IF emails[m] = 0 THEN "fetch" ELSE "mark"
Recover(m) ==
    IF emails[m] = 0 THEN "fetch" ELSE IF jobs[m] = 0 THEN "job" ELSE "mark"

Find(p) ==
    /\ at[p] = "find" /\ Step(p, "find", Recover(my[p].message))
    /\ UNCHANGED <<mailbox, store, bounds>>

\* The raw message: there, gone or too large (404, 413), or not to be had now.
Fetch(p) ==
    /\ \/ Step(p, "fetch", "email") /\ UNCHANGED bounds
       \/ Go(p, "fetch", "release", [my[p] EXCEPT !.code = "skip"]) /\ UNCHANGED bounds
       \/ Go(p, "fetch", "release", [my[p] EXCEPT !.code = "error"]) /\ Fault
    /\ UNCHANGED <<mailbox, store>>

\* acquire(): the evidence and its email, then the job.
InsertEmail(p) ==
    LET m == my[p].message IN
    /\ Step(p, "email", "job")
    /\ emails' = [emails EXCEPT ![m] = @ + 1]
    /\ acquired' = acquired \cup {m}
    /\ UNCHANGED <<mailbox, imports, jobs, skipped, bounds>>

InsertJob(p) ==
    /\ Step(p, "job", "mark")
    /\ jobs' = [jobs EXCEPT ![my[p].message] = @ + 1]
    /\ UNCHANGED <<mailbox, imports, emails, acquired, skipped, bounds>>

Mine(p) == imports[my[p].message].lease = p

Mark(p) ==
    LET m == my[p].message IN
    /\ at[p] = "mark" /\ Goes(p, "mark", "ok")
    /\ imports' = IF Mine(p) THEN [imports EXCEPT ![m] =
                        [Unclaimed(Nobody) EXCEPT !.completed = TRUE]] ELSE imports
    /\ UNCHANGED <<mailbox, emails, jobs, acquired, bounds>>

Release(p) ==
    LET m == my[p].message IN
    /\ at[p] = "release" /\ Goes(p, "release", my[p].code)
    /\ imports' = IF Mine(p) THEN [imports EXCEPT ![m] = Unclaimed(Nobody)] ELSE imports
    /\ UNCHANGED <<mailbox, emails, jobs, acquired, bounds>>

\* POST /gmail/emails/{id}/import.
ImportByHand(u, m) ==
    /\ m <= arrived /\ conn # NoConnection /\ changes < MaxChanges
    /\ Go(u, "idle", "register", [Blank EXCEPT !.message = m])
    /\ changes' = changes + 1
    /\ UNCHANGED <<mailbox, store, faults, overrun>>

----------------------------------------------------------------------------
(* monitor_tick() and poll_connection(). *)

\* The monitor of an account that is no longer active is stopped; what else a
\* stopped monitor keeps is never read.
Poll(p) ==
    LET begun == [Blank EXCEPT !.state = conn.monitor, !.before = conn.monitor] IN
    /\ conn.monitor.enabled /\ (conn.lease = Nobody \/ conn.over)
    /\ conn' = [conn EXCEPT !.lease = p, !.over = FALSE]
    /\ \/ Go(p, "idle", IF conn.monitor.pending = {} THEN "history" ELSE "next", begun)
       \/ Go(p, "idle", "save", [begun EXCEPT !.state.enabled = FALSE])
    /\ UNCHANGED <<arrived, store, bounds>>

\* A page of what arrived after the cursor.
Page(state) ==
    LET from == IF state.token = 0 THEN state.cursor ELSE state.token
        last == Lower(from + PageSize, arrived)
    IN  [state EXCEPT !.pending = (from + 1)..last, !.upto = arrived,
                      !.next = IF last < arrived THEN last ELSE 0]

\* 404: the history has expired, and the monitor is disabled.
History(p) ==
    /\ \/ /\ Go(p, "history", "next", [my[p] EXCEPT !.state = Page(@)])
          /\ UNCHANGED bounds
       \/ /\ Go(p, "history", "save", [my[p] EXCEPT !.state.enabled = FALSE])
          /\ Fault
       \/ Step(p, "history", "save") /\ Fault
    /\ UNCHANGED <<mailbox, store>>

\* The first one left, as long as the monitor is enabled.
NextMessage(p) ==
    /\ \E m \in my[p].state.pending :
        /\ \A o \in my[p].state.pending : m <= o
        /\ IF conn.monitor.enabled
           THEN Go(p, "next", "register", [my[p] EXCEPT !.message = m])
           ELSE Go(p, "next", "save", [my[p] EXCEPT !.state.enabled = FALSE])
    /\ UNCHANGED <<mailbox, store, bounds>>

\* What is left is kept for the next poll after 30 seconds.
Late(p) ==
    /\ my[p].state.pending # {} /\ Step(p, "next", "save") /\ Fault
    /\ UNCHANGED <<mailbox, store>>

\* The page is done: to the next one, or past everything listed.
MutantTurned(state) == [state EXCEPT !.token = state.next, !.cursor = state.upto]
Turned(state) ==
    IF state.next # 0 THEN [state EXCEPT !.token = state.next, !.next = 0]
    ELSE [state EXCEPT !.token = 0, !.cursor = state.upto]

TurnPage(p) ==
    /\ my[p].state.pending = {}
    /\ Go(p, "next", "save", [my[p] EXCEPT !.state = Turned(@)])
    /\ UNCHANGED <<mailbox, store, bounds>>

StillHeld(p) == conn.monitor.enabled /\ conn.lease = p

Save(p) ==
    /\ Go(p, "save", "idle", Blank)
    /\ conn' = IF StillHeld(p) THEN Connection(my[p].state) ELSE conn
    /\ UNCHANGED <<arrived, store, bounds>>

----------------------------------------------------------------------------
(* Processes that are lost, and leases that run out. *)

Crash(p) ==
    /\ at[p] # "idle" /\ Go(p, at[p], "idle", Blank) /\ Fault
    /\ UNCHANGED <<mailbox, store>>

Holding(p, m) == my[p].message = m /\ at[p] \in {"find", "fetch", "email", "job", "mark", "release"}
Polling(p) == p \in Pollers /\ at[p] # "idle"

\* Of a holder that is gone at some time, of a slow one perhaps.
LeaseRunsOut(m) ==
    LET p == imports[m].lease IN
    /\ p # Nobody /\ ~imports[m].over
    /\ imports' = [imports EXCEPT ![m].over = TRUE]
    /\ IF Holding(p, m)
       THEN /\ faults < MaxFaults /\ faults' = faults + 1
            /\ overrun' = overrun \cup {m} /\ UNCHANGED changes
       ELSE UNCHANGED bounds
    /\ UNCHANGED <<mailbox, emails, jobs, acquired, skipped, at, my>>

PollLeaseRunsOut ==
    /\ conn.lease \in Pollers /\ ~conn.over
    /\ conn' = [conn EXCEPT !.over = TRUE]
    /\ IF Polling(conn.lease) THEN Fault ELSE UNCHANGED bounds
    /\ UNCHANGED <<arrived, store, at, my>>

\* Retention deletes an imported email (Investigations).
Expire(m) ==
    /\ imports[m].completed /\ emails[m] > 0 /\ changes < MaxChanges
    /\ emails' = [emails EXCEPT ![m] = 0] /\ jobs' = [jobs EXCEPT ![m] = 0]
    /\ changes' = changes + 1
    /\ UNCHANGED <<mailbox, imports, acquired, skipped, at, my, faults, overrun>>

----------------------------------------------------------------------------

Import(p) ==
    \/ Register(p) \/ Claim(p) \/ Find(p) \/ Fetch(p) \/ InsertEmail(p) \/ InsertJob(p)
    \/ Mark(p) \/ Release(p)
Watch(p) == Poll(p) \/ History(p) \/ NextMessage(p) \/ TurnPage(p) \/ Save(p)

Next ==
    \/ Arrive \/ Start \/ Stop \/ Disconnect \/ Connect \/ PollLeaseRunsOut
    \/ \E m \in Inbox : LeaseRunsOut(m) \/ Expire(m)
    \/ \E p \in Processes : Import(p) \/ Crash(p)
    \/ \E p \in Pollers : Watch(p) \/ Late(p)
    \/ \E u \in Users, m \in Inbox : ImportByHand(u, m)

Spec == Init /\ [][Next]_vars

\* The scheduler ticks every few seconds, a process takes its next step, and
\* leases run out; faults are bounded.
Fairness ==
    /\ \A p \in Processes : WF_vars(Import(p))
    /\ \A p \in Pollers : WF_vars(Watch(p))
    /\ \A m \in Inbox : WF_vars(LeaseRunsOut(m))
    /\ WF_vars(PollLeaseRunsOut)

FairSpec == Spec /\ Fairness

----------------------------------------------------------------------------
(* Properties. *)

Monitors == [enabled : BOOLEAN, since : 0..Messages, cursor : 0..Messages,
             token : 0..Messages, pending : SUBSET Inbox, next : 0..Messages,
             upto : 0..Messages]

TypeOK ==
    /\ arrived \in 0..Messages
    /\ conn \in [monitor : Monitors, lease : Pollers \cup {Nobody, "none"}, over : BOOLEAN]
    /\ imports \in [Inbox -> [lease : Processes \cup {Nobody}, over : BOOLEAN,
                              completed : BOOLEAN]]
    /\ emails \in [Inbox -> Nat] /\ jobs \in [Inbox -> Nat]
    /\ acquired \subseteq Inbox /\ skipped \subseteq Inbox /\ overrun \subseteq Inbox
    /\ changes \in 0..MaxChanges /\ faults \in 0..MaxFaults
    /\ my \in [Processes -> [message : 0..Messages, state : Monitors, before : Monitors,
                             code : {"ok", "skip", "error"}]]

\* The monitor implements MailboxDelivery: whatever pages, crashes, errors,
\* restarts and leases do, its cursor passes a message only when that was
\* imported or recorded as skipped (mailbox_monitor.py:135-138, 156-161).
Delivery == INSTANCE MailboxDelivery WITH
    handled <- acquired \cup skipped,
    watch <- IF conn.monitor.enabled
             THEN [on |-> TRUE, since |-> conn.monitor.since, upto |-> conn.monitor.cursor]
             ELSE [on |-> FALSE, since |-> 0, upto |-> 0]
Delivers == Delivery!Spec

\* A message becomes one email, also across crashes and retries, unless a lease
\* ran out under a holder still at work ("Do not create duplicate evidence on
\* every poll", mailbox_monitor.py:47).
NoDuplicates == \A m \in Inbox \ overrun : emails[m] <= 1

\* An import marked complete has left an email with its job, or retention has
\* taken both: a crash between the two is made good (mailbox_monitor.py:49-56),
\* unless a lease ran out under a holder still at work.
ImportsAreQueued ==
    \A m \in Inbox \ overrun : imports[m].completed => (jobs[m] > 0 \/ emails[m] = 0)

\* A message that arrives under a watch is handled in the end, unless the user
\* or Gmail ends the watch or the user starts another.
EventuallyHandled ==
    \A m \in Inbox : \A s \in 0..(m - 1) :
        (conn.monitor.enabled /\ conn.monitor.since = s /\ arrived >= m)
            ~> (m \in acquired \cup skipped
                \/ ~conn.monitor.enabled \/ conn.monitor.since # s)
=============================================================================
