--------------------------- MODULE MailboxDelivery ---------------------------
(***************************************************************************)
(* What monitoring a mailbox promises, whatever polls, pages, leases and   *)
(* crashes it takes: the cursor moves past a message only when that        *)
(* message was imported or recorded as skipped, and every message that     *)
(* arrives under an undisturbed watch is handled in the end.               *)
(***************************************************************************)
EXTENDS Integers

CONSTANT Messages       \* how many messages arrive, numbered in their order

VARIABLES
    arrived,    \* messages in the mailbox
    handled,    \* messages imported or skipped on record
    watch       \* [on, since, upto]: the watch and its cursor

vars == <<arrived, handled, watch>>

Off == [on |-> FALSE, since |-> 0, upto |-> 0]

Init == arrived = 0 /\ handled = {} /\ watch \in [on : BOOLEAN, since : {0}, upto : {0}]

Arrive ==
    /\ arrived < Messages
    /\ arrived' = arrived + 1
    /\ UNCHANGED <<handled, watch>>

Handle(m) ==
    /\ handled' = handled \cup {m}
    /\ UNCHANGED <<arrived, watch>>

\* A watch begins at the mailbox as it is.
Begin ==
    /\ watch' = [on |-> TRUE, since |-> arrived, upto |-> arrived]
    /\ UNCHANGED <<arrived, handled>>

End == watch' = Off /\ UNCHANGED <<arrived, handled>>

Advance(k) ==
    /\ watch.on /\ k \in watch.upto..arrived
    /\ \A m \in (watch.upto + 1)..k : m \in handled
    /\ watch' = [watch EXCEPT !.upto = k]
    /\ UNCHANGED <<arrived, handled>>

Next ==
    \/ Arrive \/ Begin \/ End
    \/ \E m \in 1..arrived : Handle(m)
    \/ \E k \in 0..arrived : Advance(k)

Spec == Init /\ [][Next]_vars

\* Everything between the start of the watch and its cursor was handled: no
\* message is passed over silently.
NothingMissed == watch.on => \A m \in (watch.since + 1)..watch.upto : m \in handled
=============================================================================
