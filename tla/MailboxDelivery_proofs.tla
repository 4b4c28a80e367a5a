------------------------ MODULE MailboxDelivery_proofs ------------------------
(***************************************************************************)
(* What the promise of MailboxDelivery amounts to, for any number of       *)
(* messages: GmailMonitor_proofs shows that the monitor keeps it.          *)
(***************************************************************************)
EXTENDS MailboxDelivery, TLAPS

Watches == [on : BOOLEAN, since : Nat, upto : Nat]

DeliveryInv ==
    /\ arrived \in Nat
    /\ watch \in Watches
    /\ watch.upto <= arrived
    /\ NothingMissed

\* Initially nothing has arrived, so nothing can have been passed over.
LEMMA DeliveryInit == Init => DeliveryInv
<1> SUFFICES ASSUME Init PROVE DeliveryInv
  OBVIOUS
<1>1. watch \in Watches /\ watch.since = 0 /\ watch.upto = 0
  BY DEF Init, Off, Watches
<1> QED
  BY <1>1 DEF Init, DeliveryInv, NothingMissed

\* No step moves the cursor over a message that is not handled, and a handled
\* message stays handled.
LEMMA DeliveryStep == DeliveryInv /\ [Next]_vars => DeliveryInv'
<1> SUFFICES ASSUME DeliveryInv, [Next]_vars PROVE DeliveryInv'
  OBVIOUS
<1> USE DEF DeliveryInv, Watches, NothingMissed
<1>1. CASE Arrive
  BY <1>1 DEF Arrive
<1>2. CASE Begin
  BY <1>2 DEF Begin
<1>3. CASE End
  BY <1>3 DEF End, Off
<1>4. CASE \E m \in 1..arrived : Handle(m)
  BY <1>4 DEF Handle
<1>5. CASE \E k \in 0..arrived : Advance(k)
  <2>1. PICK k \in 0..arrived : Advance(k)
    BY <1>5
  <2>2. /\ watch' = [watch EXCEPT !.upto = k]
        /\ arrived' = arrived /\ handled' = handled /\ watch.on
        /\ \A m \in (watch.upto + 1)..k : m \in handled
    BY <2>1 DEF Advance
  <2>3. \A m \in (watch.since + 1)..k : m \in handled
    BY <2>2
  <2> QED
    BY <2>2, <2>3
<1>6. CASE UNCHANGED vars
  BY <1>6 DEF vars
<1> QED
  BY <1>1, <1>2, <1>3, <1>4, <1>5, <1>6 DEF Next

\* Nothing is missed: whenever a watch is on, every message between its start
\* and its cursor was imported or recorded as skipped.
THEOREM NothingIsMissed == Spec => []NothingMissed
<1>1. DeliveryInv => NothingMissed
  BY DEF DeliveryInv
<1> QED
  BY <1>1, DeliveryInit, DeliveryStep, PTL DEF Spec
=============================================================================
