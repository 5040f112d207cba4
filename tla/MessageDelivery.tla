--------------------------- MODULE MessageDelivery ---------------------------
(***************************************************************************)
(* What the scheduler promises of a message, without the jobs that find it *)
(* due and the ticks they run in: whoever is first to claim it has one go  *)
(* at sending it, in the time it is good for, and nobody ever has another, *)
(* though the claim is forgotten in the end.                               *)
(***************************************************************************)
EXTENDS CompanyTime

CONSTANTS
  Senders,       \* who may send
  Sessions,      \* what the notices are about
  NoticeSpan,    \* how long a notice may be due, from the midnight after the check-in
  Patience,      \* how long a message may be under way after it was last due
  None

VARIABLES
  clock,
  begun,     \* session -> its check-in
  claimed,   \* the messages that nobody may claim (again)
  trying,    \* sender -> the message it has claimed and not yet done with
  sent       \* the messages delivered

vars == <<clock, begun, claimed, trying, sent>>

\* The first instant a message can be due, and how long it can be.
Birth(k) ==
  IF k.kind = "autoclose" THEN NextMidnight(begun[k.of]) ELSE k.day * DayTicks

Span(k) == IF k.kind = "autoclose" THEN NoticeSpan ELSE DayTicks

Over(k) == clock > Birth(k) + Span(k) + Patience

Timely(k) == Birth(k) <= clock /\ ~Over(k)

Untaken(k) ==
  /\ k \notin claimed /\ k \notin sent
  /\ \A i \in Senders : trying[i] # k

Init ==
  /\ clock = 0
  /\ begun = [a \in Sessions |-> NoTime]
  /\ claimed = {}
  /\ trying = [i \in Senders |-> None]
  /\ sent = {}

\* The first to claim k has it.
Take(i, k) ==
  /\ trying[i] = None
  /\ k # None /\ Timely(k) /\ Untaken(k)
  /\ claimed' = claimed \cup {k}
  /\ trying' = [trying EXCEPT ![i] = k]
  /\ UNCHANGED <<clock, begun, sent>>

\* The claim is made and the claimant does not know.
Waste(k) ==
  /\ Timely(k) /\ Untaken(k)
  /\ claimed' = claimed \cup {k}
  /\ UNCHANGED <<clock, begun, trying, sent>>

Deliver(i) ==
  /\ trying[i] # None
  /\ trying[i] \notin sent
  /\ Timely(trying[i])
  /\ sent' = sent \cup {trying[i]}
  /\ trying' = [trying EXCEPT ![i] = None]
  /\ UNCHANGED <<clock, begun, claimed>>

\* The one go has failed, or was the cleanup's, which delivers nothing: it
\* forgets claims, of messages that are over.
GiveUp(i) ==
  /\ trying[i] # None
  /\ trying' = [trying EXCEPT ![i] = None]
  /\ claimed' \subseteq claimed
  /\ \A k \in claimed \ claimed' : Over(k) /\ trying[i].kind = "cleanup"
  /\ UNCHANGED <<clock, begun, sent>>

\* A session is begun, once.
Begin(a) ==
  /\ begun[a] = NoTime
  /\ \E t \in 0 .. clock : begun' = [begun EXCEPT ![a] = t]
  /\ UNCHANGED <<clock, claimed, trying, sent>>

Tick ==
  /\ clock' = clock + 1
  /\ UNCHANGED <<begun, claimed, trying, sent>>

\* A step that adds to the claims tells which message it is about.
Next ==
  \/ \E k \in claimed' : Waste(k) \/ \E i \in Senders : Take(i, k)
  \/ \E i \in Senders : Deliver(i) \/ GiveUp(i)
  \/ \E a \in Sessions : Begin(a)
  \/ Tick

Spec == Init /\ [][Next]_vars
=============================================================================
