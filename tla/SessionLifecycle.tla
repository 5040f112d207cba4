-------------------------- MODULE SessionLifecycle --------------------------
(***************************************************************************)
(* What the attendance service promises of a session, without its          *)
(* breaks, its minutes and the database calls it is made of: a session is  *)
(* opened by a check-in, closed by its employee or by a sweep, corrected   *)
(* after that, and opened again when a break that outlived the check-out   *)
(* is ended.                                                               *)
(*                                                                         *)
(* OneAtATime is the promise when requests do not overlap.  Without it a   *)
(* person's write may land on a session that has meanwhile been closed or  *)
(* opened by somebody else; a sweep's never does.                          *)
(***************************************************************************)
EXTENDS CompanyTime

CONSTANTS Sessions, OneAtATime

VARIABLES
  clock,
  entry      \* session -> phase, in, out, and whether a sweep closed it

vars == <<clock, entry>>

Absent == [phase |-> "none", in |-> NoTime, out |-> NoTime, auto |-> FALSE]

Init ==
  /\ clock = 0
  /\ entry = [a \in Sessions |-> Absent]

Set(a, phase, in, out, auto) ==
  /\ entry' = [entry EXCEPT ![a] = [phase |-> phase, in |-> in, out |-> out, auto |-> auto]]
  /\ UNCHANGED clock

\* The phase a person's write expects: certain only if nobody is in between.
Expects(a, phase) ==
  /\ entry[a].phase # "none"
  /\ OneAtATime => entry[a].phase = phase

\* From the check-in, excluded, to the midnight that ends its day.
RestOfDay(a) == entry[a].in + 1 .. NextMidnight(entry[a].in)

CheckIn(a) ==
  /\ entry[a].phase = "none"
  /\ \E t \in 0 .. clock : Set(a, "open", t, NoTime, FALSE)

CheckOut(a) ==
  /\ Expects(a, "open")
  /\ \E t \in entry[a].in .. clock :
       Set(a, "closed", entry[a].in, t, entry[a].auto)

AutoCheckOut(a) ==
  /\ entry[a].phase = "open"
  /\ NextMidnight(entry[a].in) <= clock
  /\ \E t \in RestOfDay(a) : Set(a, "closed", entry[a].in, t, TRUE)

Correct(a) ==
  /\ Expects(a, "closed")
  /\ \E t \in RestOfDay(a) : Set(a, entry[a].phase, entry[a].in, t, FALSE)

\* A session a sweep has closed stays closed.
Resume(a) ==
  /\ Expects(a, "closed")
  /\ OneAtATime => ~entry[a].auto
  /\ Set(a, "open", entry[a].in, entry[a].out, entry[a].auto)

Tick == clock' = clock + 1 /\ UNCHANGED entry

Next ==
  \/ Tick
  \/ \E a \in Sessions :
       CheckIn(a) \/ CheckOut(a) \/ AutoCheckOut(a) \/ Correct(a) \/ Resume(a)

Spec == Init /\ [][Next]_vars
=============================================================================
