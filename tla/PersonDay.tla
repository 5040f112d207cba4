------------------------------ MODULE PersonDay ------------------------------
(***************************************************************************)
(* A person's day as the dashboard and the reports show it: buildPersonDay *)
(* of src/src/reports/person-day.ts, lines 99-137, worked out from the     *)
(* sessions and breaks of AttendanceSession at the moment somebody looks.  *)
(* Whether a check-in is late, the leaves and the tasks are left out.      *)
(***************************************************************************)
EXTENDS AttendanceSession

\* The sessions of e that were begun on the day.
SessionsOf(e, d) ==
  {a \in Sessions : /\ Exists(a)
                    /\ session[a].employee = e
                    /\ session[a].checkIn \div DayTicks = d}

\* A break still open counts up to now.
ShownBreakMinutes(a) ==
  SumFunction([b \in BreaksOf(a) |-> IF break[b].end = NoTime
                                     THEN MinutesBetween(break[b].start, now)
                                     ELSE break[b].duration])

\* A finished session counts what its row says, a running one the time since
\* its check-in without its breaks.
ShownMinutes(a) ==
  IF session[a].checkOut # NoTime
  THEN session[a].workingMinutes
  ELSE NetMinutes(session[a].checkIn, now, ShownBreakMinutes(a))

WorkedMinutes(e, d) == SumFunction([a \in SessionsOf(e, d) |-> ShownMinutes(a)])

-----------------------------------------------------------------------------
(* Properties *)

\* The end of a session, by a check-out or by a sweep, which cuts it back to
\* an earlier time, adds nothing to the day's hours: what was shown while it ran
\* was not less than what stays, but for a minute lost in rounding.  A
\* check-out during a break, which the code takes for work, is no such end.
EndAddsNoHours ==
  [][\A a \in Sessions :
       /\ IsOpen(a) /\ session[a].checkOut = NoTime
       /\ IsClosed(a)' /\ OpenBreaksOf(a)' = {}
       => LET e == session[a].employee
              d == session[a].checkIn \div DayTicks
          IN  WorkedMinutes(e, d)' <= WorkedMinutes(e, d) + 1]_vars
=============================================================================
