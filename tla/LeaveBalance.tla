---------------------------- MODULE LeaveBalance ----------------------------
(***************************************************************************)
(* How much leave a person has taken: getLeaveBalance of                   *)
(* src/src/admin/admin.service.ts, lines 720-804, worked out from the      *)
(* leaves of LeaveRequests, for one type of leave.  An allowance is        *)
(* compared with nothing when leave is asked for or approved, so it has no *)
(* part here.                                                              *)
(***************************************************************************)
EXTENDS LeaveRequests

CONSTANTS
  YearDays,      \* the days in a year
  WorkingDays    \* the days of the calendar whose weekday is in Settings.workingDays

ASSUME BalanceAssumption ==
  /\ YearDays \in Nat \ {0}
  /\ WorkingDays \subseteq Days

Years == {d \div YearDays : d \in Days}

YearStart(y) == y * YearDays
YearEnd(y) == y * YearDays + YearDays - 1

\* The leaves of e that the query returns: with a day in the year.
Counted(e, y, status) ==
  {l \in LeavesOf(e) :
     /\ leave[l].status = status
     /\ leave[l].period.first <= YearEnd(y)
     /\ leave[l].period.last >= YearStart(y)}

\* Mutant: a leave over New Year counts whole in both years.
DaysOf_whole(p, y) ==
  IF p.from # Blank THEN 0 ELSE Cardinality((p.first .. p.last) \cap WorkingDays)

\* The working days of the year that a leave takes.  Hours take none: they are
\* summed apart, in minutes.
DaysOf(p, y) ==
  IF p.from # Blank THEN 0
  ELSE LET from == Max({p.first, YearStart(y)})
           to   == Min({p.last, YearEnd(y)})
       IN  Cardinality((from .. to) \cap WorkingDays)

DaysTaken(e, y, status) ==
  SumFunction([l \in Counted(e, y, status) |-> DaysOf(leave[l].period, y)])

\* usedMinutes or pendingMinutes: the durationMinutes of the leaves of hours.
MinutesTaken(e, y, status) ==
  SumFunction([l \in Counted(e, y, status) |->
                 LET p == leave[l].period
                 IN  IF p.from = Blank THEN 0 ELSE p.to - p.from])

-----------------------------------------------------------------------------
(* Properties *)

\* What the leaves of e with this status cover of a year: its working days, and
\* the minutes of its leaves of hours.
DaysCovered(e, y, status) ==
  {d \in WorkingDays :
     /\ d \div YearDays = y
     /\ \E l \in LeavesOf(e) :
          leave[l].status = status /\ {d} \X ClockTimes \subseteq Covers(leave[l].period)}

MinutesCovered(e, y, status) ==
  {t \in Days \X ClockTimes :
     /\ t[1] \div YearDays = y
     /\ \E l \in LeavesOf(e) : /\ leave[l].status = status
                               /\ leave[l].period.from # Blank
                               /\ t \in Covers(leave[l].period)}

\* Every working day and every minute of hours that live leaves take off is
\* counted once, in the year in which it lies, and as used or pending as the
\* leave is: a leave over New Year is split between the years, weekends and
\* hours cost no day ("counts working days only", admin.service.ts:721).  Where
\* two live leaves share a day (see LiveLeavesApart) it is counted twice.
BalanceCountsOnce ==
  LiveLeavesApart =>
    \A e \in Employees, y \in Years, status \in Live :
      /\ DaysTaken(e, y, status) = Cardinality(DaysCovered(e, y, status))
      /\ MinutesTaken(e, y, status) = Cardinality(MinutesCovered(e, y, status))
=============================================================================
