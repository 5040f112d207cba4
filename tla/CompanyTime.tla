---------------------------- MODULE CompanyTime ----------------------------
(***************************************************************************)
(* The company's wall clock (src/src/common/time.ts) and the moment a      *)
(* forgotten session is closed at (autoCheckOutTime and minutesBetween of  *)
(* src/src/attendance/attendance.service.ts).                              *)
(*                                                                         *)
(* An instant is a number of ticks since some company midnight, so the     *)
(* zone offset has no part here: every day has DayTicks ticks, as in the   *)
(* default zone, Asia/Kolkata, which has no summer time.  A tick is a      *)
(* fraction of a minute: durations are floored to whole minutes, as in the *)
(* code.                                                                   *)
(***************************************************************************)
EXTENDS FiniteSetsExt

CONSTANTS
  MinuteTicks,   \* ticks in a minute
  DayMinutes     \* minutes in a day

ASSUME ClockAssumption ==
  /\ MinuteTicks \in Nat \ {0}
  /\ DayMinutes \in Nat \ {0}

DayTicks == DayMinutes * MinuteTicks

Instants == Nat

\* The null of a DateTime? column, and of a function that answers Date | null.
NoTime == -1

StartOfDay(t) == (t \div DayTicks) * DayTicks

NextMidnight(t) == StartOfDay(t) + DayTicks

\* "HH:mm" strings: those parseClockTime accepts, and one that it refuses.
ClockTimes == 0 .. DayMinutes - 1
Malformed == -1
Clocks == ClockTimes \cup {Malformed}

AtClockTime(day, clock) ==
  IF clock \in ClockTimes THEN StartOfDay(day) + clock * MinuteTicks ELSE NoTime

\* Mutant: not floored at 0.
MinutesBetween_signed(from, to) == (to - from) \div MinuteTicks

MinutesBetween(from, to) ==
  IF to <= from THEN 0 ELSE (to - from) \div MinuteTicks

\* A shift's times are free text for the admin API (dto/create-shift.dto.ts);
\* "no shift" is closed like a shift whose times do not parse.
ShiftRecords == [start : Clocks, end : Clocks]
NoShift == [start |-> Malformed, end |-> Malformed]

(***************************************************************************)
(* When a forgotten session is closed: the end of the shift, pushed later  *)
(* to cover the breaks' instants `stamps` (starts and recorded ends), and  *)
(* never past the midnight that ends the day of the check-in.              *)
(***************************************************************************)
AutoCheckOutTime(checkIn, stamps, shift) ==
  LET midnight   == NextMidnight(checkIn)
      shiftStart == AtClockTime(checkIn, shift.start)
      shiftEnd   == AtClockTime(checkIn, shift.end)
  IN  IF \/ shiftStart = NoTime \/ shiftEnd = NoTime
         \/ shiftEnd <= shiftStart
         \/ shiftEnd <= checkIn
      THEN midnight
      ELSE Min({midnight, Max({shiftEnd} \cup stamps)})
=============================================================================
